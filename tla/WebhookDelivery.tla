-------------------------- MODULE WebhookDelivery --------------------------
(***************************************************************************)
(* Webhooks: WebhookService.notify (src/src/application/                   *)
(* webhook.service.ts) writes a delivery row and enqueues a job, a BullMQ  *)
(* worker posts it to the seller.  The repository has the queue and the    *)
(* worker twice, and a behaviour uses one of them:                         *)
(*   "webhooks"  infrastructure/webhook-queue.ts and webhook-worker.ts:    *)
(*               the job is named by event, request and millisecond, the   *)
(*               worker leaves the row alone;                              *)
(*   "webhook"   infrastructure/queue.ts and workers/webhook.worker.ts:    *)
(*               the job is named by the delivery row, the worker tries to *)
(*               write the outcome of every attempt to the row.            *)
(*                                                                         *)
(* All notifications are about one request of one seller: nothing else is  *)
(* shared.  BullMQ and the seller's server are external.                   *)
(***************************************************************************)
EXTENDS Integers

CONSTANTS
  Notes,        \* calls of notify
  NoNote,       \* a worker without a job, a job without a worker
  Workers,      \* job slots of the workers
  Events,       \* payment.verified, payment.settled, payment.failed
  MaxAttempts,  \* attempts of a job (5 in the code)
  MaxStalled,   \* stalls a job survives (BullMQ's default is 1)
  MaxTime,      \* bound: milliseconds
  MaxFaults     \* bound: crashes and PostgreSQL/Redis errors in one behaviour

ASSUME NoNoteAssumption == NoNote \notin Notes \cup Workers
ASSUME BoundsAssumption ==
  MaxAttempts \in Nat \ {0} /\ MaxStalled \in Nat /\ MaxTime \in Nat /\ MaxFaults \in Nat

VARIABLES
  queue,    \* which of the two implementations runs
  now,      \* the millisecond
  pc,       \* pc[n]: where notify stands
  event,    \* event[n]: the event it is called for
  row,      \* row[n]: status of its webhook_deliveries row
  job,      \* job[n]: the BullMQ job it added
  task,     \* task[w]: the job a worker slot runs
  wpc,      \* wpc[w]: where it stands
  posted,   \* the notifications that were posted to the seller
  acked,    \* those the seller answered 2xx
  faults    \* history: storage errors and crashes so far

noteVars == <<pc, event>>
workerVars == <<task, wpc>>
vars == <<queue, now, noteVars, row, job, workerVars, posted, acked, faults>>

JobStates == {"none", "waiting", "active", "completed", "failed"}
NoJob == [state |-> "none", owner |-> NoNote, at |-> 0, made |-> 0, stalls |-> 0]

\* One type invariant for the whole state.
TypeOK ==
  /\ queue \in {"webhooks", "webhook"}
  /\ now \in 0..MaxTime
  /\ pc \in [Notes -> {"idle", "create", "enqueue", "done"}]
  /\ event \in [Notes -> Events]
  /\ row \in [Notes -> {"none", "pending", "delivered", "failed"}]
  /\ job \in [Notes -> [state : JobStates, owner : Workers \cup {NoNote}, at : 0..MaxTime,
                        made : 0..MaxAttempts, stalls : 0..(MaxStalled + 1)]]
  /\ task \in [Workers -> Notes \cup {NoNote}]
  /\ wpc \in [Workers -> {"idle", "post", "returned", "threw", "crashed"}]
  /\ posted \subseteq Notes
  /\ acked \subseteq posted
  /\ faults \in 0..MaxFaults

Init ==
  /\ queue \in {"webhooks", "webhook"}
  /\ now = 0
  /\ pc = [n \in Notes |-> "idle"]
  /\ event \in [Notes -> Events]
  /\ row = [n \in Notes |-> "none"]
  /\ job = [n \in Notes |-> NoJob]
  /\ task = [w \in Workers |-> NoNote]
  /\ wpc = [w \in Workers |-> "idle"]
  /\ posted = {}
  /\ acked = {}
  /\ faults = 0

Fault ==
  /\ faults < MaxFaults
  /\ faults' = faults + 1

-----------------------------------------------------------------------------
(* WebhookService.notify. *)

Step(n, step) == pc' = [pc EXCEPT ![n] = step] /\ UNCHANGED event

\* A route calls notify and does not wait for it.  Without an active
\* subscription, which the seller may add or delete at any time, or when the
\* query rejects, nothing is done.
Notify(n) ==
  /\ pc[n] = "idle"
  /\ \E found \in BOOLEAN : Step(n, IF found THEN "create" ELSE "done")
  /\ UNCHANGED <<queue, now, row, job, workerVars, posted, acked, faults>>

CreateDelivery(n) ==
  /\ pc[n] = "create"
  /\ row' = [row EXCEPT ![n] = "pending"]
  /\ Step(n, "enqueue")
  /\ UNCHANGED <<queue, now, job, workerVars, posted, acked, faults>>

\* Faulty variant: the name leaves the event out.
SameRequestJob(n, m) == queue = "webhooks" /\ job[m].at = now

\* m's job has the name n's would get now.
SameJob(n, m) ==
  /\ queue = "webhooks"
  /\ event[m] = event[n]
  /\ job[m].at = now

NewJob == [state |-> "waiting", owner |-> NoNote, at |-> now, made |-> 0, stalls |-> 0]

\* BullMQ ignores a job whose name it knows.
AddJob(n) ==
  job' = IF \E m \in Notes : job[m].state # "none" /\ SameJob(n, m)
         THEN job
         ELSE [job EXCEPT ![n] = NewJob]

Enqueue(n) ==
  /\ pc[n] = "enqueue"
  /\ AddJob(n)
  /\ Step(n, "done")
  /\ UNCHANGED <<queue, now, row, workerVars, posted, acked, faults>>

\* A storage call rejects, which the route logs, or the process dies; the
\* effect is done or not done.
NotifyFails(n) ==
  /\ pc[n] \in {"create", "enqueue"}
  /\ Fault
  /\ Step(n, "done")
  /\ \/ UNCHANGED <<row, job>>
     \/ pc[n] = "create" /\ row' = [row EXCEPT ![n] = "pending"] /\ UNCHANGED job
     \/ pc[n] = "enqueue" /\ AddJob(n) /\ UNCHANGED row
  /\ UNCHANGED <<queue, now, workerVars, posted, acked>>

-----------------------------------------------------------------------------
(* The workers. *)

Work(w, step) == wpc' = [wpc EXCEPT ![w] = step] /\ UNCHANGED task
Owns(w) == job[task[w]].state = "active" /\ job[task[w]].owner = w

\* Faulty variant: a job that waits for its retry is never handed out.
TakeFresh(w, n) ==
  /\ wpc[w] = "idle"
  /\ job[n].state = "waiting"
  /\ job[n].made = 0
  /\ job' = [job EXCEPT ![n].state = "active", ![n].owner = w]
  /\ task' = [task EXCEPT ![w] = n]
  /\ wpc' = [wpc EXCEPT ![w] = "post"]
  /\ UNCHANGED <<queue, now, noteVars, row, posted, acked, faults>>

\* BullMQ hands a waiting job to a free slot.
Take(w, n) ==
  /\ wpc[w] = "idle"
  /\ job[n].state = "waiting"
  /\ job' = [job EXCEPT ![n].state = "active", ![n].owner = w]
  /\ task' = [task EXCEPT ![w] = n]
  /\ wpc' = [wpc EXCEPT ![w] = "post"]
  /\ UNCHANGED <<queue, now, noteVars, row, posted, acked, faults>>

\* The worker of "webhook" updates the row with a column, attempts, that the
\* table does not have (prisma/schema.prisma:208-228): Prisma rejects every
\* update and the error is only logged.
Record == UNCHANGED row

\* The seller answers 2xx in time.
PostAccepted(w) ==
  /\ wpc[w] = "post"
  /\ posted' = posted \cup {task[w]}
  /\ acked' = acked \cup {task[w]}
  /\ Record
  /\ Work(w, "returned")
  /\ UNCHANGED <<queue, now, noteVars, job, faults>>

\* Faulty variant: any answer counts as delivered.
PostAnswered(w) ==
  /\ wpc[w] = "post"
  /\ posted' = posted \cup {task[w]}
  /\ Record
  /\ Work(w, "returned")
  /\ UNCHANGED <<queue, now, noteVars, job, acked, faults>>

\* Another status, the 10 s timeout or a network error: the attempt throws.
PostFails(w) ==
  /\ wpc[w] = "post"
  /\ posted' = posted \cup {task[w]}
  /\ Record
  /\ Work(w, "threw")
  /\ UNCHANGED <<queue, now, noteVars, job, acked, faults>>

Release(w) ==
  /\ task' = [task EXCEPT ![w] = NoNote]
  /\ wpc' = [wpc EXCEPT ![w] = "idle"]

\* The job completes, if the slot still owns it.
Complete(w) ==
  /\ wpc[w] = "returned"
  /\ job' = IF Owns(w)
            THEN [job EXCEPT ![task[w]].state = "completed", ![task[w]].owner = NoNote]
            ELSE job
  /\ Release(w)
  /\ UNCHANGED <<queue, now, noteVars, row, posted, acked, faults>>

\* An attempt is counted; the job waits for its next one, or is dead-lettered.
EndAttempt(w, after) ==
  /\ wpc[w] = "threw"
  /\ job' = IF Owns(w)
            THEN [job EXCEPT ![task[w]].state = after, ![task[w]].owner = NoNote,
                             ![task[w]].made = @ + 1]
            ELSE job
  /\ Release(w)
  /\ UNCHANGED <<queue, now, noteVars, row, posted, acked, faults>>

FailAttempt(w) == EndAttempt(w, IF job[task[w]].made + 1 >= MaxAttempts THEN "failed" ELSE "waiting")

\* The job's own lock is not renewed in time; its slot, if alive, goes on.
Stall(n) ==
  /\ job[n].state = "active"
  /\ job' = [job EXCEPT ![n].state = IF job[n].stalls >= MaxStalled THEN "failed" ELSE "waiting",
                        ![n].owner = NoNote, ![n].stalls = @ + 1]
  /\ UNCHANGED <<queue, now, noteVars, row, workerVars, posted, acked, faults>>

\* A slot's process dies and is replaced when its job is found stalled.
WorkerCrashes(w) ==
  /\ wpc[w] \in {"post", "returned", "threw"}
  /\ Fault
  /\ Work(w, "crashed")
  /\ UNCHANGED <<queue, now, noteVars, row, job, posted, acked>>

WorkerRestarts(w) ==
  /\ wpc[w] = "crashed"
  /\ Release(w)
  /\ UNCHANGED <<queue, now, noteVars, row, job, posted, acked, faults>>

Tick ==
  /\ now < MaxTime
  /\ now' = now + 1
  /\ UNCHANGED <<queue, noteVars, row, job, workerVars, posted, acked, faults>>

NotifyStep(n) == CreateDelivery(n) \/ Enqueue(n)

WorkerStep(w) ==
  \/ PostAccepted(w) \/ PostFails(w)
  \/ Complete(w) \/ FailAttempt(w) \/ WorkerRestarts(w)

Next ==
  \/ \E n \in Notes : \/ Notify(n) \/ NotifyStep(n) \/ NotifyFails(n) \/ Stall(n)
                      \/ \E w \in Workers : Take(w, n)
  \/ \E w \in Workers : WorkerStep(w) \/ WorkerCrashes(w)
  \/ Tick

\* Handlers and workers continue, waiting jobs are handed out and the jobs of
\* dead slots are found.  The seller may fail every POST; its answer's body is
\* assumed to end, since "webhook" reads it after the timeout is cleared.
Fairness ==
  /\ \A n \in Notes : /\ WF_vars(NotifyStep(n))
                      /\ WF_vars(\E w \in Workers : Take(w, n))
                      /\ WF_vars(Stall(n) /\ \A w \in Workers : task[w] = n => wpc[w] = "crashed")
  /\ \A w \in Workers : WF_vars(WorkerStep(w))

Spec == Init /\ [][Next]_vars
FairSpec == Spec /\ Fairness
-----------------------------------------------------------------------------
(* Properties. *)

\* A POST is made only for a notification whose delivery row was
\* committed before: "Persist delivery attempt for audit trail" comes first in
\* notify, and nothing else adds a job.
AuditBeforeDelivery == \A n \in posted : row[n] # "none"

\* A job completes only if the seller answered 2xx, whatever stalls made two
\* slots post the same job: deliverWebhook throws on any other answer.
SuccessMeansAcked == \A n \in Notes : job[n].state = "completed" => n \in acked

\* A job is dead-lettered only after its last attempt, or because it stalled
\* too often: overlapping slots never use up the attempts of one another.
RetriedToTheEnd ==
  \A n \in Notes :
    job[n].state = "failed" => job[n].made >= MaxAttempts \/ job[n].stalls > MaxStalled

\* m's job tells the seller of n's event.
Twin(n, m) == event[m] = event[n] /\ job[m].state # "none"

\* Without a storage error or a crash, a notification with a delivery row has
\* a job, or one with the same event has: naming jobs by event, request and
\* millisecond may merge two notifications, never drop an event.
NoEventLost ==
  \A n \in Notes :
    pc[n] = "done" /\ row[n] # "none" /\ faults = 0 => \E m \in Notes : Twin(n, m)

\* Every job is eventually delivered or dead-lettered, through retries, stalls
\* and crashes of the worker, without help of the seller.
JobsEnd ==
  \A n \in Notes :
    job[n].state = "waiting" ~> job[n].state \in {"completed", "failed"}

=============================================================================
