---------------------- MODULE WebhookDeliveryProofs ----------------------
(***************************************************************************)
(* Proofs about WebhookDelivery, for any number of notifications, worker   *)
(* slots, attempts, stalls and faults.                                     *)
(***************************************************************************)
EXTENDS WebhookDelivery, TLAPS

\* A slot that runs has a job.
Busy == \A w \in Workers : wpc[w] # "idle" => task[w] \in Notes

\* The row comes before the job, the job before the slot.
RowFirst ==
  /\ \A n \in Notes : pc[n] = "enqueue" \/ job[n].state # "none" => row[n] # "none"
  /\ \A w \in Workers : task[w] \in Notes => row[task[w]] # "none"

\* A processor returns after a 2xx only.
ReturnedAcked == \A w \in Workers : wpc[w] = "returned" => task[w] \in acked

\* A job that can run has an attempt left and has not stalled too often.
Budget ==
  \A n \in Notes :
    job[n].state \in {"waiting", "active"} =>
      job[n].made < MaxAttempts /\ job[n].stalls <= MaxStalled

\* Before its create, a notification has no row.
NoRowYet == \A n \in Notes : pc[n] \in {"idle", "create"} => row[n] = "none"

IInv ==
  /\ TypeOK
  /\ Busy
  /\ RowFirst
  /\ ReturnedAcked
  /\ Budget
  /\ NoRowYet
  /\ AuditBeforeDelivery
  /\ SuccessMeansAcked
  /\ RetriedToTheEnd
  /\ NoEventLost

\* What Enqueue leaves: the jobs as they were, one of them about n's event, or a
\* new job of n.
JobAdded(n) == (job' = job /\ \E m \in Notes : Twin(n, m)) \/ job' = [job EXCEPT ![n] = NewJob]

\* Adding a job does one of the two: BullMQ keeps the job whose name it knows.
LEMMA AddJobAdds == ASSUME NEW n \in Notes, AddJob(n) PROVE JobAdded(n)
<1>1. CASE \E m \in Notes : job[m].state # "none" /\ SameJob(n, m)
  BY <1>1 DEF AddJob, JobAdded, SameJob, Twin
<1>2. CASE ~ \E m \in Notes : job[m].state # "none" /\ SameJob(n, m)
  BY <1>2 DEF AddJob, JobAdded
<1> QED BY <1>1, <1>2

JobType == [state : JobStates, owner : Workers \cup {NoNote}, at : 0..MaxTime,
            made : 0..MaxAttempts, stalls : 0..(MaxStalled + 1)]

\* The jobs keep their types when one is added.
LEMMA AddedType ==
  ASSUME TypeOK, NEW n \in Notes, JobAdded(n) PROVE job' \in [Notes -> JobType]
<1>1. NewJob \in JobType
  BY BoundsAssumption DEF NewJob, JobType, JobStates, TypeOK
<1> QED BY <1>1 DEF JobAdded, TypeOK, JobType

\* Every step keeps the types; the budget of a running job bounds its attempts
\* and stalls.
LEMMA TypeStep == ASSUME TypeOK, Busy, Budget, [Next]_vars PROVE TypeOK'
<1> USE BoundsAssumption, NoNoteAssumption DEF TypeOK, JobStates
<1>1. ASSUME NEW n \in Notes, Notify(n) PROVE TypeOK'
  BY <1>1 DEF Notify, Step, workerVars
<1>2. ASSUME NEW n \in Notes, CreateDelivery(n) PROVE TypeOK'
  BY <1>2 DEF CreateDelivery, Step, workerVars
<1>3. ASSUME NEW n \in Notes, Enqueue(n) PROVE TypeOK'
  <2>1. job' \in [Notes -> JobType]
    BY <1>3, AddJobAdds, AddedType DEF Enqueue
  <2> QED BY <1>3, <2>1 DEF Enqueue, Step, JobType, workerVars
<1>4. ASSUME NEW n \in Notes, NotifyFails(n) PROVE TypeOK'
  <2>1. job' \in [Notes -> JobType]
    BY <1>4, AddJobAdds, AddedType DEF NotifyFails, JobType
  <2>2. row' \in [Notes -> {"none", "pending", "delivered", "failed"}]
    BY <1>4 DEF NotifyFails
  <2>3. pc' = [pc EXCEPT ![n] = "done"] /\ UNCHANGED <<event, queue, now, task, wpc, posted, acked>>
    BY <1>4 DEF NotifyFails, Step, workerVars
  <2>4. faults' \in 0..MaxFaults
    BY <1>4 DEF NotifyFails, Fault
  <2> QED BY <2>1, <2>2, <2>3, <2>4 DEF JobType
<1>5. ASSUME NEW n \in Notes, Stall(n) PROVE TypeOK'
  BY <1>5 DEF Stall
<1>6. ASSUME NEW n \in Notes, NEW w \in Workers, Take(w, n) PROVE TypeOK'
  <2>1. job[n] \in JobType
    BY DEF JobType
  <2>2. [job[n] EXCEPT !.state = "active", !.owner = w] \in JobType
    BY <2>1 DEF JobType
  <2>3. job' = [job EXCEPT ![n] = [@ EXCEPT !.state = "active", !.owner = w]]
    BY <1>6 DEF Take
  <2>4. job' \in [Notes -> JobType]
    BY <2>2, <2>3 DEF JobType
  <2> QED BY <1>6, <2>4 DEF Take, JobType, noteVars
<1>7. ASSUME NEW w \in Workers, PostAccepted(w) PROVE TypeOK'
  BY <1>7 DEF PostAccepted, Record, Work, Busy, noteVars
<1>8. ASSUME NEW w \in Workers, PostFails(w) PROVE TypeOK'
  BY <1>8 DEF PostFails, Record, Work, Busy, noteVars
<1>9. ASSUME NEW w \in Workers, Complete(w) PROVE TypeOK'
  BY <1>9 DEF Complete, Release, Busy, noteVars
<1>10. ASSUME NEW w \in Workers, FailAttempt(w) PROVE TypeOK'
  BY <1>10 DEF FailAttempt, EndAttempt, Release, Busy, noteVars
<1>11. ASSUME NEW w \in Workers, WorkerRestarts(w) PROVE TypeOK'
  BY <1>11 DEF WorkerRestarts, Release, noteVars
<1>12. ASSUME NEW w \in Workers, WorkerCrashes(w) PROVE TypeOK'
  BY <1>12 DEF WorkerCrashes, Fault, Work, noteVars
<1>13. ASSUME Tick PROVE TypeOK'
  BY <1>13 DEF Tick, noteVars, workerVars
<1>14. ASSUME UNCHANGED vars PROVE TypeOK'
  BY <1>14 DEF vars, noteVars, workerVars
<1> QED BY <1>1, <1>2, <1>3, <1>4, <1>5, <1>6, <1>7, <1>8, <1>9, <1>10, <1>11, <1>12, <1>13, <1>14
  DEF Next, NotifyStep, WorkerStep, vars, noteVars, workerVars

\* A slot gets its job with Take and loses it with Release.
LEMMA BusyStep == ASSUME TypeOK, Busy, [Next]_vars PROVE Busy'
<1> USE BoundsAssumption, NoNoteAssumption DEF TypeOK, JobStates
<1>1. ASSUME NEW n \in Notes, NEW w \in Workers, Take(w, n) PROVE Busy'
  BY <1>1 DEF Take, Busy
<1>2. ASSUME NEW w \in Workers, PostAccepted(w) PROVE Busy'
  BY <1>2 DEF PostAccepted, Work, Busy
<1>3. ASSUME NEW w \in Workers, PostFails(w) PROVE Busy'
  BY <1>3 DEF PostFails, Work, Busy
<1>4. ASSUME NEW w \in Workers, Complete(w) PROVE Busy'
  BY <1>4 DEF Complete, Release, Busy
<1>5. ASSUME NEW w \in Workers, FailAttempt(w) PROVE Busy'
  BY <1>5 DEF FailAttempt, EndAttempt, Release, Busy
<1>6. ASSUME NEW w \in Workers, WorkerRestarts(w) PROVE Busy'
  BY <1>6 DEF WorkerRestarts, Release, Busy
<1>7. ASSUME NEW w \in Workers, WorkerCrashes(w) PROVE Busy'
  BY <1>7 DEF WorkerCrashes, Work, Busy
<1>8. ASSUME UNCHANGED <<task, wpc>> PROVE Busy'
  BY <1>8 DEF Busy
<1> QED BY <1>1, <1>2, <1>3, <1>4, <1>5, <1>6, <1>7, <1>8
  DEF Next, NotifyStep, WorkerStep, vars, noteVars, workerVars, AddJob, CreateDelivery,
      Enqueue, Fault, NoJob, Notify, NotifyFails, SameJob, Stall, Step, Tick

\* A row is never deleted, and a job is added by a notification that has one.
LEMMA RowFirstStep == ASSUME TypeOK, Busy, RowFirst, [Next]_vars PROVE RowFirst'
<1> USE BoundsAssumption, NoNoteAssumption DEF TypeOK, JobStates
<1>1. ASSUME NEW n \in Notes, Notify(n) PROVE RowFirst'
  BY <1>1 DEF Notify, Step, RowFirst, workerVars
<1>2. ASSUME NEW n \in Notes, CreateDelivery(n) PROVE RowFirst'
  BY <1>2 DEF CreateDelivery, Step, RowFirst, workerVars
<1>3. ASSUME NEW n \in Notes, Enqueue(n) PROVE RowFirst'
  BY <1>3 DEF Enqueue, AddJob, Step, RowFirst, workerVars
<1>4. ASSUME NEW n \in Notes, NotifyFails(n) PROVE RowFirst'
  BY <1>4 DEF NotifyFails, AddJob, Step, RowFirst, workerVars
<1>5. ASSUME NEW n \in Notes, Stall(n) PROVE RowFirst'
  BY <1>5 DEF Stall
<1>6. ASSUME NEW n \in Notes, NEW w \in Workers, Take(w, n) PROVE RowFirst'
  BY <1>6 DEF Take, RowFirst, noteVars
<1>7. ASSUME NEW w \in Workers, Complete(w) PROVE RowFirst'
  BY <1>7 DEF Complete, Release, RowFirst, noteVars
<1>8. ASSUME NEW w \in Workers, FailAttempt(w) PROVE RowFirst'
  BY <1>8 DEF FailAttempt, EndAttempt, Release, RowFirst, noteVars
<1>9. ASSUME NEW w \in Workers, WorkerRestarts(w) PROVE RowFirst'
  BY <1>9 DEF WorkerRestarts, Release, RowFirst, noteVars
<1>10. ASSUME UNCHANGED <<job, pc, row, task>> PROVE RowFirst'
  BY <1>10 DEF RowFirst
<1> QED BY <1>1, <1>2, <1>3, <1>4, <1>5, <1>6, <1>7, <1>8, <1>9, <1>10
  DEF Next, NotifyStep, WorkerStep, vars, noteVars, workerVars, Fault, PostAccepted,
      PostFails, Record, Tick, Work, WorkerCrashes

\* Only PostAccepted makes a processor return.
LEMMA ReturnedStep == ASSUME TypeOK, Busy, ReturnedAcked, [Next]_vars PROVE ReturnedAcked'
<1> USE BoundsAssumption, NoNoteAssumption DEF TypeOK, JobStates
<1>1. ASSUME NEW n \in Notes, NEW w \in Workers, Take(w, n) PROVE ReturnedAcked'
  BY <1>1 DEF Take, ReturnedAcked
<1>2. ASSUME NEW w \in Workers, PostAccepted(w) PROVE ReturnedAcked'
  BY <1>2 DEF PostAccepted, Work, ReturnedAcked
<1>3. ASSUME NEW w \in Workers, PostFails(w) PROVE ReturnedAcked'
  BY <1>3 DEF PostFails, Work, ReturnedAcked
<1>4. ASSUME NEW w \in Workers, Complete(w) PROVE ReturnedAcked'
  BY <1>4 DEF Complete, Release, ReturnedAcked
<1>5. ASSUME NEW w \in Workers, FailAttempt(w) PROVE ReturnedAcked'
  BY <1>5 DEF FailAttempt, EndAttempt, Release, ReturnedAcked
<1>6. ASSUME NEW w \in Workers, WorkerRestarts(w) PROVE ReturnedAcked'
  BY <1>6 DEF WorkerRestarts, Release, ReturnedAcked
<1>7. ASSUME NEW w \in Workers, WorkerCrashes(w) PROVE ReturnedAcked'
  BY <1>7 DEF WorkerCrashes, Work, ReturnedAcked
<1>8. ASSUME UNCHANGED <<acked, task, wpc>> PROVE ReturnedAcked'
  BY <1>8 DEF ReturnedAcked
<1> QED BY <1>1, <1>2, <1>3, <1>4, <1>5, <1>6, <1>7, <1>8
  DEF Next, NotifyStep, WorkerStep, vars, noteVars, workerVars, AddJob, CreateDelivery,
      Enqueue, Fault, NoJob, Notify, NotifyFails, SameJob, Stall, Step, Tick

\* An attempt or a stall too many ends the job.
LEMMA BudgetStep == ASSUME TypeOK, Busy, Budget, [Next]_vars PROVE Budget'
<1> USE BoundsAssumption, NoNoteAssumption DEF TypeOK, JobStates
<1>1. ASSUME NEW n \in Notes, Enqueue(n) PROVE Budget'
  BY <1>1 DEF Enqueue, AddJob, NewJob, Budget
<1>2. ASSUME NEW n \in Notes, NotifyFails(n) PROVE Budget'
  <2>1. job' = job \/ job' = [job EXCEPT ![n] = NewJob]
    BY <1>2, AddJobAdds DEF NotifyFails, JobAdded
  <2>2. CASE job' = job
    BY <2>2 DEF Budget
  <2>3. CASE job' = [job EXCEPT ![n] = NewJob]
    <3>1. NewJob.made < MaxAttempts /\ NewJob.stalls <= MaxStalled
      BY DEF NewJob
    <3> QED BY <2>3, <3>1 DEF Budget
  <2> QED BY <2>1, <2>2, <2>3
<1>3. ASSUME NEW n \in Notes, Stall(n) PROVE Budget'
  BY <1>3 DEF Stall
<1>4. ASSUME NEW n \in Notes, NEW w \in Workers, Take(w, n) PROVE Budget'
  BY <1>4 DEF Take, Budget
<1>5. ASSUME NEW w \in Workers, Complete(w) PROVE Budget'
  BY <1>5 DEF Complete, Budget
<1>6. ASSUME NEW w \in Workers, FailAttempt(w) PROVE Budget'
  BY <1>6 DEF FailAttempt, EndAttempt, Owns, Budget
<1>7. ASSUME UNCHANGED <<job>> PROVE Budget'
  BY <1>7 DEF Budget
<1> QED BY <1>1, <1>2, <1>3, <1>4, <1>5, <1>6, <1>7
  DEF Next, NotifyStep, WorkerStep, vars, noteVars, workerVars, CreateDelivery, Fault,
      Notify, PostAccepted, PostFails, Record, Release, Step, Tick, Work, WorkerCrashes, WorkerRestarts

\* Only the create writes a row, and it leaves its place.
LEMMA NoRowStep == ASSUME TypeOK, RowFirst, NoRowYet, [Next]_vars PROVE NoRowYet'
<1> USE BoundsAssumption, NoNoteAssumption DEF TypeOK, JobStates
<1>1. ASSUME NEW n \in Notes, Notify(n) PROVE NoRowYet'
  BY <1>1 DEF Notify, Step, NoRowYet
<1>2. ASSUME NEW n \in Notes, CreateDelivery(n) PROVE NoRowYet'
  BY <1>2 DEF CreateDelivery, Step, NoRowYet
<1>3. ASSUME NEW n \in Notes, Enqueue(n) PROVE NoRowYet'
  BY <1>3 DEF Enqueue, Step, NoRowYet
<1>4. ASSUME NEW n \in Notes, NotifyFails(n) PROVE NoRowYet'
  BY <1>4 DEF NotifyFails, Step, NoRowYet
<1>5. ASSUME UNCHANGED <<pc, row>> PROVE NoRowYet'
  BY <1>5 DEF NoRowYet
<1> QED BY <1>1, <1>2, <1>3, <1>4, <1>5
  DEF Next, NotifyStep, WorkerStep, vars, noteVars, workerVars, Complete, EndAttempt,
      FailAttempt, Fault, Owns, PostAccepted, PostFails, Record, Release, Stall, Take, Tick, Work, WorkerCrashes, WorkerRestarts

\* Only a slot posts, and its job has a row.
LEMMA AuditStep == ASSUME TypeOK, Busy, RowFirst, AuditBeforeDelivery, [Next]_vars PROVE AuditBeforeDelivery'
<1> USE BoundsAssumption, NoNoteAssumption DEF TypeOK, JobStates
<1>1. ASSUME NEW n \in Notes, CreateDelivery(n) PROVE AuditBeforeDelivery'
  BY <1>1 DEF CreateDelivery, AuditBeforeDelivery
<1>2. ASSUME NEW n \in Notes, NotifyFails(n) PROVE AuditBeforeDelivery'
  BY <1>2 DEF NotifyFails, AuditBeforeDelivery
<1>3. ASSUME NEW w \in Workers, PostAccepted(w) PROVE AuditBeforeDelivery'
  BY <1>3 DEF PostAccepted, Record, Busy, RowFirst, AuditBeforeDelivery
<1>4. ASSUME NEW w \in Workers, PostFails(w) PROVE AuditBeforeDelivery'
  BY <1>4 DEF PostFails, Record, Busy, RowFirst, AuditBeforeDelivery
<1>5. ASSUME UNCHANGED <<posted, row>> PROVE AuditBeforeDelivery'
  BY <1>5 DEF AuditBeforeDelivery
<1> QED BY <1>1, <1>2, <1>3, <1>4, <1>5
  DEF Next, NotifyStep, WorkerStep, vars, noteVars, workerVars, AddJob, Complete,
      EndAttempt, Enqueue, FailAttempt, Fault, NoJob, Notify, Owns, Release, SameJob, Stall, Step, Take, Tick, Work, WorkerCrashes, WorkerRestarts

\* Only a slot whose processor returned completes a job.
LEMMA SuccessStep == ASSUME TypeOK, ReturnedAcked, Busy, SuccessMeansAcked, [Next]_vars PROVE SuccessMeansAcked'
<1> USE BoundsAssumption, NoNoteAssumption DEF TypeOK, JobStates
<1>1. ASSUME NEW n \in Notes, Enqueue(n) PROVE SuccessMeansAcked'
  BY <1>1 DEF Enqueue, AddJob, NewJob, SuccessMeansAcked
<1>2. ASSUME NEW n \in Notes, NotifyFails(n) PROVE SuccessMeansAcked'
  <2>1. job' = job \/ job' = [job EXCEPT ![n] = NewJob]
    BY <1>2, AddJobAdds DEF NotifyFails, JobAdded
  <2>2. acked' = acked
    BY <1>2 DEF NotifyFails
  <2> QED BY <2>1, <2>2 DEF NewJob, SuccessMeansAcked
<1>3. ASSUME NEW n \in Notes, Stall(n) PROVE SuccessMeansAcked'
  BY <1>3 DEF Stall, SuccessMeansAcked
<1>4. ASSUME NEW n \in Notes, NEW w \in Workers, Take(w, n) PROVE SuccessMeansAcked'
  BY <1>4 DEF Take, SuccessMeansAcked
<1>5. ASSUME NEW w \in Workers, PostAccepted(w) PROVE SuccessMeansAcked'
  BY <1>5 DEF PostAccepted, SuccessMeansAcked
<1>6. ASSUME NEW w \in Workers, Complete(w) PROVE SuccessMeansAcked'
  BY <1>6 DEF Complete, Owns, SuccessMeansAcked
<1>7. ASSUME NEW w \in Workers, FailAttempt(w) PROVE SuccessMeansAcked'
  BY <1>7 DEF FailAttempt, EndAttempt, SuccessMeansAcked
<1>8. ASSUME UNCHANGED <<acked, job>> PROVE SuccessMeansAcked'
  BY <1>8 DEF SuccessMeansAcked
<1> QED BY <1>1, <1>2, <1>3, <1>4, <1>5, <1>6, <1>7, <1>8
  DEF Next, NotifyStep, WorkerStep, vars, noteVars, workerVars, CreateDelivery, Fault,
      Notify, PostFails, Record, Release, Step, Tick, Work, WorkerCrashes, WorkerRestarts

\* A failed job used up its budget; it never runs again.
LEMMA RetriedStep == ASSUME TypeOK, Budget, Busy, RetriedToTheEnd, [Next]_vars PROVE RetriedToTheEnd'
<1> USE BoundsAssumption, NoNoteAssumption DEF TypeOK, JobStates
<1>1. ASSUME NEW n \in Notes, Enqueue(n) PROVE RetriedToTheEnd'
  BY <1>1 DEF Enqueue, AddJob, NewJob, RetriedToTheEnd
<1>2. ASSUME NEW n \in Notes, NotifyFails(n) PROVE RetriedToTheEnd'
  <2>1. job' = job \/ job' = [job EXCEPT ![n] = NewJob]
    BY <1>2, AddJobAdds DEF NotifyFails, JobAdded
  <2>2. acked' = acked
    BY <1>2 DEF NotifyFails
  <2> QED BY <2>1, <2>2 DEF NewJob, RetriedToTheEnd
<1>3. ASSUME NEW n \in Notes, Stall(n) PROVE RetriedToTheEnd'
  BY <1>3 DEF Stall, RetriedToTheEnd
<1>4. ASSUME NEW n \in Notes, NEW w \in Workers, Take(w, n) PROVE RetriedToTheEnd'
  BY <1>4 DEF Take, RetriedToTheEnd
<1>5. ASSUME NEW w \in Workers, Complete(w) PROVE RetriedToTheEnd'
  BY <1>5 DEF Complete, RetriedToTheEnd
<1>6. ASSUME NEW w \in Workers, FailAttempt(w) PROVE RetriedToTheEnd'
  BY <1>6 DEF FailAttempt, EndAttempt, RetriedToTheEnd
<1>7. ASSUME UNCHANGED <<job>> PROVE RetriedToTheEnd'
  BY <1>7 DEF RetriedToTheEnd
<1> QED BY <1>1, <1>2, <1>3, <1>4, <1>5, <1>6, <1>7
  DEF Next, NotifyStep, WorkerStep, vars, noteVars, workerVars, CreateDelivery, Fault,
      Notify, PostAccepted, PostFails, Record, Release, Step, Tick, Work, WorkerCrashes, WorkerRestarts

\* Enqueue leaves a job about the event: its own or the one whose name it met.
LEMMA EventStep == ASSUME TypeOK, NoRowYet, Busy, NoEventLost, [Next]_vars PROVE NoEventLost'
<1> USE BoundsAssumption, NoNoteAssumption DEF TypeOK, JobStates
<1>1. ASSUME NEW n \in Notes, Notify(n) PROVE NoEventLost'
  BY <1>1 DEF Notify, Step, NoRowYet, NoEventLost, Twin
<1>2. ASSUME NEW n \in Notes, CreateDelivery(n) PROVE NoEventLost'
  BY <1>2 DEF CreateDelivery, Step, NoEventLost, Twin
<1>3. ASSUME NEW n \in Notes, Enqueue(n) PROVE NoEventLost'
  BY <1>3 DEF Enqueue, AddJob, NewJob, SameJob, Step, NoEventLost, Twin
<1>4. ASSUME NEW n \in Notes, NotifyFails(n) PROVE NoEventLost'
  BY <1>4 DEF NotifyFails, Fault, NoEventLost, Twin
<1>5. ASSUME NEW n \in Notes, Stall(n) PROVE NoEventLost'
  BY <1>5 DEF Stall, NoEventLost, Twin
<1>6. ASSUME NEW n \in Notes, NEW w \in Workers, Take(w, n) PROVE NoEventLost'
  BY <1>6 DEF Take, NoEventLost, noteVars, Twin
<1>7. ASSUME NEW w \in Workers, Complete(w) PROVE NoEventLost'
  BY <1>7 DEF Complete, NoEventLost, noteVars, Twin
<1>8. ASSUME NEW w \in Workers, FailAttempt(w) PROVE NoEventLost'
  BY <1>8 DEF FailAttempt, EndAttempt, NoEventLost, noteVars, Twin
<1>9. ASSUME NEW w \in Workers, WorkerCrashes(w) PROVE NoEventLost'
  BY <1>9 DEF WorkerCrashes, Fault, NoEventLost, Twin
<1>10. ASSUME UNCHANGED <<event, faults, job, pc, row>> PROVE NoEventLost'
  BY <1>10 DEF NoEventLost, Twin
<1> QED BY <1>1, <1>2, <1>3, <1>4, <1>5, <1>6, <1>7, <1>8, <1>9, <1>10
  DEF Next, NotifyStep, WorkerStep, vars, noteVars, workerVars, PostAccepted, PostFails,
      Record, Release, Tick, Work, WorkerRestarts

\* The invariant holds at first.
LEMMA InitInv == Init => IInv
<1> SUFFICES ASSUME Init PROVE IInv
  OBVIOUS
<1> USE BoundsAssumption, NoNoteAssumption DEF Init, NoJob, JobStates
<1>1. TypeOK
  BY DEF TypeOK
<1>2. Busy /\ RowFirst /\ ReturnedAcked /\ Budget /\ NoRowYet
  BY DEF Busy, RowFirst, ReturnedAcked, Budget, NoRowYet
<1>3. AuditBeforeDelivery /\ SuccessMeansAcked /\ RetriedToTheEnd /\ NoEventLost
  BY DEF AuditBeforeDelivery, SuccessMeansAcked, RetriedToTheEnd, NoEventLost
<1> QED BY <1>1, <1>2, <1>3 DEF IInv

\* Every step keeps it.
LEMMA InvStep == IInv /\ [Next]_vars => IInv'
<1> SUFFICES ASSUME IInv, [Next]_vars PROVE IInv'
  OBVIOUS
<1> USE DEF IInv
<1>1. TypeOK' /\ Busy' /\ RowFirst'
  BY TypeStep, BusyStep, RowFirstStep
<1>2. ReturnedAcked' /\ Budget' /\ NoRowYet'
  BY ReturnedStep, BudgetStep, NoRowStep
<1>3. AuditBeforeDelivery' /\ SuccessMeansAcked' /\ RetriedToTheEnd' /\ NoEventLost'
  BY AuditStep, SuccessStep, RetriedStep, EventStep
<1> QED BY <1>1, <1>2, <1>3

\* IInv holds in every state of every behaviour.
LEMMA Invariant == Spec => []IInv
<1>1. Init => IInv
  BY InitInv
<1>2. IInv /\ [Next]_vars => IInv'
  BY InvStep
<1> QED BY <1>1, <1>2, PTL DEF Spec

\* Attempts and stalls stay within the limits of the queue.
THEOREM TypeCorrect == Spec => []TypeOK
<1>1. IInv => TypeOK
  BY DEF IInv
<1> QED BY <1>1, Invariant, PTL

\* Nothing is posted that has no delivery row, whatever fails or crashes.
THEOREM AuditFirst == Spec => []AuditBeforeDelivery
<1>1. IInv => AuditBeforeDelivery
  BY DEF IInv
<1> QED BY <1>1, Invariant, PTL

\* A completed job was answered 2xx, for any number of overlapping slots.
THEOREM CompletionTruthful == Spec => []SuccessMeansAcked
<1>1. IInv => SuccessMeansAcked
  BY DEF IInv
<1> QED BY <1>1, Invariant, PTL

\* A dead-lettered job had all its attempts or too many stalls.
THEOREM NoEarlyDeadLetter == Spec => []RetriedToTheEnd
<1>1. IInv => RetriedToTheEnd
  BY DEF IInv
<1> QED BY <1>1, Invariant, PTL

\* Merging jobs by name never drops an event.
THEOREM EventsKept == Spec => []NoEventLost
<1>1. IInv => NoEventLost
  BY DEF IInv
<1> QED BY <1>1, Invariant, PTL
=============================================================================
