-------------------------- MODULE SettlementStream --------------------------
(***************************************************************************)
(* GET /settlements/:id/stream (src/src/http/routes/sse.route.ts) and the  *)
(* Redis subscription it shares with the other streams of its process      *)
(* (src/src/infrastructure/settlement-pubsub.ts), for one request id.      *)
(*                                                                         *)
(* A handler reads the settlement, arms its timers, subscribes, and only   *)
(* then listens for the 'close' event of its client.  The publisher has no *)
(* caller in the repository: whoever it is, it updates the row first.      *)
(***************************************************************************)
EXTENDS Naturals

CONSTANT Streams   \* executions of the handler

VARIABLES
  status,     \* settlementStatus of the request's row, "none" without one
  wire,       \* a published message on its way to the subscriber
  at,         \* at[s]: where the handler of s stands
  seen,       \* seen[s]: the status its query returned
  ended,      \* streams whose response has been ended
  timed,      \* streams with heartbeat and timeout armed
  flushing,   \* streams to be ended 100 ms after a terminal event
  closed,     \* streams whose 'close' event has fired
  entry,      \* listeners.has(id)
  callbacks,  \* listeners.get(id)
  channel,    \* the last command sent for the channel was SUBSCRIBE
  rejected    \* history: a query or a SUBSCRIBE was rejected

vars == <<status, wire, at, seen, ended, timed, flushing, closed, entry,
          callbacks, channel, rejected>>

listenerVars == <<entry, callbacks, channel>>

Status == {"none", "pending", "processing", "confirmed", "failed"}
Terminal == {"confirmed", "failed"}
Places == {"idle", "query", "subscribing", "watching", "over"}

\* One type invariant for the whole state.
TypeOK ==
  /\ status \in Status
  /\ wire \in {"none", "pending"} \cup Terminal
  /\ at \in [Streams -> Places]
  /\ seen \in [Streams -> Status]
  /\ ended \subseteq Streams /\ timed \subseteq Streams
  /\ flushing \subseteq Streams /\ closed \subseteq Streams
  /\ entry \in BOOLEAN /\ channel \in BOOLEAN
  /\ callbacks \subseteq Streams
  /\ rejected \in BOOLEAN

Init ==
  /\ status = "none" /\ wire = "none"
  /\ at = [s \in Streams |-> "idle"]
  /\ seen = [s \in Streams |-> "none"]
  /\ ended = {} /\ timed = {} /\ flushing = {} /\ closed = {}
  /\ entry = FALSE /\ callbacks = {} /\ channel = FALSE
  /\ rejected = FALSE

-----------------------------------------------------------------------------
Goto(s, place) == at' = [at EXCEPT ![s] = place]

\* The row is created and resolved; runSettle's rows begin as processing,
\* settlePayment's as pending.
SettlementMoves ==
  /\ \/ status = "none" /\ status' \in {"pending", "processing"}
     \/ status \in {"pending", "processing"} /\ status' \in Terminal
  /\ UNCHANGED <<wire, at, seen, ended, timed, flushing, closed, listenerVars, rejected>>

\* publishSettlementUpdate; Redis delivers to whoever is subscribed now.
Publish ==
  /\ status \in {"pending"} \cup Terminal /\ wire = "none" /\ channel
  /\ wire' = status
  /\ UNCHANGED <<status, at, seen, ended, timed, flushing, closed, listenerVars, rejected>>

-----------------------------------------------------------------------------
(* The handler. *)

\* The headers are written and the query is sent and executed.
Connect(s) ==
  /\ at[s] = "idle"
  /\ Goto(s, "query")
  /\ seen' = [seen EXCEPT ![s] = status]
  /\ UNCHANGED <<status, wire, ended, timed, flushing, closed, listenerVars, rejected>>

\* Every status but pending ends the stream, processing, which has no event
\* of its own, too.
AnswerFromRow(s) ==
  /\ at[s] = "query" /\ seen[s] \notin {"none", "pending"}
  /\ Goto(s, "over")
  /\ ended' = ended \cup {s}
  /\ UNCHANGED <<status, wire, seen, timed, flushing, closed, listenerVars, rejected>>

\* Faulty variant: the timers are armed for the stream that subscribes first.
SubscribeUntimed(s) ==
  /\ at[s] = "query" /\ seen[s] \in {"none", "pending"}
  /\ IF entry
     THEN /\ callbacks' = callbacks \cup {s} /\ Goto(s, "watching")
          /\ UNCHANGED <<entry, channel, timed>>
     ELSE /\ entry' = TRUE /\ callbacks' = {} /\ channel' = TRUE
          /\ Goto(s, "subscribing")
          /\ timed' = timed \cup {s}
  /\ UNCHANGED <<status, wire, seen, ended, flushing, closed, rejected>>

\* The timers are armed.  The first stream of the id creates the set of
\* listeners and awaits SUBSCRIBE; the others just join the set.
Subscribe(s) ==
  /\ at[s] = "query" /\ seen[s] \in {"none", "pending"}
  /\ timed' = timed \cup {s}
  /\ IF entry
     THEN callbacks' = callbacks \cup {s} /\ Goto(s, "watching") /\ UNCHANGED <<entry, channel>>
     ELSE /\ entry' = TRUE /\ callbacks' = {} /\ channel' = TRUE
          /\ Goto(s, "subscribing")
  /\ UNCHANGED <<status, wire, seen, ended, flushing, closed, rejected>>

\* SUBSCRIBE is done.  When the set is gone meanwhile, listeners.get(id)! is
\* undefined and the handler rejects; its timers stay armed.
Subscribed(s) ==
  /\ at[s] = "subscribing"
  /\ IF entry
     THEN callbacks' = callbacks \cup {s} /\ Goto(s, "watching")
     ELSE Goto(s, "over") /\ UNCHANGED callbacks
  /\ UNCHANGED <<status, wire, seen, ended, timed, flushing, closed, entry, channel, rejected>>

\* The query or SUBSCRIBE is rejected and the handler with it: an entry without
\* a subscription stays behind.
Rejects(s) ==
  /\ \/ at[s] = "query" /\ UNCHANGED channel
     \/ at[s] = "subscribing" /\ channel' = FALSE
  /\ rejected' = TRUE
  /\ Goto(s, "over")
  /\ UNCHANGED <<status, wire, seen, ended, timed, flushing, closed, entry, callbacks>>

\* The 'message' handler runs every callback of the set: a terminal event
\* clears the stream's timers and ends it soon.
Deliver ==
  /\ wire # "none"
  /\ wire' = "none"
  /\ IF wire \in Terminal
     THEN timed' = timed \ callbacks /\ flushing' = flushing \cup callbacks
     ELSE UNCHANGED <<timed, flushing>>
  /\ UNCHANGED <<status, at, seen, ended, closed, listenerVars, rejected>>

Flush(s) ==
  /\ s \in flushing
  /\ flushing' = flushing \ {s}
  /\ ended' = ended \cup {s}
  /\ UNCHANGED <<status, wire, at, seen, timed, closed, listenerVars, rejected>>

\* Five minutes are over.
Timeout(s) ==
  /\ s \in timed
  /\ timed' = timed \ {s}
  /\ ended' = ended \cup {s}
  /\ UNCHANGED <<status, wire, at, seen, flushing, closed, listenerVars, rejected>>

\* Faulty variant: UNSUBSCRIBE is awaited before the set is dropped.
UnsubscribeFirst(s) ==
  /\ callbacks' = callbacks \ {s}
  /\ channel' = (channel /\ callbacks' # {})
  /\ UNCHANGED entry

\* The last listener takes the set with it and sends UNSUBSCRIBE.
Unsubscribe(s) ==
  /\ callbacks' = callbacks \ {s}
  /\ IF entry /\ callbacks' = {}
     THEN entry' = FALSE /\ channel' = FALSE
     ELSE UNCHANGED <<entry, channel>>

\* The response is through or the client has gone.  Before the end of the
\* subscription nobody listens: the callback will stay in the set.
Close(s) ==
  /\ at[s] # "idle" /\ s \notin closed
  /\ closed' = closed \cup {s}
  /\ IF at[s] = "watching"
     THEN Unsubscribe(s) /\ timed' = timed \ {s} /\ Goto(s, "over")
     ELSE UNCHANGED <<listenerVars, timed, at>>
  /\ UNCHANGED <<status, wire, seen, ended, flushing, rejected>>

HandlerStep(s) ==
  Connect(s) \/ AnswerFromRow(s) \/ Subscribe(s) \/ Subscribed(s) \/ Flush(s) \/ Timeout(s)

Next ==
  \/ \E s \in Streams : HandlerStep(s) \/ Rejects(s) \/ Close(s)
  \/ SettlementMoves \/ Publish \/ Deliver

\* PostgreSQL answers, and Node's timers fire.
Fairness == \A s \in Streams : WF_vars(AnswerFromRow(s) \/ Subscribe(s)) /\ WF_vars(Flush(s) \/ Timeout(s))

-----------------------------------------------------------------------------
(* Properties. *)

\* A stream with a registered callback is reached by what Redis publishes,
\* whatever the order in which streams of one id come and go: unless a
\* SUBSCRIBE was rejected, the set is in the map and the channel subscribed.
ListenersSubscribed == callbacks # {} => (entry /\ channel) \/ rejected

\* No stream stays open for ever, also when its event was published before it
\* listened or its handler died of the dropped set: it ends or its client goes,
\* unless a query or a SUBSCRIBE was rejected.
StreamEnds ==
  \A s \in Streams : at[s] # "idle" ~> (s \in ended \cup closed \/ rejected)
=============================================================================
