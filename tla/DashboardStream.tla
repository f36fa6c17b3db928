-------------------------- MODULE DashboardStream --------------------------
(***************************************************************************)
(* GET /dashboard/events (src/src/http/routes/dashboard.ts): a capped      *)
(* number of Server-Sent Event streams, each polling payment_settlements   *)
(* every 3 s for rows with an id above the last one it wrote.  A poll      *)
(* that takes longer than 3 s overlaps the next.                           *)
(***************************************************************************)
EXTENDS Naturals, Sequences, SequencesExt, FiniteSets

CONSTANTS
  Clients,    \* requests for the stream
  MaxSse,     \* MAX_SSE_CONNECTIONS (50 in the code)
  Batch,      \* take: rows of one poll (10 in the code)
  MaxRows,    \* bound: settlements created
  MaxPolls    \* bound: polls of one stream in flight

VARIABLES
  table,      \* ids of the settlements, by createdAt
  active,     \* activeSseConnections
  conn,       \* conn[c]: the connection of c
  lastId,     \* lastId[c]: id of the row written last, 0 for null
  polls,      \* polls[c]: results of the queries in flight, oldest first
  written,    \* written[c]: ids written to c, in order
  overlapped  \* history: streams with two polls in flight at a time

vars == <<table, active, conn, lastId, polls, written, overlapped>>

Ids == 1..MaxRows

\* One type invariant for the whole state.
TypeOK ==
  /\ table \in Seq(Ids)
  /\ active \in Nat
  /\ conn \in [Clients -> {"none", "open", "refused", "closed"}]
  /\ lastId \in [Clients -> 0..MaxRows]
  /\ polls \in [Clients -> Seq(Seq(Ids))]
  /\ written \in [Clients -> Seq(Ids)]
  /\ overlapped \subseteq Clients

Init ==
  /\ table = <<>>
  /\ active = 0
  /\ conn = [c \in Clients |-> "none"]
  /\ lastId = [c \in Clients |-> 0]
  /\ polls = [c \in Clients |-> <<>>]
  /\ written = [c \in Clients |-> <<>>]
  /\ overlapped = {}

-----------------------------------------------------------------------------
\* Ids are ULIDs made on several instances: createdAt may order two rows the
\* other way round.
CreateSettlement(id) ==
  /\ id \notin ToSet(table)
  /\ table' = Append(table, id)
  /\ UNCHANGED <<active, conn, lastId, polls, written, overlapped>>

\* 503 at capacity; else the timers and the 'close' listener are set up in the
\* same turn of the event loop.
Connect(c) ==
  /\ conn[c] = "none"
  /\ IF active >= MaxSse
     THEN conn' = [conn EXCEPT ![c] = "refused"] /\ UNCHANGED active
     ELSE conn' = [conn EXCEPT ![c] = "open"] /\ active' = active + 1
  /\ UNCHANGED <<table, lastId, polls, written, overlapped>>

Newer(id, last) == id > last

\* The places in the table of the first Batch rows above the last id.
FirstNewer(last) ==
  LET newer == {i \in DOMAIN table : Newer(table[i], last)}
  IN {i \in newer : Cardinality({j \in newer : j < i}) < Batch}

\* A set of places in order: orderBy createdAt.
InOrder(places) ==
  {p \in [1..Cardinality(places) -> places] : \A i, j \in DOMAIN p : i < j => p[i] < p[j]}

\* findMany: the rows at the places, oldest first.
Page(p) == [i \in DOMAIN p |-> table[p[i]]]

\* The interval fires, whether or not the poll before it is back.
Poll(c) ==
  /\ conn[c] = "open" /\ Len(polls[c]) < MaxPolls
  /\ \E p \in InOrder(FirstNewer(lastId[c])) : polls' = [polls EXCEPT ![c] = Append(@, Page(p))]
  /\ overlapped' = IF polls[c] = <<>> THEN overlapped ELSE overlapped \cup {c}
  /\ UNCHANGED <<table, active, conn, lastId, written>>

\* Faulty variant: the place reached is not remembered.
WriteRowsAgain(c) ==
  /\ polls[c] # <<>>
  /\ polls' = [polls EXCEPT ![c] = Tail(@)]
  /\ written' = [written EXCEPT ![c] = @ \o Head(polls[c])]
  /\ UNCHANGED <<table, active, conn, lastId, overlapped>>

\* A query is back: its rows are written, the last of them is remembered.
WriteRows(c) ==
  /\ polls[c] # <<>>
  /\ polls' = [polls EXCEPT ![c] = Tail(@)]
  /\ written' = [written EXCEPT ![c] = @ \o Head(polls[c])]
  /\ lastId' = [lastId EXCEPT ![c] = IF Head(polls[c]) = <<>> THEN @ ELSE Last(Head(polls[c]))]
  /\ UNCHANGED <<table, active, conn, overlapped>>

\* The query is rejected and the error logged.
PollFails(c) ==
  /\ polls[c] # <<>>
  /\ polls' = [polls EXCEPT ![c] = Tail(@)]
  /\ UNCHANGED <<table, active, conn, lastId, written, overlapped>>

\* The socket closes: the intervals are cleared, a query in flight still ends.
Disconnect(c) ==
  /\ conn[c] = "open"
  /\ conn' = [conn EXCEPT ![c] = "closed"]
  /\ active' = active - 1
  /\ UNCHANGED <<table, lastId, polls, written, overlapped>>

Next ==
  \/ \E id \in Ids : CreateSettlement(id)
  \/ \E c \in Clients : Connect(c) \/ Poll(c) \/ WriteRows(c) \/ PollFails(c) \/ Disconnect(c)

-----------------------------------------------------------------------------
(* Properties. *)

\* A settlement is written to a stream twice only if two of its polls
\* overlapped or ids and creation times disagree.
RowsWrittenOnce ==
  \A c \in Clients :
    \/ c \in overlapped
    \/ \E i, j \in DOMAIN table : i < j /\ table[i] > table[j]
    \/ IsInjective(written[c])
=============================================================================
