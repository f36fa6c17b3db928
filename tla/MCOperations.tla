---------------------------- MODULE MCOperations ----------------------------
(***************************************************************************)
(* Five small parts of the server that share nothing: the settlement       *)
(* streams, the dashboard stream, the admin catalogue, the key cache and   *)
(* the ledger of fees.  One behaviour exercises one of them and leaves the *)
(* others initial.                                                         *)
(***************************************************************************)
EXTENDS Naturals, Sequences, FeeLedger

CONSTANTS Streams, Clients, MaxSse, Batch, MaxRows, MaxPolls,
          AdminCalls, Chains, Spellings, NoRow,
          KeyCalls, MaxVersion, Malformed, w1, w2

\* No row is no chain.
ASSUME NoRowAssumption == NoRow \notin Chains

VARIABLES
  part,
  status, wire, at, seen, ended, timed, flushing, closed, entry, callbacks,
  channel, rejected,
  table, active, conn, lastId, polls, written, overlapped,
  network, asset, call, state, found,
  provider, version, cached, where, read, floor, begun, raced

Stream == INSTANCE SettlementStream
Dashboard == INSTANCE DashboardStream
Admin == INSTANCE Catalogue
Key == INSTANCE KeyProvider

streamVars == <<status, wire, at, seen, ended, timed, flushing, closed, entry,
                callbacks, channel, rejected>>
dashboardVars == <<table, active, conn, lastId, polls, written, overlapped>>
adminVars == <<network, asset, call, state, found>>
keyVars == <<provider, version, cached, where, read, floor, begun, raced>>
opsVars == <<part, streamVars, dashboardVars, adminVars, keyVars, ledgerVars>>

\* Rates that round on small amounts: no tiers, a free tier, and two premium
\* tiers of one seller of which the first ends.
Plain == [platformFeeBps |-> 3333, developerShareBps |-> 5000,
          freeTierMonthlyUnits |-> 0, premiumTiers |-> <<>>]
MCConfigs ==
  {Plain,
   [Plain EXCEPT !.freeTierMonthlyUnits = 10],
   [Plain EXCEPT !.premiumTiers =
      << [seller |-> w1, feeBps |-> 2500, expiresAt |-> 2],
         [seller |-> w1, feeBps |-> 500, expiresAt |-> NoExpiry] >>]}

OpsInit ==
  /\ part \in {"stream", "dashboard", "admin", "key", "fees"}
  /\ part # "key" => provider = "env"
  /\ part # "fees" => cfg = CHOOSE c \in Configs : TRUE
  /\ Stream!Init /\ Dashboard!Init /\ Admin!Init /\ Key!Init /\ LedgerInit

OpsNext ==
  /\ UNCHANGED part
  /\ \/ /\ part = "stream" /\ Stream!Next
        /\ UNCHANGED <<dashboardVars, adminVars, keyVars, ledgerVars>>
     \/ /\ part = "dashboard" /\ Dashboard!Next
        /\ UNCHANGED <<streamVars, adminVars, keyVars, ledgerVars>>
     \/ /\ part = "admin" /\ Admin!Next
        /\ UNCHANGED <<streamVars, dashboardVars, keyVars, ledgerVars>>
     \/ /\ part = "key" /\ Key!Next
        /\ UNCHANGED <<streamVars, dashboardVars, adminVars, ledgerVars>>
     \/ /\ part = "fees" /\ LedgerNext
        /\ UNCHANGED <<streamVars, dashboardVars, adminVars, keyVars>>

OpsSpec == OpsInit /\ [][OpsNext]_opsVars /\ Stream!Fairness

\* One type invariant for each part.
OpsTypeOK == Stream!TypeOK /\ Dashboard!TypeOK /\ Admin!TypeOK /\ Key!TypeOK /\ LedgerTypeOK

\* The properties of the parts, stated in their modules; those of the ledger
\* come with it.
ListenersSubscribed == Stream!ListenersSubscribed
StreamEnds == Stream!StreamEnds
RowsWrittenOnce == Dashboard!RowsWrittenOnce
DisabledStaysDisabled == Admin!DisabledStaysDisabled
KeyFreshAfterInvalidation == Key!KeyFreshAfterInvalidation
=============================================================================
