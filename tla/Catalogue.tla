----------------------------- MODULE Catalogue -----------------------------
(***************************************************************************)
(* The networks and assets of the admin API                                *)
(* (src/src/http/routes/admin.route.ts).  Handlers await PostgreSQL        *)
(* between a lookup and the write that follows it.                         *)
(*                                                                         *)
(* A row is named by the call that created it.  Names and addresses, which *)
(* PUT may change too, are left out: no handler looks a row up by them.    *)
(***************************************************************************)
CONSTANTS
  AdminCalls, \* executions of the admin handlers
  Chains,     \* chain ids
  Spellings,  \* of one asset symbol, "upper" among them
  NoRow       \* no row

VARIABLES
  network,    \* network[a]: the networks row a created
  asset,      \* asset[a]: the network_assets row a created
  call,       \* call[a]: what a was asked to do
  state,      \* state[a]: where its handler stands
  found       \* found[a]: the networks row a looked up

vars == <<network, asset, call, state, found>>

NoNetwork == [chain |-> NoRow, active |-> FALSE]
NoAsset == [network |-> NoRow, symbol |-> NoRow, active |-> FALSE]

\* active: what the body says, if it says anything.
Bodies == {"absent", "true", "false"}
Asked == [op : {"none", "add", "update", "disable", "addAsset", "disableAsset"},
          chain : Chains \cup {NoRow}, rename : Chains \cup {NoRow},
          symbol : Spellings \cup {NoRow}, active : Bodies]
Request(op, chain, rename, symbol, active) ==
  [op |-> op, chain |-> chain, rename |-> rename, symbol |-> symbol, active |-> active]
Nothing == Request("none", NoRow, NoRow, NoRow, "absent")

\* One type invariant for the whole state.
TypeOK ==
  /\ network \in [AdminCalls -> [chain : Chains \cup {NoRow}, active : BOOLEAN]]
  /\ asset \in [AdminCalls -> [network : AdminCalls \cup {NoRow},
                               symbol : Spellings \cup {NoRow}, active : BOOLEAN]]
  /\ call \in [AdminCalls -> Asked]
  /\ state \in [AdminCalls -> {"idle", "write", "201", "200", "204", "404", "409", "500"}]
  /\ found \in [AdminCalls -> AdminCalls \cup {NoRow}]

Init ==
  /\ network = [a \in AdminCalls |-> NoNetwork]
  /\ asset = [a \in AdminCalls |-> NoAsset]
  /\ call = [a \in AdminCalls |-> Nothing]
  /\ state = [a \in AdminCalls |-> "idle"]
  /\ found = [a \in AdminCalls |-> NoRow]

-----------------------------------------------------------------------------
(* Helpers. *)

\* findUnique by chainId.
Rows(chain) == {a \in AdminCalls : network[a].chain = chain}

Ask(a, request) == state[a] = "idle" /\ call' = [call EXCEPT ![a] = request]
Reply(a, status) == state' = [state EXCEPT ![a] = status]

\* The lookup of a two-step handler: 404 without a row.
LookUp(a, chain) ==
  \/ Rows(chain) = {} /\ Reply(a, "404") /\ UNCHANGED found
  \/ \E n \in Rows(chain) : found' = [found EXCEPT ![a] = n] /\ Reply(a, "write")

-----------------------------------------------------------------------------
(* Networks. *)

\* POST /admin/networks: the lookup.
AddNetwork(a, chain, active) ==
  /\ Ask(a, Request("add", chain, NoRow, NoRow, active))
  /\ Reply(a, IF Rows(chain) = {} THEN "write" ELSE "409")
  /\ UNCHANGED <<network, asset, found>>

\* The body's active defaults to true.  Of two calls that found nothing the
\* second violates UNIQUE and answers 500.
CreateNetwork(a) ==
  /\ state[a] = "write" /\ call[a].op = "add"
  /\ \/ /\ Rows(call[a].chain) = {}
        /\ network' = [network EXCEPT ![a] =
                         [chain |-> call[a].chain, active |-> call[a].active # "false"]]
        /\ Reply(a, "201")
     \/ Rows(call[a].chain) # {} /\ Reply(a, "500") /\ UNCHANGED network
  /\ UNCHANGED <<asset, call, found>>

\* Faulty variant: the default of the body's schema survives partial().
PatchedWithDefault(old, body) == body # "false"

\* partial(): a body without active leaves the column alone.
Patched(old, body) == IF body = "absent" THEN old ELSE body = "true"

\* PUT /admin/networks/:chainId in one statement; the body may change the chain
\* id.  Whatever PostgreSQL refuses, a taken chain id too, is a 404.
UpdateNetwork(a, chain, rename, active) ==
  /\ Ask(a, Request("update", chain, rename, NoRow, active))
  /\ \/ /\ Rows(chain) = {} \/ (rename \notin {NoRow, chain} /\ Rows(rename) # {})
        /\ Reply(a, "404")
        /\ UNCHANGED network
     \/ /\ rename \in {NoRow, chain} \/ Rows(rename) = {}
        /\ \E n \in Rows(chain) :
             network' = [network EXCEPT ![n] =
               [chain |-> IF rename = NoRow THEN chain ELSE rename,
                active |-> Patched(@.active, active)]]
        /\ Reply(a, "200")
  /\ UNCHANGED <<asset, found>>

\* DELETE /admin/networks/:chainId answers 204 whether or not there is a row.
DisableNetwork(a, chain) ==
  /\ Ask(a, Request("disable", chain, NoRow, NoRow, "absent"))
  /\ network' = [n \in AdminCalls |->
                   IF n \in Rows(chain) THEN [network[n] EXCEPT !.active = FALSE] ELSE network[n]]
  /\ Reply(a, "204")
  /\ UNCHANGED <<asset, found>>

-----------------------------------------------------------------------------
(* Assets. *)

\* POST /admin/networks/:chainId/assets: the lookup of the network.
AddAsset(a, chain, symbol) ==
  /\ Ask(a, Request("addAsset", chain, NoRow, symbol, "absent"))
  /\ LookUp(a, chain)
  /\ UNCHANGED <<network, asset>>

Same(b, a) == asset[b].network = found[a] /\ asset[b].symbol = call[a].symbol

\* The symbol is stored as it was spelled; (network, symbol) is UNIQUE.
CreateAsset(a) ==
  /\ state[a] = "write" /\ call[a].op = "addAsset"
  /\ \/ /\ ~\E b \in AdminCalls : Same(b, a)
        /\ asset' = [asset EXCEPT ![a] =
                       [network |-> found[a], symbol |-> call[a].symbol, active |-> TRUE]]
        /\ Reply(a, "201")
     \/ (\E b \in AdminCalls : Same(b, a)) /\ Reply(a, "409") /\ UNCHANGED asset
  /\ UNCHANGED <<network, call, found>>

\* DELETE /admin/networks/:chainId/assets/:symbol: the lookup of the network.
DisableAsset(a, chain) ==
  /\ Ask(a, Request("disableAsset", chain, NoRow, NoRow, "absent"))
  /\ LookUp(a, chain)
  /\ UNCHANGED <<network, asset>>

\* updateMany looks for the upper-case spelling only.
SwitchOff(a) ==
  /\ state[a] = "write" /\ call[a].op = "disableAsset"
  /\ asset' = [b \in AdminCalls |->
                 IF asset[b].network = found[a] /\ asset[b].symbol = "upper"
                 THEN [asset[b] EXCEPT !.active = FALSE] ELSE asset[b]]
  /\ Reply(a, "204")
  /\ UNCHANGED <<network, call, found>>

-----------------------------------------------------------------------------
Next ==
  \/ \E a \in AdminCalls, chain \in Chains :
       \/ \E active \in Bodies : \/ AddNetwork(a, chain, active)
                                 \/ \E rename \in Chains \cup {NoRow} :
                                      UpdateNetwork(a, chain, rename, active)
       \/ DisableNetwork(a, chain)
       \/ \E symbol \in Spellings : AddAsset(a, chain, symbol)
       \/ DisableAsset(a, chain)
  \/ \E a \in AdminCalls : CreateNetwork(a) \/ CreateAsset(a) \/ SwitchOff(a)

-----------------------------------------------------------------------------
(* Properties. *)

\* "Soft-disable a network (sets active=false, no data loss)": rows never go
\* away, and a network that was switched off comes back only by an update whose
\* body says so, whatever else is changed or added meanwhile.
DisabledStaysDisabled ==
  [][/\ \A a \in AdminCalls : network[a] # NoNetwork => network'[a].chain # NoRow
     /\ \A a \in AdminCalls : asset[a] # NoAsset => asset'[a].network = asset[a].network
     /\ (\E n \in AdminCalls : network[n].chain # NoRow /\ ~network[n].active /\ network'[n].active)
        => \E a \in AdminCalls : call[a] # call'[a] /\ call'[a].op = "update"
                                 /\ call'[a].active = "true"]_vars
=============================================================================
