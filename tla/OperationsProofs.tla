-------------------------- MODULE OperationsProofs --------------------------
(***************************************************************************)
(* Proofs about what surrounds the payments: the settlement streams, the   *)
(* dashboard, the admin catalogue and the key cache of MCOperations, then  *)
(* the Gateway, for any sets of streams, clients, calls, chains,           *)
(* spellings, sellers, requests and devices and any number of keys.        *)
(***************************************************************************)
EXTENDS MCOperations, Gateway, FiniteSetTheorems, TLAPS

-----------------------------------------------------------------------------
(* The settlement streams. *)

\* The set of listeners has a callback only while it is in the map, and an
\* entry of the map has sent its SUBSCRIBE unless one was rejected.
Registered ==
  /\ entry => channel \/ rejected
  /\ callbacks # {} => entry

\* Every step of a stream keeps it.
LEMMA StreamStep == Registered /\ Stream!Next => Registered'
<1> SUFFICES ASSUME Registered, Stream!Next PROVE Registered'
  OBVIOUS
<1> USE DEF Registered, Stream!listenerVars
<1>1. ASSUME NEW s \in Streams, Stream!HandlerStep(s) PROVE Registered'
  BY <1>1 DEF Stream!HandlerStep, Stream!Connect, Stream!AnswerFromRow, Stream!Subscribe,
     Stream!Subscribed, Stream!Flush, Stream!Timeout
<1>2. ASSUME NEW s \in Streams, Stream!Rejects(s) PROVE Registered'
  BY <1>2 DEF Stream!Rejects
<1>3. ASSUME NEW s \in Streams, Stream!Close(s) PROVE Registered'
  BY <1>3 DEF Stream!Close, Stream!Unsubscribe
<1>4. CASE Stream!SettlementMoves \/ Stream!Publish \/ Stream!Deliver
  BY <1>4 DEF Stream!SettlementMoves, Stream!Publish, Stream!Deliver
<1>5. QED
  BY <1>1, <1>2, <1>3, <1>4 DEF Stream!Next

-----------------------------------------------------------------------------
(* The key cache. *)

\* Nothing malformed is cached or returned, nothing is newer than the secret,
\* and unless an invalidation met an answer on its way, what is cached or on
\* its way is as new as the invalidation before it.
KeyState ==
  /\ version \in Nat /\ floor \in Nat /\ floor <= version
  /\ cached \in Nat
  /\ where \in [KeyCalls -> Key!Awaits]
  /\ read \in [KeyCalls -> Nat] /\ begun \in [KeyCalls -> Nat]
  /\ cached # 0 => cached \notin Malformed
  /\ cached = 0 \/ cached >= floor \/ raced

KeyOf(k) ==
  /\ begun[k] <= floor
  /\ where[k] = "fetched" => read[k] >= floor \/ raced
  /\ where[k] = "returned" => read[k] \notin Malformed /\ (read[k] >= begun[k] \/ raced)

KeyInv == KeyState /\ \A k \in KeyCalls : KeyOf(k)

\* Nothing is cached at first.
LEMMA KeyInit == OpsInit => KeyInv
BY DEF OpsInit, Key!Init, KeyInv, KeyState, KeyOf, Key!Awaits

\* Every step of the key provider keeps the invariant.
LEMMA KeyStep == KeyInv /\ Key!Next => KeyInv'
<1> SUFFICES ASSUME KeyInv, Key!Next PROVE KeyInv'
  OBVIOUS
<1> USE DEF KeyInv, KeyState, KeyOf, Key!Goto, Key!Awaits
<1>1. ASSUME NEW k \in KeyCalls, Key!Cached(k) PROVE KeyInv'
  BY <1>1 DEF Key!Cached
<1>2. ASSUME NEW k \in KeyCalls, Key!ResolveFromEnv(k) PROVE KeyInv'
  BY <1>2 DEF Key!ResolveFromEnv
<1>3. ASSUME NEW k \in KeyCalls, Key!Resolve(k) PROVE KeyInv'
  BY <1>3 DEF Key!Resolve
<1>4. ASSUME NEW k \in KeyCalls, Key!LoggedIn(k) PROVE KeyInv'
  BY <1>4 DEF Key!LoggedIn
<1>5. ASSUME NEW k \in KeyCalls, Key!Fetch(k) PROVE KeyInv'
  BY <1>5 DEF Key!Fetch
<1>6. ASSUME NEW k \in KeyCalls, Key!CacheKey(k) PROVE KeyInv'
  BY <1>6 DEF Key!CacheKey
<1>7. ASSUME NEW k \in KeyCalls, Key!Throws(k) PROVE KeyInv'
  BY <1>7 DEF Key!Throws
<1>8. CASE Key!Rotate
  BY <1>8 DEF Key!Rotate
<1>9. CASE Key!Invalidate
  <2>1. /\ cached' = 0 /\ floor' = version
        /\ UNCHANGED <<version, where, read, begun>>
        /\ raced => raced'
        /\ \A k \in KeyCalls : where[k] = "fetched" => raced'
    BY <1>9 DEF Key!Invalidate
  <2>2. QED
    BY <2>1
<1>10. QED
  BY <1>1, <1>2, <1>3, <1>4, <1>5, <1>6, <1>7, <1>8, <1>9 DEF Key!Next

-----------------------------------------------------------------------------
(* The admin catalogue. *)

Catalogued ==
  /\ network \in [AdminCalls -> [chain : Chains \cup {NoRow}, active : BOOLEAN]]
  /\ asset \in [AdminCalls -> [network : AdminCalls \cup {NoRow},
                               symbol : Spellings \cup {NoRow}, active : BOOLEAN]]
  /\ call \in [AdminCalls -> Admin!Asked]
  /\ state \in [AdminCalls -> {"idle", "write", "201", "200", "204", "404", "409", "500"}]
  /\ found \in [AdminCalls -> AdminCalls \cup {NoRow}]

\* Rows carry real chains, and a call that waits to write has no row yet.
Waits(a) ==
  /\ state[a] = "idle" => call[a].op = "none"
  /\ state[a] = "write" /\ call[a].op = "add" => call[a].chain \in Chains
  /\ state[a] = "write" /\ call[a].op = "addAsset" => call[a].symbol \in Spellings
  /\ state[a] \in {"idle", "write"} => network[a] = Admin!NoNetwork /\ asset[a] = Admin!NoAsset
  /\ network[a] = Admin!NoNetwork \/ network[a].chain \in Chains

AdminInv == Catalogued /\ \A a \in AdminCalls : Waits(a)

Ops == {"none", "add", "update", "disable", "addAsset", "disableAsset"}

\* The fields of a request.
LEMMA RequestFields ==
  ASSUME NEW op \in Ops, NEW chain \in Chains \cup {NoRow}, NEW rename \in Chains \cup {NoRow},
         NEW symbol \in Spellings \cup {NoRow}, NEW flag \in Admin!Bodies
  PROVE  /\ Admin!Request(op, chain, rename, symbol, flag) \in Admin!Asked
         /\ Admin!Request(op, chain, rename, symbol, flag).op = op
         /\ Admin!Request(op, chain, rename, symbol, flag).chain = chain
         /\ Admin!Request(op, chain, rename, symbol, flag).symbol = symbol
         /\ Admin!Request(op, chain, rename, symbol, flag).active = flag
BY DEF Admin!Request, Admin!Asked, Ops

\* The first statement of a handler, which touches no asset.
LEMMA Asking ==
  ASSUME AdminInv, NEW a \in AdminCalls, NEW q \in Admin!Asked,
         NEW answer \in {"write", "200", "204", "404", "409"},
         Admin!Ask(a, q), Admin!Reply(a, answer),
         q.chain \in Chains, q.op = "addAsset" => q.symbol \in Spellings,
         UNCHANGED asset,
         network' \in [AdminCalls -> [chain : Chains \cup {NoRow}, active : BOOLEAN]],
         \A n \in AdminCalls : \/ network'[n] = network[n]
                               \/ network[n].chain \in Chains /\ network'[n].chain \in Chains,
         found' \in [AdminCalls -> AdminCalls \cup {NoRow}]
  PROVE  AdminInv'
<1>1. /\ state[a] = "idle" /\ call' \in [AdminCalls -> Admin!Asked] /\ call'[a] = q
      /\ \A b \in AdminCalls : b # a => call'[b] = call[b]
  BY DEF Admin!Ask, AdminInv, Catalogued
<1>2. /\ state' \in [AdminCalls -> {"idle", "write", "201", "200", "204", "404", "409", "500"}]
      /\ state'[a] = answer /\ \A b \in AdminCalls : b # a => state'[b] = state[b]
  BY DEF Admin!Reply, AdminInv, Catalogued
<1>3. Catalogued'
  BY <1>1, <1>2 DEF AdminInv, Catalogued
<1>4. Admin!NoNetwork.chain \notin Chains
  BY NoRowAssumption DEF Admin!NoNetwork
<1>5. ASSUME NEW b \in AdminCalls PROVE Waits(b)'
  BY <1>1, <1>2, <1>4 DEF AdminInv, Waits
<1>6. QED
  BY <1>3, <1>5 DEF AdminInv

\* Switching networks or assets off keeps their types and their other columns.
LEMMA NetworksOff ==
  ASSUME Catalogued, NEW S \in SUBSET AdminCalls,
         network' = [n \in AdminCalls |->
                       IF n \in S THEN [network[n] EXCEPT !.active = FALSE] ELSE network[n]]
  PROVE  /\ network' \in [AdminCalls -> [chain : Chains \cup {NoRow}, active : BOOLEAN]]
         /\ \A n \in AdminCalls : \/ network'[n] = network[n]
                                  \/ /\ network'[n].chain = network[n].chain
                                     /\ network'[n].active = FALSE
<1>1. ASSUME NEW n \in AdminCalls
      PROVE  /\ [network[n] EXCEPT !.active = FALSE] \in [chain : Chains \cup {NoRow}, active : BOOLEAN]
             /\ [network[n] EXCEPT !.active = FALSE].chain = network[n].chain
             /\ [network[n] EXCEPT !.active = FALSE].active = FALSE
  BY DEF Catalogued
<1>2. ASSUME NEW n \in AdminCalls
      PROVE  \/ network'[n] = network[n]
             \/ network'[n].chain = network[n].chain /\ network'[n].active = FALSE
  BY <1>1
<1>3. network' \in [AdminCalls -> [chain : Chains \cup {NoRow}, active : BOOLEAN]]
  BY <1>1 DEF Catalogued
<1>4. QED
  BY <1>2, <1>3

\* The same for assets.
LEMMA AssetsOff ==
  ASSUME Catalogued, NEW S \in SUBSET AdminCalls,
         asset' = [b \in AdminCalls |->
                     IF b \in S THEN [asset[b] EXCEPT !.active = FALSE] ELSE asset[b]]
  PROVE  /\ asset' \in [AdminCalls -> [network : AdminCalls \cup {NoRow},
                                       symbol : Spellings \cup {NoRow}, active : BOOLEAN]]
         /\ \A b \in AdminCalls : asset'[b].network = asset[b].network
         /\ \A b \in AdminCalls : asset[b] = Admin!NoAsset => asset'[b] = asset[b]
<1>1. ASSUME NEW b \in AdminCalls
      PROVE  LET off == [asset[b] EXCEPT !.active = FALSE]
             IN /\ off \in [network : AdminCalls \cup {NoRow}, symbol : Spellings \cup {NoRow},
                            active : BOOLEAN]
                /\ off.network = asset[b].network /\ off.symbol = asset[b].symbol
                /\ off.active = FALSE
  BY DEF Catalogued
<1>2. ASSUME NEW b \in AdminCalls, asset[b] = Admin!NoAsset
      PROVE  [asset[b] EXCEPT !.active = FALSE] = Admin!NoAsset
  BY <1>1, <1>2 DEF Admin!NoAsset
<1>3. QED
  BY <1>1, <1>2 DEF Catalogued

\* The catalogue is empty at first.
LEMMA AdminInit == OpsInit => AdminInv
BY DEF OpsInit, AdminInv, Catalogued, Waits, Admin!Init, Admin!Nothing, Admin!Request,
   Admin!NoNetwork, Admin!NoAsset, Admin!Asked, Admin!Bodies

\* Every step of the admin API keeps the invariant.
LEMMA AdminStep ==
  ASSUME AdminInv, Admin!Next
  PROVE  AdminInv'
<1>1. ASSUME NEW a \in AdminCalls, NEW chain \in Chains, NEW flag \in Admin!Bodies,
             Admin!AddNetwork(a, chain, flag)
      PROVE  AdminInv'
  <2>1. /\ network' \in [AdminCalls -> [chain : Chains \cup {NoRow}, active : BOOLEAN]]
        /\ UNCHANGED network
    BY <1>1 DEF Admin!AddNetwork, AdminInv, Catalogued
  <2>2. /\ Admin!Ask(a, Admin!Request("add", chain, NoRow, NoRow, flag))
        /\ UNCHANGED asset
        /\ \E answer \in {"write", "409"} : Admin!Reply(a, answer)
    BY <1>1 DEF Admin!AddNetwork
  <2>3. found' \in [AdminCalls -> AdminCalls \cup {NoRow}]
    BY <1>1 DEF Admin!AddNetwork, AdminInv, Catalogued
  <2>4. PICK q \in Admin!Asked : /\ q = Admin!Request("add", chain, NoRow, NoRow, flag)
                                 /\ q.op = "add" /\ q.chain = chain /\ q.symbol = NoRow
    <3>1. Admin!Request("add", chain, NoRow, NoRow, flag) \in Admin!Asked
      BY DEF Admin!Request, Admin!Asked
    <3>2. /\ Admin!Request("add", chain, NoRow, NoRow, flag).op = "add"
          /\ Admin!Request("add", chain, NoRow, NoRow, flag).chain = chain
          /\ Admin!Request("add", chain, NoRow, NoRow, flag).symbol = NoRow
      BY DEF Admin!Request
    <3>3. QED
      BY <3>1, <3>2
  <2>5. QED
    BY <2>1, <2>2, <2>3, <2>4, Asking
<1>2. ASSUME NEW a \in AdminCalls, NEW chain \in Chains, NEW rename \in Chains \cup {NoRow},
             NEW flag \in Admin!Bodies, Admin!UpdateNetwork(a, chain, rename, flag)
      PROVE  AdminInv'
  <2>1. /\ network' \in [AdminCalls -> [chain : Chains \cup {NoRow}, active : BOOLEAN]]
        /\ \A n \in AdminCalls : \/ network'[n] = network[n]
                                 \/ network[n].chain \in Chains /\ network'[n].chain \in Chains
    <3>1. CASE UNCHANGED network
      BY <3>1 DEF AdminInv, Catalogued
    <3>2. ASSUME NEW n \in Admin!Rows(chain),
                 network' = [network EXCEPT ![n] =
                   [chain |-> IF rename = NoRow THEN chain ELSE rename,
                    active |-> Admin!Patched(@.active, flag)]]
          PROVE  <2>1!1 /\ <2>1!2
      <4>1. n \in AdminCalls /\ (IF rename = NoRow THEN chain ELSE rename) \in Chains
        BY DEF Admin!Rows
      <4>2. Admin!Patched(network[n].active, flag) \in BOOLEAN
        BY <4>1 DEF Admin!Patched, AdminInv, Catalogued
      <4>3. network[n].chain \in Chains
        BY DEF Admin!Rows
      <4>4. QED
        BY <3>2, <4>1, <4>2, <4>3 DEF AdminInv, Catalogued
    <3>3. QED
      BY <1>2, <3>1, <3>2 DEF Admin!UpdateNetwork
  <2>2. /\ Admin!Ask(a, Admin!Request("update", chain, rename, NoRow, flag))
        /\ UNCHANGED <<asset, found>>
        /\ \E answer \in {"200", "404"} : Admin!Reply(a, answer)
    BY <1>2 DEF Admin!UpdateNetwork
  <2>3. found' \in [AdminCalls -> AdminCalls \cup {NoRow}]
    BY <2>2 DEF AdminInv, Catalogued
  <2>4. PICK q \in Admin!Asked : /\ q = Admin!Request("update", chain, rename, NoRow, flag)
                                 /\ q.op = "update" /\ q.chain = chain /\ q.symbol = NoRow
    <3>1. Admin!Request("update", chain, rename, NoRow, flag) \in Admin!Asked
      BY DEF Admin!Request, Admin!Asked
    <3>2. /\ Admin!Request("update", chain, rename, NoRow, flag).op = "update"
          /\ Admin!Request("update", chain, rename, NoRow, flag).chain = chain
          /\ Admin!Request("update", chain, rename, NoRow, flag).symbol = NoRow
      BY DEF Admin!Request
    <3>3. QED
      BY <3>1, <3>2
  <2>5. QED
    BY <2>1, <2>2, <2>3, <2>4, Asking
<1>3. ASSUME NEW a \in AdminCalls, NEW chain \in Chains, Admin!DisableNetwork(a, chain)
      PROVE  AdminInv'
  <2>1. /\ network' \in [AdminCalls -> [chain : Chains \cup {NoRow}, active : BOOLEAN]]
        /\ \A n \in AdminCalls : \/ network'[n] = network[n]
                                 \/ network[n].chain \in Chains /\ network'[n].chain \in Chains
    <3>1. \A n \in Admin!Rows(chain) : network[n].chain \in Chains
      BY DEF Admin!Rows
    <3>2. Admin!Rows(chain) \in SUBSET AdminCalls
      BY DEF Admin!Rows
    <3>3. network' = [n \in AdminCalls |->
                        IF n \in Admin!Rows(chain) THEN [network[n] EXCEPT !.active = FALSE]
                        ELSE network[n]]
      BY <1>3 DEF Admin!DisableNetwork
    <3>4. \A n \in AdminCalls : n \notin Admin!Rows(chain) => network'[n] = network[n]
      BY <3>3
    <3>5. QED
      BY <3>1, <3>2, <3>3, <3>4, NetworksOff DEF AdminInv
  <2>2. /\ Admin!Ask(a, Admin!Request("disable", chain, NoRow, NoRow, "absent"))
        /\ UNCHANGED <<asset, found>> /\ Admin!Reply(a, "204")
    BY <1>3 DEF Admin!DisableNetwork
  <2>3. found' \in [AdminCalls -> AdminCalls \cup {NoRow}]
    BY <2>2 DEF AdminInv, Catalogued
  <2>4. PICK q \in Admin!Asked : /\ q = Admin!Request("disable", chain, NoRow, NoRow, "absent")
                                 /\ q.op = "disable" /\ q.chain = chain /\ q.symbol = NoRow
    <3>1. Admin!Request("disable", chain, NoRow, NoRow, "absent") \in Admin!Asked
      BY DEF Admin!Request, Admin!Asked, Admin!Bodies
    <3>2. /\ Admin!Request("disable", chain, NoRow, NoRow, "absent").op = "disable"
          /\ Admin!Request("disable", chain, NoRow, NoRow, "absent").chain = chain
          /\ Admin!Request("disable", chain, NoRow, NoRow, "absent").symbol = NoRow
      BY DEF Admin!Request
    <3>3. QED
      BY <3>1, <3>2
  <2>5. QED
    BY <2>1, <2>2, <2>3, <2>4, Asking
<1>4. ASSUME NEW a \in AdminCalls, NEW chain \in Chains, NEW symbol \in Spellings,
             Admin!AddAsset(a, chain, symbol)
      PROVE  AdminInv'
  <2>1. /\ found' \in [AdminCalls -> AdminCalls \cup {NoRow}]
        /\ \E answer \in {"write", "404"} : Admin!Reply(a, answer)
    BY <1>4 DEF Admin!AddAsset, Admin!LookUp, Admin!Rows, AdminInv, Catalogued
  <2>2. /\ Admin!Ask(a, Admin!Request("addAsset", chain, NoRow, symbol, "absent"))
        /\ UNCHANGED <<network, asset>>
    BY <1>4 DEF Admin!AddAsset
  <2>3. network' \in [AdminCalls -> [chain : Chains \cup {NoRow}, active : BOOLEAN]]
    BY <2>2 DEF AdminInv, Catalogued
  <2>4. PICK q \in Admin!Asked : /\ q = Admin!Request("addAsset", chain, NoRow, symbol, "absent")
                                 /\ q.op = "addAsset" /\ q.chain = chain /\ q.symbol = symbol
    <3>1. Admin!Request("addAsset", chain, NoRow, symbol, "absent") \in Admin!Asked
      BY DEF Admin!Request, Admin!Asked, Admin!Bodies
    <3>2. /\ Admin!Request("addAsset", chain, NoRow, symbol, "absent").op = "addAsset"
          /\ Admin!Request("addAsset", chain, NoRow, symbol, "absent").chain = chain
          /\ Admin!Request("addAsset", chain, NoRow, symbol, "absent").symbol = symbol
      BY DEF Admin!Request
    <3>3. QED
      BY <3>1, <3>2
  <2>5. QED
    BY <2>1, <2>2, <2>3, <2>4, Asking
<1>5. ASSUME NEW a \in AdminCalls, NEW chain \in Chains, Admin!DisableAsset(a, chain)
      PROVE  AdminInv'
  <2>1. /\ found' \in [AdminCalls -> AdminCalls \cup {NoRow}]
        /\ \E answer \in {"write", "404"} : Admin!Reply(a, answer)
    BY <1>5 DEF Admin!DisableAsset, Admin!LookUp, Admin!Rows, AdminInv, Catalogued
  <2>2. /\ Admin!Ask(a, Admin!Request("disableAsset", chain, NoRow, NoRow, "absent"))
        /\ UNCHANGED <<network, asset>>
    BY <1>5 DEF Admin!DisableAsset
  <2>3. network' \in [AdminCalls -> [chain : Chains \cup {NoRow}, active : BOOLEAN]]
    BY <2>2 DEF AdminInv, Catalogued
  <2>4. PICK q \in Admin!Asked : /\ q = Admin!Request("disableAsset", chain, NoRow, NoRow, "absent")
                                 /\ q.op = "disableAsset" /\ q.chain = chain /\ q.symbol = NoRow
    <3>1. Admin!Request("disableAsset", chain, NoRow, NoRow, "absent") \in Admin!Asked
      BY DEF Admin!Request, Admin!Asked, Admin!Bodies
    <3>2. /\ Admin!Request("disableAsset", chain, NoRow, NoRow, "absent").op = "disableAsset"
          /\ Admin!Request("disableAsset", chain, NoRow, NoRow, "absent").chain = chain
          /\ Admin!Request("disableAsset", chain, NoRow, NoRow, "absent").symbol = NoRow
      BY DEF Admin!Request
    <3>3. QED
      BY <3>1, <3>2
  <2>5. QED
    BY <2>1, <2>2, <2>3, <2>4, Asking
<1>6. ASSUME NEW a \in AdminCalls, Admin!CreateNetwork(a) PROVE AdminInv'
  <2>1. /\ state[a] = "write" /\ UNCHANGED <<asset, call, found>>
        /\ state' \in [AdminCalls -> {"idle", "write", "201", "200", "204", "404", "409", "500"}]
        /\ state'[a] \in {"201", "500"} /\ \A b \in AdminCalls : b # a => state'[b] = state[b]
    BY <1>6 DEF Admin!CreateNetwork, Admin!Reply, AdminInv, Catalogued
  <2>2. call[a].chain \in Chains
    BY <1>6 DEF Admin!CreateNetwork, AdminInv, Waits
  <2>3. /\ network' \in [AdminCalls -> [chain : Chains \cup {NoRow}, active : BOOLEAN]]
        /\ network'[a] = network[a] \/ network'[a].chain \in Chains
        /\ \A n \in AdminCalls : n # a => network'[n] = network[n]
    <3>1. CASE UNCHANGED network
      BY <3>1 DEF AdminInv, Catalogued
    <3>2. CASE network' = [network EXCEPT ![a] =
                  [chain |-> call[a].chain, active |-> call[a].active # "false"]]
      <4>1. (call[a].active # "false") \in BOOLEAN
        OBVIOUS
      <4> DEFINE on == call[a].active # "false"
      <4> HIDE DEF on
      <4>2. network' = [network EXCEPT ![a] = [chain |-> call[a].chain, active |-> on]]
        BY <3>2 DEF on
      <4>3. QED
        BY <2>2, <4>1, <4>2 DEF AdminInv, Catalogued, on
    <3>3. QED
      BY <1>6, <3>1, <3>2 DEF Admin!CreateNetwork
  <2>4. QED
    BY <2>1, <2>3 DEF AdminInv, Catalogued, Waits
<1>7. ASSUME NEW a \in AdminCalls, Admin!CreateAsset(a) PROVE AdminInv'
  <2>1. /\ state[a] = "write" /\ UNCHANGED <<network, call, found>>
        /\ state' \in [AdminCalls -> {"idle", "write", "201", "200", "204", "404", "409", "500"}]
        /\ state'[a] \in {"201", "409"} /\ \A b \in AdminCalls : b # a => state'[b] = state[b]
    BY <1>7 DEF Admin!CreateAsset, Admin!Reply, AdminInv, Catalogued
  <2>2. call[a].symbol \in Spellings /\ found[a] \in AdminCalls \cup {NoRow}
    BY <1>7 DEF Admin!CreateAsset, AdminInv, Waits, Catalogued
  <2>3. /\ asset' \in [AdminCalls -> [network : AdminCalls \cup {NoRow},
                                      symbol : Spellings \cup {NoRow}, active : BOOLEAN]]
        /\ \A b \in AdminCalls : b # a => asset'[b] = asset[b]
    <3>1. CASE UNCHANGED asset
      BY <3>1 DEF AdminInv, Catalogued
    <3>2. CASE asset' = [asset EXCEPT ![a] =
                  [network |-> found[a], symbol |-> call[a].symbol, active |-> TRUE]]
      BY <2>2, <3>2 DEF AdminInv, Catalogued
    <3>3. QED
      BY <1>7, <3>1, <3>2 DEF Admin!CreateAsset
  <2>4. QED
    BY <2>1, <2>3 DEF AdminInv, Catalogued, Waits
<1>8. ASSUME NEW a \in AdminCalls, Admin!SwitchOff(a) PROVE AdminInv'
  <2>1. /\ state[a] = "write" /\ UNCHANGED <<network, call, found>>
        /\ state' \in [AdminCalls -> {"idle", "write", "201", "200", "204", "404", "409", "500"}]
        /\ state'[a] = "204" /\ \A b \in AdminCalls : b # a => state'[b] = state[b]
    BY <1>8 DEF Admin!SwitchOff, Admin!Reply, AdminInv, Catalogued
  <2>2. \E S \in SUBSET AdminCalls :
          asset' = [b \in AdminCalls |->
                      IF b \in S THEN [asset[b] EXCEPT !.active = FALSE] ELSE asset[b]]
    <3> DEFINE S == {b \in AdminCalls : asset[b].network = found[a] /\ asset[b].symbol = "upper"}
    <3>1. asset' = [b \in AdminCalls |->
                      IF b \in S THEN [asset[b] EXCEPT !.active = FALSE] ELSE asset[b]]
      BY <1>8 DEF Admin!SwitchOff
    <3>2. QED
      BY <3>1
  <2>3. /\ asset' \in [AdminCalls -> [network : AdminCalls \cup {NoRow},
                                      symbol : Spellings \cup {NoRow}, active : BOOLEAN]]
        /\ \A b \in AdminCalls : asset[b] = Admin!NoAsset => asset'[b] = asset[b]
    BY <2>2, AssetsOff DEF AdminInv
  <2>4. QED
    BY <2>1, <2>3 DEF AdminInv, Catalogued, Waits
<1>10. QED
  BY <1>1, <1>2, <1>3, <1>4, <1>5, <1>6, <1>7, <1>8 DEF Admin!Next

\* What a step may do to a disabled network, to a row and to an asset.
AdminAct ==
  /\ \A a \in AdminCalls : network[a] # Admin!NoNetwork => network'[a].chain # NoRow
  /\ \A a \in AdminCalls : asset[a] # Admin!NoAsset => asset'[a].network = asset[a].network
  /\ (\E n \in AdminCalls : network[n].chain # NoRow /\ ~network[n].active /\ network'[n].active)
     => \E a \in AdminCalls : call[a] # call'[a] /\ call'[a].op = "update"
                              /\ call'[a].active = "true"

\* Rows stay, and only an update that says so switches a network on.
LEMMA AdminActs ==
  ASSUME AdminInv, Admin!Next
  PROVE  AdminAct
<1>0. \A n \in AdminCalls : network[n] # Admin!NoNetwork => network[n].chain # NoRow
  BY NoRowAssumption DEF AdminInv, Waits
<1>1. ASSUME UNCHANGED <<network, asset>> PROVE AdminAct
  BY <1>0, <1>1 DEF AdminAct
<1>2. ASSUME NEW a \in AdminCalls, NEW chain \in Chains, NEW flag \in Admin!Bodies,
             Admin!AddNetwork(a, chain, flag)
      PROVE  AdminAct
  BY <1>1, <1>2 DEF Admin!AddNetwork
<1>3. ASSUME NEW a \in AdminCalls, NEW chain \in Chains,
             (\E symbol \in Spellings : Admin!AddAsset(a, chain, symbol))
             \/ Admin!DisableAsset(a, chain)
      PROVE  AdminAct
  BY <1>1, <1>3 DEF Admin!AddAsset, Admin!DisableAsset
<1>4. ASSUME NEW a \in AdminCalls, NEW chain \in Chains, NEW rename \in Chains \cup {NoRow},
             NEW flag \in Admin!Bodies, Admin!UpdateNetwork(a, chain, rename, flag)
      PROVE  AdminAct
  <2>1. CASE UNCHANGED network
    BY <1>1, <1>4, <2>1 DEF Admin!UpdateNetwork
  <2>2. ASSUME NEW n \in Admin!Rows(chain),
               network' = [network EXCEPT ![n] =
                 [chain |-> IF rename = NoRow THEN chain ELSE rename,
                  active |-> Admin!Patched(@.active, flag)]]
        PROVE  AdminAct
    <3>1. /\ n \in AdminCalls /\ (IF rename = NoRow THEN chain ELSE rename) \in Chains
          /\ network \in [AdminCalls -> [chain : Chains \cup {NoRow}, active : BOOLEAN]]
      BY DEF Admin!Rows, AdminInv, Catalogued
    <3>2. /\ \A m \in AdminCalls : m # n => network'[m] = network[m]
          /\ network'[n].chain \in Chains
          /\ network'[n].active = Admin!Patched(network[n].active, flag)
      BY <2>2, <3>1
    <3>3. /\ Admin!Ask(a, Admin!Request("update", chain, rename, NoRow, flag))
          /\ UNCHANGED asset
      BY <1>4 DEF Admin!UpdateNetwork
    <3>4. call'[a].op = "update" /\ call'[a].active = flag /\ call[a].op = "none"
      <4>1. call[a].op = "none" /\ call'[a] = Admin!Request("update", chain, rename, NoRow, flag)
        BY <3>3 DEF Admin!Ask, AdminInv, Waits, Catalogued
      <4>2. QED
        BY <4>1, RequestFields DEF Ops
    <3>5. ASSUME NEW m \in AdminCalls, ~network[m].active, network'[m].active
          PROVE  flag = "true"
      BY <3>2, <3>5 DEF Admin!Patched, Admin!Bodies
    <3>6. \A m \in AdminCalls : network[m] # Admin!NoNetwork => network'[m].chain # NoRow
      BY <1>0, <3>2, NoRowAssumption
    <3>7. QED
      BY <3>3, <3>4, <3>5, <3>6 DEF AdminAct
  <2>3. QED
    BY <1>4, <2>1, <2>2 DEF Admin!UpdateNetwork
<1>5. ASSUME NEW a \in AdminCalls, NEW chain \in Chains, Admin!DisableNetwork(a, chain)
      PROVE  AdminAct
  <2>1. /\ network' = [n \in AdminCalls |->
                        IF n \in Admin!Rows(chain) THEN [network[n] EXCEPT !.active = FALSE]
                        ELSE network[n]]
        /\ Admin!Rows(chain) \in SUBSET AdminCalls /\ UNCHANGED asset
    BY <1>5 DEF Admin!DisableNetwork, Admin!Rows
  <2>2. \A n \in AdminCalls : \/ network'[n] = network[n]
                              \/ /\ network'[n].chain = network[n].chain
                                 /\ network'[n].active = FALSE
    BY <2>1, NetworksOff DEF AdminInv
  <2>3. QED
    BY <1>0, <2>1, <2>2 DEF AdminAct
<1>6. ASSUME NEW a \in AdminCalls, Admin!CreateNetwork(a) PROVE AdminAct
  <2>1. /\ UNCHANGED asset /\ call[a].chain \in Chains
        /\ network[a] = Admin!NoNetwork /\ network[a].chain = NoRow
    <3>1. /\ UNCHANGED asset /\ call[a].chain \in Chains
          /\ network[a] = Admin!NoNetwork
      BY <1>6 DEF Admin!CreateNetwork, AdminInv, Waits
    <3>2. QED
      BY <3>1 DEF Admin!NoNetwork
  <2>2. \A n \in AdminCalls : n # a => network'[n] = network[n]
    BY <1>6 DEF Admin!CreateNetwork, AdminInv, Catalogued
  <2>3. QED
    BY <1>0, <2>1, <2>2 DEF AdminAct
<1>7. ASSUME NEW a \in AdminCalls, Admin!CreateAsset(a) PROVE AdminAct
  <2>1. UNCHANGED network /\ asset[a] = Admin!NoAsset
    BY <1>7 DEF Admin!CreateAsset, AdminInv, Waits
  <2>2. \A b \in AdminCalls : b # a => asset'[b] = asset[b]
    BY <1>7 DEF Admin!CreateAsset, AdminInv, Catalogued
  <2>3. QED
    BY <1>0, <2>1, <2>2 DEF AdminAct
<1>8. ASSUME NEW a \in AdminCalls, Admin!SwitchOff(a) PROVE AdminAct
  <2> DEFINE S == {b \in AdminCalls : asset[b].network = found[a] /\ asset[b].symbol = "upper"}
  <2>1. /\ UNCHANGED network
        /\ asset' = [b \in AdminCalls |->
                      IF b \in S THEN [asset[b] EXCEPT !.active = FALSE] ELSE asset[b]]
    BY <1>8 DEF Admin!SwitchOff
  <2>2. \A b \in AdminCalls : asset'[b].network = asset[b].network
    BY <2>1, AssetsOff DEF AdminInv
  <2>3. QED
    BY <1>0, <2>1, <2>2 DEF AdminAct
<1>10. QED
  <2>1. CASE \E a \in AdminCalls, chain \in Chains :
               \/ \E flag \in Admin!Bodies :
                    \/ Admin!AddNetwork(a, chain, flag)
                    \/ \E rename \in Chains \cup {NoRow} :
                         Admin!UpdateNetwork(a, chain, rename, flag)
               \/ Admin!DisableNetwork(a, chain)
               \/ \E symbol \in Spellings : Admin!AddAsset(a, chain, symbol)
               \/ Admin!DisableAsset(a, chain)
    BY <2>1, <1>2, <1>3, <1>4, <1>5
  <2>2. QED
    BY <2>1, <1>6, <1>7, <1>8 DEF Admin!Next

-----------------------------------------------------------------------------
(* The dashboard stream. *)

\* The table holds each row once, and ids grow with it.
Ordered == \A i, j \in DOMAIN table : i < j => table[i] < table[j]

\* A page in flight lies above what the stream has written, in order of ids.
Ahead(c) ==
  /\ Len(polls[c]) <= 1
  /\ polls[c] # <<>> =>
       /\ \A i \in DOMAIN polls[c][1] : polls[c][1][i] > lastId[c]
       /\ \A i, j \in DOMAIN polls[c][1] : i < j => polls[c][1][i] < polls[c][1][j]

\* What was written is below the place reached and nothing is there twice.
Behind(c) ==
  /\ \A i \in DOMAIN written[c] : written[c][i] <= lastId[c]
  /\ \A i, j \in DOMAIN written[c] : written[c][i] = written[c][j] => i = j

DashTyped ==
  /\ table \in Seq(Nat)
  /\ \A i, j \in DOMAIN table : table[i] = table[j] => i = j
  /\ lastId \in [Clients -> Nat]
  /\ polls \in [Clients -> Seq(Seq(Nat))]
  /\ written \in [Clients -> Seq(Nat)]

DashInv ==
  /\ DashTyped
  /\ \A c \in Clients : c \in overlapped \/ ~Ordered \/ (Ahead(c) /\ Behind(c))

\* The page of a poll: rows above the last id, in the order of the table.
LEMMA PageAhead ==
  ASSUME NEW last \in Nat, table \in Seq(Nat), NEW p \in Dashboard!InOrder(Dashboard!FirstNewer(last))
  PROVE  /\ Dashboard!Page(p) \in Seq(Nat)
         /\ \A i \in DOMAIN Dashboard!Page(p) : Dashboard!Page(p)[i] > last
         /\ Ordered => \A i, j \in DOMAIN Dashboard!Page(p) :
                         i < j => Dashboard!Page(p)[i] < Dashboard!Page(p)[j]
<1> DEFINE places == Dashboard!FirstNewer(last)
           n == Cardinality(places)
<1>1. /\ DOMAIN table = 1..Len(table) /\ Len(table) \in Nat
      /\ \A i \in DOMAIN table : table[i] \in Nat
  OBVIOUS
<1>2. places \subseteq DOMAIN table /\ \A i \in places : table[i] > last
  BY DEF Dashboard!FirstNewer, Dashboard!Newer
<1>3. n \in Nat
  <2>1. IsFiniteSet(1..Len(table))
    BY <1>1, FS_Interval
  <2>2. IsFiniteSet(places)
    BY <1>1, <1>2, <2>1, FS_Subset
  <2>3. QED
    BY <2>2, FS_CardinalityType
<1>4. /\ p \in [1..n -> places]
      /\ \A i, j \in 1..n : i < j => p[i] < p[j]
  <2>1. p \in Dashboard!InOrder(places)
    OBVIOUS
  <2>2. Dashboard!Cardinality(places) = n
    BY DEF Cardinality, Dashboard!Cardinality, IsFiniteSet, Dashboard!IsFiniteSet
  <2> HIDE DEF places, n
  <2>3. QED
    BY <2>1, <2>2 DEF Dashboard!InOrder
<1> HIDE DEF places, n
<1>5. Dashboard!Page(p) = [i \in 1..n |-> table[p[i]]]
  BY <1>4 DEF Dashboard!Page
<1>6. \A i \in 1..n : p[i] \in DOMAIN table /\ table[p[i]] \in Nat /\ table[p[i]] > last
  BY <1>1, <1>2, <1>4
<1>7. Dashboard!Page(p) \in Seq(Nat)
  BY <1>3, <1>5, <1>6
<1>8. Ordered => \A i, j \in 1..n : i < j => table[p[i]] < table[p[j]]
  BY <1>4, <1>6 DEF Ordered
<1>9. QED
  BY <1>5, <1>6, <1>7, <1>8

\* A row that is created keeps the table's rows and their order or ends it.
LEMMA RowCreated ==
  ASSUME DashInv, NEW id \in Dashboard!Ids, Dashboard!CreateSettlement(id)
  PROVE  DashInv'
<1>1. /\ table \in Seq(Nat) /\ id \in Nat /\ table' = Append(table, id)
      /\ \A i \in DOMAIN table : table[i] # id
      /\ UNCHANGED <<lastId, polls, written, overlapped>>
  BY DEF DashInv, DashTyped, Dashboard!CreateSettlement, Dashboard!Ids, Dashboard!ToSet
<1>2. /\ table' \in Seq(Nat) /\ DOMAIN table = 1..Len(table) /\ DOMAIN table' = 1..(Len(table) + 1)
      /\ Len(table) \in Nat /\ table'[Len(table) + 1] = id
      /\ \A i \in DOMAIN table : table'[i] = table[i]
  BY <1>1
<1>3. Ordered' => Ordered
  BY <1>2 DEF Ordered
<1>4. DashTyped'
  <2>1. \A i, j \in DOMAIN table' : table'[i] = table'[j] => i = j
    BY <1>1, <1>2 DEF DashInv, DashTyped
  <2>2. QED
    BY <1>1, <1>2, <2>1 DEF DashInv, DashTyped
<1>5. \A c \in Clients : (Ahead(c) => Ahead(c)') /\ (Behind(c) => Behind(c)')
  BY <1>1 DEF Ahead, Behind
<1>6. QED
  BY <1>1, <1>3, <1>4, <1>5 DEF DashInv

\* A poll reads above the place reached, or overlaps the one before it.
LEMMA Polled ==
  ASSUME DashInv, NEW c \in Clients, Dashboard!Poll(c)
  PROVE  DashInv'
<1>1. PICK p \in Dashboard!InOrder(Dashboard!FirstNewer(lastId[c])) :
        polls' = [polls EXCEPT ![c] = Append(polls[c], Dashboard!Page(p))]
  BY DEF Dashboard!Poll
<1>2. /\ overlapped' = IF polls[c] = <<>> THEN overlapped ELSE overlapped \cup {c}
      /\ UNCHANGED <<table, lastId, written>>
  BY DEF Dashboard!Poll
<1>3. /\ table \in Seq(Nat) /\ lastId[c] \in Nat /\ polls \in [Clients -> Seq(Seq(Nat))]
  BY DEF DashInv, DashTyped
<1> DEFINE page == Dashboard!Page(p)
<1>4. /\ page \in Seq(Nat)
      /\ \A i \in DOMAIN page : page[i] > lastId[c]
      /\ Ordered => \A i, j \in DOMAIN page : i < j => page[i] < page[j]
  BY <1>3, PageAhead
<1> HIDE DEF page
<1>5. /\ polls' = [polls EXCEPT ![c] = Append(polls[c], page)]
      /\ polls'[c] = Append(polls[c], page)
      /\ \A d \in Clients : d # c => polls'[d] = polls[d]
  BY <1>1, <1>3 DEF page
<1>6. DashTyped'
  <2>1. polls' \in [Clients -> Seq(Seq(Nat))]
    BY <1>3, <1>4, <1>5
  <2>2. QED
    BY <1>2, <2>1 DEF DashInv, DashTyped
<1>7. ASSUME polls[c] = <<>>, Ordered PROVE Ahead(c)'
  <2>1. polls'[c] = <<page>>
    BY <1>5, <1>7
  <2>2. Len(polls'[c]) = 1 /\ polls'[c][1] = page
    BY <2>1
  <2>3. QED
    BY <1>2, <1>4, <1>7, <2>2 DEF Ahead
<1>8. Ordered' <=> Ordered
  BY <1>2 DEF Ordered
<1>9. \A d \in Clients : (d # c /\ Ahead(d) => Ahead(d)') /\ (Behind(d) => Behind(d)')
  BY <1>2, <1>5 DEF Ahead, Behind
<1>10. ASSUME NEW d \in Clients PROVE (d \in overlapped \/ ~Ordered \/ (Ahead(d) /\ Behind(d)))'
  <2>1. overlapped \subseteq overlapped'
    BY <1>2
  <2>2. CASE d \in overlapped \/ ~Ordered
    BY <1>8, <2>1, <2>2
  <2>3. CASE ~(d \in overlapped \/ ~Ordered) /\ d # c
    BY <1>9, <2>3 DEF DashInv
  <2>4. CASE ~(d \in overlapped \/ ~Ordered) /\ d = c
    <3>1. CASE polls[c] = <<>>
      BY <1>7, <1>9, <2>4, <3>1 DEF DashInv
    <3>2. CASE polls[c] # <<>>
      BY <1>2, <2>4, <3>2
    <3>3. QED
      BY <3>1, <3>2
  <2>5. QED
    BY <2>2, <2>3, <2>4
<1>11. QED
  BY <1>6, <1>10 DEF DashInv

\* The only poll in flight leaves none behind.
LEMMA LastPoll ==
  ASSUME NEW q \in Seq(Seq(Nat)), q # <<>>, Len(q) <= 1
  PROVE  Tail(q) = <<>>
OBVIOUS

\* The rows of a page are written after the others, above all of them.
LEMMA RowsWritten ==
  ASSUME DashInv, NEW c \in Clients, Dashboard!WriteRows(c)
  PROVE  DashInv'
<1> DEFINE page == polls[c][1]
           old == written[c]
<1>1. /\ polls \in [Clients -> Seq(Seq(Nat))] /\ written \in [Clients -> Seq(Nat)]
      /\ lastId \in [Clients -> Nat] /\ polls[c] \in Seq(Seq(Nat)) /\ polls[c] # <<>>
      /\ old \in Seq(Nat) /\ lastId[c] \in Nat
  BY DEF DashInv, DashTyped, Dashboard!WriteRows
<1>2. page \in Seq(Nat) /\ Head(polls[c]) = page /\ Len(page) \in Nat /\ DOMAIN page = 1..Len(page)
  BY <1>1
<1> HIDE DEF page
<1>3. /\ polls' = [polls EXCEPT ![c] = Tail(polls[c])]
      /\ written' = [written EXCEPT ![c] = old \o page]
      /\ lastId' = [lastId EXCEPT ![c] = IF page = <<>> THEN lastId[c] ELSE page[Len(page)]]
      /\ UNCHANGED <<table, overlapped>>
  BY <1>2 DEF Dashboard!WriteRows, Dashboard!Last
<1> HIDE DEF old
<1>4. page # <<>> => page[Len(page)] \in Nat /\ Len(page) > 0
  BY <1>2
<1>5. DashTyped'
  <2>1. polls' \in [Clients -> Seq(Seq(Nat))]
    BY <1>1, <1>3
  <2>2. written' \in [Clients -> Seq(Nat)]
    BY <1>1, <1>2, <1>3
  <2>3. lastId' \in [Clients -> Nat]
    BY <1>1, <1>3, <1>4
  <2>4. QED
    BY <1>3, <2>1, <2>2, <2>3 DEF DashInv, DashTyped
<1>6. \A d \in Clients : d # c => (Ahead(d) => Ahead(d)') /\ (Behind(d) => Behind(d)')
  BY <1>1, <1>3 DEF Ahead, Behind
<1>7. ASSUME Ahead(c), Behind(c) PROVE Ahead(c)' /\ Behind(c)'
  <2>1. polls'[c] = <<>>
    <3>1. polls'[c] = Tail(polls[c])
      BY <1>1, <1>3
    <3>2. QED
      BY <1>1, <1>7, <3>1, LastPoll DEF Ahead
  <2>2. Ahead(c)'
    BY <2>1 DEF Ahead
  <2>3. /\ \A i \in DOMAIN page : page[i] > lastId[c] /\ page[i] \in Nat
        /\ \A i, j \in DOMAIN page : i < j => page[i] < page[j]
    BY <1>1, <1>2, <1>7 DEF Ahead, page
  <2>4. /\ \A i \in DOMAIN old : old[i] <= lastId[c] /\ old[i] \in Nat
        /\ \A i, j \in DOMAIN old : old[i] = old[j] => i = j
    BY <1>1, <1>7 DEF Behind, old
  <2> DEFINE new == old \o page
             top == IF page = <<>> THEN lastId[c] ELSE page[Len(page)]
  <2>5. written'[c] = new /\ lastId'[c] = top
    BY <1>1, <1>3
  <2>6. /\ Len(old) \in Nat /\ DOMAIN old = 1..Len(old)
        /\ DOMAIN new = 1..(Len(old) + Len(page))
        /\ \A i \in 1..Len(old) : new[i] = old[i]
        /\ \A i \in 1..(Len(old) + Len(page)) : i > Len(old) =>
             new[i] = page[i - Len(old)] /\ i - Len(old) \in DOMAIN page
    BY <1>1, <1>2
  <2>7. top \in Nat /\ lastId[c] <= top /\ \A i \in DOMAIN page : page[i] <= top
    <3>1. CASE page = <<>>
      BY <1>1, <3>1
    <3>2. CASE page # <<>>
      <4>1. top = page[Len(page)] /\ Len(page) \in DOMAIN page
        BY <1>2, <1>4, <3>2
      <4>2. \A i \in DOMAIN page : i = Len(page) \/ i < Len(page)
        BY <1>2
      <4>3. QED
        BY <1>1, <2>3, <4>1, <4>2
    <3>3. QED
      BY <3>1, <3>2
  <2> HIDE DEF new, top
  <2>8. \A i \in DOMAIN new : new[i] <= top
    <3>1. ASSUME NEW i \in 1..Len(old) PROVE new[i] <= top
      <4>1. new[i] \in Nat /\ new[i] <= lastId[c]
        BY <2>4, <2>6
      <4>2. QED
        BY <1>1, <2>7, <4>1
    <3>2. QED
      BY <2>6, <2>7, <3>1
  <2>9. ASSUME NEW i \in DOMAIN new, NEW j \in DOMAIN new, new[i] = new[j], i < j PROVE FALSE
    <3>1. CASE j <= Len(old)
      BY <2>4, <2>6, <2>9, <3>1
    <3>2. CASE i <= Len(old) /\ j > Len(old)
      <4>1. new[i] <= lastId[c] /\ new[i] \in Nat
        BY <2>4, <2>6, <3>2
      <4>2. new[j] > lastId[c] /\ new[j] \in Nat
        BY <2>3, <2>6, <3>2
      <4>3. QED
        BY <1>1, <2>9, <4>1, <4>2
    <3>3. CASE i > Len(old)
      <4> DEFINE k == i - Len(old)
                 l == j - Len(old)
      <4>1. k \in DOMAIN page /\ l \in DOMAIN page /\ k < l /\ new[i] = page[k] /\ new[j] = page[l]
        BY <2>6, <2>9, <3>3
      <4> HIDE DEF k, l
      <4>2. page[k] < page[l] /\ page[k] \in Nat /\ page[l] \in Nat
        BY <2>3, <4>1
      <4>3. page[k] = page[l]
        BY <2>9, <4>1
      <4>4. \A m \in Nat : ~(m < m)
        OBVIOUS
      <4>5. QED
        BY <4>2, <4>3, <4>4
    <3>4. QED
      BY <2>6, <3>1, <3>2, <3>3
  <2>10. \A i, j \in DOMAIN new : new[i] = new[j] => i = j
    BY <2>6, <2>9
  <2>11. QED
    BY <2>2, <2>5, <2>8, <2>10 DEF Behind
<1>8. Ordered' <=> Ordered
  BY <1>3 DEF Ordered
<1>9. QED
  BY <1>3, <1>5, <1>6, <1>7, <1>8 DEF DashInv

\* Every step of the dashboard keeps the invariant.
LEMMA DashStep == DashInv /\ Dashboard!Next => DashInv'
<1> SUFFICES ASSUME DashInv, Dashboard!Next PROVE DashInv'
  OBVIOUS
<1>1. ASSUME NEW c \in Clients, Dashboard!Connect(c) \/ Dashboard!Disconnect(c) PROVE DashInv'
  BY <1>1 DEF Dashboard!Connect, Dashboard!Disconnect, DashInv, DashTyped, Ordered, Ahead,
       Behind
<1>2. ASSUME NEW c \in Clients, Dashboard!PollFails(c) PROVE DashInv'
  <2>1. /\ polls' = [polls EXCEPT ![c] = Tail(polls[c])] /\ polls[c] # <<>>
        /\ UNCHANGED <<table, lastId, written, overlapped>>
    BY <1>2 DEF Dashboard!PollFails
  <2>2. polls \in [Clients -> Seq(Seq(Nat))] /\ polls[c] \in Seq(Seq(Nat))
    BY DEF DashInv, DashTyped
  <2>3. DashTyped'
    BY <2>1, <2>2 DEF DashInv, DashTyped
  <2>4. \A d \in Clients : (d # c /\ Ahead(d) => Ahead(d)') /\ (Behind(d) => Behind(d)')
    BY <2>1, <2>2 DEF Ahead, Behind
  <2>5. Ahead(c) => Ahead(c)'
    <3>1. Ahead(c) => polls'[c] = <<>>
      BY <2>1, <2>2, LastPoll DEF Ahead
    <3>2. QED
      BY <3>1 DEF Ahead
  <2>6. Ordered' <=> Ordered
    BY <2>1 DEF Ordered
  <2>7. QED
    BY <2>1, <2>3, <2>4, <2>5, <2>6 DEF DashInv
<1>3. QED
  BY <1>1, <1>2, RowCreated, Polled, RowsWritten DEF Dashboard!Next

-----------------------------------------------------------------------------
(* The theorems. *)

\* A registered callback is reached by what Redis publishes, whatever the order
\* in which the streams of one request come and go, until a SUBSCRIBE is
\* rejected.
THEOREM CallbacksReached == OpsSpec => []ListenersSubscribed
<1>1. OpsInit => Registered
  BY DEF OpsInit, Stream!Init, Registered
<1>2. Registered /\ [OpsNext]_opsVars => Registered'
  <2>1. Registered /\ UNCHANGED streamVars => Registered'
    BY DEF Registered, streamVars
  <2>2. QED
    BY <2>1, StreamStep DEF OpsNext, opsVars
<1>3. Registered => ListenersSubscribed
  BY DEF Registered, ListenersSubscribed, Stream!ListenersSubscribed
<1>4. QED
  BY <1>1, <1>2, <1>3, PTL DEF OpsSpec

\* getPrivateKey returns no key older than the last invalidation before the
\* call, unless the invalidation met an answer on its way, and never a
\* malformed one.
THEOREM FreshKeys == OpsSpec => []KeyFreshAfterInvalidation
<1>1. KeyInv /\ [OpsNext]_opsVars => KeyInv'
  <2>1. KeyInv /\ UNCHANGED keyVars => KeyInv'
    BY DEF KeyInv, KeyState, KeyOf, keyVars
  <2>2. QED
    BY <2>1, KeyStep DEF OpsNext, opsVars
<1>2. KeyInv => KeyFreshAfterInvalidation
  BY DEF KeyInv, KeyState, KeyOf, KeyFreshAfterInvalidation, Key!KeyFreshAfterInvalidation
<1>3. QED
  BY <1>1, <1>2, KeyInit, PTL DEF OpsSpec

\* A dashboard stream writes a settlement twice only after two of its polls
\* overlapped or with ids out of the order of creation (dashboard.ts).
THEOREM WrittenOnce == OpsSpec => []RowsWrittenOnce
<1>1. OpsInit => DashInv
  <2>1. OpsInit => /\ table = <<>> /\ lastId = [c \in Clients |-> 0]
                   /\ polls = [c \in Clients |-> <<>>] /\ written = [c \in Clients |-> <<>>]
    BY DEF OpsInit, Dashboard!Init
  <2>2. ASSUME OpsInit PROVE DashTyped
    <3>1. table = <<>> /\ table \in Seq(Nat)
      BY <2>1, <2>2
    <3>2. lastId \in [Clients -> Nat]
      BY <2>1, <2>2
    <3>3. \A S : <<>> \in Seq(S)
      OBVIOUS
    <3>4. polls \in [Clients -> Seq(Seq(Nat))] /\ written \in [Clients -> Seq(Nat)]
      BY <2>1, <2>2, <3>3
    <3>5. QED
      BY <3>1, <3>2, <3>4 DEF DashTyped
  <2>3. ASSUME OpsInit, NEW c \in Clients PROVE Ahead(c) /\ Behind(c)
    <3>1. polls[c] = <<>> /\ written[c] = <<>>
      BY <2>1, <2>3
    <3>2. QED
      BY <3>1 DEF Ahead, Behind
  <2>4. QED
    BY <2>2, <2>3 DEF DashInv
<1>2. DashInv /\ [OpsNext]_opsVars => DashInv'
  <2>1. DashInv /\ UNCHANGED dashboardVars => DashInv'
    BY DEF DashInv, DashTyped, Ordered, Ahead, Behind, dashboardVars
  <2>2. QED
    BY <2>1, DashStep DEF OpsNext, opsVars
<1>3. DashInv => RowsWrittenOnce
  <2> SUFFICES ASSUME DashInv, NEW c \in Clients, c \notin overlapped,
                      ~ \E i, j \in DOMAIN table : i < j /\ table[i] > table[j]
               PROVE  Dashboard!IsInjective(written[c])
    BY DEF RowsWrittenOnce, Dashboard!RowsWrittenOnce
  <2>1. \A i, j \in DOMAIN table : i < j => table[i] < table[j]
    <3>1. \A i \in DOMAIN table : table[i] \in Nat /\ i \in Nat
      BY DEF DashInv, DashTyped
    <3>2. \A i, j \in DOMAIN table : table[i] = table[j] => i = j
      BY DEF DashInv, DashTyped
    <3>3. \A i, j \in DOMAIN table : i < j => table[i] # table[j]
      BY <3>1, <3>2
    <3>4. QED
      BY <3>1, <3>3
  <2>2. Behind(c)
    BY <2>1 DEF DashInv, Ordered
  <2>3. QED
    BY <2>2 DEF Behind, Dashboard!IsInjective
<1>4. QED
  BY <1>1, <1>2, <1>3, PTL DEF OpsSpec

\* A soft-disabled network comes back only by an update that says so, and no
\* row and no asset goes away.
THEOREM DisabledRowsStay == OpsSpec => DisabledStaysDisabled
<1>1. ASSUME AdminInv, [OpsNext]_opsVars PROVE AdminInv'
  <2>1. CASE Admin!Next
    BY <1>1, <2>1, AdminStep
  <2>2. CASE UNCHANGED adminVars
    BY <1>1, <2>2 DEF adminVars, AdminInv, Catalogued, Waits
  <2>3. QED
    BY <1>1, <2>1, <2>2 DEF OpsNext, opsVars
<1>2. ASSUME AdminInv, [OpsNext]_opsVars PROVE [AdminAct]_Admin!vars
  <2>1. CASE Admin!Next
    BY <1>2, <2>1, AdminActs
  <2>2. CASE UNCHANGED adminVars
    BY <2>2 DEF adminVars, Admin!vars
  <2>3. QED
    BY <1>2, <2>1, <2>2 DEF OpsNext, opsVars
<1>3. QED
  BY <1>1, <1>2, AdminInit, PTL DEF OpsSpec, DisabledStaysDisabled,
       Admin!DisabledStaysDisabled, AdminAct

-----------------------------------------------------------------------------
(* The gateway: types and small steps. *)

\* The records of the state.
Places == {"idle", "limit", "expire", "auth", "write"}
RequestType == [pc : Places, route : Routes, key : Keys, seller : Sellers \cup {NoSeller}]
CounterType == [count : 0..(Limit + 1), ttl : 0..NoTtl]
DeviceType == [status : {"none", "pending", "approved", "done"}, ttl : 0..Lifetime, token : Keys]
AccountType == [key : Keys, active : BOOLEAN]

\* A request goes on.
LEMMA Goes ==
  ASSUME req \in [Requests -> RequestType], NEW r \in Requests, NEW pc \in Places, Go(r, pc)
  PROVE  /\ req' \in [Requests -> RequestType]
         /\ \A q \in Requests : q # r => req'[q] = req[q]
         /\ req'[r].pc = pc /\ req'[r].key = req[r].key /\ req'[r].seller = req[r].seller
         /\ req'[r].route = req[r].route
BY DEF Go, RequestType

\* A request ends.
LEMMA Leaves ==
  ASSUME req \in [Requests -> RequestType], NEW r \in Requests, Leave(r)
  PROVE  /\ req' \in [Requests -> RequestType]
         /\ \A q \in Requests : q # r => req'[q] = req[q]
         /\ req'[r].pc = "idle" /\ req'[r].key = 0
BY GatewayAssumption DEF Leave, RequestType, Idle, Places, Routes, Keys

\* A counter is set.
LEMMA Counted ==
  ASSUME counter \in [PayKeys -> CounterType], NEW k \in PayKeys, NEW n \in 0..(Limit + 1),
         NEW f, f = [counter EXCEPT ![k].count = n]
  PROVE  /\ f \in [PayKeys -> CounterType]
         /\ \A j \in PayKeys : j # k => f[j] = counter[j]
         /\ f[k].count = n /\ f[k].ttl = counter[k].ttl
BY DEF CounterType

\* A counter gets its time to live.
LEMMA Timed ==
  ASSUME counter \in [PayKeys -> CounterType], NEW k \in PayKeys,
         NEW f, f = [counter EXCEPT ![k].ttl = Window]
  PROVE  /\ f \in [PayKeys -> CounterType]
         /\ \A j \in PayKeys : j # k => f[j] = counter[j]
         /\ f[k].count = counter[k].count /\ f[k].ttl = Window
BY GatewayAssumption DEF CounterType, NoTtl

\* A seller is deactivated.
LEMMA SwitchedOff ==
  ASSUME account \in [Sellers -> AccountType], NEW s \in Sellers,
         account' = [account EXCEPT ![s].active = FALSE]
  PROVE  /\ account' \in [Sellers -> AccountType]
         /\ \A q \in Sellers : account'[q].key = account[q].key
         /\ \A q \in Sellers : q # s => account'[q].active = account[q].active
         /\ account'[s].active = FALSE
BY DEF AccountType

\* A seller's key is replaced.
LEMMA KeyReplaced ==
  ASSUME account \in [Sellers -> AccountType], NEW s \in Sellers, NEW k \in Keys,
         account' = [account EXCEPT ![s] = NewKey(s, k)]
  PROVE  /\ account' \in [Sellers -> AccountType]
         /\ \A q \in Sellers : account'[q].active = account[q].active
         /\ \A q \in Sellers : q # s => account'[q].key = account[q].key
         /\ account'[s].key = k
BY DEF AccountType, NewKey

\* The types, record by record.
Typed ==
  /\ account \in [Sellers -> AccountType]
  /\ hooks \in [Hooks -> Sellers \cup {NoSeller}]
  /\ keys \in Keys
  /\ counter \in [PayKeys -> CounterType]
  /\ device \in [Devices -> DeviceType]
  /\ req \in [Requests -> RequestType]
  /\ faults \in 0..MaxFaults
  /\ issuedTo \in [Keys -> Sellers \cup {NoSeller}]
  /\ revoked \subseteq Keys /\ dismissed \subseteq Sellers /\ held \subseteq Keys

\* A write of an account that took effect, answered or not, and a key that was
\* made for nothing.
Registers(s) == Register(s) \/ (RegisterFails(s) /\ account' # account)
Rotates(r) == Rotate(r) \/ (RotateFails(r) /\ account' # account)
Wastes == /\ account' = account
          /\ \/ \E s \in Sellers : RegisterFails(s)
             \/ \E r \in Requests : RotateFails(r)

\* An account holds a key that was made for it, and a seller who was dismissed
\* holds one without being active.
Account(s) ==
  /\ account[s].key # 0 => account[s].key <= keys /\ issuedTo[account[s].key] = s
  /\ account[s].active => account[s].key # 0
  /\ s \in dismissed => account[s].key # 0 /\ ~account[s].active

\* What a request presented was generated, and from its authentication on the
\* key is known to be made for its seller.
Request(r) ==
  /\ req[r].key <= keys
  /\ req[r].pc \in {"limit", "expire"} => req[r].key \in PayKeys
  /\ req[r].pc = "write" => /\ req[r].seller \in Sellers
                            /\ account[req[r].seller].key # 0
                            /\ issuedTo[req[r].key] = req[r].seller

\* A key that was replaced is in no account.
Revoked == \A k \in revoked : k \in 1..keys /\ \A s \in Sellers : account[s].key # k

\* A key that is not generated yet is made for nobody.
Unissued == \A k \in Keys : k > keys => issuedTo[k] = NoSeller

\* The seller a key belongs to.
LEMMA LookupOwner ==
  ASSUME NEW k
  PROVE  \/ Lookup(k) = NoSeller /\ \A s \in Sellers : ~(account[s].active /\ account[s].key = k)
         \/ Lookup(k) \in Sellers /\ account[Lookup(k)].active /\ account[Lookup(k)].key = k
<1> DEFINE owners == {s \in Sellers : account[s].active /\ account[s].key = k}
<1>1. CASE owners = {}
  BY <1>1 DEF Lookup
<1>2. CASE owners # {}
  <2>1. (CHOOSE s \in owners : TRUE) \in owners
    BY <1>2
  <2>2. Lookup(k) \in owners
    BY <1>2, <2>1 DEF Lookup
  <2>3. QED
    BY <2>2
<1>3. QED
  BY <1>1, <1>2

\* The types.
LEMMA GateTypes ==
  ASSUME Typed, \A q \in Requests : Request(q), Next
  PROVE  Typed'
<1> USE GatewayAssumption DEF Typed
<1>0. ASSUME NEW s \in Sellers, Generate(s)
      PROVE  keys' = keys + 1 /\ keys' \in Keys /\ issuedTo' \in [Keys -> Sellers \cup {NoSeller}]
  <2>1. keys' = keys + 1 /\ keys' \in Keys
    BY <1>0 DEF Generate, Keys
  <2>2. QED
    BY <1>0, <2>1 DEF Generate
<1>1. ASSUME NEW s \in Sellers, Register(s) \/ RegisterFails(s)
      PROVE  Typed'
  <2>1. keys' \in Keys /\ issuedTo' \in [Keys -> Sellers \cup {NoSeller}]
    BY <1>0, <1>1 DEF Register, RegisterFails
  <2>2. account' \in [Sellers -> AccountType]
    <3>1. [key |-> keys', active |-> TRUE] \in AccountType
      BY <2>1 DEF AccountType
    <3>2. account' = account \/ account' = [account EXCEPT ![s] = [key |-> keys', active |-> TRUE]]
      BY <1>1 DEF Register, RegisterFails, WriteFails
    <3>3. QED
      BY <3>1, <3>2
  <2>3. held' \subseteq Keys /\ faults' \in 0..MaxFaults
    BY <1>1, <2>1 DEF Register, RegisterFails, WriteFails
  <2>4. UNCHANGED <<hooks, counter, device, req, revoked, dismissed>>
    BY <1>1 DEF Register, RegisterFails
  <2>5. QED
    BY <2>1, <2>2, <2>3, <2>4
<1>2. ASSUME NEW s \in Sellers, Deactivate(s)
      PROVE  Typed'
  <2>1. account' \in [Sellers -> AccountType]
    BY <1>2, SwitchedOff DEF Deactivate
  <2>2. QED
    BY <1>2, <2>1 DEF Deactivate
<1>3. ASSUME NEW r \in Requests, Arrive(r)
      PROVE  Typed'
  <2>1. req' \in [Requests -> RequestType]
    BY <1>3 DEF Arrive, RequestType, Places, Keys
  <2>2. QED
    BY <1>3, <2>1 DEF Arrive
<1>4. ASSUME NEW r \in Requests, CountRequest(r)
      PROVE  Typed'
  <2>1. req[r].key \in PayKeys
    BY <1>4 DEF CountRequest, Request
  <2>2. counter' \in [PayKeys -> CounterType]
    <3>1. counter[req[r].key].count \in 0..(Limit + 1)
      BY <2>1 DEF CounterType
    <3> DEFINE n == IF counter[req[r].key].count <= Limit THEN counter[req[r].key].count + 1
                    ELSE Limit + 1
    <3>2. n \in 0..(Limit + 1)
      BY <3>1, GatewayAssumption
    <3>3. counter' = [counter EXCEPT ![req[r].key].count = n]
      BY <1>4 DEF CountRequest
    <3> HIDE DEF n
    <3>4. QED
      BY <2>1, <3>2, <3>3, Counted
  <2>3. req' \in [Requests -> RequestType]
    BY <1>4, Goes, Leaves DEF CountRequest, Places
  <2>4. QED
    BY <1>4, <2>2, <2>3 DEF CountRequest
<1>5. ASSUME NEW r \in Requests, SetExpiry(r)
      PROVE  Typed'
  <2>1. req[r].key \in PayKeys
    BY <1>5 DEF SetExpiry, Request
  <2>2. counter' \in [PayKeys -> CounterType]
    BY <1>5, <2>1, Timed DEF SetExpiry
  <2>3. req' \in [Requests -> RequestType]
    BY <1>5, Goes DEF SetExpiry, Places
  <2>4. QED
    BY <1>5, <2>2, <2>3 DEF SetExpiry
<1>6. ASSUME NEW r \in Requests, FailOpen(r)
      PROVE  Typed'
  <2>1. req[r].key \in PayKeys
    BY <1>6 DEF FailOpen, Request
  <2>2. counter' \in [PayKeys -> CounterType]
    <3>1. counter[req[r].key].count \in 0..(Limit + 1)
      BY <2>1 DEF CounterType
    <3> DEFINE n == IF counter[req[r].key].count <= Limit THEN counter[req[r].key].count + 1
                    ELSE counter[req[r].key].count
    <3>2. n \in 0..(Limit + 1)
      BY <3>1, GatewayAssumption
    <3>3. \/ counter' = counter
          \/ counter' = [counter EXCEPT ![req[r].key].ttl = Window]
          \/ counter' = [counter EXCEPT ![req[r].key].count = n]
      BY <1>6, <2>1 DEF FailOpen
    <3> HIDE DEF n
    <3>4. QED
      BY <2>1, <3>2, <3>3, Counted, Timed
  <2>3. req' \in [Requests -> RequestType]
    BY <1>6, Goes DEF FailOpen, Places
  <2>4. faults' \in 0..MaxFaults
    BY <1>6, GatewayAssumption DEF FailOpen
  <2>5. QED
    BY <1>6, <2>2, <2>3, <2>4 DEF FailOpen
<1>7. ASSUME NEW r \in Requests, Authenticate(r)
      PROVE  Typed'
  <2>1. Lookup(req[r].key) \in Sellers \cup {NoSeller}
    BY LookupOwner
  <2>2. req' \in [Requests -> RequestType]
    <3>1. CASE Leave(r)
      BY <3>1, Leaves
    <3>2. CASE req' = [req EXCEPT ![r] = [pc |-> "write", route |-> @.route, key |-> @.key,
                                          seller |-> Lookup(req[r].key)]]
      BY <2>1, <3>2 DEF RequestType, Places
    <3>3. QED
      BY <1>7, <3>1, <3>2 DEF Authenticate
  <2>3. QED
    BY <1>7, <2>2 DEF Authenticate
<1>8. ASSUME NEW r \in Requests, Rotate(r) \/ RotateFails(r)
      PROVE  Typed'
  <2>1. req[r].seller \in Sellers /\ account[req[r].seller].key \in Keys
    BY <1>8 DEF Rotate, RotateFails, Request, AccountType
  <2>2. keys' \in Keys /\ issuedTo' \in [Keys -> Sellers \cup {NoSeller}]
    BY <1>0, <1>8, <2>1 DEF Rotate, RotateFails
  <2>3. account' = account \/ account' = [account EXCEPT ![req[r].seller] = NewKey(req[r].seller, keys')]
    BY <1>8 DEF Rotate, RotateFails, WriteFails
  <2>4. account' \in [Sellers -> AccountType]
    BY <2>1, <2>2, <2>3, KeyReplaced
  <2>5. req' \in [Requests -> RequestType]
    BY <1>8, Leaves DEF Rotate, RotateFails
  <2>6. revoked' \subseteq Keys
    BY <1>8, <2>1 DEF Rotate, RotateFails
  <2>7. held' \subseteq Keys /\ faults' \in 0..MaxFaults
    BY <1>8, <2>2 DEF Rotate, RotateFails, WriteFails
  <2>8. UNCHANGED <<hooks, counter, device, dismissed>>
    BY <1>8 DEF Rotate, RotateFails
  <2>9. QED
    BY <2>2, <2>4, <2>5, <2>6, <2>7, <2>8
<1>9. ASSUME NEW r \in Requests, Subscribe(r)
      PROVE  Typed'
  <2>1. req[r].seller \in Sellers
    BY <1>9 DEF Subscribe, Request
  <2>2. req' \in [Requests -> RequestType]
    BY <1>9, Leaves DEF Subscribe
  <2>3. QED
    BY <1>9, <2>1, <2>2 DEF Subscribe
<1>10. ASSUME NEW r \in Requests, Unsubscribe(r)
      PROVE  Typed'
  <2>1. req' \in [Requests -> RequestType]
    BY <1>10, Leaves DEF Unsubscribe
  <2>2. QED
    BY <1>10, <2>1 DEF Unsubscribe
<1>11. ASSUME NEW d \in Devices, Authorize(d)
      PROVE  Typed'
  <2>1. device' \in [Devices -> DeviceType]
    BY <1>11, GatewayAssumption DEF Authorize, DeviceType, Keys
  <2>2. QED
    BY <1>11, <2>1 DEF Authorize
<1>12. ASSUME NEW d \in Devices, Activate(d)
      PROVE  Typed'
  <2>1. device' \in [Devices -> DeviceType]
    BY <1>12 DEF Activate, DeviceType
  <2>2. QED
    BY <1>12, <2>1 DEF Activate
<1>13. ASSUME NEW d \in Devices, Redeem(d)
      PROVE  Typed'
  <2>1. keys' \in Keys
    BY <1>13 DEF Redeem, Keys
  <2>2. device' \in [Devices -> DeviceType]
    BY <1>13, <2>1, GatewayAssumption DEF Redeem, Redeemed, DeviceType
  <2>3. QED
    BY <1>13, <2>1, <2>2 DEF Redeem
<1>14. ASSUME NEW d \in Devices, Expired(d)
      PROVE  Typed'
  <2>1. device' \in [Devices -> DeviceType]
    BY <1>14, GatewayAssumption DEF Expired, NoDevice, DeviceType, Keys
  <2>2. QED
    BY <1>14, <2>1 DEF Expired
<1>15. CASE Tick
  <2>1. counter' \in [PayKeys -> CounterType]
    <3>1. ASSUME NEW k \in PayKeys
          PROVE  /\ NoCounter \in CounterType
                 /\ counter[k].ttl \in Nat /\ counter[k].ttl <= Window + 1
                 /\ counter[k].ttl > 1 => [counter[k] EXCEPT !.ttl = @ - 1] \in CounterType
      BY GatewayAssumption DEF CounterType, NoCounter, NoTtl
    <3>2. QED
      BY <1>15, <3>1, GatewayAssumption DEF Tick, NoTtl
  <2>2. device' \in [Devices -> DeviceType]
    <3>1. ASSUME NEW d \in Devices
          PROVE  [device[d] EXCEPT !.ttl = IF @ > 0 THEN @ - 1 ELSE 0] \in DeviceType
      BY GatewayAssumption DEF DeviceType
    <3>2. QED
      BY <1>15, <3>1 DEF Tick
  <2>3. QED
    BY <1>15, <2>1, <2>2 DEF Tick
<1>16. CASE Restart
  <2>1. NoDevice \in DeviceType /\ Idle \in RequestType
    BY GatewayAssumption DEF NoDevice, DeviceType, Idle, RequestType, Keys, Places, Routes
  <2>2. faults' \in 0..MaxFaults
    BY <1>16, GatewayAssumption DEF Restart
  <2>3. QED
    BY <1>16, <2>1, <2>2 DEF Restart
<1>17. QED
  BY <1>1, <1>2, <1>3, <1>4, <1>5, <1>6, <1>7, <1>8,
     <1>9, <1>10, <1>11, <1>12, <1>13, <1>14, <1>15, <1>16 DEF Next, Handle

-----------------------------------------------------------------------------
(* What the actions that touch accounts do. *)

\* A key is generated for a seller.
LEMMA Generated ==
  ASSUME Typed, NEW s \in Sellers, Generate(s)
  PROVE  /\ keys' = keys + 1 /\ keys' \in Keys
         /\ issuedTo'[keys'] = s /\ \A k \in Keys : k # keys' => issuedTo'[k] = issuedTo[k]
<1>1. keys' = keys + 1 /\ keys' \in Keys
  BY GatewayAssumption DEF Generate, Keys, Typed
<1>2. QED
  BY <1>1 DEF Generate, Typed

\* A seller registers.
LEMMA RegisterEffect ==
  ASSUME Typed, NEW s \in Sellers, Registers(s)
  PROVE  /\ account[s].key = 0 /\ keys' = keys + 1 /\ keys' \in Keys
         /\ account'[s].key = keys' /\ account'[s].active = TRUE
         /\ \A q \in Sellers : q # s => account'[q] = account[q]
         /\ issuedTo'[keys'] = s /\ \A k \in Keys : k # keys' => issuedTo'[k] = issuedTo[k]
         /\ UNCHANGED <<hooks, req, revoked, dismissed, device>>
<1>1. /\ keys' = keys + 1 /\ keys' \in Keys
      /\ issuedTo'[keys'] = s /\ \A k \in Keys : k # keys' => issuedTo'[k] = issuedTo[k]
  BY Generated DEF Registers, Register, RegisterFails
<1>2. account' = [account EXCEPT ![s] = [key |-> keys', active |-> TRUE]]
  BY DEF Registers, Register, RegisterFails, WriteFails
<1>3. account[s] = NoAccount /\ UNCHANGED <<hooks, req, revoked, dismissed, device>>
  BY DEF Registers, Register, RegisterFails
<1>4. QED
  BY <1>1, <1>2, <1>3 DEF Typed, NoAccount

\* A request arrives.
LEMMA ArriveEffect ==
  ASSUME Typed, NEW r \in Requests, Arrive(r)
  PROVE  /\ req[r].pc = "idle" /\ req'[r].pc \in {"limit", "auth"}
         /\ req'[r].key \in 0..keys
         /\ req'[r].pc = "limit" => req'[r].key \in PayKeys
         /\ \A q \in Requests : q # r => req'[q] = req[q]
BY DEF Arrive, Typed

\* A request is authenticated.
LEMMA AuthenticateEffect ==
  ASSUME Typed, NEW r \in Requests, Authenticate(r)
  PROVE  /\ req[r].pc = "auth"
         /\ \A q \in Requests : q # r => req'[q] = req[q]
         /\ \/ req'[r].pc = "idle" /\ req'[r].key = 0
            \/ /\ req'[r].pc = "write" /\ req'[r].key = req[r].key
               /\ req'[r].seller \in Sellers
               /\ account[req'[r].seller].active /\ account[req'[r].seller].key = req[r].key
<1>1. CASE Leave(r)
  BY <1>1, Leaves DEF Typed, Authenticate
<1>2. CASE Lookup(req[r].key) # NoSeller
           /\ req' = [req EXCEPT ![r] = [pc |-> "write", route |-> @.route, key |-> @.key,
                                          seller |-> Lookup(req[r].key)]]
  <2>1. /\ \A q \in Requests : q # r => req'[q] = req[q]
        /\ req'[r].pc = "write" /\ req'[r].key = req[r].key
        /\ req'[r].seller = Lookup(req[r].key)
    BY <1>2 DEF Typed
  <2>2. /\ Lookup(req[r].key) \in Sellers /\ account[Lookup(req[r].key)].active
        /\ account[Lookup(req[r].key)].key = req[r].key
    BY <1>2, LookupOwner
  <2>3. QED
    BY <2>1, <2>2 DEF Authenticate
<1>3. QED
  BY <1>1, <1>2 DEF Authenticate

\* A key is replaced.
LEMMA RotateEffect ==
  ASSUME Typed, NEW r \in Requests, Request(r), Rotates(r)
  PROVE  LET s == req[r].seller
         IN  /\ req[r].pc = "write" /\ s \in Sellers
             /\ keys' = keys + 1 /\ keys' \in Keys
             /\ account'[s].key = keys'
             /\ \A q \in Sellers : account'[q].active = account[q].active
             /\ \A q \in Sellers : q # s => account'[q].key = account[q].key
             /\ issuedTo'[keys'] = s
             /\ \A k \in Keys : k # keys' => issuedTo'[k] = issuedTo[k]
             /\ revoked' = revoked \cup {account[s].key}
             /\ req'[r].pc = "idle" /\ req'[r].key = 0
             /\ \A q \in Requests : q # r => req'[q] = req[q]
             /\ UNCHANGED <<hooks, dismissed, device>>
<1>1. req[r].pc = "write" /\ req[r].seller \in Sellers
  BY DEF Rotates, Rotate, RotateFails, Request
<1>2. /\ keys' = keys + 1 /\ keys' \in Keys
      /\ issuedTo'[keys'] = req[r].seller
      /\ \A k \in Keys : k # keys' => issuedTo'[k] = issuedTo[k]
  BY <1>1, Generated DEF Rotates, Rotate, RotateFails
<1>3. account' = [account EXCEPT ![req[r].seller] = NewKey(req[r].seller, keys')]
  BY DEF Rotates, Rotate, RotateFails, WriteFails
<1>4. /\ account'[req[r].seller].key = keys'
      /\ \A q \in Sellers : account'[q].active = account[q].active
      /\ \A q \in Sellers : q # req[r].seller => account'[q].key = account[q].key
  BY <1>1, <1>2, <1>3, KeyReplaced DEF Typed
<1>5. /\ req'[r].pc = "idle" /\ req'[r].key = 0
      /\ \A q \in Requests : q # r => req'[q] = req[q]
  BY Leaves DEF Rotates, Rotate, RotateFails, Typed
<1>6. /\ revoked' = revoked \cup {account[req[r].seller].key}
      /\ UNCHANGED <<hooks, dismissed, device>>
  BY DEF Rotates, Rotate, RotateFails
<1>7. QED
  BY <1>1, <1>2, <1>4, <1>5, <1>6

\* A write is rejected: a key was made that no account and nobody holds.
LEMMA WasteEffect ==
  ASSUME Typed, \A r \in Requests : Request(r), Wastes
  PROVE  /\ keys' = keys + 1 /\ keys' \in Keys
         /\ issuedTo'[keys'] # NoSeller
         /\ \A k \in Keys : k # keys' => issuedTo'[k] = issuedTo[k]
         /\ UNCHANGED <<account, hooks, revoked, dismissed, device>>
         /\ faults' = faults + 1
         /\ \A q \in Requests : req'[q] = req[q] \/ (req'[q].pc = "idle" /\ req'[q].key = 0)
<1>1. ASSUME NEW s \in Sellers, RegisterFails(s)
      PROVE  /\ \E q \in Sellers : Generate(q)
             /\ UNCHANGED <<hooks, revoked, dismissed, device, req>>
             /\ faults' = faults + 1
  BY <1>1 DEF RegisterFails, WriteFails
<1>2. ASSUME NEW r \in Requests, RotateFails(r)
      PROVE  /\ \E q \in Sellers : Generate(q)
             /\ UNCHANGED <<hooks, revoked, dismissed, device>>
             /\ faults' = faults + 1
             /\ \A q \in Requests : req'[q] = req[q] \/ (req'[q].pc = "idle" /\ req'[q].key = 0)
  <2>1. req[r].seller \in Sellers /\ Generate(req[r].seller)
    BY <1>2 DEF RotateFails, Request
  <2>2. \A q \in Requests : req'[q] = req[q] \/ (req'[q].pc = "idle" /\ req'[q].key = 0)
    BY <1>2, Leaves DEF RotateFails, Typed
  <2>3. UNCHANGED <<hooks, revoked, dismissed, device>> /\ faults' = faults + 1
    BY <1>2 DEF RotateFails, WriteFails, Wastes
  <2>4. QED
    BY <2>1, <2>2, <2>3
<1>3. /\ \E q \in Sellers : Generate(q)
      /\ UNCHANGED <<account, hooks, revoked, dismissed, device>>
      /\ faults' = faults + 1
      /\ \A q \in Requests : req'[q] = req[q] \/ (req'[q].pc = "idle" /\ req'[q].key = 0)
  BY <1>1, <1>2 DEF Wastes
<1>4. QED
  BY <1>3, Generated, GatewayAssumption

\* A request that only goes on or ends.
LEMMA RequestMoves ==
  ASSUME Typed, NEW r \in Requests,
         CountRequest(r) \/ SetExpiry(r) \/ FailOpen(r) \/ Subscribe(r) \/ Unsubscribe(r)
  PROVE  /\ UNCHANGED <<account, keys, issuedTo, revoked, dismissed, device>>
         /\ \A q \in Requests : q # r => req'[q] = req[q]
         /\ \/ req'[r].pc = "idle" /\ req'[r].key = 0
            \/ /\ req'[r].key = req[r].key /\ req[r].pc \in {"limit", "expire"}
               /\ req'[r].pc \in {"expire", "auth"}
<1>1. CASE CountRequest(r)
  BY <1>1, Goes, Leaves DEF CountRequest, Typed, Places
<1>2. CASE SetExpiry(r)
  BY <1>2, Goes DEF SetExpiry, Typed, Places
<1>3. CASE FailOpen(r)
  BY <1>3, Goes DEF FailOpen, Typed, Places
<1>4. CASE Subscribe(r) \/ Unsubscribe(r)
  BY <1>4, Leaves DEF Subscribe, Unsubscribe, Typed
<1>5. QED
  BY <1>1, <1>2, <1>3, <1>4

\* Accounts, requests and keys: every step keeps what is known of them.
Owned == (\A s \in Sellers : Account(s)) /\ (\A r \in Requests : Request(r)) /\ Revoked /\ Unissued

\* Every step keeps that.
LEMMA OwnedStep ==
  ASSUME Typed, Owned, Next
  PROVE  Owned'
<1> USE DEF Owned
<1>0. /\ keys \in Nat /\ \A k \in Keys : k \in Nat
      /\ \A s \in Sellers : account[s].key \in Keys
      /\ \A r \in Requests : req[r].key \in Keys
  BY GatewayAssumption DEF Typed, Keys, AccountType, RequestType
<1>1. ASSUME NEW s \in Sellers, Registers(s)
      PROVE  Owned'
  <2>1. /\ keys' = keys + 1 /\ keys' \in Keys
        /\ issuedTo'[keys'] = s /\ \A k \in Keys : k # keys' => issuedTo'[k] = issuedTo[k]
    BY <1>1, RegisterEffect
  <2>2. /\ account[s].key = 0 /\ account'[s].key = keys' /\ account'[s].active = TRUE
        /\ \A q \in Sellers : q # s => account'[q] = account[q]
    BY <1>1, RegisterEffect
  <2>3. UNCHANGED <<req, revoked, dismissed>>
    BY <1>1, RegisterEffect
  <2>4. \A k \in Keys : k <= keys => k <= keys' /\ k # keys' /\ issuedTo'[k] = issuedTo[k]
    <3>1. ASSUME NEW k \in Nat, k <= keys
          PROVE  k <= keys' /\ k # keys'
      BY <1>0, <2>1, <3>1
    <3>2. QED
      BY <1>0, <2>1, <3>1
  <2>5. \A q \in Sellers : Account(q)'
    <3>1. Account(s)'
      BY <1>0, <2>1, <2>2, <2>3 DEF Account
    <3>2. ASSUME NEW q \in Sellers, q # s
          PROVE  Account(q)'
      <4>1. account'[q] = account[q] /\ account[q].key \in Keys /\ Account(q)
        BY <1>0, <2>2, <3>2
      <4>2. account[q].key # 0 => account[q].key <= keys' /\ issuedTo'[account[q].key] = q
        BY <2>4, <4>1 DEF Account
      <4>3. QED
        BY <2>3, <4>1, <4>2 DEF Account
    <3>3. QED
      BY <3>1, <3>2
  <2>6. ASSUME NEW q \in Requests
        PROVE  Request(q)'
    <3>1. Request(q) /\ req[q].key \in Keys
      BY <1>0
    <3>2. req[q].pc = "write" => account'[req[q].seller].key # 0
      BY <1>0, <2>1, <2>2, <3>1 DEF Request
    <3>3. req[q].key <= keys' /\ issuedTo'[req[q].key] = issuedTo[req[q].key]
      BY <2>4, <3>1 DEF Request
    <3>4. QED
      BY <2>3, <3>1, <3>2, <3>3 DEF Request
  <2>7. Unissued'
    <3>1. ASSUME NEW k \in Nat, k > keys'
          PROVE  k > keys /\ k # keys'
      BY <1>0, <2>1, <3>1
    <3>2. QED
      BY <1>0, <2>1, <3>1 DEF Unissued
  <2>8. Revoked'
    <3>1. ASSUME NEW k \in revoked
          PROVE  k \in 1..keys' /\ \A q \in Sellers : account'[q].key # k
      <4>1. k \in 1..keys /\ \A q \in Sellers : account[q].key # k
        BY DEF Revoked
      <4>2. QED
        BY <1>0, <2>1, <2>2, <4>1
    <3>2. QED
      BY <2>3, <3>1 DEF Revoked
  <2>9. QED
    BY <2>5, <2>6, <2>7, <2>8
<1>2. ASSUME NEW s \in Sellers, Deactivate(s)
      PROVE  Owned'
  <2>1. /\ UNCHANGED <<keys, issuedTo, revoked, req>> /\ dismissed' = dismissed \cup {s}
        /\ account[s] # NoAccount
    BY <1>2 DEF Deactivate
  <2>2. /\ \A q \in Sellers : account'[q].key = account[q].key
        /\ \A q \in Sellers : q # s => account'[q].active = account[q].active
        /\ account'[s].active = FALSE
    BY <1>2, SwitchedOff DEF Deactivate, Typed
  <2>3. account[s].key # 0
    <3>1. account[s] \in AccountType /\ Account(s)
      BY DEF Typed
    <3>2. QED
      BY <2>1, <3>1 DEF Account, AccountType, NoAccount
  <2>4. QED
    BY <2>1, <2>2, <2>3 DEF Account, Request, Revoked, Unissued
<1>3. ASSUME NEW r \in Requests, Arrive(r)
      PROVE  Owned'
  <2>1. UNCHANGED <<account, keys, issuedTo, revoked, dismissed>>
    BY <1>3 DEF Arrive
  <2>2. \A q \in Requests : Request(q)'
    BY <1>0, <1>3, <2>1, ArriveEffect DEF Request
  <2>3. QED
    BY <2>1, <2>2 DEF Account, Revoked, Unissued
<1>4. ASSUME NEW r \in Requests,
             CountRequest(r) \/ SetExpiry(r) \/ FailOpen(r) \/ Subscribe(r) \/ Unsubscribe(r)
      PROVE  Owned'
  <2>1. UNCHANGED <<account, keys, issuedTo, revoked, dismissed>>
    BY <1>4, RequestMoves
  <2>2. \A q \in Requests : Request(q)'
    <3>1. ASSUME CountRequest(r) PROVE req[r].pc = "limit"
      BY <3>1 DEF CountRequest
    <3>2. QED
      BY <1>0, <1>4, <2>1, RequestMoves DEF Request
  <2>3. QED
    BY <2>1, <2>2 DEF Account, Revoked, Unissued
<1>5. ASSUME NEW r \in Requests, Authenticate(r)
      PROVE  Owned'
  <2>1. UNCHANGED <<account, keys, issuedTo, revoked, dismissed>>
    BY <1>5 DEF Authenticate
  <2>2. \A q \in Requests : Request(q)'
    BY <1>0, <1>5, <2>1, AuthenticateEffect DEF Account, Request
  <2>3. QED
    BY <2>1, <2>2 DEF Account, Revoked, Unissued
<1>6. ASSUME NEW r \in Requests, Rotates(r)
      PROVE  Owned'
  <2>1. Unissued'
    BY <1>0, <1>6, RotateEffect DEF Unissued
  <2>2. \A q \in Sellers : Account(q)'
    BY <1>0, <1>6, RotateEffect DEF Account, Request
  <2>3. \A q \in Requests : Request(q)'
    BY <1>0, <1>6, RotateEffect DEF Request
  <2>4. Revoked'
    <3> DEFINE s == req[r].seller
    <3>1. /\ s \in Sellers /\ keys' = keys + 1 /\ account'[s].key = keys'
          /\ \A q \in Sellers : q # s => account'[q].key = account[q].key
          /\ revoked' = revoked \cup {account[s].key}
      BY <1>6, RotateEffect
    <3>2. account[s].key \in 1..keys /\ \A q \in Sellers : q # s => account[q].key # account[s].key
      BY <1>0, <1>6, <3>1, RotateEffect DEF Account, Request
    <3>3. QED
      BY <1>0, <3>1, <3>2 DEF Revoked
  <2>5. QED
    BY <2>1, <2>2, <2>3, <2>4
<1>7. ASSUME NEW d \in Devices, Authorize(d) \/ Activate(d) \/ Expired(d)
      PROVE  Owned'
  BY <1>7 DEF Authorize, Activate, Expired, Account, Request, Revoked, Unissued
<1>8. ASSUME NEW d \in Devices, Redeem(d)
      PROVE  Owned'
  <2>1. keys' = keys + 1 /\ UNCHANGED <<account, issuedTo, revoked, dismissed, req>>
    BY <1>8 DEF Redeem
  <2>2. \A s \in Sellers : Account(s)'
    BY <1>0, <2>1 DEF Account
  <2>3. ASSUME NEW r \in Requests
        PROVE  Request(r)'
    <3>1. Request(r) /\ req[r].key \in Keys
      BY <1>0
    <3>2. QED
      BY <1>0, <2>1, <3>1 DEF Request
  <2>4. Revoked' /\ Unissued'
    BY <1>0, <2>1 DEF Revoked, Unissued
  <2>5. QED
    BY <2>2, <2>3, <2>4
<1>12. CASE Wastes
  <2>1. /\ keys' = keys + 1 /\ keys' \in Keys /\ UNCHANGED <<account, revoked, dismissed>>
        /\ \A k \in Keys : k # keys' => issuedTo'[k] = issuedTo[k]
        /\ \A q \in Requests : req'[q] = req[q] \/ (req'[q].pc = "idle" /\ req'[q].key = 0)
    BY <1>12, WasteEffect
  <2>2. \A k \in Keys : k <= keys => k <= keys' /\ k # keys' /\ issuedTo'[k] = issuedTo[k]
    <3>1. ASSUME NEW k \in Nat, k <= keys
          PROVE  k <= keys' /\ k # keys'
      BY <1>0, <2>1, <3>1
    <3>2. QED
      BY <1>0, <2>1, <3>1
  <2>3. \A s \in Sellers : Account(s)'
    BY <1>0, <2>1, <2>2 DEF Account
  <2>4. ASSUME NEW r \in Requests
        PROVE  Request(r)'
    <3>1. Request(r) /\ req[r].key \in Keys
      BY <1>0
    <3>2. CASE req'[r] = req[r]
      BY <2>1, <2>2, <3>1, <3>2 DEF Request
    <3>3. CASE req'[r].pc = "idle" /\ req'[r].key = 0
      BY <1>0, <2>1, <3>3 DEF Request
    <3>4. QED
      BY <2>1, <3>2, <3>3
  <2>5. Revoked'
    BY <1>0, <2>1 DEF Revoked
  <2>6. Unissued'
    <3>1. ASSUME NEW k \in Nat, k > keys'
          PROVE  k > keys /\ k # keys'
      BY <1>0, <2>1, <3>1
    <3>2. QED
      BY <1>0, <2>1, <3>1 DEF Unissued
  <2>7. QED
    BY <2>3, <2>4, <2>5, <2>6
<1>9. CASE Tick
  BY <1>9 DEF Tick, Account, Request, Revoked, Unissued
<1>10. CASE Restart
  <2>1. UNCHANGED <<account, keys, issuedTo, revoked, dismissed>>
    BY <1>10 DEF Restart
  <2>2. \A q \in Requests : req'[q].pc = "idle" /\ req'[q].key = 0
    BY <1>10 DEF Restart, Idle
  <2>3. QED
    BY <1>0, <2>1, <2>2 DEF Account, Request, Revoked, Unissued
<1>11. QED
  BY <1>1, <1>2, <1>3, <1>4, <1>5, <1>6, <1>7, <1>8, <1>9, <1>10, <1>12
     DEF Next, Handle, Registers, Rotates, Wastes

-----------------------------------------------------------------------------
(* The gateway: accounts, subscriptions, counters and keys of devices. *)

\* A key that was replaced authenticates nobody, and nobody who was dismissed
\* is authenticated.
LEMMA OwnedRevokes ==
  ASSUME Typed, Owned
  PROVE  RevokedStaysRevoked
<1>1. ASSUME NEW k \in revoked
      PROVE  Lookup(k) = NoSeller
  <2>1. \A s \in Sellers : account[s].key # k
    BY DEF Owned, Revoked
  <2>2. QED
    BY <2>1, LookupOwner
<1>2. ASSUME NEW k \in Keys
      PROVE  Lookup(k) \notin dismissed
  <2>1. CASE Lookup(k) = NoSeller
    BY <2>1, GatewayAssumption DEF Typed
  <2>2. CASE Lookup(k) \in Sellers /\ account[Lookup(k)].active
    <3>1. Lookup(k) \in dismissed => ~account[Lookup(k)].active
      BY <2>2 DEF Owned, Account
    <3>2. QED
      BY <2>2, <3>1
  <2>3. QED
    BY <2>1, <2>2, LookupOwner
<1>3. QED
  BY <1>1, <1>2 DEF RevokedStaysRevoked

\* One step changes a key or a subscription only for the owner of the key that
\* a request presented.
Untouched(s) ==
  (account'[s].key # account[s].key /\ account[s] # NoAccount)
  \/ (\E h \in Hooks : (hooks[h] = s) # (hooks'[h] = s))
  => \E r \in Requests : req'[r] # req[r] /\ issuedTo[req[r].key] = s

\* A subscription is made or deleted for the owner of the key.
LEMMA HookOwner ==
  ASSUME Typed, Owned, NEW r \in Requests, Subscribe(r) \/ Unsubscribe(r),
         NEW s \in Sellers, NEW h \in Hooks, (hooks[h] = s) # (hooks'[h] = s)
  PROVE  req'[r] # req[r] /\ issuedTo[req[r].key] = s
<1>1. req[r].pc = "write" /\ req'[r].pc = "idle"
  BY Leaves DEF Subscribe, Unsubscribe, Typed
<1>2. issuedTo[req[r].key] = req[r].seller
  BY <1>1 DEF Owned, Request
<1>3. req[r].seller = s
  <2>1. CASE Subscribe(r)
    <3>1. CASE UNCHANGED hooks
      BY <3>1
    <3>2. ASSUME NEW g \in Hooks, hooks[g] = NoSeller, hooks' = [hooks EXCEPT ![g] = req[r].seller]
          PROVE  req[r].seller = s
      <4>1. h # g => hooks'[h] = hooks[h]
        BY <3>2 DEF Typed
      <4>2. hooks'[g] = req[r].seller
        BY <3>2 DEF Typed
      <4>3. hooks[g] # s
        BY <3>2, GatewayAssumption
      <4>4. h = g
        BY <4>1
      <4>5. QED
        BY <4>2, <4>3, <4>4
    <3>3. QED
      BY <2>1, <3>1, <3>2 DEF Subscribe
  <2>2. CASE Unsubscribe(r)
    <3>1. PICK g \in Hooks : hooks' = [hooks EXCEPT ![g] = IF hooks[g] = req[r].seller THEN NoSeller ELSE @]
      BY <2>2 DEF Unsubscribe, Mine
    <3>2. h # g => hooks'[h] = hooks[h]
      BY <3>1 DEF Typed
    <3>3. h = g
      BY <3>2
    <3>4. hooks[g] # req[r].seller => hooks'[g] = hooks[g]
      BY <3>1 DEF Typed
    <3>5. hooks[g] = req[r].seller => hooks'[g] = NoSeller
      BY <3>1 DEF Typed
    <3>6. s # NoSeller
      BY GatewayAssumption
    <3>7. QED
      BY <3>3, <3>4, <3>5, <3>6
  <2>3. QED
    BY <2>1, <2>2
<1>4. QED
  BY <1>1, <1>2, <1>3

\* No step touches another seller.
LEMMA UntouchedStep ==
  ASSUME Typed, Owned, Next, NEW s \in Sellers
  PROVE  Untouched(s)
<1> USE DEF Untouched
<1>1. ASSUME NEW q \in Sellers, Registers(q)
      PROVE  Untouched(s)
  <2>1. account[q] = NoAccount /\ UNCHANGED hooks
    BY <1>1 DEF Registers, Register, RegisterFails
  <2>2. s # q => account'[s] = account[s]
    BY <1>1, RegisterEffect
  <2>3. QED
    BY <2>1, <2>2
<1>2. ASSUME NEW q \in Sellers, Deactivate(q)
      PROVE  Untouched(s)
  <2>1. account'[s].key = account[s].key /\ UNCHANGED hooks
    BY <1>2, SwitchedOff DEF Deactivate, Typed
  <2>2. QED
    BY <2>1
<1>3. ASSUME NEW r \in Requests, Arrive(r) \/ CountRequest(r) \/ SetExpiry(r) \/ FailOpen(r) \/ Authenticate(r)
      PROVE  Untouched(s)
  <2>1. UNCHANGED <<account, hooks>>
    BY <1>3 DEF Arrive, CountRequest, SetExpiry, FailOpen, Authenticate
  <2>2. QED
    BY <2>1
<1>4. ASSUME NEW r \in Requests, Rotates(r)
      PROVE  Untouched(s)
  <2>1. Request(r)
    BY DEF Owned
  <2>2. /\ req[r].pc = "write" /\ req'[r].pc = "idle" /\ UNCHANGED hooks
        /\ s # req[r].seller => account'[s].key = account[s].key
    BY <1>4, <2>1, RotateEffect
  <2>3. issuedTo[req[r].key] = req[r].seller
    BY <2>1, <2>2 DEF Request
  <2>4. QED
    BY <2>2, <2>3
<1>5. ASSUME NEW r \in Requests, Subscribe(r) \/ Unsubscribe(r)
      PROVE  Untouched(s)
  <2>1. UNCHANGED account
    BY <1>5 DEF Subscribe, Unsubscribe
  <2>2. QED
    BY <1>5, <2>1, HookOwner
<1>6. ASSUME NEW d \in Devices, Authorize(d) \/ Activate(d) \/ Redeem(d) \/ Expired(d)
      PROVE  Untouched(s)
  <2>1. UNCHANGED <<account, hooks>>
    BY <1>6 DEF Authorize, Activate, Redeem, Expired
  <2>2. QED
    BY <2>1
<1>7. CASE Tick \/ Restart
  <2>1. UNCHANGED <<account, hooks>>
    BY <1>7 DEF Tick, Restart
  <2>2. QED
    BY <2>1
<1>8. CASE Wastes
  <2>1. UNCHANGED <<account, hooks>>
    BY <1>8, WasteEffect DEF Owned
  <2>2. QED
    BY <2>1
<1>9. QED
  BY <1>1, <1>2, <1>3, <1>4, <1>5, <1>6, <1>7, <1>8
     DEF Next, Handle, Registers, Rotates, Wastes

\* A counter without a time to live, in a run without a fault, has a request
\* that is about to set it.
LEMMA StuckStep ==
  ASSUME Typed, Owned, StuckOnlyAfterFault, Next
  PROVE  StuckOnlyAfterFault'
<1> USE DEF StuckOnlyAfterFault
<1>1. CASE counter' = counter /\ faults' = faults
           /\ \A q \in Requests : req[q].pc = "expire" => req'[q] = req[q]
  BY <1>1
<1>2. ASSUME NEW s \in Sellers, Register(s) \/ Deactivate(s)
      PROVE  StuckOnlyAfterFault'
  <2>1. UNCHANGED <<counter, faults, req>>
    BY <1>2 DEF Register, Deactivate
  <2>2. QED
    BY <1>1, <2>1
<1>3. ASSUME NEW r \in Requests, Arrive(r)
      PROVE  StuckOnlyAfterFault'
  <2>1. UNCHANGED <<counter, faults>>
    BY <1>3 DEF Arrive
  <2>2. req[r].pc = "idle" /\ \A q \in Requests : q # r => req'[q] = req[q]
    BY <1>3, ArriveEffect
  <2>3. QED
    BY <1>1, <2>1, <2>2
<1>4. ASSUME NEW r \in Requests, CountRequest(r)
      PROVE  StuckOnlyAfterFault'
  <2> DEFINE k == req[r].key
             n == IF counter[k].count <= Limit THEN counter[k].count + 1 ELSE Limit + 1
  <2>1. req[r].pc = "limit" /\ k \in PayKeys /\ UNCHANGED faults
    BY <1>4 DEF CountRequest, Owned, Request
  <2>2. counter[k].count \in 0..(Limit + 1)
    BY <2>1 DEF Typed, CounterType
  <2>3. n \in 0..(Limit + 1) /\ (n # 1 => counter[k].count > 0)
    BY <2>2, GatewayAssumption
  <2>4. /\ counter' = [counter EXCEPT ![k].count = n]
        /\ n = 1 => Go(r, "expire")
        /\ n # 1 => Leave(r) \/ Go(r, "auth")
    BY <1>4 DEF CountRequest, FirstHit
  <2> HIDE DEF n
  <2>5. /\ \A j \in PayKeys : j # k => counter'[j] = counter[j]
        /\ counter'[k].ttl = counter[k].ttl
    BY <2>1, <2>3, <2>4, Counted DEF Typed
  <2>6. \A q \in Requests : q # r => req'[q] = req[q]
    BY <2>4, Goes, Leaves DEF Typed, Places
  <2>7. ASSUME NEW j \in PayKeys, counter'[j].count > 0, counter'[j].ttl = NoTtl, faults' = 0
        PROVE  \E q \in Requests : req'[q].pc = "expire" /\ req'[q].key = j
    <3>1. CASE j = k /\ n = 1
      <4>1. req'[r].pc = "expire" /\ req'[r].key = req[r].key
        BY <2>4, <3>1, Goes DEF Typed, Places
      <4>2. QED
        BY <3>1, <4>1
    <3>2. CASE ~(j = k /\ n = 1)
      <4>1. counter[j].count > 0 /\ counter[j].ttl = NoTtl /\ faults = 0
        BY <2>1, <2>3, <2>5, <2>7, <3>2
      <4>2. PICK q \in Requests : req[q].pc = "expire" /\ req[q].key = j
        BY <4>1
      <4>3. q # r
        BY <2>1, <4>2
      <4>4. QED
        BY <2>6, <4>2, <4>3
    <3>3. QED
      BY <3>1, <3>2
  <2>8. QED
    BY <2>7
<1>5. ASSUME NEW r \in Requests, SetExpiry(r)
      PROVE  StuckOnlyAfterFault'
  <2>1. req[r].key \in PayKeys /\ UNCHANGED faults
    BY <1>5 DEF SetExpiry, Owned, Request
  <2>2. /\ \A j \in PayKeys : j # req[r].key => counter'[j] = counter[j]
        /\ counter'[req[r].key].ttl = Window
    BY <1>5, <2>1, Timed DEF SetExpiry, Typed
  <2>3. \A q \in Requests : q # r => req'[q] = req[q]
    BY <1>5, Goes DEF SetExpiry, Typed, Places
  <2>4. ASSUME NEW j \in PayKeys, counter'[j].count > 0, counter'[j].ttl = NoTtl, faults' = 0
        PROVE  \E q \in Requests : req'[q].pc = "expire" /\ req'[q].key = j
    <3>1. j # req[r].key
      BY <2>2, <2>4, GatewayAssumption DEF NoTtl
    <3>2. PICK q \in Requests : req[q].pc = "expire" /\ req[q].key = j
      BY <2>1, <2>2, <2>4, <3>1
    <3>3. QED
      BY <2>3, <3>1, <3>2
  <2>5. QED
    BY <2>4
<1>6. ASSUME faults' = faults + 1
      PROVE  StuckOnlyAfterFault'
  <2>1. faults' # 0
    BY <1>6, GatewayAssumption DEF Typed
  <2>2. QED
    BY <2>1
<1>7. ASSUME NEW r \in Requests, FailOpen(r) \/ RotateFails(r)
      PROVE  StuckOnlyAfterFault'
  BY <1>6, <1>7 DEF FailOpen, RotateFails, WriteFails
<1>14. ASSUME NEW s \in Sellers, RegisterFails(s)
      PROVE  StuckOnlyAfterFault'
  BY <1>6, <1>14 DEF RegisterFails, WriteFails
<1>8. ASSUME NEW r \in Requests, Authenticate(r)
      PROVE  StuckOnlyAfterFault'
  <2>1. UNCHANGED <<counter, faults>>
    BY <1>8 DEF Authenticate
  <2>2. req[r].pc = "auth" /\ \A q \in Requests : q # r => req'[q] = req[q]
    BY <1>8, AuthenticateEffect
  <2>3. QED
    BY <1>1, <2>1, <2>2
<1>9. ASSUME NEW r \in Requests, Rotate(r) \/ Subscribe(r) \/ Unsubscribe(r)
      PROVE  StuckOnlyAfterFault'
  <2>1. UNCHANGED <<counter, faults>> /\ req[r].pc = "write" /\ Leave(r)
    BY <1>9 DEF Rotate, Subscribe, Unsubscribe
  <2>2. \A q \in Requests : q # r => req'[q] = req[q]
    BY <2>1, Leaves DEF Typed
  <2>3. QED
    BY <1>1, <2>1, <2>2
<1>10. ASSUME NEW d \in Devices, Authorize(d) \/ Activate(d) \/ Redeem(d) \/ Expired(d)
      PROVE  StuckOnlyAfterFault'
  <2>1. UNCHANGED <<counter, faults, req>>
    BY <1>10 DEF Authorize, Activate, Redeem, Expired
  <2>2. QED
    BY <1>1, <2>1
<1>11. CASE Tick
  <2>1. UNCHANGED <<faults, req>>
    BY <1>11 DEF Tick
  <2>2. ASSUME NEW j \in PayKeys, counter'[j].count > 0, counter'[j].ttl = NoTtl
        PROVE  counter'[j] = counter[j]
    <3>1. counter[j].ttl \in 0..NoTtl /\ counter[j] \in CounterType
      BY DEF Typed, CounterType
    <3>2. CASE counter[j].ttl = NoTtl
      <4>1. counter'[j] = CASE counter[j].ttl = NoTtl -> counter[j]
                            [] counter[j].ttl <= 1 -> NoCounter
                            [] OTHER -> [counter[j] EXCEPT !.ttl = @ - 1]
        BY <1>11 DEF Tick
      <4>2. ~(counter[j].ttl <= 1)
        BY <3>2, GatewayAssumption DEF NoTtl
      <4>3. QED
        BY <3>2, <4>1, <4>2
    <3>3. CASE counter[j].ttl # NoTtl /\ counter[j].ttl <= 1
      <4>1. counter'[j].count = 0
        BY <1>11, <3>3 DEF Tick, NoCounter
      <4>2. QED
        BY <2>2, <4>1
    <3>4. CASE counter[j].ttl # NoTtl /\ counter[j].ttl > 1
      <4>1. counter'[j] = [counter[j] EXCEPT !.ttl = @ - 1]
        BY <1>11, <3>1, <3>4, GatewayAssumption DEF Tick, NoTtl
      <4>2. counter'[j].ttl = counter[j].ttl - 1
        BY <3>1, <4>1 DEF CounterType
      <4>3. QED
        BY <2>2, <3>1, <4>2, GatewayAssumption DEF NoTtl
    <3>5. QED
      BY <3>1, <3>2, <3>3, <3>4, GatewayAssumption DEF NoTtl
  <2>3. QED
    BY <2>1, <2>2
<1>12. CASE Restart
  BY <1>6, <1>12 DEF Restart
<1>13. QED
  BY <1>2, <1>3, <1>4, <1>5, <1>7, <1>8, <1>9, <1>10, <1>11, <1>12, <1>14 DEF Next, Handle

\* Where the keys of devices are: only an answer holds one, none of them was
\* made for a seller, no two answers hold the same and every key that was made
\* for no seller is in one.
Handed ==
  /\ \A d \in Devices : device[d].token <= keys
  /\ \A d \in Devices : device[d].status # "done" => device[d].token = 0
  /\ \A d \in Devices : device[d].token # 0 => issuedTo[device[d].token] = NoSeller
  /\ \A d, e \in Devices : device[d].token = device[e].token => d = e \/ device[d].token = 0
  /\ \A k \in Keys \ {0} : k <= keys /\ issuedTo[k] = NoSeller => \E d \in Devices : device[d].token = k

\* Only an answered code gets a key, and no step takes it back.
LEMMA TokensKept ==
  ASSUME Typed, Handed, Next
  PROVE  \/ \E d \in Devices : Redeem(d)
         \/ /\ \A d \in Devices : device'[d].token = device[d].token
            /\ \A d \in Devices : device[d].status = "done" => device'[d].status = "done"
<1> USE DEF Typed, Handed
<1>1. ASSUME NEW d \in Devices, Authorize(d) \/ Activate(d) \/ Expired(d)
      PROVE  /\ \A e \in Devices : device'[e].token = device[e].token
             /\ \A e \in Devices : device[e].status = "done" => device'[e].status = "done"
  <2>1. /\ \A e \in Devices : e # d => device'[e] = device[e]
        /\ device[d].status # "done" /\ device'[d].token = device[d].token
    <3>1. CASE Authorize(d)
      BY <3>1 DEF Authorize
    <3>2. CASE Activate(d)
      <4>1. device[d] \in DeviceType
        OBVIOUS
      <4>2. QED
        BY <3>2, <4>1 DEF Activate, DeviceType
    <3>3. CASE Expired(d)
      BY <3>3 DEF Expired, NoDevice
    <3>4. QED
      BY <1>1, <3>1, <3>2, <3>3
  <2>2. QED
    BY <2>1
<1>2. CASE Tick
  <2>1. ASSUME NEW d \in Devices
        PROVE  device'[d].token = device[d].token /\ device'[d].status = device[d].status
    <3>1. device[d] \in DeviceType
      OBVIOUS
    <3>2. device'[d] = [device[d] EXCEPT !.ttl = IF @ > 0 THEN @ - 1 ELSE 0]
      BY <1>2 DEF Tick
    <3>3. QED
      BY <3>1, <3>2 DEF DeviceType
  <2>2. QED
    BY <2>1
<1>3. CASE Restart
  BY <1>3 DEF Restart, NoDevice
<1>4. CASE UNCHANGED device
  BY <1>4
<1>5. QED
  BY <1>1, <1>2, <1>3, <1>4
     DEF Next, Handle, Register, RegisterFails, Deactivate, Arrive, CountRequest, SetExpiry,
         FailOpen, Authenticate, Rotate, RotateFails, Subscribe, Unsubscribe

\* A key is made for a seller or for a device, and only then.
LEMMA KeysMade ==
  ASSUME Typed, Owned, Next
  PROVE  \/ UNCHANGED <<keys, issuedTo>>
         \/ /\ keys' = keys + 1 /\ keys' \in Keys
            /\ issuedTo'[keys'] # NoSeller
            /\ \A k \in Keys : k # keys' => issuedTo'[k] = issuedTo[k]
            /\ UNCHANGED device
         \/ /\ keys' = keys + 1 /\ keys' \in Keys
            /\ UNCHANGED issuedTo
            /\ \E d \in Devices : Redeem(d)
<1>1. ASSUME NEW s \in Sellers, Registers(s)
      PROVE  /\ keys' = keys + 1 /\ keys' \in Keys
             /\ issuedTo'[keys'] # NoSeller
             /\ \A k \in Keys : k # keys' => issuedTo'[k] = issuedTo[k]
             /\ UNCHANGED device
  BY <1>1, RegisterEffect, GatewayAssumption
<1>2. ASSUME NEW r \in Requests, Rotates(r)
      PROVE  /\ keys' = keys + 1 /\ keys' \in Keys
             /\ issuedTo'[keys'] # NoSeller
             /\ \A k \in Keys : k # keys' => issuedTo'[k] = issuedTo[k]
             /\ UNCHANGED device
  BY <1>2, RotateEffect, GatewayAssumption DEF Owned
<1>3. ASSUME NEW d \in Devices, Redeem(d)
      PROVE  keys' = keys + 1 /\ keys' \in Keys /\ UNCHANGED issuedTo
  BY <1>3, GatewayAssumption DEF Redeem, Typed, Keys
<1>4. CASE Wastes
  BY <1>4, WasteEffect DEF Owned
<1>5. QED
  BY <1>1, <1>2, <1>3, <1>4
     DEF Next, Handle, Registers, Rotates, Wastes, Deactivate, Arrive, CountRequest, SetExpiry, FailOpen,
         Authenticate, Subscribe, Unsubscribe, Authorize, Activate, Expired, Tick, Restart

\* Every step keeps the keys where they were handed to.
LEMMA HandedStep ==
  ASSUME Typed, Owned, Handed, Next
  PROVE  Handed'
<1>0. /\ keys \in Nat /\ \A k \in Keys : k \in Nat
      /\ \A d \in Devices : device[d].token \in Keys
  BY GatewayAssumption DEF Typed, Keys, DeviceType
<1>1. CASE /\ UNCHANGED <<keys, issuedTo>>
           /\ \A d \in Devices : device'[d].token = device[d].token
           /\ \A d \in Devices : device[d].status = "done" => device'[d].status = "done"
  BY <1>1 DEF Handed
<1>2. CASE /\ keys' = keys + 1 /\ keys' \in Keys
           /\ issuedTo'[keys'] # NoSeller
           /\ \A k \in Keys : k # keys' => issuedTo'[k] = issuedTo[k]
           /\ UNCHANGED device
  <2>1. \A k \in Keys : k <= keys => k <= keys' /\ k # keys'
    <3>1. ASSUME NEW k \in Nat, k <= keys
          PROVE  k <= keys' /\ k # keys'
      BY <1>0, <1>2, <3>1
    <3>2. QED
      BY <1>0, <3>1
  <2>2. \A k \in Keys : k <= keys' /\ k # keys' => k <= keys
    <3>1. ASSUME NEW k \in Nat, k <= keys', k # keys'
          PROVE  k <= keys
      BY <1>0, <1>2, <3>1
    <3>2. QED
      BY <1>0, <3>1
  <2>3. /\ \A d \in Devices : device'[d].token <= keys'
        /\ \A d \in Devices : device'[d].status # "done" => device'[d].token = 0
        /\ \A d, e \in Devices : device'[d].token = device'[e].token => d = e \/ device'[d].token = 0
    BY <1>0, <1>2, <2>1 DEF Handed
  <2>4. ASSUME NEW d \in Devices, device[d].token # 0
        PROVE  issuedTo'[device[d].token] = NoSeller
    <3>1. device[d].token \in Keys /\ device[d].token # keys'
      BY <1>0, <2>1 DEF Handed
    <3>2. QED
      BY <1>2, <2>4, <3>1 DEF Handed
  <2>5. ASSUME NEW k \in Keys \ {0}, k <= keys', issuedTo'[k] = NoSeller
        PROVE  \E d \in Devices : device'[d].token = k
    <3>1. k # keys'
      BY <1>2, <2>5
    <3>2. k <= keys /\ issuedTo[k] = NoSeller
      BY <1>2, <2>2, <2>5, <3>1
    <3>3. QED
      BY <1>2, <3>2 DEF Handed
  <2>6. QED
    BY <1>2, <2>3, <2>4, <2>5 DEF Handed
<1>3. ASSUME NEW d \in Devices, Redeem(d), keys' = keys + 1, keys' \in Keys, UNCHANGED issuedTo
      PROVE  Handed'
  <2>1. /\ \A e \in Devices : e # d => device'[e] = device[e]
        /\ device'[d].status = "done" /\ device'[d].token = keys'
        /\ device[d].token = 0
    BY <1>3 DEF Redeem, Redeemed, Typed, Handed
  <2>2. \A k \in Keys : k <= keys => k <= keys' /\ k # keys'
    <3>1. ASSUME NEW k \in Nat, k <= keys
          PROVE  k <= keys' /\ k # keys'
      BY <1>0, <1>3, <3>1
    <3>2. QED
      BY <1>0, <3>1
  <2>3. issuedTo[keys'] = NoSeller /\ keys' # 0 /\ keys' <= keys'
    <3>1. keys' > keys /\ keys' # 0 /\ keys' <= keys'
      BY <1>0, <1>3
    <3>2. QED
      BY <1>3, <3>1 DEF Owned, Unissued
  <2>4. ASSUME NEW e \in Devices
        PROVE  /\ device'[e].token <= keys'
               /\ device'[e].status # "done" => device'[e].token = 0
               /\ device'[e].token # 0 => issuedTo[device'[e].token] = NoSeller
    <3>1. CASE e = d
      BY <2>1, <2>3, <3>1
    <3>2. CASE e # d
      BY <1>0, <2>1, <2>2, <3>2 DEF Handed
    <3>3. QED
      BY <3>1, <3>2
  <2>5. ASSUME NEW e \in Devices, NEW f \in Devices, device'[e].token = device'[f].token
        PROVE  e = f \/ device'[e].token = 0
    <3>1. \A g \in Devices : g # d => device'[g].token # keys'
      BY <1>0, <2>1, <2>2 DEF Handed
    <3>2. QED
      BY <2>1, <2>5, <3>1 DEF Handed
  <2>6. ASSUME NEW k \in Keys \ {0}, k <= keys', issuedTo[k] = NoSeller
        PROVE  \E e \in Devices : device'[e].token = k
    <3>1. CASE k = keys'
      BY <2>1, <3>1
    <3>2. CASE k # keys'
      <4>1. k <= keys
        BY <1>0, <1>3, <2>6, <3>2
      <4>2. PICK e \in Devices : device[e].token = k
        BY <2>6, <4>1 DEF Handed
      <4>3. e # d
        BY <2>1, <4>2
      <4>4. QED
        BY <2>1, <4>2, <4>3
    <3>3. QED
      BY <3>1, <3>2
  <2>7. QED
    BY <1>3, <2>4, <2>5, <2>6 DEF Handed
<1>4. (\E d \in Devices : Redeem(d)) => keys' = keys + 1 /\ keys' \in Keys /\ UNCHANGED issuedTo
  BY GatewayAssumption DEF Redeem, Typed, Keys
<1>5. QED
  BY <1>1, <1>2, <1>3, <1>4, TokensKept, KeysMade

\* A stored key is in its seller's hands, as long as no write failed.
Armed == \A s \in Sellers : account[s].key # 0 => account[s].key \in held \/ faults > 0

\* An account that was made stores a key.
LEMMA MadeAccount ==
  ASSUME Typed, NEW s \in Sellers, Account(s), account[s] # NoAccount
  PROVE  account[s].key # 0
<1>1. account[s] \in AccountType
  BY DEF Typed
<1>2. QED
  BY <1>1 DEF Account, AccountType, NoAccount

\* Every step keeps that: a key is answered with the write that stores it.
LEMMA ArmedStep ==
  ASSUME Typed, Owned, Armed, Next
  PROVE  Armed'
<1>0. faults \in Nat
  BY GatewayAssumption DEF Typed
<1>1. CASE /\ \A s \in Sellers : account'[s].key = account[s].key
           /\ UNCHANGED held /\ (faults' = faults \/ faults' = faults + 1)
  BY <1>0, <1>1 DEF Armed
<1>2. CASE faults' = faults + 1
  BY <1>0, <1>2 DEF Armed
<1>3. ASSUME NEW s \in Sellers, Register(s)
      PROVE  Armed'
  <2>1. account'[s].key = keys' /\ \A q \in Sellers : q # s => account'[q] = account[q]
    BY <1>3, RegisterEffect DEF Registers
  <2>2. held' = held \cup {keys'} /\ UNCHANGED faults
    BY <1>3 DEF Register
  <2>3. QED
    BY <2>1, <2>2 DEF Armed
<1>4. ASSUME NEW r \in Requests, Rotate(r)
      PROVE  Armed'
  <2>1. Request(r)
    BY DEF Owned
  <2>2. /\ account'[req[r].seller].key = keys'
        /\ \A q \in Sellers : q # req[r].seller => account'[q].key = account[q].key
    BY <1>4, <2>1, RotateEffect DEF Rotates
  <2>3. held' = held \cup {keys'} /\ UNCHANGED faults
    BY <1>4 DEF Rotate
  <2>4. QED
    BY <2>2, <2>3 DEF Armed
<1>5. ASSUME NEW s \in Sellers, Deactivate(s)
      PROVE  Armed'
  BY <1>1, <1>5, SwitchedOff DEF Deactivate, Typed
<1>6. (\E s \in Sellers : RegisterFails(s)) \/ (\E r \in Requests : RotateFails(r)) => Armed'
  BY <1>2 DEF RegisterFails, RotateFails, WriteFails
<1>7. ASSUME NEW r \in Requests, Arrive(r) \/ CountRequest(r) \/ SetExpiry(r) \/ FailOpen(r)
                                 \/ Authenticate(r) \/ Subscribe(r) \/ Unsubscribe(r)
      PROVE  Armed'
  BY <1>1, <1>7 DEF Arrive, CountRequest, SetExpiry, FailOpen, Authenticate, Subscribe, Unsubscribe
<1>8. ASSUME NEW d \in Devices, Authorize(d) \/ Activate(d) \/ Redeem(d) \/ Expired(d)
      PROVE  Armed'
  BY <1>1, <1>8 DEF Authorize, Activate, Redeem, Expired
<1>9. CASE Tick \/ Restart
  BY <1>1, <1>9 DEF Tick, Restart
<1>10. QED
  BY <1>3, <1>4, <1>5, <1>6, <1>7, <1>8, <1>9 DEF Next, Handle

\* Every key in an answer is in one answer only, and stored keys are in hands.
LEMMA HandedOnce ==
  ASSUME Typed, Owned, Handed, Armed
  PROVE  KeysHandedOutOnce
<1>1. ASSUME NEW k \in 1..keys
      PROVE  LET devices == {d \in Devices : device[d].token = k}
             IN  IF issuedTo[k] = NoSeller THEN Cardinality(devices) = 1 ELSE devices = {}
  <2> DEFINE devices == {d \in Devices : device[d].token = k}
  <2>0. k \in Keys \ {0} /\ k <= keys
    BY GatewayAssumption DEF Typed, Keys
  <2>1. CASE issuedTo[k] = NoSeller
    <3>1. PICK d \in Devices : device[d].token = k
      BY <2>0, <2>1 DEF Handed
    <3>2. devices = {d}
      BY <2>0, <3>1 DEF Handed
    <3>3. QED
      BY <2>1, <3>2, FS_Singleton
  <2>2. CASE issuedTo[k] # NoSeller
    <3>1. devices = {}
      BY <2>0, <2>2 DEF Handed
    <3>2. QED
      BY <2>2, <3>1
  <2>3. QED
    BY <2>1, <2>2
<1>2. ASSUME NEW s \in Sellers, account[s] # NoAccount
      PROVE  account[s].key \in held \/ faults > 0
  BY <1>2, MadeAccount DEF Owned, Armed
<1>3. QED
  BY <1>1, <1>2 DEF KeysHandedOutOnce

\* The inductive invariant of the gateway.
GateInv == Typed /\ Owned /\ StuckOnlyAfterFault /\ Handed /\ Armed

\* There are no keys, requests and devices at first.
LEMMA GateInit == Init => GateInv
<1> SUFFICES ASSUME Init PROVE GateInv
  OBVIOUS
<1> USE GatewayAssumption DEF Init
<1>1. NoAccount \in AccountType /\ NoDevice \in DeviceType /\ Idle \in RequestType /\ NoCounter \in CounterType
  BY DEF NoAccount, AccountType, NoDevice, DeviceType, Idle, RequestType, NoCounter,
       CounterType,
         Keys, Places, Routes, NoTtl
<1>2. Typed
  BY <1>1 DEF Typed, Keys
<1>3. Owned
  BY DEF Owned, Account, Request, Revoked, Unissued, NoAccount, Idle
<1>4. StuckOnlyAfterFault
  BY DEF StuckOnlyAfterFault, NoCounter
<1>5. Handed
  BY DEF Handed, NoDevice, Keys
<1>6. Armed
  BY DEF Armed, NoAccount
<1>7. QED
  BY <1>2, <1>3, <1>4, <1>5, <1>6 DEF GateInv

\* Every step keeps it.
LEMMA GateStep == GateInv /\ [Next]_vars => GateInv'
<1> SUFFICES ASSUME GateInv, [Next]_vars PROVE GateInv'
  OBVIOUS
<1>1. CASE Next
  <2>1. \A q \in Requests : Request(q)
    BY DEF GateInv, Owned
  <2>2. QED
    BY <1>1, <2>1, GateTypes, OwnedStep, StuckStep, HandedStep, ArmedStep DEF GateInv
<1>2. CASE UNCHANGED vars
  BY <1>2 DEF vars, GateInv, Typed, Owned, Account, Request, Revoked, Unissued,
              StuckOnlyAfterFault, Handed, Armed
<1>3. QED
  BY <1>1, <1>2

\* It holds in every state.
LEMMA GateHolds == Spec => []GateInv
BY GateInit, GateStep, PTL DEF Spec

-----------------------------------------------------------------------------
(* The theorems about the gateway. *)

\* A key that was replaced authenticates nobody again, and a deactivated seller
\* is never authenticated (seller.service.ts, getByApiKey).
THEOREM KeyRevocation == Spec => []RevokedStaysRevoked
<1>1. GateInv => RevokedStaysRevoked
  BY OwnedRevokes DEF GateInv
<1>2. QED
  BY <1>1, GateHolds, PTL

\* Without a Redis error or a crash, a key that is counted is let in again: the
\* counter has a time to live, or the request that counted first is about to
\* set it (rate-limit.ts).
THEOREM LimitExpires == Spec => []StuckOnlyAfterFault
<1>1. GateInv => StuckOnlyAfterFault
  BY DEF GateInv
<1>2. QED
  BY <1>1, GateHolds, PTL

\* Every key that was generated was made for exactly one seller or one device,
\* and as long as no write failed every account stores a key that its seller was
\* answered (sellers.route.ts, device-auth.route.ts).
THEOREM KeysOnce == Spec => []KeysHandedOutOnce
<1>1. GateInv => KeysHandedOutOnce
  BY HandedOnce DEF GateInv
<1>2. QED
  BY <1>1, GateHolds, PTL

\* A step changes a key or a subscription of a seller only for a request that
\* presented a key made for that seller (sellers.route.ts).
THEOREM RequestsStayHome == Spec => OthersUntouched
<1> DEFINE A == \A s \in Sellers :
       (account'[s].key /= account[s].key /\ account[s] /= NoAccount)
       \/ (\E h \in Hooks : (hooks[h] = s) /= (hooks'[h] = s))
       => \E r \in Requests : req'[r] /= req[r] /\ issuedTo[req[r].key] = s
<1>1. GateInv /\ [Next]_vars => [A]_vars
  BY UntouchedStep DEF GateInv, Untouched
<1>2. QED
  BY <1>1, GateHolds, PTL DEF Spec, OthersUntouched
=============================================================================
