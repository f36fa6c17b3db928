-------------------------------- MODULE Gateway --------------------------------
(***************************************************************************)
(* What stands between a seller and the facilitator: the seller's account, *)
(* key and subscriptions (sellers.route.ts, seller.service.ts, the seller  *)
(* routes of admin.route.ts), the authentication of requests               *)
(* (middleware/auth.ts, resolveSeller), the limit on requests per key      *)
(* (infrastructure/rate-limit.ts) and the device flow                      *)
(* (device-auth.route.ts).  A request is a process: each await is a step,  *)
(* and what it read before one may have changed after it.                  *)
(***************************************************************************)
EXTENDS Naturals, FiniteSets

CONSTANTS
  Requests,    \* slots of concurrent requests
  Sellers,     \* seller ids
  Hooks,       \* ids of webhook subscriptions
  Devices,     \* device codes
  NoSeller,
  MaxKeys,     \* bound: API keys generated
  PayKeys,     \* bound: keys presented on the payment routes
  Limit,       \* SELLER_RATE_LIMITS of the endpoint
  Window,      \* RATE_LIMIT_WINDOW_MS in clock ticks
  Lifetime,    \* the 10 minutes of a device code in clock ticks
  MaxFaults    \* bound: errors of Redis or of a write, and crashes

ASSUME GatewayAssumption ==
  /\ MaxKeys \in Nat /\ PayKeys \subseteq 0..MaxKeys /\ Limit \in Nat \ {0} /\ Window \in Nat \ {0}
  /\ Lifetime \in Nat \ {0} /\ MaxFaults \in Nat
  /\ NoSeller \notin Sellers

VARIABLES
  account,     \* table sellers: the key whose hash is stored, active
  hooks,       \* table webhook_subscriptions: owner of each row
  keys,        \* number of API keys generated so far; key 0 is unknown to all
  counter,     \* Redis: rl:seller:<endpoint>:<key prefix>
  device,      \* pendingDevices, in the memory of the process
  req,         \* progress of each request
  faults,
  issuedTo,    \* history: the seller each key was made for
  revoked,     \* history: keys that were replaced
  dismissed,   \* history: sellers an operator deactivated
  held         \* history: keys that were answered to a seller

vars == <<account, hooks, keys, counter, device, req, faults,
          issuedTo, revoked, dismissed, held>>

Keys == 0..MaxKeys
NoTtl == Window + 1
NoCounter == [count |-> 0, ttl |-> NoTtl]
NoAccount == [key |-> 0, active |-> FALSE]
NoDevice == [status |-> "none", ttl |-> 0, token |-> 0]
Idle == [pc |-> "idle", route |-> "pay", key |-> 0, seller |-> NoSeller]

Routes == {"pay", "rotate", "subscribe", "unsubscribe"}

TypeOK ==
  /\ account \in [Sellers -> [key : Keys, active : BOOLEAN]]
  /\ hooks \in [Hooks -> Sellers \cup {NoSeller}]
  /\ keys \in Keys
  /\ counter \in [PayKeys -> [count : 0..(Limit + 1), ttl : 0..NoTtl]]
  /\ device \in [Devices -> [status : {"none", "pending", "approved", "done"},
                             ttl : 0..Lifetime, token : Keys]]
  /\ req \in [Requests -> [pc : {"idle", "limit", "expire", "auth", "write"},
                route : Routes, key : Keys, seller : Sellers \cup {NoSeller}]]
  /\ faults \in 0..MaxFaults
  /\ issuedTo \in [Keys -> Sellers \cup {NoSeller}]
  /\ revoked \subseteq Keys /\ dismissed \subseteq Sellers /\ held \subseteq Keys

Init ==
  /\ account = [s \in Sellers |-> NoAccount]
  /\ hooks = [h \in Hooks |-> NoSeller]
  /\ keys = 0
  /\ counter = [k \in PayKeys |-> NoCounter]
  /\ device = [d \in Devices |-> NoDevice]
  /\ req = [r \in Requests |-> Idle]
  /\ faults = 0
  /\ issuedTo = [k \in Keys |-> NoSeller]
  /\ revoked = {} /\ dismissed = {} /\ held = {}

-------------------------------------------------------------------------------
(***************************************************************************)
(* Accounts and the life of a key.                                         *)
(***************************************************************************)

\* getByApiKey and resolveSeller: the active seller with that key's hash.
Lookup(k) ==
  LET owners == {s \in Sellers : account[s].active /\ account[s].key = k}
  IN  IF owners = {} THEN NoSeller ELSE CHOOSE s \in owners : TRUE

\* generateApiKey for a seller: before the row is written.
Generate(s) ==
  /\ keys < MaxKeys
  /\ keys' = keys + 1
  /\ issuedTo' = [issuedTo EXCEPT ![keys'] = s]

\* The insert or update rejects, without effect or with its reply lost: the
\* caller is answered an error, and the new key is in no hands.
WriteFails(s, row) ==
  /\ faults < MaxFaults
  /\ faults' = faults + 1
  /\ account' \in {account, [account EXCEPT ![s] = row]}
  /\ UNCHANGED held

\* POST /sellers/register: generateApiKey and one insert.
Register(s) ==
  /\ account[s] = NoAccount /\ Generate(s)
  /\ account' = [account EXCEPT ![s] = [key |-> keys', active |-> TRUE]]
  /\ held' = held \cup {keys'}
  /\ UNCHANGED <<hooks, counter, device, req, faults, revoked, dismissed>>

RegisterFails(s) ==
  /\ account[s] = NoAccount /\ Generate(s)
  /\ WriteFails(s, [key |-> keys', active |-> TRUE])
  /\ UNCHANGED <<hooks, counter, device, req, revoked, dismissed>>

\* DELETE /admin/sellers/:id
Deactivate(s) ==
  /\ account[s] /= NoAccount
  /\ account' = [account EXCEPT ![s].active = FALSE]
  /\ dismissed' = dismissed \cup {s}
  /\ UNCHANGED <<hooks, keys, counter, device, req, faults, issuedTo, revoked, held>>

-------------------------------------------------------------------------------
(***************************************************************************)
(* A request: the rate limit where the route has the hook, then the        *)
(* authentication, then what the route writes.                             *)
(***************************************************************************)
Go(r, pc) == req' = [req EXCEPT ![r].pc = pc]
Leave(r) == req' = [req EXCEPT ![r] = Idle]

Arrive(r) ==
  /\ req[r].pc = "idle"
  /\ \E route \in Routes, k \in 0..keys :
       /\ route = "pay" => k \in PayKeys
       /\ req' = [req EXCEPT ![r] = [pc |-> IF route = "pay" THEN "limit" ELSE "auth",
                                     route |-> route, key |-> k, seller |-> NoSeller]]
  /\ UNCHANGED <<account, hooks, keys, counter, device, faults,
                 issuedTo, revoked, dismissed, held>>

\* Mutant of FirstHit: the time to live is set by the second request.
SecondHit(n) == n = 2

FirstHit(n) == n = 1

\* redis.incr: who counted first sets the time to live next, who counted
\* beyond the limit is answered 429.
CountRequest(r) ==
  LET k == req[r].key
      current == IF counter[k].count <= Limit THEN counter[k].count + 1 ELSE Limit + 1
  IN  /\ req[r].pc = "limit"
      /\ counter' = [counter EXCEPT ![k].count = current]
      /\ CASE FirstHit(current) -> Go(r, "expire")
           [] ~FirstHit(current) /\ current > Limit -> Leave(r)
           [] OTHER -> Go(r, "auth")
      /\ UNCHANGED <<account, hooks, keys, device, faults, issuedTo, revoked, dismissed, held>>

\* redis.expire: a command of its own.
SetExpiry(r) ==
  /\ req[r].pc = "expire"
  /\ counter' = [counter EXCEPT ![req[r].key].ttl = Window]
  /\ Go(r, "auth")
  /\ UNCHANGED <<account, hooks, keys, device, faults, issuedTo, revoked, dismissed, held>>

\* A Redis error: the request passes, and the command may have been carried out.
FailOpen(r) ==
  /\ req[r].pc \in {"limit", "expire"} /\ faults < MaxFaults
  /\ faults' = faults + 1
  /\ Go(r, "auth")
  /\ counter' \in {counter,
       IF req[r].pc = "expire" THEN [counter EXCEPT ![req[r].key].ttl = Window]
       ELSE [counter EXCEPT ![req[r].key].count = IF @ <= Limit THEN @ + 1 ELSE @]}
  /\ UNCHANGED <<account, hooks, keys, device, issuedTo, revoked, dismissed, held>>

\* requireSellerAuth on the payment routes, resolveSeller on the others; an
\* unknown key, or an error of the lookup, ends the request.
Authenticate(r) ==
  LET s == Lookup(req[r].key)
  IN  /\ req[r].pc = "auth"
      /\ IF s = NoSeller \/ req[r].route = "pay" THEN Leave(r)
         ELSE req' = [req EXCEPT ![r] = [pc |-> "write", route |-> @.route, key |-> @.key,
                                         seller |-> s]]
      /\ UNCHANGED <<account, hooks, keys, counter, device, faults,
                     issuedTo, revoked, dismissed, held>>

\* Mutant of NewKey: the row read before is written back whole.
NewKeyRow(s, k) == [key |-> k, active |-> TRUE]

\* db.seller.update: only the hash, whatever else happened to the row since.
NewKey(s, k) == [account[s] EXCEPT !.key = k]

\* POST /sellers/rotate-key
Rotate(r) ==
  LET s == req[r].seller
  IN  /\ req[r].pc = "write" /\ req[r].route = "rotate" /\ Generate(s)
      /\ account' = [account EXCEPT ![s] = NewKey(s, keys')]
      /\ revoked' = revoked \cup {account[s].key}
      /\ held' = held \cup {keys'}
      /\ Leave(r)
      /\ UNCHANGED <<hooks, counter, device, faults, dismissed>>

RotateFails(r) ==
  LET s == req[r].seller
  IN  /\ req[r].pc = "write" /\ req[r].route = "rotate" /\ Generate(s)
      /\ WriteFails(s, NewKey(s, keys'))
      /\ revoked' = IF account' = account THEN revoked ELSE revoked \cup {account[s].key}
      /\ Leave(r)
      /\ UNCHANGED <<hooks, counter, device, dismissed>>

\* POST /webhooks: a body or URL that does not pass its checks is answered 400.
Subscribe(r) ==
  /\ req[r].pc = "write" /\ req[r].route = "subscribe"
  /\ \/ UNCHANGED hooks
     \/ \E h \in Hooks : /\ hooks[h] = NoSeller
                         /\ hooks' = [hooks EXCEPT ![h] = req[r].seller]
  /\ Leave(r)
  /\ UNCHANGED <<account, keys, counter, device, faults, issuedTo, revoked, dismissed, held>>

\* Mutant of Mine: deleteMany by id alone.
Anyones(h, s) == hooks[h] /= NoSeller

Mine(h, s) == hooks[h] = s

\* DELETE /webhooks/:id, for whichever id: deleteMany of that id and owner.
Unsubscribe(r) ==
  /\ req[r].pc = "write" /\ req[r].route = "unsubscribe"
  /\ \E h \in Hooks : hooks' = [hooks EXCEPT ![h] = IF Mine(h, req[r].seller) THEN NoSeller ELSE @]
  /\ Leave(r)
  /\ UNCHANGED <<account, keys, counter, device, faults, issuedTo, revoked, dismissed, held>>

-------------------------------------------------------------------------------
(***************************************************************************)
(* The device flow: one map in the memory of the process.                  *)
(***************************************************************************)
Live(d) == device[d].ttl > 0

\* POST /device/authorize
Authorize(d) ==
  /\ device[d].status = "none"
  /\ device' = [device EXCEPT ![d] = [status |-> "pending", ttl |-> Lifetime, token |-> 0]]
  /\ UNCHANGED <<account, hooks, keys, counter, req, faults, issuedTo, revoked, dismissed, held>>

\* POST /device/activate with the device's user code.
Activate(d) ==
  /\ device[d].status = "pending" /\ Live(d)
  /\ device' = [device EXCEPT ![d].status = "approved"]
  /\ UNCHANGED <<account, hooks, keys, counter, req, faults, issuedTo, revoked, dismissed, held>>

\* Mutant of Redeemed: the code stays in the map until it expires.
RedeemedKept(d, k) == [device[d] EXCEPT !.token = k]

\* The code leaves the map with the answer that holds the key.
Redeemed(d, k) == [status |-> "done", ttl |-> 0, token |-> k]

\* POST /device/token of an approved code: generateApiKey, whose hash is stored
\* nowhere.
Redeem(d) ==
  /\ device[d].status = "approved" /\ Live(d) /\ keys < MaxKeys
  /\ keys' = keys + 1
  /\ device' = [device EXCEPT ![d] = Redeemed(d, keys')]
  /\ UNCHANGED <<account, hooks, counter, req, faults, issuedTo, revoked, dismissed, held>>

\* POST /device/token of an expired code.
Expired(d) ==
  /\ device[d].status \in {"pending", "approved"} /\ ~Live(d)
  /\ device' = [device EXCEPT ![d] = NoDevice]
  /\ UNCHANGED <<account, hooks, keys, counter, req, faults, issuedTo, revoked, dismissed, held>>

-------------------------------------------------------------------------------
\* Time passes for the counters that have a time to live and for device codes.
Tick ==
  /\ \/ \E k \in PayKeys : counter[k].ttl <= Window
     \/ \E d \in Devices : Live(d)
  /\ counter' = [k \in PayKeys |->
       CASE counter[k].ttl = NoTtl -> counter[k]
         [] counter[k].ttl <= 1 -> NoCounter
         [] OTHER -> [counter[k] EXCEPT !.ttl = @ - 1]]
  /\ device' = [d \in Devices |-> [device[d] EXCEPT !.ttl = IF @ > 0 THEN @ - 1 ELSE 0]]
  /\ UNCHANGED <<account, hooks, keys, req, faults, issuedTo, revoked, dismissed, held>>

\* The process restarts: its requests and its map are gone.
Restart ==
  /\ faults < MaxFaults
  /\ faults' = faults + 1
  /\ req' = [r \in Requests |-> Idle]
  /\ device' = [d \in Devices |-> IF device[d].status = "done" THEN device[d] ELSE NoDevice]
  /\ UNCHANGED <<account, hooks, keys, counter, issuedTo, revoked, dismissed, held>>

Handle(r) ==
  \/ CountRequest(r) \/ SetExpiry(r) \/ FailOpen(r) \/ Authenticate(r)
  \/ Rotate(r) \/ RotateFails(r) \/ Subscribe(r) \/ Unsubscribe(r)

Next ==
  \/ \E s \in Sellers : Register(s) \/ RegisterFails(s) \/ Deactivate(s)
  \/ \E r \in Requests : Arrive(r) \/ Handle(r)
  \/ \E d \in Devices : Authorize(d) \/ Activate(d) \/ Redeem(d) \/ Expired(d)
  \/ Tick
  \/ Restart

Spec == Init /\ [][Next]_vars

-------------------------------------------------------------------------------
\* A key that was replaced never authenticates again, and a deactivated seller
\* never at all, though a rotation that had authenticated before may still write
\* after it (sellers.route.ts:120, admin.route.ts:236).
RevokedStaysRevoked ==
  /\ \A k \in revoked : Lookup(k) = NoSeller
  /\ \A k \in Keys : Lookup(k) \notin dismissed

\* No request changes a key or a subscription of another seller than the one
\* the key it presented was made for (sellers.route.ts:43, :204).
OthersUntouched ==
  [][\A s \in Sellers :
       (account'[s].key /= account[s].key /\ account[s] /= NoAccount)
       \/ (\E h \in Hooks : (hooks[h] = s) /= (hooks'[h] = s))
       => \E r \in Requests : req'[r] /= req[r] /\ issuedTo[req[r].key] = s]_vars

\* INCR and EXPIRE are two commands (rate-limit.ts:59): without a fault between
\* them every counter has, or is about to get, a time to live, so that a limited
\* key is let in again.
StuckOnlyAfterFault ==
  \A k \in PayKeys : counter[k].count > 0 /\ counter[k].ttl = NoTtl /\ faults = 0
                  => \E r \in Requests : req[r].pc = "expire" /\ req[r].key = k

\* Every key that was generated was made for one seller or one device, and the
\* key whose hash a row stores is in its seller's hands: generateApiKey comes
\* before the write and the answer after it (sellers.route.ts:78, :93, :119, :124),
\* so only an error of the write locks a seller out of the account.
KeysHandedOutOnce ==
  /\ \A k \in 1..keys :
       LET devices == {d \in Devices : device[d].token = k}
       IN  IF issuedTo[k] = NoSeller THEN Cardinality(devices) = 1 ELSE devices = {}
  /\ \A s \in Sellers :
       account[s] /= NoAccount => account[s].key \in held \/ faults > 0

===============================================================================
