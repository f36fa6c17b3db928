# TLA+ verification of the x402 facilitator

This directory models the payment facilitator in `src/` (TypeScript, Fastify,
PostgreSQL through Prisma, Redis, BullMQ, viem). A buyer signs an ERC-3009
`transferWithAuthorization`; a seller's server sends it to `POST /verify` and
then to `POST /settle`; the facilitator submits it on chain and issues a
receipt.

Check a module with `tlc -config X.cfg M`, the proofs with `tlapm M.tla`.

## 1. The system: inventory

| Component | State | Operations | Talks to | Correct when |
|---|---|---|---|---|
| Verification (`application/verify.service.ts`, `http/routes/verify.route.ts`) | `payment_requests`, `payment_verifications` rows | `runVerify`, `persistVerification` | anti-replay store, PostgreSQL, signature check | who is accepted keeps both keys, so that another payload with its nonce or signature, as spelled, is a duplicate; "accepted" is stored before it is said; failures can be retried |
| Anti-replay store (`protocol/anti-replay.ts`) | Redis keys `nonce:*`, `sig:*` (48 h) | claim, release, PostgreSQL check | Redis, PostgreSQL | claims of one nonce exclude each other; a failed call leaves nothing behind |
| Settlement (`application/settle.service.ts`, `http/routes/settle.route.ts`) | `payment_settlements`, `payment_receipts`, Redis lock `settle:lock:*` (300 s) | `runSettle` | on-chain submission, PostgreSQL, Redis, webhooks | the funds move once, one receipt for moved funds, all confirmed answers agree, retries never pay again |
| On-chain submission (`settlement/on-chain.ts`) | none of its own; the chain | `submitOnChain` with fallback RPC | two RPC nodes | success is reported only for a mined, successful transaction |
| DI payment path (`application/verify-payment.ts`, `settlement/settle-payment.ts`) | as above, keys of 7 days | `verifyPayment`, `settlePayment` | injected | of all requests with one authorization, however spelled, a single one is paid; keys follow rows |
| Confirmation worker (`infrastructure/workers/confirm-settlement.worker.ts`) | settlement status, receipt, BullMQ job | `confirmSettlement`, failed handler | PostgreSQL, Redis, RPC | without a stall or a fault a confirmed settlement is not overwritten; every settlement is resolved |
| RPC breakers and failover (`circuit-breaker.ts`, `rpc-client.ts`, `rpc-circuit-breaker.ts`, `rpc-failover.ts`) | per provider: state, failures, successes, time of opening | `execute` / `call`, retries, fallback, reset | RPC nodes | a failing provider trips its breaker, a live one is used again |
| Fee engine, referrals (`fee-engine.ts`, `referral-service.ts`) | none (pure) | `compute`, statistics | settlement | fees follow their rates and round in the seller's favour, premium rates are personal, statistics add up |
| Webhooks (`webhook.service.ts`, two queues, two workers) | subscription, delivery rows, BullMQ jobs | notify, deliver, retry | sellers' servers | an event is not lost without a fault, completion means a 2xx, every job ends |
| Settlement stream (`sse.route.ts`, `settlement-pubsub.ts`) | listener sets, subscriptions, timers | open, publish, close | PostgreSQL, Redis pub/sub | a registered listener is reachable; every stream ends |
| Dashboard stream (`dashboard.ts`) | connection count, last id per stream | connect, poll, close | PostgreSQL | a row is written to a stream once |
| Sellers, keys, webhook subscriptions (`sellers.route.ts`, `seller.service.ts`, `middleware/auth.ts`) | `sellers`, `webhook_subscriptions` rows | register, rotate, dismiss, subscribe, unsubscribe | PostgreSQL | a replaced key and a dismissed seller stay out; nobody touches another's data |
| Rate limiter (`infrastructure/rate-limit.ts`) | Redis counters | hook | Redis | no key is refused for ever |
| Device flow (`device-auth.route.ts`) | in-memory map of codes | authorize, activate, token | - | one key per approved, unexpired code |
| Networks and assets (`admin.route.ts`) | `networks`, `assets` rows | add, update, disable | PostgreSQL | what was switched off stays off |
| Key provider (`key-provider.ts`) | one cached key | `getPrivateKey`, `invalidateKeyCache` | AWS KMS, Vault | no stale or malformed key is served |
| SDK clients (`sdk/src`, `src/sdk/client`) | none | verify, settle, `pay`, middleware, retries | HTTP | a proof is served once and, unless `autoSettle` is off, only when paid; who paid is served but in named cases |
| HTTP app, health, metrics, billing, MCP, config, logging, scripts | - | read-only or wiring | - | not modelled: pure I/O |

What is hard here: several server instances run the same handlers at the same
time and share three stores (PostgreSQL, Redis, the chain) without a
distributed transaction; every `await` is a point where another call runs; the
Redis lock and keys expire on their own; a call that timed out may have had
its effect; a process may die between any two steps; clients repeat requests
the server is still working on. `PROJECT.json` lists the hazards line by line.

## 2. The modules

| Module | Models | Proofs |
|---|---|---|
| `SubmitOnChain` | `submitOnChain` and what the code relies on of the chain | used below |
| `SettleService` (extends it) | `runSettle`: one action per await, any number of calls | `SettleServiceProofs` |
| `SettlementContract` | abstract: funds move once, one receipt, agreeing answers | `SettleServiceProofs`, `DiPaymentProofs` |
| `AntiReplay` | `claimNonceRedis`, `releaseNonceRedis`, one Redis command per action | used below |
| `VerifyService` (extends it) | `runVerify`, `persistVerification` | `VerifyServiceProofs` |
| `SettlePayment` (extends `SubmitOnChain`) | `settlePayment`, the second settlement path | `DiPaymentProofs` |
| `VerifyPayment` | `verifyPayment` with its own Redis helpers, the second verification path | used below |
| `DiPayment` (extends `SettlePayment`, instantiates `VerifyPayment`) | the two together: the rows one writes are what the other reads | `DiPaymentProofs` |
| `ConfirmWorker` | the BullMQ worker `confirmSettlement` and its failed handler, with overlapping executions of one job | `ConfirmWorkerProofs` |
| `FeeEngine`, `FeeLedger` (extends it) | `FeeEngine.compute` as operators; the settlements billed with it | `FeeProofs` |
| `WebhookDelivery` | `notify`, both queues and both workers, with overlapping slots | `WebhookDeliveryProofs` |
| `CircuitBreaker`, `RpcCircuitBreaker` | the two breakers as operators on their fields | used below |
| `RpcClient` (instantiates both) | concurrent calls through both client stacks | `EdgeProofs` |
| `Gateway` | accounts, keys, subscriptions, rate limit, device flow | `OperationsProofs` |
| `PaymentFlow` (extends `SettleService`) | the SDK clients over `POST /verify` and over `SettleService` itself | `EdgeProofs` |
| `SettlementStream`, `DashboardStream`, `Catalogue`, `KeyProvider` | four small parts of the server | `OperationsProofs` |
| `MC...` | symmetry sets, payloads, configurations; `MCOperations` puts the four small parts and the ledger side by side | - |

### SubmitOnChain and SettleService

A *call* is one execution of the settle handler; `pc[c]` is the await it stands
at. `FindVerification` is the query at lines 42-60 of `settle.service.ts`,
`CheckExisting` 63-91, `AcquireLock` 96-101, `CreateSettlement` 104-115,
`StartSubmit`/`PrepareFails` 117-141, `SubmitProgress` the awaits of
`submitOnChain`, `Persist` the `$transaction` 160-192, `ReleaseLock` the
`redis.del` at 195 and the answer, `MarkFailed` and `ReleaseAfterFailure` the
catch block 210-223. Each storage call also has a variant that rejects, with
its effect done or not done (`LookupThrows`, `CreateThrows`, `PersistFails`,
`ReleaseLockFails`, `MarkFailedSwallowed`, `ReleaseSwallowed`), and `Crash`
stops a call anywhere. `LockExpires` is the TTL.

State that the code has: `row` (settlementStatus), `receipt` (the settlement
named by the UNIQUE payment_receipts row), `lock`, `answer`, and on chain `tx`.
State for the properties only: who set the lock, `late`, `overran`, `faults`.

The chain: a broadcast transaction may be mined later or never, in any order,
and one ERC-3009 authorization succeeds once. `SubmitOnChain` names the
authorization by its request; `VerifyService` justifies that: the verify route
draws a fresh requestId per call, so a request has at most one accepted nonce.
Two requests that carry one authorization in two spellings may then both succeed
in this module, where the token contract refuses the second; its properties are
about one request each, and `DiPayment` has the contract's rule.
The receipt that `findFirst` includes with a settlement is read in the same
step: a receipt never changes once written.

What both settlement paths submit is not the buyer's signature but `'0x' +
signatureHash` (`settle.service.ts:146`, `settle-payment.ts:143`), a hash of it,
which no token contract accepts. The model lets the transaction succeed all the
same (`StartSubmit`), so that the protocol around it can be checked: it has every
behaviour of the code as written and those of the code with the signature put
right.

### SettlePayment, VerifyPayment and DiPayment

`SettlePayment` is the same await-by-await model of `settle-payment.ts`:
`LoadRequest` and `VerificationRequired` are lines 57-76, `CheckExisting`
79-98, `AcquireLock` 101-110, `CreateSettlement` 113-121, the try block 125-207
`StartSubmit` to `Persist`, the catch block `MarkFailed` and
`ReleaseAfterFailure`, the finally block `ReleaseFinally`. It finds only
confirmed settlements again, so failed ones may be retried, and its finally
block deletes the lock on the failure path a second time. It implements the
same `SettlementContract`.

`VerifyPayment` is `verify-payment.ts`. It differs from `runVerify` where it
matters: `ClaimNonce` and `ClaimSignature` come one after the other, the second
only when the first was won; PostgreSQL is not asked before the insert; a
rejected signature leaves no row; both rows are created in one transaction
(`Persist`). `ReleaseNonce` and `ReleaseSignature` are the rollbacks.
`RedisThrows` and `RedisReplyLost` are the error of a command that was not and
that was executed, after which the commands still to come are not sent.

A nonce is the hex string the client wrote (`x402-parser.ts:11` admits both
cases). `infrastructure/anti-replay.ts:13` lower-cases it for the Redis key, and
`verify-payment.ts:202` stores it as written in the UNIQUE column: `Lower` is that
conversion, `Unique` compares spellings. After a lost key a second spelling
therefore passes both, and one authorization has two requests that are taken up.
The token contract knows the bytes32 nonce (`SameAuthorization`, `TokenMines`).

`DiPayment` composes them: `stored` is the set of requests with the rows that
`settlePayment` looks for, and one count of faults bounds both. Only
`OneRequestPaid` needs both halves. Settle calls hold locks per request; what
keeps two requests of one authorization apart is the Redis key and the UNIQUE
column as long as neither is evaded, and then the receipt check of `submitOnChain`:
of all requests with one nonce, in whatever spelling, at most one gets a receipt,
and it is one whose transaction moved the funds.

### AntiReplay and VerifyService

`ClaimNonce`, `ClaimSig`, `UndoNonce`, `ReleaseNonce`, `ReleaseSig` are the
single Redis commands of `claimNonceRedis` (lines 72-92) and
`releaseNonceRedis` (99-108). The two commands of a pair are pipelined, but
Redis runs commands of other connections between them; the model lets any two
calls interleave there, which includes every schedule of one or many
instances. `NonceKeyLost`/`SigKeyLost` are the 48 h TTL and a Redis flush.

`VerifyService` has the handler of lines 40-167: the checks before the claim
are one choice (`Arrive` or `RejectPayload`), then the claim, `CheckPostgres`
(`checkReplayPostgres`), `VerifySignature`, and the three writes of
`persistVerification` (network lookup, upsert, create). `Unique` is the pair
of UNIQUE columns of `payment_verifications`; what a signature proves is the
constant `Genuine`.

Nonces and signatures are the strings the code compares (`anti-replay.ts:80-81`,
`verify.service.ts:93-94`), and the parser admits hex digits of either case
(`x402-parser.ts:11`, `:15`). Two spellings of one bytes32 nonce are two members
of `Nonces`: this verification accepts both, without any fault, as its
specification says. `AcceptedKeysKept` therefore speaks of spellings; that the
funds of one authorization move once is the token contract's doing.

### ConfirmWorker

One settlement whose transaction is broadcast and the job that polls for it.
An *execution* is one run of the processor: `ReadRow` is lines 82-95 of
`confirm-settlement.worker.ts`, `PollSees` and `PollFails` the wait on the
primary and the fallback RPC 107-134, `MarkFailed` 126-133, `Commit` the
`$transaction` 142-190, `ReleaseLock` 193. `FailAttempt` is the throw as BullMQ
counts it together with the failed handler 225-243, whose unawaited update is
`FinalFailure`. BullMQ is external: it hands out the job (`Start`), and takes a
stalled one back (`Stall`) without counting an attempt and without stopping its
execution, so executions overlap; a stalled execution's result is discarded. No
code enqueues the job: `Init` is what the header describes, enqueued after the
submission with the row processing and the lock set.

### FeeEngine and FeeLedger

`Compute` is `compute` (55-97 of `fee-engine.ts`) with `ResolveFeeBps` the
search for the first live premium tier (99-110). `FeeLedger` settles payments
as `settlePayment` does (`SettleWithFees`): with the fees of the moment and no
volume (`settle-payment.ts:155-159`), so `compute` takes 0 for it; the query that
would find one, `getMonthlyVolumeForSeller`, serves a report only
(`billing.ts:118`) and is not modelled. `createFeeEngine`, which `settlePayment`
calls (151), sets neither a free tier nor premium tiers: of the three
configurations checked, the first is the one that runs, and the others are what
`compute` does with the fields its type has. Rates are at most 100 %, as
`config.ts:58-59` validates. The referral codes in use are finitely many, so that
the statistics are sums.

### WebhookDelivery

Some calls of `notify` (`webhook.service.ts:55-104`) about one request:
`Notify` is the query for a subscription, `CreateDelivery` the row (88-96),
`Enqueue` the job. The repository has two queues and two workers; `queue` says
which pair runs. In `webhooks` (`webhook-queue.ts`, `webhook-worker.ts`) a job
is named by event, request and millisecond (`SameJob`); in `webhook`
(`queue.ts`, `workers/webhook.worker.ts`) by its row. `PostAccepted` and
`PostFails` are the HTTP exchange and what follows it in the worker; `Record`,
the update of the row, changes nothing, because it names a column the table
does not have. `Take`, `Complete`, `EndAttempt` and `Stall` are BullMQ,
as in `ConfirmWorker`. The seller is any server: it may accept or fail each POST.

### CircuitBreaker, RpcCircuitBreaker and RpcClient

A process reaches a chain through `ResilientRpcClient` (over
`circuit-breaker.ts`) or `RpcFailoverClient` (over `rpc-circuit-breaker.ts`);
`stack` says through which. Both breakers are records with the same fields; the
operators `Asked`, `OnSuccess`, `OnFailure` and their counterparts are the code
between two awaits. A member of `Slots` is one RPC call: `Begin` up to the request
that goes out, `Answered`, `Failed`, `Reverted` the result as it meets whatever
state other calls have put the breaker in, `Retry` the loop of
`rpc-circuit-breaker.ts` that does not look at the breaker again. `Tick` is the
clock, `Outage` takes an endpoint down or up. The fallback of
`RpcFailoverClient` goes to the transport's default URL, since `_fallbackUrl` is
never assigned (`Endpoint`). `overdue` counts, per provider and call, the attempts
that began while the breaker was open, since it was last not open. `RpcSpec` is
the specification for safety, `FairRpcSpec` adds the fairness that
`BreakerRecovers` needs.

### Gateway

A request is a process with the route's awaits: the hook's `INCR`
(`CountRequest`) and `EXPIRE` (`SetExpiry`), the authentication, the write. What
it read before an await may have changed after it: a rotation that
authenticated may write after another one or after an operator dismissed its
seller. `Lookup` is the query behind every authentication. The hook is applied
to the payment routes, as its header describes; no route attaches it. `generateApiKey`
comes before the awaited write (`sellers.route.ts:119-120`): the write may be
rejected, or done and its reply lost (`RegisterFails`, `RotateFails`), and a key
may then be stored that nobody was told; `held` are the keys that a seller was
told. Device
codes live in the memory of the process: `Restart` forgets them and every
request in flight. A key is the number of its generation, so that keys can be
compared; key 0 stands for one nobody has.

### PaymentFlow

One payment proof and the programs that present it: the Express middleware,
with `autoSettle` (`middleware`) or without (`verifyOnly`, which calls `next()` for
an accepted verification and settles nothing), an application that uses
`X402Client` call by call, and `pay()` of both `FacilitatorClient`s. A client
waits for one attempt of one request; the server goes on with attempts the client
gave up. `NetworkError` and `Timeout` end the wait with the call in any state.

`POST /settle` is `SettleService`: the module extends it, every step of the flow
is a step of it or leaves it alone (`FlowDrives`), and its theorems hold here with
its crashes, storage errors after the transfer, late transactions and lock
overruns. `POST /verify` is `VerifyService` as one genuine proof in one spelling
sees it: the nonce key, the accepted row, and the awaits around them that can
reject, each with its effect done or not (`ClaimThrows`, `VerifyThrows`,
`VerifyUnsaved`). Where `runVerify` throws, the nonce is kept.

The proof is assumed to have the shape that `verify.route.ts` requires of a body;
the typed proofs of `sdk/src` lack some of its fields (`index.ts:37`, `types.ts:16`)
and would be answered 400. Nothing enqueues the confirmation worker's job, so the
worker is not part of the flow.

### The parts of MCOperations

`SettlementStream` is one request id: the handler reads the row, arms its timers,
subscribes and listens for the 'close' event only then. `entry`, `callbacks` and
`channel` are the map, the set in it and the last subscription command sent.
`DashboardStream` is the polled stream: the interval fires whether or not the
poll before it is back. `Catalogue` is the admin handlers with the await
between the lookup and the write. `KeyProvider` is the cached key, fetched
concurrently, with an invalidation between a fetch and the assignment of its
result. `FeeLedger` is above. The five share nothing, so a
behaviour of the run (`OpsSpec`) exercises one of them. A page of the dashboard
stream is what `findMany` with `take` returns: the first `Batch` rows newer than
the last id, in the order of the table (`FirstNewer`, `InOrder`).

`sse.route.ts:74` looks the settlement up with `findUnique` by `requestId`, which
is not unique (`prisma/schema.prisma:143`): Prisma rejects the query before any
timer is armed, and the stream stays open until the client leaves. The model has
that (`Rejects`), and `StreamEnds` and `ListenersSubscribed` make an exception of
it; it also has a query that answers (`Connect`, `AnswerFromRow`), which is what
the code intends and what the two properties are about.

Where the source does not type-check between its modules (`computeFees`,
`verifyTransferAuthorization` and `notifyWebhook` are imported by names the
files do not export), the call the code intends is modelled and its data are
abstract.

## 3. The runs

| Run | Instance | Shows |
|---|---|---|
| `settle` | 2 calls, 1 request, 2 RPCs, 2 faults, fair | the funds move once, receipts and answers agree, the lock excludes until a call outlives it, a failed answer has a failed settlement on record, only a fault leaves a row processing; `SettleService` implements `SettlementContract` |
| `settle_race` | 2 calls, 1 RPC, no fault | **violated**: `ConfirmedNeverReprocessed` |
| `verify_safety` | 3 calls, 2 nonces, 2 signatures, 1 fault, 1 lost key | whoever is accepted keeps both keys, answers are stored, claims exclude, failures give the nonce back |
| `verify_retry` | 2 calls, 1 nonce, 2 signatures, no fault | **violated**: `RetryNotBlocked` |
| `di_payment` | 2 requests, 2 nonces, one of them in 2 spellings, 2 signatures, 2 settle calls, 1 RPC, 1 fault or lost key | one request per authorization is paid, keys follow rows, the lock excludes until a call fails; `settlePayment` implements `SettlementContract` |
| `confirm_worker` | 4 executions, 3 attempts, 1 stall survived, 2 RPCs, 1 fault, fair | receipts are truthful, nothing is given up early, confirmations are kept, every settlement is resolved |
| `webhook_delivery` | 2 notifications, 2 slots, 2 events, 2 queues, 2 attempts, 1 stall survived, 1 fault, fair | no event is lost without a fault, completion means a 2xx, every job ends |
| `rpc_client` | 2 calls, both thresholds 2, 2 attempts per call, both stacks, with and without fallback, fair | a failing provider trips its breaker, late attempts are bounded, a primary that stays up is used again |
| `gateway` | 2 requests, 2 sellers, 3 keys, 1 subscription, 1 limited key, 1 device code, 1 fault | replaced keys and dismissed sellers stay out, nobody touches another's data, no counter is stuck without a fault, a key is handed out once, and a stored key is held by its seller unless a write failed |
| `payment_flow` | 2 presenters of any two of the 5 kinds, 1 retry, 2 losses, 1 fault of `POST /settle`, 1 RPC | served once and, with `autoSettle`, only for a receipt; who paid is refused in three named cases only, unless a fault struck `POST /settle` |
| `payment_retry` | 1 presenter, 1 retry, 1 loss | **violated**: `RetryAfterError` |
| `operations` | 2 streams; 2 dashboard clients, 1 slot, 3 rows, 2 polls in flight; 3 admin calls, 2 chains; 2 key calls, 3 versions; 3 settlements, 2 sellers, 2 codes, 3 configurations; fair | streams end and stay reachable, rows are written once, what was disabled stays so, keys are fresh after an invalidation, fees follow the rates, premium rates are personal, statistics account for every share |

Each of the 39 properties of the passing runs has a mutant in `PROJECT.json`: a
variant of one definition, as a plausible bug would change it, under which TLC
finds the property violated. The modules state more than the runs check: the
type invariants and the properties named in section 4 without a run.

Bounds. Requests share no state in the settlement, so one is enough there;
`di_payment` has two, because one authorization may be carried by two of them.
Two calls and two faults cover a crash followed by a storage error of the
retry. The longest lock schedule needs three calls (one outlives its TTL, frees
the lock of its successor and lets a third in); `LockExcludes` proves that case
for any number. Three verifications are what two conflicting ones and a third
that repairs or breaks their claims need. The worker has 3 attempts for 5: a
first, a middle and a last one; its 4 executions are all that 3 attempts and one
stall can start. The rates of the ledger in `operations` (33.33 %, 25 %, 5 %) round on amounts
of 3 and 7 as 0.5 % does on real ones. `di_payment` uses one RPC, since the
fallback is checked in `settle`. Two RPC calls suffice for a result that
arrives at a breaker another call has moved; thresholds of 2 tell a count from a
single failure. In `gateway`, two requests are one that authenticated and one
that overtakes it, and three keys are a registration and two rotations. The two
presenters of `payment_flow` are any two of its five kinds; its two losses are a
timeout and a retry that fails as well, and its fault is what strikes the
settlement between the transfer and the answer. In `operations`, a second stream is what finds
or misses the listener set of the first; two polls in flight are an overlap;
three rows are more than one page (`Batch` 2 for 10); three admin calls are a
creation, a dismissal and a change. `MaxFaults` (crashes and storage errors) and
`MaxLost` (lost Redis keys) bound behaviours; the proofs have no such bound.
Handlers terminate and the environment may fall silent, so the runs have no
deadlock check.

Fairness (`settle`): weak fairness of every started handler (Node runs it, and
every await settles: each RPC, Redis and PostgreSQL call has a time limit of its
client library). Nothing is assumed of arrivals, faults, the lock's TTL or the
chain: a pending transaction may stay pending for ever.

Fairness (`confirm_worker`): BullMQ hands out a waiting job and takes a dead
execution's job back, a started execution and the failed handler continue.
Nothing is assumed of the chain or of the lock's TTL.

Fairness (`webhook_delivery`): notify and the worker slots continue, waiting jobs
are handed out, the job of a dead slot is found. The seller may fail every POST.
The body of its answer is assumed to end: `workers/webhook.worker.ts` clears
the 10 s timeout (line 62) before it reads the body (64).

Fairness (`rpc_client`): time passes, calls keep coming and every call that is out
gets a result: by `withTimeout` in `circuit-breaker.ts`; `rpc-circuit-breaker.ts:106`
awaits without one and rests on the time limit of viem's transport. Strong fairness of a live primary's answers says
that it does not revert every call; without it no breaker could ever close.

Fairness (`operations`): PostgreSQL answers a stream's query and Node's timers
fire. Nothing is assumed of events, clients or SUBSCRIBE.

### Disagreements found by a run

* **`settle_race`.** `tests/unit/settle-idempotence.test.ts` says "A confirmed
  settlement is never re-processed". The existing settlement is read before the
  lock is taken and not again under it; a call that read nothing takes the lock
  its predecessor released after confirming, creates a second settlement row
  and submits again. The token contract refuses the second transfer.
* **`verify_retry`.** `verify.service.ts:14` promises that an invalid signature
  releases the nonce "so legitimate retries are not blocked"; the rejected
  verification is stored with its nonce, and the PostgreSQL check refuses that
  nonce whatever the status.

* **`payment_retry`.** When `runVerify` throws, `verify.route.ts:133` answers "An
  internal error occurred. Please retry." It throws when `checkReplayPostgres`
  rejects under the claim (`verify.service.ts:103`) or the reply of the claim is
  lost (96); the nonce key stays, and the client's retry is refused as a
  duplicate of itself.

### Disagreements seen in the source

The models follow the code in all of these; no run is spent on them.

* `settle-payment.ts:45` says "only one concurrent settle per request"; the
  finally block (224-225) deletes the lock again after the catch block did, and
  may delete a later call's. `LockExclusionUntilFailure` states what is left.
* `settle.service.ts:23` and `verify.service.ts:23` say the function "NEVER
  throws". The queries, the lock and the claim before the try block do
  (`LookupThrows` of `SettleService`, `RedisThrows` and `CheckThrows` of
  `VerifyService`), and both routes have a catch for
  it.
* `protocol/anti-replay.ts:22-23` speaks of "bytes32" and "the raw signature
  bytes"; what is compared are strings, and the case of a hex digit makes another
  one. `infrastructure/anti-replay.ts:13` lower-cases its key, and
  `verify-payment.ts:202` stores the nonce as written.
* `settle-payment.ts:220` and `docs/api/error-model.md:115` say "No funds were
  moved." when the settlement failed; a transaction whose receipt was waited for
  in vain may be mined afterwards.
* `settle.service.ts:146` and `settle-payment.ts:143` submit a hash of the
  signature.
* With `autoSettle: false` the middleware (`sdk/src/index.ts:211-215`) serves a
  request for an accepted verification, and nothing settles it.
* The proof types of `sdk/src` (`index.ts:37`, `types.ts:16`) lack fields that the
  verify route requires.
* A rotated key is generated before the awaited write (`sellers.route.ts:119-120`);
  when the reply of the write is lost, the stored key is one that nobody has.
* `getMonthlyVolumeForSeller` filters by `request: { seller }`
  (`referral-service.ts:60`), where `prisma/schema.prisma:98` has `seller` as a
  relation; only a billing report calls it, so no fee depends on a volume.
* `sse.route.ts:74` uses `findUnique` by a column that is not unique.
* `workers/webhook.worker.ts:8` says it updates the delivery's status; its update
  names a column `attempts` (83) where `prisma/schema.prisma:213` has `attempt`,
  so every update is rejected and logged.
* `circuit-breaker.ts:7` and `rpc-circuit-breaker.ts:7` describe one test call in
  HALF-OPEN; any number pass at a time.
* `rpc-failover.ts:49`: `_fallbackUrl` is never assigned.
* `config.ts:59` gives `DEVELOPER_SHARE_BPS` the default 20, which is 0.2 % of
  the fee; `fee-engine.ts:8` and `secrets.ts:44` mean 20 % (2000).
* The confirmation worker's header (line 10) promises to release the lock on
  final failure; only the success path does.
* `network-registry.ts` never reads the database, although `admin.route.ts:5` and
  `:82` say that changes are reloaded within 60 s.
* The key that `POST /device/token` returns is stored nowhere
  (`device-auth.route.ts:128`), so no request can use it.
* `pay()` of both `FacilitatorClient`s sends `{ requestId }` to `/settle`, whose
  schema needs a `verificationId`: it is always answered 400. `pollSettlement`
  waits for `receipt.status`, which no route returns. The client in
  `src/src/sdk` reads the error code from the top of the body, where no route
  puts it.
* The 402 and 409 response schemas of `/settle` drop the error body.
* No route attaches the rate-limit hook; a rotated key starts a new counter.
  `sellerAuthHook` compares the raw key with the stored hash and never
  authenticates. `registerWebhook` and the stream registration are imported by
  names their files do not export.
* The stream's status map has no 'processing'; its 'close' listener is added
  after the subscription, so a client that leaves earlier leaves its callback
  in the set.
* `publishSettlementUpdate`, `getPrivateKey`, `invalidateKeyCache` and the
  registry's `reload` have no caller in the repository.
* An asset is disabled only under the upper-case spelling of its symbol; a PUT
  that moves a network to a taken chain id is answered 404.
* The dashboard stream sends rows once and no later status, and skips rows whose
  id is below one already sent.

## 4. The proofs

Every safety property and every action property that a passing run checks is
proved, for any sets of calls, requests, nonces, signatures, sellers, chains,
streams and presenters, any number of RPCs, keys and rows, and any bound on
faults and lost keys. Assumptions, each named in the module that declares the
constants: the null values are not members of the sets, `Rpcs` and the
thresholds are positive, bounds are naturals, genuine payloads are payloads, the
referral codes are finitely many.

`SettleServiceProofs`: `TypeCorrect`, `RetrySafe`, `ReceiptPaid`,
`AnswersAgree`, `LockExcludes`, `FailureRecorded` (`FailureOnRecord`),
`StatusMatches`, `TerminalKept`. None of the
properties is inductive alone. `IInv` adds, per call, what its place implies of
its row and its transactions (`CallState`), that RPCs beyond the current attempt
saw nothing (`Untried`), that a late call is past the check with a row on record
(`LateState`); per request, that a receipt names a paid settlement past its
transaction (`ReceiptState`) and that an undisturbed lock is held by whoever
works on the request (`LockState`). One lemma per conjunct has one step per
action; `InvStep` puts them together.

`ContractImplemented`, in the same module, is `Spec => ImplementsContract`, with
`moved`, `issued`, `told` mapped to the transferred requests, the receipts and
the settlements that confirmed answers name: `MineMoves`, `CommitIssues`,
`CheckTells` and `ReleaseTells` are the steps of the contract, every other step is
a stutter.

`VerifyServiceProofs`: `TypeCorrect`, `AcceptedKeepsKeys` (`AcceptedKeysKept`), `AnswersStored`,
`ClaimsExclude`, `FailureReleasesNonce`. `IInv` adds `Place` (a call's step
determines its claim's), `Record` (what it stored), and the two
halves of key ownership: `NonceOwned` (a key belongs to a call that will use or
delete it) and `KeysHeld` (a call between its SET and its DEL finds its own key,
so a DEL that looks at no owner never deletes another call's key; this is what
fails once a key is lost).

`ConfirmWorkerProofs`: `TypeCorrect`, `ReceiptsTruthful`, `NothingDropped`,
`FailureDue`, `ConfirmationKept`, for any number of executions, attempts and
stalls. `IInv` adds `Place` (an execution writes what the mined transaction
says), `Budget` (a runnable job has an attempt left), `HandlerDue` (the failed
handler runs after the last attempt) and `Undisturbed` (without a stall or an
unswallowed fault executions do not overlap and none is left that could throw
once the row is confirmed).

`WebhookDeliveryProofs`: `TypeCorrect`, `AuditFirst`, `CompletionTruthful`,
`NoEarlyDeadLetter`, `EventsKept`, for any number of notifications, slots,
attempts and stalls. `IInv` adds `RowFirst` (row before job before slot),
`ReturnedAcked` (a processor returns only after a 2xx), `Budget` (a job that can
run has an attempt left) and `NoRowYet`. `AddJobAdds` says that a notification
leaves either its own job or one about its event.

`FeeProofs`: `PortionBounds` and `SplitBounds` are the arithmetic of basis
points for all integers; `ComputeSound` applies them to `compute`, with
`RateOfTier` (the tier search returns a rate of a live tier, by the
well-foundedness of the naturals). `TypeCorrect`, `FeesRounded`
(`FeesWithinRate`), `PremiumPersonal` and `SharesAccounted` carry that to every
ledger by the invariant that each row is sound and personal, that the shares by
code add up to the shares by row (`ShareSum`), and that no code has more than its
rate of the fees it brought (`ShareRate`). They are about sums, and sums are a
fold of the library. An induction theorem with an operator parameter is not usable,
so `Sums` reaches the two equations of a sum (`SumFacts`) by a minimal
counterexample: of the sets without such a function a smallest one exists
(`MinimalSubset`), and removing an element contradicts that. `TotalAppend` says
what one more settlement does to a sum over the ledger; `SumOfRounded` bounds a sum
of rounded numbers by what is lost per member, and `SumOfSums` adds two sums
member by member.

`DiPaymentProofs`: `OnePaid` (`OneRequestPaid`), `KeysFollow`
(`KeysFollowRows`), `AnswersStored`, for the composition, for any map `Lower` of
spellings to keys. `IInv` has
`VerifyPayment`'s type invariant, `Honest` (what a verification told and stored
by its place), `KeysHeld` (without a fault, who stands between claim and release
finds its own key), `AcceptedOnce` (the UNIQUE columns) and `SettledStored` (a
settle call has taken up a stored request). That of two spellings of one nonce at
most one has moved funds is `OneTransfer`, kept by `TokenStep`. `SettleFrame` reduces every step of
`settlePayment` to what the rest can see of it: it never forgets a fault and
takes up stored requests only.

`LockExcludesUntilFailure` and `ContractImplemented` are the same questions
about `settlePayment` inside the composition. Their invariant `PayInv` differs
from the one of `SettleServiceProofs` where the code does: the finally block
deletes a lock twice, so `LockState` speaks of requests that no failed or late
call and no fault has disturbed (`Disturbed`); `FailState` says where a call
with a failed row stands; and `CallState`, `Untried`, `ReceiptState` and
`AnswerState` allow for a failed settlement that is tried again. `VerifyFrame`
reduces a verification step to what `settlePayment` sees of it.

`OperationsProofs`: the parts of `MCOperations` other than the ledger, and the gateway.
`CallbacksReached` (`ListenersSubscribed`) from `Registered`: callbacks only
under an entry of the map, an entry only with its SUBSCRIBE sent. `FreshKeys`
(`KeyFreshAfterInvalidation`) from `KeyInv`: a cached or fetched key is not
older than the last invalidation unless a fetch raced with it. `WrittenOnce`
(`RowsWrittenOnce`) from `DashInv`: unless a client's polls overlapped or the
ids are out of the table's order, the page in flight is ahead of the last id and
increasing (`Ahead`), and what was written is behind it without a repetition
(`Behind`). `DisabledRowsStay` (`DisabledStaysDisabled`) from `AdminInv`: a call
that has not written yet has no row of its own, and what it asked for is in the
catalogue. `KeyRevocation` (`RevokedStaysRevoked`), `LimitExpires`
(`StuckOnlyAfterFault`), `KeysOnce` (`KeysHandedOutOnce`) and `RequestsStayHome`
(`OthersUntouched`) share `GateInv`. Its part `Owned` says that every key in use
is one that was issued to the seller who holds it, that no seller holds a
revoked key and that keys not made yet belong to nobody; `Handed` says the same
of the keys of devices; `Armed` says that as long as no write failed a stored key
is in its seller's hands.

`EdgeProofs`: `ServedByOne` (`ServedOnce`) and `PaidServed` (`PaidIsServed`) for the
SDK clients. `FlowDrives` says that every step of the flow is a step of
`SettleService` or leaves it alone, so that `FlowSettles` carries that module's
inductive invariant and `FailureOnRecord` over. `FlowInv` adds what the flow knows:
an accepted answer is about the stored verification (`AcceptedStored`), a client
pays only after it was accepted and acts on what it heard (`ClientState`),
`runSettle` works for the accepted request of its caller alone (`SettleState`), an
answer is final and a 500 needs a fault (`ToldState`), and without a fault only a
transaction that was given up belongs to a failed row (`GivenUp`).
`FailuresTrip` (`OutageTrips`) and `LateAttempts`
(`LateAttemptsBounded`) for the breakers, from `RpcInv`: a closed breaker has
counted at least the failures that followed the last success (`Counts`), and the
attempts a call made against an open breaker together with those it still will
make without looking (`Blind`) stay below `MaxRetries` (`Late`, of `overdue`).

Proved and in no run: each `TypeCorrect` (one type invariant per module),
`StatusMatches`, `TerminalKept`, `ComputeSound` and the two bounds it rests on,
`NothingDropped`,
`AuditFirst`, `NoEarlyDeadLetter` and `DiPaymentProofs`' `AnswersStored`.

Only model-checked: the liveness properties (both `ProcessingResolves`, `JobsEnd`,
`BreakerRecovers`, `StreamEnds`), which are out of the prover's reach. The settle
side of `PaymentFlow` is `SettleService` itself; that its verify side is what one
proof sees of `VerifyService` is an argument, not a refinement.

## 5. Plan

1. *Done*: settlement core and its contract; verification core; proofs of both.
2. *Done*: `SettlePayment`, `VerifyPayment` and their composition with proofs;
   `ConfirmWorker`, `FeeLedger`, `WebhookDelivery` with proofs.
3. *Done*: `RpcClient` over both breakers; `Gateway`; `PaymentFlow`; the streams,
   the admin catalogue and the key provider.
4. *Done*: proofs of every safety property of the runs.
5. Left: the composition of `WebhookDelivery` with the events the settle route
   chooses, and a refinement from the verify side of `PaymentFlow` to
   `VerifyService`.

Runs stay small (at most 4 concurrent actors, 1-2 faults).

## 6. Not modelled

* Chain reorganisations and confirmation depth: the code reads one receipt once.
* HTTP, schemas, formatting, logging, metrics, configuration, the clients of
  PostgreSQL and Redis, the wiring of the application: no protocol state.
* Read-only routes (receipts, analytics, dashboard statistics, health, supported,
  discovery, billing, MCP).
* The global rate limit, a plugin; `seller-auth.ts`, whose lookup cannot succeed;
  the legacy stream without Redis.
* Webhook URL, secret and signature helpers: pure functions of one value.
* The network registry in memory (`load`, `reload`), which never changes after its
  start; `getMonthlyVolumeForSeller`, a report.
* Proofs that lack fields the verify route requires: answered 400 before any state.
* The deprecated `checkReplayRedis` and `markReplayUsed`; the legacy use cases,
  which no route reaches and which import stubs.
* Seed, scripts and examples.
