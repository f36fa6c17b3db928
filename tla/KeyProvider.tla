---------------------------- MODULE KeyProvider ----------------------------
(***************************************************************************)
(* getPrivateKey and invalidateKeyCache                                    *)
(* (src/src/infrastructure/key-provider.ts): the facilitator's key is      *)
(* fetched once and cached.  AWS KMS and Vault are awaited, so calls that  *)
(* find the cache empty fetch concurrently, and an invalidation may come   *)
(* between a fetch and the assignment of what it returned.                 *)
(***************************************************************************)
EXTENDS Naturals

CONSTANTS
  KeyCalls,   \* executions of getPrivateKey
  MaxVersion, \* bound: how often the key is rotated
  Malformed   \* versions that are no 32-byte hex string

VARIABLES
  provider,   \* PRIVATE_KEY_PROVIDER
  version,    \* version of the secret where the provider keeps it
  cached,     \* version in _cachedKey, 0 for null
  where,      \* where[k]: the await call k stands at
  read,       \* read[k]: version the provider handed out, then what k returned
  floor,      \* version of the secret at the last invalidation
  begun,      \* begun[k]: floor when k was called
  raced       \* history: an invalidation met a fetch in flight

vars == <<provider, version, cached, where, read, floor, begun, raced>>

\* login: AppRole.  fetched: the provider's answer is on its way.
Awaits == {"idle", "login", "fetch", "fetched", "returned", "threw"}

\* One type invariant for the whole state.
TypeOK ==
  /\ provider \in {"env", "awskms", "vault"}
  /\ version \in 1..MaxVersion
  /\ cached \in 0..MaxVersion
  /\ where \in [KeyCalls -> Awaits]
  /\ read \in [KeyCalls -> 0..MaxVersion]
  /\ floor \in 0..MaxVersion
  /\ begun \in [KeyCalls -> 0..MaxVersion]
  /\ raced \in BOOLEAN

Init ==
  /\ provider \in {"env", "awskms", "vault"}
  /\ version = 1
  /\ cached = 0
  /\ where = [k \in KeyCalls |-> "idle"]
  /\ read = [k \in KeyCalls |-> 0]
  /\ floor = 0
  /\ begun = [k \in KeyCalls |-> 0]
  /\ raced = FALSE

-----------------------------------------------------------------------------
Goto(k, await) == where' = [where EXCEPT ![k] = await]

\* getPrivateKey finds the key cached.
Cached(k) ==
  /\ where[k] = "idle" /\ cached # 0
  /\ read' = [read EXCEPT ![k] = cached]
  /\ begun' = [begun EXCEPT ![k] = floor]
  /\ Goto(k, "returned")
  /\ UNCHANGED <<provider, version, cached, floor, raced>>

\* The cache is empty and the key is in the environment.
ResolveFromEnv(k) ==
  /\ where[k] = "idle" /\ cached = 0 /\ provider = "env"
  /\ IF version \in Malformed
     THEN Goto(k, "threw") /\ UNCHANGED <<cached, read>>
     ELSE /\ cached' = version
          /\ read' = [read EXCEPT ![k] = version]
          /\ Goto(k, "returned")
  /\ begun' = [begun EXCEPT ![k] = floor]
  /\ UNCHANGED <<provider, version, floor, raced>>

\* The cache is empty: Vault without VAULT_TOKEN logs in first, AWS KMS and
\* Vault are asked.
Resolve(k) ==
  /\ where[k] = "idle" /\ cached = 0 /\ provider # "env"
  /\ begun' = [begun EXCEPT ![k] = floor]
  /\ \/ provider = "vault" /\ Goto(k, "login")
     \/ Goto(k, "fetch")
  /\ UNCHANGED <<provider, version, cached, read, floor, raced>>

LoggedIn(k) ==
  /\ where[k] = "login"
  /\ Goto(k, "fetch")
  /\ UNCHANGED <<provider, version, cached, read, floor, begun, raced>>

\* The provider reads the secret.
Fetch(k) ==
  /\ where[k] = "fetch"
  /\ read' = [read EXCEPT ![k] = version]
  /\ Goto(k, "fetched")
  /\ UNCHANGED <<provider, version, cached, floor, begun, raced>>

\* Faulty variant: the answer is cached before its form is looked at.
CacheAnything(k) ==
  /\ where[k] = "fetched"
  /\ cached' = read[k]
  /\ Goto(k, IF read[k] \in Malformed THEN "threw" ELSE "returned")
  /\ UNCHANGED <<provider, version, read, floor, begun, raced>>

\* The answer has the form of a key: it is cached, whatever happened to the
\* cache meanwhile, and returned.
CacheKey(k) ==
  /\ where[k] = "fetched" /\ read[k] \notin Malformed
  /\ cached' = read[k]
  /\ Goto(k, "returned")
  /\ UNCHANGED <<provider, version, read, floor, begun, raced>>

\* Login or read is refused, or the answer has not the form of a key.
Throws(k) ==
  /\ where[k] \in {"login", "fetch"} \/ (where[k] = "fetched" /\ read[k] \in Malformed)
  /\ Goto(k, "threw")
  /\ UNCHANGED <<provider, version, cached, read, floor, begun, raced>>

\* The operator rotates the secret in Vault.  The other providers take it, or
\* its ciphertext, from the environment the process was started with.
Rotate ==
  /\ provider = "vault"
  /\ version < MaxVersion
  /\ version' = version + 1
  /\ UNCHANGED <<provider, cached, where, read, floor, begun, raced>>

\* invalidateKeyCache, "after a rotation event".
Invalidate ==
  /\ cached' = 0
  /\ floor' = version
  /\ raced' = (raced \/ \E k \in KeyCalls : where[k] = "fetched")
  /\ UNCHANGED <<provider, version, where, read, begun>>

Next ==
  \/ \E k \in KeyCalls :
       \/ Cached(k) \/ ResolveFromEnv(k) \/ Resolve(k) \/ LoggedIn(k)
       \/ Fetch(k) \/ CacheKey(k) \/ Throws(k)
  \/ Rotate \/ Invalidate

-----------------------------------------------------------------------------
(* Properties. *)

\* "Invalidate the cached key (e.g., after a rotation event)": a call made
\* after the invalidation gets a key at least as new as that rotation, unless
\* the invalidation met an answer of the provider on its way, which is cached
\* after it and served until the next one; a malformed secret is never served.
KeyFreshAfterInvalidation ==
  \A k \in KeyCalls : where[k] = "returned" =>
    /\ read[k] >= begun[k] \/ raced
    /\ read[k] \notin Malformed
=============================================================================
