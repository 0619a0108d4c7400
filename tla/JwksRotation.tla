---------------------------- MODULE JwksRotation ----------------------------
(***************************************************************************)
(* Access tokens across a rotation of the signing key.  Knuckles signs     *)
(* with one key and publishes a list that contains it; its JWKS response   *)
(* may be kept by shared HTTP caches for max-age.  A consuming app         *)
(* verifies tokens locally, with one of two SDKs:                          *)
(*                                                                         *)
(*   Python: JwksVerifier wraps PyJWKClient, which keeps the last key set  *)
(*     for a while, fetches again when a kid is not in it, and keeps every *)
(*     signing key it has resolved as long as the process lives;           *)
(*   TypeScript: createRemoteJWKSet of jose keeps the last key set alone,  *)
(*     fetches again when it is old, or when a kid is not in it and the    *)
(*     last fetch is not too recent.                                       *)
(*                                                                         *)
(* A definition right before the one whose name its own extends is that    *)
(* definition with a fault, for testing the properties.                    *)
(***************************************************************************)
EXTENDS Naturals

CONSTANTS
  Kid,          \* KNUCKLES_JWT_KEY_ID; each key gets a name of its own
  Process,      \* processes of consuming apps
  None,         \* "no value"
  TTL,          \* knuckles_access_token_ttl_seconds, in ticks
  MaxAge,       \* _JWKS_CACHE_MAX_AGE_SECONDS, in ticks
  Lifespan,     \* lifetime of PyJWKClient's key set, in ticks
  CacheMaxAge,  \* lifetime of jose's key set, in ticks
  Cooldown,     \* how long jose does not fetch for a kid after a fetch
  MaxTime       \* bound on the clock

ASSUME TimeAssumption ==
  /\ TTL \in Nat /\ MaxAge \in Nat /\ Lifespan \in Nat /\ MaxTime \in Nat
  /\ CacheMaxAge \in Nat /\ Cooldown \in Nat \ {0}

VARIABLES
  now,        \* the wall clock
  signing,    \* the kid of the deployed key
  published,  \* since when each listed key is listed; its DOMAIN is the list
  retired,    \* when each earlier key was replaced; its DOMAIN is their kids
  tokens,     \* access tokens issued
  edge,       \* the JWKS response a shared HTTP cache holds
  sdk,        \* the SDK each process uses
  jwk_set,    \* the key set of each process
  known,      \* kids whose key a Python process has resolved (cache_keys)
  accepted,   \* history: tokens a Python process has accepted
  answer      \* the verification the last step was, if it was one

knuckles_vars == <<now, signing, published, retired, tokens, sdk>>
vars == <<knuckles_vars, edge, jwk_set, known, accepted, answer>>

-----------------------------------------------------------------------------
AccessToken == [kid : Kid, exp : Nat]
Fetched == [keys : SUBSET Kid, at : Nat]

\* listed, age and overdue are history of the moment of the verification: the
\* key of the token was published; for how long it had been; how long it had
\* been retired.
Answer == [by : Process \cup {None}, token : AccessToken \cup {None},
           verdict : {"none", "ok", "expired", "unknown", "unreachable"},
           listed : BOOLEAN, age : Nat, overdue : Nat]

Unasked == [by |-> None, token |-> None, verdict |-> "none", listed |-> FALSE,
            age |-> 0, overdue |-> 0]

Init ==
  /\ now = 0
  /\ signing \in Kid
  /\ published = [k \in {signing} |-> 0]
  /\ retired = [k \in {} |-> 0]
  /\ tokens = {}
  /\ edge = None
  /\ sdk \in [Process -> {"python", "typescript"}]
  /\ jwk_set = [p \in Process |-> None]
  /\ known = [p \in Process |-> {}]
  /\ accepted = [p \in Process |-> {}]
  /\ answer = Unasked

-----------------------------------------------------------------------------
(* Knuckles *)

\* issue_access_token
Issue ==
  /\ tokens' = tokens \cup {[kid |-> signing, exp |-> now + TTL]}
  /\ answer' = Unasked
  /\ UNCHANGED <<now, signing, published, retired, edge, sdk, jwk_set, known,
                 accepted>>

\* The list of get_published_public_keys becomes keys.
Publish(keys) ==
  published' = [j \in keys |-> IF j \in DOMAIN published THEN published[j] ELSE now]

Retire(k) ==
  retired' = [j \in DOMAIN retired \cup ({signing} \ {k}) |->
                IF j = signing THEN now ELSE retired[j]]

\* A deployment; every worker loads the key anew.  The code as it stands lists
\* the signing key alone, so that a new key replaces the old one on the spot.
\* Its docstring and the documented rotation list further keys for a while,
\* before and after the switch.
DeployUnnamed ==
  /\ signing' = None
  /\ Publish(DOMAIN published)
  /\ Retire(None)
  /\ answer' = Unasked
  /\ UNCHANGED <<now, tokens, edge, sdk, jwk_set, known, accepted>>
Deploy ==
  \E k \in Kid \ DOMAIN retired, others \in SUBSET Kid :
    /\ signing' = k
    /\ Publish(others \cup {k})
    /\ Retire(k)
    /\ answer' = Unasked
    /\ UNCHANGED <<now, tokens, edge, sdk, jwk_set, known, accepted>>

\* get_jwks
Published == DOMAIN published

ExpiredNever(t) == FALSE
Expired(t) == t.exp <= now

-----------------------------------------------------------------------------
(* A consuming app *)

Python(p) == sdk[p] = "python"

\* Cache-Control: public, max-age
EdgeFreshAlways == edge # None
EdgeFresh == edge # None /\ now < edge.at + MaxAge

\* The key set is still used: JWKSetCache of PyJWKClient, fresh() of jose.
SetFresh(p) ==
  /\ jwk_set[p] # None
  /\ IF Python(p) THEN now <= jwk_set[p].at + Lifespan
                  ELSE now < jwk_set[p].at + CacheMaxAge

\* coolingDown() of jose
CoolingDown(p) == jwk_set[p] # None /\ now < jwk_set[p].at + Cooldown

Resolves(p, t) == t.kid \in known[p]
Cached(p, t) == SetFresh(p) /\ t.kid \in jwk_set[p].keys

\* The key has to be fetched.
Fetches(p, t) ==
  /\ ~Resolves(p, t) /\ ~Cached(p, t)
  /\ Python(p) \/ ~SetFresh(p) \/ ~CoolingDown(p)

Listed(t) == t.kid \in Published
Since(history, k) == IF k \in DOMAIN history THEN now - history[k] ELSE 0

Reply(p, t, verdict) ==
  answer' = [by |-> p, token |-> t, verdict |-> verdict, listed |-> Listed(t),
             age |-> Since(published, t.kid), overdue |-> Since(retired, t.kid)]

\* The key of t is there: PyJWKClient remembers it (its cache holds 16 keys, more
\* than a process meets), and the signature and the expiry are checked.
DecodeForgettingKey(p, t) ==
  /\ Reply(p, t, IF Expired(t) THEN "expired" ELSE "ok")
  /\ accepted' = [accepted EXCEPT ![p] = @ \cup
                    {s \in {t} : Python(p) /\ ~Expired(s)}]
  /\ UNCHANGED <<knuckles_vars, known>>
Decode(p, t) ==
  /\ known' = [known EXCEPT ![p] = @ \cup {k \in {t.kid} : Python(p)}]
  /\ Reply(p, t, IF Expired(t) THEN "expired" ELSE "ok")
  /\ accepted' = [accepted EXCEPT ![p] = @ \cup
                    {s \in {t} : Python(p) /\ ~Expired(s)}]
  /\ UNCHANGED knuckles_vars

Fail(p, t, verdict) ==
  /\ Reply(p, t, verdict)
  /\ UNCHANGED <<knuckles_vars, known, accepted>>

VerifyLocally(p, t) ==
  /\ Resolves(p, t) \/ Cached(p, t)
  /\ Decode(p, t)
  /\ UNCHANGED <<edge, jwk_set>>

\* fetch_data of PyJWKClient, reload of jose: straight from Knuckles or from a
\* shared cache on the way, which may keep the response.
Download(p, keys) ==
  /\ jwk_set' = [jwk_set EXCEPT ![p] = [keys |-> keys, at |-> now]]
  /\ IF keys = Published
       THEN edge' \in {edge, [keys |-> keys, at |-> now]}
       ELSE edge' = edge

\* What a fetch can return.
Obtainable == {Published} \cup {keys \in SUBSET Kid : EdgeFresh /\ keys = edge.keys}

VerifyFetched(p, t) ==
  /\ Fetches(p, t)
  /\ \E keys \in Obtainable :
       /\ t.kid \in keys
       /\ Download(p, keys)
  /\ Decode(p, t)

VerifyUnknownKid(p, t) ==
  /\ Fetches(p, t)
  /\ \E keys \in Obtainable :
       /\ t.kid \notin keys
       /\ Download(p, keys)
  /\ Fail(p, t, "unknown")

\* jose has fetched a moment ago, and takes the key set as it is.
VerifyCoolingDown(p, t) ==
  /\ ~Resolves(p, t) /\ ~Cached(p, t) /\ ~Fetches(p, t)
  /\ Fail(p, t, "unknown")
  /\ UNCHANGED <<edge, jwk_set>>

\* The fetch fails.  PyJWKClient drops the key set it had; jose keeps it, and
\* tries again the next time.
VerifyUnreachable(p, t) ==
  /\ Fetches(p, t)
  /\ jwk_set' = IF Python(p) THEN [jwk_set EXCEPT ![p] = None] ELSE jwk_set
  /\ Fail(p, t, "unreachable")
  /\ UNCHANGED edge

\* JwksVerifier.verify, verifyAccessToken
Verify(p, t) ==
  \/ VerifyLocally(p, t) \/ VerifyFetched(p, t) \/ VerifyUnknownKid(p, t)
  \/ VerifyCoolingDown(p, t) \/ VerifyUnreachable(p, t)

\* The process of the app starts anew.
Restart(p) ==
  /\ jwk_set' = [jwk_set EXCEPT ![p] = None]
  /\ known' = [known EXCEPT ![p] = {}]
  /\ accepted' = [accepted EXCEPT ![p] = {}]
  /\ answer' = Unasked
  /\ UNCHANGED <<knuckles_vars, edge>>

Tick ==
  /\ now < MaxTime
  /\ now' = now + 1
  /\ answer' = Unasked
  /\ UNCHANGED <<signing, published, retired, tokens, edge, sdk, jwk_set, known,
                 accepted>>

Next ==
  \/ Issue \/ Deploy \/ Tick
  \/ \E p \in Process : Restart(p) \/ \E t \in tokens : Verify(p, t)

Spec == Init /\ [][Next]_vars

-----------------------------------------------------------------------------
(* Properties *)

\* Every variable keeps its shape.
TypeOK ==
  /\ now \in Nat
  /\ signing \in Kid /\ signing \in DOMAIN published
  /\ DOMAIN published \subseteq Kid /\ published \in [DOMAIN published -> Nat]
  /\ DOMAIN retired \subseteq Kid /\ retired \in [DOMAIN retired -> Nat]
  /\ tokens \subseteq AccessToken
  /\ edge \in Fetched \cup {None}
  /\ sdk \in [Process -> {"python", "typescript"}]
  /\ jwk_set \in [Process -> Fetched \cup {None}]
  /\ known \in [Process -> SUBSET Kid]
  /\ accepted \in [Process -> SUBSET AccessToken]
  /\ answer \in Answer

\* How long a newly listed key may stay unknown to a process.
Lag(p) == IF Python(p) THEN MaxAge ELSE MaxAge + Cooldown

\* A rotation rolls out within max-age: a consumer that can fetch the JWKS calls
\* a token unknown whose key is listed - the current one, or one kept on the
\* list - only if the key was listed less than MaxAge before, and with the
\* TypeScript SDK its cooldown more.
RotationRollsOut ==
  answer.verdict = "unknown" /\ answer.listed => answer.age < Lag(answer.by)

\* A token that a process with the Python SDK has accepted is not refused by it
\* before the token expires, although its key is retired and no longer listed,
\* and although Knuckles cannot be reached.  (The TypeScript SDK refuses such a
\* token as soon as it reloads its key set without the key, or cannot reload it.)
AcceptedStaysAccepted ==
  answer.verdict \in {"unknown", "unreachable"} /\ Python(answer.by) =>
    answer.token \notin accepted[answer.by]

\* A consumer may keep the keys it has resolved for good, but no token outlives
\* its key by TTL: a retired key is of no use once it is retired that long, and
\* need not be listed any longer.
RetiredKeyDies ==
  answer.verdict = "ok" => answer.overdue < TTL
=============================================================================
