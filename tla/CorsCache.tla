------------------------------ MODULE CorsCache ------------------------------
(***************************************************************************)
(* The cache of allowed origins that each worker keeps for strict CORS.    *)
(* is_origin_allowed runs after every request that carries an Origin, and  *)
(* reads the app_clients table only when its copy is missing or expired.   *)
(***************************************************************************)
EXTENDS Naturals

CONSTANTS
  Origin,    \* normalized origins
  Worker,    \* gunicorn sync workers
  None,      \* "no value"
  TTL,       \* _TTL_SECONDS, in ticks
  MaxTime    \* bound on the clock

\* What is assumed of the constants (WorkerMemory assumes it).
Parameters ==
  (\A S \in SUBSET Origin : S # None) /\ TTL \in Nat \ {0} /\ MaxTime \in Nat

VARIABLES
  now,        \* time.monotonic
  allowed,    \* the union of allowed_origins over the committed app clients
  changed,    \* history: when each origin last entered or left it
  cached,     \* _cached of each worker
  expires     \* _cache_expires_at of each worker

vars == <<now, allowed, changed, cached, expires>>

-----------------------------------------------------------------------------
Init ==
  /\ now = 0
  /\ allowed \in SUBSET Origin
  /\ changed = [o \in Origin |-> 0]
  /\ cached = [w \in Worker |-> None]
  /\ expires = [w \in Worker |-> 0]

\* (A definition right before the one whose name its own extends is that
\* definition with a fault, for testing the properties.)
NeedsLoadOnce(w) == cached[w] = None
NeedsLoad(w) == cached[w] = None \/ now >= expires[w]

\* What is_origin_allowed returns; within the lifetime of the copy it changes
\* nothing.
OriginAllowed(w, o) == o \in IF NeedsLoad(w) THEN allowed ELSE cached[w]

\* is_origin_allowed when it has to call _load_allowed_origins.
Load(w) ==
  /\ NeedsLoad(w)
  /\ cached' = [cached EXCEPT ![w] = allowed]
  /\ expires' = [expires EXCEPT ![w] = now + TTL]
  /\ UNCHANGED <<now, allowed, changed>>

\* An app client is registered with an origin that was not allowed yet.
Register(o) ==
  /\ o \notin allowed
  /\ allowed' = allowed \cup {o}
  /\ changed' = [changed EXCEPT ![o] = now]
  /\ UNCHANGED <<now, cached, expires>>

\* The operator withdraws an origin in the database.
Withdraw(o) ==
  /\ o \in allowed
  /\ allowed' = allowed \ {o}
  /\ changed' = [changed EXCEPT ![o] = now]
  /\ UNCHANGED <<now, cached, expires>>

\* A new process imports the module anew.
Restart(w) ==
  /\ cached' = [cached EXCEPT ![w] = None]
  /\ expires' = [expires EXCEPT ![w] = 0]
  /\ UNCHANGED <<now, allowed, changed>>

Tick ==
  /\ now < MaxTime
  /\ now' = now + 1
  /\ UNCHANGED <<allowed, changed, cached, expires>>

Next ==
  \/ Tick
  \/ \E o \in Origin : Register(o) \/ Withdraw(o)
  \/ \E w \in Worker : Restart(w) \/ Load(w)

Spec == Init /\ [][Next]_vars

-----------------------------------------------------------------------------
(* Properties *)

\* Every variable keeps its shape.
TypeOK ==
  /\ now \in Nat
  /\ allowed \subseteq Origin
  /\ changed \in [Origin -> Nat]
  /\ cached \in [Worker -> (SUBSET Origin) \cup {None}]
  /\ expires \in [Worker -> Nat]

\* A response disagrees with the app_clients table about its Origin only
\* while the change is younger than the cache lifetime: a registration is
\* seen, and a withdrawal takes effect, within TTL, however often the worker
\* is asked.
StaleAtMostTTL ==
  \A w \in Worker, o \in Origin :
    OriginAllowed(w, o) # (o \in allowed) => now < changed[o] + TTL
=============================================================================
