---------------------------- MODULE WorkerMemory ----------------------------
(***************************************************************************)
(* What a gunicorn worker keeps in memory between requests: the limiter of *)
(* RateLimiter and the origins of CorsCache.  A request may use the first  *)
(* (a magic-link start) and then, on the way out, the second; a restart    *)
(* loses both at once.                                                     *)
(***************************************************************************)
EXTENDS Naturals, Sequences, FiniteSets

CONSTANTS Key, Origin, Worker, None, Max, Window, TTL, MaxTime, MaxRestarts

VARIABLES
  now, events, admitted, sent, restarts,
  allowed, changed, cached, expires

Limiter == INSTANCE RateLimiter
Cors == INSTANCE CorsCache

ASSUME ParametersAssumption == Limiter!Parameters /\ Cors!Parameters
ASSUME WorkersAssumption == IsFiniteSet(Worker)   \* WEB_CONCURRENCY of them

limiter_vars == <<events, admitted, sent, restarts>>
cors_vars == <<allowed, changed, cached, expires>>
vars == <<now, limiter_vars, cors_vars>>

-----------------------------------------------------------------------------
Init == Limiter!Init /\ Cors!Init

\* start_magic_link_route calls allow before anything else is written.
StartMagicLink(w) ==
  /\ \E k \in Key : Limiter!Allow(w, k)
  /\ UNCHANGED cors_vars

\* _add_cors_headers, after every response, a 429 included.
AddCorsHeaders(w) ==
  /\ Cors!Load(w)
  /\ UNCHANGED limiter_vars

\* register_app_client, and the operator at the database.
ChangeOrigins ==
  /\ \E o \in Origin : Cors!Register(o) \/ Cors!Withdraw(o)
  /\ UNCHANGED limiter_vars

Restart(w) == Limiter!Restart(w) /\ Cors!Restart(w)

Tick == Limiter!Tick /\ Cors!Tick

Next ==
  \/ Tick \/ ChangeOrigins
  \/ \E w \in Worker : StartMagicLink(w) \/ AddCorsHeaders(w) \/ Restart(w)

Spec == Init /\ [][Next]_vars

-----------------------------------------------------------------------------
(* Properties *)

\* Each part behaves in the worker as it does alone.
LimiterSpec == Limiter!Spec
CorsSpec == Cors!Spec

\* Those of the parts, in the worker.
WindowBudget == Limiter!WindowBudget
OnlyAdmittedCount == Limiter!OnlyAdmittedCount
EffectiveBudget == Limiter!EffectiveBudget
StaleAtMostTTL == Cors!StaleAtMostTTL
=============================================================================
