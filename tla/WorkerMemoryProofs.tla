------------------------- MODULE WorkerMemoryProofs -------------------------
(***************************************************************************)
(* WorkerMemory implements each of its parts: every step of a worker is a  *)
(* step of RateLimiter or leaves the limiter alone, and likewise for       *)
(* CorsCache.  What RateLimiterProofs establishes of the limiter therefore *)
(* holds in the worker, for any parameters, and so does the staleness of   *)
(* CorsCache that is proved here.                                          *)
(***************************************************************************)
EXTENDS WorkerMemory, TLAPS

\* The limiter in a worker is RateLimiter.
THEOREM ImplementsLimiter == Spec => LimiterSpec
<1>1. Init => Limiter!Init
  BY DEF Init
<1>2. [Next]_vars => [Limiter!Next]_(Limiter!vars)
  <2> SUFFICES ASSUME [Next]_vars PROVE Limiter!Next \/ UNCHANGED Limiter!vars
    OBVIOUS
  <2>1. CASE UNCHANGED vars
    BY <2>1 DEF vars, limiter_vars, Limiter!vars
  <2>2. CASE Tick
    BY <2>2 DEF Tick, Limiter!Next
  <2>3. CASE ChangeOrigins
    BY <2>3 DEF ChangeOrigins, limiter_vars, Limiter!vars, Cors!Register,
       Cors!Withdraw
  <2>4. ASSUME NEW w \in Worker, StartMagicLink(w)
        PROVE  Limiter!Next
    BY <2>4 DEF StartMagicLink, Limiter!Next
  <2>5. ASSUME NEW w \in Worker, AddCorsHeaders(w)
        PROVE  UNCHANGED Limiter!vars
    BY <2>5 DEF AddCorsHeaders, limiter_vars, Limiter!vars, Cors!Load
  <2>6. ASSUME NEW w \in Worker, Restart(w)
        PROVE  Limiter!Next
    BY <2>6 DEF Restart, Limiter!Next
  <2>7. QED
    BY <2>1, <2>2, <2>3, <2>4, <2>5, <2>6 DEF Next
<1>3. QED
  BY <1>1, <1>2, PTL DEF Spec, LimiterSpec, Limiter!Spec

\* The origins in a worker are a CorsCache.
THEOREM ImplementsCors == Spec => CorsSpec
<1>1. Init => Cors!Init
  BY DEF Init
<1>2. [Next]_vars => [Cors!Next]_(Cors!vars)
  <2> SUFFICES ASSUME [Next]_vars PROVE Cors!Next \/ UNCHANGED Cors!vars
    OBVIOUS
  <2>1. CASE UNCHANGED vars
    BY <2>1 DEF vars, cors_vars, Cors!vars
  <2>2. CASE Tick
    BY <2>2 DEF Tick, Cors!Next
  <2>3. CASE ChangeOrigins
    BY <2>3 DEF ChangeOrigins, Cors!Next
  <2>4. ASSUME NEW w \in Worker, StartMagicLink(w)
        PROVE  UNCHANGED Cors!vars
    BY <2>4 DEF StartMagicLink, cors_vars, Cors!vars, Limiter!Allow,
       Limiter!Admit, Limiter!Refuse
  <2>5. ASSUME NEW w \in Worker, AddCorsHeaders(w)
        PROVE  Cors!Next
    BY <2>5 DEF AddCorsHeaders, Cors!Next
  <2>6. ASSUME NEW w \in Worker, Restart(w)
        PROVE  Cors!Next
    BY <2>6 DEF Restart, Cors!Next
  <2>7. QED
    BY <2>1, <2>2, <2>3, <2>4, <2>5, <2>6 DEF Next
<1>3. QED
  BY <1>1, <1>2, PTL DEF Spec, CorsSpec, Cors!Spec

-----------------------------------------------------------------------------
(* The theorems of the parts, in the worker *)

LimiterProofs == INSTANCE RateLimiterProofs

\* RateLimiter and the copy of it that its proofs extend are the same.
LEMMA WorkerIsLimiter == LimiterProofs!Parameters /\ (Spec => LimiterProofs!Spec)
<1>1. LimiterProofs!Parameters
  BY ParametersAssumption DEF Limiter!Parameters, LimiterProofs!Parameters
<1>2. Limiter!Init => LimiterProofs!Init
  BY DEF Limiter!Init, LimiterProofs!Init
<1>3. [Limiter!Next]_(Limiter!vars) => [LimiterProofs!Next]_(LimiterProofs!vars)
  BY DEF Limiter!Next, LimiterProofs!Next, Limiter!vars, LimiterProofs!vars,
     Limiter!Tick, LimiterProofs!Tick, Limiter!Restart,
     LimiterProofs!Restart, Limiter!Allow, LimiterProofs!Allow,
     Limiter!Admit, LimiterProofs!Admit, Limiter!Refuse,
     LimiterProofs!Refuse, Limiter!Full, LimiterProofs!Full,
     Limiter!Trimmed, LimiterProofs!Trimmed, Limiter!Suffixes,
     LimiterProofs!Suffixes, Limiter!Outdated, LimiterProofs!Outdated
<1>4. QED
  BY <1>1, <1>2, <1>3, ImplementsLimiter, PTL
     DEF LimiterSpec, Limiter!Spec, LimiterProofs!Spec

\* A worker admits at most Max requests of a key in any window.
THEOREM WorkerBudgetKept == Spec => []WindowBudget
<1>1. LimiterProofs!Spec => []LimiterProofs!WindowBudget
  BY WorkerIsLimiter, LimiterProofs!BudgetKept
<1>2. LimiterProofs!WindowBudget => WindowBudget
  BY DEF WindowBudget, Limiter!WindowBudget, LimiterProofs!WindowBudget
<1>3. QED
  BY <1>1, <1>2, WorkerIsLimiter, PTL

\* All workers together admit at most Max requests of a key in a window for
\* each of them and for each restart in the window.
THEOREM WorkersBudgetKept == Spec => []EffectiveBudget
<1>1. LimiterProofs!Spec => []LimiterProofs!EffectiveBudget
  <2>1. LimiterProofs!IsFiniteSet(Worker)
    BY WorkersAssumption DEF IsFiniteSet, LimiterProofs!IsFiniteSet
  <2>2. QED
    BY <2>1, WorkerIsLimiter, LimiterProofs!DeploymentBudget
<1>2. LimiterProofs!EffectiveBudget => EffectiveBudget
  BY DEF EffectiveBudget, Limiter!EffectiveBudget, LimiterProofs!EffectiveBudget,
     Limiter!DuringWindow, LimiterProofs!DuringWindow,
     Limiter!Cardinality, LimiterProofs!Cardinality
<1>3. QED
  BY <1>1, <1>2, WorkerIsLimiter, PTL

\* What a worker refuses does not count against later requests.
THEOREM WorkerRefusalsAreFree == Spec => []OnlyAdmittedCount
<1>1. LimiterProofs!Spec => []LimiterProofs!OnlyAdmittedCount
  BY WorkerIsLimiter, LimiterProofs!RefusalsAreFree
<1>2. LimiterProofs!OnlyAdmittedCount => OnlyAdmittedCount
  BY DEF OnlyAdmittedCount, Limiter!OnlyAdmittedCount,
     LimiterProofs!OnlyAdmittedCount
<1>3. QED
  BY <1>1, <1>2, WorkerIsLimiter, PTL

(***************************************************************************)
(* The staleness of CorsCache, which nothing else is proved of.            *)
(***************************************************************************)

\* Where a copy differs from the table, the table changed after it was made.
CopiesAge ==
  \A w \in Worker, o \in Origin :
    cached[w] # None /\ (o \in cached[w]) # (o \in allowed) =>
      expires[w] <= changed[o] + TTL

\* No copy outlives TTL, and no change lies in the future.
Past ==
  /\ \A w \in Worker : expires[w] <= now + TTL
  /\ \A o \in Origin : changed[o] <= now

CorsInv == Cors!TypeOK /\ CopiesAge /\ Past

\* Whenever the table changes, every copy expires within TTL of the change.
LEMMA ChangeStep ==
  ASSUME CorsInv, NEW o \in Origin, Cors!Register(o) \/ Cors!Withdraw(o)
  PROVE  CorsInv'
<1>1. /\ UNCHANGED <<now, cached, expires>>
      /\ changed' = [changed EXCEPT ![o] = now]
      /\ allowed' \subseteq Origin
      /\ \A p \in Origin \ {o} : (p \in allowed') = (p \in allowed)
  BY DEF Cors!Register, Cors!Withdraw, CorsInv, Cors!TypeOK
<1>2. Cors!TypeOK'
  BY <1>1 DEF CorsInv, Cors!TypeOK
<1>3. CopiesAge'
  <2> SUFFICES ASSUME NEW w \in Worker, NEW p \in Origin,
                      cached[w] # None, (p \in cached[w]) # (p \in allowed')
               PROVE  expires[w] <= changed'[p] + TTL
    BY <1>1 DEF CopiesAge
  <2>1. CASE p = o
    BY <1>1, <2>1 DEF CorsInv, Cors!TypeOK, Past
  <2>2. CASE p # o
    BY <1>1, <2>2 DEF CorsInv, Cors!TypeOK, CopiesAge
  <2>3. QED
    BY <2>1, <2>2
<1>4. Past'
  BY <1>1 DEF CorsInv, Cors!TypeOK, Past
<1>5. QED
  BY <1>2, <1>3, <1>4 DEF CorsInv

\* A copy that is made, dropped, or grows older.
LEMMA CopyStep ==
  ASSUME CorsInv, Cors!Tick \/ \E w \in Worker : Cors!Load(w) \/ Cors!Restart(w)
  PROVE  CorsInv'
<1>0. now \in Nat /\ TTL \in Nat
  BY ParametersAssumption DEF Cors!Parameters, CorsInv, Cors!TypeOK
<1>1. CASE Cors!Tick
  <2>1. now' = now + 1 /\ UNCHANGED <<allowed, changed, cached, expires>>
    BY <1>1 DEF Cors!Tick
  <2>2. QED
    BY <1>0, <2>1 DEF CorsInv, Cors!TypeOK, CopiesAge, Past
<1>2. ASSUME NEW w \in Worker, Cors!Load(w) PROVE CorsInv'
  <2>1. /\ cached' = [cached EXCEPT ![w] = allowed]
        /\ expires' = [expires EXCEPT ![w] = now + TTL]
        /\ UNCHANGED <<now, allowed, changed>>
    BY <1>2 DEF Cors!Load
  <2>2. Cors!TypeOK' /\ Past'
    BY <1>0, <2>1 DEF CorsInv, Cors!TypeOK, Past
  <2>3. CopiesAge'
    BY <2>1 DEF CorsInv, Cors!TypeOK, CopiesAge
  <2>4. QED
    BY <2>2, <2>3 DEF CorsInv
<1>3. ASSUME NEW w \in Worker, Cors!Restart(w) PROVE CorsInv'
  <2>1. /\ cached' = [cached EXCEPT ![w] = None]
        /\ expires' = [expires EXCEPT ![w] = 0]
        /\ UNCHANGED <<now, allowed, changed>>
    BY <1>3 DEF Cors!Restart
  <2>2. Cors!TypeOK' /\ Past'
    BY <1>0, <2>1 DEF CorsInv, Cors!TypeOK, Past
  <2>3. CopiesAge'
    BY <2>1 DEF CorsInv, Cors!TypeOK, CopiesAge
  <2>4. QED
    BY <2>2, <2>3 DEF CorsInv
<1>4. QED
  BY <1>1, <1>2, <1>3

\* CorsInv is an invariant of CorsCache.
LEMMA CorsInvariance == CorsSpec => []CorsInv
<1>1. Cors!Init => CorsInv
  BY ParametersAssumption
     DEF Cors!Parameters, Cors!Init, CorsInv, Cors!TypeOK, CopiesAge, Past
<1>2. ASSUME CorsInv, UNCHANGED Cors!vars PROVE CorsInv'
  BY <1>2 DEF Cors!vars, CorsInv, Cors!TypeOK, CopiesAge, Past
<1>3. CorsInv /\ [Cors!Next]_(Cors!vars) => CorsInv'
  BY <1>2, ChangeStep, CopyStep DEF Cors!Next
<1>4. QED
  BY <1>1, <1>3, PTL DEF CorsSpec, Cors!Spec

\* A worker's CORS answer is wrong only about changes younger than TTL.
THEOREM WorkerStalenessBounded == Spec => []StaleAtMostTTL
<1>1. CorsInv => StaleAtMostTTL
  <2> SUFFICES ASSUME CorsInv, NEW w \in Worker, NEW o \in Origin,
                      Cors!OriginAllowed(w, o) # (o \in allowed)
               PROVE  now < changed[o] + TTL
    BY DEF StaleAtMostTTL, Cors!StaleAtMostTTL
  <2>1. ~Cors!NeedsLoad(w) /\ (o \in cached[w]) # (o \in allowed)
    BY DEF Cors!OriginAllowed
  <2>2. now < expires[w] /\ expires[w] <= changed[o] + TTL
    BY <2>1 DEF Cors!NeedsLoad, CorsInv, Cors!TypeOK, CopiesAge
  <2>3. QED
    BY <2>2, ParametersAssumption DEF Cors!Parameters, CorsInv, Cors!TypeOK
<1>2. QED
  BY <1>1, CorsInvariance, ImplementsCors, PTL
=============================================================================
