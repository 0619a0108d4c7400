----------------------------- MODULE RateLimiter -----------------------------
(***************************************************************************)
(* The sliding-window limiter of POST /v1/auth/magic-link/start.  Each     *)
(* gunicorn worker imports its own RateLimiter, so each has a deque of     *)
(* admission times per key, and loses them when it restarts.  allow() runs *)
(* under a lock and touches nothing else: it is one step.                  *)
(***************************************************************************)
EXTENDS Naturals, Sequences, FiniteSets

CONSTANTS
  Key,          \* bucket keys: app client and lowercased address
  Worker,       \* gunicorn sync workers
  Max,          \* max_requests
  Window,       \* window_seconds, in ticks
  MaxTime,      \* bound on the clock
  MaxRestarts   \* bound on the restarts of workers

\* What is assumed of the constants (WorkerMemory assumes it).
Parameters ==
  Max \in Nat \ {0} /\ Window \in Nat /\ MaxTime \in Nat /\ MaxRestarts \in Nat

VARIABLES
  now,        \* time.monotonic
  events,     \* _events of each worker; an absent deque is an empty one
  admitted,   \* history: times each living worker admitted each key
  sent,       \* history: times any worker ever admitted each key
  restarts    \* history: times workers restarted

vars == <<now, events, admitted, sent, restarts>>

-----------------------------------------------------------------------------
Init ==
  /\ now = 0
  /\ events = [w \in Worker |-> [k \in Key |-> << >>]]
  /\ admitted = events
  /\ sent = [k \in Key |-> << >>]
  /\ restarts = << >>

\* events[0] < cutoff
Outdated(time) == time + Window < now

\* The deque after the popleft loop, which stops at the first recent event.
Trimmed(deque, rest) ==
  \E n \in 0 .. Len(deque) :
    /\ \A i \in 1 .. n : Outdated(deque[i])
    /\ n < Len(deque) => ~Outdated(deque[n + 1])
    /\ rest = SubSeq(deque, n + 1, Len(deque))

\* (A definition right before the one whose name its own extends is that
\* definition with a fault, for testing the properties.)
FullPastMax(deque) == Len(deque) > Max
Full(deque) == Len(deque) >= Max

Suffixes(deque) ==
  {SubSeq(deque, n + 1, Len(deque)) : n \in 0 .. Len(deque)}

RefuseRecording(w, k) ==
  \E rest \in Suffixes(events[w][k]) :
    /\ Trimmed(events[w][k], rest)
    /\ Full(rest)
    /\ events' = [events EXCEPT ![w][k] = Append(rest, now)]
    /\ UNCHANGED <<now, admitted, sent, restarts>>
Refuse(w, k) ==
  \E rest \in Suffixes(events[w][k]) :
    /\ Trimmed(events[w][k], rest)
    /\ Full(rest)
    /\ events' = [events EXCEPT ![w][k] = rest]
    /\ UNCHANGED <<now, admitted, sent, restarts>>

AdmitForgetting(w, k) ==
  \E rest \in Suffixes(events[w][k]) :
    /\ Trimmed(events[w][k], rest)
    /\ ~Full(rest)
    /\ events' = [events EXCEPT ![w][k] = <<now>>]
    /\ admitted' = [admitted EXCEPT ![w][k] = Append(@, now)]
    /\ sent' = [sent EXCEPT ![k] = Append(@, now)]
    /\ UNCHANGED <<now, restarts>>
Admit(w, k) ==
  \E rest \in Suffixes(events[w][k]) :
    /\ Trimmed(events[w][k], rest)
    /\ ~Full(rest)
    /\ events' = [events EXCEPT ![w][k] = Append(rest, now)]
    /\ admitted' = [admitted EXCEPT ![w][k] = Append(@, now)]
    /\ sent' = [sent EXCEPT ![k] = Append(@, now)]
    /\ UNCHANGED <<now, restarts>>

Allow(w, k) == Admit(w, k) \/ Refuse(w, k)

\* A new process imports the module anew.
Restart(w) ==
  /\ Len(restarts) < MaxRestarts
  /\ events' = [events EXCEPT ![w] = [k \in Key |-> << >>]]
  /\ admitted' = [admitted EXCEPT ![w] = [k \in Key |-> << >>]]
  /\ restarts' = Append(restarts, now)
  /\ UNCHANGED <<now, sent>>

Tick ==
  /\ now < MaxTime
  /\ now' = now + 1
  /\ UNCHANGED <<events, admitted, sent, restarts>>

Next ==
  \/ Tick
  \/ \E w \in Worker : Restart(w) \/ \E k \in Key : Allow(w, k)

Spec == Init /\ [][Next]_vars

-----------------------------------------------------------------------------
(* Properties *)

\* Every variable keeps its shape.
TypeOK ==
  /\ now \in Nat
  /\ events \in [Worker -> [Key -> Seq(Nat)]]
  /\ admitted \in [Worker -> [Key -> Seq(Nat)]]
  /\ sent \in [Key -> Seq(Nat)]
  /\ restarts \in Seq(Nat)

\* A process admits at most Max requests of a key in any window: of Max + 1
\* successive admissions the last comes more than Window after the first,
\* whatever was refused or dropped from the deque in between.
WindowBudget ==
  \A w \in Worker, k \in Key :
    LET a == admitted[w][k]
    IN \A i \in DOMAIN a : i + Max \in DOMAIN a => a[i] + Window < a[i + Max]

\* A request is only ever refused for requests that were admitted: the deque
\* is the tail of the admissions, so refused attempts cost nothing.
OnlyAdmittedCount ==
  \A w \in Worker, k \in Key :
    LET a == admitted[w][k]
        e == events[w][k]
    IN /\ Len(e) <= Max
       /\ Len(e) <= Len(a)
       /\ \A i \in DOMAIN e : e[i] = a[Len(a) - Len(e) + i]

\* What the promised budget comes to in a deployment: the mails of a key in a
\* window stay within Max for every worker, and for every restart in it.
DuringWindow(times, start) ==
  {i \in DOMAIN times : start <= times[i] /\ times[i] <= start + Window}
EffectiveBudget ==
  \A k \in Key, start \in 0 .. now :
    Cardinality(DuringWindow(sent[k], start))
      <= Max * (Cardinality(Worker)
                  + Cardinality(DuringWindow(restarts, start)))
=============================================================================
