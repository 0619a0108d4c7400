-------------------------- MODULE RateLimiterProofs --------------------------
(***************************************************************************)
(* The budget of RateLimiter for any number of keys and workers, any       *)
(* budget and any window.                                                  *)
(*                                                                         *)
(* WindowBudget speaks of all admissions and the limiter only knows the    *)
(* ones in its deque.  What joins them is that the deque is the tail of    *)
(* the admissions, and that whatever it has dropped is older than the      *)
(* window.  Admissions need not be known to be in order for that; they are *)
(* for the budget of all processes together, which comes last.             *)
(***************************************************************************)
EXTENDS RateLimiter, FiniteSetTheorems, TLAPS

\* The deque e of a key whose admissions are a, at time t.
Suffix(a, e) ==
  /\ Len(e) <= Max
  /\ Len(e) <= Len(a)
  /\ \A i \in 1 .. Len(e) : e[i] = a[Len(a) - Len(e) + i]
DroppedAreOld(a, e, t) ==
  \A i \in 1 .. Len(a) - Len(e) : a[i] + Window < t
Spaced(a) ==
  \A i \in 1 .. Len(a) : i + Max <= Len(a) => a[i] + Window < a[i + Max]

DequeInv(a, e, t) ==
  /\ a \in Seq(Nat) /\ e \in Seq(Nat)
  /\ Suffix(a, e) /\ DroppedAreOld(a, e, t) /\ Spaced(a)

Inv ==
  /\ TypeOK
  /\ \A w \in Worker, k \in Key : DequeInv(admitted[w][k], events[w][k], now)

-----------------------------------------------------------------------------
\* The popleft loop drops what has left the window and keeps the rest.
LEMMA TrimKeeps ==
  ASSUME Parameters, now \in Nat, NEW a, NEW e, NEW rest,
         DequeInv(a, e, now), Trimmed(e, rest)
  PROVE  DequeInv(a, rest, now)
<1>1. PICK n \in 0 .. Len(e) :
        /\ \A i \in 1 .. n : Outdated(e[i])
        /\ rest = SubSeq(e, n + 1, Len(e))
  BY DEF Trimmed
<1>2. /\ rest \in Seq(Nat)
      /\ Len(rest) = Len(e) - n
      /\ \A i \in 1 .. Len(e) - n : rest[i] = e[n + i]
      /\ Len(a) \in Nat /\ Len(e) \in Nat /\ Len(rest) \in Nat
  BY <1>1 DEF DequeInv
<1>3. Suffix(a, rest)
  <2>1. Len(rest) <= Max /\ Len(rest) <= Len(a)
    BY <1>1, <1>2 DEF DequeInv, Suffix, Parameters
  <2>2. ASSUME NEW i \in 1 .. Len(rest)
        PROVE  rest[i] = a[Len(a) - Len(rest) + i]
    <3>1. n \in Nat /\ i \in Nat /\ i \in 1 .. Len(e) - n /\ n + i \in 1 .. Len(e)
      BY <1>1, <1>2
    <3>2. rest[i] = e[n + i]
      BY <1>2, <3>1
    <3>3. Len(a) - Len(e) + (n + i) = Len(a) - Len(rest) + i
      BY <1>2, <3>1
    <3>4. e[n + i] = a[Len(a) - Len(e) + (n + i)]
      BY <3>1 DEF DequeInv, Suffix
    <3>5. QED
      BY <3>2, <3>3, <3>4
  <2>3. QED
    BY <2>1, <2>2 DEF Suffix
<1>4. DroppedAreOld(a, rest, now)
  <2> SUFFICES ASSUME NEW i \in 1 .. Len(a) - Len(rest)
               PROVE  a[i] + Window < now
    BY DEF DroppedAreOld
  <2>1. CASE i <= Len(a) - Len(e)
    BY <2>1 DEF DequeInv, DroppedAreOld
  <2>2. CASE i > Len(a) - Len(e)
    <3> DEFINE j == i - (Len(a) - Len(e))
    <3>1. j \in 1 .. n
      BY <1>1, <1>2, <2>2 DEF DequeInv
    <3>2. e[j] = a[i]
      <4>1. j \in 1 .. Len(e) /\ Len(a) - Len(e) + j = i
        BY <1>1, <3>1 DEF DequeInv
      <4>2. e[j] = a[Len(a) - Len(e) + j]
        BY <4>1 DEF DequeInv, Suffix
      <4>3. QED
        BY <4>1, <4>2
    <3>3. QED
      BY <1>1, <3>1, <3>2 DEF Outdated
  <2>3. QED
    BY <2>1, <2>2 DEF DequeInv
<1>5. QED
  BY <1>2, <1>3, <1>4 DEF DequeInv

\* An admission goes to the end of both, and its predecessor by Max places
\* has been dropped, for the deque is not full.
LEMMA AdmitKeeps ==
  ASSUME Parameters, now \in Nat, NEW a, NEW e,
         DequeInv(a, e, now), ~Full(e)
  PROVE  DequeInv(Append(a, now), Append(e, now), now)
<1> DEFINE b == Append(a, now)
           f == Append(e, now)
<1>1. /\ b \in Seq(Nat) /\ f \in Seq(Nat)
      /\ Len(b) = Len(a) + 1 /\ Len(f) = Len(e) + 1
      /\ \A i \in 1 .. Len(a) : b[i] = a[i]
      /\ \A i \in 1 .. Len(e) : f[i] = e[i]
      /\ b[Len(a) + 1] = now /\ f[Len(e) + 1] = now
      /\ Len(a) \in Nat /\ Len(e) \in Nat
  BY DEF DequeInv
<1>2. Len(e) < Max /\ Max \in Nat
  BY <1>1 DEF Full, Parameters
<1> HIDE DEF b, f
<1>3. Suffix(b, f)
  <2>1. Len(f) <= Max /\ Len(f) <= Len(b) /\ Len(b) - Len(f) = Len(a) - Len(e)
    BY <1>1, <1>2 DEF DequeInv, Suffix
  <2>2. ASSUME NEW i \in 1 .. Len(f)
        PROVE  f[i] = b[Len(b) - Len(f) + i]
    <3>1. CASE i <= Len(e)
      <4>1. /\ i \in 1 .. Len(e)
            /\ Len(a) - Len(e) + i \in 1 .. Len(a)
            /\ Len(b) - Len(f) + i = Len(a) - Len(e) + i
        BY <1>1, <2>1, <3>1
      <4>2. e[i] = a[Len(a) - Len(e) + i]
        BY <4>1 DEF DequeInv, Suffix
      <4>3. QED
        BY <1>1, <4>1, <4>2
    <3>2. CASE i = Len(e) + 1
      <4>1. Len(b) - Len(f) + i = Len(a) + 1
        BY <1>1, <2>1, <3>2
      <4>2. QED
        BY <1>1, <3>2, <4>1
    <3>3. QED
      BY <1>1, <3>1, <3>2
  <2>3. QED
    BY <2>1, <2>2 DEF Suffix
<1>4. DroppedAreOld(b, f, now)
  <2> SUFFICES ASSUME NEW i \in 1 .. Len(b) - Len(f)
               PROVE  b[i] + Window < now
    BY DEF DroppedAreOld
  <2>1. i \in 1 .. Len(a) - Len(e) /\ i \in 1 .. Len(a)
    BY <1>1
  <2>2. a[i] + Window < now /\ b[i] = a[i]
    BY <1>1, <2>1 DEF DequeInv, DroppedAreOld
  <2>3. QED
    BY <2>2
<1>5. Spaced(b)
  <2> SUFFICES ASSUME NEW i \in 1 .. Len(b), i + Max <= Len(b)
               PROVE  b[i] + Window < b[i + Max]
    BY DEF Spaced
  <2>1. CASE i + Max <= Len(a)
    <3>1. i \in 1 .. Len(a) /\ i + Max \in 1 .. Len(a)
      BY <1>1, <1>2, <2>1
    <3>2. a[i] + Window < a[i + Max]
      BY <2>1, <3>1 DEF DequeInv, Spaced
    <3>3. b[i] = a[i] /\ b[i + Max] = a[i + Max]
      BY <1>1, <3>1
    <3>4. QED
      BY <3>2, <3>3
  <2>2. CASE i + Max = Len(a) + 1
    <3>1. i \in 1 .. Len(a) - Len(e) /\ i \in 1 .. Len(a)
      BY <1>1, <1>2, <2>2 DEF Parameters
    <3>2. a[i] + Window < now
      BY <3>1 DEF DequeInv, DroppedAreOld
    <3>3. b[i] = a[i] /\ b[i + Max] = now
      BY <1>1, <2>2, <3>1
    <3>4. QED
      BY <3>2, <3>3
  <2>3. i + Max <= Len(a) \/ i + Max = Len(a) + 1
    <3>1. i \in Nat /\ Len(a) \in Nat /\ Len(b) = Len(a) + 1 /\ i + Max <= Len(b)
      BY <1>1
    <3>2. QED
      BY <1>2, <3>1
  <2>4. QED
    BY <2>1, <2>2, <2>3
<1>6. QED
  BY <1>1, <1>3, <1>4, <1>5 DEF DequeInv, b, f
-----------------------------------------------------------------------------
\* What EXCEPT does two levels down.
LEMMA NestedExcept ==
  ASSUME NEW S, NEW F \in [Worker -> [Key -> S]], NEW w \in Worker, NEW k \in Key,
         NEW x \in S
  PROVE  LET G == [F EXCEPT ![w][k] = x]
         IN /\ G \in [Worker -> [Key -> S]]
            /\ G[w][k] = x
            /\ \A v \in Worker, c \in Key : v # w \/ c # k => G[v][c] = F[v][c]
OBVIOUS

\* Inv is kept by a step that changes the deque and the admissions of one key
\* at one worker, and lets no time pass.
LEMMA AllowKeeps ==
  ASSUME Parameters, Inv, NEW w \in Worker, NEW k \in Key, Allow(w, k)
  PROVE  Inv'
<1> DEFINE a == admitted[w][k]
           e == events[w][k]
<1>0. DequeInv(a, e, now) /\ now \in Nat
  BY DEF Inv, TypeOK
<1>1. CASE Admit(w, k)
  <2>1. PICK rest \in Suffixes(e) :
          /\ Trimmed(e, rest)
          /\ ~Full(rest)
          /\ events' = [events EXCEPT ![w][k] = Append(rest, now)]
          /\ admitted' = [admitted EXCEPT ![w][k] = Append(@, now)]
          /\ sent' = [sent EXCEPT ![k] = Append(@, now)]
          /\ UNCHANGED <<now, restarts>>
    BY <1>1, Zenon DEF Admit
  <2>2. DequeInv(Append(a, now), Append(rest, now), now)
    BY <1>0, <2>1, TrimKeeps, AdmitKeeps
  <2> DEFINE b == Append(a, now)
             f == Append(rest, now)
  <2>3. /\ b \in Seq(Nat) /\ f \in Seq(Nat) /\ Append(sent[k], now) \in Seq(Nat)
        /\ DequeInv(b, f, now)
    BY <1>0, <2>2 DEF DequeInv, Inv, TypeOK
  <2>4. /\ events' = [events EXCEPT ![w][k] = f]
        /\ admitted' = [admitted EXCEPT ![w][k] = b]
    BY <2>1
  <2> HIDE DEF b, f
  <2>5. /\ events' \in [Worker -> [Key -> Seq(Nat)]] /\ events'[w][k] = f
        /\ \A v \in Worker, c \in Key :
             v # w \/ c # k => events'[v][c] = events[v][c]
    BY <2>3, <2>4, NestedExcept DEF Inv, TypeOK
  <2>6. /\ admitted' \in [Worker -> [Key -> Seq(Nat)]] /\ admitted'[w][k] = b
        /\ \A v \in Worker, c \in Key :
             v # w \/ c # k => admitted'[v][c] = admitted[v][c]
    BY <2>3, <2>4, NestedExcept DEF Inv, TypeOK
  <2>7. sent' \in [Key -> Seq(Nat)]
    BY <2>1, <2>3 DEF Inv, TypeOK
  <2>8. TypeOK'
    BY <2>1, <2>5, <2>6, <2>7 DEF Inv, TypeOK
  <2>9. ASSUME NEW v \in Worker, NEW c \in Key
        PROVE  DequeInv(admitted'[v][c], events'[v][c], now')
    BY <2>1, <2>3, <2>5, <2>6 DEF Inv
  <2>10. QED
    BY <2>8, <2>9 DEF Inv
<1>2. CASE Refuse(w, k)
  <2>1. PICK rest : /\ Trimmed(e, rest)
                    /\ events' = [events EXCEPT ![w][k] = rest]
                    /\ UNCHANGED <<now, admitted, sent, restarts>>
    BY <1>2 DEF Refuse
  <2>2. DequeInv(a, rest, now)
    BY <1>0, <2>1, TrimKeeps
  <2>3. rest \in Seq(Nat)
    BY <2>2 DEF DequeInv
  <2>4. QED
    BY <2>1, <2>2, <2>3 DEF Inv, TypeOK
<1>3. QED
  BY <1>1, <1>2 DEF Allow

\* A restart empties both, and time only makes what was dropped older.
LEMMA Inductive ==
  ASSUME Parameters
  PROVE  /\ Init => Inv
         /\ Inv /\ [Next]_vars => Inv'
<1>1. \A t \in Nat : DequeInv(<< >>, << >>, t)
  BY DEF Parameters, DequeInv, Suffix, DroppedAreOld, Spaced
<1>2. Init => Inv
  BY <1>1 DEF Init, Inv, TypeOK
<1>3. ASSUME Inv, NEW w \in Worker, Restart(w) PROVE Inv'
  <2>1. /\ events' = [events EXCEPT ![w] = [k \in Key |-> << >>]]
        /\ admitted' = [admitted EXCEPT ![w] = [k \in Key |-> << >>]]
        /\ restarts' = Append(restarts, now)
        /\ UNCHANGED <<now, sent>>
    BY <1>3 DEF Restart
  <2>2. TypeOK'
    BY <1>3, <2>1 DEF Inv, TypeOK
  <2>3. ASSUME NEW v \in Worker, NEW k \in Key
        PROVE  DequeInv(admitted'[v][k], events'[v][k], now')
    BY <1>1, <1>3, <2>1 DEF Inv, TypeOK
  <2>4. QED
    BY <2>2, <2>3 DEF Inv
<1>4. ASSUME Inv, Tick PROVE Inv'
  <2>1. TypeOK' /\ now \in Nat /\ now' = now + 1
    BY <1>4 DEF Inv, TypeOK, Tick
  <2>2. ASSUME NEW a, NEW e, DequeInv(a, e, now) PROVE DequeInv(a, e, now + 1)
    BY <2>1, <2>2 DEF DequeInv, DroppedAreOld, Parameters
  <2>3. QED
    BY <1>4, <2>1, <2>2 DEF Inv, Tick
<1>5. ASSUME Inv, UNCHANGED vars PROVE Inv'
  BY <1>5 DEF Inv, TypeOK, vars
<1>6. QED
  BY <1>2, <1>3, <1>4, <1>5, AllowKeeps DEF Next

-----------------------------------------------------------------------------
LEMMA InvHolds ==
  ASSUME Parameters
  PROVE  Spec => []Inv
  BY Inductive, PTL DEF Spec

\* TypeOK for every value of the constants.
THEOREM TypeCorrect ==
  ASSUME Parameters
  PROVE  Spec => []TypeOK
<1>1. Inv => TypeOK
  BY DEF Inv
<1>2. QED
  BY <1>1, InvHolds, PTL

\* A process admits at most Max requests of a key in any window.
THEOREM BudgetKept ==
  ASSUME Parameters
  PROVE  Spec => []WindowBudget
<1>1. Inv => WindowBudget
  <2> SUFFICES ASSUME Inv, NEW w \in Worker, NEW k \in Key,
                      NEW i \in DOMAIN admitted[w][k],
                      i + Max \in DOMAIN admitted[w][k]
               PROVE  admitted[w][k][i] + Window < admitted[w][k][i + Max]
    BY DEF WindowBudget
  <2>1. admitted[w][k] \in Seq(Nat) /\ Spaced(admitted[w][k])
    BY DEF Inv, DequeInv
  <2>2. QED
    BY <2>1 DEF Spaced
<1>2. QED
  BY <1>1, InvHolds, PTL

\* The deque is the tail of the admissions: refused attempts cost nothing.
THEOREM RefusalsAreFree ==
  ASSUME Parameters
  PROVE  Spec => []OnlyAdmittedCount
<1>1. Inv => OnlyAdmittedCount
  <2> SUFFICES ASSUME Inv, NEW w \in Worker, NEW k \in Key
               PROVE  /\ Len(events[w][k]) <= Max
                      /\ Len(events[w][k]) <= Len(admitted[w][k])
                      /\ \A i \in DOMAIN events[w][k] :
                           events[w][k][i] =
                             admitted[w][k][Len(admitted[w][k])
                                              - Len(events[w][k]) + i]
    BY DEF OnlyAdmittedCount
  <2>1. events[w][k] \in Seq(Nat) /\ Suffix(admitted[w][k], events[w][k])
    BY DEF Inv, DequeInv
  <2>2. DOMAIN events[w][k] = 1 .. Len(events[w][k])
    BY <2>1
  <2>3. QED
    BY <2>1, <2>2, Zenon DEF Suffix
<1>2. QED
  BY <1>1, InvHolds, PTL

(***************************************************************************)
(* The budget of a deployment: Max for every worker and every restart.     *)
(*                                                                         *)
(* An admission is charged to the process that made it as long as that     *)
(* process lives, which has charged at most Max to any window, and to the  *)
(* restart that ended it afterwards.  Once a window is over, nothing is    *)
(* added to it and its account is closed.                                  *)
(***************************************************************************)

\* The admissions of a process come in the order of time.
Ordered(a, t) ==
  \A i \in 1 .. Len(a) :
    a[i] <= t /\ \A j \in 1 .. Len(a) : i <= j => a[i] <= a[j]

\* Those of a key in a window, of the processes that are alive.
OfWorker(w, k, start) == {w} \X DuringWindow(admitted[w][k], start)
Alive(k, start) == UNION {OfWorker(w, k, start) : w \in Worker}

SentIn(k, start) == Cardinality(DuringWindow(sent[k], start))
RestartsIn(start) == Cardinality(DuringWindow(restarts, start))

Charged(k, start) ==
  IF now <= start + Window
    THEN SentIn(k, start) <= Cardinality(Alive(k, start)) + Max * RestartsIn(start)
    ELSE SentIn(k, start) <= Max * (Cardinality(Worker) + RestartsIn(start))

OrderInv ==
  /\ \A w \in Worker, k \in Key : Ordered(admitted[w][k], now)
  /\ \A k \in Key : \A i \in 1 .. Len(sent[k]) : sent[k][i] <= now

BudgetInv == OrderInv /\ \A k \in Key, start \in 0 .. now : Charged(k, start)

-----------------------------------------------------------------------------
\* What falls into a window is a finite set of places.
LEMMA WindowFinite ==
  ASSUME NEW s \in Seq(Nat), NEW start \in Nat
  PROVE  /\ DuringWindow(s, start) \subseteq 1 .. Len(s)
         /\ DuringWindow(s, start) \subseteq Nat
         /\ IsFiniteSet(DuringWindow(s, start))
         /\ Cardinality(DuringWindow(s, start)) \in Nat
<1>1. DuringWindow(s, start) \subseteq 1 .. Len(s) /\ Len(s) \in Nat
  BY DEF DuringWindow
<1>2. IsFiniteSet(1 .. Len(s))
  BY <1>1, FS_Interval
<1>3. IsFiniteSet(DuringWindow(s, start))
  BY <1>1, <1>2, FS_Subset
<1>4. QED
  BY <1>1, <1>3, FS_CardinalityType

\* What happens now is one more place in the windows that are open.
LEMMA WindowAppend ==
  ASSUME Parameters, NEW s \in Seq(Nat), NEW start \in Nat, NEW t \in Nat,
         start <= t
  PROVE  /\ DuringWindow(Append(s, t), start) =
              IF t <= start + Window THEN DuringWindow(s, start) \cup {Len(s) + 1}
                                     ELSE DuringWindow(s, start)
         /\ Len(s) + 1 \notin DuringWindow(s, start)
         /\ Cardinality(DuringWindow(Append(s, t), start)) =
              IF t <= start + Window THEN Cardinality(DuringWindow(s, start)) + 1
                                     ELSE Cardinality(DuringWindow(s, start))
<1> DEFINE b == Append(s, t)
<1>1. /\ b \in Seq(Nat) /\ Len(s) \in Nat /\ Len(b) = Len(s) + 1
      /\ b[Len(s) + 1] = t
      /\ \A i \in 1 .. Len(s) : b[i] = s[i]
      /\ DOMAIN b = 1 .. Len(s) + 1 /\ DOMAIN s = 1 .. Len(s)
  OBVIOUS
<1> HIDE DEF b
<1>2. Len(s) + 1 \notin DuringWindow(s, start)
  BY <1>1 DEF DuringWindow
<1>3. DuringWindow(b, start) =
        IF t <= start + Window THEN DuringWindow(s, start) \cup {Len(s) + 1}
                               ELSE DuringWindow(s, start)
  <2>1. \A i \in 1 .. Len(s) :
          i \in DuringWindow(b, start) <=> i \in DuringWindow(s, start)
    BY <1>1 DEF DuringWindow
  <2>2. Len(s) + 1 \in DuringWindow(b, start) <=> t <= start + Window
    BY <1>1 DEF DuringWindow
  <2>3. /\ DuringWindow(b, start) \subseteq 1 .. Len(s) + 1
        /\ DuringWindow(s, start) \subseteq 1 .. Len(s)
        /\ \A i \in 1 .. Len(s) + 1 : i \in 1 .. Len(s) \/ i = Len(s) + 1
    BY <1>1 DEF DuringWindow
  <2>4. CASE t <= start + Window
    BY <2>1, <2>2, <2>3, <2>4
  <2>5. CASE ~(t <= start + Window)
    <3>1. \A i \in DuringWindow(b, start) : i \in 1 .. Len(s)
      BY <2>2, <2>3, <2>5
    <3>2. DuringWindow(b, start) = DuringWindow(s, start)
      BY <2>1, <2>3, <3>1
    <3>3. QED
      BY <2>5, <3>2
  <2>6. QED
    BY <2>4, <2>5
<1>4. IsFiniteSet(DuringWindow(s, start))
  BY WindowFinite
<1>5. QED
  BY <1>2, <1>3, <1>4, FS_AddElement DEF b

\* Numbers with the same remainder are a divisor apart.
LEMMA Residues ==
  ASSUME NEW m \in Nat \ {0}, NEW i \in Nat, NEW j \in Nat, i < j,
         i % m = j % m
  PROVE  i + m <= j
<1>1. PICK p \in Int : p = i \div m
  OBVIOUS
<1>2. PICK q \in Int : q = j \div m
  OBVIOUS
<1>3. i = m * p + (i % m) /\ j = m * q + (j % m) /\ (i % m) \in Int
  BY <1>1, <1>2
<1>4. j - i = m * (q - p)
  BY <1>3
<1>5. q - p > 0
  BY <1>4
<1>6. m * (q - p) >= m
  BY <1>5
<1>7. QED
  BY <1>4, <1>6

\* Two admissions of a process in one window differ in their number modulo Max.
LEMMA SlotsDistinct ==
  ASSUME Parameters, NEW a \in Seq(Nat), Spaced(a), NEW t, Ordered(a, t),
         NEW start \in Nat,
         NEW i \in DuringWindow(a, start), NEW j \in DuringWindow(a, start)
  PROVE  i % Max = j % Max => i = j
<1>1. Max \in Nat \ {0} /\ Window \in Nat
  BY DEF Parameters
<1>2. ASSUME NEW x \in DuringWindow(a, start), NEW y \in DuringWindow(a, start),
             x < y, x % Max = y % Max
      PROVE  FALSE
  <2>1. /\ x \in 1 .. Len(a) /\ y \in 1 .. Len(a) /\ Len(a) \in Nat
        /\ start <= a[x] /\ a[y] <= start + Window
        /\ a[x] \in Nat /\ a[y] \in Nat
    BY DEF DuringWindow
  <2>2. x + Max <= y
    <3>1. x \in Nat /\ y \in Nat
      BY <2>1
    <3>2. QED
      BY <1>1, <1>2, <3>1, Residues
  <2>3. x + Max \in 1 .. Len(a)
    BY <1>1, <2>1, <2>2
  <2>4. a[x] + Window < a[x + Max] /\ a[x + Max] <= a[y] /\ a[x + Max] \in Nat
    BY <2>1, <2>2, <2>3 DEF Spaced, Ordered
  <2>5. PICK p \in Nat, q \in Nat, r \in Nat : p = a[x] /\ q = a[x + Max] /\ r = a[y]
    BY <2>1, <2>4
  <2>6. start <= p /\ r <= start + Window /\ p + Window < q /\ q <= r
    BY <2>1, <2>4, <2>5
  <2>7. QED
    BY <1>1, <2>6
<1>3. i \in Nat /\ j \in Nat
  BY WindowFinite
<1>4. QED
  BY <1>2, <1>3

\* A process charges at most Max admissions to a window.
LEMMA OfWorkerBound ==
  ASSUME Parameters, Inv, OrderInv, NEW w \in Worker, NEW k \in Key,
         NEW start \in Nat
  PROVE  /\ IsFiniteSet(OfWorker(w, k, start))
         /\ Cardinality(OfWorker(w, k, start)) \in Nat
         /\ Cardinality(OfWorker(w, k, start)) <= Max
<1> DEFINE B == OfWorker(w, k, start)
           f == [p \in B |-> p[2] % Max]
<1>1. /\ Max \in Nat \ {0}
      /\ admitted[w][k] \in Seq(Nat)
      /\ Spaced(admitted[w][k]) /\ Ordered(admitted[w][k], now)
  BY DEF Parameters, Inv, DequeInv, OrderInv
<1>2. \A p \in B : /\ p = <<w, p[2]>>
                   /\ p[2] \in DuringWindow(admitted[w][k], start)
                   /\ p[2] \in Nat
  BY <1>1, WindowFinite DEF OfWorker
<1>3. f \in [B -> 0 .. Max - 1]
  BY <1>1, <1>2
<1>4. ASSUME NEW p \in B, NEW q \in B, f[p] = f[q] PROVE p = q
  <2>1. p[2] % Max = q[2] % Max
    BY <1>4
  <2>2. p[2] = q[2]
    BY <1>1, <1>2, <2>1, SlotsDistinct
  <2>3. QED
    BY <1>2, <2>2
<1>5. f \in Injection(B, 0 .. Max - 1)
  BY <1>3, <1>4 DEF Injection, IsInjective
<1>6. IsFiniteSet(0 .. Max - 1) /\ Cardinality(0 .. Max - 1) = Max
  BY <1>1, FS_Interval
<1> HIDE DEF B, f
<1>7. IsFiniteSet(B) /\ Cardinality(B) <= Max
  BY <1>5, <1>6, FS_Injection
<1>8. QED
  BY <1>7, FS_CardinalityType DEF B

\* All processes together charge at most Max for each worker.
LEMMA AliveBound ==
  ASSUME Parameters, IsFiniteSet(Worker), Inv, OrderInv, NEW k \in Key,
         NEW start \in Nat
  PROVE  /\ IsFiniteSet(Alive(k, start))
         /\ Cardinality(Alive(k, start)) \in Nat
         /\ Cardinality(Alive(k, start)) <= Max * Cardinality(Worker)
<1> DEFINE A == Alive(k, start)
           T == Worker \X (0 .. Max - 1)
           f == [p \in A |-> <<p[1], p[2] % Max>>]
<1>1. /\ Max \in Nat \ {0}
      /\ \A w \in Worker : /\ admitted[w][k] \in Seq(Nat)
                           /\ Spaced(admitted[w][k])
                           /\ Ordered(admitted[w][k], now)
  BY DEF Parameters, Inv, DequeInv, OrderInv
<1>2. ASSUME NEW p \in A
      PROVE  /\ p = <<p[1], p[2]>> /\ p[1] \in Worker
             /\ p[2] \in DuringWindow(admitted[p[1]][k], start)
             /\ p[2] \in Nat
  <2>1. PICK w \in Worker : p \in {w} \X DuringWindow(admitted[w][k], start)
    BY DEF Alive, OfWorker
  <2>2. p = <<p[1], p[2]>> /\ p[1] = w
        /\ p[2] \in DuringWindow(admitted[w][k], start)
    BY <2>1
  <2>3. QED
    BY <1>1, <2>2, WindowFinite
<1>3. f \in [A -> T]
  BY <1>1, <1>2
<1>4. ASSUME NEW p \in A, NEW q \in A, f[p] = f[q] PROVE p = q
  <2>1. p[1] = q[1] /\ p[2] % Max = q[2] % Max
    BY <1>4
  <2>2. p[2] = q[2]
    BY <1>1, <1>2, <2>1, SlotsDistinct
  <2>3. QED
    BY <1>2, <2>1, <2>2
<1>5. f \in Injection(A, T)
  BY <1>3, <1>4 DEF Injection, IsInjective
<1>6. IsFiniteSet(0 .. Max - 1) /\ Cardinality(0 .. Max - 1) = Max
  BY <1>1, FS_Interval
<1>7. IsFiniteSet(T) /\ Cardinality(T) = Cardinality(Worker) * Max
  BY <1>6, FS_Product
<1> HIDE DEF A, T, f
<1>8. IsFiniteSet(A) /\ Cardinality(A) <= Cardinality(T)
  BY <1>5, <1>7, FS_Injection
<1>9. Cardinality(A) \in Nat /\ Cardinality(Worker) \in Nat
  BY <1>8, FS_CardinalityType
<1>10. QED
  BY <1>1, <1>7, <1>8, <1>9 DEF A

-----------------------------------------------------------------------------
\* Time runs forward: what is admitted now comes last.
LEMMA OrderKept ==
  ASSUME Parameters, Inv, OrderInv, Next
  PROVE  OrderInv'
<1>1. ASSUME NEW a \in Seq(Nat), NEW t \in Nat, Ordered(a, t)
      PROVE  Ordered(a, t + 1) /\ Ordered(Append(a, t), t)
  <2> DEFINE b == Append(a, t)
  <2>1. /\ b \in Seq(Nat) /\ Len(b) = Len(a) + 1 /\ Len(a) \in Nat
        /\ b[Len(a) + 1] = t
        /\ \A i \in 1 .. Len(a) : b[i] = a[i] /\ a[i] \in Nat
        /\ \A i \in 1 .. Len(a) + 1 : i \in 1 .. Len(a) \/ i = Len(a) + 1
    OBVIOUS
  <2> HIDE DEF b
  <2>2. Ordered(a, t + 1)
    BY <1>1, <2>1 DEF Ordered
  <2>3. ASSUME NEW i \in 1 .. Len(b)
        PROVE  b[i] <= t /\ \A j \in 1 .. Len(b) : i <= j => b[i] <= b[j]
    <3>1. CASE i \in 1 .. Len(a)
      <4>1. b[i] <= t /\ b[i] = a[i]
        BY <1>1, <2>1, <3>1 DEF Ordered
      <4>2. ASSUME NEW j \in 1 .. Len(b), i <= j PROVE b[i] <= b[j]
        <5>1. CASE j \in 1 .. Len(a)
          BY <1>1, <2>1, <3>1, <4>2, <5>1 DEF Ordered
        <5>2. CASE j = Len(a) + 1
          BY <2>1, <4>1, <5>2
        <5>3. QED
          BY <2>1, <5>1, <5>2
      <4>3. QED
        BY <4>1, <4>2
    <3>2. CASE i = Len(a) + 1
      <4>1. \A j \in 1 .. Len(b) : i <= j => j = i
        BY <2>1, <3>2
      <4>2. QED
        BY <1>1, <2>1, <3>2, <4>1
    <3>3. QED
      BY <2>1, <3>1, <3>2
  <2>4. QED
    BY <2>2, <2>3 DEF Ordered, b
<1>2. /\ now \in Nat
      /\ \A w \in Worker, k \in Key :
           admitted[w][k] \in Seq(Nat) /\ Ordered(admitted[w][k], now)
      /\ \A k \in Key : /\ sent[k] \in Seq(Nat)
                        /\ \A i \in 1 .. Len(sent[k]) : sent[k][i] <= now
  BY DEF Inv, TypeOK, OrderInv
<1>3. ASSUME NEW w \in Worker, NEW k \in Key, Admit(w, k) PROVE OrderInv'
  <2>1. /\ admitted' = [admitted EXCEPT ![w][k] = Append(@, now)]
        /\ sent' = [sent EXCEPT ![k] = Append(@, now)]
        /\ now' = now
    BY <1>3 DEF Admit
  <2>2. ASSUME NEW v \in Worker, NEW c \in Key
        PROVE  Ordered(admitted'[v][c], now')
    <3>1. admitted'[v][c] = admitted[v][c]
            \/ admitted'[v][c] = Append(admitted[v][c], now)
      BY <2>1 DEF Inv, TypeOK
    <3>2. QED
      BY <1>1, <1>2, <2>1, <3>1
  <2>3. ASSUME NEW c \in Key, NEW i \in 1 .. Len(sent'[c])
        PROVE  sent'[c][i] <= now'
    <3>1. CASE sent'[c] = sent[c]
      BY <1>2, <2>1, <2>3, <3>1
    <3>2. CASE sent'[c] = Append(sent[c], now)
      BY <1>2, <2>1, <2>3, <3>2
    <3>3. QED
      BY <2>1, <3>1, <3>2 DEF Inv, TypeOK
  <2>4. QED
    BY <2>2, <2>3 DEF OrderInv
<1>4. ASSUME NEW w \in Worker, NEW k \in Key, Refuse(w, k) PROVE OrderInv'
  BY <1>4 DEF Refuse, OrderInv, Ordered
<1>5. ASSUME NEW w \in Worker, Restart(w) PROVE OrderInv'
  <2>1. /\ admitted' = [admitted EXCEPT ![w] = [k \in Key |-> << >>]]
        /\ sent' = sent /\ now' = now
    BY <1>5 DEF Restart
  <2>2. ASSUME NEW v \in Worker, NEW c \in Key
        PROVE  Ordered(admitted'[v][c], now')
    <3>1. CASE v = w
      BY <2>1, <3>1 DEF Inv, TypeOK, Ordered
    <3>2. CASE v # w
      BY <1>2, <2>1, <3>2 DEF Inv, TypeOK
    <3>3. QED
      BY <3>1, <3>2
  <2>3. QED
    BY <1>2, <2>1, <2>2 DEF OrderInv
<1>6. ASSUME Tick PROVE OrderInv'
  <2>1. now' = now + 1 /\ admitted' = admitted /\ sent' = sent
    BY <1>6 DEF Tick
  <2>2. \A w \in Worker, k \in Key : Ordered(admitted'[w][k], now')
    BY <1>1, <1>2, <2>1
  <2>3. \A k \in Key : \A i \in 1 .. Len(sent'[k]) : sent'[k][i] <= now'
    <3>1. \A k \in Key : \A i \in 1 .. Len(sent[k]) : sent[k][i] \in Nat
      BY <1>2
    <3>2. QED
      BY <1>2, <2>1, <3>1
  <2>4. QED
    BY <2>2, <2>3 DEF OrderInv
<1>7. QED
  BY <1>3, <1>4, <1>5, <1>6 DEF Next, Allow

\* An admission is charged to the process that makes it.
LEMMA AdmitCharges ==
  ASSUME Parameters, IsFiniteSet(Worker), Inv, BudgetInv,
         NEW w \in Worker, NEW k \in Key, Admit(w, k),
         NEW c \in Key, NEW start \in 0 .. now
  PROVE  Charged(c, start)'
<1>1. /\ admitted' = [admitted EXCEPT ![w][k] = Append(@, now)]
      /\ sent' = [sent EXCEPT ![k] = Append(@, now)]
      /\ now' = now /\ restarts' = restarts
  BY DEF Admit
<1>2. /\ now \in Nat /\ start \in Nat /\ start <= now /\ Window \in Nat
      /\ Max \in Nat
      /\ sent \in [Key -> Seq(Nat)] /\ restarts \in Seq(Nat)
      /\ admitted \in [Worker -> [Key -> Seq(Nat)]]
      /\ OrderInv /\ Charged(c, start)
  BY DEF Inv, TypeOK, BudgetInv, Parameters
<1>3. RestartsIn(start)' = RestartsIn(start)
  BY <1>1 DEF RestartsIn, DuringWindow
<1>4. CASE c # k
  <2>1. sent'[c] = sent[c] /\ \A v \in Worker : admitted'[v][c] = admitted[v][c]
    BY <1>1, <1>2, <1>4
  <2>2. SentIn(c, start)' = SentIn(c, start) /\ Alive(c, start)' = Alive(c, start)
    BY <2>1 DEF SentIn, Alive, OfWorker, DuringWindow
  <2>3. QED
    BY <1>1, <1>2, <1>3, <2>2 DEF Charged
<1>5. CASE c = k
  <2>1. /\ sent'[k] = Append(sent[k], now)
        /\ admitted'[w][k] = Append(admitted[w][k], now)
        /\ \A v \in Worker : v # w => admitted'[v][k] = admitted[v][k]
    BY <1>1, <1>2
  <2> DEFINE n == Len(admitted[w][k]) + 1
  <2>2. CASE now <= start + Window
    <3>1. SentIn(k, start)' = SentIn(k, start) + 1
      BY <1>2, <2>1, <2>2, WindowAppend DEF SentIn
    <3>2. /\ DuringWindow(admitted'[w][k], start)
               = DuringWindow(admitted[w][k], start) \cup {n}
          /\ n \notin DuringWindow(admitted[w][k], start)
      BY <1>2, <2>1, <2>2, WindowAppend
    <3> HIDE DEF n
    <3>3. Alive(k, start)' = Alive(k, start) \cup {<<w, n>>}
      <4>1. OfWorker(w, k, start)' = OfWorker(w, k, start) \cup {<<w, n>>}
        BY <3>2 DEF OfWorker
      <4>2. \A v \in Worker : v # w =>
              OfWorker(v, k, start)' = OfWorker(v, k, start)
        BY <2>1 DEF OfWorker, DuringWindow
      <4> HIDE DEF OfWorker
      <4>3. QED
        BY <4>1, <4>2 DEF Alive
    <3>4. <<w, n>> \notin Alive(k, start)
      BY <3>2 DEF Alive, OfWorker
    <3>5. Cardinality(Alive(k, start))' = Cardinality(Alive(k, start)) + 1
      BY <1>2, <3>3, <3>4, AliveBound, FS_AddElement
    <3>6. /\ SentIn(k, start) \in Nat
          /\ RestartsIn(start) \in Nat
          /\ Cardinality(Alive(k, start)) \in Nat
      BY <1>2, WindowFinite, AliveBound DEF SentIn, RestartsIn
    <3>7. SentIn(k, start) <= Cardinality(Alive(k, start)) + Max * RestartsIn(start)
      BY <1>2, <1>5, <2>2 DEF Charged
    <3>8. PICK d \in Nat : d = Max * RestartsIn(start)
      BY <1>2, <3>6
    <3>9. SentIn(k, start) + 1 <= (Cardinality(Alive(k, start)) + 1) + d
      BY <3>6, <3>7, <3>8
    <3>10. QED
      BY <1>1, <1>3, <1>5, <2>2, <3>1, <3>5, <3>8, <3>9 DEF Charged
  <2>3. CASE ~(now <= start + Window)
    <3>1. SentIn(k, start)' = SentIn(k, start)
      BY <1>2, <2>1, <2>3, WindowAppend DEF SentIn
    <3>2. QED
      BY <1>1, <1>2, <1>3, <1>5, <2>3, <3>1 DEF Charged
  <2>4. QED
    BY <2>2, <2>3
<1>6. QED
  BY <1>4, <1>5

\* A restart takes over what its process was charged.
LEMMA RestartCharges ==
  ASSUME Parameters, IsFiniteSet(Worker), Inv, BudgetInv,
         NEW w \in Worker, Restart(w), NEW c \in Key, NEW start \in 0 .. now
  PROVE  Charged(c, start)'
<1>1. /\ admitted' = [admitted EXCEPT ![w] = [k \in Key |-> << >>]]
      /\ restarts' = Append(restarts, now)
      /\ now' = now /\ sent' = sent
  BY DEF Restart
<1>2. /\ now \in Nat /\ start \in Nat /\ start <= now /\ Window \in Nat
      /\ Max \in Nat
      /\ sent \in [Key -> Seq(Nat)] /\ restarts \in Seq(Nat)
      /\ admitted \in [Worker -> [Key -> Seq(Nat)]]
      /\ OrderInv /\ Charged(c, start)
  BY DEF Inv, TypeOK, BudgetInv, Parameters
<1>3. SentIn(c, start)' = SentIn(c, start)
  BY <1>1 DEF SentIn, DuringWindow
<1>4. CASE now <= start + Window
  <2>1. RestartsIn(start)' = RestartsIn(start) + 1
    BY <1>1, <1>2, <1>4, WindowAppend DEF RestartsIn
  <2>2. /\ Alive(c, start)' \subseteq Alive(c, start)
        /\ Alive(c, start) = Alive(c, start)' \cup OfWorker(w, c, start)
    <3>1. OfWorker(w, c, start)' = {}
      BY <1>1, <1>2 DEF OfWorker, DuringWindow
    <3>2. \A v \in Worker : v # w =>
            OfWorker(v, c, start)' = OfWorker(v, c, start)
      BY <1>1, <1>2 DEF OfWorker, DuringWindow
    <3> HIDE DEF OfWorker
    <3>3. QED
      BY <3>1, <3>2 DEF Alive
  <2>3. /\ IsFiniteSet(Alive(c, start)) /\ IsFiniteSet(OfWorker(w, c, start))
        /\ Cardinality(Alive(c, start)) \in Nat
        /\ Cardinality(OfWorker(w, c, start)) \in Nat
        /\ Cardinality(OfWorker(w, c, start)) <= Max
    BY <1>2, AliveBound, OfWorkerBound
  <2> DEFINE A == Alive(c, start)'
             B == OfWorker(w, c, start)
  <2>4. IsFiniteSet(A) /\ Cardinality(A) \in Nat
    BY <2>2, <2>3, FS_Subset, FS_CardinalityType
  <2>5. /\ Cardinality(A \cup B) = Cardinality(A) + Cardinality(B)
                                     - Cardinality(A \cap B)
        /\ Cardinality(A \cap B) \in Nat
    BY <2>3, <2>4, FS_Union, FS_Intersection, FS_CardinalityType
  <2>6. Cardinality(Alive(c, start)) <= Cardinality(A) + Max
    <3>1. Cardinality(Alive(c, start)) = Cardinality(A \cup B)
      BY <2>2
    <3> HIDE DEF A, B
    <3>2. Cardinality(B) \in Nat /\ Cardinality(B) <= Max
      BY <2>3 DEF B
    <3>3. QED
      BY <1>2, <2>4, <2>5, <3>1, <3>2
  <2>7. /\ SentIn(c, start) \in Nat
        /\ RestartsIn(start) \in Nat
        /\ SentIn(c, start) <= Cardinality(Alive(c, start)) + Max * RestartsIn(start)
    BY <1>2, <1>4, WindowFinite DEF SentIn, RestartsIn, Charged
  <2>8. PICK d \in Nat : d = Max * RestartsIn(start)
    BY <1>2, <2>7
  <2>9. Max * (RestartsIn(start) + 1) = d + Max
    BY <1>2, <2>7, <2>8
  <2>10. SentIn(c, start) <= Cardinality(A) + (d + Max)
    <3> HIDE DEF A, B
    <3>1. SentIn(c, start) <= Cardinality(Alive(c, start)) + d
      BY <2>7, <2>8
    <3>2. PICK a \in Nat, x \in Nat, s \in Nat :
            /\ a = Cardinality(A) /\ x = Cardinality(Alive(c, start))
            /\ s = SentIn(c, start)
      BY <2>3, <2>4, <2>7
    <3>3. s <= x + d /\ x <= a + Max
      BY <2>6, <3>1, <3>2
    <3>4. s <= a + (d + Max)
      BY <1>2, <3>3
    <3>5. QED
      BY <3>2, <3>4
  <2>11. QED
    BY <1>1, <1>3, <1>4, <2>1, <2>9, <2>10 DEF Charged
<1>5. CASE ~(now <= start + Window)
  <2>1. RestartsIn(start)' = RestartsIn(start)
    BY <1>1, <1>2, <1>5, WindowAppend DEF RestartsIn
  <2>2. QED
    BY <1>1, <1>2, <1>3, <1>5, <2>1 DEF Charged
<1>6. QED
  BY <1>4, <1>5

\* When a window is over, its processes have charged at most Max each; the
\* window that opens is empty.
LEMMA TickCharges ==
  ASSUME Parameters, IsFiniteSet(Worker), Inv, BudgetInv, Tick,
         NEW c \in Key, NEW start \in 0 .. now'
  PROVE  Charged(c, start)'
<1>1. now' = now + 1 /\ UNCHANGED <<admitted, sent, restarts>>
  BY DEF Tick
<1>2. /\ now \in Nat /\ start \in Nat /\ Window \in Nat /\ Max \in Nat
      /\ sent \in [Key -> Seq(Nat)] /\ restarts \in Seq(Nat) /\ OrderInv
  BY <1>1 DEF Inv, TypeOK, BudgetInv, Parameters
<1>3. /\ SentIn(c, start)' = SentIn(c, start)
      /\ RestartsIn(start)' = RestartsIn(start)
      /\ Alive(c, start)' = Alive(c, start)
  BY <1>1 DEF SentIn, RestartsIn, Alive, OfWorker, DuringWindow
<1>4. /\ SentIn(c, start) \in Nat /\ RestartsIn(start) \in Nat
      /\ Cardinality(Alive(c, start)) \in Nat
      /\ Cardinality(Alive(c, start)) <= Max * Cardinality(Worker)
      /\ Cardinality(Worker) \in Nat
  BY <1>2, WindowFinite, AliveBound, FS_CardinalityType DEF SentIn, RestartsIn
<1>5. PICK d \in Nat : d = Max * RestartsIn(start)
  BY <1>2, <1>4
<1>6. CASE start <= now
  <2>1. Charged(c, start)
    BY <1>2, <1>6 DEF BudgetInv
  <2>2. CASE now + 1 <= start + Window
    BY <1>1, <1>2, <1>3, <2>1, <2>2 DEF Charged
  <2>3. CASE now <= start + Window /\ ~(now + 1 <= start + Window)
    <3>1. Max * (Cardinality(Worker) + RestartsIn(start))
            = Max * Cardinality(Worker) + d
      BY <1>2, <1>4, <1>5
    <3>2. PICK e \in Nat : e = Max * Cardinality(Worker)
      BY <1>2, <1>4
    <3>3. SentIn(c, start) <= e + d
      BY <1>4, <1>5, <2>1, <2>3, <3>2 DEF Charged
    <3>4. QED
      BY <1>1, <1>3, <2>3, <3>1, <3>2, <3>3 DEF Charged
  <2>4. CASE ~(now <= start + Window)
    BY <1>1, <1>2, <1>3, <2>1, <2>4 DEF Charged
  <2>5. QED
    BY <1>2, <2>2, <2>3, <2>4
<1>7. CASE start = now + 1
  <2>1. DuringWindow(sent[c], start) = {}
    <3>1. \A i \in 1 .. Len(sent[c]) : sent[c][i] \in Nat /\ sent[c][i] <= now
      BY <1>2 DEF OrderInv
    <3>2. DOMAIN sent[c] = 1 .. Len(sent[c])
      BY <1>2
    <3>3. QED
      BY <1>2, <1>7, <3>1, <3>2 DEF DuringWindow
  <2>2. SentIn(c, start) = 0
    BY <2>1, FS_EmptySet DEF SentIn
  <2>3. 0 <= Cardinality(Alive(c, start)) + d /\ now + 1 <= start + Window
    BY <1>2, <1>4, <1>7
  <2>4. QED
    BY <1>1, <1>3, <1>5, <2>2, <2>3 DEF Charged
<1>8. QED
  BY <1>1, <1>2, <1>6, <1>7

\* The accounts of all windows are kept by every step.
LEMMA BudgetInductive ==
  ASSUME Parameters, IsFiniteSet(Worker)
  PROVE  /\ Init => BudgetInv
         /\ Inv /\ BudgetInv /\ [Next]_vars => BudgetInv'
<1>1. ASSUME Init PROVE BudgetInv
  <2>1. /\ now = 0 /\ \A k \in Key : sent[k] = << >>
        /\ \A w \in Worker, k \in Key : admitted[w][k] = << >>
        /\ restarts = << >>
    BY <1>1 DEF Init
  <2>2. OrderInv
    BY <2>1 DEF OrderInv, Ordered
  <2>3. ASSUME NEW k \in Key, NEW start \in 0 .. now PROVE Charged(k, start)
    <3>1. /\ DuringWindow(sent[k], start) = {}
          /\ DuringWindow(restarts, start) = {}
          /\ Alive(k, start) = {}
      BY <2>1 DEF DuringWindow, Alive, OfWorker
    <3>2. SentIn(k, start) = 0 /\ RestartsIn(start) = 0
            /\ Cardinality(Alive(k, start)) = 0
      BY <3>1, FS_EmptySet DEF SentIn, RestartsIn
    <3>3. now <= start + Window
      BY <2>1, <2>3 DEF Parameters
    <3>4. QED
      BY <3>2, <3>3 DEF Charged, Parameters
  <2>4. QED
    BY <2>2, <2>3 DEF BudgetInv
<1>2. ASSUME Inv, BudgetInv, Next PROVE BudgetInv'
  <2>1. OrderInv'
    BY <1>2, OrderKept DEF BudgetInv
  <2>2. ASSUME NEW c \in Key, NEW start \in 0 .. now'
        PROVE  Charged(c, start)'
    <3>1. ASSUME NEW w \in Worker, NEW k \in Key, Refuse(w, k)
          PROVE  Charged(c, start)'
      <4>1. UNCHANGED <<now, admitted, sent, restarts>>
        BY <3>1 DEF Refuse
      <4>2. Charged(c, start)
        BY <1>2, <2>2, <4>1 DEF BudgetInv
      <4>3. QED
        BY <4>1, <4>2 DEF Charged, SentIn, RestartsIn, Alive, OfWorker,
           DuringWindow
    <3>2. ASSUME NEW w \in Worker, NEW k \in Key, Admit(w, k)
          PROVE  Charged(c, start)'
      BY <1>2, <2>2, <3>2, AdmitCharges DEF Admit
    <3>3. ASSUME NEW w \in Worker, Restart(w) PROVE Charged(c, start)'
      BY <1>2, <2>2, <3>3, RestartCharges DEF Restart
    <3>4. CASE Tick
      BY <1>2, <2>2, <3>4, TickCharges
    <3>5. QED
      BY <1>2, <3>1, <3>2, <3>3, <3>4 DEF Next, Allow
  <2>3. QED
    BY <2>1, <2>2 DEF BudgetInv
<1>3. ASSUME Inv, BudgetInv, UNCHANGED vars PROVE BudgetInv'
  <2>1. UNCHANGED <<now, admitted, sent, restarts>>
    BY <1>3 DEF vars
  <2>2. OrderInv'
    BY <1>3, <2>1 DEF BudgetInv, OrderInv, Ordered
  <2>3. ASSUME NEW c \in Key, NEW start \in 0 .. now' PROVE Charged(c, start)'
    <3>1. Charged(c, start)
      BY <1>3, <2>1, <2>3 DEF BudgetInv
    <3>2. QED
      BY <2>1, <3>1 DEF Charged, SentIn, RestartsIn, Alive, OfWorker, DuringWindow
  <2>4. QED
    BY <2>2, <2>3 DEF BudgetInv
<1>4. QED
  BY <1>1, <1>2, <1>3

\* The mails of a key in a window are at most Max for every worker and every
\* restart in the window.
THEOREM DeploymentBudget ==
  ASSUME Parameters, IsFiniteSet(Worker)
  PROVE  Spec => []EffectiveBudget
<1>1. ASSUME Inv, BudgetInv PROVE EffectiveBudget
  <2> SUFFICES ASSUME NEW k \in Key, NEW start \in 0 .. now
               PROVE  SentIn(k, start)
                        <= Max * (Cardinality(Worker) + RestartsIn(start))
    BY DEF EffectiveBudget, SentIn, RestartsIn
  <2>1. /\ OrderInv /\ Charged(k, start) /\ start \in Nat /\ Max \in Nat
        /\ sent[k] \in Seq(Nat) /\ restarts \in Seq(Nat)
    BY <1>1 DEF BudgetInv, Inv, TypeOK, Parameters
  <2>2. /\ SentIn(k, start) \in Nat /\ RestartsIn(start) \in Nat
        /\ Cardinality(Alive(k, start)) \in Nat
        /\ Cardinality(Alive(k, start)) <= Max * Cardinality(Worker)
        /\ Cardinality(Worker) \in Nat
    BY <1>1, <2>1, WindowFinite, AliveBound, FS_CardinalityType
       DEF SentIn, RestartsIn
  <2>3. PICK d \in Nat, e \in Nat :
          d = Max * RestartsIn(start) /\ e = Max * Cardinality(Worker)
    BY <2>1, <2>2
  <2>4. Max * (Cardinality(Worker) + RestartsIn(start)) = e + d
    BY <2>1, <2>2, <2>3
  <2>5. SentIn(k, start) <= e + d
    <3>1. CASE now <= start + Window
      <4>1. SentIn(k, start) <= Cardinality(Alive(k, start)) + d
        BY <2>1, <2>3, <3>1 DEF Charged
      <4>2. Cardinality(Alive(k, start)) <= e
        BY <2>2, <2>3
      <4>3. QED
        BY <2>2, <2>3, <4>1, <4>2
    <3>2. CASE ~(now <= start + Window)
      BY <2>1, <2>4, <3>2 DEF Charged
    <3>3. QED
      BY <3>1, <3>2
  <2>6. QED
    BY <2>4, <2>5
<1>2. QED
  BY <1>1, Inductive, BudgetInductive, PTL DEF Spec
=============================================================================
