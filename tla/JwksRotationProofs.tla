------------------------- MODULE JwksRotationProofs -------------------------
(***************************************************************************)
(* The properties of JwksRotation for any keys, consuming processes, SDKs  *)
(* and lifetimes of tokens and caches.                                     *)
(*                                                                         *)
(* The properties speak of a verification.  What makes its answer right    *)
(* was fixed before: when its token was issued (Lifetimes), when the       *)
(* shared cache took its response (EdgeOrigin), when the process took its  *)
(* key set (SetOrigin), and which keys it had resolved (AcceptedResolved). *)
(***************************************************************************)
EXTENDS JwksRotation, TLAPS

\* The past lies in the past, and a kid is never used again.
Chronicle ==
  /\ signing \notin DOMAIN retired
  /\ \A k \in DOMAIN published : published[k] <= now
  /\ \A k \in DOMAIN retired : retired[k] <= now

\* A token outlives the key that signed it by TTL at most.
Lifetimes ==
  \A t \in tokens :
    /\ t.kid = signing \/ t.kid \in DOMAIN retired
    /\ t.kid = signing => t.exp <= now + TTL
    /\ t.kid \in DOMAIN retired => t.exp <= retired[t.kid] + TTL

\* A response in the shared cache that lacks a listed key is older than its
\* listing; a key set a process keeps came from Knuckles or from such a response.
Precedes(response) ==
  /\ response.at <= now
  /\ \A k \in DOMAIN published :
       k \in response.keys \/ response.at <= published[k]
Follows(response) ==
  /\ response.at <= now
  /\ \A k \in DOMAIN published :
       \/ k \in response.keys
       \/ response.at <= published[k]
       \/ response.at < published[k] + MaxAge
EdgeOrigin == edge # None => Precedes(edge)
SetOrigin == \A p \in Process : jwk_set[p] # None => Follows(jwk_set[p])

\* A process keeps the keys of the tokens it accepted, with the Python SDK.
AcceptedResolved ==
  \A p \in Process : \A t \in accepted[p] : t.kid \in known[p]

Inv ==
  /\ TypeOK /\ Chronicle /\ Lifetimes /\ EdgeOrigin /\ SetOrigin
  /\ AcceptedResolved
  /\ RotationRollsOut /\ AcceptedStaysAccepted /\ RetiredKeyDies

-----------------------------------------------------------------------------
\* The answer to a token that was issued has the type of an answer.
LEMMA ReplyTyped ==
  ASSUME Inv, NEW p \in Process, NEW t \in tokens,
         NEW verdict \in {"ok", "expired", "unknown", "unreachable"},
         Reply(p, t, verdict)
  PROVE  /\ answer' \in Answer
         /\ answer'.by = p /\ answer'.token = t /\ answer'.verdict = verdict
         /\ answer'.listed = Listed(t)
         /\ answer'.age = Since(published, t.kid)
         /\ answer'.overdue = Since(retired, t.kid)
<1>1. t \in AccessToken /\ t.kid \in Kid /\ t.exp \in Nat
  BY DEF Inv, TypeOK, AccessToken
<1>2. Since(published, t.kid) \in Nat /\ Since(retired, t.kid) \in Nat
  BY <1>1 DEF Inv, TypeOK, Chronicle, Since
<1>3. Listed(t) \in BOOLEAN
  BY DEF Listed
<1>4. QED
  BY <1>1, <1>2, <1>3 DEF Reply, Answer

\* A fetched key set leaves the shared cache with an old response or with the
\* list of the moment, and the process with one of them.
LEMMA DownloadTyped ==
  ASSUME Inv, NEW p \in Process, NEW keys \in Obtainable, Download(p, keys)
  PROVE  /\ jwk_set' \in [Process -> Fetched \cup {None}]
         /\ edge' \in Fetched \cup {None}
         /\ edge' # None => Precedes(edge')
         /\ \A q \in Process : jwk_set'[q] # None => Follows(jwk_set'[q])
<1>1. Published \in SUBSET Kid /\ now \in Nat /\ keys \in SUBSET Kid
      /\ \A k \in Published : published[k] \in Nat /\ published[k] <= now
  BY DEF Inv, TypeOK, Chronicle, Obtainable, Published
<1>2. PICK r : r = [keys |-> keys, at |-> now]
  OBVIOUS
<1>3. r \in Fetched /\ r.keys = keys /\ r.at = now
  BY <1>1, <1>2 DEF Fetched
<1>4. /\ jwk_set' \in [Process -> Fetched \cup {None}]
      /\ jwk_set'[p] = r
      /\ \A q \in Process \ {p} : jwk_set'[q] = jwk_set[q]
  BY <1>2, <1>3 DEF Inv, TypeOK, Download
<1>5. keys = Published => Precedes(r)
  BY <1>1, <1>3 DEF Precedes, Published
<1>6. edge' \in Fetched \cup {None} /\ (edge' # None => Precedes(edge'))
  <2>1. CASE edge' = edge
    BY <2>1 DEF Inv, TypeOK, EdgeOrigin
  <2>2. CASE keys = Published /\ edge' = r
    BY <1>3, <1>5, <2>2
  <2>3. QED
    BY <1>2, <2>1, <2>2 DEF Download
<1>7. Follows(r)
  <2>1. CASE keys = Published
    BY <1>1, <1>3, <1>5, <2>1 DEF Precedes, Follows
  <2>2. CASE EdgeFresh /\ keys = edge.keys
    <3>1. edge \in Fetched /\ edge.at \in Nat /\ now < edge.at + MaxAge
          /\ Precedes(edge) /\ MaxAge \in Nat
      BY <2>2, TimeAssumption DEF EdgeFresh, Inv, TypeOK, EdgeOrigin, Fetched
    <3>2. ASSUME NEW k \in DOMAIN published, k \notin keys
          PROVE  now < published[k] + MaxAge
      BY <1>1, <2>2, <3>1, <3>2 DEF Precedes, Published
    <3>3. QED
      BY <1>1, <1>3, <3>2 DEF Follows
  <2>3. QED
    BY <2>1, <2>2 DEF Obtainable
<1>8. \A q \in Process : jwk_set'[q] # None => Follows(jwk_set'[q])
  BY <1>4, <1>7 DEF Inv, SetOrigin
<1>9. QED
  BY <1>4, <1>6, <1>8

\* The part of Inv that a verification cannot disturb.
LEMMA KnucklesUntouched ==
  ASSUME Inv, UNCHANGED knuckles_vars
  PROVE  Chronicle' /\ Lifetimes'
BY DEF Inv, Chronicle, Lifetimes, knuckles_vars

LEMMA OriginsKept ==
  ASSUME UNCHANGED knuckles_vars,
         edge' # None => Precedes(edge'),
         \A q \in Process : jwk_set'[q] # None => Follows(jwk_set'[q])
  PROVE  EdgeOrigin' /\ SetOrigin'
BY DEF EdgeOrigin, SetOrigin, Precedes, Follows, knuckles_vars

\* A token that is decoded: what is accepted has its key resolved, and an
\* accepted token is younger than TTL, so its key has been retired for less.
LEMMA DecodeKeeps ==
  ASSUME Inv, NEW p \in Process, NEW t \in tokens, Decode(p, t),
         jwk_set' \in [Process -> Fetched \cup {None}],
         edge' \in Fetched \cup {None},
         edge' # None => Precedes(edge'),
         \A q \in Process : jwk_set'[q] # None => Follows(jwk_set'[q])
  PROVE  Inv'
<1>0. PICK verdict \in {"ok", "expired"} :
        verdict = IF Expired(t) THEN "expired" ELSE "ok"
  OBVIOUS
<1>1. /\ UNCHANGED knuckles_vars
      /\ known' = [known EXCEPT ![p] = @ \cup {k \in {t.kid} : Python(p)}]
      /\ accepted' = [accepted EXCEPT ![p] = @ \cup
                        {s \in {t} : Python(p) /\ ~Expired(s)}]
      /\ Reply(p, t, verdict)
  BY <1>0 DEF Decode
<1>2. /\ answer' \in Answer
      /\ answer'.verdict = verdict
      /\ answer'.overdue = Since(retired, t.kid)
  BY <1>1, ReplyTyped
<1>3. t \in AccessToken /\ t.kid \in Kid /\ t.exp \in Nat
  BY DEF Inv, TypeOK, AccessToken
<1>4. /\ known' \in [Process -> SUBSET Kid]
      /\ accepted' \in [Process -> SUBSET AccessToken]
      /\ known[p] \subseteq known'[p]
      /\ Python(p) => t.kid \in known'[p]
      /\ \A s \in accepted'[p] : s \in accepted[p] \/ (s = t /\ Python(p))
      /\ \A q \in Process \ {p} :
           known'[q] = known[q] /\ accepted'[q] = accepted[q]
  BY <1>1, <1>3 DEF Inv, TypeOK
<1>5. TypeOK'
  BY <1>1, <1>2, <1>4 DEF Inv, TypeOK, knuckles_vars
<1>6. AcceptedResolved'
  BY <1>4 DEF Inv, AcceptedResolved
<1>7. RotationRollsOut' /\ AcceptedStaysAccepted'
  BY <1>2 DEF RotationRollsOut, AcceptedStaysAccepted
<1>8. RetiredKeyDies'
  <2>1. ASSUME ~Expired(t) PROVE Since(retired, t.kid) < TTL
    <3>1. /\ now < t.exp /\ now \in Nat /\ TTL \in Nat
          /\ t.kid = signing \/ t.kid \in DOMAIN retired
      BY <1>3, <2>1, TimeAssumption DEF Expired, Inv, TypeOK, Lifetimes
    <3>2. CASE t.kid = signing
      <4>1. t.exp <= now + TTL /\ Since(retired, t.kid) = 0
        BY <3>2 DEF Inv, Lifetimes, Chronicle, Since
      <4>2. QED
        BY <1>3, <3>1, <4>1
    <3>3. CASE t.kid \in DOMAIN retired
      <4>1. /\ t.exp <= retired[t.kid] + TTL /\ retired[t.kid] \in Nat
            /\ Since(retired, t.kid) = now - retired[t.kid]
        BY <3>3 DEF Inv, TypeOK, Lifetimes, Since
      <4>2. QED
        BY <1>3, <3>1, <4>1
    <3>4. QED
      BY <3>1, <3>2, <3>3
  <2>2. QED
    BY <1>0, <1>1, <1>2, <2>1 DEF RetiredKeyDies, knuckles_vars
<1>9. QED
  BY <1>1, <1>5, <1>6, <1>7, <1>8, KnucklesUntouched, OriginsKept DEF Inv

\* A token that is refused because its key cannot be had: a Python process that
\* had accepted it would have the key.
LEMMA FailKeeps ==
  ASSUME Inv, NEW p \in Process, NEW t \in tokens, ~Resolves(p, t),
         NEW verdict \in {"unknown", "unreachable"}, Fail(p, t, verdict),
         verdict = "unknown" /\ Listed(t) => Since(published, t.kid) < Lag(p),
         jwk_set' \in [Process -> Fetched \cup {None}],
         edge' \in Fetched \cup {None},
         edge' # None => Precedes(edge'),
         \A q \in Process : jwk_set'[q] # None => Follows(jwk_set'[q])
  PROVE  Inv'
<1>1. UNCHANGED knuckles_vars /\ UNCHANGED <<known, accepted>>
      /\ Reply(p, t, verdict)
  BY DEF Fail
<1>2. /\ answer' \in Answer
      /\ answer'.by = p /\ answer'.token = t /\ answer'.verdict = verdict
      /\ answer'.listed = Listed(t) /\ answer'.age = Since(published, t.kid)
  BY <1>1, ReplyTyped
<1>3. TypeOK' /\ AcceptedResolved'
  BY <1>1, <1>2 DEF Inv, TypeOK, AcceptedResolved, knuckles_vars
<1>4. RotationRollsOut'
  BY <1>1, <1>2 DEF RotationRollsOut, Lag, Python, knuckles_vars
<1>5. AcceptedStaysAccepted'
  BY <1>1, <1>2 DEF Inv, AcceptedResolved, Resolves, AcceptedStaysAccepted
<1>6. RetiredKeyDies'
  BY <1>2 DEF RetiredKeyDies
<1>7. QED
  BY <1>1, <1>3, <1>4, <1>5, <1>6, KnucklesUntouched, OriginsKept DEF Inv
-----------------------------------------------------------------------------
LEMMA VerifyStep ==
  ASSUME Inv, NEW p \in Process, NEW t \in tokens, Verify(p, t)
  PROVE  Inv'
<1>0. /\ jwk_set \in [Process -> Fetched \cup {None}]
      /\ edge \in Fetched \cup {None}
      /\ edge # None => Precedes(edge)
      /\ \A q \in Process : jwk_set[q] # None => Follows(jwk_set[q])
  BY DEF Inv, TypeOK, EdgeOrigin, SetOrigin
<1>1. CASE VerifyLocally(p, t)
  BY <1>0, <1>1, DecodeKeeps DEF VerifyLocally
<1>2. CASE VerifyFetched(p, t)
  <2>1. PICK keys \in Obtainable : Download(p, keys)
    BY <1>2 DEF VerifyFetched
  <2>2. QED
    BY <1>2, <2>1, DownloadTyped, DecodeKeeps DEF VerifyFetched
<1>3. CASE VerifyUnknownKid(p, t)
  <2>1. PICK keys \in Obtainable : t.kid \notin keys /\ Download(p, keys)
    BY <1>3 DEF VerifyUnknownKid
  <2>2. ~Resolves(p, t) /\ Fail(p, t, "unknown")
    BY <1>3 DEF VerifyUnknownKid, Fetches
  <2>3. Listed(t) => Since(published, t.kid) < Lag(p)
    \* Only a response of the shared cache lacks a listed key.
    <3> SUFFICES ASSUME t.kid \in DOMAIN published
                 PROVE  now - published[t.kid] < Lag(p)
      BY DEF Listed, Published, Since
    <3>1. EdgeFresh /\ keys = edge.keys
      BY <2>1 DEF Obtainable, Published
    <3>2. /\ edge \in Fetched /\ now < edge.at + MaxAge
          /\ edge.at <= published[t.kid]
      BY <1>0, <2>1, <3>1 DEF EdgeFresh, Precedes
    <3>3. /\ edge.at \in Nat /\ published[t.kid] \in Nat /\ now \in Nat
          /\ MaxAge \in Nat /\ Cooldown \in Nat
      BY <3>2, TimeAssumption DEF Fetched, Inv, TypeOK
    <3>4. now - published[t.kid] < MaxAge
      BY <3>2, <3>3
    <3>5. QED
      BY <3>3, <3>4 DEF Lag
  <2>4. QED
    BY <2>1, <2>2, <2>3, DownloadTyped, FailKeeps
\* The key set was fetched less than the cooldown ago, and came from a response
\* that was younger than MaxAge then.
<1>4. CASE VerifyCoolingDown(p, t)
  <2>1. /\ ~Resolves(p, t) /\ Fail(p, t, "unknown")
        /\ UNCHANGED <<edge, jwk_set>>
        /\ ~Python(p) /\ SetFresh(p) /\ CoolingDown(p) /\ ~Cached(p, t)
    BY <1>4 DEF VerifyCoolingDown, Fetches
  <2>2. Listed(t) => Since(published, t.kid) < Lag(p)
    <3> SUFFICES ASSUME t.kid \in DOMAIN published
                 PROVE  now - published[t.kid] < MaxAge + Cooldown
      BY <2>1 DEF Listed, Published, Since, Lag
    <3>1. PICK r : r = jwk_set[p]
      OBVIOUS
    <3>2. /\ r \in Fetched /\ Follows(r) /\ now < r.at + Cooldown
          /\ t.kid \notin r.keys
      BY <1>0, <2>1, <3>1 DEF CoolingDown, Cached
    <3>3. r.at <= published[t.kid] \/ r.at < published[t.kid] + MaxAge
      BY <3>2 DEF Follows
    <3>4. /\ r.at \in Nat /\ published[t.kid] \in Nat /\ now \in Nat
          /\ MaxAge \in Nat /\ Cooldown \in Nat
      BY <3>2, TimeAssumption DEF Fetched, Inv, TypeOK
    <3>5. QED
      BY <3>2, <3>3, <3>4
  <2>3. QED
    BY <1>0, <2>1, <2>2, FailKeeps
<1>5. CASE VerifyUnreachable(p, t)
  <2>1. /\ ~Resolves(p, t) /\ Fail(p, t, "unreachable") /\ edge' = edge
        /\ jwk_set' \in {[jwk_set EXCEPT ![p] = None], jwk_set}
    BY <1>5 DEF VerifyUnreachable, Fetches
  <2>2. /\ jwk_set' \in [Process -> Fetched \cup {None}]
        /\ \A q \in Process : jwk_set'[q] # None => Follows(jwk_set'[q])
    BY <1>0, <2>1
  <2>3. QED
    BY <1>0, <2>1, <2>2, FailKeeps
<1>6. QED
  BY <1>1, <1>2, <1>3, <1>4, <1>5 DEF Verify

\* What a step that verifies nothing leaves to prove.
LEMMA SilentStep ==
  ASSUME Inv, answer' = Unasked, TypeOK', Chronicle', Lifetimes', EdgeOrigin',
         SetOrigin', AcceptedResolved'
  PROVE  Inv'
BY DEF Inv, RotationRollsOut, AcceptedStaysAccepted, RetiredKeyDies, Unasked

LEMMA UnaskedTyped == Unasked \in Answer
BY DEF Unasked, Answer

\* The steps of Knuckles and of time leave the processes alone.
LEMMA KnucklesStep ==
  ASSUME Inv, Issue \/ Deploy \/ Tick
  PROVE  Inv'
<1>1. /\ UNCHANGED <<edge, sdk, jwk_set, known, accepted>>
      /\ answer' = Unasked
  BY DEF Issue, Deploy, Tick
<1>2. AcceptedResolved'
  BY <1>1 DEF Inv, AcceptedResolved
<1>3. /\ now \in Nat /\ TTL \in Nat /\ signing \in Kid
      /\ \A t \in tokens : t.kid \in Kid /\ t.exp \in Nat
      /\ DOMAIN published \subseteq Kid /\ DOMAIN retired \subseteq Kid
      /\ \A k \in DOMAIN published : published[k] \in Nat
      /\ \A k \in DOMAIN retired : retired[k] \in Nat
  BY TimeAssumption DEF Inv, TypeOK, AccessToken
<1>4. CASE Issue
  <2>1. PICK new : /\ new = [kid |-> signing, exp |-> now + TTL]
                   /\ tokens' = tokens \cup {new}
                   /\ UNCHANGED <<now, signing, published, retired>>
    BY <1>4 DEF Issue
  <2>2. new \in AccessToken /\ new.kid = signing /\ new.exp = now + TTL
    BY <1>3, <2>1 DEF AccessToken
  <2>3. TypeOK'
    BY <1>1, <2>1, <2>2, UnaskedTyped DEF Inv, TypeOK
  <2>4. Chronicle' /\ EdgeOrigin' /\ SetOrigin'
    BY <1>1, <2>1 DEF Inv, Chronicle, EdgeOrigin, SetOrigin, Precedes, Follows
  <2>5. Lifetimes'
    BY <1>3, <2>1, <2>2 DEF Inv, Lifetimes, Chronicle
  <2>6. QED
    BY <1>1, <1>2, <2>3, <2>4, <2>5, SilentStep
<1>5. CASE Deploy
  <2>1. PICK k \in Kid \ DOMAIN retired, others \in SUBSET Kid :
          /\ signing' = k /\ Publish(others \cup {k}) /\ Retire(k)
          /\ now' = now /\ tokens' = tokens
    BY <1>5 DEF Deploy
  <2>2. /\ DOMAIN published' = others \cup {k}
        /\ \A j \in DOMAIN published' :
             published'[j] = IF j \in DOMAIN published THEN published[j] ELSE now
    BY <2>1 DEF Publish
  <2>3. /\ DOMAIN retired' = DOMAIN retired \cup ({signing} \ {k})
        /\ \A j \in DOMAIN retired : j # signing /\ retired'[j] = retired[j]
        /\ signing # k => retired'[signing] = now
    BY <2>1 DEF Inv, Chronicle, Retire
  <2>4. TypeOK'
    <3>1. published' \in [DOMAIN published' -> Nat]
      BY <1>3, <2>1, <2>2 DEF Publish
    <3>2. retired' \in [DOMAIN retired' -> Nat]
      BY <1>3, <2>1, <2>3 DEF Retire, Inv, Chronicle
    <3>3. QED
      BY <1>1, <1>3, <2>1, <2>2, <2>3, <3>1, <3>2, UnaskedTyped DEF Inv, TypeOK
  <2>5. Chronicle'
    <3>1. \A j \in DOMAIN published' : published'[j] <= now
      BY <1>3, <2>2 DEF Inv, Chronicle
    <3>2. \A j \in DOMAIN retired' : retired'[j] <= now
      BY <1>3, <2>3 DEF Inv, Chronicle
    <3>3. QED
      BY <2>1, <2>3, <3>1, <3>2 DEF Chronicle
  <2>6. Lifetimes'
    BY <1>3, <2>1, <2>3 DEF Inv, Lifetimes, Chronicle
  \* No fetch happens after now.
  <2>7. \A r : Precedes(r) => Precedes(r)'
    BY <1>3, <2>1, <2>2 DEF Precedes
  <2>8. \A r : Follows(r) => Follows(r)'
    BY <1>3, <2>1, <2>2 DEF Follows
  <2>9. EdgeOrigin' /\ SetOrigin'
    BY <1>1, <2>7, <2>8 DEF Inv, EdgeOrigin, SetOrigin, Precedes, Follows
  <2>10. QED
    BY <1>1, <1>2, <2>4, <2>5, <2>6, <2>9, SilentStep
<1>6. CASE Tick
  <2>1. now' = now + 1 /\ UNCHANGED <<signing, published, retired, tokens>>
    BY <1>6 DEF Tick
  <2>2. TypeOK'
    BY <1>1, <1>3, <2>1, UnaskedTyped DEF Inv, TypeOK
  <2>3. EdgeOrigin' /\ SetOrigin'
    BY <1>1, <1>3, <2>1 DEF Inv, TypeOK, EdgeOrigin, SetOrigin, Precedes,
       Follows, Fetched
  <2>4. Chronicle' /\ Lifetimes'
    BY <1>3, <2>1 DEF Inv, Chronicle, Lifetimes
  <2>5. QED
    BY <1>1, <1>2, <2>2, <2>3, <2>4, SilentStep
<1>7. QED
  BY <1>4, <1>5, <1>6

LEMMA RestartStep ==
  ASSUME Inv, NEW p \in Process, Restart(p)
  PROVE  Inv'
<1>1. /\ UNCHANGED knuckles_vars /\ UNCHANGED edge
      /\ jwk_set' = [jwk_set EXCEPT ![p] = None]
      /\ known' = [known EXCEPT ![p] = {}]
      /\ accepted' = [accepted EXCEPT ![p] = {}]
      /\ answer' = Unasked
  BY DEF Restart
<1>2. TypeOK'
  BY <1>1, UnaskedTyped DEF Inv, TypeOK, knuckles_vars
<1>3. EdgeOrigin' /\ SetOrigin'
  BY <1>1, OriginsKept DEF Inv, TypeOK, EdgeOrigin, SetOrigin
<1>4. AcceptedResolved'
  BY <1>1 DEF Inv, TypeOK, AcceptedResolved
<1>5. QED
  BY <1>1, <1>2, <1>3, <1>4, KnucklesUntouched, SilentStep

LEMMA Inductive ==
  /\ Init => Inv
  /\ Inv /\ [Next]_vars => Inv'
<1>1. ASSUME Init PROVE Inv
  <2>1. Unasked \in Answer /\ Unasked.verdict = "none"
    BY DEF Unasked, Answer
  <2>2. TypeOK
    BY <1>1, <2>1 DEF Init, TypeOK
  <2>3. Chronicle /\ Lifetimes /\ EdgeOrigin /\ SetOrigin /\ AcceptedResolved
    BY <1>1 DEF Init, Chronicle, Lifetimes, EdgeOrigin, SetOrigin,
       AcceptedResolved
  <2>4. RotationRollsOut /\ AcceptedStaysAccepted /\ RetiredKeyDies
    BY <1>1, <2>1 DEF Init, RotationRollsOut, AcceptedStaysAccepted,
       RetiredKeyDies
  <2>5. QED
    BY <2>2, <2>3, <2>4 DEF Inv
<1>2. ASSUME Inv, UNCHANGED vars PROVE Inv'
  BY <1>2 DEF vars, knuckles_vars, Inv, TypeOK, Chronicle, Lifetimes, EdgeOrigin,
     SetOrigin, Precedes, Follows, AcceptedResolved, RotationRollsOut, Lag,
     Python, AcceptedStaysAccepted, RetiredKeyDies
<1>3. QED
  BY <1>1, <1>2, VerifyStep, KnucklesStep, RestartStep DEF Next

LEMMA InvHolds == Spec => []Inv
BY Inductive, PTL DEF Spec

-----------------------------------------------------------------------------
\* TypeOK for every value of the constants.
THEOREM TypeCorrect == Spec => []TypeOK
<1>1. Inv => TypeOK
  BY DEF Inv
<1>2. QED
  BY <1>1, InvHolds, PTL

\* A consumer that can fetch the JWKS knows every listed key max-age after its
\* listing at the latest, with the TypeScript SDK one cooldown later.
THEOREM RollsOut == Spec => []RotationRollsOut
<1>1. Inv => RotationRollsOut
  BY DEF Inv
<1>2. QED
  BY <1>1, InvHolds, PTL

\* A process with the Python SDK does not change its mind about a token before
\* it expires.
THEOREM AcceptanceLasts == Spec => []AcceptedStaysAccepted
<1>1. Inv => AcceptedStaysAccepted
  BY DEF Inv
<1>2. QED
  BY <1>1, InvHolds, PTL

\* A key is of no use once it has been retired for the lifetime of a token.
THEOREM KeyDies == Spec => []RetiredKeyDies
<1>1. Inv => RetiredKeyDies
  BY DEF Inv
<1>2. QED
  BY <1>1, InvHolds, PTL
=============================================================================
