-------------------------- MODULE OAuthUpsertProofs --------------------------
(***************************************************************************)
(* Type correctness and the safety properties of OAuthUpsert, for any      *)
(* numbers of identities, addresses, users, links and workers.             *)
(*                                                                         *)
(* A completion decides from the link it finds, or from finding none, and  *)
(* commits several statements later.  Inv says which of its readings no    *)
(* other request can overturn.                                             *)
(***************************************************************************)
EXTENDS OAuthUpsert, TLAPS

(***************************************************************************)
(* The inductive invariant.  x and z are the requests of two workers.      *)
(***************************************************************************)

\* The request works on the link it found, or without one.
ByLink(x) == x.pc \in {"owner", "refreshing"}
WithoutLink(x) == x.pc \in {"finding", "creating", "linking"}

\* The account is chosen and was active when it was.
Chosen(x) == x.pc \in {"refreshing", "linking", "touching", "issuing", "closing"}

\* The position of a request tells which of its writes it has made.
Position(x) ==
  /\ x.pc # "idle" => x.identity \in Identity
  /\ x.pc = "lookup" \/ WithoutLink(x) => x.email \in Email
  /\ WithoutLink(x) => ~x.new_link
  /\ x.new_user \/ x.new_link => Chosen(x)
  /\ x.session => x.pc = "closing"
  /\ x.new_user /\ x.pc # "linking" => x.new_link

\* A request that has no link inserts rows that nobody has.
Inserts(x) ==
  /\ x.new_user =>
       /\ x.user \in User /\ x.email \in Email
       /\ x.user \notin Registered /\ x.email \notin KnownEmails
  /\ x.new_link => x.link \in LinkId /\ x.link \notin Linked
  /\ ByLink(x) \/ Chosen(x) => x.user \in Registered \/ x.new_user

\* Links stay: an identity that was linked has its owners as long as the
\* request lasts, and the request follows its link.
FollowsLink(x) ==
  /\ x.owners \subseteq OwnersOf(x.identity)
  /\ x.owners # {} =>
       /\ ~WithoutLink(x) /\ ~x.new_user /\ ~x.new_link
       /\ ByLink(x) \/ Chosen(x) => x.user \in x.owners

\* Deactivations stay: who was inactive is not chosen.
ChosenActive(x) ==
  /\ \A u \in x.barred : u \in Registered /\ ~users[u].is_active
  /\ Chosen(x) => x.user \notin x.barred

SessionInv(x) ==
  /\ x \in Txn
  /\ Position(x)
  /\ Inserts(x)
  /\ FollowsLink(x)
  /\ ChosenActive(x)

\* Two requests at once insert different users, addresses and links.
Apart(x, z) ==
  /\ x.new_user /\ z.new_user => z.user # x.user /\ z.email # x.email
  /\ x.new_link /\ z.new_link => z.link # x.link

EmailsUnique == \A u, v \in Registered : users[u].email = users[v].email => u = v

TableInv == NoUnlinkedAccount /\ EmailsUnique

Inv ==
  /\ TypeOK
  /\ TableInv
  /\ \A w \in Worker : SessionInv(txn[w])
  /\ \A v, w \in Worker : v # w => Apart(txn[v], txn[w])

-----------------------------------------------------------------------------
(* Steps that change one request and nothing else *)

\* Inv is kept by a step that takes one request to one that satisfies
\* SessionInv and stands apart from the others.
LEMMA LocalStep ==
  ASSUME Inv, NEW w \in Worker, NEW y, Advance(w, y), SessionInv(y),
         \A v \in Worker \ {w} : Apart(y, txn[v]) /\ Apart(txn[v], y)
  PROVE  Inv'
<1>1. /\ txn' \in [Worker -> Txn]
      /\ txn'[w] = y
      /\ \A v \in Worker \ {w} : txn'[v] = txn[v]
  BY DEF Advance, Inv, TypeOK, SessionInv
<1>2. UNCHANGED <<users, user_oauth_providers, profile>>
  BY DEF Advance
<1>3. TypeOK' /\ TableInv'
  BY <1>1, <1>2 DEF Inv, TypeOK, TableInv, NoUnlinkedAccount, EmailsUnique,
     Registered, Linked
<1>4. ASSUME NEW v \in Worker PROVE SessionInv(txn[v])'
  <2>1. SessionInv(txn'[v])
    BY <1>1 DEF Inv
  <2>2. QED
    BY <1>2, <2>1 DEF SessionInv, Position, Inserts, FollowsLink, ChosenActive,
       ByLink, WithoutLink, Chosen, Registered, Linked, KnownEmails, OwnersOf,
       LinksOf
<1>5. ASSUME NEW v \in Worker, NEW u \in Worker, v # u
      PROVE  Apart(txn[v], txn[u])'
  <2>1. Apart(txn'[v], txn'[u])
    BY <1>1, <1>5 DEF Inv
  <2>2. QED
    BY <2>1 DEF Apart
<1>6. QED
  BY <1>3, <1>4, <1>5 DEF Inv

\* A step that inserts nothing excludes nobody new.
LEMMA SamePlaceStep ==
  ASSUME Inv, NEW w \in Worker, NEW y, Advance(w, y), SessionInv(y),
         y.new_user => txn[w].new_user /\ y.user = txn[w].user
                         /\ y.email = txn[w].email,
         y.new_link => txn[w].new_link /\ y.link = txn[w].link
  PROVE  Inv'
<1>1. ASSUME NEW v \in Worker \ {w} PROVE Apart(y, txn[v]) /\ Apart(txn[v], y)
  <2>1. Apart(txn[w], txn[v]) /\ Apart(txn[v], txn[w])
    BY DEF Inv
  <2>2. QED
    BY <2>1 DEF Apart
<1>2. QED
  BY <1>1, LocalStep

\* A request that ends without a commit has inserted nothing.
LEMMA EndStep ==
  ASSUME Inv, NEW w \in Worker, Advance(w, Idle)
  PROVE  Inv'
<1>1. SessionInv(Idle)
  BY DEF Idle, SessionInv, Txn, Position, Inserts, FollowsLink, ChosenActive,
     ByLink, WithoutLink, Chosen
<1>2. ~Idle.new_user /\ ~Idle.new_link
  BY DEF Idle
<1>3. QED
  BY <1>1, <1>2, SamePlaceStep

\* A completion remembers the owners of the identity and who is barred.
LEMMA BeginStep ==
  ASSUME Inv, NEW w \in Worker, StartComplete(w)
  PROVE  Inv'
<1>1. PICK i \in Identity :
        Advance(w, [Idle EXCEPT !.pc = "exchanging", !.identity = i,
                                !.owners = OwnersOf(i),
                                !.barred = {u \in Registered :
                                              ~users[u].is_active}])
  BY DEF StartComplete
<1> DEFINE owned == OwnersOf(i)
           out == {u \in Registered : ~users[u].is_active}
           y == [Idle EXCEPT !.pc = "exchanging", !.identity = i,
                             !.owners = owned, !.barred = out]
<1>2. owned \subseteq User /\ out \subseteq User
  BY DEF OwnersOf, LinksOf, Inv, TypeOK, LinkRow
<1>3. \A u \in out : u \in Registered /\ ~users[u].is_active
  OBVIOUS
<1>4. Advance(w, y) /\ owned = OwnersOf(i)
  BY <1>1
<1> HIDE DEF owned, out
<1>5. /\ y.pc = "exchanging" /\ y.identity = i /\ y.owners = owned
      /\ y.barred = out /\ ~y.new_user /\ ~y.new_link /\ ~y.session
  BY DEF Idle
<1>6. y \in Txn
  BY <1>2 DEF Idle, Txn
<1> HIDE DEF y
<1>7. SessionInv(y)
  BY <1>3, <1>4, <1>5, <1>6 DEF SessionInv, Position, Inserts, FollowsLink,
     ChosenActive, ByLink, WithoutLink, Chosen
<1>8. QED
  BY <1>4, <1>5, <1>7, SamePlaceStep

\* The request learns the address, then the link of the identity or that
\* there is none.
LEMMA LookupStep ==
  ASSUME Inv, NEW w \in Worker, Exchange(w) \/ LinkFound(w) \/ NoLinkFound(w)
  PROVE  Inv'
<1> USE DEF SessionInv, Position, Inserts, FollowsLink, ChosenActive, ByLink,
            WithoutLink, Chosen
<1>1. SessionInv(txn[w]) /\ txn[w] \in Txn
  BY DEF Inv
<1>2. CASE Exchange(w)
  <2> DEFINE y == [txn[w] EXCEPT !.pc = "lookup",
                                 !.email = profile[txn[w].identity]]
  <2>1. txn[w].pc = "exchanging" /\ Advance(w, y)
    BY <1>2 DEF Exchange
  <2>2. profile[txn[w].identity] \in Email
    BY <1>1, <2>1 DEF Inv, TypeOK
  <2>3. SessionInv(y)
    BY <1>1, <2>1, <2>2 DEF Txn
  <2>4. QED
    BY <1>1, <2>1, <2>3, SamePlaceStep DEF Txn
<1>3. CASE LinkFound(w)
  <2>1. PICK l \in Linked :
          /\ LinksOf(txn[w].identity) = {l}
          /\ Advance(w, [txn[w] EXCEPT !.pc = "owner", !.link = l,
                           !.user = user_oauth_providers[l].user_id])
    BY <1>3 DEF LinkFound
  <2> DEFINE y == [txn[w] EXCEPT !.pc = "owner", !.link = l,
                                 !.user = user_oauth_providers[l].user_id]
  <2>2. txn[w].pc = "lookup"
    BY <1>3 DEF LinkFound
  <2>3. /\ l \in LinkId /\ user_oauth_providers[l].user_id \in Registered
        /\ user_oauth_providers[l].user_id \in User
    BY DEF Inv, TypeOK
  <2>4. OwnersOf(txn[w].identity) = {user_oauth_providers[l].user_id}
    BY <2>1 DEF OwnersOf
  <2>5. SessionInv(y)
    BY <1>1, <2>2, <2>3, <2>4 DEF Txn
  <2>6. QED
    BY <1>1, <2>1, <2>2, <2>5, SamePlaceStep DEF Txn
<1>4. CASE NoLinkFound(w)
  <2> DEFINE y == [txn[w] EXCEPT !.pc = "finding"]
  <2>1. /\ txn[w].pc = "lookup" /\ Advance(w, y)
        /\ LinksOf(txn[w].identity) = {}
    BY <1>4 DEF NoLinkFound, LinkMissing
  <2>2. txn[w].owners = {}
    BY <1>1, <2>1 DEF OwnersOf
  <2>3. txn[w].email \in Email
    BY <1>1, <2>1
  <2>4. SessionInv(y)
    BY <1>1, <2>1, <2>2, <2>3 DEF Txn
  <2>5. QED
    BY <1>1, <2>1, <2>4, SamePlaceStep DEF Txn
<1>5. QED
  BY <1>2, <1>3, <1>4

\* The account is found active, the link refreshed, the user touched, the
\* tokens issued.
LEMMA ChooseStep ==
  ASSUME Inv, NEW w \in Worker,
         \/ OwnerActive(w) \/ RefreshLink(w) \/ FindUser(w) \/ FindNoUser(w)
         \/ TouchUser(w) \/ IssueSession(w) \/ IssueFails(w)
  PROVE  Inv'
<1> USE DEF SessionInv, Position, Inserts, FollowsLink, ChosenActive, ByLink,
            WithoutLink, Chosen
<1>1. SessionInv(txn[w]) /\ txn[w] \in Txn
  BY DEF Inv
<1>2. CASE OwnerActive(w)
  <2> DEFINE y == [txn[w] EXCEPT !.pc = "refreshing"]
  <2>1. /\ txn[w].pc = "owner" /\ Advance(w, y)
        /\ users[txn[w].user].is_active
    BY <1>2 DEF OwnerActive, IsActive
  <2>2. SessionInv(y)
    BY <1>1, <2>1 DEF Txn
  <2>3. QED
    BY <1>1, <2>1, <2>2, SamePlaceStep DEF Txn
<1>3. CASE RefreshLink(w)
  <2> DEFINE y == [txn[w] EXCEPT !.pc = "touching", !.link_locked = TRUE]
  <2>1. txn[w].pc = "refreshing" /\ Advance(w, y)
    BY <1>3 DEF RefreshLink
  <2>2. y \in Txn
    BY <1>1 DEF Txn
  <2>3. SessionInv(y)
    BY <1>1, <2>1, <2>2 DEF Txn
  <2>4. QED
    BY <1>1, <2>1, <2>3, SamePlaceStep DEF Txn
<1>4. CASE FindUser(w)
  <2>1. PICK u \in Registered :
          /\ users[u].is_active
          /\ Advance(w, [txn[w] EXCEPT !.pc = "linking", !.user = u])
    BY <1>4 DEF FindUser, IsActive
  <2> DEFINE y == [txn[w] EXCEPT !.pc = "linking", !.user = u]
  <2>2. txn[w].pc = "finding" /\ u \in User
    BY <1>4 DEF FindUser, Inv, TypeOK
  <2>3. SessionInv(y)
    BY <1>1, <2>1, <2>2 DEF Txn
  <2>4. QED
    BY <1>1, <2>1, <2>2, <2>3, SamePlaceStep DEF Txn
<1>5. CASE FindNoUser(w)
  <2> DEFINE y == [txn[w] EXCEPT !.pc = "creating"]
  <2>1. txn[w].pc = "finding" /\ Advance(w, y)
    BY <1>5 DEF FindNoUser
  <2>2. SessionInv(y)
    BY <1>1, <2>1 DEF Txn
  <2>3. QED
    BY <1>1, <2>1, <2>2, SamePlaceStep DEF Txn
<1>6. CASE TouchUser(w)
  <2> DEFINE y == [txn[w] EXCEPT !.pc = "issuing", !.user_locked = TRUE]
  <2>1. txn[w].pc = "touching" /\ Advance(w, y)
    BY <1>6 DEF TouchUser
  <2>2. y \in Txn
    BY <1>1 DEF Txn
  <2>3. SessionInv(y)
    BY <1>1, <2>1, <2>2 DEF Txn
  <2>4. QED
    BY <1>1, <2>1, <2>3, SamePlaceStep DEF Txn
<1>7. CASE IssueSession(w)
  <2> DEFINE y == [txn[w] EXCEPT !.pc = "closing", !.session = TRUE]
  <2>1. txn[w].pc = "issuing" /\ Advance(w, y)
    BY <1>7 DEF IssueSession
  <2>2. y \in Txn
    BY <1>1 DEF Txn
  <2>3. SessionInv(y)
    BY <1>1, <2>1, <2>2 DEF Txn
  <2>4. QED
    BY <1>1, <2>1, <2>3, SamePlaceStep DEF Txn
<1>8. CASE IssueFails(w)
  <2> DEFINE y == [txn[w] EXCEPT !.pc = "closing"]
  <2>1. txn[w].pc = "issuing" /\ Advance(w, y)
    BY <1>8 DEF IssueFails
  <2>2. SessionInv(y)
    BY <1>1, <2>1 DEF Txn
  <2>3. QED
    BY <1>1, <2>1, <2>2, SamePlaceStep DEF Txn
<1>9. QED
  BY <1>2, <1>3, <1>4, <1>5, <1>6, <1>7, <1>8

\* A new user has an id and an address that nobody has or is inserting.
LEMMA CreateStep ==
  ASSUME Inv, NEW w \in Worker, CreateUser(w)
  PROVE  Inv'
<1>1. PICK u \in User :
        /\ FreshUser(u)
        /\ Advance(w, [txn[w] EXCEPT !.pc = "linking", !.user = u,
                                     !.new_user = TRUE])
  BY DEF CreateUser
<1> DEFINE y == [txn[w] EXCEPT !.pc = "linking", !.user = u, !.new_user = TRUE]
<1>2. /\ txn[w].pc = "creating" /\ txn[w].email \notin KnownEmails
      /\ ~Inserting(txn[w].email)
  BY DEF CreateUser
<1>3. SessionInv(txn[w]) /\ txn[w] \in Txn
  BY DEF Inv, SessionInv
<1>4. /\ y.pc = "linking" /\ y.user = u /\ y.new_user = TRUE
      /\ y.identity = txn[w].identity /\ y.email = txn[w].email
      /\ y.new_link = txn[w].new_link /\ y.session = txn[w].session
      /\ y.owners = txn[w].owners /\ y.barred = txn[w].barred
      /\ y \in Txn
  BY <1>3 DEF Txn
<1> HIDE DEF y
<1>5. SessionInv(y)
  BY <1>1, <1>2, <1>3, <1>4 DEF SessionInv, Position, Inserts, FollowsLink,
     ChosenActive, ByLink, WithoutLink, Chosen, FreshUser
<1>6. ~y.new_link
  BY <1>2, <1>3, <1>4 DEF SessionInv, Position, WithoutLink
<1>7. ASSUME NEW v \in Worker \ {w} PROVE Apart(y, txn[v]) /\ Apart(txn[v], y)
  BY <1>1, <1>2, <1>4, <1>6 DEF FreshUser, Inserting, Apart
<1>8. QED
  BY <1>1, <1>5, <1>7, LocalStep DEF y

\* A new link has an id that nobody has; that it is the only one of its
\* identity, no constraint says.
LEMMA LinkStep ==
  ASSUME Inv, NEW w \in Worker, LinkIdentity(w)
  PROVE  Inv'
<1>1. PICK l \in LinkId :
        /\ FreshLink(l)
        /\ Advance(w, [txn[w] EXCEPT !.pc = "touching", !.link = l,
                                     !.new_link = TRUE])
  BY DEF LinkIdentity
<1> DEFINE y == [txn[w] EXCEPT !.pc = "touching", !.link = l, !.new_link = TRUE]
<1>2. txn[w].pc = "linking"
  BY DEF LinkIdentity
<1>3. SessionInv(txn[w]) /\ txn[w] \in Txn
  BY DEF Inv, SessionInv
<1>4. /\ y.pc = "touching" /\ y.link = l /\ y.new_link = TRUE
      /\ y.identity = txn[w].identity /\ y.email = txn[w].email
      /\ y.user = txn[w].user
      /\ y.new_user = txn[w].new_user /\ y.session = txn[w].session
      /\ y.owners = txn[w].owners /\ y.barred = txn[w].barred
      /\ y \in Txn
  BY <1>3 DEF Txn
<1> HIDE DEF y
<1>5. SessionInv(y)
  BY <1>1, <1>2, <1>3, <1>4 DEF SessionInv, Position, Inserts, FollowsLink,
     ChosenActive, ByLink, WithoutLink, Chosen, FreshLink
<1>6. ASSUME NEW v \in Worker \ {w} PROVE Apart(y, txn[v]) /\ Apart(txn[v], y)
  <2>1. Apart(txn[w], txn[v]) /\ Apart(txn[v], txn[w]) /\ txn[v].link # l
    BY <1>1 DEF Inv, FreshLink
  <2>2. QED
    BY <1>4, <2>1 DEF Apart
<1>7. QED
  BY <1>1, <1>5, <1>6, LocalStep DEF y

-----------------------------------------------------------------------------
(* Steps that change the tables *)

\* What a request has read outlives a step of others, if rows are added, not
\* removed, and no deactivation is undone.
LEMMA OthersKept ==
  ASSUME Inv, NEW v \in Worker, txn'[v] = txn[v],
         Registered \subseteq Registered', Linked \subseteq Linked',
         \A u \in Registered :
           /\ users'[u].email = users[u].email
           /\ ~users[u].is_active => ~users'[u].is_active,
         \A u \in Registered' \ Registered :
           txn[v].new_user =>
             u # txn[v].user /\ users'[u].email # txn[v].email,
         \A l \in Linked : user_oauth_providers'[l] = user_oauth_providers[l],
         \A l \in Linked' \ Linked : txn[v].new_link => l # txn[v].link
  PROVE  SessionInv(txn[v])'
<1> DEFINE z == txn[v]
<1>1. SessionInv(z)
  BY DEF Inv
<1>2. OwnersOf(z.identity) \subseteq OwnersOf(z.identity)'
  BY DEF OwnersOf, LinksOf
<1>3. Inserts(z)'
  <2>1. ASSUME z.new_user, z.email \in KnownEmails' PROVE FALSE
    <3>1. PICK u \in Registered' : users'[u].email = z.email
      BY <2>1 DEF KnownEmails
    <3>2. z.email \notin KnownEmails
      BY <1>1, <2>1 DEF SessionInv, Inserts
    <3>3. QED
      BY <2>1, <3>1, <3>2 DEF KnownEmails
  <2>2. QED
    BY <1>1, <2>1 DEF SessionInv, Inserts, ByLink, Chosen
<1>4. Position(z)' /\ FollowsLink(z)'
  BY <1>1, <1>2 DEF SessionInv, Position, FollowsLink, ByLink, WithoutLink,
     Chosen
<1>5. ChosenActive(z)'
  BY <1>1 DEF SessionInv, ChosenActive, Chosen
<1>6. QED
  BY <1>1, <1>3, <1>4, <1>5 DEF SessionInv

\* Others create users and deactivate them, and people change addresses.
LEMMA OutsideStep ==
  ASSUME Inv, SignUpByMail \/ Deactivate \/ ChangeProfile
  PROVE  Inv'
<1>1. CASE SignUpByMail
  <2>1. PICK e \in Email, u \in User :
          /\ e \notin KnownEmails /\ ~Inserting(e) /\ FreshUser(u)
          /\ users' = [v \in Registered \cup {u} |->
                         IF v = u THEN [email |-> e, is_active |-> TRUE,
                                        via_oauth |-> FALSE]
                                  ELSE users[v]]
    BY <1>1 DEF SignUpByMail
  <2>2. UNCHANGED <<user_oauth_providers, profile, txn>>
    BY <1>1 DEF SignUpByMail
  <2>3. /\ Registered' = Registered \cup {u} /\ u \notin Registered
        /\ \A v \in Registered : users'[v] = users[v]
        /\ users'[u] = [email |-> e, is_active |-> TRUE, via_oauth |-> FALSE]
    BY <2>1 DEF Registered, FreshUser
  <2>4. /\ users'[u] \in UserRow /\ users'[u].email = e
        /\ ~users'[u].via_oauth
    BY <2>3 DEF UserRow
  <2>5. TypeOK'
    BY <2>1, <2>2, <2>3, <2>4 DEF Inv, TypeOK, Linked
  <2>6. TableInv'
    <3>1. NoUnlinkedAccount'
      BY <2>2, <2>3, <2>4 DEF Inv, TableInv, NoUnlinkedAccount, Linked
    <3>2. EmailsUnique'
      BY <2>1, <2>3, <2>4 DEF Inv, TableInv, EmailsUnique, KnownEmails
    <3>3. QED
      BY <3>1, <3>2 DEF TableInv
  <2>7. ASSUME NEW v \in Worker PROVE SessionInv(txn[v])'
    <3>1. txn[v].new_user => u # txn[v].user /\ e # txn[v].email
      BY <2>1 DEF FreshUser, Inserting
    <3>2. QED
      BY <2>2, <2>3, <2>4, <3>1, OthersKept DEF Linked
  <2>8. QED
    BY <2>2, <2>5, <2>6, <2>7 DEF Inv, Apart
<1>2. CASE Deactivate
  <2>1. PICK u \in Registered : users' = [users EXCEPT ![u].is_active = FALSE]
    BY <1>2 DEF Deactivate
  <2>2. UNCHANGED <<user_oauth_providers, profile, txn>>
    BY <1>2 DEF Deactivate
  <2>3. Registered' = Registered
    BY <2>1 DEF Registered
  <2>4. ASSUME NEW v \in Registered
        PROVE  /\ users'[v] \in UserRow
               /\ users'[v].email = users[v].email
               /\ users'[v].via_oauth = users[v].via_oauth
               /\ ~users[v].is_active => ~users'[v].is_active
    <3>1. users[v] \in UserRow
      BY DEF Inv, TypeOK
    <3>2. CASE v # u
      BY <2>1, <3>1, <3>2 DEF Registered
    <3>3. CASE v = u
      <4>1. users'[v] = [users[v] EXCEPT !.is_active = FALSE]
        BY <2>1, <3>3 DEF Registered
      <4>2. users'[v] \in UserRow /\ users'[v].is_active = FALSE
        BY <3>1, <4>1 DEF UserRow
      <4>3. /\ users'[v].email = users[v].email
            /\ users'[v].via_oauth = users[v].via_oauth
        BY <3>1, <4>1 DEF UserRow
      <4>4. QED
        BY <4>2, <4>3
    <3>4. QED
      BY <3>2, <3>3
  <2>5. TypeOK'
    BY <2>1, <2>2, <2>3, <2>4 DEF Inv, TypeOK, Registered, Linked
  <2>6. TableInv'
    BY <2>2, <2>3, <2>4 DEF Inv, TableInv, NoUnlinkedAccount, EmailsUnique, Linked
  <2>7. ASSUME NEW v \in Worker PROVE SessionInv(txn[v])'
    BY <2>2, <2>3, <2>4, OthersKept DEF Linked
  <2>8. QED
    BY <2>2, <2>5, <2>6, <2>7 DEF Inv, Apart
<1>3. CASE ChangeProfile
  <2>1. UNCHANGED <<users, user_oauth_providers, txn>>
        /\ profile' \in [Identity -> Email]
    BY <1>3 DEF ChangeProfile, Inv, TypeOK
  <2>2. TypeOK' /\ TableInv'
    BY <2>1 DEF Inv, TypeOK, TableInv, NoUnlinkedAccount, EmailsUnique,
       Registered, Linked
  <2>3. ASSUME NEW v \in Worker PROVE SessionInv(txn[v])'
    BY <2>1, OthersKept DEF Registered, Linked
  <2>4. QED
    BY <2>1, <2>2, <2>3 DEF Inv, Apart
<1>4. QED
  BY <1>1, <1>2, <1>3

\* The tables after a commit: a new user has a new link.
LEMMA CommitTables ==
  ASSUME Inv, NEW w \in Worker, Commit(w)
  PROVE  /\ Registered' = Registered \cup {v \in {txn[w].user} : txn[w].new_user}
         /\ Linked' = Linked \cup {k \in {txn[w].link} : txn[w].new_link}
         /\ \A u \in Registered : users'[u] = users[u]
         /\ \A l \in Linked : user_oauth_providers'[l] = user_oauth_providers[l]
         /\ txn[w].new_user => users'[txn[w].user].email = txn[w].email
         /\ Registered' \subseteq User /\ users' \in [Registered' -> UserRow]
         /\ Linked' \subseteq LinkId
         /\ user_oauth_providers' \in [Linked' -> LinkRow]
         /\ \A l \in Linked' : user_oauth_providers'[l].user_id \in Registered'
         /\ TableInv'
<1> DEFINE x == txn[w]
           user == [email |-> x.email, is_active |-> TRUE, via_oauth |-> TRUE]
           link == [identity |-> x.identity, user_id |-> x.user]
<1>1. /\ users' = [u \in Registered \cup {v \in {x.user} : x.new_user} |->
                     IF u = x.user /\ x.new_user THEN user ELSE users[u]]
      /\ user_oauth_providers' =
           [l \in Linked \cup {k \in {x.link} : x.new_link} |->
              IF l = x.link /\ x.new_link THEN link ELSE user_oauth_providers[l]]
      /\ x.pc = "closing"
  BY DEF Commit, UsersAfter, LinksAfter
<1>2. /\ x.identity \in Identity
      /\ x.new_user =>
           /\ x.user \in User /\ x.email \in Email /\ x.new_link
           /\ x.user \notin Registered /\ x.email \notin KnownEmails
      /\ x.new_link => x.link \in LinkId /\ x.link \notin Linked
      /\ x.user \in Registered \/ x.new_user
  BY <1>1 DEF Inv, SessionInv, Position, Inserts, Chosen
<1>3. /\ Registered' = Registered \cup {v \in {x.user} : x.new_user}
      /\ Linked' = Linked \cup {k \in {x.link} : x.new_link}
  BY <1>1 DEF Registered, Linked
<1>4. /\ \A u \in Registered : users'[u] = users[u]
      /\ \A l \in Linked : user_oauth_providers'[l] = user_oauth_providers[l]
      /\ x.new_user => users'[x.user] = user
      /\ x.new_link => user_oauth_providers'[x.link] = link
  BY <1>1, <1>2
<1>5. /\ x.new_user => user \in UserRow
      /\ x.user \in User /\ x.user \in Registered'
      /\ link \in LinkRow
  BY <1>2, <1>3 DEF Inv, TypeOK, UserRow, LinkRow
<1>6. user.email = x.email /\ link.user_id = x.user
  OBVIOUS
<1> HIDE DEF user, link
<1>7. Registered' \subseteq User /\ users' \in [Registered' -> UserRow]
  BY <1>1, <1>2, <1>3, <1>5 DEF Inv, TypeOK
<1>8. /\ Linked' \subseteq LinkId
      /\ user_oauth_providers' \in [Linked' -> LinkRow]
      /\ \A l \in Linked' : user_oauth_providers'[l].user_id \in Registered'
  BY <1>1, <1>2, <1>3, <1>4, <1>5, <1>6 DEF Inv, TypeOK
<1>9. NoUnlinkedAccount'
  <2> SUFFICES ASSUME NEW u \in Registered', users'[u].via_oauth
               PROVE  \E l \in Linked' : user_oauth_providers'[l].user_id = u
    BY DEF NoUnlinkedAccount
  <2>1. CASE u \in Registered
    BY <1>3, <1>4, <2>1 DEF Inv, TableInv, NoUnlinkedAccount
  <2>2. CASE u = x.user /\ x.new_user
    BY <1>2, <1>3, <1>4, <1>6, <2>2
  <2>3. QED
    BY <1>3, <2>1, <2>2
<1>10. EmailsUnique'
  BY <1>2, <1>3, <1>4, <1>6 DEF Inv, TableInv, EmailsUnique, KnownEmails
<1>11. QED
  BY <1>3, <1>4, <1>6, <1>7, <1>8, <1>9, <1>10 DEF TableInv

\* Every commit keeps Inv.
LEMMA CommitStep ==
  ASSUME Inv, NEW w \in Worker, Commit(w)
  PROVE  Inv'
<1>1. Idle \in Txn
  BY DEF Idle, Txn
<1>2. /\ txn' \in [Worker -> Txn] /\ txn'[w] = Idle
      /\ \A v \in Worker \ {w} : txn'[v] = txn[v]
      /\ profile' = profile
  BY <1>1 DEF Commit, Inv, TypeOK
<1>3. TypeOK' /\ TableInv'
  BY <1>2, CommitTables DEF Inv, TypeOK
<1>4. SessionInv(txn[w])'
  BY <1>1, <1>2 DEF Idle, SessionInv, Position, Inserts, FollowsLink,
     ChosenActive, ByLink, WithoutLink, Chosen
<1>5. ASSUME NEW v \in Worker \ {w} PROVE SessionInv(txn[v])'
  <2>1. Apart(txn[w], txn[v])
    BY DEF Inv
  <2>2. \A u \in Registered' \ Registered :
          txn[v].new_user => u # txn[v].user /\ users'[u].email # txn[v].email
    BY <2>1, CommitTables DEF Apart
  <2>3. \A l \in Linked' \ Linked : txn[v].new_link => l # txn[v].link
    BY <2>1, CommitTables DEF Apart
  <2>4. QED
    BY <1>2, <2>2, <2>3, CommitTables, OthersKept
<1>6. ASSUME NEW v \in Worker, NEW u \in Worker, v # u
      PROVE  Apart(txn[v], txn[u])'
  <2>1. Apart(txn'[v], txn'[u])
    BY <1>2, <1>6 DEF Inv, Idle, Apart
  <2>2. QED
    BY <2>1 DEF Apart
<1>7. QED
  BY <1>3, <1>4, <1>5, <1>6 DEF Inv

-----------------------------------------------------------------------------
(* The theorems *)

\* Init establishes the invariant.
LEMMA Initially == Init => Inv
<1> SUFFICES ASSUME Init PROVE Inv
  OBVIOUS
<1>1. Idle \in Txn
  BY DEF Idle, Txn
<1>2. TypeOK
  BY <1>1 DEF Init, TypeOK, Registered, Linked
<1>3. TableInv
  BY DEF Init, TableInv, NoUnlinkedAccount, EmailsUnique, Registered
<1>4. SessionInv(Idle) /\ Apart(Idle, Idle)
  BY <1>1 DEF Idle, SessionInv, Position, Inserts, FollowsLink, ChosenActive,
     ByLink, WithoutLink, Chosen, Apart
<1>5. QED
  BY <1>2, <1>3, <1>4 DEF Init, Inv

\* Every step keeps it.
LEMMA Inductive == Inv /\ [Next]_vars => Inv'
<1> SUFFICES ASSUME Inv, [Next]_vars PROVE Inv'
  OBVIOUS
<1>1. CASE UNCHANGED vars
  <2>1. TypeOK' /\ TableInv'
    BY <1>1 DEF vars, Inv, TypeOK, TableInv, NoUnlinkedAccount, EmailsUnique,
       Registered, Linked
  <2>2. ASSUME NEW v \in Worker PROVE SessionInv(txn[v])'
    BY <1>1, OthersKept DEF vars, Registered, Linked
  <2>3. QED
    BY <1>1, <2>1, <2>2 DEF vars, Inv, Apart
<1>2. CASE SignUpByMail \/ Deactivate \/ ChangeProfile
  BY <1>2, OutsideStep
<1>3. ASSUME NEW w \in Worker, StartComplete(w) PROVE Inv'
  BY <1>3, BeginStep
<1>4. ASSUME NEW w \in Worker, Serve(w) PROVE Inv'
  BY <1>4, LookupStep, ChooseStep, CreateStep, LinkStep, CommitStep, EndStep
     DEF Serve, ExchangeFails, LinkAmbiguous, OwnerInactive, FindInactiveUser,
         CreateUserConflicts, Refuse
<1>5. ASSUME NEW w \in Worker, Crash(w) PROVE Inv'
  BY <1>5, EndStep DEF Crash
<1>6. QED
  BY <1>1, <1>2, <1>3, <1>4, <1>5 DEF Next

\* Inv is an invariant of OAuthUpsert.
THEOREM Invariance == Spec => []Inv
  BY Initially, Inductive, PTL DEF Spec

\* TypeOK for every value of the constants.
THEOREM TypeCorrect == Spec => []TypeOK
<1>1. Inv => TypeOK
  BY DEF Inv
<1>2. QED
  BY <1>1, Invariance, PTL

\* A linked identity signs in to the account it is linked to, whichever
\* address the provider reports and whoever registers it meanwhile.
THEOREM LinksOutliveEmails == Spec => []LinkOutlivesEmail
<1>1. Inv => LinkOutlivesEmail
  BY DEF Inv, SessionInv, Position, FollowsLink, Chosen, LinkOutlivesEmail
<1>2. QED
  BY <1>1, Invariance, PTL

\* A completion that arrives after the deactivation gets no session.
THEOREM DeactivatedOut == Spec => []DeactivatedStaysOut
<1>1. Inv => DeactivatedStaysOut
  BY DEF Inv, SessionInv, Position, ChosenActive, Chosen, DeactivatedStaysOut
<1>2. QED
  BY <1>1, Invariance, PTL

\* An account that a completion creates is linked from its commit on.
THEOREM AccountsAreLinked == Spec => []NoUnlinkedAccount
<1>1. Inv => NoUnlinkedAccount
  BY DEF Inv, TableInv
<1>2. QED
  BY <1>1, Invariance, PTL

\* First sign-ins that race, by OAuth or by mail, make one account of an
\* address.
THEOREM AccountsUnique == Spec => []EmailsUnique
<1>1. Inv => EmailsUnique
  BY DEF Inv, TableInv
<1>2. QED
  BY <1>1, Invariance, PTL
=============================================================================
