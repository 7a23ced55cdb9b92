---------------------------- MODULE AccessProofs ----------------------------
(* Theorems about the memberships of Access, for every number of people,    *)
(* requests, invitations, sessions and revisions.                           *)
EXTENDS Access, FiniteSetTheorems, TLAPS

AnyRole == Roles \cup {"none"}

(* A version names one membership: zero is no membership, and no version is *)
(* ahead of the workspace's revision.                                       *)
Versioned(m) == m.version <= policy /\ (m.version = 0 <=> m.role = "none")

(* What a request's author saw is what is there, or its version is gone.    *)
SeenIsNamed(q) ==
    /\ Versioned(q.seen)
    /\ member[q.target].version = q.seen.version => member[q.target] = q.seen

(* What Check found when it took the lock.                                  *)
Permitted(q) ==
    \/ q.kind = "change" /\ MayChange(q)
    \/ q.kind = "transfer" /\ MayTransfer(q)
    \/ q.kind = "issue" /\ MayIssue(q)

(* A request that has checked still satisfies what it checked.              *)
StillGood(q) ==
    /\ q.pc # "idle" => q.target \in Users
    /\ q.kind # "login" => q.actor \in Users /\ q.target \in Users /\ SeenIsNamed(q)
    /\ q.kind = "transfer" => q.actor # q.target
    /\ q.pc \notin {"checked", "written"} => q.lock = "none"
    /\ q.kind # "login" /\ q.pc \in {"checked", "written"} => q.lock = "update" /\ Permitted(q)
    /\ q.kind = "login" => q.pc # "checked"
    /\ q.kind = "login" /\ q.pc = "written" /\ q.proof # None => q.lock = "update" /\ Redeemable(q)

MembersVersioned == \A u \in Users : Versioned(member[u])

RequestsGood == \A r \in Requests : StillGood(request[r])

(* Nobody else holds the workspace's row while it is locked for update.     *)
OneUpdater ==
    \A r, p \in Requests : r # p /\ request[r].lock = "update" => request[p].lock = "none"

IInv ==
    /\ TypeOK
    /\ MembersVersioned
    /\ RequestsGood
    /\ OneUpdater
    /\ AlwaysAnOwner

-----------------------------------------------------------------------------
(* Roles *)

(* The rank of each role. *)
LEMMA RankOf ==
  /\ Rank["none"] = 0 /\ Rank["viewer"] = 1 /\ Rank["operator"] = 2
  /\ Rank["admin"] = 3 /\ Rank["owner"] = 4
  BY DEF Rank

(* Every role has a rank. *)
LEMMA RankType == \A x \in AnyRole : Rank[x] \in 0..4
  BY RankOf DEF AnyRole, Roles

(* A role allows itself, and only admins and owners are allowed an admin's. *)
LEMMA AllowsFacts ==
  ASSUME NEW x \in AnyRole
  PROVE  /\ Allows(x, x)
         /\ Allows(x, "admin") => x \in {"admin", "owner"}
  BY RankOf DEF AnyRole, Roles, Allows

(* Only an owner assigns the roles that have authority over others. *)
LEMMA OwnersAssign ==
  ASSUME NEW a, NEW x \in {"admin", "owner"}, CanAssign(a, x)
  PROVE  a = "owner"
  BY DEF CanAssign

-----------------------------------------------------------------------------
(* The constants, as the provers need them. *)
LEMMA ConstantFacts ==
  /\ None \notin Users /\ None \notin Requests /\ None \notin Sessions
  /\ None \notin Challenges /\ None \notin Proofs
  /\ Creator \in Users /\ IsFiniteSet(Users)
  BY AccessAssumption

(* The rows that stand for nothing are well formed. *)
LEMMA RowTypes ==
  /\ Absent \in Member /\ Absent.role = "none" /\ Absent.version = 0
  /\ Unissued \in Invitation
  /\ Unborn \in Session
  /\ NoChallenge \in Challenge
  /\ Idle \in Request
  /\ Idle.pc = "idle" /\ Idle.kind = "login" /\ Idle.lock = "none"
  <1>1. Absent \in Member /\ Absent.role = "none" /\ Absent.version = 0
    BY DEF Absent, Member, Roles
  <1>2. Idle \in Request
    BY <1>1 DEF Idle, Request
  <1>3. QED
    BY <1>1, <1>2 DEF Unissued, Invitation, Unborn, Session, NoChallenge, Challenge, Idle

(* A request keeps its form when its locks and deletions are noted. *)
LEMMA WrittenRequest ==
  ASSUME NEW o \in Request, NEW l \in {"none", "share", "update"}, NEW d \in SUBSET Sessions
  PROVE  [o EXCEPT !.lock = l, !.doomed = d] \in Request
  <1> DEFINE p == [o EXCEPT !.lock = l]
  <1>1. p \in Request
    BY DEF Request
  <1>2. [o EXCEPT !.lock = l, !.doomed = d] = [p EXCEPT !.doomed = d]
    BY DEF Request
  <1> HIDE DEF p
  <1>3. [p EXCEPT !.doomed = d] \in Request
    BY <1>1 DEF Request
  <1>4. QED
    BY <1>2, <1>3

(* An idle request is good. *)
LEMMA IdleGood == StillGood(Idle)
  BY RowTypes DEF StillGood

(* A new workspace, with its creator as owner. *)
LEMMA InitIInv ==
  ASSUME Init
  PROVE  IInv
  <1> USE DEF Init
  <1> DEFINE first == [role |-> "owner", version |-> 1]
  <1>1. first \in Member /\ first.role = "owner" /\ first.version = 1
    BY DEF Member, Roles
  <1>2. TypeOK
    BY <1>1, RowTypes DEF TypeOK
  <1>3. MembersVersioned
    BY <1>1, RowTypes DEF MembersVersioned, Versioned
  <1>4. RequestsGood
    BY IdleGood DEF RequestsGood
  <1>5. OneUpdater
    BY RowTypes DEF OneUpdater
  <1>6. AlwaysAnOwner
    BY <1>1, ConstantFacts DEF AlwaysAnOwner, Owners
  <1>7. QED
    BY <1>2, <1>3, <1>4, <1>5, <1>6 DEF IInv

-----------------------------------------------------------------------------
(* Steps that leave memberships and invitations alone *)

(* A request moves on, and only sessions and challenges change with it. *)
LEMMA QuietKeepsIInv ==
  ASSUME IInv, NEW r \in Requests, NEW q \in Request,
         request' = [request EXCEPT ![r] = q],
         UNCHANGED <<other, member, policy, invitation>>,
         session' \in [Sessions -> Session], challenge' \in [Challenges -> Challenge],
         StillGood(q),
         q.lock = "update" => MayUpdate(r),
         q.lock # "none" => MayShare(r)
  PROVE  IInv'
  <1>1. /\ request \in [Requests -> Request]
        /\ request' \in [Requests -> Request]
        /\ request'[r] = q
        /\ \A p \in Requests : p # r => request'[p] = request[p]
    BY DEF IInv, TypeOK
  <1>2. TypeOK'
    BY <1>1 DEF IInv, TypeOK
  <1>3. MembersVersioned' /\ AlwaysAnOwner'
    BY DEF IInv, MembersVersioned, Versioned, AlwaysAnOwner, Owners
  <1>4. RequestsGood'
    <2> SUFFICES ASSUME NEW p \in Requests
                 PROVE  StillGood(request[p])'
      BY DEF RequestsGood
    <2>1. StillGood(request'[p])
      BY <1>1 DEF IInv, RequestsGood
    <2>2. QED
      BY <2>1 DEF StillGood, SeenIsNamed, Versioned, Permitted, MayChange, MayTransfer, MayIssue,
                  Redeemable, Owners
  <1>5. OneUpdater'
    <2> SUFFICES ASSUME NEW x \in Requests, NEW y \in Requests, x # y,
                        request'[x].lock = "update"
                 PROVE  request'[y].lock = "none"
      BY DEF OneUpdater
    <2>1. CASE x = r
      BY <2>1, <1>1 DEF MayUpdate
    <2>2. CASE y = r /\ x # r
      BY <2>2, <1>1 DEF MayShare
    <2>3. CASE x # r /\ y # r
      BY <2>3, <1>1 DEF IInv, OneUpdater
    <2>4. QED
      BY <2>1, <2>2, <2>3
  <1>6. QED
    BY <1>2, <1>3, <1>4, <1>5 DEF IInv

(* A request that ends without a trace: it is denied, or had nothing to     *)
(* change.                                                                  *)
LEMMA EndIInv ==
  ASSUME IInv, NEW r \in Requests,
         request' = [request EXCEPT ![r] = Idle],
         UNCHANGED <<other, member, policy, invitation, challenge>>,
         session' \in [Sessions -> Session]
  PROVE  IInv'
  <1>1. challenge' \in [Challenges -> Challenge]
    BY DEF IInv, TypeOK
  <1>2. QED
    BY <1>1, QuietKeepsIInv, RowTypes, IdleGood

(* A request is sent with the memberships its author saw. *)
LEMMA SendIInv ==
  ASSUME IInv, NEW r \in Requests, Send(r)
  PROVE  IInv'
  <1>1. PICK kind \in Kinds, a \in Users, t \in Users, role \in Roles \cup {"none"} :
          /\ SessionsOf(a) # {}
          /\ Allows(member[a].role, "viewer")
          /\ kind # "change" => a # t /\ role # "none"
          /\ kind = "transfer" => role \in {"admin", "owner"}
          /\ request' = [request EXCEPT ![r] =
                           [Idle EXCEPT !.pc = "sent", !.kind = kind, !.actor = a, !.target = t,
                                        !.role = role, !.own = member[a], !.seen = member[t]]]
    BY Zenon DEF Send
  <1> DEFINE q == [Idle EXCEPT !.pc = "sent", !.kind = kind, !.actor = a, !.target = t,
                               !.role = role, !.own = member[a], !.seen = member[t]]
  <1>2. kind \in {"change", "transfer", "issue"}
    BY AccessAssumption
  <1>3. member[a] \in Member /\ member[t] \in Member
    BY DEF IInv, TypeOK
  <1>4. q \in Request
    BY <1>2, <1>3, RowTypes DEF Request
  <1>5. /\ q.pc = "sent" /\ q.kind = kind /\ q.actor = a /\ q.target = t
        /\ q.seen = member[t] /\ q.lock = "none"
    BY DEF Idle
  <1>6. StillGood(q)
    BY <1>1, <1>2, <1>5 DEF StillGood, SeenIsNamed, IInv, MembersVersioned
  <1>7. session' \in [Sessions -> Session] /\ challenge' \in [Challenges -> Challenge]
    BY DEF IInv, TypeOK, Send
  <1>8. UNCHANGED <<other, member, policy, invitation>>
    BY DEF Send
  <1>9. request' = [request EXCEPT ![r] = q]
    BY <1>1
  <1> HIDE DEF q
  <1>10. QED
    BY <1>4, <1>5, <1>6, <1>7, <1>8, <1>9, QuietKeepsIInv

(* The lock is taken only when nobody holds one, with the checks satisfied. *)
LEMMA CheckIInv ==
  ASSUME IInv, NEW r \in Requests, Check(r)
  PROVE  IInv'
  <1> DEFINE o == request[r]
             q == [o EXCEPT !.pc = "checked", !.lock = "update"]
  <1>1. o \in Request /\ StillGood(o) /\ request \in [Requests -> Request]
    BY DEF IInv, TypeOK, RequestsGood
  <1>2. o.pc = "sent" /\ o.kind # "login" /\ MayUpdate(r) /\ Permitted(o)
    BY DEF Check, Permitted
  <1>3. /\ q \in Request
        /\ q.pc = "checked" /\ q.lock = "update" /\ q.kind = o.kind
        /\ q.actor = o.actor /\ q.target = o.target /\ q.role = o.role /\ q.own = o.own
        /\ q.seen = o.seen /\ q.proof = o.proof
    <2>1. q \in Request
      BY <1>1, ZenonT(40) DEF Request
    <2>2. q.pc = "checked" /\ q.lock = "update" /\ q.kind = o.kind
      BY <1>1 DEF Request
    <2>3. q.actor = o.actor /\ q.target = o.target /\ q.role = o.role
      BY <1>1 DEF Request
    <2>4. q.own = o.own /\ q.seen = o.seen /\ q.proof = o.proof
      BY <1>1 DEF Request
    <2>5. QED
      BY <2>1, <2>2, <2>3, <2>4
  <1>4. Permitted(q)
    BY <1>2, <1>3 DEF Permitted, MayChange, MayTransfer, MayIssue
  <1>5. StillGood(q)
    BY <1>1, <1>2, <1>3, <1>4 DEF StillGood, SeenIsNamed
  <1>6. MayShare(r)
    BY <1>2 DEF MayUpdate, MayShare
  <1>7. request' = [request EXCEPT ![r] = q] /\ UNCHANGED <<other, member, policy, invitation>>
    BY <1>1 DEF Check
  <1>8. session' \in [Sessions -> Session] /\ challenge' \in [Challenges -> Challenge]
    BY DEF IInv, TypeOK, Check
  <1> HIDE DEF q
  <1>9. QED
    BY <1>2, <1>3, <1>5, <1>6, <1>7, <1>8, QuietKeepsIInv

(* The checks still hold while the transaction writes. *)
LEMMA WriteIInv ==
  ASSUME IInv, NEW r \in Requests, Write(r)
  PROVE  IInv'
  <1> DEFINE o == request[r]
             d == IF o.kind # "issue" /\ Elevated(o.target, NewRole(o)) THEN SessionsOf(o.target) ELSE {}
             q == [o EXCEPT !.pc = "written", !.doomed = d]
  <1>1. o \in Request /\ StillGood(o) /\ request \in [Requests -> Request]
    BY DEF IInv, TypeOK, RequestsGood
  <1>2. o.pc = "checked"
    BY DEF Write
  <1>3. o.kind # "login" /\ o.lock = "update" /\ Permitted(o)
    BY <1>1, <1>2 DEF StillGood
  <1>4. d \in SUBSET Sessions
    BY DEF SessionsOf
  <1>5. request' = [request EXCEPT ![r] = q] /\ UNCHANGED <<other, member, policy, invitation>>
    BY <1>1 DEF Write
  <1> HIDE DEF d
  <1>6. /\ q \in Request /\ q.pc = "written" /\ q.lock = "update" /\ q.kind = o.kind
        /\ q.actor = o.actor /\ q.target = o.target /\ q.role = o.role /\ q.own = o.own
        /\ q.seen = o.seen /\ q.proof = o.proof
    BY <1>1, <1>3, <1>4, ZenonT(40) DEF Request
  <1>7. Permitted(q)
    BY <1>3, <1>6 DEF Permitted, MayChange, MayTransfer, MayIssue
  <1>8. StillGood(q)
    BY <1>1, <1>2, <1>3, <1>6, <1>7 DEF StillGood, SeenIsNamed
  <1>9. MayUpdate(r) /\ MayShare(r)
    BY <1>3 DEF IInv, OneUpdater, MayUpdate, MayShare
  <1>10. session' \in [Sessions -> Session] /\ challenge' \in [Challenges -> Challenge]
    BY DEF IInv, TypeOK, Write
  <1> HIDE DEF q
  <1>11. QED
    BY <1>5, <1>6, <1>8, <1>9, <1>10, QuietKeepsIInv

(* A callback begins without a lock. *)
LEMMA ConsumeIInv ==
  ASSUME IInv, NEW r \in Requests, Consume(r)
  PROVE  IInv'
  <1>1. PICK k \in Challenges, u \in Users :
          /\ challenge' = Consumed(k)
          /\ request' = [request EXCEPT ![r] =
                           [Idle EXCEPT !.pc = "sent", !.target = u, !.by = k,
                                        !.proof = challenge[k].proof, !.bound = challenge[k].bound]]
    BY DEF Consume
  <1> DEFINE q == [Idle EXCEPT !.pc = "sent", !.target = u, !.by = k,
                               !.proof = challenge[k].proof, !.bound = challenge[k].bound]
  <1>2. challenge \in [Challenges -> Challenge] /\ challenge[k] \in Challenge
    BY DEF IInv, TypeOK
  <1>3. challenge' \in [Challenges -> Challenge]
    BY <1>1, <1>2 DEF Consumed, Challenge
  <1>4. q \in Request
    <2>1. challenge[k].proof \in Proofs \cup {None} /\ challenge[k].bound \in Sessions \cup {None}
      BY <1>2 DEF Challenge
    <2>2. QED
      BY <2>1, RowTypes DEF Request
  <1>5. q.pc = "sent" /\ q.kind = "login" /\ q.target = u /\ q.lock = "none"
    BY DEF Idle
  <1>6. StillGood(q)
    BY <1>5 DEF StillGood
  <1>7. session' \in [Sessions -> Session] /\ UNCHANGED <<other, member, policy, invitation>>
    BY DEF IInv, TypeOK, Consume
  <1>8. request' = [request EXCEPT ![r] = q]
    BY <1>1
  <1> HIDE DEF q
  <1>9. QED
    BY <1>3, <1>4, <1>5, <1>6, <1>7, <1>8, QuietKeepsIInv

(* A sign-in locks what it reads, and a redemption for update. *)
LEMMA SignInIInv ==
  ASSUME IInv, NEW r \in Requests, SignIn(r)
  PROVE  IInv'
  <1> DEFINE o == request[r]
             d == IF o.proof = None THEN {} ELSE SessionsOf(o.target)
  <1>1. o \in Request /\ StillGood(o) /\ request \in [Requests -> Request]
    BY DEF IInv, TypeOK, RequestsGood
  <1>2. /\ o.pc = "sent" /\ o.kind = "login"
        /\ o.proof # None => MayUpdate(r) /\ Redeemable(o)
        /\ LocksOf(o) = "share" => MayShare(r)
        /\ UNCHANGED <<other, member, policy, invitation, session, challenge>>
    BY DEF SignIn
  <1>3. PICK new \in Sessions, cookie \in Sessions \cup {None} :
          request' = [request EXCEPT ![r] =
                        [o EXCEPT !.pc = "written", !.new = new, !.old = cookie,
                                  !.lock = LocksOf(o), !.doomed = d]]
    BY DEF SignIn
  <1>4. d \in SUBSET Sessions /\ LocksOf(o) \in {"none", "share", "update"}
    BY DEF SessionsOf, LocksOf
  <1>5. o.proof # None => LocksOf(o) = "update"
    BY DEF LocksOf
  <1>6. LocksOf(o) = "update" => MayUpdate(r)
    BY <1>2 DEF LocksOf
  <1>7. LocksOf(o) # "none" => MayShare(r)
    BY <1>2, <1>4, <1>6 DEF MayUpdate, MayShare
  <1> HIDE DEF d
  <1> DEFINE q == [o EXCEPT !.pc = "written", !.new = new, !.old = cookie,
                            !.lock = LocksOf(o), !.doomed = d]
  <1>8. /\ q \in Request /\ q.pc = "written" /\ q.lock = LocksOf(o) /\ q.kind = o.kind
        /\ q.target = o.target /\ q.proof = o.proof
    <2>1. q \in Request
      <3> DEFINE half == [o EXCEPT !.pc = "written", !.new = new, !.old = cookie]
      <3>1. half \in Request
        BY <1>1 DEF Request
      <3>2. [half EXCEPT !.lock = LocksOf(o), !.doomed = d] \in Request
        <4> HIDE DEF half
        <4>1. QED
          BY <3>1, <1>4, WrittenRequest
      <3>3. q = [half EXCEPT !.lock = LocksOf(o), !.doomed = d]
        OBVIOUS
      <3>4. QED
        BY <3>2, <3>3
    <2>2. q.pc = "written" /\ q.lock = LocksOf(o)
      BY <1>1 DEF Request
    <2>3. q.kind = o.kind /\ q.target = o.target /\ q.proof = o.proof
      BY <1>1 DEF Request
    <2>4. QED
      BY <2>1, <2>2, <2>3
  <1>9. o.proof # None => Redeemable(q)
    BY <1>2, <1>8 DEF Redeemable
  <1>10. StillGood(q)
    BY <1>1, <1>2, <1>5, <1>8, <1>9 DEF StillGood
  <1>11. session' \in [Sessions -> Session] /\ challenge' \in [Challenges -> Challenge]
    BY <1>2 DEF IInv, TypeOK
  <1>12. request' = [request EXCEPT ![r] = q]
    BY <1>3
  <1> HIDE DEF q
  <1>13. QED
    BY <1>2, <1>6, <1>7, <1>8, <1>10, <1>11, <1>12, QuietKeepsIInv

(* A rolled back request changes nothing. *)
LEMMA AbortIInv ==
  ASSUME IInv, NEW r \in Requests, Abort(r)
  PROVE  IInv'
  <1>1. session' \in [Sessions -> Session]
    BY DEF IInv, TypeOK, Abort
  <1>2. QED
    BY <1>1, EndIInv DEF Abort

(* Challenges and sessions begin and end without a request, and people come *)
(* and go elsewhere. *)
LEMMA OutsideIInv ==
  ASSUME IInv, \/ StartChallenge
               \/ \E s \in Sessions : Logout(s)
               \/ \E u \in Users : ChangeElsewhere(u)
  PROVE  IInv'
  <1>1. UNCHANGED <<member, policy, invitation, request>>
    BY DEF StartChallenge, Logout, ChangeElsewhere
  <1>2. session \in [Sessions -> Session] /\ challenge \in [Challenges -> Challenge]
    BY DEF IInv, TypeOK
  <1>3. session' \in [Sessions -> Session] /\ challenge' \in [Challenges -> Challenge]
    <2>1. CASE StartChallenge
      BY <2>1, <1>2 DEF StartChallenge, Challenge
    <2>2. ASSUME NEW s \in Sessions, Logout(s)
          PROVE  session' \in [Sessions -> Session] /\ challenge' = challenge
      <3>1. [session[s] EXCEPT !.state = "gone", !.ended = TRUE] \in Session
        BY <1>2 DEF Session
      <3>2. session' = [session EXCEPT ![s] = [session[s] EXCEPT !.state = "gone", !.ended = TRUE]]
        BY <2>2, <1>2 DEF Logout
      <3>3. QED
        BY <3>1, <3>2, <1>2, <2>2 DEF Logout
    <2>3. ASSUME NEW u \in Users, ChangeElsewhere(u)
          PROVE  UNCHANGED <<session, challenge>>
      BY <2>3 DEF ChangeElsewhere
    <2>4. QED
      BY <2>1, <2>2, <2>3, <1>2
  <1>4. TypeOK'
    <2>1. other' \in [Users -> SUBSET Sides]
      BY DEF StartChallenge, Logout, ChangeElsewhere, IInv, TypeOK
    <2>2. QED
      BY <2>1, <1>1, <1>3 DEF IInv, TypeOK
  <1>5. MembersVersioned' /\ OneUpdater' /\ AlwaysAnOwner'
    BY <1>1 DEF IInv, MembersVersioned, Versioned, OneUpdater, AlwaysAnOwner, Owners
  <1>6. RequestsGood'
    BY <1>1 DEF IInv, RequestsGood, StillGood, SeenIsNamed, Versioned, Permitted, MayChange,
         MayTransfer, MayIssue, Redeemable, Owners
  <1>7. QED
    BY <1>4, <1>5, <1>6 DEF IInv

-----------------------------------------------------------------------------
(* Commits *)

(* A request's rows, as a commit uses them. *)
LEMMA WrittenFacts ==
  ASSUME IInv, NEW r \in Requests, request[r].pc = "written"
  PROVE  /\ request[r] \in Request /\ StillGood(request[r])
         /\ request[r].target \in Users
         /\ request[r].proof \in Proofs \cup {None}
         /\ request[r].role \in AnyRole
         /\ request[r].kind \in {"change", "transfer", "issue", "login"}
         /\ member \in [Users -> Member]
         /\ policy \in Nat
         /\ invitation \in [Proofs -> Invitation]
  <1>1. request[r] \in Request /\ StillGood(request[r])
    BY DEF IInv, TypeOK, RequestsGood
  <1>2. request[r].target \in Users
    BY <1>1 DEF StillGood
  <1>3. QED
    BY <1>1, <1>2 DEF IInv, TypeOK, Request, AnyRole

(* The sessions after a commit are well formed. *)
LEMMA SessionAfterType ==
  ASSUME IInv, NEW r \in Requests, request[r].pc = "written"
  PROVE  SessionAfter(request[r]) \in [Sessions -> Session]
  <1> DEFINE q == request[r]
  <1>1. Invited(q) \in AnyRole
    BY WrittenFacts DEF Invited, Member, Invitation, AnyRole
  <1>2. Rank[Invited(q)] \in 0..4
    BY <1>1, RankType
  <1>3. [state |-> "live", user |-> q.target, from |-> q.bound, by |-> q.by,
         rank |-> Rank[Invited(q)], home |-> q.lock # "none", ended |-> FALSE] \in Session
    <2>1. q.bound \in Sessions \cup {None} /\ q.by \in Challenges \cup {None}
      BY WrittenFacts DEF Request
    <2>2. QED
      BY <2>1, <1>2, WrittenFacts DEF Session
  <1>4. \A s \in Sessions :
          /\ session[s] \in Session
          /\ [session[s] EXCEPT !.state = "gone", !.ended = TRUE] \in Session
          /\ [session[s] EXCEPT !.state = "gone"] \in Session
    BY DEF IInv, TypeOK, Session
  <1>5. QED
    BY <1>3, <1>4 DEF SessionAfter

(* A membership made by a commit has the new revision. *)
LEMMA NewMember ==
  ASSUME policy \in Nat, NEW x \in Roles
  PROVE  LET m == [role |-> x, version |-> policy + 1]
         IN  m \in Member /\ m.role = x /\ m.version = policy + 1
  BY DEF Member

(* If more than one has a role, somebody else than t has it. *)
LEMMA AnotherOne ==
  ASSUME NEW S, NEW t, IsFiniteSet(S), Cardinality(S) > 1
  PROVE  \E u \in S : u # t
  <1> SUFFICES ASSUME S \subseteq {t}
               PROVE  FALSE
    OBVIOUS
  <1>1. IsFiniteSet({t}) /\ Cardinality({t}) = 1
    BY FS_Singleton
  <1>2. Cardinality(S) <= 1 /\ Cardinality(S) \in Nat
    BY <1>1, FS_Subset, FS_CardinalityType
  <1>3. QED
    BY <1>2

(* What a commit does to each membership: nothing, a new one with the new   *)
(* revision, or none any more.                                              *)
Outcome(m) ==
    /\ m \in [Users -> Member]
    /\ \A u \in Users :
         \/ m[u] = member[u]
         \/ m[u].version = policy + 1 /\ m[u].role # "none"
         \/ m[u] = Absent
    /\ \E u \in Users : m[u].role = "owner"

(* AlwaysAnOwner, with its set written out. *)
LEMMA OwnersExist ==
  ASSUME IInv
  PROVE  \E u \in Users : member[u].role = "owner"
  BY DEF IInv, AlwaysAnOwner, Owners

(* ChangeMember never takes the last owner. *)
LEMMA ChangeOutcome ==
  ASSUME IInv, NEW r \in Requests, request[r].pc = "written", request[r].kind = "change"
  PROVE  Outcome(MemberAfter(request[r]))
  <1> DEFINE q == request[r]
             m == IF q.role = "none" THEN Absent ELSE [role |-> q.role, version |-> policy + 1]
  <1>1. MemberAfter(q) = [member EXCEPT ![q.target] = m]
    BY DEF MemberAfter, Revision
  <1>2. MayChange(q)
    BY WrittenFacts DEF StillGood, Permitted
  <1>3. /\ m \in Member
        /\ m = Absent \/ (m.version = policy + 1 /\ m.role # "none")
        /\ m.role = q.role
    <2>1. CASE q.role = "none"
      <3>1. m = Absent
        BY <2>1
      <3> HIDE DEF m
      <3>2. QED
        BY <3>1, <2>1, RowTypes
    <2>2. CASE q.role # "none"
      <3>1. q.role \in Roles
        BY <2>2, WrittenFacts DEF AnyRole
      <3>2. QED
        BY <3>1, <2>2, NewMember, WrittenFacts
    <2>3. QED
      BY <2>1, <2>2
  <1> HIDE DEF m
  <1>4. \E u \in Users : [member EXCEPT ![q.target] = m][u].role = "owner"
    <2>1. CASE q.role = "owner"
      BY <2>1, <1>3, WrittenFacts
    <2>2. CASE q.role # "owner" /\ member[q.target].role = "owner"
      <3>1. Cardinality(Owners) > 1
        BY <2>2, <1>2 DEF MayChange
      <3>2. IsFiniteSet(Owners)
        BY ConstantFacts, FS_Subset DEF Owners
      <3>3. PICK u \in Owners : u # q.target
        BY <3>1, <3>2, AnotherOne, SMTT(30)
      <3>4. QED
        BY <3>3, WrittenFacts DEF Owners
    <2>3. CASE member[q.target].role # "owner"
      BY <2>3, OwnersExist, WrittenFacts
    <2>4. QED
      BY <2>1, <2>2, <2>3
  <1>5. QED
    BY <1>1, <1>3, <1>4, WrittenFacts DEF Outcome

(* Transfer makes an owner before it takes one. *)
LEMMA TransferOutcome ==
  ASSUME IInv, NEW r \in Requests, request[r].pc = "written", request[r].kind = "transfer"
  PROVE  Outcome(MemberAfter(request[r]))
  <1> DEFINE q == request[r]
             o == [role |-> "owner", version |-> policy + 1]
             b == [role |-> "admin", version |-> policy + 1]
  <1>1. /\ q.actor \in Users /\ q.target \in Users /\ q.actor # q.target
    BY WrittenFacts DEF StillGood
  <1>2. /\ o \in Member /\ o.role = "owner" /\ o.version = policy + 1
        /\ b \in Member /\ b.role = "admin" /\ b.version = policy + 1
    BY NewMember, WrittenFacts DEF Roles
  <1>3. MemberAfter(q) = [[member EXCEPT ![q.target] = o]
                            EXCEPT ![q.actor] = IF q.role = "admin" THEN b ELSE member[q.actor]]
    BY <1>1, WrittenFacts DEF MemberAfter, Revision
  <1> HIDE DEF o, b
  <1>4. /\ MemberAfter(q) \in [Users -> Member]
        /\ MemberAfter(q)[q.target] = o
        /\ MemberAfter(q)[q.actor] \in {b, member[q.actor]}
        /\ \A u \in Users : u \notin {q.target, q.actor} => MemberAfter(q)[u] = member[u]
    BY <1>1, <1>2, <1>3, WrittenFacts
  <1>5. QED
    BY <1>1, <1>2, <1>4 DEF Outcome

(* A redemption gives a role to somebody who has none. *)
LEMMA RedemptionOutcome ==
  ASSUME IInv, NEW r \in Requests, request[r].pc = "written", request[r].kind = "login",
         request[r].proof # None
  PROVE  Outcome(MemberAfter(request[r]))
  <1> DEFINE q == request[r]
             x == invitation[q.proof].role
             m == [role |-> x, version |-> policy + 1]
  <1>1. Redeemable(q)
    BY WrittenFacts DEF StillGood
  <1>2. x \in Roles
    <2>1. x # "none"
      BY <1>1 DEF Redeemable, CanAssign
    <2>2. q.proof \in Proofs
      BY WrittenFacts
    <2>3. QED
      BY <2>1, <2>2, WrittenFacts DEF Invitation
  <1>3. m \in Member /\ m.version = policy + 1 /\ m.role # "none"
    BY <1>2, NewMember, WrittenFacts DEF Roles
  <1>4. MemberAfter(q) = [member EXCEPT ![q.target] = m]
    BY DEF MemberAfter, Revision
  <1>5. member[q.target].role = "none"
    BY <1>1 DEF Redeemable
  <1> HIDE DEF m
  <1>6. \E u \in Users : [member EXCEPT ![q.target] = m][u].role = "owner"
    BY <1>5, OwnersExist, WrittenFacts
  <1>7. QED
    BY <1>3, <1>4, <1>6, WrittenFacts DEF Outcome

(* Issuing an invitation changes no membership. *)
LEMMA IssueOutcome ==
  ASSUME IInv, NEW r \in Requests, request[r].pc = "written", request[r].kind = "issue"
  PROVE  Outcome(MemberAfter(request[r]))
  <1>1. MemberAfter(request[r]) = member
    BY DEF MemberAfter
  <1>2. QED
    BY <1>1, OwnersExist, WrittenFacts DEF Outcome

(* The invitations after a commit are well formed. *)
LEMMA InvitationAfterType ==
  ASSUME IInv, NEW r \in Requests, request[r].pc = "written", NEW p \in Proofs \cup {None}
  PROVE  InvitationAfter(request[r], p) \in [Proofs -> Invitation]
  <1> DEFINE q == request[r]
  <1>1. CASE q.kind = "issue" /\ p # None
    <2> DEFINE i == [state |-> "open", inviter |-> q.actor, role |-> q.role,
                     version |-> member[q.actor].version, subject |-> q.target]
    <2>1. q.actor \in Users
      BY <1>1, WrittenFacts DEF StillGood
    <2>2. member[q.actor].version \in Nat
      BY <2>1, WrittenFacts DEF Member
    <2>3. i \in Invitation
      BY <2>1, <2>2, WrittenFacts DEF Invitation, AnyRole
    <2>4. InvitationAfter(q, p) = [invitation EXCEPT ![p] = i]
      BY <1>1 DEF InvitationAfter
    <2> HIDE DEF i
    <2>5. QED
      BY <2>3, <2>4, WrittenFacts
  <1>2. CASE q.kind = "login" /\ q.proof # None
    <2>1. InvitationAfter(q, p) = [invitation EXCEPT ![q.proof] =
                                     [invitation[q.proof] EXCEPT !.state = "gone"]]
      BY <1>2, WrittenFacts DEF InvitationAfter
    <2>2. [invitation[q.proof] EXCEPT !.state = "gone"] \in Invitation
      BY <1>2, WrittenFacts DEF Invitation
    <2>3. QED
      BY <2>1, <2>2, WrittenFacts
  <1>3. CASE ~(q.kind = "issue" /\ p # None) /\ ~(q.kind = "login" /\ q.proof # None)
    BY <1>3, WrittenFacts DEF InvitationAfter
  <1>4. QED
    BY <1>1, <1>2, <1>3

(* A commit under the lock: nobody else has checked anything. *)
LEMMA UpdateIInv ==
  ASSUME IInv, NEW r \in Requests, Commit(r), request[r].lock = "update",
         Outcome(member'), policy' \in {policy, policy + 1},
         member' # member => policy' = policy + 1
  PROVE  IInv'
  <1> DEFINE q == request[r]
  <1>1. /\ q.pc = "written"
        /\ session' = SessionAfter(q)
        /\ request' = [request EXCEPT ![r] = Idle]
        /\ UNCHANGED <<other, challenge>>
        /\ \E p \in Proofs \cup {None} : invitation' = InvitationAfter(q, p)
    BY DEF Commit
  <1>2. /\ request \in [Requests -> Request] /\ request' \in [Requests -> Request]
        /\ request'[r] = Idle
        /\ \A p \in Requests : p # r => request'[p] = request[p]
    BY <1>1, RowTypes DEF IInv, TypeOK
  <1>3. policy \in Nat /\ policy' \in Nat /\ policy <= policy'
    BY WrittenFacts, <1>1
  <1>4. TypeOK'
    <2>1. session' \in [Sessions -> Session] /\ invitation' \in [Proofs -> Invitation]
      BY <1>1, SessionAfterType, InvitationAfterType
    <2>2. QED
      BY <2>1, <1>1, <1>2, <1>3 DEF IInv, TypeOK, Outcome
  <1>5. \A u \in Users :
          \/ member'[u] = member[u]
          \/ /\ member'[u].version = policy + 1 /\ member'[u].role # "none"
             /\ policy' = policy + 1
          \/ member'[u] = Absent
    <2> SUFFICES ASSUME NEW u \in Users, member'[u] # member[u], member'[u] # Absent
                 PROVE  /\ member'[u].version = policy + 1 /\ member'[u].role # "none"
                        /\ policy' = policy + 1
      OBVIOUS
    <2>1. member' # member
      OBVIOUS
    <2>2. QED
      BY <2>1 DEF Outcome
  <1>6. MembersVersioned'
    <2> SUFFICES ASSUME NEW u \in Users
                 PROVE  /\ member'[u].version <= policy'
                        /\ member'[u].version = 0 <=> member'[u].role = "none"
      BY DEF MembersVersioned, Versioned
    <2>1. member[u].version \in Nat /\ member'[u].version \in Nat
      BY <1>4, <1>1, WrittenFacts DEF Member, TypeOK
    <2>2. Versioned(member[u])
      BY DEF IInv, MembersVersioned
    <2>3. QED
      BY <2>1, <2>2, <1>3, <1>5, RowTypes DEF Versioned
  <1>7. RequestsGood'
    <2> SUFFICES ASSUME NEW p \in Requests
                 PROVE  StillGood(request[p])'
      BY DEF RequestsGood
    <2>1. CASE p = r
      BY <2>1, <1>2, RowTypes DEF StillGood
    <2>2. CASE p # r
      <3> DEFINE o == request[p]
      <3>1. o.lock = "none" /\ request'[p] = o /\ o \in Request
        BY <2>2, <1>2 DEF IInv, OneUpdater
      <3>2. StillGood(o)
        BY DEF IInv, RequestsGood
      <3>3. o.pc \notin {"checked", "written"} \/ (o.kind = "login" /\ (o.pc = "written" => o.proof = None))
        BY <3>1, <3>2 DEF StillGood
      <3>4. ASSUME o.kind # "login"
            PROVE  /\ o.seen.version <= policy'
                   /\ o.seen.version = 0 <=> o.seen.role = "none"
                   /\ member'[o.target].version = o.seen.version => member'[o.target] = o.seen
        <4>1. SeenIsNamed(o) /\ o.target \in Users
          BY <3>4, <3>2 DEF StillGood
        <4>2. o.seen \in Member
          BY <3>1 DEF Request
        <4>3. o.seen.version \in Nat /\ o.seen = [role |-> o.seen.role, version |-> o.seen.version]
          BY <4>2 DEF Member
        <4>4. o.seen.version <= policy
          BY <4>1 DEF SeenIsNamed, Versioned
        <4>5. o.seen.version = 0 => o.seen = Absent
          BY <4>1, <4>3 DEF SeenIsNamed, Versioned, Absent
        <4>6. QED
          BY <4>1, <4>3, <4>4, <4>5, <1>3, <1>5, RowTypes DEF SeenIsNamed, Versioned
      <3>5. QED
        BY <3>1, <3>2, <3>3, <3>4 DEF StillGood, SeenIsNamed, Versioned
    <2>3. QED
      BY <2>1, <2>2
  <1>8. OneUpdater'
    BY <1>2, RowTypes DEF IInv, OneUpdater
  <1>9. AlwaysAnOwner'
    BY DEF Outcome, AlwaysAnOwner, Owners
  <1>10. QED
    BY <1>4, <1>6, <1>7, <1>8, <1>9 DEF IInv

(* A commit either changes no membership or has the lock. *)
LEMMA CommitIInv ==
  ASSUME IInv, NEW r \in Requests, Commit(r)
  PROVE  IInv'
  <1> DEFINE q == request[r]
  <1>1. /\ q.pc = "written"
        /\ member' = MemberAfter(q)
        /\ policy' = IF ChangesPolicy(q) THEN policy + 1 ELSE policy
        /\ session' = SessionAfter(q)
        /\ request' = [request EXCEPT ![r] = Idle]
        /\ UNCHANGED <<other, challenge>>
    BY DEF Commit
  <1>2. CASE q.kind = "login" /\ q.proof = None
    <2>1. member' = member /\ policy' = policy
      BY <1>1, <1>2 DEF MemberAfter, ChangesPolicy
    <2>2. invitation' = invitation
      BY <1>2 DEF Commit, InvitationAfter
    <2>3. QED
      BY <1>1, <2>1, <2>2, SessionAfterType, EndIInv
  <1>3. CASE ~(q.kind = "login" /\ q.proof = None)
    <2>1. q.lock = "update"
      BY <1>1, <1>3, WrittenFacts DEF StillGood
    <2>2. Outcome(member')
      <3>1. Outcome(MemberAfter(q))
        BY <1>1, <1>3, WrittenFacts, ChangeOutcome, TransferOutcome, RedemptionOutcome, IssueOutcome
      <3>2. QED
        BY <3>1, <1>1 DEF Outcome
    <2>3. policy' \in {policy, policy + 1}
      BY <1>1
    <2>4. member' # member => policy' = policy + 1
      <3>1. q.kind = "issue" => member' = member
        BY <1>1 DEF MemberAfter
      <3>2. QED
        BY <3>1, <1>1, <1>3, WrittenFacts DEF ChangesPolicy
    <2>5. QED
      BY <2>1, <2>2, <2>3, <2>4, UpdateIInv
  <1>4. QED
    BY <1>2, <1>3

(* Every step keeps the invariant. *)
LEMMA NextIInv ==
  ASSUME IInv, [Next]_vars
  PROVE  IInv'
  <1>1. ASSUME NEW r \in Requests,
               Send(r) \/ Check(r) \/ Write(r) \/ Consume(r) \/ SignIn(r) \/ Commit(r) \/ Abort(r)
        PROVE  IInv'
    BY <1>1, SendIInv, CheckIInv, WriteIInv, ConsumeIInv, SignInIInv, CommitIInv, AbortIInv
  <1>2. CASE UNCHANGED vars
    <2>1. TypeOK' /\ MembersVersioned' /\ OneUpdater' /\ AlwaysAnOwner'
      BY <1>2 DEF vars, IInv, TypeOK, MembersVersioned, Versioned, OneUpdater, AlwaysAnOwner, Owners
    <2>2. RequestsGood'
      BY <1>2 DEF vars, IInv, RequestsGood, StillGood, SeenIsNamed, Versioned, Permitted, MayChange,
           MayTransfer, MayIssue, Redeemable, Owners
    <2>3. QED
      BY <2>1, <2>2 DEF IInv
  <1>3. QED
    BY <1>1, <1>2, OutsideIInv DEF Next

-----------------------------------------------------------------------------
(* The invariant holds in every behaviour of the specification. *)
THEOREM AccessInvariant == Spec => []IInv
  <1>1. Init => IInv
    BY InitIInv
  <1>2. IInv /\ [Next]_vars => IInv'
    BY NextIInv
  <1>3. QED
    BY <1>1, <1>2, PTL DEF Spec

(* The workspace keeps an owner however many owners demote, remove or       *)
(* replace one another at the same time (ChangeMember, Transfer). *)
THEOREM WorkspaceKeepsAnOwner == Spec => []AlwaysAnOwner
  <1>1. IInv => AlwaysAnOwner
    BY DEF IInv
  <1>2. QED
    BY <1>1, AccessInvariant, PTL

(* A change or a transfer is applied only to the membership its author saw  *)
(* (the versions ChangeMember and Transfer compare). *)
THEOREM StaleChangesFail == Spec => StaleNeverApplied
  <1> DEFINE Fresh == \A r \in Requests :
                        request[r].pc = "written" /\ request[r].kind \in {"change", "transfer"}
                        => member[request[r].target] = request[r].seen
  <1>1. IInv => Fresh
    BY DEF IInv, RequestsGood, StillGood, SeenIsNamed, Permitted, MayChange, MayTransfer
  <1>2. Fresh => [\A r \in Requests :
                    /\ request[r].pc = "written" /\ request'[r].pc = "idle"
                    /\ request[r].kind \in {"change", "transfer"} /\ member' # member
                    => member[request[r].target] = request[r].seen]_vars
    OBVIOUS
  <1>3. QED
    BY <1>1, <1>2, AccessInvariant, PTL DEF StaleNeverApplied

(* Only a commit changes memberships, and it ends its own request. *)
LEMMA OnlyCommitsChange ==
  ASSUME IInv, [Next]_vars, NEW r \in Requests, member' # member,
         request[r].pc = "written", request'[r].pc = "idle"
  PROVE  Commit(r)
  <1>1. PICK p \in Requests : Commit(p)
    BY DEF Next, vars, StartChallenge, Send, Check, Write, Consume, SignIn, Abort, Logout,
         ChangeElsewhere
  <1>2. request' = [request EXCEPT ![p] = Idle] /\ request \in [Requests -> Request]
    BY <1>1 DEF Commit, IInv, TypeOK
  <1>3. p = r
    BY <1>2
  <1>4. QED
    BY <1>1, <1>3, SMTT(30)

(* Whoever rises to admin or owner is raised by an owner of that moment     *)
(* (ChangeMember, Transfer, RedeemInvitation). *)
THEOREM AuthorityComesFromOwners == Spec => OwnersMakeAdmins
  <1>1. IInv /\ [Next]_vars =>
          [\A r \in Requests :
             /\ request[r].pc = "written" /\ request'[r].pc = "idle"
             /\ \E u \in Users : Elevated(u, member'[u].role) /\ Allows(member'[u].role, "admin")
             => member[MadeBy(request[r])].role = "owner"]_vars
    <2> SUFFICES ASSUME IInv, [Next]_vars, NEW r \in Requests,
                        request[r].pc = "written", request'[r].pc = "idle",
                        NEW u \in Users, Elevated(u, member'[u].role),
                        Allows(member'[u].role, "admin")
                 PROVE  member[MadeBy(request[r])].role = "owner"
      OBVIOUS
    <2> DEFINE q == request[r]
    <2>1. IInv'
      BY NextIInv
    <2>2. member[u].role \in AnyRole /\ member'[u].role \in AnyRole
      BY <2>1 DEF IInv, TypeOK, Member, AnyRole
    <2>3. member'[u].role # member[u].role
      BY <2>2, AllowsFacts DEF Elevated
    <2>4. member'[u].role \in {"admin", "owner"}
      BY <2>2, AllowsFacts
    <2>5. Commit(r)
      BY <2>3, OnlyCommitsChange
    <2>6. member' = MemberAfter(q)
      BY <2>5 DEF Commit
    <2>7. CASE q.kind = "change"
      <3>1. MayChange(q)
        BY <2>7, WrittenFacts DEF StillGood, Permitted
      <3>2. u = q.target /\ member'[u].role = q.role
        BY <2>3, <2>4, <2>6, <2>7, WrittenFacts, RowTypes DEF MemberAfter
      <3>3. QED
        BY <3>1, <3>2, <2>4, <2>7, OwnersAssign DEF MayChange, MadeBy
    <2>8. CASE q.kind = "transfer"
      BY <2>8, WrittenFacts DEF StillGood, Permitted, MayTransfer, MadeBy
    <2>9. CASE q.kind = "issue"
      BY <2>9, <2>3, <2>6, SMTT(30) DEF MemberAfter
    <2>10. CASE q.kind = "login"
      <3>1. q.proof # None
        BY <2>10, <2>3, <2>6 DEF MemberAfter
      <3>2. Redeemable(q)
        BY <3>1, <2>10, WrittenFacts DEF StillGood
      <3>3. u = q.target /\ member'[u].role = invitation[q.proof].role
        BY <3>1, <2>3, <2>6, <2>10, WrittenFacts DEF MemberAfter
      <3>4. QED
        BY <3>2, <3>3, <2>4, <2>10, OwnersAssign DEF Redeemable, MadeBy
    <2>11. QED
      BY <2>7, <2>8, <2>9, <2>10, WrittenFacts
  <1>2. QED
    BY <1>1, AccessInvariant, PTL DEF OwnersMakeAdmins, Spec

-----------------------------------------------------------------------------
(* Sessions *)

(* What the fields of a request have to do with one another: only a written *)
(* sign-in names a session it makes, and a reauthentication deletes exactly *)
(* the session it is bound to.                                              *)
Formed(q) ==
    /\ q.pc # "written" => q.doomed = {}
    /\ q.new # None => q.pc = "written" /\ q.kind = "login"
    /\ q.old # None => q.pc = "written" /\ q.kind = "login"
    /\ q.kind # "login" => q.by = None /\ q.bound = None /\ q.proof = None
    /\ q.kind = "login" /\ q.pc # "idle" => q.by # None
    /\ q.pc = "idle" => q.by = None
    /\ q.bound # None => q.proof = None
    /\ q.kind = "login" /\ q.pc = "written" =>
         /\ q.new # None
         /\ q.bound # None => q.old = q.bound /\ q.doomed = {}

(* A person's sessions that were made under the lock of this workspace.     *)
HomeOf(u) == {s \in SessionsOf(u) : session[s].home}

(* A transaction about to raise a role has all of them.                     *)
Raises(q) ==
    /\ q.pc = "written"
    /\ \/ q.kind \in {"change", "transfer"} /\ Elevated(q.target, NewRole(q))
       \/ q.kind = "login" /\ q.proof # None

Complete(q) == Raises(q) => HomeOf(q.target) \subseteq q.doomed

RequestsFormed == \A r \in Requests : Formed(request[r]) /\ Complete(request[r])

(* Rows: tokens not handed out are blank, live sessions are somebody's and  *)
(* not ended, and a session that was replaced is gone without having ended. *)
SessionRow(s) ==
    /\ session[s].state = "unborn" => session[s] = Unborn
    /\ session[s].state = "live" => session[s].user \in Users /\ ~session[s].ended
    /\ session[s].from # None => /\ session[session[s].from].state = "gone"
                                 /\ ~session[session[s].from].ended

SessionRows == \A s \in Sessions : SessionRow(s)

(* A challenge is spent by one request, and after it by one session.        *)
ChallengesSpent ==
    /\ \A k \in Challenges : challenge[k].bound # None => challenge[k].proof = None
    /\ \A s \in Sessions : session[s].by # None => challenge[session[s].by].state = "gone"
    /\ \A r \in Requests : request[r].by # None =>
         /\ challenge[request[r].by].state = "gone"
         /\ \A s \in Sessions : session[s].by # request[r].by
         /\ \A p \in Requests : p # r => request[p].by # request[r].by
    /\ ChallengeOnce

(* Transactions make different sessions, none of them handed out before,    *)
(* and delete different ones, which are live until then.                    *)
SessionsClaimed ==
    \A r \in Requests :
      /\ request[r].new # None =>
           /\ session[request[r].new].state = "unborn"
           /\ \A p \in Requests : p # r => request[p].new # request[r].new
      /\ request[r].old # None =>
           /\ session[request[r].old].state = "live"
           /\ \A p \in Requests : p # r => request[p].old # request[r].old

SInv ==
    /\ RequestsFormed
    /\ SessionRows
    /\ ChallengesSpent
    /\ SessionsClaimed
    /\ HomeElevationEndsSessions

(* An idle request has nothing under way. *)
LEMMA IdleFormed ==
  /\ Formed(Idle) /\ Complete(Idle)
  /\ Idle.by = None /\ Idle.new = None /\ Idle.old = None
  BY DEF Formed, Complete, Raises, Idle

(* Nobody has signed in. *)
LEMMA InitSInv ==
  ASSUME Init
  PROVE  SInv
  <1> USE DEF Init
  <1>1. RequestsFormed
    BY IdleFormed DEF RequestsFormed
  <1>2. SessionRows
    BY DEF SessionRows, SessionRow, Unborn
  <1>3. ChallengesSpent
    BY IdleFormed DEF ChallengesSpent, ChallengeOnce, Unborn, NoChallenge
  <1>4. SessionsClaimed
    BY IdleFormed DEF SessionsClaimed
  <1>5. HomeElevationEndsSessions
    BY DEF HomeElevationEndsSessions, Outranked, Live, Unborn
  <1>6. QED
    BY <1>1, <1>2, <1>3, <1>4, <1>5 DEF SInv

(* A request moves on and leaves sessions and memberships alone. *)
LEMMA QuietKeepsSInv ==
  ASSUME IInv, SInv, NEW r \in Requests, NEW q \in Request,
         request' = [request EXCEPT ![r] = q],
         UNCHANGED <<member, session>>,
         Formed(q), Complete(q),
         \A k \in Challenges : challenge'[k].bound # None => challenge'[k].proof = None,
         \A k \in Challenges : challenge[k].state = "gone" => challenge'[k].state = "gone",
         q.by # None => /\ challenge'[q.by].state = "gone"
                        /\ \A s \in Sessions : session[s].by # q.by
                        /\ \A p \in Requests : p # r => request[p].by # q.by,
         q.new # None => /\ session[q.new].state = "unborn"
                         /\ \A p \in Requests : p # r => request[p].new # q.new,
         q.old # None => /\ session[q.old].state = "live"
                         /\ \A p \in Requests : p # r => request[p].old # q.old
  PROVE  SInv'
  <1>1. /\ request \in [Requests -> Request]
        /\ request'[r] = q
        /\ \A p \in Requests : p # r => request'[p] = request[p] /\ request[p] \in Request
    BY DEF IInv, TypeOK
  <1>2. RequestsFormed'
    <2> SUFFICES ASSUME NEW p \in Requests
                 PROVE  Formed(request[p])' /\ Complete(request[p])'
      BY DEF RequestsFormed
    <2>1. Formed(request'[p]) /\ Complete(request'[p])
      BY <1>1 DEF SInv, RequestsFormed
    <2>2. Formed(request[p])'
      BY <2>1 DEF Formed
    <2>3. Complete(request[p])'
      BY <2>1 DEF Complete, Raises, Elevated, NewRole, HomeOf, SessionsOf, Live
    <2>4. QED
      BY <2>2, <2>3
  <1>3. SessionRows'
    BY DEF SInv, SessionRows, SessionRow
  <1>4. ChallengesSpent'
    <2>1. \A s \in Sessions : session[s].by # None => challenge'[session[s].by].state = "gone"
      BY DEF SInv, ChallengesSpent, IInv, TypeOK, Session
    <2>2. \A p \in Requests : request'[p].by # None =>
            /\ challenge'[request'[p].by].state = "gone"
            /\ \A s \in Sessions : session[s].by # request'[p].by
            /\ \A x \in Requests : x # p => request'[x].by # request'[p].by
      <3> SUFFICES ASSUME NEW p \in Requests, request'[p].by # None
                   PROVE  /\ challenge'[request'[p].by].state = "gone"
                          /\ \A s \in Sessions : session[s].by # request'[p].by
                          /\ \A x \in Requests : x # p => request'[x].by # request'[p].by
        OBVIOUS
      <3>1. CASE p = r
        BY <3>1, <1>1
      <3>2. CASE p # r
        <4>1. request'[p] = request[p] /\ request[p].by \in Challenges
          BY <3>2, <1>1 DEF Request
        <4>2. /\ challenge[request[p].by].state = "gone"
              /\ \A s \in Sessions : session[s].by # request[p].by
              /\ \A x \in Requests : x # p => request[x].by # request[p].by
          BY <4>1 DEF SInv, ChallengesSpent
        <4>3. q.by # request[p].by
          BY <4>1, <3>2
        <4>4. QED
          BY <4>1, <4>2, <4>3, <1>1
      <3>3. QED
        BY <3>1, <3>2
    <2>3. ChallengeOnce'
      BY DEF SInv, ChallengesSpent, ChallengeOnce
    <2>4. QED
      BY <2>1, <2>2, <2>3 DEF ChallengesSpent
  <1>5. SessionsClaimed'
    <2> SUFFICES ASSUME NEW p \in Requests
                 PROVE  /\ request'[p].new # None =>
                             /\ session[request'[p].new].state = "unborn"
                             /\ \A x \in Requests : x # p => request'[x].new # request'[p].new
                        /\ request'[p].old # None =>
                             /\ session[request'[p].old].state = "live"
                             /\ \A x \in Requests : x # p => request'[x].old # request'[p].old
      BY DEF SessionsClaimed
    <2>1. CASE p = r
      BY <2>1, <1>1
    <2>2. CASE p # r
      BY <2>2, <1>1 DEF SInv, SessionsClaimed
    <2>3. QED
      BY <2>1, <2>2
  <1>6. HomeElevationEndsSessions'
    BY DEF SInv, HomeElevationEndsSessions, Outranked, Live
  <1>7. QED
    BY <1>2, <1>3, <1>4, <1>5, <1>6 DEF SInv

(* What the invariant says of one request. *)
LEMMA RequestFacts ==
  ASSUME IInv, SInv, NEW r \in Requests
  PROVE  LET q == request[r]
         IN  /\ q \in Request /\ StillGood(q) /\ Formed(q) /\ Complete(q)
             /\ q.by # None => /\ q.by \in Challenges /\ challenge[q.by].state = "gone"
                               /\ \A s \in Sessions : session[s].by # q.by
                               /\ \A p \in Requests : p # r => request[p].by # q.by
             /\ q.new # None => /\ session[q.new].state = "unborn"
                                /\ \A p \in Requests : p # r => request[p].new # q.new
             /\ q.old # None => /\ session[q.old].state = "live"
                                /\ \A p \in Requests : p # r => request[p].old # q.old
  <1>1. request[r] \in Request /\ StillGood(request[r])
    BY DEF IInv, TypeOK, RequestsGood
  <1>2. request[r].by \in Challenges \cup {None}
    BY <1>1 DEF Request
  <1>3. Formed(request[r]) /\ Complete(request[r])
    BY DEF SInv, RequestsFormed
  <1>4. QED
    BY <1>1, <1>2, <1>3 DEF SInv, ChallengesSpent, SessionsClaimed

(* A challenge that is bound to a session has no invitation. *)
LEMMA ChallengesPlain ==
  ASSUME SInv
  PROVE  \A k \in Challenges : challenge[k].bound # None => challenge[k].proof = None
  BY DEF SInv, ChallengesSpent

(* A rolled back request leaves nothing behind. *)
LEMMA AbortSInv ==
  ASSUME IInv, SInv, NEW r \in Requests, Abort(r)
  PROVE  SInv'
  <1>1. /\ request' = [request EXCEPT ![r] = Idle]
        /\ UNCHANGED <<member, session>> /\ challenge' = challenge
    BY DEF Abort
  <1>2. QED
    BY <1>1, IdleFormed, RowTypes, ChallengesPlain, QuietKeepsSInv

(* A member request names no session. *)
LEMMA SendSInv ==
  ASSUME IInv, SInv, NEW r \in Requests, Send(r)
  PROVE  SInv'
  <1>1. PICK kind \in Kinds, a \in Users, t \in Users, role \in Roles \cup {"none"} :
          /\ SessionsOf(a) # {}
          /\ Allows(member[a].role, "viewer")
          /\ kind # "change" => a # t /\ role # "none"
          /\ kind = "transfer" => role \in {"admin", "owner"}
          /\ request' = [request EXCEPT ![r] =
                           [Idle EXCEPT !.pc = "sent", !.kind = kind, !.actor = a, !.target = t,
                                        !.role = role, !.own = member[a], !.seen = member[t]]]
    BY Zenon DEF Send
  <1> DEFINE q == [Idle EXCEPT !.pc = "sent", !.kind = kind, !.actor = a, !.target = t,
                               !.role = role, !.own = member[a], !.seen = member[t]]
  <1>2. kind \in {"change", "transfer", "issue"}
    BY AccessAssumption
  <1>3. member[a] \in Member /\ member[t] \in Member
    BY DEF IInv, TypeOK
  <1>4. q \in Request
    BY <1>2, <1>3, RowTypes DEF Request
  <1>5. /\ q.pc = "sent" /\ q.kind = kind /\ q.by = None /\ q.bound = None /\ q.proof = None
        /\ q.new = None /\ q.old = None /\ q.doomed = {}
    BY DEF Idle
  <1>6. request' = [request EXCEPT ![r] = q]
        /\ UNCHANGED <<member, session>> /\ challenge' = challenge
    BY <1>1 DEF Send
  <1> HIDE DEF q
  <1>7. Formed(q) /\ Complete(q)
    BY <1>2, <1>5 DEF Formed, Complete, Raises
  <1>8. QED
    BY <1>4, <1>5, <1>6, <1>7, ChallengesPlain, QuietKeepsSInv

(* A check makes and deletes no session. *)
LEMMA CheckSInv ==
  ASSUME IInv, SInv, NEW r \in Requests, Check(r)
  PROVE  SInv'
  <1> DEFINE o == request[r]
             q == [o EXCEPT !.pc = "checked", !.lock = "update"]
  <1>1. o \in Request /\ Formed(o) /\ request \in [Requests -> Request]
    BY RequestFacts DEF IInv, TypeOK
  <1>2. o.pc = "sent" /\ o.kind # "login"
    BY DEF Check
  <1>3. q \in Request
    BY <1>1, ZenonT(40) DEF Request
  <1>4. q.pc = "checked" /\ q.kind = o.kind /\ q.by = o.by /\ q.bound = o.bound
    BY <1>1 DEF Request
  <1>5. q.proof = o.proof /\ q.new = o.new /\ q.old = o.old /\ q.doomed = o.doomed
    BY <1>1 DEF Request
  <1>6. request' = [request EXCEPT ![r] = q]
        /\ UNCHANGED <<member, session>> /\ challenge' = challenge
    BY <1>1 DEF Check
  <1> HIDE DEF q
  <1>7. Formed(q) /\ Complete(q) /\ q.by = None /\ q.new = None /\ q.old = None
    BY <1>1, <1>2, <1>4, <1>5 DEF Formed, Complete, Raises
  <1>8. QED
    BY <1>3, <1>6, <1>7, ChallengesPlain, QuietKeepsSInv

(* A change that raises a role dooms the sessions there are. *)
LEMMA WriteSInv ==
  ASSUME IInv, SInv, NEW r \in Requests, Write(r)
  PROVE  SInv'
  <1> DEFINE o == request[r]
             d == IF o.kind # "issue" /\ Elevated(o.target, NewRole(o)) THEN SessionsOf(o.target) ELSE {}
             q == [o EXCEPT !.pc = "written", !.doomed = d]
  <1>1. o \in Request /\ Formed(o) /\ StillGood(o) /\ request \in [Requests -> Request]
    BY RequestFacts DEF IInv, TypeOK
  <1>2. o.pc = "checked" /\ o.kind # "login"
    BY <1>1 DEF Write, StillGood
  <1>3. d \in SUBSET Sessions
    BY DEF SessionsOf
  <1>4. /\ request' = [request EXCEPT ![r] = q]
        /\ UNCHANGED <<member, session>> /\ challenge' = challenge
    BY <1>1 DEF Write
  <1>5. o.kind # "issue" /\ Elevated(o.target, NewRole(o)) => d = SessionsOf(o.target)
    OBVIOUS
  <1> HIDE DEF d
  <1>6. q \in Request
    BY <1>1, <1>3 DEF Request
  <1>7. q.pc = "written" /\ q.kind = o.kind /\ q.by = o.by /\ q.bound = o.bound /\ q.doomed = d
    BY <1>1 DEF Request
  <1>8. /\ q.proof = o.proof /\ q.new = o.new /\ q.old = o.old
        /\ q.target = o.target /\ q.role = o.role
    BY <1>1 DEF Request
  <1> HIDE DEF q
  <1>9. Formed(q) /\ q.by = None /\ q.new = None /\ q.old = None
    BY <1>1, <1>2, <1>7, <1>8 DEF Formed
  <1>10. Complete(q)
    <2>1. NewRole(q) = NewRole(o)
      BY <1>7, <1>8 DEF NewRole
    <2>2. QED
      BY <2>1, <1>2, <1>5, <1>7, <1>8 DEF Complete, Raises, HomeOf
  <1>11. QED
    BY <1>4, <1>6, <1>9, <1>10, ChallengesPlain, QuietKeepsSInv

(* A callback takes an open challenge, which nobody has used. *)
LEMMA ConsumeSInv ==
  ASSUME IInv, SInv, NEW r \in Requests, Consume(r)
  PROVE  SInv'
  <1>1. PICK k \in Challenges, u \in Users :
          /\ challenge[k].state = "open"
          /\ challenge' = Consumed(k)
          /\ request' = [request EXCEPT ![r] =
                           [Idle EXCEPT !.pc = "sent", !.target = u, !.by = k,
                                        !.proof = challenge[k].proof, !.bound = challenge[k].bound]]
    BY DEF Consume
  <1> DEFINE q == [Idle EXCEPT !.pc = "sent", !.target = u, !.by = k,
                               !.proof = challenge[k].proof, !.bound = challenge[k].bound]
  <1>2. challenge \in [Challenges -> Challenge] /\ challenge[k] \in Challenge
    BY DEF IInv, TypeOK
  <1>3. /\ challenge[k].proof \in Proofs \cup {None} /\ challenge[k].bound \in Sessions \cup {None}
        /\ challenge[k].bound # None => challenge[k].proof = None
    BY <1>2, ChallengesPlain DEF Challenge
  <1>4. q \in Request
    BY <1>3, RowTypes DEF Request
  <1>5. /\ q.pc = "sent" /\ q.kind = "login" /\ q.by = k /\ q.bound = challenge[k].bound
        /\ q.proof = challenge[k].proof /\ q.new = None /\ q.old = None /\ q.doomed = {}
    BY DEF Idle
  <1>6. request' = [request EXCEPT ![r] = q] /\ UNCHANGED <<member, session>>
    BY <1>1 DEF Consume
  <1> HIDE DEF q
  <1>7. k # None
    BY ConstantFacts
  <1>8. Formed(q) /\ Complete(q)
    BY <1>3, <1>5, <1>7 DEF Formed, Complete, Raises
  <1>9. \A j \in Challenges : /\ challenge'[j].bound = challenge[j].bound
                              /\ challenge'[j].proof = challenge[j].proof
                              /\ challenge'[j].state = IF j = k THEN "gone" ELSE challenge[j].state
    BY <1>1, <1>2 DEF Consumed, Challenge
  <1>10. /\ challenge'[k].state = "gone"
         /\ \A s \in Sessions : session[s].by # k
         /\ \A p \in Requests : request[p].by # k
    BY <1>1, <1>7, <1>9 DEF SInv, ChallengesSpent
  <1>11. /\ \A j \in Challenges : challenge'[j].bound # None => challenge'[j].proof = None
         /\ \A j \in Challenges : challenge[j].state = "gone" => challenge'[j].state = "gone"
    BY <1>9, ChallengesPlain
  <1>12. QED
    BY <1>4, <1>5, <1>6, <1>8, <1>10, <1>11, QuietKeepsSInv

(* A sign-in takes a token nobody has and a session nobody else deletes. *)
LEMMA SignInSInv ==
  ASSUME IInv, SInv, NEW r \in Requests, SignIn(r)
  PROVE  SInv'
  <1> DEFINE o == request[r]
             d == IF o.proof = None THEN {} ELSE SessionsOf(o.target)
  <1>1. o \in Request /\ Formed(o) /\ StillGood(o) /\ request \in [Requests -> Request]
    BY RequestFacts DEF IInv, TypeOK
  <1>2. /\ o.pc = "sent" /\ o.kind = "login"
        /\ UNCHANGED <<member, session>> /\ challenge' = challenge
    BY DEF SignIn
  <1>3. PICK new \in Sessions, cookie \in Sessions \cup {None} :
          /\ session[new].state = "unborn"
          /\ \A p \in Requests : request[p].new # new
          /\ IF o.bound # None
               THEN Rotates(o, cookie) /\ ~Claimed(cookie, r)
               ELSE cookie # None => cookie \in SessionsOf(o.target) /\ ~Claimed(cookie, r)
          /\ request' = [request EXCEPT ![r] =
                           [o EXCEPT !.pc = "written", !.new = new, !.old = cookie,
                                     !.lock = LocksOf(o), !.doomed = d]]
    BY DEF SignIn
  <1>4. d \in SUBSET Sessions /\ LocksOf(o) \in {"none", "share", "update"}
    BY DEF SessionsOf, LocksOf
  <1>5. /\ o.proof = None => d = {}
        /\ o.proof # None => d = SessionsOf(o.target)
    OBVIOUS
  <1>6. o.bound # None => cookie = o.bound
    BY <1>3 DEF Rotates
  <1>7. cookie # None => /\ session[cookie].state = "live"
                         /\ \A p \in Requests : p # r => request[p].old # cookie
    BY <1>3 DEF Rotates, SessionsOf, Live, Claimed
  <1> HIDE DEF d
  <1> DEFINE q == [o EXCEPT !.pc = "written", !.new = new, !.old = cookie,
                            !.lock = LocksOf(o), !.doomed = d]
  <1>8. q \in Request
    <2> DEFINE half == [o EXCEPT !.pc = "written", !.new = new, !.old = cookie]
    <2>1. half \in Request
      BY <1>1 DEF Request
    <2>2. [half EXCEPT !.lock = LocksOf(o), !.doomed = d] \in Request
      <3> HIDE DEF half
      <3>1. QED
        BY <2>1, <1>4, WrittenRequest
    <2>3. q = [half EXCEPT !.lock = LocksOf(o), !.doomed = d]
      OBVIOUS
    <2>4. QED
      BY <2>2, <2>3
  <1>9. q.pc = "written" /\ q.kind = o.kind /\ q.new = new /\ q.old = cookie
    BY <1>1 DEF Request
  <1>10. q.lock = LocksOf(o) /\ q.doomed = d /\ q.by = o.by
    BY <1>1 DEF Request
  <1>11. q.bound = o.bound /\ q.proof = o.proof /\ q.target = o.target
    BY <1>1 DEF Request
  <1>12. request' = [request EXCEPT ![r] = q]
    BY <1>3
  <1> HIDE DEF q
  <1>13. new # None
    BY ConstantFacts
  <1>14. Formed(q)
    BY <1>1, <1>2, <1>5, <1>6, <1>9, <1>10, <1>11, <1>13 DEF Formed
  <1>15. Complete(q)
    BY <1>2, <1>5, <1>9, <1>10, <1>11 DEF Complete, Raises, HomeOf
  <1>16. q.by # None => /\ challenge[q.by].state = "gone"
                        /\ \A s \in Sessions : session[s].by # q.by
                        /\ \A p \in Requests : p # r => request[p].by # q.by
    BY <1>10, RequestFacts
  <1>17. /\ session[q.new].state = "unborn"
         /\ \A p \in Requests : p # r => request[p].new # q.new
         /\ q.old # None => /\ session[q.old].state = "live"
                            /\ \A p \in Requests : p # r => request[p].old # q.old
    BY <1>3, <1>7, <1>9
  <1>18. QED
    BY <1>2, <1>8, <1>12, <1>14, <1>15, <1>16, <1>17, ChallengesPlain, QuietKeepsSInv

(* Requests are as formed and as complete as they were, when nobody's role  *)
(* rises and nobody signs in.                                               *)
LEMMA FormedKept ==
  ASSUME SInv, UNCHANGED <<member, request>>,
         \A u \in Users \cup {None} : HomeOf(u)' \subseteq HomeOf(u),
         \A r \in Requests : request[r].target \in Users \cup {None}
  PROVE  RequestsFormed'
  <1> SUFFICES ASSUME NEW r \in Requests
               PROVE  Formed(request[r])' /\ Complete(request[r])'
    BY DEF RequestsFormed
  <1>1. Formed(request[r]) /\ Complete(request[r])
    BY DEF SInv, RequestsFormed
  <1>2. Formed(request[r])'
    BY <1>1 DEF Formed
  <1>3. Raises(request[r])' => Raises(request[r])
    BY DEF Raises, Elevated, NewRole
  <1>4. QED
    BY <1>1, <1>2, <1>3 DEF Complete

(* A challenge begins. *)
LEMMA StartChallengeSInv ==
  ASSUME IInv, SInv, StartChallenge
  PROVE  SInv'
  <1>1. UNCHANGED <<member, session, request>>
    BY DEF StartChallenge
  <1>2. PICK k \in Challenges, bound \in Sessions \cup {None}, proof \in Proofs \cup {None} :
          /\ challenge[k].state = "unborn"
          /\ bound # None => proof = None
          /\ challenge' = [challenge EXCEPT ![k] = [state |-> "open", bound |-> bound, proof |-> proof]]
    BY DEF StartChallenge
  <1>3. challenge \in [Challenges -> Challenge] /\ session \in [Sessions -> Session]
        /\ request \in [Requests -> Request]
    BY DEF IInv, TypeOK
  <1>4. /\ \A j \in Challenges : challenge'[j].bound # None => challenge'[j].proof = None
        /\ \A j \in Challenges : challenge[j].state = "gone" => challenge'[j].state = "gone"
    BY <1>2, <1>3, ChallengesPlain
  <1>5. \A r \in Requests : request[r].by \in Challenges \cup {None} /\ request[r].target \in Users \cup {None}
    BY <1>3 DEF Request
  <1>6. \A s \in Sessions : session[s].by \in Challenges \cup {None}
    BY <1>3 DEF Session
  <1>7. ChallengesSpent'
    BY <1>1, <1>4, <1>5, <1>6 DEF SInv, ChallengesSpent, ChallengeOnce
  <1>8. RequestsFormed'
    <2>1. \A u : HomeOf(u)' = HomeOf(u)
      BY <1>1 DEF HomeOf, SessionsOf, Live
    <2>2. QED
      BY <2>1, <1>1, <1>5, FormedKept
  <1>9. SessionRows' /\ SessionsClaimed' /\ HomeElevationEndsSessions'
    BY <1>1 DEF SInv, SessionRows, SessionRow, SessionsClaimed, HomeElevationEndsSessions, Outranked, Live
  <1>10. QED
    BY <1>7, <1>8, <1>9 DEF SInv

(* A session ends that nobody is replacing. *)
LEMMA LogoutSInv ==
  ASSUME IInv, SInv, NEW x \in Sessions, Logout(x)
  PROVE  SInv'
  <1> DEFINE w == [session[x] EXCEPT !.state = "gone", !.ended = TRUE]
  <1>1. UNCHANGED <<member, challenge, request>> /\ session[x].state = "live"
    BY DEF Logout, Live
  <1>2. session \in [Sessions -> Session] /\ request \in [Requests -> Request]
    BY DEF IInv, TypeOK
  <1>3. session' = [session EXCEPT ![x] = w]
    BY <1>2 DEF Logout
  <1>4. /\ w.state = "gone" /\ w.user = session[x].user /\ w.from = session[x].from
        /\ w.by = session[x].by /\ w.rank = session[x].rank /\ w.home = session[x].home
    BY <1>2 DEF Session
  <1> HIDE DEF w
  <1>5. session'[x] = w /\ \A s \in Sessions : s # x => session'[s] = session[s]
    BY <1>2, <1>3
  <1>6. \A r \in Requests : request[r].old # x
    BY ConstantFacts DEF Logout, Claimed
  <1>7. \A s \in Sessions : session[s].from \in Sessions \cup {None}
    BY <1>2 DEF Session
  <1>8. SessionRows'
    <2> SUFFICES ASSUME NEW s \in Sessions
                 PROVE  /\ session'[s].state = "unborn" => session'[s] = Unborn
                        /\ session'[s].state = "live" => session'[s].user \in Users /\ ~session'[s].ended
                        /\ session'[s].from # None => /\ session'[session'[s].from].state = "gone"
                                                      /\ ~session'[session'[s].from].ended
      BY DEF SessionRows, SessionRow
    <2>1. SessionRow(s)
      BY DEF SInv, SessionRows
    <2>2. session'[s].from = session[s].from
      BY <1>4, <1>5
    <2>3. session[s].from # x
      BY <2>1, <1>1, ConstantFacts DEF SessionRow
    <2>4. session'[s].from # None => /\ session'[session'[s].from].state = "gone"
                                     /\ ~session'[session'[s].from].ended
      BY <2>1, <2>2, <2>3, <1>5, <1>7 DEF SessionRow
    <2>5. QED
      BY <2>1, <2>4, <1>4, <1>5 DEF SessionRow
  <1>9. ChallengesSpent'
    <2>1. \A s \in Sessions : session'[s].by = session[s].by
      BY <1>4, <1>5
    <2>2. QED
      BY <2>1, <1>1 DEF SInv, ChallengesSpent, ChallengeOnce
  <1>10. SessionsClaimed'
    <2>1. \A r \in Requests : request[r].new \in Sessions \cup {None} /\ request[r].old \in Sessions \cup {None}
      BY <1>2 DEF Request
    <2> SUFFICES ASSUME NEW r \in Requests
                 PROVE  /\ request[r].new # None =>
                             /\ session'[request[r].new].state = "unborn"
                             /\ \A p \in Requests : p # r => request[p].new # request[r].new
                        /\ request[r].old # None =>
                             /\ session'[request[r].old].state = "live"
                             /\ \A p \in Requests : p # r => request[p].old # request[r].old
      BY <1>1 DEF SessionsClaimed
    <2>2. QED
      BY <2>1, <1>1, <1>5, <1>6, RequestFacts
  <1>11. \A u : HomeOf(u)' \subseteq HomeOf(u)
    BY <1>4, <1>5 DEF HomeOf, SessionsOf, Live
  <1>12. RequestsFormed'
    <2>1. \A r \in Requests : request[r].target \in Users \cup {None}
      BY <1>2 DEF Request
    <2>2. QED
      BY <2>1, <1>1, <1>11, FormedKept
  <1>13. HomeElevationEndsSessions'
    BY <1>1, <1>4, <1>5 DEF SInv, HomeElevationEndsSessions, Outranked, Live
  <1>14. QED
    BY <1>8, <1>9, <1>10, <1>12, <1>13 DEF SInv

-----------------------------------------------------------------------------
(* What a commit does to the sessions: one may come to life, those it       *)
(* deletes are gone, and all others stay.                                   *)
LEMMA CommittedSessions ==
  ASSUME IInv, SInv, NEW r \in Requests, Commit(r)
  PROVE  LET q == request[r]
         IN  /\ q.new # None => /\ session'[q.new].state = "live"
                                /\ session'[q.new].user = q.target
                                /\ session'[q.new].from = q.bound
                                /\ session'[q.new].by = q.by
                                /\ session'[q.new].rank = Rank[Invited(q)]
                                /\ session'[q.new].home = (q.lock # "none")
                                /\ ~session'[q.new].ended
             /\ \A s \in Sessions : s # q.new =>
                  /\ session'[s].user = session[s].user /\ session'[s].from = session[s].from
                  /\ session'[s].by = session[s].by /\ session'[s].rank = session[s].rank
                  /\ session'[s].home = session[s].home
                  /\ session'[s].state = "live" => /\ session[s].state = "live"
                                                   /\ s # q.old /\ s \notin q.doomed
                  /\ session[s].state # "live" => session'[s] = session[s]
                  /\ s = q.old /\ s \notin q.doomed =>
                       session'[s].state = "gone" /\ session'[s].ended = session[s].ended
                  /\ s # q.old /\ s \notin q.doomed => session'[s] = session[s]
  <1> DEFINE q == request[r]
  <1>1. session' = SessionAfter(q)
    BY DEF Commit
  <1>2. q \in Request /\ session \in [Sessions -> Session] /\ q.new \in Sessions \cup {None}
    BY DEF IInv, TypeOK, Request
  <1>3. q.old # None => session[q.old].state = "live"
    BY RequestFacts
  <1>4. \A s \in Sessions : session'[s] =
          CASE s = q.new -> [state |-> "live", user |-> q.target, from |-> q.bound, by |-> q.by,
                             rank |-> Rank[Invited(q)], home |-> q.lock # "none", ended |-> FALSE]
            [] s \in q.doomed /\ Live(s) -> [session[s] EXCEPT !.state = "gone", !.ended = TRUE]
            [] s = q.old /\ s \notin q.doomed -> [session[s] EXCEPT !.state = "gone"]
            [] OTHER -> session[s]
    BY <1>1 DEF SessionAfter
  <1>5. ASSUME q.new # None
        PROVE  session'[q.new] = [state |-> "live", user |-> q.target, from |-> q.bound, by |-> q.by,
                                  rank |-> Rank[Invited(q)], home |-> q.lock # "none", ended |-> FALSE]
    <2>1. q.new \in Sessions
      BY <1>2, <1>5
    <2>2. SessionAfter(q)[q.new] = [state |-> "live", user |-> q.target, from |-> q.bound, by |-> q.by,
                                    rank |-> Rank[Invited(q)], home |-> q.lock # "none", ended |-> FALSE]
      <3>1. ~Live(q.new) /\ q.new # q.old
        BY <2>1, <1>3, <1>5, RequestFacts DEF Live
      <3>2. QED
        BY <3>1, <2>1 DEF SessionAfter
    <2>3. QED
      BY <2>2, <1>1
  <1>6. ASSUME NEW s \in Sessions, s # q.new
        PROVE  /\ session'[s].user = session[s].user /\ session'[s].from = session[s].from
               /\ session'[s].by = session[s].by /\ session'[s].rank = session[s].rank
               /\ session'[s].home = session[s].home
               /\ session'[s].state = "live" => /\ session[s].state = "live"
                                                /\ s # q.old /\ s \notin q.doomed
               /\ session[s].state # "live" => session'[s] = session[s]
               /\ s = q.old /\ s \notin q.doomed =>
                    session'[s].state = "gone" /\ session'[s].ended = session[s].ended
               /\ s # q.old /\ s \notin q.doomed => session'[s] = session[s]
    <2>1. session[s] \in Session /\ s # None
      BY <1>2, ConstantFacts
    <2>2. CASE s \in q.doomed /\ Live(s)
      <3>1. session'[s] = [session[s] EXCEPT !.state = "gone", !.ended = TRUE]
        BY <2>2, <1>4, <1>6
      <3>2. QED
        BY <3>1, <2>1, <2>2 DEF Session, Live
    <2>3. CASE ~(s \in q.doomed /\ Live(s)) /\ (s = q.old /\ s \notin q.doomed)
      <3>1. session'[s] = [session[s] EXCEPT !.state = "gone"]
        BY <2>3, <1>4, <1>6
      <3>2. session[s].state = "live"
        BY <2>1, <2>3, <1>3
      <3>3. QED
        BY <3>1, <3>2, <2>1, <2>3 DEF Session
    <2>4. CASE ~(s \in q.doomed /\ Live(s)) /\ ~(s = q.old /\ s \notin q.doomed)
      <3>1. session'[s] = session[s]
        BY <2>4, <1>4, <1>6
      <3>2. QED
        BY <3>1, <2>4, <2>1 DEF Live
    <2>5. QED
      BY <2>2, <2>3, <2>4
  <1>7. QED
    BY <1>5, <1>6

(* What a commit does to the roles: nobody's changes but the target's of a  *)
(* change, transfer or redemption and the actor's of a transfer.  Whose     *)
(* role rises is the target, and the request raises it.                     *)
LEMMA CommittedRoles ==
  ASSUME IInv, NEW r \in Requests, Commit(r), NEW u \in Users
  PROVE  LET q == request[r]
         IN  /\ Rank[member'[u].role] \in 0..4 /\ Rank[member[u].role] \in 0..4
             /\ \/ Rank[member'[u].role] <= Rank[member[u].role]
                \/ u = q.target /\ Raises(q)
             /\ q.kind = "login" => Rank[member'[q.target].role] = Rank[Invited(q)]
             /\ q.kind = "login" /\ q.proof = None => member' = member
  <1> DEFINE q == request[r]
  <1>1. q.pc = "written" /\ member' = MemberAfter(q)
    BY DEF Commit
  <1>2. Outcome(MemberAfter(q)) \/ MemberAfter(q) = member
    <2>1. CASE q.kind = "login" /\ q.proof = None
      BY <2>1 DEF MemberAfter
    <2>2. CASE ~(q.kind = "login" /\ q.proof = None)
      BY <2>2, <1>1, WrittenFacts, ChangeOutcome, TransferOutcome, RedemptionOutcome, IssueOutcome
    <2>3. QED
      BY <2>1, <2>2
  <1>3. member' \in [Users -> Member] /\ member \in [Users -> Member]
    BY <1>1, <1>2, WrittenFacts DEF Outcome
  <1>4. \A v \in Users : member'[v].role \in AnyRole /\ member[v].role \in AnyRole
    BY <1>3 DEF Member, AnyRole
  <1>5. Rank[member'[u].role] \in 0..4 /\ Rank[member[u].role] \in 0..4
    BY <1>4, RankType
  <1>6. CASE q.kind = "change"
    <2>1. /\ u # q.target => member'[u] = member[u]
          /\ u = q.target => member'[u].role = q.role
      BY <1>1, <1>3, <1>6, WrittenFacts DEF MemberAfter, Absent
    <2>2. CASE u # q.target
      BY <2>1, <2>2, <1>5, <1>6
    <2>3. CASE u = q.target /\ Elevated(u, q.role)
      BY <2>3, <1>1, <1>5, <1>6 DEF Raises, NewRole
    <2>4. CASE u = q.target /\ ~Elevated(u, q.role)
      <3>1. q.role = "none" \/ Rank[member[u].role] >= Rank[q.role]
        BY <2>4 DEF Elevated, Allows
      <3>2. QED
        BY <3>1, <2>1, <2>4, <1>5, <1>6, RankOf
    <2>5. QED
      BY <2>2, <2>3, <2>4
  <1>7. CASE q.kind = "transfer"
    <2>1. q.actor \in Users /\ q.actor # q.target /\ MayTransfer(q)
      BY <1>1, <1>7, WrittenFacts DEF StillGood, Permitted
    <2>2. /\ u \notin {q.target, q.actor} => member'[u] = member[u]
          /\ u = q.target => member'[u].role = "owner"
          /\ u = q.actor => member'[u].role \in {"admin", member[u].role}
      BY <2>1, <1>1, <1>3, <1>7, WrittenFacts DEF MemberAfter
    <2>3. CASE u = q.actor
      <3>1. member[u].role = "owner"
        BY <2>1, <2>3 DEF MayTransfer
      <3>2. QED
        BY <3>1, <2>2, <2>3, <1>5, <1>7, RankOf
    <2>4. CASE u = q.target /\ Elevated(u, "owner")
      BY <2>4, <1>1, <1>5, <1>7 DEF Raises, NewRole
    <2>5. CASE u = q.target /\ ~Elevated(u, "owner")
      <3>1. Rank[member[u].role] >= Rank["owner"]
        BY <2>5 DEF Elevated, Allows
      <3>2. QED
        BY <3>1, <2>2, <2>5, <1>5, <1>7
    <2>6. CASE u \notin {q.target, q.actor}
      BY <2>2, <2>6, <1>5, <1>7
    <2>7. QED
      BY <2>3, <2>4, <2>5, <2>6
  <1>8. CASE q.kind = "login" /\ q.proof # None
    <2>1. /\ u # q.target => member'[u] = member[u]
          /\ member'[q.target].role = invitation[q.proof].role
      BY <1>1, <1>3, <1>8, WrittenFacts DEF MemberAfter
    <2>2. QED
      BY <2>1, <1>1, <1>5, <1>8 DEF Raises, Invited
  <1>9. CASE q.kind = "issue" \/ (q.kind = "login" /\ q.proof = None)
    <2>1. member' = member
      BY <1>1, <1>9 DEF MemberAfter
    <2>2. QED
      BY <2>1, <1>5, <1>9 DEF Invited
  <1>10. QED
    BY <1>1, <1>6, <1>7, <1>8, <1>9, WrittenFacts

(* While a request is about to raise a role, only sign-ins that have not    *)
(* locked this workspace commit.                                            *)
LEMMA OthersWait ==
  ASSUME IInv, SInv, NEW r \in Requests, NEW p \in Requests, p # r,
         request[r].pc = "written", request[p].pc = "written",
         request[p].kind \in {"change", "transfer"} \/ (request[p].kind = "login" /\ request[p].proof # None)
  PROVE  /\ request[r].kind = "login" /\ request[r].proof = None
         /\ request[r].lock = "none"
  <1>1. request[p].lock = "update"
    BY RequestFacts DEF StillGood
  <1>2. request[r].lock = "none"
    BY <1>1 DEF IInv, OneUpdater
  <1>3. request[r].kind = "login" /\ request[r].proof = None
    BY <1>2, RequestFacts DEF StillGood
  <1>4. QED
    BY <1>2, <1>3

(* A commit keeps what is said of requests. *)
LEMMA CommitFormed ==
  ASSUME IInv, SInv, NEW r \in Requests, Commit(r)
  PROVE  RequestsFormed'
  <1> DEFINE q == request[r]
  <1>1. /\ q.pc = "written" /\ request' = [request EXCEPT ![r] = Idle]
    BY DEF Commit
  <1>2. /\ request'[r] = Idle /\ \A p \in Requests : p # r => request'[p] = request[p]
    BY <1>1 DEF IInv, TypeOK
  <1> SUFFICES ASSUME NEW p \in Requests
               PROVE  Formed(request[p])' /\ Complete(request[p])'
    BY DEF RequestsFormed
  <1>3. CASE p = r
    BY <1>2, <1>3 DEF Formed, Complete, Raises, Idle
  <1>4. CASE p # r
    <2> DEFINE o == request[p]
    <2>1. request'[p] = o /\ Formed(o) /\ Complete(o) /\ o \in Request
      BY <1>2, <1>4, RequestFacts
    <2>2. Formed(request[p])'
      BY <2>1, <1>1 DEF Formed
    <2>3. Complete(request[p])'
      <3> SUFFICES ASSUME Raises(request[p])'
                   PROVE  HomeOf(o.target)' \subseteq o.doomed
        BY <2>1, <1>1 DEF Complete
      <3>1. /\ o.pc = "written"
            /\ o.kind \in {"change", "transfer"} \/ (o.kind = "login" /\ o.proof # None)
        BY <2>1 DEF Raises
      <3>2. q.kind = "login" /\ q.proof = None /\ q.lock = "none"
        BY <3>1, <1>1, <1>4, OthersWait
      <3>3. member' = member
        BY <3>2 DEF Commit, MemberAfter
      <3>4. Raises(o)
        BY <3>3, <2>1 DEF Raises, Elevated
      <3>5. HomeOf(o.target) \subseteq o.doomed
        BY <3>4, <2>1 DEF Complete
      <3>6. ASSUME NEW s \in Sessions, session'[s].state = "live", session'[s].user = o.target,
                   session'[s].home
            PROVE  session[s].state = "live" /\ session[s].user = o.target /\ session[s].home
        <4>1. s # q.new
          <5>1. s # None
            BY ConstantFacts
          <5>2. q.new # None => session'[q.new].home = (q.lock # "none")
            BY CommittedSessions, Zenon
          <5>3. QED
            BY <5>1, <5>2, <3>2, <3>6, Zenon
        <4>2. QED
          BY <4>1, <3>6, CommittedSessions
      <3>7. QED
        BY <3>5, <3>6, <2>1 DEF HomeOf, SessionsOf, Live
    <2>4. QED
      BY <2>2, <2>3
  <1>5. QED
    BY <1>3, <1>4

(* A commit replaces a session that is live until then. *)
LEMMA CommitRows ==
  ASSUME IInv, SInv, NEW r \in Requests, Commit(r)
  PROVE  SessionRows'
  <1> DEFINE q == request[r]
  <1>1. q.pc = "written" /\ q \in Request /\ q.target \in Users /\ q.bound \in Sessions \cup {None}
        /\ session \in [Sessions -> Session]
    BY WrittenFacts DEF Commit, Request, IInv, TypeOK
  <1> SUFFICES ASSUME NEW s \in Sessions
               PROVE  /\ session'[s].state = "unborn" => session'[s] = Unborn
                      /\ session'[s].state = "live" => session'[s].user \in Users /\ ~session'[s].ended
                      /\ session'[s].from # None => /\ session'[session'[s].from].state = "gone"
                                                    /\ ~session'[session'[s].from].ended
    BY DEF SessionRows, SessionRow
  <1>2. q.new # None => session[q.new].state = "unborn"
    BY RequestFacts
  <1>3. CASE s = q.new
    <2>1. s # None
      BY ConstantFacts
    <2>2. /\ session'[s].state = "live" /\ session'[s].user = q.target
          /\ session'[s].from = q.bound /\ ~session'[s].ended
      BY <2>1, <1>3, CommittedSessions
    <2>3. ASSUME q.bound # None
          PROVE  session'[q.bound].state = "gone" /\ ~session'[q.bound].ended
      <3>1. q.kind = "login"
        BY <2>1, <1>3, RequestFacts DEF Formed
      <3>2. q.old = q.bound /\ q.doomed = {}
        BY <3>1, <2>3, <1>1, RequestFacts DEF Formed
      <3>3. session[q.bound].state = "live"
        BY <3>2, <2>3, RequestFacts
      <3>4. ~session[q.bound].ended
        BY <3>3, <2>3, <1>1 DEF SInv, SessionRows, SessionRow
      <3>5. q.bound # q.new
        BY <3>3, <2>1, <1>2, <1>3
      <3>6. QED
        BY <3>2, <3>4, <3>5, <2>3, <1>1, CommittedSessions
    <2>4. QED
      BY <2>2, <2>3, <1>1
  <1>4. CASE s # q.new
    <2>1. SessionRow(s)
      BY DEF SInv, SessionRows
    <2>2. session[s].from \in Sessions \cup {None}
      BY <1>1 DEF Session
    <2>3. session'[s].from = session[s].from /\ session'[s].user = session[s].user
      BY <1>4, CommittedSessions
    <2>4. session[s].from # None => session'[session[s].from] = session[session[s].from]
      <3> SUFFICES ASSUME session[s].from # None
                   PROVE  session'[session[s].from] = session[session[s].from]
        OBVIOUS
      <3>1. session[session[s].from].state = "gone" /\ session[s].from \in Sessions
        BY <2>1, <2>2 DEF SessionRow
      <3>2. session[s].from # q.new
        BY <3>1, <1>2, ConstantFacts
      <3>3. QED
        BY <3>1, <3>2, CommittedSessions
    <2>5. session'[s].state = "unborn" => session'[s] = Unborn
      <3> SUFFICES ASSUME session'[s].state = "unborn"
                   PROVE  session'[s] = Unborn
        OBVIOUS
      <3>1. CASE session[s].state # "live"
        BY <3>1, <2>1, <1>4, CommittedSessions DEF SessionRow
      <3>2. CASE session[s].state = "live"
        <4>1. session'[s] = SessionAfter(q)[s]
          BY DEF Commit
        <4>2. SessionAfter(q)[s].state \in {"gone", "live"}
          <5>1. session[s] \in Session /\ [session[s] EXCEPT !.state = "gone"].state = "gone"
                /\ [session[s] EXCEPT !.state = "gone", !.ended = TRUE].state = "gone"
            BY <1>1 DEF Session
          <5>2. QED
            BY <5>1, <3>2, <1>4 DEF SessionAfter
        <4>3. QED
          BY <4>1, <4>2
      <3>3. QED
        BY <3>1, <3>2
    <2>6. session'[s].state = "live" => session'[s].user \in Users /\ ~session'[s].ended
      BY <2>1, <2>3, <1>4, CommittedSessions DEF SessionRow
    <2>7. QED
      BY <2>1, <2>3, <2>4, <2>5, <2>6 DEF SessionRow
  <1>5. QED
    BY <1>3, <1>4

(* A commit hands its challenge on to its session. *)
LEMMA CommitSpends ==
  ASSUME IInv, SInv, NEW r \in Requests, Commit(r)
  PROVE  ChallengesSpent'
  <1> DEFINE q == request[r]
  <1>1. request' = [request EXCEPT ![r] = Idle] /\ challenge' = challenge
    BY DEF Commit
  <1>2. request'[r].by = None /\ \A p \in Requests : p # r => request'[p] = request[p]
    BY <1>1, IdleFormed DEF IInv, TypeOK
  <1>3. \A s \in Sessions : session'[s].by = IF s = q.new THEN q.by ELSE session[s].by
    BY ConstantFacts, CommittedSessions
  <1>4. q.by # None => /\ challenge[q.by].state = "gone"
                       /\ \A s \in Sessions : session[s].by # q.by
                       /\ \A p \in Requests : p # r => request[p].by # q.by
    BY RequestFacts
  <1>5. \A p \in Requests : request[p].by # None =>
          /\ challenge[request[p].by].state = "gone"
          /\ \A s \in Sessions : session[s].by # request[p].by
          /\ \A x \in Requests : x # p => request[x].by # request[p].by
    BY RequestFacts
  <1>6. \A s \in Sessions : session'[s].by # None => challenge'[session'[s].by].state = "gone"
    BY <1>1, <1>3, <1>4 DEF SInv, ChallengesSpent
  <1>7. \A p \in Requests : request'[p].by # None =>
          /\ challenge'[request'[p].by].state = "gone"
          /\ \A s \in Sessions : session'[s].by # request'[p].by
          /\ \A x \in Requests : x # p => request'[x].by # request'[p].by
    BY <1>1, <1>2, <1>3, <1>5
  <1>8. ChallengeOnce'
    BY <1>3, <1>4 DEF SInv, ChallengesSpent, ChallengeOnce
  <1>9. QED
    BY <1>1, <1>6, <1>7, <1>8, ChallengesPlain DEF ChallengesSpent

(* A commit leaves the sessions others make and delete to them. *)
LEMMA CommitClaims ==
  ASSUME IInv, SInv, NEW r \in Requests, Commit(r)
  PROVE  SessionsClaimed'
  <1> DEFINE q == request[r]
  <1>1. /\ request' = [request EXCEPT ![r] = Idle]
        /\ \A s \in q.doomed : ~Claimed(s, r)
    BY DEF Commit
  <1>2. /\ request'[r].new = None /\ request'[r].old = None
        /\ \A p \in Requests : /\ p # r => request'[p] = request[p]
                               /\ request[p].new \in Sessions \cup {None}
                               /\ request[p].old \in Sessions \cup {None}
    BY <1>1, IdleFormed DEF IInv, TypeOK, Request
  <1> SUFFICES ASSUME NEW p \in Requests, p # r
               PROVE  /\ request[p].new # None =>
                           /\ session'[request[p].new].state = "unborn"
                           /\ \A x \in Requests : x # p => request'[x].new # request[p].new
                      /\ request[p].old # None =>
                           /\ session'[request[p].old].state = "live"
                           /\ \A x \in Requests : x # p => request'[x].old # request[p].old
    BY <1>2 DEF SessionsClaimed
  <1>3. ASSUME request[p].new # None
        PROVE  session'[request[p].new].state = "unborn"
    <2>1. request[p].new # q.new /\ session[request[p].new].state = "unborn"
      BY <1>3, RequestFacts
    <2>2. QED
      BY <2>1, <1>2, <1>3, CommittedSessions
  <1>4. ASSUME request[p].old # None
        PROVE  session'[request[p].old].state = "live"
    <2>1. request[p].old # q.old /\ session[request[p].old].state = "live"
      BY <1>4, RequestFacts
    <2>2. request[p].old \notin q.doomed
      BY <1>1 DEF Claimed
    <2>3. request[p].old # q.new
      BY <2>1, <1>4, RequestFacts
    <2>4. QED
      BY <2>1, <2>2, <2>3, <1>2, <1>4, CommittedSessions
  <1>5. QED
    BY <1>2, <1>3, <1>4, RequestFacts

(* A commit that raises a role ends the person's sessions with it. *)
LEMMA CommitRanks ==
  ASSUME IInv, SInv, NEW r \in Requests, Commit(r)
  PROVE  HomeElevationEndsSessions'
  <1> DEFINE q == request[r]
  <1>1. q.pc = "written"
    BY DEF Commit
  <1>2. SessionRows'
    BY CommitRows
  <1> SUFFICES ASSUME NEW s \in Sessions, session'[s].home, session'[s].state = "live"
               PROVE  ~(Rank[member'[session'[s].user].role] > session'[s].rank)
    BY <1>1 DEF HomeElevationEndsSessions, Outranked, Live
  <1> DEFINE u == session'[s].user
  <1>3. u \in Users
    BY <1>2 DEF SessionRows, SessionRow
  <1>4. CASE s = q.new
    <2>1. q.kind = "login" /\ u = q.target /\ session'[s].rank = Rank[Invited(q)]
      BY <1>4, ConstantFacts, RequestFacts, CommittedSessions DEF Formed
    <2>2. Rank[member'[u].role] = session'[s].rank /\ Rank[member'[u].role] \in 0..4
      BY <2>1, <1>3, CommittedRoles
    <2>3. QED
      BY <2>2
  <1>5. CASE s # q.new
    <2>1. /\ session[s].user = u /\ session[s].rank = session'[s].rank
          /\ session[s].state = "live" /\ s \notin q.doomed /\ session[s].home
      BY <1>5, CommittedSessions
    <2>2. session[s].rank \in 0..4
      BY DEF IInv, TypeOK, Session
    <2>3. ~(Rank[member[u].role] > session[s].rank)
      BY <2>1 DEF SInv, HomeElevationEndsSessions, Outranked, Live
    <2>4. ~(u = q.target /\ Raises(q))
      <3> SUFFICES ASSUME u = q.target, Raises(q)
                   PROVE  FALSE
        OBVIOUS
      <3>1. HomeOf(q.target) \subseteq q.doomed
        BY RequestFacts DEF Complete
      <3>2. QED
        BY <3>1, <2>1 DEF HomeOf, SessionsOf, Live
    <2>5. Rank[member'[u].role] <= Rank[member[u].role]
          /\ Rank[member'[u].role] \in 0..4 /\ Rank[member[u].role] \in 0..4
      BY <2>4, <1>3, CommittedRoles
    <2>6. QED
      BY <2>1, <2>2, <2>3, <2>5
  <1>6. QED
    BY <1>4, <1>5

(* Every step keeps what is said of sessions. *)
LEMMA NextSInv ==
  ASSUME IInv, SInv, [Next]_vars
  PROVE  SInv'
  <1>1. ASSUME NEW r \in Requests, Commit(r)
        PROVE  SInv'
    BY <1>1, CommitFormed, CommitRows, CommitSpends, CommitClaims, CommitRanks DEF SInv
  <1>2. ASSUME NEW r \in Requests, Send(r) \/ Check(r) \/ Write(r) \/ Consume(r) \/ SignIn(r) \/ Abort(r)
        PROVE  SInv'
    BY <1>2, SendSInv, CheckSInv, WriteSInv, ConsumeSInv, SignInSInv, AbortSInv
  <1>3. ASSUME NEW s \in Sessions, Logout(s)
        PROVE  SInv'
    BY <1>3, LogoutSInv
  <1>4. ASSUME UNCHANGED vars \/ \E u \in Users : ChangeElsewhere(u)
        PROVE  SInv'
    <2>1. UNCHANGED <<member, session, challenge, request>>
      BY <1>4 DEF vars, ChangeElsewhere
    <2>2. RequestsFormed'
      <3>1. \A u : HomeOf(u)' = HomeOf(u)
        BY <2>1 DEF HomeOf, SessionsOf, Live
      <3>2. \A r \in Requests : request[r].target \in Users \cup {None}
        BY DEF IInv, TypeOK, Request
      <3>3. QED
        BY <3>1, <3>2, <2>1, FormedKept
    <2>3. SessionRows' /\ ChallengesSpent' /\ SessionsClaimed'
      BY <2>1 DEF SInv, SessionRows, SessionRow, ChallengesSpent, ChallengeOnce, SessionsClaimed
    <2>4. HomeElevationEndsSessions'
      BY <2>1 DEF SInv, HomeElevationEndsSessions, Outranked, Live
    <2>5. QED
      BY <2>2, <2>3, <2>4 DEF SInv
  <1>5. QED
    BY <1>1, <1>2, <1>3, <1>4, StartChallengeSInv DEF Next

(* Sessions, challenges and the requests that make and delete them agree in *)
(* every behaviour.                                                         *)
THEOREM SessionInvariant == Spec => [](IInv /\ SInv)
  <1>1. Init => SInv
    BY InitSInv
  <1>2. IInv /\ SInv /\ [Next]_vars => SInv'
    BY NextSInv
  <1>3. QED
    BY <1>1, <1>2, AccessInvariant, PTL DEF Spec

(* Memberships, invitations, sessions, challenges and requests keep their   *)
(* types (the tables of internal/workspace and internal/identity).          *)
THEOREM AccessTypeCorrect == Spec => []TypeOK
  <1>1. IInv => TypeOK
    BY DEF IInv
  <1>2. QED
    BY <1>1, AccessInvariant, PTL

(* A reauthentication never replaces a session that a logout or an          *)
(* elevation has ended, in whatever order they commit (RotateRecent).       *)
THEOREM NoSessionComesBack == Spec => []EndedStaysEnded
  <1>1. SInv => EndedStaysEnded
    BY DEF SInv, SessionRows, SessionRow, EndedStaysEnded
  <1>2. QED
    BY <1>1, SessionInvariant, PTL

(* No challenge makes two sessions, however often its callback is requested *)
(* (Consume).                                                               *)
THEOREM ChallengesMakeOneSession == Spec => []ChallengeOnce
  <1>1. SInv => ChallengeOnce
    BY DEF SInv, ChallengesSpent
  <1>2. QED
    BY <1>1, SessionInvariant, PTL

(* No session made under the lock of this workspace outlives a rise of the  *)
(* role, wherever else the person comes to belong meanwhile                 *)
(* (invalidateElevation and the callback's locks).                          *)
THEOREM ElevationEndsSessions == Spec => []HomeElevationEndsSessions
  <1>1. SInv => HomeElevationEndsSessions
    BY DEF SInv
  <1>2. QED
    BY <1>1, SessionInvariant, PTL
=============================================================================
