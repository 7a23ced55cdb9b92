------------------------------- MODULE Access -------------------------------
(***************************************************************************)
(* Who may act in a workspace: its memberships and invitations             *)
(* (backend/internal/workspace), the sign-ins and sessions of its people   *)
(* (backend/internal/identity, httpapi/callback.go).  Sign-in redeems      *)
(* invitations and creates sessions in one transaction, and a membership   *)
(* change that raises somebody's role deletes that person's sessions in    *)
(* its own, so that the two meet in the database.                          *)
(*                                                                         *)
(* A request is sent, checks and writes in one transaction, and commits.   *)
(* What it writes is not seen by others before the commit; what stops      *)
(* others in between are row locks: FOR UPDATE and FOR SHARE on the        *)
(* workspace, and sessions rows that a transaction has deleted.            *)
(***************************************************************************)
EXTENDS Roles, Integers, FiniteSets

CONSTANTS
    Users,
    Creator,        \* the user who created the workspace
    None,
    Requests,       \* HTTP requests being served at the same time
    Sessions,       \* session tokens, numbered as they are handed out
    Challenges,     \* login challenges, numbered as they are started
    Proofs,         \* invitation proofs
    Kinds,          \* kinds of member requests sent
    MaxPolicy       \* bound: the workspace's policy version

ASSUME AccessAssumption ==
    /\ Creator \in Users
    /\ None \notin Users \cup Requests \cup Sessions \cup Challenges \cup Proofs
    /\ IsFiniteSet(Users)
    /\ Sessions \subseteq Nat /\ Challenges \subseteq Nat
    /\ Kinds \subseteq {"change", "transfer", "issue"}
    /\ MaxPolicy \in Nat

VARIABLES
    other,          \* where the ids of a person's other open workspaces lie from this one's
    member,         \* memberships
    policy,         \* workspaces.policy_version
    invitation,     \* invitations
    session,        \* sessions
    challenge,      \* login_challenges
    request         \* the requests being served

vars == <<other, member, policy, invitation, session, challenge, request>>

-----------------------------------------------------------------------------
(* Rows *)

Sides == {"earlier", "later"}

Member == [role: Roles \cup {"none"}, version: Nat]
Absent == [role |-> "none", version |-> 0]
Owners == {u \in Users : member[u].role = "owner"}

Invitation == [state: {"unissued", "open", "gone"}, inviter: Users \cup {None}, version: Nat,
               role: Roles \cup {"none"}, subject: Users \cup {None}]
Unissued == [state |-> "unissued", inviter |-> None, version |-> 0, role |-> "none", subject |-> None]

(* `from' is the session a reauthentication replaced, `by' the challenge,   *)
(* `rank' the user's rank when the session was made; `home' says that the   *)
(* sign-in locked this workspace, `ended' that logout or an elevation       *)
(* deleted the row.  All five are history.                                  *)
Session == [state: {"unborn", "live", "gone"}, user: Users \cup {None}, from: Sessions \cup {None},
            by: Challenges \cup {None}, rank: 0..4, home: BOOLEAN, ended: BOOLEAN]
Unborn == [state |-> "unborn", user |-> None, from |-> None, by |-> None, rank |-> 0,
           home |-> FALSE, ended |-> FALSE]
Live(s) == session[s].state = "live"
SessionsOf(u) == {s \in Sessions : Live(s) /\ session[s].user = u}

Challenge == [state: {"unborn", "open", "gone"}, bound: Sessions \cup {None}, proof: Proofs \cup {None}]
NoChallenge == [state |-> "unborn", bound |-> None, proof |-> None]

(* A request: who acts on whom, the role asked for, the rows its author had *)
(* seen, and what its transaction has done so far: `lock' on the workspace, *)
(* `doomed' sessions its elevation deletes, the session it makes (`new')    *)
(* and the one it deletes for it (`old').                                   *)
Request == [pc: {"idle", "sent", "checked", "written"},
            kind: {"change", "transfer", "issue", "login"},
            actor: Users \cup {None}, target: Users \cup {None}, role: Roles \cup {"none"},
            own: Member, seen: Member, proof: Proofs \cup {None}, bound: Sessions \cup {None},
            by: Challenges \cup {None}, lock: {"none", "share", "update"},
            doomed: SUBSET Sessions, new: Sessions \cup {None}, old: Sessions \cup {None}]

Idle == [pc |-> "idle", kind |-> "login", actor |-> None, target |-> None, role |-> "none",
         own |-> Absent, seen |-> Absent, proof |-> None, bound |-> None, by |-> None,
         lock |-> "none", doomed |-> {}, new |-> None, old |-> None]

Init ==
    /\ other \in [Users -> SUBSET Sides]
    /\ member = [u \in Users |-> IF u = Creator THEN [role |-> "owner", version |-> 1] ELSE Absent]
    /\ policy = 1
    /\ invitation = [p \in Proofs |-> Unissued]
    /\ session = [s \in Sessions |-> Unborn]
    /\ challenge = [k \in Challenges |-> NoChallenge]
    /\ request = [r \in Requests |-> Idle]

-----------------------------------------------------------------------------
(* Locks *)

Unserialized(r) == TRUE

(* LockAuthority waits for every other transaction holding the row.         *)
MayUpdate(r) == \A q \in Requests \ {r} : request[q].lock = "none"
MayShare(r) == \A q \in Requests \ {r} : request[q].lock # "update"

(* A deleted row is free again when its transaction ends.                   *)
Claimed(s, r) == \E q \in Requests \ {r} : request[q].old = s

-----------------------------------------------------------------------------
(* Member requests *)

(* Protect has resolved a live session and a membership.  What the author   *)
(* saw of both memberships goes with the request as versions.               *)
Send(r) ==
    /\ request[r].pc = "idle"
    /\ \E kind \in Kinds, a \in Users, t \in Users, role \in Roles \cup {"none"} :
         /\ SessionsOf(a) # {}
         /\ Allows(member[a].role, "viewer")
         /\ kind # "change" => a # t /\ role # "none"
         /\ kind = "transfer" => role \in {"admin", "owner"}
         /\ request' = [request EXCEPT ![r] =
                          [Idle EXCEPT !.pc = "sent", !.kind = kind, !.actor = a, !.target = t,
                                       !.role = role, !.own = member[a], !.seen = member[t]]]
    /\ UNCHANGED <<other, member, policy, invitation, session, challenge>>

(* ChangeMember: authority over both roles, the version the author saw and  *)
(* an owner left over.                                                      *)
MayChange(q) ==
    LET current == member[q.actor]
        previous == member[q.target]
    IN  /\ q.role # "none" => CanAssign(current.role, q.role)
        /\ previous.role # "none" => CanAssign(current.role, previous.role)
        /\ previous.version = q.seen.version
        /\ previous.version = 0 => q.role # "none"
        /\ previous.role = "owner" /\ q.role # "owner" => Cardinality(Owners) > 1

(* Who is added is a member of another open workspace already.              *)
Admitted(q) == member[q.target].version = 0 => other[q.target] # {}

(* Transfer: the target becomes an owner, and the actor stays one or        *)
(* becomes an admin.                                                        *)
MayTransfer(q) ==
    /\ member[q.actor].role = "owner"
    /\ member[q.target].role # "none"
    /\ member[q.actor].version = q.own.version
    /\ member[q.target].version = q.seen.version

MayIssue(q) == CanAssign(member[q.actor].role, q.role)

Elevated(u, role) == role # "none" /\ ~Allows(member[u].role, role)

(* LockAuthority and the checks, which hold until the commit.               *)
Check(r) ==
    LET q == request[r]
    IN  /\ q.pc = "sent" /\ q.kind # "login"
        /\ policy < MaxPolicy
        /\ MayUpdate(r)
        /\ Allows(member[q.actor].role, "admin")
        /\ \/ q.kind = "change" /\ MayChange(q) /\ Admitted(q)
           \/ q.kind = "transfer" /\ MayTransfer(q)
           \/ q.kind = "issue" /\ MayIssue(q)
        /\ request' = [request EXCEPT ![r].pc = "checked", ![r].lock = "update"]
        /\ UNCHANGED <<other, member, policy, invitation, session, challenge>>

(* The statements of the transaction.  invalidateElevation deletes the      *)
(* sessions that are committed when it starts.                              *)
NewRole(q) == IF q.kind = "transfer" THEN "owner" ELSE q.role

Write(r) ==
    LET q == request[r]
        elevates == q.kind # "issue" /\ Elevated(q.target, NewRole(q))
    IN  /\ q.pc = "checked"
        /\ request' = [request EXCEPT ![r].pc = "written",
                                      ![r].doomed = IF elevates THEN SessionsOf(q.target) ELSE {}]
        /\ UNCHANGED <<other, member, policy, invitation, session, challenge>>

-----------------------------------------------------------------------------
(* Sign-in *)

(* A login, an invitation's login or a reauthentication begins.             *)
StartChallenge ==
    /\ \E k \in Challenges, bound \in Sessions \cup {None}, proof \in Proofs \cup {None} :
         /\ challenge[k].state = "unborn"
         /\ \A j \in Challenges : j < k => challenge[j].state # "unborn"
         /\ bound # None => proof = None /\ Live(bound)
         /\ proof # None => invitation[proof].state # "unissued"
         /\ challenge' = [challenge EXCEPT ![k] = [state |-> "open", bound |-> bound, proof |-> proof]]
    /\ UNCHANGED <<other, member, policy, invitation, session, request>>

ConsumedLeft(k) == challenge
Consumed(k) == [challenge EXCEPT ![k].state = "gone"]

(* The callback deletes its challenge and exchanges the code for the        *)
(* identity of whoever signed in at the issuer.                             *)
Consume(r) ==
    /\ request[r].pc = "idle"
    /\ \E k \in Challenges, u \in Users :
         /\ challenge[k].state = "open"
         /\ challenge' = Consumed(k)
         /\ request' = [request EXCEPT ![r] =
                          [Idle EXCEPT !.pc = "sent", !.target = u, !.by = k,
                                       !.proof = challenge[k].proof, !.bound = challenge[k].bound]]
    /\ UNCHANGED <<other, member, policy, invitation, session>>

(* RedeemInvitation: the proof is for this identity, and its issuer's       *)
(* membership is still the one that issued it and may assign the role.      *)
RedeemableByAnyInviter(q) ==
    LET i == invitation[q.proof]
    IN  /\ i.state = "open"
        /\ i.subject = q.target
        /\ member[q.target].role = "none"
        /\ Allows(member[i.inviter].role, "admin")

Redeemable(q) ==
    LET i == invitation[q.proof]
    IN  /\ i.state = "open"
        /\ i.subject = q.target
        /\ member[q.target].role = "none"
        /\ Allows(member[i.inviter].role, "admin")
        /\ member[i.inviter].version = i.version
        /\ CanAssign(member[i.inviter].role, i.role)

Invited(q) == IF q.proof = None THEN member[q.target].role ELSE invitation[q.proof].role

(* A redemption in this workspace locks it for update.  A sign-in otherwise *)
(* locks for share the first by id of the workspaces the person is in at    *)
(* that moment, which leaves this one alone when it is another.             *)
LocksOf(q) ==
    CASE q.proof # None -> "update"
      [] q.proof = None /\ ("earlier" \in other[q.target] \/ member[q.target].role = "none") -> "none"
      [] OTHER -> "share"

RotatesAnyway(q, s) == s = q.bound /\ session[s].user = q.target

(* RotateRecent replaces exactly the session the challenge was bound to.    *)
Rotates(q, s) == s = q.bound /\ Live(s) /\ session[s].user = q.target

(* The callback's transaction: redeem, find the user, and make a session    *)
(* in place of the one in the browser's cookie.                             *)
SignIn(r) ==
    LET q == request[r]
    IN  /\ q.pc = "sent" /\ q.kind = "login"
        /\ q.proof # None => policy < MaxPolicy /\ MayUpdate(r) /\ Redeemable(q)
        /\ LocksOf(q) = "share" => MayShare(r)
        /\ other[q.target] # {} \/ Invited(q) # "none"
        /\ \E new \in Sessions, cookie \in Sessions \cup {None} :
             /\ session[new].state = "unborn"
             /\ \A p \in Requests : request[p].new # new
             /\ \A s \in Sessions : s < new => session[s].state # "unborn" \/ \E p \in Requests : request[p].new = s
             /\ IF q.bound # None
                  THEN Rotates(q, cookie) /\ ~Claimed(cookie, r)
                  ELSE cookie # None => cookie \in SessionsOf(q.target) /\ ~Claimed(cookie, r)
             /\ request' = [request EXCEPT ![r] =
                              [q EXCEPT !.pc = "written", !.new = new, !.old = cookie,
                                        !.lock = LocksOf(q),
                                        !.doomed = IF q.proof = None THEN {} ELSE SessionsOf(q.target)]]
        /\ UNCHANGED <<other, member, policy, invitation, session, challenge>>

-----------------------------------------------------------------------------
(* Commit *)

RevisionOfRows(q) ==
    1 + CHOOSE n \in {member[u].version : u \in Users} : \A u \in Users : member[u].version <= n

(* The workspace's revision becomes the version of every row it changes.    *)
Revision(q) == policy + 1

MemberAfter(q) ==
    CASE q.kind = "change" ->
           [member EXCEPT ![q.target] = IF q.role = "none" THEN Absent
                                        ELSE [role |-> q.role, version |-> Revision(q)]]
      [] q.kind = "transfer" ->
           [member EXCEPT ![q.target] = [role |-> "owner", version |-> Revision(q)],
                          ![q.actor] = IF q.role = "admin" THEN [role |-> "admin", version |-> Revision(q)]
                                       ELSE @]
      [] q.kind = "login" /\ q.proof # None ->
           [member EXCEPT ![q.target] = [role |-> invitation[q.proof].role, version |-> Revision(q)]]
      [] OTHER -> member

ChangesPolicy(q) == q.kind \in {"change", "transfer"} \/ q.proof # None

InvitationAfter(q, p) ==
    CASE q.kind = "issue" /\ p # None ->
           [invitation EXCEPT ![p] = [state |-> "open", inviter |-> q.actor, role |-> q.role,
                                      version |-> member[q.actor].version, subject |-> q.target]]
      [] q.kind = "login" /\ q.proof # None -> [invitation EXCEPT ![q.proof].state = "gone"]
      [] OTHER -> invitation

(* Sessions another transaction deleted first are gone by its doing.        *)
SessionAfter(q) ==
    [s \in Sessions |->
       CASE s = q.new -> [state |-> "live", user |-> q.target, from |-> q.bound, by |-> q.by,
                          rank |-> Rank[Invited(q)], home |-> q.lock # "none", ended |-> FALSE]
         [] s \in q.doomed /\ Live(s) -> [session[s] EXCEPT !.state = "gone", !.ended = TRUE]
         [] s = q.old /\ s \notin q.doomed -> [session[s] EXCEPT !.state = "gone"]
         [] OTHER -> session[s]]

(* The deletion of a session waits for a transaction that has deleted it    *)
(* too.                                                                     *)
Commit(r) ==
    LET q == request[r]
    IN  /\ q.pc = "written"
        /\ \A s \in q.doomed : ~Claimed(s, r)
        /\ member' = MemberAfter(q)
        /\ policy' = IF ChangesPolicy(q) THEN policy + 1 ELSE policy
        /\ \E p \in Proofs \cup {None} :
             /\ q.kind = "issue" => p # None /\ invitation[p].state = "unissued"
             /\ invitation' = InvitationAfter(q, p)
        /\ session' = SessionAfter(q)
        /\ request' = [request EXCEPT ![r] = Idle]
        /\ UNCHANGED <<other, challenge>>

(* A request is denied, conflicts with another or fails, and its            *)
(* transaction is rolled back.                                              *)
Abort(r) ==
    /\ request[r].pc # "idle"
    /\ request' = [request EXCEPT ![r] = Idle]
    /\ UNCHANGED <<other, member, policy, invitation, session, challenge>>

-----------------------------------------------------------------------------
(* Logout.  The expiry of a session, a challenge or an invitation keeps it  *)
(* from being used, which not using it does as well; it has no action.      *)
Logout(s) ==
    /\ Live(s) /\ ~Claimed(s, None)
    /\ session' = [session EXCEPT ![s].state = "gone", ![s].ended = TRUE]
    /\ UNCHANGED <<other, member, policy, invitation, challenge, request>>

(* A person creates, enters or leaves other workspaces, or one is closed.   *)
(* What is deleted of the person's sessions there ends as by Logout.        *)
ChangeElsewhere(u) ==
    /\ \E sides \in SUBSET Sides : other' = [other EXCEPT ![u] = sides]
    /\ UNCHANGED <<member, policy, invitation, session, challenge, request>>

Next ==
    \/ StartChallenge
    \/ \E r \in Requests : \/ Send(r) \/ Check(r) \/ Write(r) \/ Consume(r) \/ SignIn(r)
                           \/ Commit(r) \/ Abort(r)
    \/ \E s \in Sessions : Logout(s)
    \/ \E u \in Users : ChangeElsewhere(u)

Spec == Init /\ [][Next]_vars

-----------------------------------------------------------------------------
(* Properties *)

TypeOK ==
    /\ other \in [Users -> SUBSET Sides]
    /\ member \in [Users -> Member]
    /\ policy \in Nat
    /\ invitation \in [Proofs -> Invitation]
    /\ session \in [Sessions -> Session]
    /\ challenge \in [Challenges -> Challenge]
    /\ request \in [Requests -> Request]

(* The workspace keeps an owner, also when owners demote or remove one      *)
(* another at the same time (LockAuthority and the count of ChangeMember).  *)
AlwaysAnOwner == Owners # {}

(* Authority over others comes from owners: whoever becomes an admin or     *)
(* owner was made one by somebody who is an owner at that moment, not only  *)
(* when the invitation was issued or the request sent (ChangeMember,        *)
(* Transfer, RedeemInvitation).                                             *)
MadeBy(q) == IF q.kind = "login" THEN invitation[q.proof].inviter ELSE q.actor

OwnersMakeAdmins ==
    [][\A r \in Requests :
         /\ request[r].pc = "written" /\ request'[r].pc = "idle"
         /\ \E u \in Users : Elevated(u, member'[u].role) /\ Allows(member'[u].role, "admin")
         => member[MadeBy(request[r])].role = "owner"]_vars

(* A change applies only to the membership its author saw, however often    *)
(* the member has been changed, removed and added again since (versions of  *)
(* ChangeMember and Transfer).                                              *)
StaleNeverApplied ==
    [][\A r \in Requests :
         /\ request[r].pc = "written" /\ request'[r].pc = "idle"
         /\ request[r].kind \in {"change", "transfer"} /\ member' # member
         => member[request[r].target] = request[r].seen]_vars

(* A reauthentication never brings back a session that a logout or an       *)
(* elevation has ended, in whatever order their transactions commit         *)
(* (RotateRecent).  A logout that comes after the rotation finds no row and *)
(* ends nothing: the new session stays.                                     *)
EndedStaysEnded ==
    \A s \in Sessions : session[s].from # None => ~session[session[s].from].ended

(* No challenge makes two sessions, however often its callback is requested *)
(* (Consume).                                                               *)
ChallengeOnce ==
    \A s, t \in Sessions : s # t /\ session[s].by = session[t].by => session[s].by = None

Outranked(s) == Live(s) /\ Rank[member[session[s].user].role] > session[s].rank

(* No session that its sign-in made under the lock of this workspace, which *)
(* was the person's first or redeemed an invitation to it, survives a rise  *)
(* of the role, also when sign-in and rise overlapped (invalidateElevation  *)
(* and the locks of the callback).  A sign-in that locks another workspace  *)
(* instead promises nothing here.                                           *)
HomeElevationEndsSessions ==
    \A s \in Sessions : session[s].home => ~Outranked(s)
=============================================================================
