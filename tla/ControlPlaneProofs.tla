------------------------- MODULE ControlPlaneProofs -------------------------
(* The theorems of AccessProofs, AdmissionProofs and CredentialsProofs,     *)
(* carried over to the behaviours of MCControlPlane, which start Access     *)
(* with people who have joined and signed in.                               *)
EXTENDS MCControlPlane, AccessProofs

AdmissionInv == part = "admission" => Admission!IInv
CredentialsInv == part = "credentials" => Credentials!IInv

(* The constants of every part are as the part assumes.                     *)
LEMMA PartConstants == Admission!ConstantsOK /\ Credentials!ConstantsOK
BY MCAssumption

(* Reviews and operations are dated and apart wherever admission runs.      *)
LEMMA AdmissionRuns == MCSpec => []AdmissionInv
<1>1. MCInit => AdmissionInv
      BY PartConstants, Admission!InitIInv DEF MCInit, AdmissionInit, AdmissionInv
<1>2. AdmissionInv /\ [MCNext]_all => AdmissionInv'
  <2> SUFFICES ASSUME AdmissionInv, [MCNext]_all, part' = "admission" PROVE Admission!IInv'
      BY DEF AdmissionInv
  <2>1. CASE part = "admission" /\ Admission!Next
        BY <2>1, PartConstants, Admission!NextIInv DEF AdmissionInv
  <2>2. CASE UNCHANGED <<part, admission>>
    <3>1. UNCHANGED Admission!vars /\ Admission!IInv
          BY <2>2 DEF admission, Admission!vars, AdmissionInv
    <3> QED BY <3>1, PartConstants, Admission!NextIInv
  <2> QED BY <2>1, <2>2 DEF MCNext, all
<1> QED BY <1>1, <1>2, PTL DEF MCSpec

(* Keys and envelopes agree wherever credentials run.                       *)
LEMMA CredentialsRun == MCSpec => []CredentialsInv
<1>1. MCInit => CredentialsInv
      BY PartConstants, Credentials!InitIInv DEF MCInit, CredentialsInv
<1>2. CredentialsInv /\ [MCNext]_all => CredentialsInv'
  <2> SUFFICES ASSUME CredentialsInv, [MCNext]_all, part' = "credentials" PROVE Credentials!IInv'
      BY DEF CredentialsInv
  <2>1. CASE part = "credentials" /\ Credentials!Next
        BY <2>1, PartConstants, Credentials!NextIInv DEF CredentialsInv
  <2>2. CASE UNCHANGED <<part, credentials>>
    <3>1. UNCHANGED Credentials!vars /\ Credentials!IInv
          BY <2>2 DEF credentials, Credentials!vars, CredentialsInv
    <3> QED BY <3>1, PartConstants, Credentials!NextIInv
  <2> QED BY <2>1, <2>2 DEF MCNext, all
<1> QED BY <1>1, <1>2, PTL DEF MCSpec

(* A review becomes one operation, whatever is retried or repeated (Confirm *)
(* and its idempotency keys).                                               *)
THEOREM OneOperationPerReview == MCSpec => []AcceptedOnce
<1>1. AdmissionInv => AcceptedOnce
      BY Admission!IInvAcceptsOnce DEF AdmissionInv, AcceptedOnce
<1> QED BY <1>1, AdmissionRuns, PTL

(* What is accepted is what was reviewed, though both sides read the        *)
(* provider outside their transactions (Prepare, Confirm).                  *)
THEOREM AcceptanceIsOfTheReviewed == MCSpec => AcceptedAsReviewed
<1>1. AdmissionInv /\ [MCNext]_all => [part = "admission" => Admission!UntouchedWhenAccepted]_all
  <2> SUFFICES ASSUME AdmissionInv, [MCNext]_all, ~UNCHANGED all, part = "admission"
               PROVE  Admission!UntouchedWhenAccepted
      OBVIOUS
  <2>1. Admission!Next /\ Admission!IInv
        BY DEF MCNext, AdmissionInv
  <2> QED BY <2>1, PartConstants, Admission!AcceptedUntouched
<1> QED BY <1>1, AdmissionRuns, PTL DEF MCSpec, AcceptedAsReviewed

(* Every stored credential version can be opened with the keys mounted,     *)
(* through rotations, rewraps and the change of the master key.             *)
THEOREM StoredCredentialsOpen == MCSpec => []CredentialsOpen
<1>1. CredentialsInv => CredentialsOpen
      BY Credentials!IInvOpens DEF CredentialsInv, CredentialsOpen
<1> QED BY <1>1, CredentialsRun, PTL

-----------------------------------------------------------------------------
(* A session that somebody signed in to is well formed.                     *)
LEMMA SignedInRow ==
    ASSUME NEW u \in Users, member[u].role \in AnyRole
    PROVE  SignedIn(u) \in Session
<1>1. Rank[member[u].role] \in 0..4
      BY RankType
<1> QED BY <1>1, RowTypes DEF SignedIn, Session, Unborn

(* Two people who have joined, and nothing under way, satisfy the           *)
(* invariant of Access.                                                     *)
LEMMA JoinedInv ==
    ASSUME NEW second \in {"none", "operator", "admin", "owner"}, Joined(second), AccessInit,
           other \in [Users -> SUBSET Sides], session \in [Sessions -> Session],
           challenge \in [Challenges -> Challenge]
    PROVE  IInv
<1> DEFINE first == [role |-> "owner", version |-> 1]
           next == [role |-> second, version |-> 2]
<1>1. first \in Member /\ first.role = "owner" /\ first.version = 1
      BY DEF Member, Roles
<1>2. second # "none" => next \in Member /\ next.role = second /\ next.version = 2
      BY DEF Member, Roles
<1>3. member = [u \in Users |-> CASE u = u1 -> first
                                   [] u = u2 /\ second # "none" -> next
                                   [] OTHER -> Absent]
      BY DEF Joined
<1>4. u1 \in Users /\ u1 # u2 /\ policy = 2
      BY MCAssumption DEF AccessInit
<1> HIDE DEF first, next
<1>5. TypeOK
      BY <1>1, <1>2, <1>3, <1>4, RowTypes DEF TypeOK, AccessInit
<1>6. MembersVersioned
      BY <1>1, <1>2, <1>3, <1>4, RowTypes DEF MembersVersioned, Versioned
<1>7. RequestsGood /\ OneUpdater
      BY IdleGood, RowTypes DEF RequestsGood, OneUpdater, AccessInit
<1>8. AlwaysAnOwner
  <2>1. member[u1] = first
        BY <1>3, <1>4
  <2> QED BY <1>1, <1>4, <2>1 DEF AlwaysAnOwner, Owners
<1> QED BY <1>5, <1>6, <1>7, <1>8 DEF IInv

(* Every run of the control plane starts Access in a good state.            *)
LEMMA StartInv == MCInit => IInv
<1>1. ASSUME NEW second \in {"none", "operator", "admin", "owner"}, Joined(second), NEW u \in Users
      PROVE  SignedIn(u) \in Session
  <2>1. member[u].role \in AnyRole
    <3>1. second \in AnyRole /\ "owner" \in AnyRole /\ Absent.role \in AnyRole
          BY <1>1, RowTypes DEF AnyRole, Roles
    <3> QED BY <1>1, <3>1 DEF Joined
  <2> QED BY <2>1, SignedInRow
<1>2. u1 \in Users /\ u2 \in Users /\ u3 \in Users
      BY MCAssumption
<1>3. MembersInit => IInv
  <2> SUFFICES ASSUME MembersInit PROVE IInv
      OBVIOUS
  <2>1. PICK second \in {"admin", "owner"} : Joined(second)
        BY DEF MembersInit
  <2>2. SignedIn(u1) \in Session /\ SignedIn(u2) \in Session
        BY <1>1, <1>2, <2>1
  <2>3. session \in [Sessions -> Session]
        BY <2>2, RowTypes DEF MembersInit
  <2>4. [NoChallenge EXCEPT !.state = "gone"] \in Challenge
        BY RowTypes DEF Challenge
  <2>5. challenge \in [Challenges -> Challenge]
        BY <2>4, RowTypes DEF MembersInit
  <2>6. other \in [Users -> SUBSET Sides]
        BY DEF MembersInit, Sides
  <2> QED BY <1>2, <2>1, <2>3, <2>5, <2>6, JoinedInv DEF MembersInit
<1>4. SessionsInit => IInv
  <2> SUFFICES ASSUME SessionsInit PROVE IInv
      OBVIOUS
  <2>1. PICK second \in {"operator", "none"} : Joined(second)
        BY DEF SessionsInit
  <2>2. SignedIn(u1) \in Session
        BY <1>1, <1>2, <2>1
  <2>3. session \in [Sessions -> Session]
        BY <2>2, RowTypes DEF SessionsInit
  <2>4. challenge \in [Challenges -> Challenge]
        BY RowTypes DEF SessionsInit
  <2>5. other \in [Users -> SUBSET Sides]
        BY DEF SessionsInit, Sides
  <2> QED BY <1>2, <2>1, <2>3, <2>4, <2>5, JoinedInv DEF SessionsInit
<1>5. VersionsInit => IInv
  <2> SUFFICES ASSUME VersionsInit PROVE IInv
      OBVIOUS
  <2>1. Joined("admin")
        BY DEF VersionsInit
  <2>2. SignedIn(u1) \in Session
        BY <1>1, <1>2, <2>1
  <2>3. session \in [Sessions -> Session]
        BY <2>2, RowTypes DEF VersionsInit
  <2>4. [NoChallenge EXCEPT !.state = "gone"] \in Challenge
        BY RowTypes DEF Challenge
  <2>5. challenge \in [Challenges -> Challenge]
        BY <2>4 DEF VersionsInit
  <2>6. other \in [Users -> SUBSET Sides]
        BY DEF VersionsInit, Sides
  <2> QED BY <2>1, <2>3, <2>5, <2>6, JoinedInv DEF VersionsInit
<1> QED BY <1>3, <1>4, <1>5, InitIInv DEF MCInit, AccessUnused

(* Every part keeps the types of its variables.                             *)
THEOREM PartsTypeCorrect == MCSpec => []PartsTypeOK
<1>1. MCInit => IInv
      BY StartInv
<1>2. IInv /\ [MCNext]_all => IInv'
  <2> SUFFICES ASSUME IInv, [MCNext]_all PROVE IInv'
      OBVIOUS
  <2>1. [Next]_vars
        BY DEF MCNext, all
  <2> QED BY <2>1, NextIInv
<1>3. IInv /\ AdmissionInv /\ CredentialsInv => PartsTypeOK
      BY DEF IInv, AdmissionInv, CredentialsInv, PartsTypeOK, Admission!IInv, Credentials!IInv
<1> QED BY <1>1, <1>2, <1>3, AdmissionRuns, CredentialsRun, PTL DEF MCSpec

-----------------------------------------------------------------------------
(* A session signed in to is live, replaced nothing, came from no           *)
(* challenge, and has the rank of its owner's role.                         *)
LEMMA SignedInFields ==
    ASSUME NEW u
    PROVE  /\ SignedIn(u).state = "live" /\ SignedIn(u).user = u
           /\ SignedIn(u).rank = Rank[member[u].role]
           /\ SignedIn(u).from = None /\ SignedIn(u).by = None /\ ~SignedIn(u).ended
BY DEF SignedIn, Unborn

(* Nothing under way, and every session one that was signed in to or none:  *)
(* the invariant of sessions holds.                                         *)
LEMMA SignedInInv ==
    ASSUME AccessInit, IInv,
           \A s \in Sessions : session[s] = Unborn \/ \E u \in Users : session[s] = SignedIn(u),
           \A k \in Challenges : challenge[k].bound = None
    PROVE  SInv
<1>1. RequestsFormed
      BY IdleFormed DEF RequestsFormed, AccessInit
<1>2. ASSUME NEW s \in Sessions
      PROVE  /\ session[s].from = None /\ session[s].by = None
             /\ session[s].state = "unborn" => session[s] = Unborn
             /\ session[s].state = "live" => session[s].user \in Users /\ ~session[s].ended
             /\ ~Outranked(s)
  <2>1. CASE session[s] = Unborn
        BY <2>1 DEF Unborn, Outranked, Live
  <2>2. ASSUME NEW u \in Users, session[s] = SignedIn(u)
        PROVE  /\ session[s].from = None /\ session[s].by = None
               /\ session[s].state = "unborn" => session[s] = Unborn
               /\ session[s].state = "live" => session[s].user \in Users /\ ~session[s].ended
               /\ ~Outranked(s)
    <3>1. member[u].role \in AnyRole
          BY DEF IInv, TypeOK, Member, AnyRole
    <3>2. Rank[member[u].role] \in 0..4
          BY <3>1, RankType
    <3> QED BY <2>2, <3>2, SignedInFields DEF Outranked
  <2> QED BY <2>1, <2>2
<1>3. SessionRows
      BY <1>2 DEF SessionRows, SessionRow
<1>4. ChallengesSpent
      BY <1>2, IdleFormed DEF ChallengesSpent, ChallengeOnce, AccessInit
<1>5. SessionsClaimed
      BY IdleFormed DEF SessionsClaimed, AccessInit
<1>6. HomeElevationEndsSessions
      BY <1>2 DEF HomeElevationEndsSessions
<1> QED BY <1>1, <1>3, <1>4, <1>5, <1>6 DEF SInv

(* Every run of the control plane starts with sessions in a good state.     *)
LEMMA StartSessions == MCInit => SInv
<1>1. u1 \in Users /\ u2 \in Users
      BY MCAssumption
<1>2. ASSUME MCInit, MembersInit PROVE SInv
  <2>1. \A s \in Sessions : session[s] = Unborn \/ \E u \in Users : session[s] = SignedIn(u)
        BY <1>1, <1>2 DEF MembersInit
  <2>2. \A k \in Challenges : challenge[k].bound = None
        BY <1>2 DEF MembersInit, NoChallenge
  <2> QED BY <1>2, <2>1, <2>2, StartInv, SignedInInv DEF MembersInit
<1>3. ASSUME MCInit, SessionsInit PROVE SInv
  <2>1. \A s \in Sessions : session[s] = Unborn \/ \E u \in Users : session[s] = SignedIn(u)
        BY <1>1, <1>3 DEF SessionsInit
  <2>2. \A k \in Challenges : challenge[k].bound = None
        BY <1>3 DEF SessionsInit, NoChallenge
  <2> QED BY <1>3, <2>1, <2>2, StartInv, SignedInInv DEF SessionsInit
<1>4. ASSUME MCInit, VersionsInit PROVE SInv
  <2>1. \A s \in Sessions : session[s] = Unborn \/ \E u \in Users : session[s] = SignedIn(u)
        BY <1>1, <1>4 DEF VersionsInit
  <2>2. \A k \in Challenges : challenge[k].bound = None
        BY <1>4 DEF VersionsInit, NoChallenge
  <2> QED BY <1>4, <2>1, <2>2, StartInv, SignedInInv DEF VersionsInit
<1> QED BY <1>2, <1>3, <1>4, InitSInv DEF MCInit, AccessUnused

(* Also in a workspace that people share already: somebody owns it, no      *)
(* ended session comes back, a challenge makes one session, and a rise of   *)
(* the role leaves none from before it that was made under the lock of this *)
(* workspace (ChangeMember, Transfer, the sign-in callback, RotateRecent,   *)
(* invalidateElevation).                                                    *)
THEOREM SharedWorkspacesAreSafe ==
    MCSpec => [](/\ AlwaysAnOwner /\ EndedStaysEnded /\ ChallengeOnce
                 /\ HomeElevationEndsSessions)
<1>1. MCInit => IInv /\ SInv
      BY StartInv, StartSessions
<1>2. IInv /\ SInv /\ [MCNext]_all => IInv' /\ SInv'
  <2> SUFFICES ASSUME IInv, SInv, [MCNext]_all PROVE IInv' /\ SInv'
      OBVIOUS
  <2>1. [Next]_vars
        BY DEF MCNext, all
  <2> QED BY <2>1, NextIInv, NextSInv
<1>3. IInv /\ SInv => /\ AlwaysAnOwner /\ EndedStaysEnded /\ ChallengeOnce
                      /\ HomeElevationEndsSessions
      BY DEF IInv, SInv, SessionRows, SessionRow, ChallengesSpent, EndedStaysEnded
<1> QED BY <1>1, <1>2, <1>3, PTL DEF MCSpec
=============================================================================
