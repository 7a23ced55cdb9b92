--------------------------- MODULE MCControlPlane ---------------------------
(***************************************************************************)
(* What a workspace lets people do, for one run: memberships, invitations  *)
(* and sessions (Access), reviews and confirmations (Admission), and       *)
(* credentials with their master keys (Credentials).  Admission repeats of *)
(* the other two only that roles and credentials change, so a behaviour    *)
(* runs the part that `part' names and leaves the others as they were.     *)
(* Access runs three times: "members" changes, transfers and invites,      *)
(* "versions" has requests about one member overtake each other, and       *)
(* "sessions" signs in while a role is raised.                             *)
(***************************************************************************)
EXTENDS Access, TLC

CONSTANTS u1, u2, u3, r1, r2, p1
CONSTANTS Targets, ActionOf, Facts, AllowedFacts, HighFacts, Reviews, Operations, Keys,
          QueueLimit, ReviewLimit, MaxRevision, MaxVersion
CONSTANTS t1, k1, k2, Servers, OldKey, NewKey, Batch

VARIABLES
    part,
    role, grants, revision, connection, listed, facts, recent, review, operation, call,
    active, envelope, mounted, loaded, rotation, rewrap, orderly

admission == <<role, grants, revision, connection, listed, facts, recent, review, operation, call>>
credentials == <<active, envelope, mounted, loaded, rotation, rewrap, orderly>>
all == <<part, vars, admission, credentials>>

(* The two other parts, with the theorems about them.                       *)
Admission == INSTANCE AdmissionProofs WITH policy <- revision, Users <- {u1, u2}, MaxPolicy <- MaxRevision
Credentials == INSTANCE CredentialsProofs

ASSUME MCAssumption ==
    /\ Users = {u1, u2, u3} /\ u1 # u2
    /\ Admission!ConstantsOK
    /\ Credentials!ConstantsOK

MCActionOf == t1 :> "power"

-----------------------------------------------------------------------------
(* States to start from.                                                    *)

Unused(x) == x = "unused"

AccessUnused == Init /\ other = [u \in Users |-> {}]

AdmissionUnused ==
    /\ Unused(role) /\ Unused(grants) /\ Unused(revision) /\ Unused(connection) /\ Unused(listed)
    /\ Unused(facts) /\ Unused(recent) /\ Unused(review) /\ Unused(operation) /\ Unused(call)

CredentialsUnused ==
    /\ Unused(active) /\ Unused(envelope) /\ Unused(mounted) /\ Unused(loaded)
    /\ Unused(rotation) /\ Unused(rewrap) /\ Unused(orderly)

Joined(second) ==
    member = [u \in Users |-> CASE u = u1 -> [role |-> "owner", version |-> 1]
                                [] u = u2 /\ second # "none" -> [role |-> second, version |-> 2]
                                [] OTHER -> Absent]

SignedIn(u) == [Unborn EXCEPT !.state = "live", !.user = u, !.rank = Rank[member[u].role], !.home = TRUE]

AccessInit ==
    /\ policy = 2
    /\ invitation = [p \in Proofs |-> Unissued]
    /\ request = [r \in Requests |-> Idle]

(* Two people share the authority, signed in; a third may come.             *)
MembersInit ==
    /\ other = [u \in Users |-> IF u = u3 THEN {"later"} ELSE {}]
    /\ \E second \in {"admin", "owner"} : Joined(second)
    /\ session = [s \in Sessions |-> CASE s = 1 -> SignedIn(u1) [] s = 2 -> SignedIn(u2)
                                       [] OTHER -> Unborn]
    /\ challenge = [k \in Challenges |-> IF k = 1 THEN NoChallenge ELSE [NoChallenge EXCEPT !.state = "gone"]]
    /\ AccessInit

(* An owner and an admin, who was a member of another workspace before.     *)
VersionsInit ==
    /\ other = [u \in Users |-> IF u = u2 THEN {"later"} ELSE {}]
    /\ Joined("admin")
    /\ session = [s \in Sessions |-> IF s = 1 THEN SignedIn(u1) ELSE Unborn]
    /\ challenge = [k \in Challenges |-> [NoChallenge EXCEPT !.state = "gone"]]
    /\ AccessInit

(* An owner is signed in; an operator, or somebody to be added, will be.    *)
SessionsInit ==
    /\ \E sides \in {{}, {"earlier"}, {"later"}} : other = [u \in Users |-> IF u = u2 THEN sides ELSE {}]
    /\ \E second \in {"operator", "none"} : Joined(second)
    /\ session = [s \in Sessions |-> IF s = 1 THEN SignedIn(u1) ELSE Unborn]
    /\ challenge = [k \in Challenges |-> NoChallenge]
    /\ AccessInit

AllGrants == {"read", "operate", "high_impact"}

AdmissionInit ==
    /\ Admission!Init
    /\ role = u1 :> "owner" @@ u2 :> "operator"
    /\ grants = u1 :> {"read"} @@ u2 :> AllGrants
    /\ facts[t1] = 1

MCInit ==
    \/ part = "members" /\ MembersInit /\ AdmissionUnused /\ CredentialsUnused
    \/ part = "versions" /\ VersionsInit /\ AdmissionUnused /\ CredentialsUnused
    \/ part = "sessions" /\ SessionsInit /\ AdmissionUnused /\ CredentialsUnused
    \/ part = "admission" /\ AccessUnused /\ AdmissionInit /\ CredentialsUnused
    \/ part = "credentials" /\ AccessUnused /\ AdmissionUnused /\ Credentials!Init

MCNext ==
    \/ part \in {"members", "versions", "sessions"} /\ Next /\ UNCHANGED <<part, admission, credentials>>
    \/ part = "admission" /\ Admission!Next /\ UNCHANGED <<part, vars, credentials>>
    \/ part = "credentials" /\ Credentials!Next /\ UNCHANGED <<part, vars, admission>>

MCSpec == MCInit /\ [][MCNext]_all

-----------------------------------------------------------------------------
(* Bounds *)

(* Requests that could be refused on arrival change nothing and are left    *)
(* out; a request that is permitted when it is sent may still be refused.   *)
CouldPass(q) ==
    CASE q.kind = "change" -> MayChange(q) /\ Admitted(q)
      [] q.kind = "transfer" -> MayTransfer(q)
      [] q.kind = "issue" -> MayIssue(q) /\ q.target = u3 /\ q.role = "admin"
                             /\ \E p \in Proofs : invitation[p].state = "unissued"
      [] OTHER -> TRUE

MembersBound(q) ==
    /\ q.role \in {"none", "admin", "owner"}
    /\ q.kind = "login" => q.proof # None /\ q.target = invitation[q.proof].subject

VersionsBound(q) == q.kind = "change" /\ q.target = u2 /\ q.role \in {"none", "admin", "owner"}

SessionsBound(q) ==
    /\ q.target = u2
    /\ q.kind \in {"change", "login"}
    /\ q.kind = "change" => q.actor = u1 /\ q.role \in {"none", "viewer", "admin"}

Sent(r) == request[r].pc = "idle" /\ request'[r].pc = "sent"

Latest == CASE part = "members" -> 4 [] part = "versions" -> 5 [] OTHER -> 3

AccessBound ==
    /\ \A r \in Requests : request'[r].lock = "update" => policy' < Latest
    /\ \A r \in Requests : Sent(r) =>
         /\ CouldPass(request'[r])
         /\ part = "members" => MembersBound(request'[r])
         /\ part = "versions" => VersionsBound(request'[r])
         /\ part = "sessions" => SessionsBound(request'[r])
    /\ part = "members" =>
         /\ \A k \in Challenges : challenge'[k].state = "open" => challenge'[k].proof # None
         /\ session' # session => member' # member
         /\ other' = other
    /\ part = "versions" =>
         /\ session' # session => member' # member
         /\ other' = other
    /\ part = "sessions" =>
         /\ \A u \in Users : other'[u] # other[u] =>
              u = u2 /\ {other[u], other'[u]} = {{}, {"later"}}

(* One person acts and has the authority taken and given back as a whole;   *)
(* of the connection's status, its credential, the inventory, and the       *)
(* target with the age of the sign-in, one changes at a time.               *)
AdmissionBound ==
    /\ role'[u1] = "owner" /\ role'[u2] \in {"operator", "none"}
    /\ grants'[u1] = grants[u1] /\ grants'[u2] \in {AllGrants, {"read"}, {}}
    /\ grants'[u2] = {} <=> role'[u2] = "none"
    /\ connection'.version <= 2
    /\ recent' \in {{u1, u2}, {u1}}
    /\ Cardinality({i \in 1..4 : << connection'.status # "active", connection'.version # 1,
                                    listed' # Targets, facts'[t1] # 1 \/ recent' # {u1, u2} >>[i]}) <= 1

Bound ==
    /\ part \in {"members", "versions", "sessions"} => AccessBound
    /\ part = "admission" => AdmissionBound

Symmetry == Permutations(Requests) \cup Permutations(Keys)

-----------------------------------------------------------------------------
(* The properties of Access are checked as they are, those of the others in *)
(* the behaviours that run them.                                            *)

(* Every part keeps the types of its variables.                             *)
PartsTypeOK ==
    /\ TypeOK
    /\ part = "admission" => Admission!TypeOK
    /\ part = "credentials" => Credentials!TypeOK

(* A review becomes one operation (Admission).                              *)
AcceptedOnce == part = "admission" => Admission!AcceptedOnce

(* What is accepted is what was reviewed (Admission).                       *)
AcceptedAsReviewed == [][part = "admission" => Admission!UntouchedWhenAccepted]_all

(* Every stored credential version can be opened (Credentials).             *)
CredentialsOpen == part = "credentials" => Credentials!CredentialsOpen
=============================================================================
