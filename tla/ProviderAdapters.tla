-------------------------- MODULE ProviderAdapters --------------------------
(***************************************************************************)
(* The mutation ports of the provider adapters                             *)
(* (backend/internal/provider/{hetzner,digitalocean,vultr,contabo}): one   *)
(* reviewed power or snapshot action, from its review through Submit to    *)
(* repeated Observe, against a provider that is slow, overloaded, or heard *)
(* only in part, and whose resources other people change meanwhile.        *)
(*                                                                         *)
(* One action is one HTTP request or answer, or a step of the provider.    *)
(* Of a server its power state and lock are kept, of a snapshot its        *)
(* status, of a response whether it is definite, well formed and about the *)
(* request.                                                                *)
(***************************************************************************)
EXTENDS Integers, ProviderContract

CONSTANTS
    Families,       \* provider brands with a mutation port
    MaxChanges      \* bound: changes other people make to the resources

VARIABLES
    port,       \* the adapter and action of the operation
    world,      \* the server and the snapshot at the provider
    review,     \* the facts hashed into the reviewed fingerprint
    pc,         \* where the caller of the adapter is
    request,    \* where the mutating request is
    native,     \* the provider's record of the request
    receipt,    \* what Submit returned
    seen,       \* what the last Observe returned
    changes     \* changes made by others so far

vars == <<port, world, review, pc, request, native, receipt, seen, changes>>

PowerActions == {"power_on", "shutdown", "reboot", "power_off"}
Port == {p \in [family: Families, action: PowerActions \cup {"create", "delete"}] :
             p # [family |-> "vultr", action |-> "shutdown"]}

(* The brands whose mutation ports are modelled here.                       *)
ConstantsOK == Families \subseteq {"hetzner", "digitalocean", "vultr", "contabo"}

-----------------------------------------------------------------------------
(* Native server states and what each adapter calls them.  A table lists    *)
(* what the adapter knows; everything else is unknown.  Vultr's state is a  *)
(* triple that must agree before its power field counts.                    *)

NormalizeStatus(n, known) == IF n \in DOMAIN known THEN known[n] ELSE "unknown"

HetznerStatuses == [running |-> "running", off |-> "stopped", starting |-> "pending"]
DigitalOceanStatuses == [active |-> "running", off |-> "stopped", new |-> "pending"]
VultrStatuses == [running |-> "running", stopped |-> "stopped"]
ContaboStatuses == [running |-> "running", stopped |-> "stopped",
                    installing |-> "pending", error |-> "failed"]

HetznerStatus(w) == NormalizeStatus(w.server, HetznerStatuses)
DigitalOceanStatus(w) == NormalizeStatus(w.server, DigitalOceanStatuses)
VultrStatus(w) == NormalizeStatus(w.server, VultrStatuses)
ContaboStatus(w) == NormalizeStatus(w.server, ContaboStatuses)

KnownStates == [hetzner |-> HetznerStatuses, digitalocean |-> DigitalOceanStatuses,
                vultr |-> VultrStatuses, contabo |-> ContaboStatuses]

NativeStates(f) == DOMAIN KnownStates[f] \cup {"novel"}
NativeState(f, status) == CHOOSE n \in NativeStates(f) : NormalizeStatus(n, KnownStates[f]) = status

(* `locked' is the lock of a server or the protection of a snapshot, where  *)
(* the provider has one.                                                    *)
HasLocks(f) == f \in {"hetzner", "digitalocean"}
World(f) == {w \in [server: NativeStates(f), locked: BOOLEAN,
                    image: {"absent", "pending", "available", "deleted"}] :
                 ~HasLocks(f) => ~w.locked}

SnapshotBefore(a) == IF a = "delete" THEN {"pending", "available"} ELSE {"absent"}

Init ==
    /\ port \in Port
    /\ world \in {w \in World(port.family) : w.image \in SnapshotBefore(port.action)}
    /\ review = <<>>
    /\ pc = "review"
    /\ request = "unsent"
    /\ native = "none"
    /\ receipt = "none"
    /\ seen = "none"
    /\ changes = 0

-----------------------------------------------------------------------------
(* Inspect: the facts a review stands for, and whether they permit the      *)
(* action.  The power fingerprint leaves the lock out, so that only         *)
(* `allowed' tells a locked server; snapshot reviews hash it.               *)

Preconditions(facts, allowed) == [facts |-> facts, allowed |-> allowed]

PowerPreconditions(w, status) ==
    Preconditions(<<w.server, status>>,
                  status = IF port.action = "power_on" THEN "stopped" ELSE "running")

HetznerInspectPower(w) ==
    LET pre == PowerPreconditions(w, HetznerStatus(w))
    IN  [pre EXCEPT !.allowed = @ /\ ~w.locked]

DigitalOceanInspectPower(w) ==
    LET pre == PowerPreconditions(w, DigitalOceanStatus(w))
    IN  [pre EXCEPT !.allowed = @ /\ ~w.locked]

VultrInspectPower(w) == PowerPreconditions(w, VultrStatus(w))
ContaboInspectPower(w) == PowerPreconditions(w, ContaboStatus(w))

SnapshotServerReview(w, status, locked) ==
    Preconditions(<<w.server, status, locked>>, ~locked /\ status \in {"running", "stopped"})

(* Hetzner's own review hashes the native server as it is.                  *)
HetznerInspectCreate(w) ==
    Preconditions(<<w.server, w.locked>>, ~w.locked /\ w.server \in {"running", "off"})

DigitalOceanInspectCreate(w) == SnapshotServerReview(w, DigitalOceanStatus(w), w.locked)
VultrInspectCreate(w) == SnapshotServerReview(w, VultrStatus(w), FALSE)
ContaboInspectCreate(w) == SnapshotServerReview(w, ContaboStatus(w), FALSE)

SnapshotImageReview(status) == Preconditions(<<status>>, status \in {"available", "not_reported"})

HetznerInspectDelete(w) ==
    Preconditions(<<w.image, w.locked>>, w.image = "available" /\ ~w.locked)

DigitalOceanInspectDelete(w) == SnapshotImageReview("not_reported")
VultrInspectDelete(w) == SnapshotImageReview(w.image)
ContaboInspectDelete(w) == SnapshotImageReview("not_reported")

(* The mutation port that serves an action.                                 *)
By(power, create, delete) ==
    CASE port.action = "create" -> create
      [] port.action = "delete" -> delete
      [] OTHER -> power

Inspect(w) ==
    CASE port.family = "hetzner" ->
           By(HetznerInspectPower(w), HetznerInspectCreate(w), HetznerInspectDelete(w))
      [] port.family = "digitalocean" ->
           By(DigitalOceanInspectPower(w), DigitalOceanInspectCreate(w), DigitalOceanInspectDelete(w))
      [] port.family = "vultr" ->
           By(VultrInspectPower(w), VultrInspectCreate(w), VultrInspectDelete(w))
      [] port.family = "contabo" ->
           By(ContaboInspectPower(w), ContaboInspectCreate(w), ContaboInspectDelete(w))

(* A snapshot that is gone cannot be inspected.                             *)
Inspectable == port.action = "delete" => world.image # "absent"

(* The review shown to the user; only permitted ones can be confirmed.      *)
Review ==
    /\ pc = "review"
    /\ Inspectable /\ Inspect(world).allowed
    /\ review' = Inspect(world).facts
    /\ pc' = "submit"
    /\ UNCHANGED <<port, world, request, native, receipt, seen, changes>>

-----------------------------------------------------------------------------
(* Submit, by what it meets: its own Inspect fails (unread) or differs from *)
(* the review (stale), and nothing is sent; or the answer to the one POST   *)
(* or DELETE: one of the definite refusals, 429 or 5xx (overload), nothing  *)
(* (silence), a success that is no JSON (garbled) or about something else   *)
(* (odd), or a fine one.                                                    *)

Fails(h, decodes) == h \in {"definite", "overload", "silence"} \/ (h = "garbled" /\ decodes)

PostMutationRejectsOverload(h, decodes) ==
    IF Fails(h, decodes)
      THEN IF h \in {"definite", "overload"} THEN "rejected" ELSE "error"
      ELSE "noref"

PostMutation(h, decodes) ==
    IF Fails(h, decodes) THEN IF h = "definite" THEN "rejected" ELSE "error" ELSE "noref"

DeleteSnapshotRequest(h) ==
    IF Fails(h, FALSE) THEN IF h = "definite" THEN "rejected" ELSE "error"
    ELSE IF h = "odd" THEN "error" ELSE "accepted"

Guarded(h, sent) == CASE h = "unread" -> "error"
                      [] h = "stale" -> "rejected"
                      [] OTHER -> sent

(* A success whose content must be about this request and names a native    *)
(* action or snapshot to observe.                                           *)
Referring(h) ==
    LET r == PostMutation(h, TRUE)
    IN  IF r # "noref" THEN r ELSE IF h = "odd" THEN "error" ELSE "accepted"

HetznerSubmitPower(h) == Guarded(h, Referring(h))
DigitalOceanSubmitPower(h) == Guarded(h, Referring(h))
VultrSubmitPower(h) == Guarded(h, PostMutation(h, FALSE))
ContaboSubmitPower(h) == Guarded(h, IF h = "odd" THEN "error" ELSE PostMutation(h, TRUE))

HetznerSubmitCreate(h) == Guarded(h, Referring(h))
DigitalOceanSubmitCreate(h) == Guarded(h, Referring(h))
VultrSubmitCreate(h) == Guarded(h, Referring(h))
ContaboSubmitCreate(h) == Guarded(h, Referring(h))

(* Hetzner's deletion spells out what DeleteSnapshotRequest does.           *)
HetznerSubmitDelete(h) ==
    Guarded(h, CASE h = "definite" -> "rejected"
                 [] h \in {"overload", "silence", "odd"} -> "error"
                 [] OTHER -> "accepted")

DigitalOceanSubmitDelete(h) == Guarded(h, DeleteSnapshotRequest(h))
VultrSubmitDelete(h) == Guarded(h, DeleteSnapshotRequest(h))
ContaboSubmitDelete(h) == Guarded(h, DeleteSnapshotRequest(h))

Submit(h) ==
    CASE port.family = "hetzner" ->
           By(HetznerSubmitPower(h), HetznerSubmitCreate(h), HetznerSubmitDelete(h))
      [] port.family = "digitalocean" ->
           By(DigitalOceanSubmitPower(h), DigitalOceanSubmitCreate(h), DigitalOceanSubmitDelete(h))
      [] port.family = "vultr" ->
           By(VultrSubmitPower(h), VultrSubmitCreate(h), VultrSubmitDelete(h))
      [] port.family = "contabo" ->
           By(ContaboSubmitPower(h), ContaboSubmitCreate(h), ContaboSubmitDelete(h))

Returned(h) ==
    /\ receipt' = Submit(h)
    /\ pc' = "observe"

StillReviewed == Inspect(world).allowed /\ Inspect(world).facts = review

(* Inspect may fail in any state.                                           *)
SubmitStops ==
    /\ pc = "submit"
    /\ \/ Returned("unread")
       \/ Inspectable /\ ~StillReviewed /\ Returned("stale")
    /\ UNCHANGED <<port, world, review, request, native, seen, changes>>

SubmitSends ==
    /\ pc = "submit"
    /\ Inspectable /\ StillReviewed
    /\ request' = "travelling"
    /\ pc' = "answer"
    /\ UNCHANGED <<port, world, review, native, receipt, seen, changes>>

(* What the caller can hear of a request.  An answer may be lost or cut     *)
(* short whatever the provider did.                                         *)
Heard ==
    CASE request = "refused" -> {"definite", "silence"}
      [] request = "taken" -> {"fine", "odd", "garbled", "overload", "silence"}
      [] request = "dropped" -> {"overload", "silence"}
      [] OTHER -> {"silence"}

Answer ==
    /\ pc = "answer"
    /\ \E h \in Heard : Returned(h)
    /\ UNCHANGED <<port, world, review, request, native, seen, changes>>

-----------------------------------------------------------------------------
(* External: the provider takes the request on, refuses it with one of the  *)
(* definite codes, or loses it (429, 5xx, a broken connection), also after  *)
(* the caller has given up waiting.  It does not acknowledge the deletion   *)
(* of a snapshot that is gone, and does not fail one it acknowledged.       *)
Take ==
    /\ request = "travelling"
    /\ port.action = "delete" => world.image \in {"pending", "available"}
    /\ request' = "taken"
    /\ native' = "pending"
    /\ world' = IF port.action = "create" THEN [world EXCEPT !.image = "pending"] ELSE world
    /\ UNCHANGED <<port, review, pc, receipt, seen, changes>>

Decline ==
    /\ request = "travelling"
    /\ request' \in {"refused", "dropped"}
    /\ UNCHANGED <<port, world, review, pc, native, receipt, seen, changes>>

Wanted == IF port.action \in {"shutdown", "power_off"} THEN "stopped" ELSE "running"

Finish ==
    /\ native = "pending"
    /\ native' = "done"
    /\ world' = By([world EXCEPT !.server = NativeState(port.family, Wanted)],
                   [world EXCEPT !.image = "available"],
                   [world EXCEPT !.image = IF port.family = "vultr" THEN "deleted" ELSE "absent"])
    /\ UNCHANGED <<port, review, pc, request, receipt, seen, changes>>

Break ==
    /\ native = "pending"
    /\ port.action # "delete"
    /\ native' = "failed"
    /\ world' = IF port.action = "create" THEN [world EXCEPT !.image = "absent"] ELSE world
    /\ UNCHANGED <<port, review, pc, request, receipt, seen, changes>>

(* Other people use the account too.  A snapshot they delete is gone for a  *)
(* deletion that was taken on as well.                                      *)
Meddle ==
    /\ changes < MaxChanges
    /\ changes' = changes + 1
    /\ \/ /\ \E w \in World(port.family) : world' = [w EXCEPT !.image = world.image]
          /\ UNCHANGED native
       \/ /\ world.image = "available" \/ (world.image = "pending" /\ port.action = "delete")
          /\ world' = [world EXCEPT !.image = "absent"]
          /\ native' = IF native = "pending" THEN "done" ELSE native
    /\ UNCHANGED <<port, review, pc, request, receipt, seen>>

-----------------------------------------------------------------------------
(* Observe, with the reference that an accepted receipt left behind.  Every *)
(* operator gives the outcomes besides a failed read.                       *)

HasRef == receipt = "accepted"

(* By the native action: its status, also one the adapter does not know     *)
(* or that lacks its completion time; once it is done, what `done' says.    *)
ByAction(done) ==
    {"unknown"} \cup (CASE native = "pending" -> {"pending"}
                        [] native = "failed" -> {"failed"}
                        [] native = "done" -> done
                        [] OTHER -> {})

ByStatus(status) == IF status = Wanted THEN {"succeeded"} ELSE {"pending"}

HetznerObservePowerByState ==
    IF HasRef THEN ByStatus(HetznerStatus(world)) ELSE {"unknown"}

HetznerObservePower ==
    IF HasRef THEN ByAction(ByStatus(HetznerStatus(world))) ELSE {"unknown"}

DigitalOceanObservePower ==
    IF HasRef THEN ByAction(ByStatus(DigitalOceanStatus(world))) ELSE {"unknown"}

(* A reboot leaves no trace in the state, and there is no native action; a  *)
(* reference is an error.                                                   *)
VultrObservePower ==
    IF HasRef THEN {} ELSE IF port.action = "reboot" THEN {"unknown"} ELSE ByStatus(VultrStatus(world))

ContaboObservePower ==
    IF HasRef THEN {} ELSE IF port.action = "reboot" THEN {"unknown"} ELSE ByStatus(ContaboStatus(world))

(* Hetzner wants the image available too; reading one that is gone fails.   *)
HetznerObserveCreate ==
    IF HasRef
      THEN ByAction(CASE world.image = "available" -> {"succeeded"}
                      [] world.image = "absent" -> {}
                      [] OTHER -> {"pending"})
      ELSE {"unknown"}

DigitalOceanObserveCreate == IF HasRef THEN ByAction({"succeeded"}) ELSE {"unknown"}

VultrObserveCreate ==
    IF ~HasRef THEN {"unknown"}
    ELSE CASE world.image = "available" -> {"succeeded"}
           [] world.image = "pending" -> {"pending"}
           [] world.image = "absent" -> {}
           [] OTHER -> {"unknown"}

(* Contabo's schema has no status to tell readiness from.                   *)
ContaboObserveCreate == IF HasRef /\ world.image = "absent" THEN {} ELSE {"unknown"}

(* Absence proves success only of a deletion that was acknowledged.         *)
HetznerObserveDelete ==
    IF ~HasRef THEN {"unknown"} ELSE IF world.image = "absent" THEN {"succeeded"} ELSE {"pending"}

DigitalOceanObserveDeleteByAbsence == IF world.image = "absent" THEN {"succeeded"} ELSE {"pending"}

DigitalOceanObserveDelete ==
    IF ~HasRef THEN {"unknown"} ELSE IF world.image = "absent" THEN {"succeeded"} ELSE {"pending"}

VultrObserveDelete ==
    IF ~HasRef THEN {"unknown"}
    ELSE IF world.image \in {"absent", "deleted"} THEN {"succeeded"} ELSE {"pending"}

ContaboObserveDelete ==
    IF ~HasRef THEN {"unknown"} ELSE IF world.image = "absent" THEN {"succeeded"} ELSE {"pending"}

Outcomes ==
    CASE port.family = "hetzner" ->
           By(HetznerObservePower, HetznerObserveCreate, HetznerObserveDelete)
      [] port.family = "digitalocean" ->
           By(DigitalOceanObservePower, DigitalOceanObserveCreate, DigitalOceanObserveDelete)
      [] port.family = "vultr" ->
           By(VultrObservePower, VultrObserveCreate, VultrObserveDelete)
      [] port.family = "contabo" ->
           By(ContaboObservePower, ContaboObserveCreate, ContaboObserveDelete)

Observe ==
    /\ pc = "observe"
    /\ receipt # "rejected"
    /\ seen' \in {"error"} \cup Outcomes
    /\ UNCHANGED <<port, world, review, pc, request, native, receipt, changes>>

Next ==
    \/ Review \/ SubmitStops \/ SubmitSends \/ Answer \/ Observe
    \/ Take \/ Decline \/ Finish \/ Break \/ Meddle

-----------------------------------------------------------------------------
(* Properties *)

(* What Submit returns is one of the answers OperationDispatch relies on,   *)
(* and stays true: nothing that was called rejected is taken on later, also *)
(* when the request was delayed or its answer lost (PostMutation and the    *)
(* adapters' Submit).                                                       *)
ReceiptIsTruthful ==
    receipt # "none" =>
        [left |-> request # "unsent",
         effect |-> IF request \in {"travelling", "taken"} THEN "pending" ELSE "none",
         receipt |-> receipt] \in SubmitAnswers

(* What Observe returns is one of the answers OperationDispatch relies on:  *)
(* with a reference a verdict is about this very request, whatever others   *)
(* do to the resource; without one failure is never claimed (the adapters'  *)
(* Observe).                                                                *)
ObservationIsTruthful ==
    seen # "none" => seen \in AnswersAbout(native, HasRef)

(* Where the provider has native actions or acknowledges deletions, nothing *)
(* is called a success that the provider did not do for this request, with  *)
(* or without a reference; only Vultr's and Contabo's power actions may     *)
(* take somebody else's change for their own.                               *)
SuccessIsOwn ==
    seen = "succeeded" =>
        \/ native = "done"
        \/ port.family \in {"vultr", "contabo"} /\ port.action \in PowerActions \ {"reboot"}
=============================================================================
