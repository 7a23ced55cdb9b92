---------------------------- MODULE Credentials ----------------------------
(***************************************************************************)
(* The credential versions of a connection and the master keys that wrap   *)
(* them: rotation of the credential (backend/internal/connection           *)
(* rotate.go), rotation of the master key (rewrap.go,                      *)
(* cmd/sama-keys-rewrap, platform/credentials).  A server keeps the        *)
(* keyring it loaded at its start; the operator mounts a new one, restarts *)
(* the servers, rewraps, and retires the old key when nothing refers to    *)
(* it.                                                                     *)
(***************************************************************************)
EXTENDS Integers, FiniteSets

CONSTANTS
    Servers,        \* processes that serve requests, one rotation at a time each
    OldKey, NewKey, \* master key ids
    None,
    Batch,          \* the rewrap command's batch size
    MaxVersion      \* the largest credential version, math.MaxInt64 in the code

(* What the constants are.                                                  *)
ConstantsOK ==
    /\ OldKey # NewKey
    /\ None \notin {OldKey, NewKey}
    /\ Batch \in Nat \ {0}
    /\ MaxVersion \in Nat \ {0}
    /\ None \notin [version: 1..MaxVersion, key: {OldKey, NewKey}]

Versions == 1..MaxVersion
KeyIDs == {OldKey, NewKey}

VARIABLES
    active,         \* connections.active_credential_version
    envelope,       \* credential_versions: what each version is bound to and wrapped with
    mounted,        \* the keyring file
    loaded,         \* the keyring of each server
    rotation,       \* the rotation each server is serving
    rewrap,         \* the state of the rewrap command
    orderly         \* history: whether every server had both keys when it began

vars == <<active, envelope, mounted, loaded, rotation, rewrap, orderly>>

(* `version' is authenticated with the payload and with the data key.       *)
Envelope == [version: Versions, key: KeyIDs]
Keyring == [active: KeyIDs, keys: SUBSET KeyIDs]
Rotation == [old: 0..MaxVersion, envelope: Envelope \cup {None}]
NoRotation == [old |-> 0, envelope |-> None]
Rings == [old |-> [active |-> OldKey, keys |-> {OldKey}],
          both |-> [active |-> NewKey, keys |-> KeyIDs],
          new |-> [active |-> NewKey, keys |-> {NewKey}]]

(* A saved connection.                                                      *)
Init ==
    /\ active = 1
    /\ envelope = [v \in Versions |-> IF v = 1 THEN [version |-> 1, key |-> OldKey] ELSE None]
    /\ mounted = Rings.old
    /\ loaded = [s \in Servers |-> mounted]
    /\ rotation = [s \in Servers |-> NoRotation]
    /\ rewrap = "idle"
    /\ orderly = FALSE

-----------------------------------------------------------------------------
(* Rotate reads the active version, validates the credential with the       *)
(* provider, and seals it for the next version.                             *)
IncreasesAlways(v) == TRUE
Increases(v) == v # MaxVersion

StartRotation(s) ==
    /\ rotation[s] = NoRotation
    /\ Increases(active)
    /\ rotation' = [rotation EXCEPT ![s].old = active]
    /\ UNCHANGED <<active, envelope, mounted, loaded, rewrap, orderly>>

Encrypt(s) ==
    /\ rotation[s].old # 0 /\ rotation[s].envelope = None
    /\ rotation' = [rotation EXCEPT ![s].envelope =
                      [version |-> rotation[s].old + 1, key |-> loaded[s].active]]
    /\ UNCHANGED <<active, envelope, mounted, loaded, rewrap, orderly>>

RotatedToLatest(q) == IF active < MaxVersion THEN {active + 1} ELSE {}

(* The version to store, if the active one is still the one read.           *)
RotatedTo(q) == IF active = q.old THEN {q.old + 1} ELSE {}

(* The transaction of Rotate; a version is inserted, never replaced.        *)
Rotate(s) ==
    /\ rotation[s].envelope # None
    /\ \E v \in RotatedTo(rotation[s]) :
         /\ envelope[v] = None
         /\ envelope' = [envelope EXCEPT ![v] = rotation[s].envelope]
         /\ active' = v
    /\ rotation' = [rotation EXCEPT ![s] = NoRotation]
    /\ UNCHANGED <<mounted, loaded, rewrap, orderly>>

RotationFails(s) ==
    /\ rotation[s] # NoRotation
    /\ rotation' = [rotation EXCEPT ![s] = NoRotation]
    /\ UNCHANGED <<active, envelope, mounted, loaded, rewrap, orderly>>

-----------------------------------------------------------------------------
(* The rotation of the master key.                                          *)

Stored == {v \in Versions : envelope[v] # None}
ReferencesActive(k) == {v \in {active} : envelope[v].key = k}
References(k) == {v \in Stored : envelope[v].key = k}

(* One transaction rewraps the first versions that refer to the old key.    *)
RewrapBatch ==
    /\ rewrap = "running"
    /\ KeyIDs \subseteq mounted.keys
    /\ LET first == {v \in References(OldKey) :
                       Cardinality({w \in References(OldKey) : w < v}) < Batch}
       IN  /\ envelope' = [v \in Versions |-> IF v \in first THEN [envelope[v] EXCEPT !.key = NewKey]
                                              ELSE envelope[v]]
           /\ rewrap' = IF first = {} THEN "counting" ELSE "running"
    /\ UNCHANGED <<active, mounted, loaded, rotation, orderly>>

(* The command asks that its own keyring has both keys, and nothing of the  *)
(* servers: some may still write with the old key.                          *)
StartRewrap ==
    /\ rewrap = "idle"
    /\ KeyIDs \subseteq mounted.keys
    /\ rewrap' = "running"
    /\ orderly' = (\A s \in Servers : loaded[s] = Rings.both)
    /\ UNCHANGED <<active, envelope, mounted, loaded, rotation>>

(* Interrupted between batches, it starts again.                            *)
Interrupt ==
    /\ rewrap # "idle"
    /\ rewrap' = "idle"
    /\ UNCHANGED <<active, envelope, mounted, loaded, rotation, orderly>>

(* What it reports at the end.                                              *)
KeyReferences ==
    /\ rewrap = "counting"
    /\ rewrap' = IF References(OldKey) = {} THEN "unreferenced" ELSE "idle"
    /\ UNCHANGED <<active, envelope, mounted, loaded, rotation, orderly>>

(* The operator's part.  A server that restarts drops what it was serving.  *)
Mount ==
    /\ mounted = Rings.old
    /\ mounted' = Rings.both
    /\ UNCHANGED <<active, envelope, loaded, rotation, rewrap, orderly>>

Restart(s) ==
    /\ loaded[s] # mounted
    /\ loaded' = [loaded EXCEPT ![s] = mounted]
    /\ rotation' = [rotation EXCEPT ![s] = NoRotation]
    /\ UNCHANGED <<active, envelope, mounted, rewrap, orderly>>

(* The documented procedure: the report counts if every server had loaded   *)
(* the new key before the command was run.                                  *)
Retire ==
    /\ rewrap = "unreferenced" /\ orderly
    /\ mounted = Rings.both
    /\ mounted' = Rings.new
    /\ UNCHANGED <<active, envelope, loaded, rotation, rewrap, orderly>>

Next ==
    \/ \E s \in Servers : \/ StartRotation(s) \/ Encrypt(s) \/ Rotate(s) \/ RotationFails(s)
                          \/ Restart(s)
    \/ StartRewrap \/ RewrapBatch \/ Interrupt \/ KeyReferences
    \/ Mount \/ Retire

Spec == Init /\ [][Next]_vars

-----------------------------------------------------------------------------
(* Properties *)

TypeOK ==
    /\ active \in Versions
    /\ envelope \in [Versions -> Envelope \cup {None}]
    /\ mounted \in Keyring
    /\ loaded \in [Servers -> Keyring]
    /\ rotation \in [Servers -> Rotation]
    /\ rewrap \in {"idle", "running", "counting", "unreferenced"}
    /\ orderly \in BOOLEAN

(* Every version that was ever stored can be opened, the replaced ones too: *)
(* it is sealed for the version it is stored as, whichever of two rotations *)
(* came first, and the keyring holds the key that wraps it, also when       *)
(* rewraps run too early and when the old key is retired after one that did *)
(* not (Rotate, RewrapBatch, KeyReferences).                                *)
CredentialsOpen ==
    /\ envelope[active] # None
    /\ \A v \in Stored : envelope[v].version = v /\ envelope[v].key \in mounted.keys
=============================================================================
