------------------------- MODULE CredentialsProofs -------------------------
(* Theorems about Credentials, for every number of servers, every batch     *)
(* size and every number of versions.                                       *)
EXTENDS Credentials, TLAPS

(* The keyrings the operator mounts, one after the other.                   *)
RingsOnly ==
    /\ mounted \in {Rings.old, Rings.both, Rings.new}
    /\ \A s \in Servers : loaded[s] \in {Rings.old, Rings.both, Rings.new}

(* A rotation under way is sealed for the version after the one it read,    *)
(* with the key its server writes with.                                     *)
SealedForNext ==
    \A s \in Servers :
      /\ rotation[s].old # MaxVersion
      /\ rotation[s].envelope # None =>
           /\ rotation[s].old # 0
           /\ rotation[s].envelope.version = rotation[s].old + 1
           /\ rotation[s].envelope.key = loaded[s].active

(* Servers know no key before it is mounted, and write with the new key     *)
(* while an orderly rewrap runs or has reported, and ever after the old one *)
(* is retired.                                                              *)
WritersFollow ==
    /\ mounted = Rings.old => \A s \in Servers : loaded[s] = Rings.old
    /\ (rewrap # "idle" /\ orderly) \/ mounted = Rings.new => \A s \in Servers : loaded[s].active = NewKey

(* What KeyReferences reported of an orderly rewrap stays true until the    *)
(* old key is retired, and afterwards.                                      *)
ReportStaysTrue ==
    (rewrap = "unreferenced" /\ orderly) \/ mounted = Rings.new =>
      \A v \in Versions : envelope[v] # None => envelope[v].key = NewKey

(* CredentialsOpen with its sets written out.                               *)
Opens ==
    /\ envelope[active] # None
    /\ \A v \in Versions : envelope[v] # None =>
         envelope[v].version = v /\ envelope[v].key \in mounted.keys

IInv ==
    /\ TypeOK
    /\ RingsOnly
    /\ SealedForNext
    /\ WritersFollow
    /\ ReportStaysTrue
    /\ Opens

-----------------------------------------------------------------------------
(* The three keyrings, with their fields. *)
LEMMA RingFields ==
  ASSUME ConstantsOK
  PROVE  /\ Rings.old = [active |-> OldKey, keys |-> {OldKey}]
         /\ Rings.both = [active |-> NewKey, keys |-> {OldKey, NewKey}]
         /\ Rings.new = [active |-> NewKey, keys |-> {NewKey}]
         /\ Rings.old \in Keyring /\ Rings.both \in Keyring /\ Rings.new \in Keyring
         /\ Rings.old.active = OldKey /\ Rings.old.keys = {OldKey}
         /\ Rings.both.active = NewKey /\ Rings.both.keys = KeyIDs
         /\ Rings.new.active = NewKey /\ Rings.new.keys = {NewKey}
         /\ Rings.old # Rings.both /\ Rings.old # Rings.new /\ Rings.both # Rings.new
  <1>1. /\ Rings.old = [active |-> OldKey, keys |-> {OldKey}]
        /\ Rings.both = [active |-> NewKey, keys |-> {OldKey, NewKey}]
        /\ Rings.new = [active |-> NewKey, keys |-> {NewKey}]
    BY DEF Rings, KeyIDs
  <1>2. OldKey # NewKey
    BY DEF ConstantsOK
  <1>3. {OldKey} # {OldKey, NewKey} /\ {OldKey} # {NewKey} /\ {OldKey, NewKey} # {NewKey}
    BY <1>2
  <1>4. QED
    BY <1>1, <1>2, <1>3 DEF Keyring, KeyIDs

(* Constants, as the provers need them. *)
LEMMA ConstantFacts ==
  ASSUME ConstantsOK
  PROVE  /\ OldKey # NewKey
         /\ MaxVersion \in Nat /\ MaxVersion >= 1
         /\ None \notin Envelope
         /\ 1 \in Versions /\ 0 \in 0..MaxVersion
         /\ \A v \in Versions : v \in Int /\ v \in 0..MaxVersion /\ v # 0
         /\ NoRotation \in Rotation
         /\ NoRotation.old = 0 /\ NoRotation.envelope = None
         /\ 0 # MaxVersion
  BY DEF ConstantsOK, Envelope, Versions, KeyIDs, Rotation, NoRotation

(* A saved connection satisfies the invariant. *)
LEMMA InitIInv ==
  ASSUME ConstantsOK, Init
  PROVE  IInv
  <1> USE DEF Init
  <1> DEFINE first == [version |-> 1, key |-> OldKey]
  <1>1. first \in Envelope /\ first.version = 1 /\ first.key = OldKey /\ first # None
    BY ConstantFacts DEF Envelope, KeyIDs
  <1>2. TypeOK
    BY <1>1, ConstantFacts, RingFields DEF TypeOK
  <1>3. RingsOnly
    BY DEF RingsOnly
  <1>4. SealedForNext
    BY ConstantFacts DEF SealedForNext
  <1>5. WritersFollow
    BY RingFields DEF WritersFollow
  <1>6. ReportStaysTrue
    BY RingFields DEF ReportStaysTrue
  <1>7. Opens
    <2>1. \A v \in Versions : envelope[v] # None => v = 1 /\ envelope[v] = first
      OBVIOUS
    <2>2. envelope[1] = first
      BY ConstantFacts
    <2>3. QED
      BY <1>1, <2>1, <2>2, RingFields DEF Opens
  <1>8. QED
    BY <1>2, <1>3, <1>4, <1>5, <1>6, <1>7 DEF IInv

-----------------------------------------------------------------------------
(* The rotation of a credential *)

(* Reading the active version and sealing for the next one change only what *)
(* one server is serving. *)
LEMMA ServingKeepsIInv ==
  ASSUME ConstantsOK, IInv, NEW s \in Servers, NEW r \in Rotation,
         rotation' = [rotation EXCEPT ![s] = r],
         r.old # MaxVersion,
         r.envelope # None => /\ r.old # 0
                              /\ r.envelope.version = r.old + 1
                              /\ r.envelope.key = loaded[s].active,
         UNCHANGED <<active, envelope, mounted, loaded, rewrap, orderly>>
  PROVE  IInv'
  <1>1. /\ rotation \in [Servers -> Rotation]
        /\ rotation'[s] = r
        /\ \A t \in Servers : t # s => rotation'[t] = rotation[t]
        /\ rotation' \in [Servers -> Rotation]
    BY DEF IInv, TypeOK
  <1>2. TypeOK'
    BY <1>1 DEF IInv, TypeOK
  <1>3. SealedForNext'
    <2> SUFFICES ASSUME NEW t \in Servers
                 PROVE  /\ rotation'[t].old # MaxVersion
                        /\ rotation'[t].envelope # None =>
                             /\ rotation'[t].old # 0
                             /\ rotation'[t].envelope.version = rotation'[t].old + 1
                             /\ rotation'[t].envelope.key = loaded[t].active
      BY DEF SealedForNext
    <2>1. CASE t = s
      BY <2>1, <1>1
    <2>2. CASE t # s
      BY <2>2, <1>1 DEF IInv, SealedForNext
    <2>3. QED
      BY <2>1, <2>2
  <1>4. RingsOnly' /\ WritersFollow' /\ ReportStaysTrue' /\ Opens'
    BY DEF IInv, RingsOnly, WritersFollow, ReportStaysTrue, Opens
  <1>5. QED
    BY <1>2, <1>3, <1>4 DEF IInv

(* Rotate reads a version that can be increased. *)
LEMMA StartRotationIInv ==
  ASSUME ConstantsOK, IInv, NEW s \in Servers, StartRotation(s)
  PROVE  IInv'
  <1> DEFINE r == [rotation[s] EXCEPT !.old = active]
  <1>1. rotation[s] = NoRotation /\ active # MaxVersion /\ active \in Versions
        /\ rotation \in [Servers -> Rotation]
    BY DEF StartRotation, Increases, IInv, TypeOK
  <1>2. r = [old |-> active, envelope |-> None]
    BY <1>1 DEF NoRotation
  <1>3. r \in Rotation /\ r.old = active /\ r.envelope = None
    BY <1>1, <1>2, ConstantFacts DEF Rotation
  <1>4. rotation' = [rotation EXCEPT ![s] = r]
    BY DEF StartRotation
  <1>5. QED
    BY <1>1, <1>3, <1>4, ServingKeepsIInv DEF StartRotation

(* The new credential is sealed with the key the server writes with. *)
LEMMA EncryptIInv ==
  ASSUME ConstantsOK, IInv, NEW s \in Servers, Encrypt(s)
  PROVE  IInv'
  <1> DEFINE e == [version |-> rotation[s].old + 1, key |-> loaded[s].active]
             r == [rotation[s] EXCEPT !.envelope = e]
  <1>1. /\ rotation \in [Servers -> Rotation] /\ rotation[s] \in Rotation
        /\ rotation[s].old # 0 /\ rotation[s].old # MaxVersion
        /\ loaded[s].active \in KeyIDs
    BY DEF Encrypt, IInv, TypeOK, SealedForNext, Keyring
  <1>2. rotation[s].old \in 0..MaxVersion
    BY <1>1 DEF Rotation
  <1>3. rotation[s].old + 1 \in Versions
    BY <1>1, <1>2, ConstantFacts DEF Versions
  <1>4. e \in Envelope /\ e.version = rotation[s].old + 1 /\ e.key = loaded[s].active
    BY <1>1, <1>3 DEF Envelope
  <1>5. r = [old |-> rotation[s].old, envelope |-> e]
    BY <1>1 DEF Rotation
  <1>6. r \in Rotation /\ r.old = rotation[s].old /\ r.envelope = e
    BY <1>2, <1>4, <1>5 DEF Rotation
  <1>7. rotation' = [rotation EXCEPT ![s] = r]
    BY DEF Encrypt
  <1>8. QED
    BY <1>1, <1>4, <1>6, <1>7, ServingKeepsIInv DEF Encrypt

(* A failed rotation leaves nothing behind. *)
LEMMA RotationFailsIInv ==
  ASSUME ConstantsOK, IInv, NEW s \in Servers, RotationFails(s)
  PROVE  IInv'
  BY ServingKeepsIInv, ConstantFacts DEF RotationFails

(* The envelope is stored as the version it was sealed for, with a mounted key. *)
LEMMA RotateIInv ==
  ASSUME ConstantsOK, IInv, NEW s \in Servers, Rotate(s)
  PROVE  IInv'
  <1> DEFINE e == rotation[s].envelope
             v == rotation[s].old + 1
  <1>1. /\ e # None
        /\ envelope' = [envelope EXCEPT ![v] = e]
        /\ active' = v
        /\ rotation' = [rotation EXCEPT ![s] = NoRotation]
        /\ UNCHANGED <<mounted, loaded, rewrap, orderly>>
    BY DEF Rotate, RotatedTo
  <1>2. /\ rotation \in [Servers -> Rotation] /\ rotation[s] \in Rotation
        /\ envelope \in [Versions -> Envelope \cup {None}]
        /\ loaded \in [Servers -> Keyring]
    BY DEF IInv, TypeOK
  <1>3. /\ rotation[s].old # MaxVersion /\ rotation[s].old # 0
        /\ e.version = v /\ e.key = loaded[s].active
    BY <1>1 DEF IInv, SealedForNext
  <1>4. e \in Envelope
    BY <1>1, <1>2 DEF Rotation
  <1>5. v \in Versions
    <2>1. rotation[s].old \in 0..MaxVersion
      BY <1>2 DEF Rotation
    <2>2. QED
      BY <2>1, <1>3, ConstantFacts DEF Versions
  <1>6. /\ envelope' \in [Versions -> Envelope \cup {None}]
        /\ envelope'[v] = e
        /\ \A w \in Versions : w # v => envelope'[w] = envelope[w]
    BY <1>1, <1>2, <1>4, <1>5
  <1>7. /\ rotation' \in [Servers -> Rotation]
        /\ rotation'[s] = NoRotation
        /\ \A t \in Servers : t # s => rotation'[t] = rotation[t]
    BY <1>1, <1>2, ConstantFacts
  <1>8. TypeOK'
    BY <1>1, <1>5, <1>6, <1>7 DEF IInv, TypeOK
  <1>9. SealedForNext'
    <2> SUFFICES ASSUME NEW t \in Servers
                 PROVE  /\ rotation'[t].old # MaxVersion
                        /\ rotation'[t].envelope # None =>
                             /\ rotation'[t].old # 0
                             /\ rotation'[t].envelope.version = rotation'[t].old + 1
                             /\ rotation'[t].envelope.key = loaded[t].active
      BY <1>1 DEF SealedForNext
    <2>1. CASE t = s
      BY <2>1, <1>7, ConstantFacts
    <2>2. CASE t # s
      BY <2>2, <1>7 DEF IInv, SealedForNext
    <2>3. QED
      BY <2>1, <2>2
  <1>10. ReportStaysTrue'
    <2> SUFFICES ASSUME (rewrap = "unreferenced" /\ orderly) \/ mounted = Rings.new,
                        NEW w \in Versions, envelope'[w] # None
                 PROVE  envelope'[w].key = NewKey
      BY <1>1 DEF ReportStaysTrue
    <2>1. e.key = NewKey
      BY <1>3 DEF IInv, WritersFollow
    <2>2. QED
      BY <2>1, <1>6 DEF IInv, ReportStaysTrue
  <1>11. Opens'
    <2>1. e.key \in mounted.keys
      <3>1. CASE mounted = Rings.old
        BY <3>1, <1>3, RingFields DEF IInv, WritersFollow
      <3>2. CASE mounted = Rings.both
        BY <3>2, <1>3, <1>2, RingFields DEF Keyring
      <3>3. CASE mounted = Rings.new
        BY <3>3, <1>3, RingFields DEF IInv, WritersFollow
      <3>4. QED
        BY <3>1, <3>2, <3>3 DEF IInv, RingsOnly
    <2>2. \A w \in Versions : envelope'[w] # None =>
            envelope'[w].version = w /\ envelope'[w].key \in mounted.keys
      BY <2>1, <1>3, <1>6 DEF IInv, Opens
    <2>3. QED
      BY <2>2, <1>1, <1>6 DEF Opens
  <1>12. RingsOnly' /\ WritersFollow'
    BY <1>1 DEF IInv, RingsOnly, WritersFollow
  <1>13. QED
    BY <1>8, <1>9, <1>10, <1>11, <1>12 DEF IInv

-----------------------------------------------------------------------------
(* The rotation of the master key *)

(* A batch gives some versions the new key and touches nothing else of them. *)
LEMMA RewrapBatchIInv ==
  ASSUME ConstantsOK, IInv, RewrapBatch
  PROVE  IInv'
  <1>1. PICK first \in SUBSET Versions :
          /\ \A v \in first : envelope[v] # None
          /\ envelope' = [v \in Versions |-> IF v \in first THEN [envelope[v] EXCEPT !.key = NewKey]
                                             ELSE envelope[v]]
          /\ rewrap' \in {"counting", "running"}
    <2> DEFINE first == {v \in References(OldKey) :
                           Cardinality({w \in References(OldKey) : w < v}) < Batch}
    <2>1. first \in SUBSET Versions /\ \A v \in first : envelope[v] # None
      BY DEF References, Stored
    <2>2. /\ envelope' = [v \in Versions |-> IF v \in first THEN [envelope[v] EXCEPT !.key = NewKey]
                                             ELSE envelope[v]]
          /\ rewrap' \in {"counting", "running"}
      BY DEF RewrapBatch
    <2>3. QED
      BY <2>1, <2>2
  <1>2. /\ UNCHANGED <<active, mounted, loaded, rotation, orderly>>
        /\ rewrap = "running" /\ KeyIDs \subseteq mounted.keys
    BY DEF RewrapBatch
  <1>3. envelope \in [Versions -> Envelope \cup {None}]
    BY DEF IInv, TypeOK
  <1>4. \A v \in Versions :
          \/ envelope'[v] = envelope[v]
          \/ /\ envelope[v] # None
             /\ envelope'[v] \in Envelope
             /\ envelope'[v].version = envelope[v].version
             /\ envelope'[v].key = NewKey
    <2> SUFFICES ASSUME NEW v \in Versions, v \in first
                 PROVE  /\ envelope[v] # None
                        /\ envelope'[v] \in Envelope
                        /\ envelope'[v].version = envelope[v].version
                        /\ envelope'[v].key = NewKey
      BY <1>1
    <2>1. envelope[v] # None /\ envelope[v] \in Envelope
      BY <1>1, <1>3
    <2>2. envelope'[v] = [envelope[v] EXCEPT !.key = NewKey]
      BY <1>1
    <2>3. QED
      BY <2>1, <2>2 DEF Envelope, KeyIDs
  <1>5. TypeOK'
    <2>1. envelope' \in [Versions -> Envelope \cup {None}]
      <3>1. \A v \in Versions : envelope'[v] \in Envelope \cup {None}
        BY <1>3, <1>4
      <3> DEFINE f == [v \in Versions |-> IF v \in first THEN [envelope[v] EXCEPT !.key = NewKey]
                                          ELSE envelope[v]]
      <3>2. envelope' = f
        BY <1>1
      <3>3. \A v \in Versions : f[v] \in Envelope \cup {None}
        BY <3>1, <3>2
      <3>4. f \in [Versions -> Envelope \cup {None}]
        BY <3>3
      <3>5. QED
        BY <3>2, <3>4
    <2>2. QED
      BY <2>1, <1>1, <1>2 DEF IInv, TypeOK
  <1>6. ReportStaysTrue'
    BY <1>1, <1>2, <1>4 DEF IInv, ReportStaysTrue
  <1>7. Opens'
    <2>1. active \in Versions /\ NewKey \in mounted.keys
      BY <1>2 DEF IInv, TypeOK, KeyIDs
    <2>2. envelope'[active] # None
      BY <2>1, <1>4, ConstantFacts DEF IInv, Opens
    <2>3. QED
      BY <2>1, <2>2, <1>2, <1>4 DEF IInv, Opens
  <1>8. RingsOnly' /\ SealedForNext' /\ WritersFollow'
    BY <1>1, <1>2 DEF IInv, RingsOnly, SealedForNext, WritersFollow
  <1>9. QED
    BY <1>5, <1>6, <1>7, <1>8 DEF IInv

(* The rewrap command's other steps change only how far it is. *)
LEMMA ProgressIInv ==
  ASSUME ConstantsOK, IInv, StartRewrap \/ Interrupt \/ KeyReferences
  PROVE  IInv'
  <1>1. /\ UNCHANGED <<active, envelope, mounted, loaded, rotation>>
        /\ rewrap' \in {"idle", "running", "unreferenced"} /\ orderly' \in BOOLEAN
    BY DEF StartRewrap, Interrupt, KeyReferences, IInv, TypeOK
  <1>2. TypeOK' /\ RingsOnly' /\ SealedForNext' /\ Opens'
    BY <1>1 DEF IInv, TypeOK, RingsOnly, SealedForNext, Opens
  <1>3. WritersFollow'
    <2>1. rewrap' # "idle" /\ orderly' => \A s \in Servers : loaded[s].active = NewKey
      BY RingFields DEF IInv, WritersFollow, StartRewrap, Interrupt, KeyReferences
    <2>2. QED
      BY <2>1, <1>1 DEF IInv, WritersFollow
  <1>4. ReportStaysTrue'
    <2>1. ASSUME rewrap' = "unreferenced" /\ orderly', NEW v \in Versions, envelope[v] # None
          PROVE  envelope[v].key = NewKey
      <3>1. References(OldKey) = {}
        BY <2>1 DEF StartRewrap, Interrupt, KeyReferences
      <3>2. envelope[v].key # OldKey
        BY <3>1, <2>1 DEF References, Stored
      <3>3. envelope[v] \in Envelope
        BY <2>1 DEF IInv, TypeOK
      <3>4. QED
        BY <3>2, <3>3 DEF Envelope, KeyIDs
    <2>2. QED
      BY <2>1, <1>1 DEF IInv, ReportStaysTrue
  <1>5. QED
    BY <1>2, <1>3, <1>4 DEF IInv

(* Mounting the new key takes none away. *)
LEMMA MountIInv ==
  ASSUME ConstantsOK, IInv, Mount
  PROVE  IInv'
  <1>1. /\ mounted = Rings.old /\ mounted' = Rings.both
        /\ UNCHANGED <<active, envelope, loaded, rotation, rewrap, orderly>>
    BY DEF Mount
  <1>2. TypeOK' /\ RingsOnly' /\ SealedForNext'
    BY <1>1, RingFields DEF IInv, TypeOK, RingsOnly, SealedForNext
  <1>3. WritersFollow' /\ ReportStaysTrue'
    BY <1>1, RingFields DEF IInv, WritersFollow, ReportStaysTrue
  <1>4. Opens'
    <2>1. mounted.keys \subseteq mounted'.keys
      BY <1>1, RingFields DEF KeyIDs
    <2>2. QED
      BY <2>1, <1>1 DEF IInv, Opens
  <1>5. QED
    BY <1>2, <1>3, <1>4 DEF IInv

(* The old key is retired when nothing refers to it. *)
LEMMA RetireIInv ==
  ASSUME ConstantsOK, IInv, Retire
  PROVE  IInv'
  <1>1. /\ rewrap = "unreferenced" /\ orderly /\ mounted = Rings.both /\ mounted' = Rings.new
        /\ UNCHANGED <<active, envelope, loaded, rotation, rewrap, orderly>>
    BY DEF Retire
  <1>2. TypeOK' /\ RingsOnly' /\ SealedForNext'
    BY <1>1, RingFields DEF IInv, TypeOK, RingsOnly, SealedForNext
  <1>3. WritersFollow' /\ ReportStaysTrue'
    BY <1>1, RingFields DEF IInv, WritersFollow, ReportStaysTrue
  <1>4. Opens'
    BY <1>1, RingFields DEF IInv, Opens, ReportStaysTrue
  <1>5. QED
    BY <1>2, <1>3, <1>4 DEF IInv

(* A server that restarts drops its rotation and writes with the key that   *)
(* is mounted.                                                              *)
LEMMA RestartIInv ==
  ASSUME ConstantsOK, IInv, NEW s \in Servers, Restart(s)
  PROVE  IInv'
  <1>1. /\ loaded' = [loaded EXCEPT ![s] = mounted]
        /\ rotation' = [rotation EXCEPT ![s] = NoRotation]
        /\ UNCHANGED <<active, envelope, mounted, rewrap, orderly>>
    BY DEF Restart
  <1>2. /\ loaded \in [Servers -> Keyring] /\ rotation \in [Servers -> Rotation]
        /\ mounted \in Keyring
    BY DEF IInv, TypeOK
  <1>3. /\ loaded' \in [Servers -> Keyring] /\ rotation' \in [Servers -> Rotation]
        /\ loaded'[s] = mounted /\ rotation'[s] = NoRotation
        /\ \A t \in Servers : t # s => loaded'[t] = loaded[t] /\ rotation'[t] = rotation[t]
    BY <1>1, <1>2, ConstantFacts
  <1>4. TypeOK' /\ RingsOnly'
    BY <1>1, <1>3 DEF IInv, TypeOK, RingsOnly
  <1>5. SealedForNext'
    <2> SUFFICES ASSUME NEW t \in Servers
                 PROVE  /\ rotation'[t].old # MaxVersion
                        /\ rotation'[t].envelope # None =>
                             /\ rotation'[t].old # 0
                             /\ rotation'[t].envelope.version = rotation'[t].old + 1
                             /\ rotation'[t].envelope.key = loaded'[t].active
      BY DEF SealedForNext
    <2>1. CASE t = s
      BY <2>1, <1>3, ConstantFacts
    <2>2. CASE t # s
      BY <2>2, <1>3 DEF IInv, SealedForNext
    <2>3. QED
      BY <2>1, <2>2
  <1>6. WritersFollow'
    <2>1. mounted = Rings.old => \A t \in Servers : loaded'[t] = Rings.old
      BY <1>3 DEF IInv, WritersFollow
    <2>2. ASSUME (rewrap # "idle" /\ orderly) \/ mounted = Rings.new
          PROVE  mounted.active = NewKey
      <3>1. loaded[s].active = NewKey
        BY <2>2 DEF IInv, WritersFollow
      <3>2. mounted # Rings.old
        BY <3>1, RingFields, ConstantFacts DEF IInv, WritersFollow
      <3>3. QED
        BY <3>2, RingFields DEF IInv, RingsOnly
    <2>3. ASSUME (rewrap # "idle" /\ orderly) \/ mounted = Rings.new, NEW t \in Servers
          PROVE  loaded'[t].active = NewKey
      BY <2>2, <2>3, <1>3 DEF IInv, WritersFollow
    <2>4. QED
      BY <2>1, <2>3, <1>1 DEF WritersFollow
  <1>7. ReportStaysTrue' /\ Opens'
    BY <1>1 DEF IInv, ReportStaysTrue, Opens
  <1>8. QED
    BY <1>4, <1>5, <1>6, <1>7 DEF IInv

(* Every step keeps the invariant. *)
LEMMA NextIInv ==
  ASSUME ConstantsOK, IInv, [Next]_vars
  PROVE  IInv'
  <1>1. ASSUME NEW s \in Servers,
               StartRotation(s) \/ Encrypt(s) \/ Rotate(s) \/ RotationFails(s) \/ Restart(s)
        PROVE  IInv'
    BY <1>1, StartRotationIInv, EncryptIInv, RotateIInv, RotationFailsIInv, RestartIInv
  <1>2. CASE UNCHANGED vars
    BY <1>2 DEF vars, IInv, TypeOK, RingsOnly, SealedForNext, WritersFollow, ReportStaysTrue, Opens
  <1>3. QED
    BY <1>1, <1>2, RewrapBatchIInv, ProgressIInv, MountIInv, RetireIInv DEF Next

-----------------------------------------------------------------------------
(* The invariant holds in every behaviour of the specification. *)
THEOREM CredentialsInvariant ==
  ASSUME ConstantsOK
  PROVE  Spec => []IInv
  <1>1. Init => IInv
    BY InitIInv
  <1>2. IInv /\ [Next]_vars => IInv'
    BY NextIInv
  <1>3. QED
    BY <1>1, <1>2, PTL DEF Spec

(* The variables keep their types; no rotation makes a version beyond the   *)
(* largest (Rotate's check of the version it read). *)
THEOREM CredentialsTypes ==
  ASSUME ConstantsOK
  PROVE  Spec => []TypeOK
  <1>1. IInv => TypeOK
    BY DEF IInv
  <1>2. QED
    BY <1>1, CredentialsInvariant, PTL

(* The invariant contains that every stored version opens.                  *)
LEMMA IInvOpens ==
  ASSUME IInv
  PROVE  CredentialsOpen
  BY DEF IInv, Opens, CredentialsOpen, Stored

(* Every stored version can be opened with the mounted keyring, through     *)
(* concurrent rotations, early and interrupted rewraps, restarts and the    *)
(* retirement of the old key (Rotate, RewrapBatch, KeyReferences). *)
THEOREM CredentialsStayOpen ==
  ASSUME ConstantsOK
  PROVE  Spec => []CredentialsOpen
  <1>1. IInv => CredentialsOpen
    BY IInvOpens
  <1>2. QED
    BY <1>1, CredentialsInvariant, PTL
=============================================================================
