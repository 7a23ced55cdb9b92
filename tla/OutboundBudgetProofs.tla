------------------------ MODULE OutboundBudgetProofs ------------------------
(* Theorems about OutboundBudget, for every number of callers, connections, *)
(* quota scopes and slots, every limit and every header.                    *)
EXTENDS OutboundBudget, FiniteSetTheorems, TLAPS

(* Who is counted in a connection's slots, who holds one of them, and who   *)
(* is counted in a quota.                                                   *)
Counted(k) == {c \in Callers : caller[c].pc # "idle" /\ ConnectionOf[c] = k}
Holders(k) == {c \in Callers : caller[c].pc = "holding" /\ ConnectionOf[c] = k}
CountedIn(s) == {c \in Callers : caller[c].pc # "idle" /\ ScopeOf[c] = s}

(* The pointers a caller keeps are the registered ones.                     *)
PointersCurrent ==
    \A c \in Callers :
      IF caller[c].pc = "idle" THEN caller[c] = Idle
      ELSE /\ caller[c].slots # None /\ caller[c].slots = connections[ConnectionOf[c]]
           /\ caller[c].quota # None /\ caller[c].quota = cooldowns[ScopeOf[c]]

(* No two entries share a cell.                                             *)
OwnCells ==
    /\ \A k, l \in Connections : connections[k] # None /\ connections[k] = connections[l] => k = l
    /\ \A s, t \in Scopes : cooldowns[s] # None /\ cooldowns[s] = cooldowns[t] => s = t

(* The counters of a registered entry count.                                *)
SlotsExact ==
    \A k \in Connections : connections[k] # None =>
      /\ slots[connections[k]].refs = Cardinality(Counted(k))
      /\ slots[connections[k]].active = Cardinality(Holders(k))

QuotaExact ==
    \A s \in Scopes : cooldowns[s] # None =>
      quota[cooldowns[s]].refs = Cardinality(CountedIn(s))

(* A pause that is not over is registered.                                  *)
PauseRegistered ==
    \A s \in Scopes : pause[s] > clock =>
      cooldowns[s] # None /\ quota[cooldowns[s]].until >= pause[s]

(* Whoever sleeps unsignalled found the slots taken, or set the timer to    *)
(* the end of a pause that has not been moved since.                        *)
SleepersTimed ==
    \A c \in Callers : caller[c].pc = "waiting" /\ ~caller[c].woken =>
      \/ slots[caller[c].slots].active = Slots
      \/ caller[c].timer <= quota[caller[c].quota].until

IInv ==
    /\ TypeOK
    /\ PointersCurrent
    /\ OwnCells
    /\ SlotsExact
    /\ QuotaExact
    /\ PauseRegistered
    /\ SleepersTimed

-----------------------------------------------------------------------------
(* Sets of callers and their sizes *)

(* The constants, as the provers need them. *)
LEMMA ConstantFacts ==
  /\ \A c \in Callers : ConnectionOf[c] \in Connections /\ ScopeOf[c] \in Scopes
  /\ IsFiniteSet(Callers) /\ IsFiniteSet(Connections) /\ IsFiniteSet(Scopes)
  /\ None \notin Cells
  /\ Slots \in Nat /\ Slots > 0 /\ MaxEntries \in Nat /\ Patience \in Nat /\ MaxDelay \in Nat
  BY BudgetAssumption

(* Counting a caller in or out changes the size by one. *)
LEMMA Sizes ==
  ASSUME NEW S \in SUBSET Callers
  PROVE  /\ Cardinality(S) \in Nat
         /\ Cardinality(S) = 0 <=> S = {}
         /\ \A c \in S : Cardinality(S \ {c}) = Cardinality(S) - 1
         /\ \A c \in Callers \ S : Cardinality(S \cup {c}) = Cardinality(S) + 1
  <1>1. IsFiniteSet(S)
    BY ConstantFacts, FS_Subset
  <1>2. Cardinality(S) \in Nat
    BY <1>1, FS_CardinalityType
  <1>3. Cardinality(S) = 0 <=> S = {}
    BY <1>1, FS_EmptySet
  <1>4. \A c \in S : Cardinality(S \ {c}) = Cardinality(S) - 1
    BY <1>1, FS_RemoveElement
  <1>5. \A c \in Callers \ S : Cardinality(S \cup {c}) = Cardinality(S) + 1
    BY <1>1, FS_AddElement
  <1>6. QED
    BY <1>2, <1>3, <1>4, <1>5

(* The three sets are sets of callers. *)
LEMMA CountedSubsets ==
  \A x : /\ Counted(x) \in SUBSET Callers
         /\ Holders(x) \in SUBSET Counted(x)
         /\ CountedIn(x) \in SUBSET Callers
  BY DEF Counted, Holders, CountedIn

(* A step that counts nobody in or out. *)
LEMMA NobodyMoves ==
  ASSUME \A d \in Callers : caller'[d].pc = "idle" <=> caller[d].pc = "idle"
  PROVE  \A x : Counted(x)' = Counted(x) /\ CountedIn(x)' = CountedIn(x)
  BY DEF Counted, CountedIn

(* A step that counts c in. *)
LEMMA OneComes ==
  ASSUME NEW c \in Callers, caller[c].pc = "idle", caller'[c].pc # "idle",
         \A d \in Callers \ {c} : caller'[d].pc = "idle" <=> caller[d].pc = "idle"
  PROVE  /\ \A x : x # ConnectionOf[c] => Counted(x)' = Counted(x)
         /\ \A x : x # ScopeOf[c] => CountedIn(x)' = CountedIn(x)
         /\ Cardinality(Counted(ConnectionOf[c]))' = Cardinality(Counted(ConnectionOf[c])) + 1
         /\ Cardinality(CountedIn(ScopeOf[c]))' = Cardinality(CountedIn(ScopeOf[c])) + 1
  <1>1. \A x : x # ConnectionOf[c] => Counted(x)' = Counted(x)
    BY DEF Counted
  <1>2. \A x : x # ScopeOf[c] => CountedIn(x)' = CountedIn(x)
    BY DEF CountedIn
  <1>3. /\ Counted(ConnectionOf[c])' = Counted(ConnectionOf[c]) \cup {c}
        /\ c \notin Counted(ConnectionOf[c])
    BY DEF Counted
  <1>4. /\ CountedIn(ScopeOf[c])' = CountedIn(ScopeOf[c]) \cup {c}
        /\ c \notin CountedIn(ScopeOf[c])
    BY DEF CountedIn
  <1>5. QED
    BY <1>1, <1>2, <1>3, <1>4, Sizes, CountedSubsets

(* A step that counts c out. *)
LEMMA OneLeaves ==
  ASSUME NEW c \in Callers, caller[c].pc # "idle", caller'[c].pc = "idle",
         \A d \in Callers \ {c} : caller'[d].pc = "idle" <=> caller[d].pc = "idle"
  PROVE  /\ \A x : x # ConnectionOf[c] => Counted(x)' = Counted(x)
         /\ \A x : x # ScopeOf[c] => CountedIn(x)' = CountedIn(x)
         /\ Cardinality(Counted(ConnectionOf[c]))' = Cardinality(Counted(ConnectionOf[c])) - 1
         /\ Cardinality(CountedIn(ScopeOf[c]))' = Cardinality(CountedIn(ScopeOf[c])) - 1
         /\ c \in Counted(ConnectionOf[c]) /\ c \in CountedIn(ScopeOf[c])
  <1>1. \A x : x # ConnectionOf[c] => Counted(x)' = Counted(x)
    BY DEF Counted
  <1>2. \A x : x # ScopeOf[c] => CountedIn(x)' = CountedIn(x)
    BY DEF CountedIn
  <1>3. /\ Counted(ConnectionOf[c])' = Counted(ConnectionOf[c]) \ {c}
        /\ c \in Counted(ConnectionOf[c])
    BY DEF Counted
  <1>4. /\ CountedIn(ScopeOf[c])' = CountedIn(ScopeOf[c]) \ {c}
        /\ c \in CountedIn(ScopeOf[c])
    BY DEF CountedIn
  <1>5. QED
    BY <1>1, <1>2, <1>3, <1>4, Sizes, CountedSubsets

(* A step in which only c may take or give back a slot. *)
LEMMA HoldersMove ==
  ASSUME NEW c \in Callers,
         \A d \in Callers \ {c} : caller'[d].pc = "holding" <=> caller[d].pc = "holding"
  PROVE  /\ \A x : x # ConnectionOf[c] => Holders(x)' = Holders(x)
         /\ (caller'[c].pc = "holding" <=> caller[c].pc = "holding")
            => \A x : Holders(x)' = Holders(x)
         /\ caller'[c].pc = "holding" /\ caller[c].pc # "holding"
            => Cardinality(Holders(ConnectionOf[c]))' = Cardinality(Holders(ConnectionOf[c])) + 1
         /\ caller'[c].pc # "holding" /\ caller[c].pc = "holding"
            => Cardinality(Holders(ConnectionOf[c]))' = Cardinality(Holders(ConnectionOf[c])) - 1
  <1>1. \A x : x # ConnectionOf[c] => Holders(x)' = Holders(x)
    BY DEF Holders
  <1>2. (caller'[c].pc = "holding" <=> caller[c].pc = "holding") => \A x : Holders(x)' = Holders(x)
    BY DEF Holders
  <1> DEFINE H == Holders(ConnectionOf[c])
  <1>3. H \in SUBSET Callers
    BY DEF Holders
  <1>4. ASSUME caller'[c].pc = "holding", caller[c].pc # "holding"
        PROVE  Cardinality(H)' = Cardinality(H) + 1
    <2>1. H' = H \cup {c} /\ c \notin H
      BY <1>4 DEF Holders
    <2> HIDE DEF H
    <2>2. QED
      BY <2>1, <1>3, Sizes
  <1>5. ASSUME caller'[c].pc # "holding", caller[c].pc = "holding"
        PROVE  Cardinality(H)' = Cardinality(H) - 1
    <2>1. H' = H \ {c} /\ c \in H
      BY <1>5 DEF Holders
    <2> HIDE DEF H
    <2>2. QED
      BY <2>1, <1>3, Sizes
  <1>6. QED
    BY <1>1, <1>2, <1>4, <1>5

-----------------------------------------------------------------------------
(* Rows *)

(* What the three ways to write a caller's state return. *)
LEMMA CallerRows ==
  ASSUME NEW k \in CallerState, NEW t \in Nat, NEW a \in Cells, NEW b \in Cells
  PROVE  /\ Holding(k) \in CallerState /\ Holding(k).pc = "holding"
         /\ Holding(k).slots = k.slots /\ Holding(k).quota = k.quota
         /\ Waiting(k, t) \in CallerState /\ Waiting(k, t).pc = "waiting"
         /\ Waiting(k, t).slots = k.slots /\ Waiting(k, t).quota = k.quota
         /\ Waiting(k, t).timer = t /\ ~Waiting(k, t).woken
         /\ Entering(a, b) \in CallerState
         /\ Entering(a, b).slots = a /\ Entering(a, b).quota = b
  <1>1. /\ Holding(k) \in CallerState /\ Holding(k).pc = "holding"
        /\ Holding(k).slots = k.slots /\ Holding(k).quota = k.quota
    BY DEF Holding, CallerState
  <1>2. /\ Waiting(k, t) \in CallerState /\ Waiting(k, t).pc = "waiting"
        /\ Waiting(k, t).slots = k.slots /\ Waiting(k, t).quota = k.quota
        /\ Waiting(k, t).timer = t /\ ~Waiting(k, t).woken
    BY DEF Waiting, CallerState
  <1>3. /\ Entering(a, b) \in CallerState
        /\ Entering(a, b).slots = a /\ Entering(a, b).quota = b
    BY DEF Entering, Idle, CallerState
  <1>4. QED
    BY <1>1, <1>2, <1>3

(* The state of a caller that calls nobody. *)
LEMMA IdleRow == Idle \in CallerState /\ Idle.pc = "idle"
  BY DEF Idle, CallerState

(* A signal wakes the callers that wait and changes nothing else of anybody. *)
LEMMA SignalledRows ==
  ASSUME NEW ks \in [Callers -> CallerState]
  PROVE  /\ Signalled(ks) \in [Callers -> CallerState]
         /\ \A d \in Callers :
              /\ Signalled(ks)[d].pc = ks[d].pc
              /\ Signalled(ks)[d].slots = ks[d].slots
              /\ Signalled(ks)[d].quota = ks[d].quota
              /\ ks[d].pc = "waiting" => Signalled(ks)[d].woken
              /\ ks[d].pc # "waiting" => Signalled(ks)[d] = ks[d]
  <1>1. \A d \in Callers : ks[d].pc = "waiting" =>
          LET w == [ks[d] EXCEPT !.woken = TRUE]
          IN  /\ w \in CallerState /\ w.pc = ks[d].pc /\ w.slots = ks[d].slots
              /\ w.quota = ks[d].quota /\ w.woken
    BY DEF CallerState
  <1>2. \A d \in Callers : Signalled(ks)[d] = IF ks[d].pc = "waiting"
                                                THEN [ks[d] EXCEPT !.woken = TRUE] ELSE ks[d]
    BY DEF Signalled
  <1>3. Signalled(ks) \in [Callers -> CallerState]
    BY <1>1 DEF Signalled
  <1>4. QED
    BY <1>1, <1>2, <1>3

(* A timer is set to a time. *)
LEMMA TimerType ==
  ASSUME clock \in Nat, NEW q \in [until: Nat, refs: Nat]
  PROVE  TimerOf(q) \in Nat
  BY ConstantFacts DEF TimerOf

(* A delay is a number of seconds within the limit, whatever the headers say. *)
LEMMA RetryAfterType ==
  ASSUME clock \in Nat, NEW h \in Headers
  PROVE  RetryAfter(h) \in 0..MaxDelay
  <1>1. h \in [seconds: Int, date: Int, reset: Int]
    BY BudgetAssumption
  <1>2. h.seconds \in Int /\ h.date \in Int /\ h.reset \in Int
    BY <1>1
  <1>3. QED
    BY <1>2, ConstantFacts DEF RetryAfter

(* A registry that is not full leaves an address free. *)
LEMMA FreeCell ==
  ASSUME NEW D, IsFiniteSet(D), NEW R \in [D -> Cells \cup {None}], Size(R) < MaxEntries
  PROVE  \E a \in Cells : a \notin {R[x] : x \in D}
  <1> DEFINE X == {x \in D : R[x] # None}
             T == {R[x] : x \in X}
             f == [x \in X |-> R[x]]
  <1>1. IsFiniteSet(X) /\ Cardinality(X) = Size(R) /\ Cardinality(X) \in Nat
    BY FS_Subset, FS_CardinalityType DEF Size
  <1>2. f \in Surjection(X, T)
    BY DEF Surjection
  <1>3. IsFiniteSet(T) /\ Cardinality(T) <= Cardinality(X)
    <2> HIDE DEF f, X, T
    <2>1. QED
      BY <1>1, <1>2, FS_Surjection
  <1>4. Cardinality(T) \in Nat
    BY <1>3, FS_CardinalityType
  <1>5. ASSUME Cells \subseteq T
        PROVE  FALSE
    <2>1. IsFiniteSet(Cells) /\ Cardinality(Cells) <= Cardinality(T)
      BY <1>3, <1>5, FS_Subset
    <2>2. Cardinality(Cells) \in Nat /\ Cardinality(Cells) >= MaxEntries
      BY <2>1, FS_CardinalityType, BudgetAssumption
    <2>3. QED
      BY <1>1, <1>3, <1>4, <2>1, <2>2, ConstantFacts
  <1>6. \A a \in Cells : a \in {R[x] : x \in D} => a \in T
    BY ConstantFacts
  <1>7. QED
    BY <1>5, <1>6

-----------------------------------------------------------------------------
(* What the invariant says in the terms the steps use *)

(* Fields of well typed rows. *)
LEMMA RowFields ==
  ASSUME TypeOK
  PROVE  /\ \A a \in Cells : /\ slots[a].active \in 0..Slots /\ slots[a].refs \in Nat
                             /\ quota[a].until \in Nat /\ quota[a].refs \in Nat
         /\ \A c \in Callers : caller[c] \in CallerState /\ caller[c].timer \in Nat
         /\ \A k \in Connections : connections[k] \in Cells \cup {None}
         /\ \A s \in Scopes : cooldowns[s] \in Cells \cup {None} /\ pause[s] \in Nat
         /\ clock \in Nat
  BY DEF TypeOK, CallerState

(* A caller that is counted points to registered cells, which count it. *)
LEMMA CountedCaller ==
  ASSUME IInv, NEW c \in Callers, caller[c].pc # "idle"
  PROVE  LET a == caller[c].slots
             b == caller[c].quota
         IN  /\ a \in Cells /\ a = connections[ConnectionOf[c]]
             /\ b \in Cells /\ b = cooldowns[ScopeOf[c]]
             /\ slots[a].refs = Cardinality(Counted(ConnectionOf[c]))
             /\ slots[a].active = Cardinality(Holders(ConnectionOf[c]))
             /\ quota[b].refs = Cardinality(CountedIn(ScopeOf[c]))
             /\ slots[a].refs >= 1 /\ quota[b].refs >= 1
             /\ caller[c].pc = "holding" => slots[a].active >= 1
  <1> DEFINE a == caller[c].slots
             b == caller[c].quota
             k == ConnectionOf[c]
             s == ScopeOf[c]
  <1>1. k \in Connections /\ s \in Scopes
    BY ConstantFacts
  <1>2. a # None /\ a = connections[k] /\ b # None /\ b = cooldowns[s]
    BY DEF IInv, PointersCurrent
  <1>3. a \in Cells /\ b \in Cells
    BY <1>1, <1>2 DEF IInv, TypeOK
  <1>4. /\ slots[a].refs = Cardinality(Counted(k))
        /\ slots[a].active = Cardinality(Holders(k))
        /\ quota[b].refs = Cardinality(CountedIn(s))
    BY <1>1, <1>2 DEF IInv, SlotsExact, QuotaExact
  <1>5. c \in Counted(k) /\ c \in CountedIn(s) /\ (caller[c].pc = "holding" => c \in Holders(k))
    BY DEF Counted, CountedIn, Holders
  <1>6. /\ Cardinality(Counted(k)) \in Nat \ {0} /\ Cardinality(CountedIn(s)) \in Nat \ {0}
        /\ caller[c].pc = "holding" => Cardinality(Holders(k)) \in Nat \ {0}
    <2>1. Counted(k) \in SUBSET Callers /\ Holders(k) \in SUBSET Callers /\ CountedIn(s) \in SUBSET Callers
      BY DEF Counted, CountedIn, Holders
    <2>2. QED
      BY <2>1, <1>5, Sizes
  <1>7. QED
    BY <1>2, <1>3, <1>4, <1>6

(* A connection or scope nobody is registered for has nobody counted. *)
LEMMA UnregisteredIsEmpty ==
  ASSUME IInv
  PROVE  /\ \A k \in Connections : connections[k] = None =>
              Counted(k) = {} /\ Cardinality(Counted(k)) = 0 /\ Cardinality(Holders(k)) = 0
         /\ \A s \in Scopes : cooldowns[s] = None =>
              CountedIn(s) = {} /\ Cardinality(CountedIn(s)) = 0
  <1>1. \A k \in Connections : connections[k] = None => Counted(k) = {} /\ Holders(k) = {}
    BY DEF IInv, PointersCurrent, Counted, Holders
  <1>2. \A s \in Scopes : cooldowns[s] = None => CountedIn(s) = {}
    BY DEF IInv, PointersCurrent, CountedIn
  <1>3. QED
    BY <1>1, <1>2, FS_EmptySet

(* What the sweep drops is nobody's, and no longer pauses. *)
LEMMA SweptFacts ==
  ASSUME IInv
  PROVE  /\ Swept \in [Scopes -> Cells \cup {None}]
         /\ \A s \in Scopes :
              /\ Swept[s] # None => Swept[s] = cooldowns[s]
              /\ Swept[s] = None => /\ CountedIn(s) = {}
                                    /\ Cardinality(CountedIn(s)) = 0
                                    /\ pause[s] <= clock
  <1>1. Swept \in [Scopes -> Cells \cup {None}]
    BY DEF Swept, IInv, TypeOK
  <1>2. \A s \in Scopes : Swept[s] # None => Swept[s] = cooldowns[s]
    BY DEF Swept
  <1>3. ASSUME NEW s \in Scopes, Swept[s] = None
        PROVE  /\ CountedIn(s) = {} /\ Cardinality(CountedIn(s)) = 0
               /\ pause[s] <= clock
    <2> USE RowFields DEF IInv
    <2>1. CASE cooldowns[s] = None
      BY <2>1, UnregisteredIsEmpty DEF PauseRegistered
    <2>2. CASE cooldowns[s] # None
      <3>1. quota[cooldowns[s]].refs = 0 /\ quota[cooldowns[s]].until <= clock
        BY <1>3, <2>2 DEF Swept
      <3>2. Cardinality(CountedIn(s)) = 0
        BY <3>1, <2>2 DEF QuotaExact
      <3>3. CountedIn(s) = {}
        BY <3>2, Sizes, CountedSubsets
      <3>4. cooldowns[s] \in Cells
        BY <2>2
      <3>5. pause[s] <= clock
        BY <3>1, <3>4 DEF PauseRegistered
      <3>6. QED
        BY <3>2, <3>3, <3>5
    <2>3. QED
      BY <2>1, <2>2
  <1>4. QED
    BY <1>1, <1>2, <1>3

-----------------------------------------------------------------------------
(* A process that has made no call. *)
LEMMA InitIInv ==
  ASSUME Init
  PROVE  IInv
  <1> USE DEF Init
  <1>1. TypeOK
    BY ConstantFacts, IdleRow DEF TypeOK, NoSlots, NoQuota
  <1>2. PointersCurrent /\ OwnCells /\ SlotsExact /\ QuotaExact
    BY IdleRow DEF PointersCurrent, OwnCells, SlotsExact, QuotaExact
  <1>3. PauseRegistered /\ SleepersTimed
    BY IdleRow DEF PauseRegistered, SleepersTimed
  <1>4. QED
    BY <1>1, <1>2, <1>3 DEF IInv

(* Time passes. *)
LEMMA TickIInv ==
  ASSUME IInv, Tick
  PROVE  IInv'
  <1>1. UNCHANGED <<connections, cooldowns, slots, quota, caller, calls, pause>> /\ clock' = clock + 1
    BY DEF Tick
  <1>2. TypeOK' /\ PointersCurrent' /\ OwnCells' /\ SlotsExact' /\ QuotaExact' /\ SleepersTimed'
    <2>1. TypeOK' /\ PointersCurrent' /\ OwnCells' /\ SleepersTimed'
      BY <1>1 DEF IInv, TypeOK, PointersCurrent, OwnCells, SleepersTimed
    <2>2. SlotsExact' /\ QuotaExact'
      BY <1>1 DEF IInv, SlotsExact, QuotaExact, Counted, Holders, CountedIn
    <2>3. QED
      BY <2>1, <2>2
  <1>3. PauseRegistered'
    BY <1>1, RowFields DEF IInv, PauseRegistered
  <1>4. QED
    BY <1>2, <1>3 DEF IInv

(* A refused caller leaves the sweep behind. *)
LEMMA RefuseIInv ==
  ASSUME IInv, NEW c \in Callers, Refuse(c)
  PROVE  IInv'
  <1>1. /\ cooldowns' = Swept /\ calls' = calls + 1
        /\ UNCHANGED <<connections, slots, quota, caller, clock, pause>>
    BY DEF Refuse
  <1>2. TypeOK'
    BY <1>1, SweptFacts DEF IInv, TypeOK
  <1>3. \A d \in Callers : caller[d].pc # "idle" => Swept[ScopeOf[d]] = cooldowns[ScopeOf[d]]
    <2> SUFFICES ASSUME NEW d \in Callers, caller[d].pc # "idle"
                 PROVE  Swept[ScopeOf[d]] # None
      BY ConstantFacts, SweptFacts
    <2>1. d \in CountedIn(ScopeOf[d])
      BY DEF CountedIn
    <2>2. QED
      BY <2>1, ConstantFacts, SweptFacts
  <1>4. PointersCurrent'
    BY <1>1, <1>3 DEF IInv, PointersCurrent
  <1>5. OwnCells'
    BY <1>1, SweptFacts DEF IInv, OwnCells
  <1>6. SlotsExact' /\ QuotaExact'
    BY <1>1, SweptFacts DEF IInv, SlotsExact, QuotaExact, Counted, Holders, CountedIn
  <1>7. PauseRegistered'
    <2> SUFFICES ASSUME NEW s \in Scopes, pause[s] > clock
                 PROVE  Swept[s] # None /\ quota[Swept[s]].until >= pause[s]
      BY <1>1 DEF PauseRegistered
    <2>1. Swept[s] # None
      BY SweptFacts, RowFields DEF IInv
    <2>2. QED
      BY <2>1, SweptFacts DEF IInv, PauseRegistered
  <1>8. SleepersTimed'
    BY <1>1 DEF IInv, SleepersTimed
  <1>9. QED
    BY <1>2, <1>4, <1>5, <1>6, <1>7, <1>8 DEF IInv

(* A context ends: the caller is awake, and nothing else has changed. *)
LEMMA CancelIInv ==
  ASSUME IInv, NEW c \in Callers, Cancel(c)
  PROVE  IInv'
  <1> DEFINE w == [caller[c] EXCEPT !.ctx = FALSE]
  <1>1. /\ caller' = [caller EXCEPT ![c] = w] /\ caller[c].pc = "waiting"
        /\ UNCHANGED <<connections, cooldowns, slots, quota, clock, calls, pause>>
    BY DEF Cancel
  <1>2. caller \in [Callers -> CallerState] /\ caller[c] \in CallerState
    BY DEF IInv, TypeOK
  <1>3. /\ w \in CallerState /\ w.pc = caller[c].pc /\ w.slots = caller[c].slots
        /\ w.quota = caller[c].quota /\ w.woken = caller[c].woken /\ w.timer = caller[c].timer
    BY <1>2 DEF CallerState
  <1> HIDE DEF w
  <1>4. /\ caller' \in [Callers -> CallerState]
        /\ caller'[c] = w
        /\ \A d \in Callers : d # c => caller'[d] = caller[d]
    BY <1>1, <1>2, <1>3
  <1>5. TypeOK'
    BY <1>1, <1>4 DEF IInv, TypeOK
  <1>6. \A x : Counted(x)' = Counted(x) /\ CountedIn(x)' = CountedIn(x) /\ Holders(x)' = Holders(x)
    BY <1>3, <1>4 DEF Counted, CountedIn, Holders
  <1>7. PointersCurrent'
    BY <1>1, <1>3, <1>4 DEF IInv, PointersCurrent
  <1>8. OwnCells' /\ SlotsExact' /\ QuotaExact' /\ PauseRegistered'
    BY <1>1, <1>6 DEF IInv, OwnCells, SlotsExact, QuotaExact, PauseRegistered
  <1>9. SleepersTimed'
    BY <1>1, <1>3, <1>4 DEF IInv, SleepersTimed
  <1>10. QED
    BY <1>5, <1>7, <1>8, <1>9 DEF IInv

-----------------------------------------------------------------------------
(* A caller that waited looks again. *)
LEMMA ResumeIInv ==
  ASSUME IInv, NEW c \in Callers, Resume(c)
  PROVE  IInv'
  <1> DEFINE k == caller[c]
             a == k.slots
             b == k.quota
             enters == MayEnter(slots[a], quota[b])
             w == IF enters THEN Holding(k) ELSE Waiting(k, TimerOf(quota[b]))
             n == IF enters THEN slots[a].active + 1 ELSE slots[a].active
  <1>1. /\ k.pc = "waiting"
        /\ slots' = [slots EXCEPT ![a].active = n]
        /\ caller' = [caller EXCEPT ![c] = w]
        /\ UNCHANGED <<connections, cooldowns, quota, clock, calls, pause>>
    BY DEF Resume, Awake
  <1>2. /\ caller \in [Callers -> CallerState] /\ k \in CallerState
        /\ slots \in [Cells -> [active: 0..Slots, refs: Nat]]
        /\ quota \in [Cells -> [until: Nat, refs: Nat]] /\ clock \in Nat
    BY DEF IInv, TypeOK
  <1>3. /\ a \in Cells /\ a = connections[ConnectionOf[c]]
        /\ b \in Cells /\ b = cooldowns[ScopeOf[c]]
        /\ slots[a].active = Cardinality(Holders(ConnectionOf[c]))
    BY <1>1, CountedCaller
  <1>4. slots[a].active \in 0..Slots /\ quota[b] \in [until: Nat, refs: Nat] /\ quota[b].until \in Nat
    BY <1>2, <1>3
  <1>5. /\ w \in CallerState /\ w.slots = a /\ w.quota = b
        /\ enters => w.pc = "holding"
        /\ ~enters => w.pc = "waiting" /\ w.timer = TimerOf(quota[b])
    <2> DEFINE t == TimerOf(quota[b])
    <2>1. t \in Nat
      BY <1>2, <1>4, TimerType
    <2> HIDE DEF t
    <2>2. /\ Holding(k) \in CallerState /\ Holding(k).pc = "holding"
          /\ Holding(k).slots = a /\ Holding(k).quota = b
          /\ Waiting(k, t) \in CallerState /\ Waiting(k, t).pc = "waiting"
          /\ Waiting(k, t).slots = a /\ Waiting(k, t).quota = b
          /\ Waiting(k, t).timer = t
      BY <2>1, <1>2, <1>3, CallerRows, SMTT(30)
    <2>3. w = IF enters THEN Holding(k) ELSE Waiting(k, t)
      BY DEF t
    <2> HIDE DEF w, enters
    <2>4. CASE enters
      BY <2>2, <2>3, <2>4
    <2>5. CASE ~enters
      BY <2>2, <2>3, <2>5 DEF t
    <2>6. QED
      BY <2>4, <2>5
  <1>6. n \in 0..Slots /\ (enters => n = slots[a].active + 1 /\ slots[a].active # Slots)
        /\ (~enters => n = slots[a].active)
    BY <1>4, ConstantFacts DEF MayEnter
  <1>7. ~enters => (slots[a].active = Slots \/ TimerOf(quota[b]) <= quota[b].until)
    <2>1. CASE quota[b].until > clock
      BY <2>1, <1>2, <1>4 DEF TimerOf
    <2>2. CASE ~(quota[b].until > clock)
      <3>1. ~enters => ~(slots[a].active < Slots)
        BY <2>2, <1>2, <1>4 DEF MayEnter
      <3>2. QED
        BY <3>1, <1>4, ConstantFacts
    <2>3. QED
      BY <2>1, <2>2
  <1> HIDE DEF w, n, enters
  <1>8. /\ slots' \in [Cells -> [active: 0..Slots, refs: Nat]]
        /\ slots'[a].active = n /\ slots'[a].refs = slots[a].refs
        /\ \A x \in Cells : x # a => slots'[x] = slots[x]
    BY <1>1, <1>2, <1>3, <1>6
  <1>9. /\ caller' \in [Callers -> CallerState]
        /\ caller'[c] = w
        /\ \A d \in Callers : d # c => caller'[d] = caller[d]
    BY <1>1, <1>2, <1>5
  <1>10. TypeOK'
    BY <1>1, <1>8, <1>9 DEF IInv, TypeOK
  <1>11. PointersCurrent'
    BY <1>1, <1>3, <1>5, <1>9 DEF IInv, PointersCurrent
  <1>12. \A x : Counted(x)' = Counted(x) /\ CountedIn(x)' = CountedIn(x)
    BY <1>1, <1>5, <1>9, NobodyMoves
  <1>13. SlotsExact'
    <2> SUFFICES ASSUME NEW x \in Connections, connections[x] # None
                 PROVE  /\ slots'[connections[x]].refs = Cardinality(Counted(x))
                        /\ slots'[connections[x]].active = Cardinality(Holders(x))'
      BY <1>1, <1>12 DEF SlotsExact
    <2>1. connections[x] \in Cells /\ ConnectionOf[c] \in Connections
      BY ConstantFacts, RowFields DEF IInv
    <2>2. CASE x = ConnectionOf[c]
      <3>1. Cardinality(Holders(x))' = IF enters THEN Cardinality(Holders(x)) + 1 ELSE Cardinality(Holders(x))
        BY <2>2, <1>1, <1>5, <1>9, HoldersMove
      <3>2. QED
        BY <3>1, <2>2, <1>3, <1>6, <1>8 DEF IInv, SlotsExact
    <2>3. CASE x # ConnectionOf[c]
      <3>1. connections[x] # a
        BY <2>1, <2>3, <1>3 DEF IInv, OwnCells
      <3>2. Holders(x)' = Holders(x)
        BY <2>3, <1>9, HoldersMove
      <3>3. QED
        BY <3>1, <3>2, <2>1, <1>8 DEF IInv, SlotsExact
    <2>4. QED
      BY <2>2, <2>3
  <1>14. OwnCells' /\ QuotaExact' /\ PauseRegistered'
    BY <1>1, <1>12 DEF IInv, OwnCells, QuotaExact, PauseRegistered
  <1>15. SleepersTimed'
    <2> SUFFICES ASSUME NEW d \in Callers, caller'[d].pc = "waiting", ~caller'[d].woken
                 PROVE  \/ slots'[caller'[d].slots].active = Slots
                        \/ caller'[d].timer <= quota[caller'[d].quota].until
      BY <1>1 DEF SleepersTimed
    <2>1. CASE d = c
      BY <2>1, <1>5, <1>6, <1>7, <1>8, <1>9
    <2>2. CASE d # c
      <3>1. caller'[d] = caller[d] /\ caller[d].pc = "waiting" /\ ~caller[d].woken
        BY <2>2, <1>9
      <3>2. \/ slots[caller[d].slots].active = Slots
            \/ caller[d].timer <= quota[caller[d].quota].until
        BY <3>1 DEF IInv, SleepersTimed
      <3>3. caller[d].slots \in Cells
        BY <3>1, CountedCaller
      <3>4. slots[caller[d].slots].active = Slots => slots'[caller[d].slots].active = Slots
        BY <3>3, <1>6, <1>8
      <3>5. QED
        BY <3>1, <3>2, <3>4
    <2>3. QED
      BY <2>1, <2>2
  <1>16. QED
    BY <1>10, <1>11, <1>13, <1>14, <1>15 DEF IInv

(* A caller leaves, with or without the slot it held.  Others keep their    *)
(* pointers: an entry is forgotten only with its last caller.               *)
LEMMA LeaveIInv ==
  ASSUME IInv, NEW c \in Callers, caller[c].pc # "idle", Uncount(c),
         NEW held \in {0, 1}, held = 1 <=> caller[c].pc = "holding",
         slots' = [slots EXCEPT ![caller[c].slots] =
                     [active |-> slots[caller[c].slots].active - held,
                      refs |-> slots[caller[c].slots].refs - 1]],
         NEW rest \in [Callers -> CallerState],
         rest[c] = Idle,
         \A d \in Callers \ {c} :
           /\ rest[d].pc = caller[d].pc /\ rest[d].slots = caller[d].slots
           /\ rest[d].quota = caller[d].quota
           /\ caller[d].pc # "waiting" => rest[d] = caller[d]
           /\ rest[d].pc = "waiting" => rest[d].woken \/ (held = 0 /\ rest[d] = caller[d]),
         caller' = rest,
         UNCHANGED <<clock, calls, pause>>
  PROVE  IInv'
  <1> DEFINE k == ConnectionOf[c]
             s == ScopeOf[c]
             a == caller[c].slots
             b == caller[c].quota
  <1>1. k \in Connections /\ s \in Scopes
    BY ConstantFacts
  <1>2. /\ a \in Cells /\ a = connections[k] /\ b \in Cells /\ b = cooldowns[s]
        /\ slots[a].refs = Cardinality(Counted(k))
        /\ slots[a].active = Cardinality(Holders(k))
        /\ quota[b].refs = Cardinality(CountedIn(s))
        /\ slots[a].refs >= 1 /\ quota[b].refs >= 1
        /\ held = 1 => slots[a].active >= 1
    BY CountedCaller
  <1>3. /\ slots \in [Cells -> [active: 0..Slots, refs: Nat]]
        /\ quota \in [Cells -> [until: Nat, refs: Nat]]
        /\ slots[a].active \in 0..Slots /\ slots[a].refs \in Nat
        /\ quota[b].until \in Nat /\ quota[b].refs \in Nat
        /\ connections \in [Connections -> Cells \cup {None}]
        /\ cooldowns \in [Scopes -> Cells \cup {None}]
        /\ clock \in Nat
    BY <1>2, RowFields DEF IInv, TypeOK
  <1>4. /\ slots' \in [Cells -> [active: 0..Slots, refs: Nat]]
        /\ slots'[a].active = slots[a].active - held
        /\ slots'[a].refs = slots[a].refs - 1
        /\ \A x \in Cells : x # a => slots'[x] = slots[x]
    <2>1. slots[a].active - held \in 0..Slots /\ slots[a].refs - 1 \in Nat
      BY <1>2, <1>3, ConstantFacts
    <2>2. QED
      BY <2>1, <1>2, <1>3
  <1>5. /\ quota' \in [Cells -> [until: Nat, refs: Nat]]
        /\ quota'[b].until = quota[b].until
        /\ quota'[b].refs = quota[b].refs - 1
        /\ \A x \in Cells : x # b => quota'[x] = quota[x]
    <2>1. quota' = [quota EXCEPT ![b].refs = quota[b].refs - 1]
      BY <1>2, <1>3 DEF Uncount
    <2>2. quota[b].refs - 1 \in Nat
      BY <1>2, <1>3
    <2>3. QED
      BY <2>1, <2>2, <1>2, <1>3
  <1>6. /\ connections' \in [Connections -> Cells \cup {None}]
        /\ connections'[k] = IF slots[a].refs = 1 THEN None ELSE a
        /\ \A x \in Connections : x # k => connections'[x] = connections[x]
    BY <1>1, <1>2, <1>3 DEF Uncount, ForgetsSlots
  <1>7. /\ cooldowns' \in [Scopes -> Cells \cup {None}]
        /\ cooldowns'[s] = IF quota[b].refs = 1 /\ quota[b].until <= clock THEN None ELSE b
        /\ \A x \in Scopes : x # s => cooldowns'[x] = cooldowns[x]
    BY <1>1, <1>2, <1>3 DEF Uncount, ForgetsQuota
  <1>8. /\ \A x : x # k => Counted(x)' = Counted(x)
        /\ \A x : x # s => CountedIn(x)' = CountedIn(x)
        /\ Cardinality(Counted(k))' = Cardinality(Counted(k)) - 1
        /\ Cardinality(CountedIn(s))' = Cardinality(CountedIn(s)) - 1
    BY IdleRow, OneLeaves
  <1>9. /\ \A x : x # k => Holders(x)' = Holders(x)
        /\ Cardinality(Holders(k))' = Cardinality(Holders(k)) - held
    <2>1. \A d \in Callers \ {c} : caller'[d].pc = "holding" <=> caller[d].pc = "holding"
      OBVIOUS
    <2>2. caller'[c].pc # "holding"
      BY IdleRow
    <2>3. Cardinality(Holders(k)) \in Nat
      BY <1>2, <1>3
    <2>4. QED
      BY <2>1, <2>2, <2>3, HoldersMove
  <1>10. TypeOK'
    BY <1>4, <1>5, <1>6, <1>7 DEF IInv, TypeOK
  <1>11. ASSUME NEW d \in Callers, d # c, caller[d].pc # "idle"
         PROVE  /\ connections'[ConnectionOf[d]] = connections[ConnectionOf[d]]
                /\ cooldowns'[ScopeOf[d]] = cooldowns[ScopeOf[d]]
    <2>1. ConnectionOf[d] \in Connections /\ ScopeOf[d] \in Scopes
      BY ConstantFacts
    <2>2. ASSUME ConnectionOf[d] = k
          PROVE  slots[a].refs # 1
      <3>1. d \in Counted(k) \ {c} /\ c \in Counted(k)
        BY <1>11, <2>2 DEF Counted
      <3>2. Cardinality(Counted(k) \ {c}) = Cardinality(Counted(k)) - 1
        BY <3>1, Sizes, CountedSubsets
      <3>3. Cardinality(Counted(k) \ {c}) \in Nat /\ Cardinality(Counted(k) \ {c}) # 0
        <4>1. Counted(k) \ {c} \in SUBSET Callers
          BY DEF Counted
        <4>2. QED
          BY <4>1, <3>1, Sizes
      <3>4. QED
        BY <3>2, <3>3, <1>2, <1>3
    <2>3. ASSUME ScopeOf[d] = s
          PROVE  quota[b].refs # 1
      <3>1. d \in CountedIn(s) \ {c} /\ c \in CountedIn(s)
        BY <1>11, <2>3 DEF CountedIn
      <3>2. Cardinality(CountedIn(s) \ {c}) = Cardinality(CountedIn(s)) - 1
        BY <3>1, Sizes, CountedSubsets
      <3>3. Cardinality(CountedIn(s) \ {c}) \in Nat /\ Cardinality(CountedIn(s) \ {c}) # 0
        <4>1. CountedIn(s) \ {c} \in SUBSET Callers
          BY DEF CountedIn
        <4>2. QED
          BY <4>1, <3>1, Sizes
      <3>4. QED
        BY <3>2, <3>3, <1>2, <1>3
    <2>4. QED
      BY <2>1, <2>2, <2>3, <1>2, <1>6, <1>7
  <1>12. PointersCurrent'
    <2> SUFFICES ASSUME NEW d \in Callers
                 PROVE  IF rest[d].pc = "idle" THEN rest[d] = Idle
                        ELSE /\ rest[d].slots # None /\ rest[d].slots = connections'[ConnectionOf[d]]
                             /\ rest[d].quota # None /\ rest[d].quota = cooldowns'[ScopeOf[d]]
      BY DEF PointersCurrent
    <2>1. CASE d = c
      BY <2>1, IdleRow
    <2>2. CASE d # c /\ caller[d].pc = "idle"
      BY <2>2 DEF IInv, PointersCurrent
    <2>3. CASE d # c /\ caller[d].pc # "idle"
      BY <2>3, <1>11 DEF IInv, PointersCurrent
    <2>4. QED
      BY <2>1, <2>2, <2>3
  <1>13. OwnCells'
    BY <1>1, <1>2, <1>6, <1>7 DEF IInv, OwnCells
  <1>14. SlotsExact'
    <2> SUFFICES ASSUME NEW x \in Connections, connections'[x] # None
                 PROVE  /\ slots'[connections'[x]].refs = Cardinality(Counted(x))'
                        /\ slots'[connections'[x]].active = Cardinality(Holders(x))'
      BY DEF SlotsExact
    <2>1. CASE x = k
      BY <2>1, <1>2, <1>4, <1>6, <1>8, <1>9
    <2>2. CASE x # k
      <3>1. connections'[x] = connections[x] /\ connections[x] \in Cells /\ connections[x] # a
        BY <2>2, <1>1, <1>2, <1>3, <1>6 DEF IInv, OwnCells
      <3>2. QED
        BY <3>1, <2>2, <1>4, <1>8, <1>9 DEF IInv, SlotsExact
    <2>3. QED
      BY <2>1, <2>2
  <1>15. QuotaExact'
    <2> SUFFICES ASSUME NEW x \in Scopes, cooldowns'[x] # None
                 PROVE  quota'[cooldowns'[x]].refs = Cardinality(CountedIn(x))'
      BY DEF QuotaExact
    <2>1. CASE x = s
      BY <2>1, <1>2, <1>5, <1>7, <1>8
    <2>2. CASE x # s
      <3>1. cooldowns'[x] = cooldowns[x] /\ cooldowns[x] \in Cells /\ cooldowns[x] # b
        BY <2>2, <1>1, <1>2, <1>3, <1>7 DEF IInv, OwnCells
      <3>2. QED
        BY <3>1, <2>2, <1>5, <1>8 DEF IInv, QuotaExact
    <2>3. QED
      BY <2>1, <2>2
  <1>16. PauseRegistered'
    <2> SUFFICES ASSUME NEW x \in Scopes, pause[x] > clock
                 PROVE  cooldowns'[x] # None /\ quota'[cooldowns'[x]].until >= pause[x]
      BY DEF PauseRegistered
    <2>1. cooldowns[x] # None /\ quota[cooldowns[x]].until >= pause[x] /\ pause[x] \in Nat
      BY RowFields DEF IInv, PauseRegistered
    <2>2. CASE x = s
      BY <2>1, <2>2, <1>2, <1>3, <1>5, <1>7, ConstantFacts
    <2>3. CASE x # s
      BY <2>1, <2>3, <1>3, <1>5, <1>7
    <2>4. QED
      BY <2>2, <2>3
  <1>17. SleepersTimed'
    <2> SUFFICES ASSUME NEW d \in Callers, rest[d].pc = "waiting", ~rest[d].woken
                 PROVE  \/ slots'[rest[d].slots].active = Slots
                        \/ rest[d].timer <= quota'[rest[d].quota].until
      BY DEF SleepersTimed
    <2>1. d # c
      BY IdleRow
    <2>2. held = 0 /\ rest[d] = caller[d]
      BY <2>1
    <2>3. caller[d].slots \in Cells /\ caller[d].quota \in Cells
      BY <2>2, CountedCaller
    <2>4. slots'[caller[d].slots].active = slots[caller[d].slots].active
      BY <2>2, <2>3, <1>3, <1>4
    <2>5. quota'[caller[d].quota].until = quota[caller[d].quota].until
      BY <2>3, <1>5
    <2>6. QED
      BY <2>2, <2>4, <2>5 DEF IInv, SleepersTimed
  <1>18. QED
    BY <1>10, <1>12, <1>13, <1>14, <1>15, <1>16, <1>17 DEF IInv

(* A waiting caller whose context has ended leaves. *)
LEMMA GiveUpIInv ==
  ASSUME IInv, NEW c \in Callers, GiveUp(c)
  PROVE  IInv'
  <1> DEFINE a == caller[c].slots
             rest == [caller EXCEPT ![c] = Idle]
  <1>1. caller[c].pc = "waiting" /\ Uncount(c) /\ caller' = rest /\ UNCHANGED <<clock, calls, pause>>
    BY DEF GiveUp, Awake
  <1>2. a \in Cells /\ caller \in [Callers -> CallerState]
        /\ slots \in [Cells -> [active: 0..Slots, refs: Nat]]
    BY <1>1, CountedCaller DEF IInv, TypeOK
  <1>3. slots' = [slots EXCEPT ![a] = [active |-> slots[a].active - 0, refs |-> slots[a].refs - 1]]
    <2>1. slots[a] = [active |-> slots[a].active, refs |-> slots[a].refs] /\ slots[a].active \in Int
      BY <1>2
    <2>2. slots' = [slots EXCEPT ![a] = [slots[a] EXCEPT !.refs = slots[a].refs - 1]]
      BY <1>2 DEF GiveUp
    <2>3. slots[a].active - 0 = slots[a].active
      BY <2>1
    <2> DEFINE n == slots[a].refs - 1
    <2> HIDE DEF n
    <2>4. [slots[a] EXCEPT !.refs = n] = [active |-> slots[a].active, refs |-> n]
      BY <2>1
    <2>5. QED
      BY <2>2, <2>3, <2>4 DEF n
  <1>4. /\ rest \in [Callers -> CallerState] /\ rest[c] = Idle
        /\ \A d \in Callers \ {c} : rest[d] = caller[d]
    BY <1>2, IdleRow
  <1> HIDE DEF rest
  <1>5. \A d \in Callers \ {c} :
          /\ rest[d].pc = caller[d].pc /\ rest[d].slots = caller[d].slots
          /\ rest[d].quota = caller[d].quota
          /\ caller[d].pc # "waiting" => rest[d] = caller[d]
          /\ rest[d].pc = "waiting" => rest[d].woken \/ (0 = 0 /\ rest[d] = caller[d])
    BY <1>4
  <1>6. 0 \in {0, 1} /\ (0 = 1 <=> caller[c].pc = "holding") /\ caller[c].pc # "idle"
    BY <1>1
  <1>7. QED
    BY <1>1, <1>3, <1>4, <1>5, <1>6, LeaveIInv

(* A caller gives its slot back and wakes the others. *)
LEMMA ReleaseIInv ==
  ASSUME IInv, NEW c \in Callers, Release(c)
  PROVE  IInv'
  <1> DEFINE a == caller[c].slots
             left == [caller EXCEPT ![c] = Idle]
             rest == Signalled(left)
  <1>1. caller[c].pc = "holding" /\ Uncount(c) /\ caller' = rest /\ UNCHANGED <<clock, calls, pause>>
    BY DEF Release
  <1>2. slots' = [slots EXCEPT ![a] = [active |-> slots[a].active - 1, refs |-> slots[a].refs - 1]]
    <2>1. a \in Cells /\ slots \in [Cells -> [active: 0..Slots, refs: Nat]]
      BY <1>1, CountedCaller DEF IInv, TypeOK
    <2>2. QED
      BY <2>1 DEF Release
  <1>3. left \in [Callers -> CallerState] /\ left[c] = Idle /\ \A d \in Callers \ {c} : left[d] = caller[d]
    BY IdleRow DEF IInv, TypeOK
  <1> HIDE DEF left
  <1>4. /\ rest \in [Callers -> CallerState] /\ rest[c] = Idle
        /\ \A d \in Callers \ {c} :
             /\ rest[d].pc = caller[d].pc /\ rest[d].slots = caller[d].slots
             /\ rest[d].quota = caller[d].quota
             /\ caller[d].pc # "waiting" => rest[d] = caller[d]
             /\ rest[d].pc = "waiting" => rest[d].woken
    BY <1>3, SignalledRows, IdleRow
  <1> HIDE DEF rest
  <1>5. QED
    BY <1>1, <1>2, <1>4, LeaveIInv

-----------------------------------------------------------------------------
(* The later of two times. *)
LEMMA PostponedFacts ==
  ASSUME NEW u \in Nat, NEW t \in Nat
  PROVE  /\ Postponed(u, t) \in Nat /\ Postponed(u, t) >= u /\ Postponed(u, t) >= t
  BY DEF Postponed

(* A provider asks for a pause: the entry of its scope keeps it, and whoever *)
(* set a timer to the old end is woken.                                     *)
LEMMA LimitedIInv ==
  ASSUME IInv, NEW c \in Callers, Limited(c)
  PROVE  IInv'
  <1> DEFINE z == ScopeOf[c]
             q == cooldowns[z]
  <1>1. /\ caller[c].pc = "holding"
        /\ UNCHANGED <<connections, cooldowns, slots, clock, calls>>
    BY DEF Limited
  <1>2. z \in Scopes /\ q \in Cells /\ q # None
    BY <1>1, CountedCaller, ConstantFacts
  <1>3. PICK h \in Headers :
          LET until == clock + RetryAfter(h)
          IN  /\ pause' = [pause EXCEPT ![z] = IF until > @ THEN until ELSE @]
              /\ IF q # None /\ Postponed(quota[q].until, until) # quota[q].until
                   THEN /\ quota' = [quota EXCEPT ![q].until = Postponed(@, until)]
                        /\ caller' = Signalled(caller)
                   ELSE UNCHANGED <<quota, caller>>
    BY DEF Limited
  <1> DEFINE until == clock + RetryAfter(h)
             p == Postponed(quota[q].until, until)
  <1>4. /\ quota \in [Cells -> [until: Nat, refs: Nat]] /\ quota[q].until \in Nat
        /\ caller \in [Callers -> CallerState] /\ clock \in Nat
        /\ pause \in [Scopes -> Nat] /\ pause[z] \in Nat
    BY <1>2, RowFields DEF IInv, TypeOK
  <1>5. until \in Nat
    BY <1>4, RetryAfterType, ConstantFacts
  <1>6. /\ pause' = [pause EXCEPT ![z] = IF until > pause[z] THEN until ELSE pause[z]]
        /\ p # quota[q].until => /\ quota' = [quota EXCEPT ![q].until = p]
                                 /\ caller' = Signalled(caller)
        /\ p = quota[q].until => quota' = quota /\ caller' = caller
    BY <1>2, <1>3, <1>4
  <1> HIDE DEF until
  <1>7. p \in Nat /\ p >= quota[q].until /\ p >= until
    BY <1>4, <1>5, PostponedFacts
  <1> HIDE DEF p
  <1>8. /\ quota' \in [Cells -> [until: Nat, refs: Nat]]
        /\ quota'[q].until = p
        /\ \A x \in Cells : quota'[x].refs = quota[x].refs /\ (x # q => quota'[x] = quota[x])
    <2>1. CASE p # quota[q].until
      BY <2>1, <1>2, <1>4, <1>6, <1>7
    <2>2. CASE p = quota[q].until
      BY <2>2, <1>4, <1>6
    <2>3. QED
      BY <2>1, <2>2
  <1>9. /\ caller' \in [Callers -> CallerState]
        /\ \A d \in Callers :
             /\ caller'[d].pc = caller[d].pc /\ caller'[d].slots = caller[d].slots
             /\ caller'[d].quota = caller[d].quota
             /\ caller[d].pc # "waiting" => caller'[d] = caller[d]
             /\ caller'[d].pc = "waiting" /\ ~caller'[d].woken => caller' = caller /\ quota' = quota
    BY <1>4, <1>6, SignalledRows
  <1>10. pause' \in [Scopes -> Nat]
    BY <1>4, <1>5, <1>6
  <1>11. TypeOK'
    BY <1>1, <1>8, <1>9, <1>10 DEF IInv, TypeOK
  <1>12. PointersCurrent' /\ OwnCells'
    BY <1>1, <1>9 DEF IInv, PointersCurrent, OwnCells
  <1>13. \A x : Counted(x)' = Counted(x) /\ CountedIn(x)' = CountedIn(x) /\ Holders(x)' = Holders(x)
    BY <1>9 DEF Counted, CountedIn, Holders
  <1>14. SlotsExact'
    BY <1>1, <1>13 DEF IInv, SlotsExact
  <1>15. QuotaExact'
    BY <1>1, <1>8, <1>13, RowFields DEF IInv, QuotaExact
  <1>16. PauseRegistered'
    <2> SUFFICES ASSUME NEW x \in Scopes, pause'[x] > clock
                 PROVE  cooldowns[x] # None /\ quota'[cooldowns[x]].until >= pause'[x]
      BY <1>1 DEF PauseRegistered
    <2>1. CASE x = z
      <3>1. pause'[z] = IF until > pause[z] THEN until ELSE pause[z]
        BY <1>2, <1>4, <1>6
      <3>2. CASE until > pause[z]
        BY <3>1, <3>2, <2>1, <1>2, <1>7, <1>8
      <3>3. CASE ~(until > pause[z])
        <4>1. quota[q].until >= pause[z]
          BY <3>1, <3>3, <2>1, <1>2 DEF IInv, PauseRegistered
        <4>2. QED
          BY <4>1, <3>1, <3>3, <2>1, <1>2, <1>4, <1>7, <1>8
      <3>4. QED
        BY <3>2, <3>3
    <2>2. CASE x # z
      <3>1. pause'[x] = pause[x]
        BY <2>2, <1>4, <1>6
      <3>2. cooldowns[x] # None /\ quota[cooldowns[x]].until >= pause[x]
        BY <3>1 DEF IInv, PauseRegistered
      <3>3. cooldowns[x] \in Cells /\ cooldowns[x] # q
        BY <3>2, <2>2, <1>2, RowFields DEF IInv, OwnCells
      <3>4. QED
        BY <3>1, <3>2, <3>3, <1>8
    <2>3. QED
      BY <2>1, <2>2
  <1>17. SleepersTimed'
    BY <1>1, <1>9 DEF IInv, SleepersTimed
  <1>18. QED
    BY <1>11, <1>12, <1>14, <1>15, <1>16, <1>17 DEF IInv

-----------------------------------------------------------------------------
(* What the sweep keeps: the entry of every caller that is counted. *)
LEMMA SweptKeepsCounted ==
  ASSUME IInv, NEW d \in Callers, caller[d].pc # "idle"
  PROVE  /\ Swept[ScopeOf[d]] = cooldowns[ScopeOf[d]]
         /\ Swept[ScopeOf[d]] # None
         /\ caller[d].quota = Swept[ScopeOf[d]]
  <1>1. d \in CountedIn(ScopeOf[d]) /\ ScopeOf[d] \in Scopes
    BY ConstantFacts DEF CountedIn
  <1>2. Swept[ScopeOf[d]] # None
    BY <1>1, SweptFacts
  <1>3. QED
    BY <1>1, <1>2, SweptFacts, CountedCaller

(* The address of a connection's entry is its own, registered or new. *)
LEMMA SlotsAtFacts ==
  ASSUME IInv, NEW c \in Callers, ~Refused(c)
  PROVE  /\ SlotsAt(c) \in Cells
         /\ connections[ConnectionOf[c]] # None => SlotsAt(c) = connections[ConnectionOf[c]]
         /\ \A x \in Connections : x # ConnectionOf[c] => connections[x] # SlotsAt(c)
  <1> DEFINE k == ConnectionOf[c]
  <1>1. k \in Connections /\ connections \in [Connections -> Cells \cup {None}]
    BY ConstantFacts DEF IInv, TypeOK
  <1>2. CASE connections[k] # None
    <2>1. SlotsAt(c) = connections[k]
      BY <1>2 DEF SlotsAt
    <2>2. QED
      BY <2>1, <1>1, <1>2 DEF IInv, OwnCells
  <1>3. CASE connections[k] = None
    <2> DEFINE used == InUse(connections) \cup {caller[d].slots : d \in Callers}
    <2>1. InUse(connections) = {connections[x] : x \in Connections}
      BY <1>1 DEF InUse
    <2>2. Size(connections) \in Nat
      <3>1. IsFiniteSet({x \in Connections : connections[x] # None})
        BY ConstantFacts, FS_Subset
      <3>2. QED
        BY <3>1, <1>1, FS_CardinalityType DEF Size
    <2>3. Size(connections) < MaxEntries
      BY <2>2, <1>3, ConstantFacts DEF Refused
    <2>4. PICK x \in Cells : x \notin {connections[y] : y \in Connections}
      BY <2>3, <1>1, ConstantFacts, FreeCell
    <2>5. \A d \in Callers : caller[d].slots # x
      <3> SUFFICES ASSUME NEW d \in Callers
                   PROVE  caller[d].slots # x
        OBVIOUS
      <3>1. CASE caller[d].pc = "idle"
        BY <3>1, <2>4, ConstantFacts DEF IInv, PointersCurrent, Idle
      <3>2. CASE caller[d].pc # "idle"
        BY <3>2, <2>4, ConstantFacts, CountedCaller
      <3>3. QED
        BY <3>1, <3>2
    <2>6. x \notin used
      BY <2>1, <2>4, <2>5
    <2>7. SlotsAt(c) = CHOOSE y \in Cells : y \notin used
      BY <1>3 DEF SlotsAt
    <2> HIDE DEF used
    <2>8. SlotsAt(c) \in Cells /\ SlotsAt(c) \notin used
      BY <2>6, <2>7
    <2>9. QED
      BY <2>1, <2>8, <1>3 DEF used
  <1>4. QED
    BY <1>2, <1>3

(* The address of a scope's entry is its own, registered or new. *)
LEMMA QuotaAtFacts ==
  ASSUME IInv, NEW c \in Callers, ~Refused(c)
  PROVE  /\ QuotaAt(c) \in Cells
         /\ Swept[ScopeOf[c]] # None => QuotaAt(c) = Swept[ScopeOf[c]]
         /\ \A x \in Scopes : x # ScopeOf[c] => Swept[x] # QuotaAt(c)
  <1> DEFINE z == ScopeOf[c]
  <1>1. z \in Scopes /\ Swept \in [Scopes -> Cells \cup {None}]
    BY ConstantFacts, SweptFacts
  <1>2. CASE Swept[z] # None
    <2>1. QuotaAt(c) = Swept[z]
      BY <1>2 DEF QuotaAt
    <2>2. QED
      BY <2>1, <1>1, <1>2, SweptFacts DEF IInv, OwnCells
  <1>3. CASE Swept[z] = None
    <2> DEFINE used == InUse(Swept) \cup {caller[d].quota : d \in Callers}
    <2>1. InUse(Swept) = {Swept[x] : x \in Scopes}
      BY <1>1 DEF InUse
    <2>2. Size(Swept) \in Nat
      <3>1. IsFiniteSet({x \in Scopes : Swept[x] # None})
        BY ConstantFacts, FS_Subset
      <3>2. QED
        BY <3>1, <1>1, FS_CardinalityType DEF Size
    <2>3. Size(Swept) < MaxEntries
      BY <2>2, <1>3, ConstantFacts DEF Refused
    <2>4. PICK x \in Cells : x \notin {Swept[y] : y \in Scopes}
      BY <2>3, <1>1, ConstantFacts, FreeCell
    <2>5. \A d \in Callers : caller[d].quota # x
      <3> SUFFICES ASSUME NEW d \in Callers
                   PROVE  caller[d].quota # x
        OBVIOUS
      <3>1. CASE caller[d].pc = "idle"
        BY <3>1, <2>4, ConstantFacts DEF IInv, PointersCurrent, Idle
      <3>2. CASE caller[d].pc # "idle"
        BY <3>2, <2>4, ConstantFacts, SweptKeepsCounted
      <3>3. QED
        BY <3>1, <3>2
    <2>6. x \notin used
      BY <2>1, <2>4, <2>5
    <2>7. QuotaAt(c) = CHOOSE y \in Cells : y \notin used
      BY <1>3 DEF QuotaAt
    <2> HIDE DEF used
    <2>8. QuotaAt(c) \in Cells /\ QuotaAt(c) \notin used
      BY <2>6, <2>7
    <2>9. QED
      BY <2>1, <2>8, <1>3 DEF used
  <1>4. QED
    BY <1>2, <1>3

(* A caller is counted in, and enters or goes to sleep. *)
LEMMA EnterIInv ==
  ASSUME IInv, NEW c \in Callers, Enter(c)
  PROVE  IInv'
  <1> DEFINE k == ConnectionOf[c]
             z == ScopeOf[c]
             s == SlotsAt(c)
             q == QuotaAt(c)
             found == IF connections[k] = None THEN NoSlots ELSE slots[s]
             rate == IF Swept[z] = None THEN NoQuota ELSE quota[q]
             enters == MayEnter(found, rate)
             n == IF enters THEN found.active + 1 ELSE found.active
             w == IF enters THEN Holding(Entering(s, q)) ELSE Waiting(Entering(s, q), TimerOf(rate))
  <1>1. /\ caller[c].pc = "idle" /\ ~Refused(c)
        /\ connections' = [connections EXCEPT ![k] = s]
        /\ cooldowns' = [Swept EXCEPT ![z] = q]
        /\ slots' = [slots EXCEPT ![s] = [active |-> n, refs |-> found.refs + 1]]
        /\ quota' = [quota EXCEPT ![q] = [rate EXCEPT !.refs = @ + 1]]
        /\ caller' = [caller EXCEPT ![c] = w]
        /\ calls' = calls + 1 /\ clock' = clock /\ pause' = pause
    BY DEF Enter
  <1>2. /\ k \in Connections /\ z \in Scopes
        /\ s \in Cells /\ (connections[k] # None => s = connections[k])
        /\ \A x \in Connections : x # k => connections[x] # s
        /\ q \in Cells /\ (Swept[z] # None => q = Swept[z])
        /\ \A x \in Scopes : x # z => Swept[x] # q
    BY <1>1, ConstantFacts, SlotsAtFacts, QuotaAtFacts
  <1>3. /\ connections \in [Connections -> Cells \cup {None}]
        /\ Swept \in [Scopes -> Cells \cup {None}]
        /\ slots \in [Cells -> [active: 0..Slots, refs: Nat]]
        /\ quota \in [Cells -> [until: Nat, refs: Nat]]
        /\ caller \in [Callers -> CallerState]
        /\ clock \in Nat /\ pause \in [Scopes -> Nat]
    BY SweptFacts DEF IInv, TypeOK
  <1>4. /\ found.active \in 0..Slots /\ found.active = Cardinality(Holders(k))
        /\ found.refs \in Nat /\ found.refs = Cardinality(Counted(k))
    <2>1. CASE connections[k] = None
      BY <2>1, <1>2, ConstantFacts, UnregisteredIsEmpty DEF NoSlots
    <2>2. CASE connections[k] # None
      BY <2>2, <1>2, <1>3 DEF IInv, SlotsExact
    <2>3. QED
      BY <2>1, <2>2
  <1>5. /\ rate \in [until: Nat, refs: Nat] /\ rate.until \in Nat
        /\ rate.refs \in Nat /\ rate.refs = Cardinality(CountedIn(z))
        /\ pause[z] > clock => rate.until >= pause[z]
    <2>1. CASE Swept[z] = None
      BY <2>1, <1>2, <1>3, ConstantFacts, SweptFacts DEF NoQuota
    <2>2. CASE Swept[z] # None
      <3>1. q = cooldowns[z] /\ cooldowns[z] # None
        BY <2>2, <1>2, SweptFacts
      <3>2. QED
        BY <3>1, <2>2, <1>2, <1>3 DEF IInv, QuotaExact, PauseRegistered
    <2>3. QED
      BY <2>1, <2>2
  <1>6. /\ n \in 0..Slots /\ (enters => n = found.active + 1 /\ found.active # Slots)
        /\ (~enters => n = found.active)
    BY <1>4, ConstantFacts DEF MayEnter
  <1>7. ~enters => (found.active = Slots \/ TimerOf(rate) <= rate.until)
    <2>1. CASE rate.until > clock
      BY <2>1, <1>3, <1>5 DEF TimerOf
    <2>2. CASE ~(rate.until > clock)
      <3>1. ~enters => ~(found.active < Slots)
        BY <2>2, <1>3, <1>5 DEF MayEnter
      <3>2. QED
        BY <3>1, <1>4, ConstantFacts
    <2>3. QED
      BY <2>1, <2>2
  <1>8. /\ w \in CallerState /\ w.slots = s /\ w.quota = q
        /\ enters => w.pc = "holding"
        /\ ~enters => w.pc = "waiting" /\ w.timer = TimerOf(rate)
    <2> DEFINE t == TimerOf(rate)
               e == Entering(s, q)
    <2>1. t \in Nat
      BY <1>3, <1>5, TimerType
    <2> HIDE DEF t
    <2>2. e \in CallerState /\ e.slots = s /\ e.quota = q
      BY <2>1, <1>2, CallerRows, IdleRow
    <2> HIDE DEF e, s, q
    <2>3. /\ Holding(e) \in CallerState /\ Holding(e).pc = "holding"
          /\ Holding(e).slots = s /\ Holding(e).quota = q
          /\ Waiting(e, t) \in CallerState /\ Waiting(e, t).pc = "waiting"
          /\ Waiting(e, t).slots = s /\ Waiting(e, t).quota = q
          /\ Waiting(e, t).timer = t
      BY <2>1, <2>2, <1>2, CallerRows
    <2>4. w = IF enters THEN Holding(e) ELSE Waiting(e, t)
      BY DEF t, e, s, q
    <2> HIDE DEF w, enters
    <2>5. CASE enters
      BY <2>3, <2>4, <2>5
    <2>6. CASE ~enters
      BY <2>3, <2>4, <2>6 DEF t
    <2>7. QED
      BY <2>5, <2>6
  <1>9. /\ connections[k] # None => found = slots[s]
        /\ Swept[z] # None => rate = quota[q]
    OBVIOUS
  <1> HIDE DEF w, n, enters, found, rate, s, q
  <1>10. /\ slots' \in [Cells -> [active: 0..Slots, refs: Nat]]
         /\ slots'[s].active = n /\ slots'[s].refs = found.refs + 1
         /\ \A x \in Cells : x # s => slots'[x] = slots[x]
    BY <1>1, <1>2, <1>3, <1>4, <1>6
  <1>11. /\ quota' \in [Cells -> [until: Nat, refs: Nat]]
         /\ quota'[q].until = rate.until /\ quota'[q].refs = rate.refs + 1
         /\ \A x \in Cells : x # q => quota'[x] = quota[x]
    <2> DEFINE r == [rate EXCEPT !.refs = @ + 1]
    <2>1. r \in [until: Nat, refs: Nat] /\ r.until = rate.until /\ r.refs = rate.refs + 1
      BY <1>5
    <2> HIDE DEF r
    <2>2. quota' = [quota EXCEPT ![q] = r]
      BY <1>1 DEF r
    <2>3. QED
      BY <2>1, <2>2, <1>2, <1>3
  <1>12. /\ caller' \in [Callers -> CallerState]
         /\ caller'[c] = w
         /\ \A d \in Callers : d # c => caller'[d] = caller[d]
    BY <1>1, <1>3, <1>8
  <1>13. /\ connections' \in [Connections -> Cells \cup {None}]
         /\ connections'[k] = s
         /\ \A x \in Connections : x # k => connections'[x] = connections[x]
    BY <1>1, <1>2, <1>3
  <1>14. /\ cooldowns' \in [Scopes -> Cells \cup {None}]
         /\ cooldowns'[z] = q
         /\ \A x \in Scopes : x # z => cooldowns'[x] = Swept[x]
    BY <1>1, <1>2, <1>3
  <1>15. TypeOK'
    BY <1>1, <1>10, <1>11, <1>12, <1>13, <1>14 DEF IInv, TypeOK
  <1>16. w.pc # "idle" /\ (w.pc = "holding" <=> enters)
    BY <1>8
  <1>17. /\ \A x : x # k => Counted(x)' = Counted(x)
         /\ \A x : x # z => CountedIn(x)' = CountedIn(x)
         /\ Cardinality(Counted(k))' = Cardinality(Counted(k)) + 1
         /\ Cardinality(CountedIn(z))' = Cardinality(CountedIn(z)) + 1
    BY <1>1, <1>12, <1>16, OneComes
  <1>18. /\ \A x : x # k => Holders(x)' = Holders(x)
         /\ Cardinality(Holders(k))' = IF enters THEN Cardinality(Holders(k)) + 1
                                                 ELSE Cardinality(Holders(k))
    BY <1>1, <1>12, <1>16, HoldersMove
  <1>19. ASSUME NEW d \in Callers, d # c, caller[d].pc # "idle"
         PROVE  /\ caller[d].slots \in Cells /\ caller[d].slots = connections'[ConnectionOf[d]]
                /\ caller[d].quota \in Cells /\ caller[d].quota = cooldowns'[ScopeOf[d]]
                /\ slots[caller[d].slots].active = Slots => slots'[caller[d].slots].active = Slots
                /\ quota'[caller[d].quota].until = quota[caller[d].quota].until
    <2>1. /\ ConnectionOf[d] \in Connections /\ ScopeOf[d] \in Scopes
          /\ caller[d].slots \in Cells /\ caller[d].slots = connections[ConnectionOf[d]]
          /\ caller[d].quota \in Cells /\ caller[d].quota = Swept[ScopeOf[d]]
          /\ connections[ConnectionOf[d]] # None /\ Swept[ScopeOf[d]] # None
      BY <1>19, ConstantFacts, CountedCaller, SweptKeepsCounted
    <2>2. /\ caller[d].slots = connections'[ConnectionOf[d]]
          /\ slots[caller[d].slots].active = Slots => slots'[caller[d].slots].active = Slots
      <3>1. CASE ConnectionOf[d] = k
        BY <3>1, <2>1, <1>2, <1>6, <1>9, <1>10, <1>13
      <3>2. CASE ConnectionOf[d] # k
        BY <3>2, <2>1, <1>2, <1>10, <1>13
      <3>3. QED
        BY <3>1, <3>2
    <2>3. /\ caller[d].quota = cooldowns'[ScopeOf[d]]
          /\ quota'[caller[d].quota].until = quota[caller[d].quota].until
      <3>1. CASE ScopeOf[d] = z
        BY <3>1, <2>1, <1>2, <1>9, <1>11, <1>14
      <3>2. CASE ScopeOf[d] # z
        BY <3>2, <2>1, <1>2, <1>11, <1>14
      <3>3. QED
        BY <3>1, <3>2
    <2>4. QED
      BY <2>1, <2>2, <2>3
  <1>20. PointersCurrent'
    <2> SUFFICES ASSUME NEW d \in Callers
                 PROVE  IF caller'[d].pc = "idle" THEN caller'[d] = Idle
                        ELSE /\ caller'[d].slots # None
                             /\ caller'[d].slots = connections'[ConnectionOf[d]]
                             /\ caller'[d].quota # None
                             /\ caller'[d].quota = cooldowns'[ScopeOf[d]]
      BY DEF PointersCurrent
    <2>1. CASE d = c
      BY <2>1, <1>2, <1>8, <1>12, <1>13, <1>14, <1>16, ConstantFacts
    <2>2. CASE d # c /\ caller[d].pc = "idle"
      BY <2>2, <1>12 DEF IInv, PointersCurrent
    <2>3. CASE d # c /\ caller[d].pc # "idle"
      BY <2>3, <1>12, <1>19, ConstantFacts
    <2>4. QED
      BY <2>1, <2>2, <2>3
  <1>21. OwnCells'
    <2>1. \A x, y \in Connections : connections'[x] # None /\ connections'[x] = connections'[y] => x = y
      BY <1>2, <1>13 DEF IInv, OwnCells
    <2>2. \A x, y \in Scopes : Swept[x] # None /\ Swept[x] = Swept[y] => x = y
      BY SweptFacts DEF IInv, OwnCells
    <2>3. \A x, y \in Scopes : cooldowns'[x] # None /\ cooldowns'[x] = cooldowns'[y] => x = y
      BY <2>2, <1>2, <1>14
    <2>4. QED
      BY <2>1, <2>3 DEF OwnCells
  <1>22. SlotsExact'
    <2> SUFFICES ASSUME NEW x \in Connections, connections'[x] # None
                 PROVE  /\ slots'[connections'[x]].refs = Cardinality(Counted(x))'
                        /\ slots'[connections'[x]].active = Cardinality(Holders(x))'
      BY DEF SlotsExact
    <2>1. CASE x = k
      BY <2>1, <1>4, <1>6, <1>10, <1>13, <1>17, <1>18
    <2>2. CASE x # k
      <3>1. connections'[x] = connections[x] /\ connections[x] \in Cells /\ connections[x] # s
        BY <2>2, <1>2, <1>3, <1>13
      <3>2. QED
        BY <3>1, <2>2, <1>10, <1>17, <1>18 DEF IInv, SlotsExact
    <2>3. QED
      BY <2>1, <2>2
  <1>23. QuotaExact'
    <2> SUFFICES ASSUME NEW x \in Scopes, cooldowns'[x] # None
                 PROVE  quota'[cooldowns'[x]].refs = Cardinality(CountedIn(x))'
      BY DEF QuotaExact
    <2>1. CASE x = z
      BY <2>1, <1>5, <1>11, <1>14, <1>17
    <2>2. CASE x # z
      <3>1. cooldowns'[x] = Swept[x] /\ Swept[x] \in Cells /\ Swept[x] # q /\ Swept[x] = cooldowns[x]
        BY <2>2, <1>2, <1>3, <1>14, SweptFacts
      <3>2. QED
        BY <3>1, <2>2, <1>11, <1>17 DEF IInv, QuotaExact
    <2>3. QED
      BY <2>1, <2>2
  <1>24. PauseRegistered'
    <2> SUFFICES ASSUME NEW x \in Scopes, pause[x] > clock
                 PROVE  cooldowns'[x] # None /\ quota'[cooldowns'[x]].until >= pause[x]
      BY <1>1 DEF PauseRegistered
    <2>1. CASE x = z
      BY <2>1, <1>2, <1>5, <1>11, <1>14, ConstantFacts
    <2>2. CASE x # z
      <3>1. Swept[x] # None
        <4>1. ~(pause[x] <= clock)
          BY <1>3
        <4>2. QED
          BY <4>1, SweptFacts
      <3>2. cooldowns'[x] = Swept[x] /\ Swept[x] \in Cells /\ Swept[x] # q /\ Swept[x] = cooldowns[x]
        BY <3>1, <2>2, <1>2, <1>3, <1>14, SweptFacts
      <3>3. QED
        BY <3>1, <3>2, <1>11 DEF IInv, PauseRegistered
    <2>3. QED
      BY <2>1, <2>2
  <1>25. SleepersTimed'
    <2> SUFFICES ASSUME NEW d \in Callers, caller'[d].pc = "waiting", ~caller'[d].woken
                 PROVE  \/ slots'[caller'[d].slots].active = Slots
                        \/ caller'[d].timer <= quota'[caller'[d].quota].until
      BY DEF SleepersTimed
    <2>1. CASE d = c
      BY <2>1, <1>6, <1>7, <1>8, <1>10, <1>11, <1>12
    <2>2. CASE d # c
      <3>1. caller'[d] = caller[d] /\ caller[d].pc = "waiting" /\ ~caller[d].woken
        BY <2>2, <1>12
      <3>2. \/ slots[caller[d].slots].active = Slots
            \/ caller[d].timer <= quota[caller[d].quota].until
        BY <3>1 DEF IInv, SleepersTimed
      <3>3. QED
        BY <3>1, <3>2, <2>2, <1>19
    <2>3. QED
      BY <2>1, <2>2
  <1>26. QED
    BY <1>15, <1>20, <1>21, <1>22, <1>23, <1>24, <1>25 DEF IInv

-----------------------------------------------------------------------------
(* Every step keeps the invariant. *)
LEMMA NextIInv == IInv /\ [Next]_vars => IInv'
  <1> SUFFICES ASSUME IInv, [Next]_vars
               PROVE  IInv'
    OBVIOUS
  <1>1. CASE Tick
    BY <1>1, TickIInv
  <1>2. ASSUME NEW c \in Callers, Refuse(c)
        PROVE  IInv'
    BY <1>2, RefuseIInv
  <1>3. ASSUME NEW c \in Callers, Enter(c)
        PROVE  IInv'
    BY <1>3, EnterIInv
  <1>4. ASSUME NEW c \in Callers, Resume(c)
        PROVE  IInv'
    BY <1>4, ResumeIInv
  <1>5. ASSUME NEW c \in Callers, GiveUp(c)
        PROVE  IInv'
    BY <1>5, GiveUpIInv
  <1>6. ASSUME NEW c \in Callers, Cancel(c)
        PROVE  IInv'
    BY <1>6, CancelIInv
  <1>7. ASSUME NEW c \in Callers, Release(c)
        PROVE  IInv'
    BY <1>7, ReleaseIInv
  <1>8. ASSUME NEW c \in Callers, Limited(c)
        PROVE  IInv'
    BY <1>8, LimitedIInv
  <1>9. CASE UNCHANGED vars
    <2>1. UNCHANGED <<connections, cooldowns, slots, quota, caller, clock, calls, pause>>
      BY <1>9 DEF vars
    <2>2. TypeOK' /\ PointersCurrent' /\ OwnCells'
      BY <2>1 DEF IInv, TypeOK, PointersCurrent, OwnCells
    <2>3. SlotsExact' /\ QuotaExact'
      BY <2>1 DEF IInv, SlotsExact, QuotaExact, Counted, Holders, CountedIn
    <2>4. PauseRegistered' /\ SleepersTimed'
      BY <2>1 DEF IInv, PauseRegistered, SleepersTimed
    <2>5. QED
      BY <2>2, <2>3, <2>4 DEF IInv
  <1>10. QED
    BY <1>1, <1>2, <1>3, <1>4, <1>5, <1>6, <1>7, <1>8, <1>9 DEF Next

(* The counters of every registered entry count, no two entries share a     *)
(* cell, pauses are registered and sleepers timed, for every number of      *)
(* callers and whatever the interleaving of acquire, release and postpone.  *)
THEOREM BudgetInvariant == Spec => []IInv
  <1>1. Init => IInv
    BY InitIInv
  <1>2. IInv /\ [Next]_vars => IInv'
    BY NextIInv
  <1>3. QED
    BY <1>1, <1>2, PTL DEF Spec

(* Registries, cells and callers keep their types; in particular the active *)
(* counter of no cell ever goes below zero or above the slots.              *)
THEOREM BudgetTypeCorrect == Spec => []TypeOK
  <1>1. IInv => TypeOK
    BY DEF IInv
  <1>2. QED
    BY <1>1, BudgetInvariant, PTL

(* No connection ever has more calls in progress than slots, also when its  *)
(* entry was forgotten and made anew (acquire and its release).             *)
THEOREM SlotsRespected == Spec => []TwoCallsAtMost
  <1>1. ASSUME IInv
        PROVE  TwoCallsAtMost
    <2> SUFFICES ASSUME NEW k \in Connections
                 PROVE  Cardinality(Holders(k)) <= Slots
      BY DEF TwoCallsAtMost, Holders
    <2>1. CASE connections[k] = None
      BY <2>1, <1>1, UnregisteredIsEmpty, ConstantFacts
    <2>2. CASE connections[k] # None
      <3>1. connections[k] \in Cells /\ slots[connections[k]].active = Cardinality(Holders(k))
        BY <2>2, <1>1, RowFields DEF IInv, SlotsExact
      <3>2. QED
        BY <3>1, <1>1, RowFields DEF IInv
    <2>3. QED
      BY <2>1, <2>2
  <1>2. QED
    BY <1>1, BudgetInvariant, PTL

(* No wake-up is lost: a caller sleeps on only while its slots are taken or *)
(* its scope is paused (the wait of acquire, signal).                       *)
THEOREM NoWakeUpLost == Spec => []SleepersHaveCause
  <1>1. ASSUME IInv
        PROVE  SleepersHaveCause
    <2> SUFFICES ASSUME NEW c \in Callers, caller[c].pc = "waiting", ~Awake(caller[c])
                 PROVE  \/ slots[caller[c].slots].active = Slots
                        \/ quota[caller[c].quota].until > clock
      BY DEF SleepersHaveCause
    <2>1. ~caller[c].woken /\ ~(clock >= caller[c].timer)
      BY DEF Awake
    <2>2. \/ slots[caller[c].slots].active = Slots
          \/ caller[c].timer <= quota[caller[c].quota].until
      BY <2>1, <1>1 DEF IInv, SleepersTimed
    <2>3. caller[c].quota \in Cells
      BY <1>1, CountedCaller
    <2>4. quota[caller[c].quota].until \in Nat /\ caller[c].timer \in Nat /\ clock \in Nat
      BY <2>3, <1>1, RowFields DEF IInv
    <2>5. QED
      BY <2>1, <2>2, <2>4
  <1>2. QED
    BY <1>1, BudgetInvariant, PTL

(* A caller that is let in by a registered or by a new entry finds its      *)
(* scope's pause over.                                                      *)
LEMMA EntersAfterPause ==
  ASSUME IInv, NEW c \in Callers,
         Enter(c) \/ Resume(c), caller[c].pc # "holding", caller'[c].pc = "holding"
  PROVE  pause[ScopeOf[c]] <= clock
  <1> DEFINE z == ScopeOf[c]
  <1>1. z \in Scopes /\ pause[z] \in Nat /\ clock \in Nat /\ caller \in [Callers -> CallerState]
    BY ConstantFacts, RowFields DEF IInv, TypeOK
  <1>2. CASE Resume(c)
    <2> DEFINE k == caller[c]
               enters == MayEnter(slots[k.slots], quota[k.quota])
    <2>1. k.pc = "waiting" /\ k \in CallerState
      BY <1>1, <1>2 DEF Resume, Awake
    <2>2. k.quota \in Cells /\ k.quota = cooldowns[z]
      BY <2>1, CountedCaller
    <2>3. quota[k.quota].until \in Nat /\ quota[k.quota] \in [until: Nat, refs: Nat]
      BY <2>2 DEF IInv, TypeOK
    <2>4. enters
      <3>1. SUFFICES ASSUME ~enters
                     PROVE  FALSE
        OBVIOUS
      <3>2. caller'[c] = Waiting(k, TimerOf(quota[k.quota]))
        BY <3>1, <1>1, <1>2 DEF Resume
      <3>3. Waiting(k, TimerOf(quota[k.quota])).pc = "waiting"
        BY <2>1, <2>2, <2>3, <1>1, TimerType, CallerRows
      <3>4. QED
        BY <3>2, <3>3
    <2>5. quota[cooldowns[z]].until <= clock
      BY <2>2, <2>4 DEF MayEnter
    <2>6. QED
      BY <2>2, <2>3, <2>5, <1>1 DEF IInv, PauseRegistered
  <1>3. CASE Enter(c)
    <2> DEFINE s == SlotsAt(c)
               q == QuotaAt(c)
               found == IF connections[ConnectionOf[c]] = None THEN NoSlots ELSE slots[s]
               rate == IF Swept[z] = None THEN NoQuota ELSE quota[q]
               enters == MayEnter(found, rate)
    <2>1. ~Refused(c) /\ (~enters => caller' = [caller EXCEPT ![c] = Waiting(Entering(s, q), TimerOf(rate))])
      BY <1>3 DEF Enter
    <2>2. s \in Cells /\ q \in Cells /\ (Swept[z] # None => q = Swept[z])
      BY <2>1, SlotsAtFacts, QuotaAtFacts
    <2>3. rate \in [until: Nat, refs: Nat] /\ rate.until \in Nat
      BY <2>2 DEF IInv, TypeOK, NoQuota
    <2>4. enters
      <3>1. SUFFICES ASSUME ~enters
                     PROVE  FALSE
        OBVIOUS
      <3>2. caller'[c] = Waiting(Entering(s, q), TimerOf(rate))
        BY <3>1, <2>1, <1>1
      <3> DEFINE e == Entering(s, q)
                 t == TimerOf(rate)
      <3>3. e \in CallerState /\ t \in Nat
        BY <2>2, <2>3, <1>1, TimerType, CallerRows, IdleRow
      <3> HIDE DEF e, t
      <3>4. Waiting(e, t).pc = "waiting"
        BY <3>3, <2>2, CallerRows, SMTT(30)
      <3>5. QED
        BY <3>2, <3>4 DEF e, t
    <2>5. rate.until <= clock
      BY <2>4 DEF MayEnter
    <2>6. CASE Swept[z] = None
      BY <2>6, <1>1, SweptFacts
    <2>7. CASE Swept[z] # None
      <3>1. q = cooldowns[z] /\ cooldowns[z] # None /\ quota[cooldowns[z]].until <= clock
        BY <2>2, <2>5, <2>7, <1>1, SweptFacts
      <3>2. QED
        BY <3>1, <2>3, <2>7, <1>1 DEF IInv, PauseRegistered
    <2>8. QED
      BY <2>6, <2>7
  <1>4. QED
    BY <1>2, <1>3

(* A step in which d does not act never gives d a slot. *)
LEMMA OnlyOwnStepsEnter ==
  ASSUME IInv, NEW d \in Callers, [Next]_vars, ~Enter(d), ~Resume(d),
         caller[d].pc # "holding"
  PROVE  caller'[d].pc # "holding"
  <1>1. caller \in [Callers -> CallerState]
    BY DEF IInv, TypeOK
  <1>2. CASE UNCHANGED caller
    BY <1>2
  <1>3. ASSUME NEW c \in Callers, c # d, Enter(c) \/ Resume(c)
        PROVE  caller'[d] = caller[d]
    BY <1>1, <1>3 DEF Enter, Resume
  <1>4. ASSUME NEW c \in Callers, GiveUp(c)
        PROVE  caller'[d].pc # "holding"
    BY <1>1, <1>4, IdleRow DEF GiveUp
  <1>5. ASSUME NEW c \in Callers, Cancel(c)
        PROVE  caller'[d].pc # "holding"
    BY <1>1, <1>5 DEF Cancel, CallerState
  <1>6. ASSUME NEW c \in Callers, Release(c)
        PROVE  caller'[d].pc # "holding"
    <2> DEFINE left == [caller EXCEPT ![c] = Idle]
    <2>1. left \in [Callers -> CallerState] /\ left[d].pc # "holding"
      BY <1>1, IdleRow
    <2>2. caller' = Signalled(left)
      BY <1>6 DEF Release
    <2> HIDE DEF left
    <2>3. QED
      BY <2>1, <2>2, SignalledRows
  <1>7. ASSUME NEW c \in Callers, Limited(c)
        PROVE  caller'[d].pc # "holding"
    <2>1. caller' = caller \/ caller' = Signalled(caller)
      BY <1>7 DEF Limited
    <2>2. QED
      BY <2>1, <1>1, SignalledRows
  <1>8. QED
    <2>1. Tick \/ UNCHANGED vars \/ (\E c \in Callers : Refuse(c)) => UNCHANGED caller
      BY DEF Tick, vars, Refuse
    <2>2. CASE Tick \/ UNCHANGED vars \/ (\E c \in Callers : Refuse(c))
      BY <2>1, <2>2, <1>2
    <2>3. CASE \E c \in Callers : Enter(c) \/ Resume(c)
      BY <2>3, <1>3
    <2>4. CASE \E c \in Callers : GiveUp(c) \/ Cancel(c) \/ Release(c) \/ Limited(c)
      BY <2>4, <1>4, <1>5, <1>6, <1>7
    <2>5. QED
      BY <2>2, <2>3, <2>4 DEF Next

(* A pause a provider asked for is kept by every later admission to the     *)
(* scope, of whatever connection, although entries are swept and forgotten  *)
(* (postpone, acquire).                                                     *)
THEOREM PausesKept == Spec => PauseIsKept
  <1>1. ASSUME IInv, [Next]_vars
        PROVE  [\A c \in Callers : caller[c].pc # "holding" /\ caller'[c].pc = "holding"
                                     => pause[ScopeOf[c]] <= clock]_vars
    BY <1>1, EntersAfterPause, OnlyOwnStepsEnter
  <1>2. QED
    BY <1>1, BudgetInvariant, PTL DEF Spec, PauseIsKept
=============================================================================
