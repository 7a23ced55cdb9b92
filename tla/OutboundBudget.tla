--------------------------- MODULE OutboundBudget ---------------------------
(***************************************************************************)
(* The budget every provider call of a process passes through              *)
(* (backend/internal/platform/outbound/budget.go): two slots per           *)
(* connection, and a cooldown per quota scope that a 429 answer extends.   *)
(*                                                                         *)
(* Entries of both registries are heap cells.  A caller keeps pointers to  *)
(* the two cells it was counted in, and the registries forget a cell when  *)
(* nobody is counted in it any more.  One action is one critical section   *)
(* of the mutex, or something that happens outside it.                     *)
(*                                                                         *)
(* A caller is one use of acquire: a Call, or a client's request.  Work    *)
(* done in a Call takes no other slot if its client has the same scope,    *)
(* and is then part of the Call; with another scope, as the operations and *)
(* the adapters derive them, the request is a caller of its own that waits *)
(* for a second slot while the Call keeps the first.                       *)
(***************************************************************************)
EXTENDS Integers, FiniteSets

CONSTANTS
    Callers,          \* uses of acquire
    Within,           \* the Call in whose work a caller makes its request, or None
    Connections,
    Scopes,           \* quota identities derived by the adapters
    ConnectionOf,     \* the connection of each caller
    ScopeOf,          \* the quota scope of each caller
    Cells,            \* addresses of registry entries
    None,
    Slots,            \* calls at once per connection (2 in the code)
    MaxEntries,       \* size limit of each registry (1000 in the code)
    Patience,         \* longest wait before the slots are looked at again (30 s)
    MaxDelay,         \* longest cooldown (1 hour)
    Headers,          \* rate limit headers of 429 answers
    MaxTime,          \* bound: the clock
    MaxCalls          \* bound: calls made by all callers together

ASSUME BudgetAssumption ==
    /\ ConnectionOf \in [Callers -> Connections]
    /\ ScopeOf \in [Callers -> Scopes]
    /\ IsFiniteSet(Callers) /\ IsFiniteSet(Connections) /\ IsFiniteSet(Scopes)
    /\ Within \in [Callers -> Callers \cup {None}]
    /\ \A c \in Callers : Within[c] # None =>
         /\ ConnectionOf[Within[c]] = ConnectionOf[c]
         /\ ScopeOf[Within[c]] # ScopeOf[c]
         /\ Within[Within[c]] = None
    /\ None \notin Cells \cup Callers
    /\ IsFiniteSet(Cells) => Cardinality(Cells) >= MaxEntries
    /\ Slots \in Nat \ {0}
    /\ MaxEntries \in Nat
    /\ Patience \in Nat
    /\ MaxDelay \in Nat
    /\ Headers \subseteq [seconds: Int, date: Int, reset: Int]
    /\ MaxTime \in Nat
    /\ MaxCalls \in Nat

VARIABLES
    connections,   \* registry: the cell of each connection, or None
    cooldowns,     \* registry: the cell of each scope, or None
    slots,         \* connectionSlots cells
    quota,         \* quotaScope cells
    caller,        \* what each goroutine holds and waits for
    clock,
    calls,         \* calls made so far
    pause          \* history: until when the provider asked each scope to pause

vars == <<connections, cooldowns, slots, quota, caller, clock, calls, pause>>

-----------------------------------------------------------------------------
(* State *)

(* `slots' and `quota' are the pointers taken at entry; `woken' says that   *)
(* the `changed' channel the caller waits on has been closed; `timer' is    *)
(* when its timer fires; `ctx' whether its context is still live.           *)
CallerState == [pc: {"idle", "waiting", "holding"}, slots: Cells \cup {None},
                quota: Cells \cup {None}, woken: BOOLEAN, timer: Nat, ctx: BOOLEAN]

Idle == [pc |-> "idle", slots |-> None, quota |-> None, woken |-> FALSE,
         timer |-> 0, ctx |-> TRUE]

Entering(s, q) == [Idle EXCEPT !.slots = s, !.quota = q]
Holding(k) == [k EXCEPT !.pc = "holding", !.woken = FALSE, !.timer = 0]
Waiting(k, timer) == [k EXCEPT !.pc = "waiting", !.woken = FALSE, !.timer = timer]

NoSlots == [active |-> 0, refs |-> 0]
NoQuota == [until |-> 0, refs |-> 0]

Init ==
    /\ connections = [c \in Connections |-> None]
    /\ cooldowns = [s \in Scopes |-> None]
    /\ slots = [a \in Cells |-> NoSlots]
    /\ quota = [a \in Cells |-> NoQuota]
    /\ caller = [c \in Callers |-> Idle]
    /\ clock = 0
    /\ calls = 0
    /\ pause = [s \in Scopes |-> 0]

Size(registry) == Cardinality({x \in DOMAIN registry : registry[x] # None})

-----------------------------------------------------------------------------
(* The loop of acquire, in one critical section: give up, enter or wait.    *)

ForgetsInactive(k) == slots[k.slots].active <= 1
ForgetsCooling(k) == quota[k.quota].refs = 1

(* The entries that are forgotten when caller k is no longer counted.       *)
ForgetsSlots(k) == slots[k.slots].refs = 1
ForgetsQuota(k) == quota[k.quota].refs = 1 /\ quota[k.quota].until <= clock

Uncount(c) ==
    LET k == caller[c]
    IN  /\ quota' = [quota EXCEPT ![k.quota].refs = @ - 1]
        /\ cooldowns' = IF ForgetsQuota(k) THEN [cooldowns EXCEPT ![ScopeOf[c]] = None]
                                           ELSE cooldowns
        /\ connections' = IF ForgetsSlots(k) THEN [connections EXCEPT ![ConnectionOf[c]] = None]
                                             ELSE connections

MayEnterOneMore(s, q) == s.active <= Slots /\ q.until <= clock
TimerForgotten(q) == clock + MaxTime + 1

MayEnter(s, q) == s.active < Slots /\ q.until <= clock
TimerOf(q) == IF q.until > clock THEN q.until ELSE clock + Patience

-----------------------------------------------------------------------------
(* acquire, from its first lock: stale cooldowns are dropped, the limits of *)
(* the registries checked, missing entries made, the caller counted, and    *)
(* the loop run once.                                                       *)
Swept == [s \in Scopes |->
            IF cooldowns[s] # None /\ quota[cooldowns[s]].refs = 0
                                   /\ quota[cooldowns[s]].until <= clock
              THEN None ELSE cooldowns[s]]

Refused(c) ==
    \/ Swept[ScopeOf[c]] = None /\ Size(Swept) >= MaxEntries
    \/ connections[ConnectionOf[c]] = None /\ Size(connections) >= MaxEntries

InUse(registry) == {registry[x] : x \in DOMAIN registry}

(* The address of an entry: the one registered, or a free one.              *)
SlotsAt(c) == IF connections[ConnectionOf[c]] # None
                THEN connections[ConnectionOf[c]]
                ELSE CHOOSE a \in Cells : a \notin InUse(connections) \cup {caller[d].slots : d \in Callers}
QuotaAt(c) == IF Swept[ScopeOf[c]] # None
                THEN Swept[ScopeOf[c]]
                ELSE CHOOSE a \in Cells : a \notin InUse(Swept) \cup {caller[d].quota : d \in Callers}

(* A nested request is made while its Call holds a slot, and the Call ends  *)
(* after it.                                                                *)
Called(c) == Within[c] # None => caller[Within[c]].pc = "holding"
Nested(c) == {d \in Callers : Within[d] = c}

(* A caller refused by a limit leaves the sweep behind, and so does one     *)
(* whose context is over when it comes: it is counted and uncounted in one  *)
(* critical section, which forgets what it has just registered.             *)
Refuse(c) ==
    /\ caller[c].pc = "idle" /\ Called(c)
    /\ calls < MaxCalls
    /\ cooldowns' = Swept
    /\ calls' = calls + 1
    /\ UNCHANGED <<connections, slots, quota, caller, clock, pause>>

Enter(c) ==
    /\ caller[c].pc = "idle" /\ Called(c)
    /\ calls < MaxCalls
    /\ ~Refused(c)
    /\ LET s == SlotsAt(c)
           q == QuotaAt(c)
           found == IF connections[ConnectionOf[c]] = None THEN NoSlots ELSE slots[s]
           rate == IF Swept[ScopeOf[c]] = None THEN NoQuota ELSE quota[q]
           enters == MayEnter(found, rate)
       IN  /\ connections' = [connections EXCEPT ![ConnectionOf[c]] = s]
           /\ cooldowns' = [Swept EXCEPT ![ScopeOf[c]] = q]
           /\ slots' = [slots EXCEPT ![s] =
                          [active |-> IF enters THEN found.active + 1 ELSE found.active,
                           refs |-> found.refs + 1]]
           /\ quota' = [quota EXCEPT ![q] = [rate EXCEPT !.refs = @ + 1]]
           /\ caller' = [caller EXCEPT ![c] =
                           IF enters THEN Holding(Entering(s, q))
                                     ELSE Waiting(Entering(s, q), TimerOf(rate))]
    /\ calls' = calls + 1
    /\ UNCHANGED <<clock, pause>>

(* A waiting caller wakes when the channel it saw is closed, its timer      *)
(* fires or its context ends, and runs the loop again.                      *)
Awake(k) == k.pc = "waiting" /\ (k.woken \/ clock >= k.timer \/ ~k.ctx)

Resume(c) ==
    LET k == caller[c]
        enters == MayEnter(slots[k.slots], quota[k.quota])
    IN  /\ Awake(k) /\ k.ctx
        /\ slots' = [slots EXCEPT ![k.slots].active = IF enters THEN @ + 1 ELSE @]
        /\ caller' = [caller EXCEPT ![c] = IF enters THEN Holding(k)
                                           ELSE Waiting(k, TimerOf(quota[k.quota]))]
        /\ UNCHANGED <<connections, cooldowns, quota, clock, calls, pause>>

GiveUp(c) ==
    /\ Awake(caller[c]) /\ ~caller[c].ctx
    /\ Uncount(c)
    /\ slots' = [slots EXCEPT ![caller[c].slots].refs = @ - 1]
    /\ caller' = [caller EXCEPT ![c] = Idle]
    /\ UNCHANGED <<clock, calls, pause>>

(* The context of a caller ends, at its timeout or with its job's lease.    *)
Cancel(c) ==
    /\ caller[c].pc = "waiting" /\ caller[c].ctx
    /\ caller' = [caller EXCEPT ![c].ctx = FALSE]
    /\ UNCHANGED <<connections, cooldowns, slots, quota, clock, calls, pause>>

-----------------------------------------------------------------------------
SignalsNobody(ks) == ks

(* signal closes the channel all waiting callers hold.                      *)
Signalled(ks) == [d \in Callers |-> IF ks[d].pc = "waiting"
                                      THEN [ks[d] EXCEPT !.woken = TRUE] ELSE ks[d]]

(* The work is done and its responses closed: the slot is given back.       *)
Release(c) ==
    /\ caller[c].pc = "holding"
    /\ \A d \in Nested(c) : caller[d].pc = "idle"
    /\ Uncount(c)
    /\ slots' = [slots EXCEPT ![caller[c].slots] = [active |-> @.active - 1, refs |-> @.refs - 1]]
    /\ caller' = Signalled([caller EXCEPT ![c] = Idle])
    /\ UNCHANGED <<clock, calls, pause>>

(* The delay read from a 429 answer, 0 standing for an absent header: a     *)
(* number of seconds, else a date, else one second; later if an adapter     *)
(* found a reset time; never negative and never above the limit.            *)
RetryAfter(h) ==
    LET asked == IF h.seconds >= 0 THEN (IF h.seconds > MaxDelay THEN MaxDelay ELSE h.seconds)
                 ELSE IF h.date # 0 THEN h.date - clock
                 ELSE 1
        reset == h.reset - clock
        delay == IF reset > 0 /\ reset < MaxDelay /\ reset > asked THEN reset ELSE asked
    IN  IF delay < 0 THEN 0 ELSE IF delay > MaxDelay THEN MaxDelay ELSE delay

(* A 429 answer postpones the scope of the client that got it, which is the *)
(* nested one where there is one.  A caller may make several requests under *)
(* one slot and be limited more than once.                                  *)
Postponed(until, t) == IF t > until THEN t ELSE until

Limited(c) ==
    /\ caller[c].pc = "holding" /\ Nested(c) = {}
    /\ \E delay \in {RetryAfter(h) : h \in Headers} :
         LET until == clock + delay
             q == cooldowns[ScopeOf[c]]
         IN  /\ until <= MaxTime
             /\ pause' = [pause EXCEPT ![ScopeOf[c]] = IF until > @ THEN until ELSE @]
             /\ IF q # None /\ Postponed(quota[q].until, until) # quota[q].until
                  THEN /\ quota' = [quota EXCEPT ![q].until = Postponed(@, until)]
                       /\ caller' = Signalled(caller)
                  ELSE UNCHANGED <<quota, caller>>
    /\ UNCHANGED <<connections, cooldowns, slots, clock, calls>>

Tick ==
    /\ clock < MaxTime
    /\ clock' = clock + 1
    /\ UNCHANGED <<connections, cooldowns, slots, quota, caller, calls, pause>>

Next ==
    \/ Tick
    \/ \E c \in Callers :
         \/ Refuse(c) \/ Enter(c) \/ Resume(c) \/ GiveUp(c)
         \/ Cancel(c) \/ Release(c) \/ Limited(c)

Spec == Init /\ [][Next]_vars

(* Provider requests have a timeout, so that a slot is given back, and so   *)
(* have the Calls of operations, so that a nested request does not wait for *)
(* ever for a second slot; goroutines are scheduled; time passes.           *)
Fairness ==
    /\ WF_vars(Tick)
    /\ \A c \in Callers : WF_vars(Resume(c) \/ GiveUp(c)) /\ WF_vars(Release(c))
    /\ \A c \in Callers : Within[c] # None => WF_vars(Cancel(c))

FairSpec == Spec /\ Fairness

-----------------------------------------------------------------------------
(* Properties *)

TypeOK ==
    /\ connections \in [Connections -> Cells \cup {None}]
    /\ cooldowns \in [Scopes -> Cells \cup {None}]
    /\ slots \in [Cells -> [active: 0..Slots, refs: Nat]]
    /\ quota \in [Cells -> [until: Nat, refs: Nat]]
    /\ caller \in [Callers -> CallerState]
    /\ clock \in Nat /\ calls \in Nat
    /\ pause \in [Scopes -> Nat]

(* No connection ever has more than two slots taken, also when its          *)
(* entry was forgotten and made anew while others were waiting (acquire and *)
(* its release).                                                            *)
TwoCallsAtMost ==
    \A k \in Connections :
        Cardinality({c \in Callers : caller[c].pc = "holding" /\ ConnectionOf[c] = k}) <= Slots

(* A pause a provider asked for is kept by every later admission to the     *)
(* scope, of whatever connection, although entries are swept and forgotten  *)
(* and answers to older requests ask for shorter pauses (postpone, acquire).*)
PauseIsKept ==
    [][\A c \in Callers :
         caller[c].pc # "holding" /\ caller'[c].pc = "holding"
           => pause[ScopeOf[c]] <= clock]_vars

(* No wake-up is lost: a caller sleeps on only while its slots are taken or *)
(* its scope is paused, however releases, cancellations and postponements   *)
(* interleave with its going to sleep.                                      *)
SleepersHaveCause ==
    \A c \in Callers :
        caller[c].pc = "waiting" /\ ~Awake(caller[c])
          => \/ slots[caller[c].slots].active = Slots
             \/ quota[caller[c].quota].until > clock

(* With finitely many calls and pauses nobody waits for ever, not even for  *)
(* Calls that hold every slot and wait for a second one (acquire, RoundTrip,*)
(* and the timeouts of Inspect, Submit and Observe).                        *)
WaitersAreServed ==
    \A c \in Callers : caller[c].pc = "waiting" ~> caller[c].pc # "waiting"
=============================================================================
