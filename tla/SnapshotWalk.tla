---------------------------- MODULE SnapshotWalk ----------------------------
(***************************************************************************)
(* Listing the snapshots of a Contabo account                              *)
(* (backend/internal/provider/contabo/snapshot.go, inventory.go).  The API *)
(* lists snapshots per instance, so that one walk nests a numbered walk    *)
(* over snapshots in a numbered walk over instances.  Between calls only   *)
(* the cursor remains: instance page, index in it, snapshot page, number   *)
(* of steps, and the instance expected at that index.  Instances and       *)
(* snapshots come and go while the walk goes on, and the provider may list *)
(* them in another order.                                                  *)
(*                                                                         *)
(* One action is one GET request, or a change at the provider.  Lists are  *)
(* in the provider's order; pages of a list are positions in it when it is *)
(* read.                                                                   *)
(***************************************************************************)
EXTENDS Integers, FiniteSets

CONSTANTS
    Instances,        \* instance ids
    Images,           \* snapshot ids within an instance
    InstanceRows,     \* rows of a page of instances (50 in the code)
    ImageRows,        \* rows of a page of snapshots (50 in the code)
    MaxSteps,         \* calls of a walk (100 in the code)
    Orders,           \* external: the orders in which the provider may list
    MaxChanges        \* bound: changes during a walk

VARIABLES
    account,    \* snapshots of every instance that exists
    order,      \* the provider's order: the rank of every id
    cursor,     \* the cursor string, or the defaults of an empty one
    page,       \* the instance page this call has read
    status,     \* where the walk is
    staged,     \* snapshots returned so far
    stayed,     \* history: snapshots that existed throughout the walk
    blind,      \* history: an instance went while the cursor named none
    shrunk,     \* history: a snapshot of the instance being read went
    overtaken,  \* history: something ahead of the cursor was listed behind it
    changes

vars ==
    <<account, order, cursor, page, status, staged, stayed, blind, shrunk, overtaken, changes>>

(* No instance has the id 0, with which the cursor says that it expects     *)
(* none.                                                                    *)
ConstantsOK ==
    /\ Instances \in SUBSET (Nat \ {0}) /\ IsFiniteSet(Instances)
    /\ Images \in SUBSET Int /\ IsFiniteSet(Images)
    /\ InstanceRows \in Nat \ {0} /\ ImageRows \in Nat \ {0}
    /\ Orders \in SUBSET [Instances \cup Images -> Int]
    /\ \A o \in Orders : \A x, y \in Instances \cup Images : o[x] = o[y] => x = y

-----------------------------------------------------------------------------
PositionIn(o, list, x) == Cardinality({y \in list : o[y] < o[x]})
Position(list, x) == PositionIn(order, list, x)
PageOf(list, size, n) == {x \in list : Position(list, x) \div size = n - 1}
Pages(list, size) == (Cardinality(list) + size - 1) \div size

Existing == DOMAIN account
Sources(n) == PageOf(Existing, InstanceRows, n)
Row(n, i) == {x \in Sources(n) : Position(Sources(n), x) = i}
At(n, i) == CHOOSE x \in Row(n, i) : TRUE
All(a) == UNION {{<<i, s>> : s \in a[i]} : i \in DOMAIN a}

Start == [ip |-> 1, index |-> 0, sp |-> 1, step |-> 1, expected |-> 0]
NoPage == [rows |-> 0, next |-> FALSE, id |-> 0, following |-> 0]

Init ==
    /\ \E exist \in SUBSET Instances : account \in [exist -> SUBSET Images]
    /\ order \in Orders
    /\ cursor = Start
    /\ page = NoPage
    /\ status = "sources"
    /\ staged = {}
    /\ stayed = All(account)
    /\ blind = FALSE
    /\ shrunk = FALSE
    /\ overtaken = FALSE
    /\ changes = 0

Ends(s) ==
    /\ status' = s
    /\ page' = NoPage
    /\ cursor' = Start

-----------------------------------------------------------------------------
(* The instance page of the cursor.  An empty one ends the walk only where  *)
(* no instance is expected; an index past its end, or another instance than *)
(* expected, fails it.                                                      *)
EmptyEnds == cursor.index = 0 /\ cursor.sp = 1 /\ cursor.expected = 0

Unexpected ==
    \/ cursor.index >= Cardinality(Sources(cursor.ip))
    \/ cursor.expected # 0 /\ cursor.expected \notin Row(cursor.ip, cursor.index)

(* A page past the end of a list that is not empty is an invalid response.  *)
ReadSources ==
    /\ status = "sources"
    /\ LET rows == Sources(cursor.ip)
           pages == Pages(Existing, InstanceRows)
       IN  \/ /\ Existing # {} /\ pages < cursor.ip
              /\ Ends("failed")
           \/ /\ Existing = {}
              /\ Ends(IF EmptyEnds THEN "complete" ELSE "failed")
           \/ /\ rows # {} /\ Unexpected
              /\ Ends("failed")
           \/ /\ rows # {} /\ ~Unexpected
              /\ page' = [rows |-> Cardinality(rows), next |-> pages > cursor.ip,
                          id |-> At(cursor.ip, cursor.index),
                          following |-> IF cursor.index + 1 < Cardinality(rows)
                                          THEN At(cursor.ip, cursor.index + 1) ELSE 0]
              /\ status' = "snapshots"
              /\ UNCHANGED cursor
    /\ UNCHANGED <<account, order, staged, stayed, blind, shrunk, overtaken, changes>>

(* The cursor after a snapshot page: the next page of the instance, else    *)
(* the next instance of the page, else the next page, of which no instance  *)
(* is known yet.                                                            *)
NextCursorSkipping(more) ==
    LET at == [cursor EXCEPT !.step = @ + 1]
    IN  IF more THEN [at EXCEPT !.sp = @ + 1, !.expected = page.id]
        ELSE IF cursor.index + 2 < page.rows
               THEN [at EXCEPT !.sp = 1, !.index = @ + 1, !.expected = page.following]
        ELSE [at EXCEPT !.sp = 1, !.index = 0, !.ip = @ + 1, !.expected = 0]

NextCursor(more) ==
    LET at == [cursor EXCEPT !.step = @ + 1]
    IN  IF more THEN [at EXCEPT !.sp = @ + 1, !.expected = page.id]
        ELSE IF cursor.index + 1 < page.rows
               THEN [at EXCEPT !.sp = 1, !.index = @ + 1, !.expected = page.following]
        ELSE [at EXCEPT !.sp = 1, !.index = 0, !.ip = @ + 1, !.expected = 0]

LastOfWalk(more) == ~more /\ cursor.index + 1 >= page.rows /\ ~page.next

(* The snapshot page of the instance.  It fails when the instance is gone   *)
(* or the page is past the end of the list, and at the limit of steps.      *)
ReadSnapshots ==
    /\ status = "snapshots"
    /\ LET id == page.id
           list == IF id \in Existing THEN account[id] ELSE {}
           pages == Pages(list, ImageRows)
           valid == id \in Existing /\ (pages >= cursor.sp \/ (cursor.sp = 1 /\ list = {}))
           more == pages > cursor.sp
       IN  \/ /\ ~valid
              /\ Ends("failed")
              /\ UNCHANGED staged
           \/ /\ valid /\ LastOfWalk(more)
              /\ Ends("complete")
              /\ staged' = staged \cup {<<id, s>> : s \in PageOf(list, ImageRows, cursor.sp)}
           \/ /\ valid /\ ~LastOfWalk(more) /\ cursor.step = MaxSteps
              /\ Ends("failed")
              /\ UNCHANGED staged
           \/ /\ valid /\ ~LastOfWalk(more) /\ cursor.step < MaxSteps
              /\ cursor' = NextCursor(more)
              /\ page' = NoPage
              /\ status' = "sources"
              /\ staged' = staged \cup {<<id, s>> : s \in PageOf(list, ImageRows, cursor.sp)}
    /\ UNCHANGED <<account, order, stayed, blind, shrunk, overtaken, changes>>

-----------------------------------------------------------------------------
(* External: the account changes.                                           *)
Walking == status \in {"sources", "snapshots"}

(* The next request reads a page the walk knows no instance of: the cursor  *)
(* names none, or the last instance of the page is being read.              *)
Unguided ==
    \/ status = "sources" /\ cursor.ip > 1 /\ cursor.expected = 0
    \/ status = "snapshots" /\ page.following = 0

Changed(a) ==
    /\ Walking
    /\ changes < MaxChanges
    /\ changes' = changes + 1
    /\ account' = a
    /\ stayed' = stayed \cap All(a)
    /\ UNCHANGED <<order, overtaken, cursor, page, status, staged>>

Remove(i) ==
    /\ i \in Existing
    /\ Changed([j \in Existing \ {i} |-> account[j]])
    /\ blind' = (blind \/ Unguided)
    /\ UNCHANGED shrunk

Create(i) ==
    /\ i \in Instances \ Existing
    /\ Changed([j \in Existing \cup {i} |-> IF j = i THEN {} ELSE account[j]])
    /\ UNCHANGED <<blind, shrunk>>

DeleteImage(i, s) ==
    /\ i \in Existing /\ s \in account[i]
    /\ Changed([account EXCEPT ![i] = @ \ {s}])
    /\ shrunk' = (shrunk \/ i \in {page.id, cursor.expected})
    /\ UNCHANGED blind

TakeImage(i, s) ==
    /\ i \in Existing /\ s \in Images \ account[i]
    /\ Changed([account EXCEPT ![i] = @ \cup {s}])
    /\ UNCHANGED <<blind, shrunk>>

(* The walk has still to read the instances listed after the one it is at   *)
(* or goes to, the later pages where it knows none, and the later snapshots *)
(* of its instance.  Another order may list some of these earlier.          *)
ListedAfter(o, e) == {x \in Existing : o[x] > o[e]}
OnPagesAfter(o, list, size, n) == {x \in list : PositionIn(o, list, x) >= n * size}
PagesPassed == IF status = "sources" THEN cursor.ip - 1 ELSE cursor.ip

Overtakes(o) ==
    \/ \E e \in {page.id, page.following, cursor.expected} \ {0} :
         ~(ListedAfter(order, e) \subseteq ListedAfter(o, e))
    \/ /\ Unguided
       /\ ~(OnPagesAfter(order, Existing, InstanceRows, PagesPassed)
             \subseteq OnPagesAfter(o, Existing, InstanceRows, PagesPassed))
    \/ \E e \in {page.id, cursor.expected} \cap Existing :
         ~(OnPagesAfter(order, account[e], ImageRows, cursor.sp - 1)
             \subseteq OnPagesAfter(o, account[e], ImageRows, cursor.sp - 1))

Reorder(o) ==
    /\ Walking
    /\ changes < MaxChanges
    /\ changes' = changes + 1
    /\ order' = o
    /\ overtaken' = (overtaken \/ Overtakes(o))
    /\ UNCHANGED <<account, cursor, page, status, staged, stayed, blind, shrunk>>

Next ==
    \/ ReadSources \/ ReadSnapshots
    \/ \E o \in Orders : Reorder(o)
    \/ \E i \in Instances :
         Remove(i) \/ Create(i) \/ \E s \in Images : DeleteImage(i, s) \/ TakeImage(i, s)

Spec == Init /\ [][Next]_vars

-----------------------------------------------------------------------------
(* Properties *)

(* A walk that completes returned every snapshot that existed throughout,   *)
(* however instances were added, removed or reordered, with three limits:   *)
(* an instance that goes while the cursor names none, a snapshot that goes  *)
(* from the instance being read, and another order that lists behind the    *)
(* cursor what was ahead of it.  The comment of SnapshotPage says that      *)
(* reordered sources fail closed; the expected instance, all it compares,   *)
(* shows a reordering that moves that instance to another row, and not one  *)
(* that exchanges what is before it with what is after it.  Outside these   *)
(* limits publication never deletes what was merely not returned            *)
(* (SnapshotPage and its cursor).                                           *)
WalkIsExact ==
    status = "complete" /\ ~blind /\ ~shrunk /\ ~overtaken => stayed \subseteq staged
=============================================================================
