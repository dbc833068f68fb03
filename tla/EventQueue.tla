----------------------------- MODULE EventQueue -----------------------------
(***************************************************************************)
(* The queue of flight events (src/src/simulation/EventQueue.cpp): the     *)
(* binary heap of a Java PriorityQueue in an array, operation for          *)
(* operation, with the iterator that can remove what it returned.  The     *)
(* children of slot k are 2k and 2k + 1, counted from 1.                   *)
(*                                                                         *)
(* An event is a value with an identity; Rank is its place in the order of *)
(* compareTo(), which different events may share.  While an iterator is in *)
(* use the queue changes through the iterator only, since any other change *)
(* makes every later use of the iterator a bug.  The modification ids are  *)
(* left out.                                                               *)
(***************************************************************************)
EXTENDS Naturals, Sequences, FiniteSets, Bags, SequencesExt

CONSTANTS
    Events,     \* the events
    Rank,       \* event |-> its place in the order of compareTo()
    None,       \* "no event", "no iterator"
    MaxSize     \* bound of the queue

ASSUME RankAssumption == Rank \in [Events -> Nat]
ASSUME NoneAssumption == None \notin Events
ASSUME SizeAssumption == MaxSize \in Nat

VARIABLES
    queue,      \* m_events
    polled,     \* what the last poll() gave
    iterator    \* the iterator in use, with the history of its use

vars == <<queue, polled, iterator>>

-----------------------------------------------------------------------------
(* The heap.                                                                *)

(* Where e comes to stand when it moves up from slot k: below every parent  *)
(* that does not come after it.                                             *)
SiftUpTarget(q, k, e) ==
    LET target[j \in 1..k] ==
          IF j > 1 /\ Rank[e] < Rank[q[j \div 2]] THEN target[j \div 2] ELSE j
    IN target[k]

(* Slot k and the slots above it.                                           *)
AncestorsOf(k) ==
    LET ancestors[j \in 1..k] == {j} \cup (IF j = 1 THEN {} ELSE ancestors[j \div 2])
    IN ancestors[k]

PlaceUp(q, k, target, e) ==
    [i \in DOMAIN q |->
        IF i = target THEN e
        ELSE IF i \in AncestorsOf(k) /\ i > target THEN q[i \div 2] ELSE q[i]]

\* Mutants: the left child is always taken for the least; equal events change
\* places.
SiftDownPathLeft(q, k, e, n) ==
    LET path[j \in 1..n] ==
          IF 2 * j > n \/ Rank[e] <= Rank[q[2 * j]] THEN <<>> ELSE <<2 * j>> \o path[2 * j]
    IN path[k]

SiftDownPathThroughTies(q, k, e, n) ==
    LET path[j \in 1..n] ==
          LET child == IF 2 * j < n /\ Rank[q[2 * j]] > Rank[q[2 * j + 1]]
                       THEN 2 * j + 1 ELSE 2 * j
          IN IF 2 * j > n \/ Rank[e] < Rank[q[child]] THEN <<>> ELSE <<child>> \o path[child]
    IN path[k]

(* The children among the first n that move up to make way for e in slot k. *)
SiftDownPath(q, k, e, n) ==
    LET path[j \in 1..n] ==
          LET child == IF 2 * j < n /\ Rank[q[2 * j]] > Rank[q[2 * j + 1]]
                       THEN 2 * j + 1 ELSE 2 * j
          IN IF 2 * j > n \/ Rank[e] <= Rank[q[child]] THEN <<>> ELSE <<child>> \o path[child]
    IN path[k]

PlaceDown(q, k, path, e) ==
    LET slots == <<k>> \o path
    IN [i \in DOMAIN q |->
          IF i = Last(slots) THEN e
          ELSE IF \E j \in DOMAIN path : slots[j] = i
               THEN q[path[CHOOSE j \in DOMAIN path : slots[j] = i]]
               ELSE q[i]]

Offered(q, e) ==
    LET k == Len(q) + 1
    IN PlaceUp(Append(q, e), k, SiftUpTarget(q, k, e), e)

WithoutFirst(q) ==
    IF Len(q) = 1 THEN <<>>
    ELSE PlaceDown(Front(q), 1, SiftDownPath(q, 1, Last(q), Len(q) - 1), Last(q))

\* Mutant: the last event stays in the gap when it need not move down.
WithoutSlotByDown(q, i) ==
    IF i = Len(q) THEN Front(q)
    ELSE PlaceDown(Front(q), i, SiftDownPath(q, i, Last(q), Len(q) - 1), Last(q))

(* removeAt(): the last event fills the gap, and moves down or else up.     *)
WithoutSlot(q, i) ==
    LET path == SiftDownPath(q, i, Last(q), Len(q) - 1)
    IN IF i = Len(q) THEN Front(q)
       ELSE IF path # <<>> THEN PlaceDown(Front(q), i, path, Last(q))
       ELSE PlaceUp(Front(q), i, SiftUpTarget(q, i, Last(q)), Last(q))

\* Mutant: removeAt() never reports the event it moved up.
NeverMovesUp(q, i) == FALSE

(* Whether removeAt() moves the last event above the gap.                   *)
MovesUp(q, i) ==
    /\ i < Len(q)
    /\ SiftDownPath(q, i, Last(q), Len(q) - 1) = <<>>
    /\ SiftUpTarget(q, i, Last(q)) < i

(* The copy of a queue: the slots that have children, from the last to the  *)
(* first, are sifted down.                                                  *)
Heapified(q) ==
    LET n == Len(q)
        sifted[i \in 1..(n \div 2 + 1)] ==
            IF i > n \div 2 THEN q
            ELSE LET below == sifted[i + 1]
                 IN PlaceDown(below, i, SiftDownPath(below, i, below[i], n), below[i])
    IN sifted[1]

(* addAll() into an empty queue, as a new status fills its own.             *)
AddedAll(q) == FoldLeft(Offered, <<>>, q)

\* Mutant: the event is looked up by its place in the order.
FirstSlotOfEqual(q, e) == CHOOSE i \in DOMAIN q :
    Rank[q[i]] = Rank[e] /\ \A j \in 1..(i - 1) : Rank[q[j]] # Rank[e]

FirstSlotOf(q, e) == CHOOSE i \in DOMAIN q : q[i] = e /\ \A j \in 1..(i - 1) : q[j] # e

-----------------------------------------------------------------------------
(* The operations.                                                          *)

BagOf(s) == [e \in ToSet(s) |-> Cardinality({i \in DOMAIN s : s[i] = e})]
One(e) == SetToBag({e})

Init == /\ queue = <<>>
        /\ polled = None
        /\ iterator = None

Offer(e) ==
    /\ iterator = None
    /\ Len(queue) < MaxSize
    /\ queue' = Offered(queue, e)
    /\ UNCHANGED <<polled, iterator>>

Poll ==
    /\ iterator = None
    /\ IF queue = <<>>
       THEN polled' = None /\ UNCHANGED queue
       ELSE polled' = queue[1] /\ queue' = WithoutFirst(queue)
    /\ UNCHANGED iterator

RemoveEvent(e) ==
    /\ iterator = None
    /\ queue' = IF e \in ToSet(queue) THEN WithoutSlot(queue, FirstSlotOf(queue, e)) ELSE queue
    /\ UNCHANGED <<polled, iterator>>

Clear ==
    /\ iterator = None
    /\ queue' = <<>>
    /\ UNCHANGED <<polled, iterator>>

(* start, visited and removed are the history of the iteration.             *)
Iterate ==
    /\ iterator = None
    /\ iterator' = [cursor |-> 1, lastRet |-> 0, forgetMeNot |-> <<>>, lastElt |-> None,
                    movedAny |-> FALSE,
                    start |-> BagOf(queue), visited |-> EmptyBag, removed |-> EmptyBag]
    /\ UNCHANGED <<queue, polled>>

HasNext == iterator.cursor <= Len(queue) \/ iterator.forgetMeNot # <<>>

Visited(e) == iterator.visited (+) One(e)

NextInArray ==
    /\ iterator # None
    /\ iterator.cursor <= Len(queue)
    /\ iterator' = [iterator EXCEPT !.cursor = @ + 1, !.lastRet = iterator.cursor,
                                    !.visited = Visited(queue[iterator.cursor])]
    /\ UNCHANGED <<queue, polled>>

NextForgotten ==
    /\ iterator # None
    /\ iterator.cursor > Len(queue) /\ iterator.forgetMeNot # <<>>
    /\ LET e == Head(iterator.forgetMeNot)
       IN iterator' = [iterator EXCEPT !.lastRet = 0, !.lastElt = e, !.forgetMeNot = Tail(@),
                                       !.visited = Visited(e)]
    /\ UNCHANGED <<queue, polled>>

(* next() at the end fails, and forgets what was returned last once an      *)
(* event has been moved.                                                    *)
NextFails ==
    /\ iterator # None
    /\ ~HasNext /\ iterator.movedAny
    /\ iterator' = [iterator EXCEPT !.lastRet = 0, !.lastElt = None]
    /\ UNCHANGED <<queue, polled>>

RemoveReturned ==
    /\ iterator # None
    /\ iterator.lastRet # 0
    /\ LET i == iterator.lastRet
           moved == MovesUp(queue, i)
       IN /\ queue' = WithoutSlot(queue, i)
          /\ iterator' = [iterator EXCEPT
                !.lastRet = 0,
                !.cursor = IF moved THEN @ ELSE @ - 1,
                !.forgetMeNot = IF moved THEN Append(@, Last(queue)) ELSE @,
                !.movedAny = @ \/ moved,
                !.removed = @ (+) One(queue[i])]
    /\ UNCHANGED polled

RemoveForgotten ==
    /\ iterator # None
    /\ iterator.lastRet = 0 /\ iterator.lastElt # None
    /\ LET e == iterator.lastElt
       IN /\ queue' = IF e \in ToSet(queue)
                      THEN WithoutSlot(queue, FirstSlotOf(queue, e)) ELSE queue
          /\ iterator' = [iterator EXCEPT !.lastElt = None, !.removed = @ (+) One(e)]
    /\ UNCHANGED polled

(* The iterator is not used any more.                                       *)
Leave ==
    /\ iterator # None
    /\ iterator' = None
    /\ UNCHANGED <<queue, polled>>

Next == \/ \E e \in Events : Offer(e) \/ RemoveEvent(e)
        \/ Poll \/ Clear
        \/ Iterate \/ NextInArray \/ NextForgotten \/ NextFails
        \/ RemoveReturned \/ RemoveForgotten \/ Leave

Spec == Init /\ [][Next]_vars

-----------------------------------------------------------------------------
(* Properties.                                                              *)

(* No event comes before its parent, whatever was added, polled, removed    *)
(* and removed through an iterator: "the least by compareTo()" (poll()).    *)
HeapOrder == \A k \in 2..Len(queue) : Rank[queue[k \div 2]] <= Rank[queue[k]]

(* A copy of the queue, and a queue filled from it, have its array: events  *)
(* that compare equal come out of a branch's queue in the order in which    *)
(* they come out of the queue it was copied from.                           *)
CopiesKeepTheArray == Heapified(queue) = queue /\ AddedAll(queue) = queue

(* removeUnattachedEvents() looks at every event once: when the iterator    *)
(* has no next event, it has returned each of the events that were queued   *)
(* when it was made, although removals moved some of them past it.          *)
VisitsEveryEventOnce ==
    iterator # None /\ ~HasNext => iterator.visited = iterator.start

(* What the iterator removed is what it had returned, and nothing else      *)
(* leaves the queue: the event it removes last may have moved since.        *)
RemovesWhatItReturned ==
    iterator # None =>
        /\ iterator.removed \sqsubseteq iterator.visited
        /\ BagOf(queue) (+) iterator.removed = iterator.start

(* The queue is a bag of events of which a first one is taken.              *)
Bag == INSTANCE EventBag WITH events <- BagOf(queue)
ImplementsBag == Bag!Spec
=============================================================================
