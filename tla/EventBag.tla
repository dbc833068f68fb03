------------------------------ MODULE EventBag ------------------------------
(***************************************************************************)
(* What the engine relies on in its event queue: a bag of events, of which *)
(* a first one can be taken.  FlightEngine uses it in this form.           *)
(***************************************************************************)
EXTENDS Naturals, Bags

CONSTANTS
    Events,     \* the events
    Rank,       \* event |-> its place in the order of compareTo()
    None        \* "no event"

VARIABLES
    events,     \* the queued events
    polled      \* what the last poll() gave

Init == /\ events = EmptyBag
        /\ polled = None

Add(e) == /\ events' = events (+) SetToBag({e})
          /\ UNCHANGED polled

TakeFirst(e) == /\ BagIn(e, events)
                /\ \A f \in BagToSet(events) : Rank[e] <= Rank[f]
                /\ events' = events (-) SetToBag({e})
                /\ polled' = e

FindEmpty == /\ events = EmptyBag
             /\ polled' = None
             /\ UNCHANGED events

Drop(e) == /\ BagIn(e, events)
           /\ events' = events (-) SetToBag({e})
           /\ UNCHANGED polled

DropAll == /\ events' = EmptyBag
           /\ UNCHANGED polled

Next == \/ \E e \in Events : Add(e) \/ TakeFirst(e) \/ Drop(e)
        \/ FindEmpty \/ DropAll

Spec == Init /\ [][Next]_<<events, polled>>
=============================================================================
