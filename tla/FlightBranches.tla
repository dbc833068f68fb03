--------------------------- MODULE FlightBranches ---------------------------
(***************************************************************************)
(* What staging promises, whatever the events that bring it about: the     *)
(* stages of a rocket are simulated in branches.  The branch in flight may *)
(* split, keeping its upper stages and leaving the lower ones as the next  *)
(* branch; a branch that has ended is never taken up again.                *)
(***************************************************************************)
EXTENDS Integers, Sequences

CONSTANT AllStages      \* stage numbers

VARIABLES
    rocket,    \* the stages at launch
    flying,    \* the stages of the branch in flight, then of those waiting
    ended      \* the stages of the branches that have ended, in their order

Init == /\ rocket \in SUBSET AllStages
        /\ flying = <<rocket>>
        /\ ended = <<>>

Upper(b, n) == {k \in b : k < n}
Lower(b, n) == {k \in b : k >= n}

Split(n) == /\ flying # <<>>
            /\ n \in Head(flying) /\ n - 1 \in Head(flying)
            /\ flying' = <<Upper(Head(flying), n), Lower(Head(flying), n)>> \o Tail(flying)
            /\ UNCHANGED <<rocket, ended>>

End == /\ flying # <<>>
       /\ flying' = Tail(flying)
       /\ ended' = Append(ended, Head(flying))
       /\ UNCHANGED rocket

Next == End \/ \E n \in AllStages : Split(n)

Spec == Init /\ [][Next]_<<rocket, flying, ended>>

-----------------------------------------------------------------------------
(* Every stage of the rocket belongs to exactly one branch, waiting, flying *)
(* or ended: staging neither loses a stage nor simulates one twice.         *)
StagesFlyOnce ==
    LET branch == flying \o ended
    IN /\ \A k \in rocket : \E i \in DOMAIN branch : k \in branch[i]
       /\ \A i \in DOMAIN branch : branch[i] \subseteq rocket
       /\ \A i, j \in DOMAIN branch : i # j => branch[i] \cap branch[j] = {}
=============================================================================
