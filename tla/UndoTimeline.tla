---------------------------- MODULE UndoTimeline ----------------------------
(***************************************************************************)
(* What undo and redo promise a user: the document has a present content,  *)
(* the contents that undo goes back through and the contents that redo     *)
(* brings back.  OpenRocketDocument keeps one list with a position, a      *)
(* clean and a dirty state and descriptions; UndoHistory shows that the    *)
(* list implements this timeline.                                          *)
(***************************************************************************)
EXTENDS Naturals, Sequences

CONSTANTS
  Contents,    \* the contents a document may have
  UndoLevels   \* the steps that a purge leaves undo to go back through

VARIABLES
  past,     \* the contents undo restores, the last one first
  present,  \* the content of the document
  future    \* the contents redo restores, the first one first

vars == <<past, present, future>>

Last(s)  == s[Len(s)]
Front(s) == SubSeq(s, 1, Len(s) - 1)

Init ==
  /\ past = << >>
  /\ present \in Contents
  /\ future = << >>

\* A change, or one that goes on with the step made last, abandons the future.
Change ==
  /\ past' \in {past, Append(past, present)}
  /\ present' \in Contents
  /\ future' = << >>

\* A change that takes the step made last back by hand.
TakeBack ==
  /\ past # << >>
  /\ past' = Front(past)
  /\ present' = Last(past)
  /\ future' = << >>

Undo ==
  /\ past # << >>
  /\ past' = Front(past)
  /\ present' = Last(past)
  /\ future' = <<present>> \o future

Redo ==
  /\ future # << >>
  /\ past' = Append(past, present)
  /\ present' = Head(future)
  /\ future' = Tail(future)

\* The oldest steps are forgotten, never the last UndoLevels ones.
Purge ==
  /\ \E oldest \in 2..(Len(past) + 1 - UndoLevels) :
        past' = SubSeq(past, oldest, Len(past))
  /\ UNCHANGED <<present, future>>

Clear ==
  /\ past' = << >>
  /\ future' = << >>
  /\ UNCHANGED present

Next == Change \/ TakeBack \/ Undo \/ Redo \/ Purge \/ Clear

Spec == Init /\ [][Next]_vars
=============================================================================
