--------------------------- MODULE MCUndoHistory ---------------------------
(* UndoHistory on small instances. *)
EXTENDS UndoHistory, TLC

CONSTANTS
  MaxModId,     \* the changes of the rocket a run looks at
  MaxHistory    \* the states of the history a run looks at

\* The bounds of the exploration: states beyond them are checked, not left.
WithinBounds ==
  /\ lastModId <= MaxModId
  /\ Len(history) <= MaxHistory

\* The values are compared with each other only.
ValueSymmetry ==
  Permutations(Designs) \cup Permutations(Settings)
    \cup Permutations(Results) \cup Permutations(Descriptions)
=============================================================================
