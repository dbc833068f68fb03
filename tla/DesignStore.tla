---------------------------- MODULE DesignStore ----------------------------
(* What saving promises of the design files: a request to replace a file     *)
(* either replaces the whole of it, at once, and is answered "done", or is   *)
(* answered "failed" with every file as it was.  A crash forgets the         *)
(* request; the file is then the old one or the new one, never half of it.   *)
CONSTANTS
  File,      \* the names of the design files
  Content,   \* the designs a file may hold
  Nothing    \* what a name without a readable whole design holds

VARIABLES
  store,     \* what reading each file gives
  request    \* the request under way: [at, file, content]

vars == <<store, request>>

Idle == [at |-> "idle", file |-> Nothing, content |-> Nothing]

Init ==
  /\ store \in [File -> Content \cup {Nothing}]
  /\ request = Idle

Ask(f) ==
  /\ request.at = "idle"
  /\ request' = [at |-> "asked", file |-> f, content |-> Nothing]
  /\ UNCHANGED store

\* The design to be stored is known once the file is asked for.
Give(c) ==
  /\ request.at = "asked"
  /\ request' = [at |-> "given", file |-> request.file, content |-> c]
  /\ UNCHANGED store

Commit ==
  /\ request.at = "given"
  /\ store' = [store EXCEPT ![request.file] = request.content]
  /\ request' = [request EXCEPT !.at = "done"]

Refuse ==
  /\ request.at \in {"asked", "given"}
  /\ request' = [request EXCEPT !.at = "failed"]
  /\ UNCHANGED store

\* The caller takes the answer.
Answered ==
  /\ request.at \in {"done", "failed"}
  /\ request' = Idle
  /\ UNCHANGED store

Crash ==
  /\ request' = Idle
  /\ UNCHANGED store

Next ==
  \/ \E f \in File : Ask(f)
  \/ \E c \in Content : Give(c)
  \/ Commit
  \/ Refuse
  \/ Answered
  \/ Crash

Spec == Init /\ [][Next]_vars
=============================================================================
