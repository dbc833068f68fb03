-------------------------- MODULE MCDesignSession --------------------------
EXTENDS DesignSession

CONSTANTS f1, t1, w1, w2, decal1, decal2

MCDecals == <<decal1, decal2>>
MCContent == 0 .. MaxWork

Whole(c) == [Absent EXCEPT !.kind = "file", !.content = c, !.ownerReads = TRUE]
Empty == [n \in Names |-> Absent]

\* What a run starts with, and how much of its bounds is used already.
Plain ==
  [platform |-> "posix", entry |-> Whole(1), behind |-> Absent, work |-> 1,
   keepRunning |-> FALSE, lost |-> {}, events |-> MaxEvents, crashes |-> MaxCrashes]
Link == [Absent EXCEPT !.kind = "link"]
ReadOnly == [Whole(MaxWork) EXCEPT !.readOnly = TRUE]

Worlds ==
  { \* an edit and a request of the platform
    [Plain EXCEPT !.events = MaxEvents - 1],
    \* two requests where the application stays without a window
    [Plain EXCEPT !.keepRunning = TRUE, !.entry = Whole(MaxWork), !.work = MaxWork,
                  !.events = MaxEvents - 2],
    \* an edit and a crash
    [Plain EXCEPT !.crashes = MaxCrashes - 1],
    \* a design that was never saved
    [Plain EXCEPT !.entry = Absent],
    \* decals without a source
    [Plain EXCEPT !.work = MaxWork, !.lost = Missing],
    \* a read-only file, or a link to one, where a rename refuses it
    [Plain EXCEPT !.platform = "windows", !.entry = ReadOnly, !.work = MaxWork],
    [Plain EXCEPT !.platform = "windows", !.entry = Link, !.behind = ReadOnly,
                  !.work = MaxWork] }

MCInit ==
  /\ \E world \in Worlds :
       /\ platform = world.platform
       /\ disk = [Empty EXCEPT ![f1] = world.entry]
       /\ behind = [f \in File |-> world.behind]
       /\ settings = [keepRunning |-> world.keepRunning, lost |-> world.lost]
       /\ work = world.work
       /\ events = world.events
       /\ crashes = world.crashes
  /\ Init

MCSpec == MCInit /\ [][Next]_vars /\ Fairness
=============================================================================
