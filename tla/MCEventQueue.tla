---------------------------- MODULE MCEventQueue ----------------------------
(* EventQueue with events that tie with others and events that do not. *)
EXTENDS EventQueue, TLC

MCEvents == {"launch", "ignition", "twin", "burnout"}
MCRank == [launch |-> 1, ignition |-> 2, twin |-> 2, burnout |-> 3]
=============================================================================
