------------------------ MODULE MCSimulationResults ------------------------
EXTENDS SimulationResults

CONSTANTS core1, core2, booster1, c1, c2, o1, o2

\* Two core stages, the first with a strap-on stage.
MCTree ==
  [p \in Parent |->
     CASE p = Root  -> <<core1, core2>>
       [] p = core1 -> <<booster1>>
       [] OTHER     -> << >>]

\* How many steps of each kind are taken, and what the opened document has.
Steps(tree, configuration, simulation, history) ==
  [tree |-> tree, configuration |-> configuration, simulation |-> simulation,
   history |-> history]
Fresh == {NewSimulation(c1, o1)}
OfFile(r) ==
  {FromFile(r, c1, o1, "NotSimulated", FALSE)}
    \cup {FromFile(r, c1, o1, status, aborted) :
            status \in {"Loaded", "Outdated"}, aborted \in BOOLEAN}

Worlds ==
  { \* a step of every kind
    [left |-> Steps(1, 1, 1, 2), configurations |-> {c1}, sims |-> Fresh],
    \* configurations and simulations
    [left |-> Steps(0, 2, 1, 2), configurations |-> {c1}, sims |-> Fresh],
    \* two configurations from the start
    [left |-> Steps(0, 1, 2, 2), configurations |-> {c1, c2}, sims |-> Fresh],
    \* results before and after a change of the stages
    [left |-> Steps(1, 0, 2, 2), configurations |-> {c1}, sims |-> Fresh],
    \* changes of the stages around one of a configuration
    [left |-> Steps(2, 1, 0, 2), configurations |-> {c1}, sims |-> {None}],
    \* a simulation of the file
    [left |-> Steps(1, 0, 1, 2), configurations |-> {c1}, sims |-> OfFile(rocket)] }

MCInit ==
  /\ Init
  /\ \E world \in Worlds :
       /\ left = world.left
       /\ UserConfigurations = world.configurations
       /\ sim \in world.sims
       /\ rocket.selected = c1

MCSpec == MCInit /\ [][Next]_vars
=============================================================================
