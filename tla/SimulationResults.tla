-------------------------- MODULE SimulationResults --------------------------
(***************************************************************************)
(* Whether the results of a simulation are up to date: the stages and      *)
(* flight configurations of the rocket of a document (rocket/Rocket.cpp,   *)
(* FlightConfiguration.cpp, RocketComponent.cpp), one of its simulations   *)
(* (simulation/Simulation.cpp) and one state of its undo history           *)
(* (document/OpenRocketDocument.cpp), changed by what the user interface   *)
(* calls.                                                                  *)
(*                                                                         *)
(* Results are dated by the modification id of the flight configuration    *)
(* they were made with.  Ids are only compared for equality, so an id that *)
(* nobody holds may be drawn again: that of a configuration c is a pair    *)
(* <<c, k>>.  The other simulations of the document are left out; a load   *)
(* may therefore find as many simulations as the state has, or not.        *)
(***************************************************************************)
EXTENDS FlightConfigurations

CONSTANTS
  InitialTree,  \* the stages of a design when it is opened
  Option,       \* the options of a simulation
  None,         \* no simulation, no state
  Invalid,      \* ModId::invalid(): nothing was simulated
  MaxSteps      \* the most steps of each kind

ASSUME InitialTreeAssumption == IsTree(InitialTree)

VARIABLES
  rocket,   \* m_rocket
  frozen,   \* whether the rocket is frozen, and the part of moveFrozen() that runs
  held,     \* the stages moveFrozen() has removed and not yet added
  sim,      \* a simulation of m_simulations, or None
  state,    \* a state of m_undoHistory, or None
  left      \* the steps of each kind that may still be taken

vars == <<rocket, frozen, held, sim, state, left>>
-----------------------------------------------------------------------------
StepKinds == {"tree", "configuration", "simulation", "history"}

IdsOf(simulation) == IF simulation = None THEN {} ELSE {simulation.simId}

HeldIds ==
  {rocket.configs[c].modId : c \in DOMAIN rocket.configs}
    \cup IdsOf(sim) \cup (IF state = None THEN {} ELSE IdsOf(state.sim))

\* ModId{} for configuration c: an id nobody holds.
FreshId(c) ==
  LET free(k) == <<c, k>> \notin HeldIds
  IN  <<c, CHOOSE k \in 1..Cardinality(HeldIds) + 1 :
             free(k) /\ \A j \in 1..k - 1 : ~free(j)>>

\* updateConfigurationsModId().
Redrawn(r, ids) ==
  [r EXCEPT !.configs =
     [c \in DOMAIN r.configs |-> IF c \in ids THEN [r.configs[c] EXCEPT !.modId = FreshId(c)]
                                              ELSE r.configs[c]]]

\* fireComponentChangeEvent() of a functional change, once the rocket is r: the ids
\* change at once, the rest when the event is delivered.
FireFunctional(r, ids) ==
  rocket' = IF frozen = "thawed" THEN Updated(Redrawn(r, ids)) ELSE Redrawn(r, ids)

FireForAll(r) == FireFunctional(r, DOMAIN r.configs)

Spend(kind) ==
  /\ left[kind] > 0
  /\ left' = [left EXCEPT ![kind] = left[kind] - 1]
-----------------------------------------------------------------------------
(* The simulation. *)

\* What is flown: the stages, which of them are active, and the options.
Flown(r, active, options) == <<r.tree, active, options>>

FlaggedActive(r, c) ==
  {s \in InTree(r.tree) : IsStageActive(r, ConfigurationOf(r, c).flags, r.number[s])}
ChosenActive(r, c) == {s \in InTree(r.tree) : ConfigurationOf(r, c).chosen[s]}

NewSimulation(c, options) ==
  [config |-> c, options |-> options, simId |-> Invalid, simOptions |-> None,
   status |-> "NotSimulated", results |-> None, aborted |-> FALSE, doubt |-> FALSE]

\* A simulation of the file a document was opened from: without results, with results
\* the file calls outdated, or with others.  Outdated results, and those of an aborted
\* flight, whose status hides that they are outdated, may be of another design (`doubt`).
FromFile(r, c, options, status, aborted) ==
  [config |-> c, options |-> options, simId |-> r.configs[r.selected].modId,
   simOptions |-> options, status |-> status,
   results |-> IF status = "NotSimulated" THEN None
               ELSE Flown(r, FlaggedActive(r, c), options),
   aborted |-> aborted, doubt |-> aborted \/ status = "Outdated"]

ModIdOf(r, simulation) == ConfigurationOf(r, simulation.config).modId

\* isStatusUpToDate().  No simulation becomes EXTERNAL.
IsStatusUpToDate(status) == status \in {"UpToDate", "Loaded"}

\* What getStatus() finds before it looks for motors.
IsUpToDate(r, simulation) ==
  /\ IsStatusUpToDate(simulation.status)
  /\ ModIdOf(r, simulation) = simulation.simId
  /\ simulation.options = simulation.simOptions

AddSimulation ==
  /\ frozen = "thawed"
  /\ sim = None
  /\ \E options \in Option : sim' = NewSimulation(rocket.selected, options)
  /\ Spend("simulation")
  /\ UNCHANGED <<rocket, frozen, held, state>>

RemoveSimulation ==
  /\ frozen = "thawed"
  /\ sim # None
  /\ sim' = None
  /\ Spend("simulation")
  /\ UNCHANGED <<rocket, frozen, held, state>>

\* setFlightConfigurationId() of a configuration the rocket has.  Nothing tells that
\* results made with another configuration are out of date when both had the id zero.
SetFlightConfiguration(c) ==
  /\ frozen = "thawed"
  /\ sim # None /\ sim.config # c
  /\ sim' = [sim EXCEPT !.config = c,
                        !.doubt = \/ sim.doubt
                                  \/ IsStatusUpToDate(sim.status) /\ sim.simId = Zero]
  /\ Spend("simulation")
  /\ UNCHANGED <<rocket, frozen, held, state>>

SetOptions(options) ==
  /\ frozen = "thawed"
  /\ sim # None /\ sim.options # options
  /\ sim' = [sim EXCEPT !.options = options]
  /\ Spend("simulation")
  /\ UNCHANGED <<rocket, frozen, held, state>>

\* simulate() and recordSimulation(), also of a run that failed and has no data.  A
\* flight that was aborted has data with an event that says so (hasErrors()).
Simulate ==
  /\ frozen = "thawed"
  /\ sim # None
  /\ \E results \in
          {None, Flown(rocket, FlaggedActive(rocket, sim.config), sim.options)},
        aborted \in BOOLEAN :
       /\ aborted => results # None
       /\ sim' = [sim EXCEPT !.simId = ModIdOf(rocket, sim),
                             !.simOptions = sim.options,
                             !.status = "UpToDate",
                             !.results = results,
                             !.aborted = aborted,
                             !.doubt = FALSE]
  /\ Spend("simulation")
  /\ UNCHANGED <<rocket, frozen, held, state>>

\* getStatus(), which stores what it finds; the id of a simulation is never the error
\* id (setFlightConfigurationId() refuses it).  Motors are left out: a configuration
\* with an active stage may have some.
GetStatus ==
  /\ frozen = "thawed"
  /\ sim # None
  /\ \E motors \in BOOLEAN :
       /\ motors => FlaggedActive(rocket, sim.config) # {}
       /\ sim' = [sim EXCEPT !.status =
                    IF sim.aborted THEN "Aborted"
                    ELSE IF ~motors THEN "CantRun"
                    ELSE IF IsStatusUpToDate(@) /\ ~IsUpToDate(rocket, sim) THEN "Outdated"
                    ELSE @]
  /\ UNCHANGED <<rocket, frozen, held, state, left>>
-----------------------------------------------------------------------------
(* The stages. *)

\* A new stage has an id of its own: it is in no tree and no results.
FliesIn(simulation, s) ==
  simulation # None /\ simulation.results # None /\ s \in InTree(simulation.results[1])

Unused(s) ==
  /\ s \notin InTree(rocket.tree)
  /\ ~FliesIn(sim, s)
  /\ state # None => s \notin InTree(state.rocket.tree) /\ ~FliesIn(state.sim, s)

Accepts(parent, s) == s \in Core <=> parent = Root
Attached(parent)   == parent = Root \/ parent \in InTree(rocket.tree)

\* addChild() of a new stage.
AddStage(s, parent, i) ==
  /\ frozen = "thawed"
  /\ Unused(s) /\ Accepts(parent, s) /\ Attached(parent)
  /\ i \in 1..Len(rocket.tree[parent]) + 1
  /\ FireForAll(Linked(rocket, parent, i, s))
  /\ Spend("tree")
  /\ UNCHANGED <<frozen, held, sim, state>>

\* removeChild() of a stage, destroyed with what it carries.
RemoveStage(s) ==
  /\ frozen = "thawed"
  /\ s \in InTree(rocket.tree)
  /\ FireForAll(Destroyed(Unlinked(rocket, s), WithSubStages(rocket.tree, s)))
  /\ Spend("tree")
  /\ UNCHANGED <<frozen, held, sim, state>>

\* Mutant: the flags of the restored stages are those of new ones.
RemoveStageForgetful(s) ==
  /\ frozen = "thawed"
  /\ s \in InTree(rocket.tree)
  /\ LET parent    == ParentOf(rocket.tree, s)
         place     == PlaceOf(rocket.tree[parent], s)
         delivered == Updated(Unlinked(rocket, s))
     IN  FireForAll(Updated(Linked(delivered, parent, place, s)))
  /\ Spend("tree")
  /\ UNCHANGED <<frozen, held, sim, state>>

\* removeChild() when a listener of its event throws: the stage goes back to its
\* place with the flags it had.  (The ids drawn twice are drawn once here.)
RemoveStageFails(s) ==
  /\ frozen = "thawed"
  /\ s \in InTree(rocket.tree)
  /\ LET parent    == ParentOf(rocket.tree, s)
         place     == PlaceOf(rocket.tree[parent], s)
         delivered == Updated(Unlinked(rocket, s))
         restored  == Updated(Linked(delivered, parent, place, s))
     IN  FireForAll(Reactivated(restored, WithSubStages(rocket.tree, s), rocket))
  /\ Spend("tree")
  /\ UNCHANGED <<frozen, held, sim, state>>

\* moveChild().
MoveStage(s, i) ==
  LET parent == ParentOf(rocket.tree, s)
  IN  /\ frozen = "thawed"
      /\ s \in InTree(rocket.tree)
      /\ i \in DOMAIN rocket.tree[parent]
      /\ FireForAll([rocket EXCEPT !.tree[parent] = InsertAt(RemoveFirst(@, s), i, s)])
      /\ Spend("tree")
      /\ UNCHANGED <<frozen, held, sim, state>>

\* moveFrozen(), a drop in the component tree: freeze(), the removals, the additions
\* and thaw().  All that is dropped fits below one parent.
Freeze ==
  /\ frozen = "thawed"
  /\ frozen' = "removing"
  /\ Spend("tree")
  /\ UNCHANGED <<rocket, held, sim, state>>

TakeStage(s) ==
  /\ frozen = "removing"
  /\ s \in InTree(rocket.tree)
  /\ \A other \in ToSet(held) : other \in Core <=> s \in Core
  /\ FireForAll(Unlinked(rocket, s))
  /\ held' = Append(held, s)
  /\ UNCHANGED <<frozen, sim, state, left>>

PutStage(parent, i) ==
  /\ frozen # "thawed"
  /\ held # << >>
  /\ Accepts(parent, Head(held)) /\ Attached(parent)
  /\ i \in 1..Len(rocket.tree[parent]) + 1
  /\ FireForAll(Linked(rocket, parent, i, Head(held)))
  /\ held' = Tail(held)
  /\ frozen' = "adding"
  /\ UNCHANGED <<sim, state, left>>

\* thaw(): the queued events as one, unless there are none.  When an addition failed,
\* what is left of the removed stages is destroyed.
Thaw ==
  LET lost   == UNION {WithSubStages(rocket.tree, s) : s \in ToSet(held)}
      queued == frozen = "adding" \/ held # << >>
  IN  /\ frozen # "thawed"
      /\ rocket' = IF queued
                     THEN Destroyed(Updated(Redrawn(rocket, DOMAIN rocket.configs)), lost)
                     ELSE rocket
      /\ frozen' = "thawed"
      /\ held' = << >>
      /\ UNCHANGED <<sim, state, left>>
-----------------------------------------------------------------------------
(* The flight configurations. *)

\* FlightConfiguration::toggleStage(): the boosters of a stage follow it.
Toggled(r, c, s) ==
  LET active  == ~r.configs[c].flags[r.number[s]].active
      toggled == WithSubStages(r.tree, s)
  IN  [r EXCEPT !.configs[c].flags =
                  [n \in DOMAIN @ |-> IF \E x \in toggled : r.number[x] = n
                                        THEN [@[n] EXCEPT !.active = active]
                                        ELSE @[n]],
                !.configs[c].chosen =
                  [x \in Stage |-> IF x \in toggled THEN active ELSE @[x]]]

\* Mutant: a toggle leaves the modification id.
ToggleStageQuietly(s) ==
  /\ frozen = "thawed"
  /\ s \in InTree(rocket.tree)
  /\ rocket' = Updated(Toggled(rocket, rocket.selected, s))
  /\ Spend("configuration")
  /\ UNCHANGED <<frozen, held, sim, state>>

\* StageSelector::toggleStage(), and RocketActions::toggleActive() of one stage.
ToggleStage(s) ==
  /\ frozen = "thawed"
  /\ s \in InTree(rocket.tree)
  /\ FireFunctional(Toggled(rocket, rocket.selected, s), {rocket.selected})
  /\ Spend("configuration")
  /\ UNCHANGED <<frozen, held, sim, state>>

\* The random id of a new configuration.
UnusedConfiguration(c) ==
  /\ c \notin DOMAIN rocket.configs
  /\ state # None => c \notin DOMAIN state.rocket.configs

\* setFlightConfiguration(), setSelectedConfiguration(), addSimulation() (of the
\* simulation modelled here, or of another one) and the event of the motors.
AddConfiguration(c, configuration) ==
  /\ frozen = "thawed"
  /\ UnusedConfiguration(c)
  /\ LET r == [rocket EXCEPT
                 !.configs = [x \in DOMAIN @ \cup {c} |-> IF x = c THEN configuration ELSE @[x]],
                 !.selected = c]
     IN  FireFunctional(r, {c})
  /\ \/ UNCHANGED sim
     \/ sim = None /\ \E options \in Option : sim' = NewSimulation(c, options)
  /\ Spend("configuration")
  /\ UNCHANGED <<frozen, held, state>>

NewFlightConfiguration(c) == AddConfiguration(c, NewConfiguration(rocket))
DuplicateConfiguration(c, d) ==
  AddConfiguration(c, CopiedConfiguration(rocket, rocket.configs[d]))

\* Mutant: the removed configuration stays selected.
WithoutSelected(c) == [rocket EXCEPT !.configs = [x \in DOMAIN @ \ {c} |-> @[x]]]

\* removeFlightConfiguration(), up to the event.
Without(c) ==
  [rocket EXCEPT !.configs  = [x \in DOMAIN @ \ {c} |-> @[x]],
                 !.selected = IF @ = c THEN Default ELSE @]

\* Mutant: the simulations of the configuration stay.
RemoveConfigurationOnly(c) ==
  /\ frozen = "thawed"
  /\ rocket' = Updated(Without(c))
  /\ Spend("configuration")
  /\ UNCHANGED <<frozen, held, sim, state>>

\* removeFlightConfigurationAndSimulations().
RemoveConfiguration(c) ==
  /\ frozen = "thawed"
  /\ rocket' = Updated(Without(c))
  /\ sim' = IF sim # None /\ sim.config = c THEN None ELSE sim
  /\ Spend("configuration")
  /\ UNCHANGED <<frozen, held, state>>

SelectConfiguration(c) ==
  /\ frozen = "thawed"
  /\ rocket.selected # c
  /\ rocket' = Updated([rocket EXCEPT !.selected = c])
  /\ Spend("configuration")
  /\ UNCHANGED <<frozen, held, sim, state>>
-----------------------------------------------------------------------------
(* The undo history. *)

\* currentState(), for an undo position or for the undo of unsaved work.  A status
\* that getStatus() would find outdated is kept as it is stored.
TakeState ==
  /\ frozen = "thawed"
  /\ state' = [rocket |-> CopyOf(rocket),
               sim |-> IF sim = None THEN None
                       ELSE [sim EXCEPT !.doubt =
                               \/ sim.doubt
                               \/ /\ IsStatusUpToDate(sim.status)
                                  /\ sim.simId # ModIdOf(rocket, sim)]]
  /\ Spend("history")
  /\ UNCHANGED <<rocket, frozen, held, sim>>

\* Simulation::loadFrom(): results that are up to date take the new id.
LoadedInPlace(r, saved) ==
  IF IsStatusUpToDate(saved.status) THEN [saved EXCEPT !.simId = ModIdOf(r, saved)] ELSE saved

\* The other way of loadSimulationsFrom(), for a list of another length: a copy, whose
\* id is synchronised whatever its status (syncModId()).
LoadedAnew(r, saved) == [saved EXCEPT !.simId = ModIdOf(r, saved)]

\* The default configuration keeps its own flags, so results it had then may be of
\* other stages.
DefaultDiffers(r) ==
  ChosenActive(r, Default) # ChosenActive(state.rocket, Default)

\* loadStateAtPosition(): the rocket, then the simulations.  A configuration the
\* rocket lacks is created for its simulation.
LoadState ==
  /\ frozen = "thawed"
  /\ state # None
  /\ LET loaded == LoadedFrom(rocket, state.rocket)
         saved  == state.sim
         lacks  == saved # None /\ saved.config \notin DOMAIN loaded.configs
         doubted(simulation) ==
           [simulation EXCEPT !.doubt =
              @ \/ (saved.config = Default /\ DefaultDiffers(loaded))]
     IN  \/ /\ saved = None
            /\ rocket' = loaded
            /\ sim' = None
         \/ /\ saved # None /\ sim # None
            /\ rocket' = loaded
            /\ sim' = doubted(LoadedInPlace(loaded, saved))
         \/ /\ saved # None
            /\ IF lacks
                 THEN FireForAll([loaded EXCEPT !.configs =
                        [c \in DOMAIN @ \cup {saved.config} |->
                           IF c = saved.config THEN NewConfiguration(loaded) ELSE @[c]]])
                 ELSE rocket' = loaded
            /\ sim' = doubted(LoadedAnew(rocket', saved))
  /\ Spend("history")
  /\ UNCHANGED <<frozen, held, state>>
-----------------------------------------------------------------------------
\* The rocket of a document that was opened: every stage is active.
Opened(configurations, selected) ==
  Updated([tree |-> InitialTree, number |-> [s \in Stage |-> 0],
           map |-> [n \in {} |-> Root], selected |-> selected,
           configs |-> [c \in configurations |->
              [flags |-> NoFlags, modId |-> Zero, instances |-> {},
               chosen |-> [s \in Stage |-> TRUE]]]])

\* A new design or an opened file.
Init ==
  /\ \E configurations \in SUBSET Configuration : \E selected \in configurations \cup {Default} :
       rocket = Opened(configurations \cup {Default}, selected)
  /\ frozen = "thawed"
  /\ held = << >>
  /\ \/ sim = None
     \/ \E c \in DOMAIN rocket.configs, options \in Option :
          \/ sim = NewSimulation(c, options)
          \/ sim = FromFile(rocket, c, options, "NotSimulated", FALSE)
          \/ \E status \in {"Loaded", "Outdated"}, aborted \in BOOLEAN :
               sim = FromFile(rocket, c, options, status, aborted)
  /\ state = None
  /\ left \in [StepKinds -> 0..MaxSteps]

UserConfigurations == DOMAIN rocket.configs \ {Default}

StageCalls ==
  \/ \E s \in Stage, parent \in Parent, i \in 1..Cardinality(Stage) : AddStage(s, parent, i)
  \/ \E s \in Stage : RemoveStage(s) \/ RemoveStageFails(s)
  \/ \E s \in Stage, i \in 1..Cardinality(Stage) : MoveStage(s, i)
  \/ Freeze
  \/ \E s \in Stage : TakeStage(s)
  \/ \E parent \in Parent, i \in 1..Cardinality(Stage) : PutStage(parent, i)
  \/ Thaw

ConfigurationCalls ==
  \/ \E s \in Stage : ToggleStage(s)
  \/ \E c \in Configuration : NewFlightConfiguration(c)
  \/ \E c \in Configuration, d \in UserConfigurations : DuplicateConfiguration(c, d)
  \/ \E c \in UserConfigurations : RemoveConfiguration(c)
  \/ \E c \in DOMAIN rocket.configs : SelectConfiguration(c)

SimulationCalls ==
  \/ AddSimulation
  \/ RemoveSimulation
  \/ \E c \in DOMAIN rocket.configs : SetFlightConfiguration(c)
  \/ \E options \in Option : SetOptions(options)
  \/ Simulate
  \/ GetStatus

Next == StageCalls \/ ConfigurationCalls \/ SimulationCalls \/ TakeState \/ LoadState

Spec == Init /\ [][Next]_vars
-----------------------------------------------------------------------------
(* Properties. *)

SimulationType ==
  [config : Configuration \cup {Default}, options : Option, simOptions : Option \cup {None},
   simId : {Invalid, Zero} \cup ((Configuration \cup {Default}) \X (Nat \ {0})),
   status : {"NotSimulated", "Loaded", "UpToDate", "Outdated", "CantRun", "Aborted"},
   results : {None} \cup ([Parent -> Seq(Stage)] \X (SUBSET Stage) \X Option),
   aborted : BOOLEAN, doubt : BOOLEAN]

TypeOK ==
  /\ rocket.tree \in [Parent -> Seq(Stage)]
  /\ IsInjective(Stages(rocket.tree))
  /\ rocket.number \in [Stage -> Nat]
  /\ {Default, rocket.selected} \subseteq DOMAIN rocket.configs
  /\ UserConfigurations \subseteq Configuration
  /\ frozen \in {"thawed", "removing", "adding"}
  /\ frozen = "thawed" => held = << >>
  /\ ToSet(held) \cap InTree(rocket.tree) = {}
  /\ sim \in {None} \cup SimulationType
  /\ state # None => state.sim \in {None} \cup SimulationType

\* The stage map and the configurations hold no stage that left the tree, also while
\* the rocket is frozen; once it is thawed, the stages are numbered as they stand in
\* the tree and each configuration has a flag and the instances of exactly these.
ConfigurationsFollowTree ==
  LET order == Stages(rocket.tree)
  IN  /\ \A n \in DOMAIN rocket.map : rocket.map[n] \in InTree(rocket.tree)
      /\ \A c \in DOMAIN rocket.configs :
           rocket.configs[c].instances \subseteq InTree(rocket.tree)
      /\ frozen = "thawed" =>
           /\ DOMAIN rocket.map = 0..Len(order) - 1
           /\ \A n \in DOMAIN rocket.map :
                rocket.map[n] = order[n + 1] /\ rocket.number[order[n + 1]] = n
           /\ \A c \in DOMAIN rocket.configs :
                LET flags == rocket.configs[c].flags
                IN  /\ DOMAIN flags = DOMAIN rocket.map
                    /\ \A n \in DOMAIN flags : flags[n].stage = rocket.map[n]
                    /\ rocket.configs[c].instances = FlaggedActive(rocket, c)

\* Stages are renumbered, moved, restored, copied by number and loaded again: each
\* stays as active in each configuration as the user made it.
ActivenessIsKept ==
  LET present == InTree(rocket.tree)
                   \cup UNION {WithSubStages(rocket.tree, s) : s \in ToSet(held)}
  IN  \A c \in DOMAIN rocket.configs : \A s \in present :
        FlagOf(rocket.configs[c].flags, s) <=> rocket.configs[c].chosen[s]

\* Results that getStatus() calls up to date are those of the stages, the activeness
\* and the options of now.  Not claimed after the three ways the code is known to miss
\* (`doubt`, the README lists them).
UpToDateIsCurrent ==
  (sim # None /\ frozen = "thawed") =>
    (IsUpToDate(rocket, sim) /\ ~sim.doubt /\ sim.results # None =>
       sim.results = Flown(rocket, ChosenActive(rocket, sim.config), sim.options))

\* A simulation has the configuration it names, now and in the undo history, so that
\* loading a state never creates one, a change of the rocket within an undo.
SimulationsHaveTheirConfiguration ==
  /\ sim # None => sim.config \in DOMAIN rocket.configs
  /\ (state # None /\ state.sim # None) => state.sim.config \in DOMAIN state.rocket.configs
=============================================================================
