---------------------- MODULE SimulationResultsProofs ----------------------
(* What TLAPS proves about SimulationResults, for every rocket and any number *)
(* of configurations, stages and steps.  First that every simulation has the  *)
(* flight configuration it names: nothing but the set of configurations and   *)
(* the selection of a rocket counts for that.  Then, with an invariant of the *)
(* tree, the stage map, the flags and the ids, that the configurations follow *)
(* the tree, that stages stay as active as the user made them, and that       *)
(* results which count as up to date are those of now.                        *)
EXTENDS SimulationResults, FiniteSetTheorems, FunctionTheorems, SequenceTheorems,
        WellFoundedInduction, TLAPS

IsRocket(r)     == DOMAIN r = {"tree", "number", "map", "configs", "selected"}
IsSimulation(s) == DOMAIN s = {"config", "options", "simId", "simOptions", "status",
                               "results", "aborted", "doubt"}

\* What is selected is there, and so is the default.
IsWhole(r) == IsRocket(r) /\ {Default, r.selected} \subseteq DOMAIN r.configs

SameSet(r, q) == /\ IsRocket(q)
                 /\ DOMAIN q.configs = DOMAIN r.configs
                 /\ q.selected = r.selected

HasItsConfiguration(simulation, r) ==
  simulation # None =>
    IsSimulation(simulation) /\ simulation.config \in DOMAIN r.configs

ConfigurationInvariant ==
  /\ IsWhole(rocket)
  /\ HasItsConfiguration(sim, rocket)
  /\ state # None =>
       /\ DOMAIN state = {"rocket", "sim"}
       /\ IsWhole(state.rocket)
       /\ HasItsConfiguration(state.sim, state.rocket)
-----------------------------------------------------------------------------
(* What the operations on a rocket keep. *)

LEMMA SameSetIsWhole ==
  ASSUME NEW r, NEW q, IsWhole(r), SameSet(r, q)
  PROVE  IsWhole(q)
  BY DEF IsWhole, SameSet

LEMMA SameSetTrans ==
  ASSUME NEW r, NEW q, NEW p, SameSet(r, q), SameSet(q, p)
  PROVE  SameSet(r, p)
  BY DEF SameSet

LEMMA RenumberedKeeps ==
  ASSUME NEW r, IsRocket(r)
  PROVE  SameSet(r, Renumbered(r))
  <1> DEFINE order   == Stages(r.tree)
             numbers == [s \in Stage |-> IF s \in ToSet(order) THEN PlaceOf(order, s) - 1
                                                                ELSE r.number[s]]
             tracked == FoldLeft(Tracked, [map |-> [n \in {} |-> Root], number |-> numbers],
                                 order)
  <1>1. Renumbered(r) = [r EXCEPT !.map = tracked.map, !.number = tracked.number]
    BY Zenon DEF Renumbered
  <1> HIDE DEF tracked
  <1>2. SameSet(r, [r EXCEPT !.map = tracked.map, !.number = tracked.number])
    BY DEF SameSet, IsRocket
  <1> QED BY <1>1, <1>2

LEMMA UpdatedConfigurationsKeeps ==
  ASSUME NEW r, IsRocket(r)
  PROVE  SameSet(r, UpdatedConfigurations(r))
  BY DEF UpdatedConfigurations, SameSet, IsRocket

LEMMA UpdatedKeeps ==
  ASSUME NEW r, IsRocket(r)
  PROVE  SameSet(r, Updated(r))
  <1>1. SameSet(r, Renumbered(r))
    BY RenumberedKeeps
  <1>2. SameSet(Renumbered(r), UpdatedConfigurations(Renumbered(r)))
    BY <1>1, UpdatedConfigurationsKeeps DEF SameSet
  <1> QED BY <1>1, <1>2, SameSetTrans DEF Updated

LEMMA TrackedKeeps ==
  ASSUME NEW r, NEW s, IsRocket(r)
  PROVE  SameSet(r, Tracked(r, s))
  <1>1. ASSUME NEW n, NEW m
        PROVE  SameSet(r, [r EXCEPT !.number[s] = n, !.map = m])
    BY DEF SameSet, IsRocket
  <1>2. SameSet(r, r)
    BY DEF SameSet
  <1> QED BY <1>1, <1>2 DEF Tracked

LEMMA LinkedKeeps ==
  ASSUME NEW r, NEW parent, NEW i, NEW s, IsRocket(r)
  PROVE  SameSet(r, Linked(r, parent, i, s))
  <1> DEFINE grown == [r EXCEPT !.tree[parent] = InsertAt(r.tree[parent], i, s)]
  <1>1. SameSet(r, grown)
    BY DEF SameSet, IsRocket
  <1>2. SameSet(grown, Tracked(grown, s))
    BY <1>1, TrackedKeeps DEF SameSet
  <1>3. Linked(r, parent, i, s) = Tracked(grown, s)
    BY DEF Linked
  <1> HIDE DEF grown
  <1> QED BY <1>1, <1>2, <1>3, SameSetTrans

LEMMA UnlinkedKeeps ==
  ASSUME NEW r, NEW s, IsRocket(r)
  PROVE  SameSet(r, Unlinked(r, s))
  <1>1. ASSUME NEW removed, NEW kept, NEW parent
        PROVE  SameSet(r, [r EXCEPT
                 !.tree[parent] = RemoveFirst(r.tree[parent], s),
                 !.map = [n \in kept |-> r.map[n]],
                 !.configs = [c \in DOMAIN r.configs |->
                                [r.configs[c] EXCEPT !.instances = @ \ removed]]])
    BY DEF SameSet, IsRocket
  <1> QED BY <1>1 DEF Unlinked

LEMMA DestroyedKeeps ==
  ASSUME NEW r, NEW gone, IsRocket(r)
  PROVE  SameSet(r, Destroyed(r, gone))
  BY DEF Destroyed, SameSet, IsRocket

LEMMA ReactivatedKeeps ==
  ASSUME NEW r, NEW stages, NEW before, IsRocket(r)
  PROVE  SameSet(r, Reactivated(r, stages, before))
  BY DEF Reactivated, SameSet, IsRocket

LEMMA RedrawnKeeps ==
  ASSUME NEW r, NEW ids, IsRocket(r)
  PROVE  SameSet(r, Redrawn(r, ids))
  BY DEF Redrawn, SameSet, IsRocket

LEMMA CopyOfKeeps ==
  ASSUME NEW r, IsRocket(r)
  PROVE  SameSet(r, CopyOf(r))
  BY DEF CopyOf, SameSet, IsRocket

\* Loading takes over the set of configurations and the selection of the source.
LEMMA LoadedFromKeeps ==
  ASSUME NEW r, NEW source, IsRocket(source)
  PROVE  SameSet(source, LoadedFrom(r, source))
  <1> DEFINE gone    == InTree(r.tree) \ InTree(source.tree)
             loaded  == [source EXCEPT !.configs = [c \in {Default} |-> r.configs[c]]]
             default == UpdatedConfigurations(loaded).configs[Default]
             rebuilt == [c \in DOMAIN source.configs |->
                           IF c = Default THEN default
                                          ELSE RebuiltConfiguration(loaded, source.configs[c])]
             whole   == [loaded EXCEPT !.configs = rebuilt]
  <1>1. LoadedFrom(r, source) = Updated(Destroyed(whole, gone))
    BY Zenon DEF LoadedFrom
  <1>2. DOMAIN rebuilt = DOMAIN source.configs
    OBVIOUS
  <1> HIDE DEF default, rebuilt
  <1>3. SameSet(source, whole)
    BY <1>2 DEF SameSet, IsRocket
  <1> HIDE DEF whole, gone
  <1>4. SameSet(whole, Destroyed(whole, gone))
    BY <1>3, DestroyedKeeps DEF SameSet
  <1>5. SameSet(Destroyed(whole, gone), Updated(Destroyed(whole, gone)))
    BY <1>4, UpdatedKeeps DEF SameSet
  <1> QED BY <1>1, <1>3, <1>4, <1>5, SameSetTrans

LEMMA ToggledKeeps ==
  ASSUME NEW r, NEW c, NEW s, IsRocket(r)
  PROVE  SameSet(r, Toggled(r, c, s))
  BY DEF Toggled, SameSet, IsRocket

\* A functional change: the set and the selection are those of the changed rocket.
LEMMA FireFunctionalKeeps ==
  ASSUME NEW r, NEW ids, IsRocket(r), FireFunctional(r, ids)
  PROVE  SameSet(r, rocket')
  <1>1. SameSet(r, Redrawn(r, ids))
    BY RedrawnKeeps
  <1>2. SameSet(Redrawn(r, ids), Updated(Redrawn(r, ids)))
    BY <1>1, UpdatedKeeps DEF SameSet
  <1> QED BY <1>1, <1>2, SameSetTrans DEF FireFunctional
-----------------------------------------------------------------------------
(* The invariant, by groups of actions: those that change the rocket alone,  *)
(* the simulation alone, or both.                                            *)

\* A simulation and a state stay whole when the rocket keeps its configurations.
LEMMA RocketChangeKeeps ==
  ASSUME ConfigurationInvariant, SameSet(rocket, rocket'), UNCHANGED <<sim, state>>
  PROVE  ConfigurationInvariant'
  BY SameSetIsWhole DEF ConfigurationInvariant, SameSet, HasItsConfiguration

LEMMA FireKeeps ==
  ASSUME ConfigurationInvariant, NEW r, NEW ids, SameSet(rocket, r),
         FireFunctional(r, ids), UNCHANGED <<sim, state>>
  PROVE  ConfigurationInvariant'
  <1>1. SameSet(r, rocket')
    BY FireFunctionalKeeps DEF SameSet
  <1> QED BY <1>1, SameSetTrans, RocketChangeKeeps

LEMMA StagesKeep ==
  ASSUME ConfigurationInvariant, StageCalls
  PROVE  ConfigurationInvariant'
  <1> USE DEF FireForAll
  <1>0. IsRocket(rocket)
    BY DEF ConfigurationInvariant, IsWhole
  <1>1. ASSUME NEW s \in Stage, NEW parent \in Parent, NEW i \in 1..Cardinality(Stage),
               AddStage(s, parent, i)
        PROVE  ConfigurationInvariant'
    BY <1>0, <1>1, LinkedKeeps, FireKeeps DEF AddStage
  <1>2. ASSUME NEW s \in Stage, RemoveStage(s)
        PROVE  ConfigurationInvariant'
    <2> DEFINE unlinked == Unlinked(rocket, s)
               removed  == Destroyed(unlinked, WithSubStages(rocket.tree, s))
    <2>1. SameSet(rocket, unlinked) /\ SameSet(unlinked, removed)
      BY <1>0, UnlinkedKeeps, DestroyedKeeps DEF SameSet
    <2>2. FireFunctional(removed, DOMAIN removed.configs) /\ UNCHANGED <<sim, state>>
      BY <1>2 DEF RemoveStage
    <2> HIDE DEF unlinked, removed
    <2> QED BY <2>1, <2>2, SameSetTrans, FireKeeps
  <1>3. ASSUME NEW s \in Stage, RemoveStageFails(s)
        PROVE  ConfigurationInvariant'
    <2> DEFINE parent    == ParentOf(rocket.tree, s)
               place     == PlaceOf(rocket.tree[parent], s)
               unlinked  == Unlinked(rocket, s)
               delivered == Updated(unlinked)
               linked    == Linked(delivered, parent, place, s)
               restored  == Updated(linked)
               active    == Reactivated(restored, WithSubStages(rocket.tree, s), rocket)
    <2>1. SameSet(rocket, unlinked)
      BY <1>0, UnlinkedKeeps
    <2>2. SameSet(unlinked, delivered)
      BY <2>1, UpdatedKeeps DEF SameSet
    <2>3. SameSet(delivered, linked)
      BY <2>2, LinkedKeeps DEF SameSet
    <2>4. SameSet(linked, restored)
      BY <2>3, UpdatedKeeps DEF SameSet
    <2>5. SameSet(restored, active)
      BY <2>4, ReactivatedKeeps DEF SameSet
    <2>6. FireFunctional(active, DOMAIN active.configs) /\ UNCHANGED <<sim, state>>
      BY <1>3 DEF RemoveStageFails
    <2> HIDE DEF unlinked, delivered, linked, restored, active
    <2> QED BY <2>1, <2>2, <2>3, <2>4, <2>5, <2>6, SameSetTrans, FireKeeps
  <1>4. ASSUME NEW s \in Stage, NEW i \in 1..Cardinality(Stage), MoveStage(s, i)
        PROVE  ConfigurationInvariant'
    <2> DEFINE parent == ParentOf(rocket.tree, s)
               moved  == [rocket EXCEPT !.tree[parent] = InsertAt(RemoveFirst(@, s), i, s)]
    <2>1. SameSet(rocket, moved)
      BY <1>0 DEF SameSet, IsRocket
    <2>2. FireFunctional(moved, DOMAIN moved.configs) /\ UNCHANGED <<sim, state>>
      BY <1>4 DEF MoveStage
    <2> HIDE DEF moved
    <2> QED BY <2>1, <2>2, FireKeeps
  <1>5. ASSUME Freeze
        PROVE  ConfigurationInvariant'
    BY <1>0, <1>5, RocketChangeKeeps DEF Freeze, SameSet
  <1>6. ASSUME NEW s \in Stage, TakeStage(s)
        PROVE  ConfigurationInvariant'
    BY <1>0, <1>6, UnlinkedKeeps, FireKeeps DEF TakeStage
  <1>7. ASSUME NEW parent \in Parent, NEW i \in 1..Cardinality(Stage), PutStage(parent, i)
        PROVE  ConfigurationInvariant'
    BY <1>0, <1>7, LinkedKeeps, FireKeeps DEF PutStage
  <1>8. ASSUME Thaw
        PROVE  ConfigurationInvariant'
    <2> DEFINE lost    == UNION {WithSubStages(rocket.tree, s) : s \in ToSet(held)}
               redrawn == Redrawn(rocket, DOMAIN rocket.configs)
               thawed  == Destroyed(Updated(redrawn), lost)
    <2>1. SameSet(rocket, redrawn)
      BY <1>0, RedrawnKeeps
    <2>2. SameSet(redrawn, Updated(redrawn))
      BY <2>1, UpdatedKeeps DEF SameSet
    <2>3. SameSet(Updated(redrawn), thawed)
      BY <2>2, DestroyedKeeps DEF SameSet
    <2>4. rocket' \in {rocket, thawed} /\ UNCHANGED <<sim, state>>
      BY <1>8 DEF Thaw
    <2>5. SameSet(rocket, rocket)
      BY <1>0 DEF SameSet
    <2> HIDE DEF redrawn, thawed
    <2> QED BY <2>1, <2>2, <2>3, <2>4, <2>5, SameSetTrans, RocketChangeKeeps
  <1> QED BY <1>1, <1>2, <1>3, <1>4, <1>5, <1>6, <1>7, <1>8 DEF StageCalls

LEMMA SimulationsKeep ==
  ASSUME ConfigurationInvariant, SimulationCalls
  PROVE  ConfigurationInvariant'
  <1>1. ASSUME NEW simulation, sim' = simulation, UNCHANGED <<rocket, state>>,
               HasItsConfiguration(simulation, rocket)
        PROVE  ConfigurationInvariant'
    BY <1>1 DEF ConfigurationInvariant
  <1>2. CASE AddSimulation
    BY <1>1, <1>2 DEF AddSimulation, NewSimulation, HasItsConfiguration, IsSimulation,
                      ConfigurationInvariant, IsWhole
  <1>3. CASE RemoveSimulation
    BY <1>1, <1>3 DEF RemoveSimulation, HasItsConfiguration
  <1>4. ASSUME NEW c \in DOMAIN rocket.configs, SetFlightConfiguration(c)
        PROVE  ConfigurationInvariant'
    BY <1>1, <1>4 DEF SetFlightConfiguration, HasItsConfiguration, IsSimulation,
                      ConfigurationInvariant
  <1>5. ASSUME NEW options \in Option, SetOptions(options)
        PROVE  ConfigurationInvariant'
    BY <1>1, <1>5 DEF SetOptions, HasItsConfiguration, IsSimulation, ConfigurationInvariant
  <1>6. CASE Simulate
    BY <1>1, <1>6 DEF Simulate, HasItsConfiguration, IsSimulation, ConfigurationInvariant
  <1>7. CASE GetStatus
    BY <1>1, <1>7 DEF GetStatus, HasItsConfiguration, IsSimulation, ConfigurationInvariant
  <1> QED BY <1>2, <1>3, <1>4, <1>5, <1>6, <1>7 DEF SimulationCalls
-----------------------------------------------------------------------------
(* The set of configurations changes, or a state is taken or loaded.         *)

LEMMA AddingKeeps ==
  ASSUME ConfigurationInvariant, NEW c, NEW configuration, AddConfiguration(c, configuration)
  PROVE  ConfigurationInvariant'
  <1> DEFINE grown == [rocket EXCEPT
               !.configs = [x \in DOMAIN @ \cup {c} |-> IF x = c THEN configuration ELSE @[x]],
               !.selected = c]
  <1>1. IsRocket(grown) /\ grown.selected = c
        /\ DOMAIN grown.configs = DOMAIN rocket.configs \cup {c}
    BY DEF ConfigurationInvariant, IsWhole, IsRocket
  <1>2. FireFunctional(grown, {c}) /\ UNCHANGED state
    BY DEF AddConfiguration
  <1>3. sim' = sim \/ \E options \in Option : sim' = NewSimulation(c, options)
    BY DEF AddConfiguration
  <1> HIDE DEF grown
  <1>4. SameSet(grown, rocket')
    BY <1>1, <1>2, FireFunctionalKeeps
  <1>5. IsWhole(rocket') /\ DOMAIN rocket'.configs = DOMAIN rocket.configs \cup {c}
    BY <1>1, <1>4 DEF SameSet, IsWhole, ConfigurationInvariant
  <1>6. HasItsConfiguration(sim', rocket')
    BY <1>3, <1>5 DEF HasItsConfiguration, IsSimulation, NewSimulation, ConfigurationInvariant
  <1> QED BY <1>2, <1>5, <1>6 DEF ConfigurationInvariant

\* The default is never removed, and with a configuration go its simulations.
LEMMA RemovingKeeps ==
  ASSUME ConfigurationInvariant, NEW c \in UserConfigurations, RemoveConfiguration(c)
  PROVE  ConfigurationInvariant'
  <1>1. IsWhole(Without(c)) /\ DOMAIN Without(c).configs = DOMAIN rocket.configs \ {c}
    BY DEF Without, UserConfigurations, ConfigurationInvariant, IsWhole, IsRocket
  <1>2. SameSet(Without(c), rocket')
    BY <1>1, UpdatedKeeps DEF RemoveConfiguration, IsWhole
  <1>3. IsWhole(rocket')
    BY <1>1, <1>2, SameSetIsWhole
  <1>4. HasItsConfiguration(sim', rocket')
    BY <1>1, <1>2 DEF RemoveConfiguration, HasItsConfiguration, SameSet, ConfigurationInvariant
  <1> QED BY <1>3, <1>4 DEF RemoveConfiguration, ConfigurationInvariant

LEMMA ConfigurationsKeep ==
  ASSUME ConfigurationInvariant, ConfigurationCalls
  PROVE  ConfigurationInvariant'
  <1>0. IsRocket(rocket)
    BY DEF ConfigurationInvariant, IsWhole
  <1>1. ASSUME NEW s \in Stage, ToggleStage(s)
        PROVE  ConfigurationInvariant'
    BY <1>0, <1>1, ToggledKeeps, FireKeeps DEF ToggleStage
  <1>2. ASSUME NEW c \in DOMAIN rocket.configs, SelectConfiguration(c)
        PROVE  ConfigurationInvariant'
    <2> DEFINE chosen == [rocket EXCEPT !.selected = c]
    <2>1. IsWhole(chosen) /\ DOMAIN chosen.configs = DOMAIN rocket.configs
      BY <1>2 DEF ConfigurationInvariant, IsWhole, IsRocket
    <2>2. rocket' = Updated(chosen) /\ UNCHANGED <<sim, state>>
      BY <1>2 DEF SelectConfiguration
    <2> HIDE DEF chosen
    <2>3. SameSet(chosen, rocket')
      BY <2>1, <2>2, UpdatedKeeps DEF IsWhole
    <2> QED BY <2>1, <2>2, <2>3, SameSetIsWhole
            DEF ConfigurationInvariant, HasItsConfiguration, SameSet
  <1> QED BY <1>1, <1>2, AddingKeeps, RemovingKeeps
          DEF ConfigurationCalls, NewFlightConfiguration, DuplicateConfiguration

LEMMA TakingKeeps ==
  ASSUME ConfigurationInvariant, TakeState
  PROVE  ConfigurationInvariant'
  <1> DEFINE taken == IF sim = None THEN None
                      ELSE [sim EXCEPT !.doubt =
                              \/ sim.doubt
                              \/ /\ IsStatusUpToDate(sim.status)
                                 /\ sim.simId # ModIdOf(rocket, sim)]
  <1>1. state' = [rocket |-> CopyOf(rocket), sim |-> taken] /\ UNCHANGED <<rocket, sim>>
    BY DEF TakeState
  <1>2. SameSet(rocket, CopyOf(rocket))
    BY CopyOfKeeps DEF ConfigurationInvariant, IsWhole
  <1>3. HasItsConfiguration(taken, rocket)
    BY DEF HasItsConfiguration, IsSimulation, ConfigurationInvariant
  <1> HIDE DEF taken
  <1>4. HasItsConfiguration(taken, CopyOf(rocket)) /\ IsWhole(CopyOf(rocket))
    BY <1>2, <1>3, SameSetIsWhole DEF SameSet, HasItsConfiguration, ConfigurationInvariant
  <1> QED BY <1>1, <1>4 DEF ConfigurationInvariant

\* No configuration is created: the state has that of its simulation.
LEMMA LoadingKeeps ==
  ASSUME ConfigurationInvariant, LoadState
  PROVE  ConfigurationInvariant'
  <1> DEFINE loaded == LoadedFrom(rocket, state.rocket)
             saved  == state.sim
             doubted(simulation) ==
               [simulation EXCEPT !.doubt =
                  @ \/ (saved.config = Default /\ DefaultDiffers(loaded))]
  <1>1. state # None /\ UNCHANGED state
    BY DEF LoadState
  <1>2. SameSet(state.rocket, loaded)
    BY <1>1, LoadedFromKeeps DEF ConfigurationInvariant, IsWhole
  <1>3. IsWhole(loaded)
    BY <1>1, <1>2, SameSetIsWhole DEF ConfigurationInvariant
  <1>4. HasItsConfiguration(saved, loaded)
    BY <1>1, <1>2 DEF SameSet, HasItsConfiguration, ConfigurationInvariant
  <1>5. rocket' = loaded
    BY <1>4 DEF LoadState, HasItsConfiguration
  <1>6. \/ sim' = None
        \/ saved # None /\ sim' = doubted(LoadedInPlace(loaded, saved))
        \/ saved # None /\ sim' = doubted(LoadedAnew(loaded, saved))
    BY <1>5 DEF LoadState
  <1> HIDE DEF loaded
  <1>7. HasItsConfiguration(sim', loaded)
    BY <1>4, <1>6 DEF HasItsConfiguration, IsSimulation, LoadedInPlace, LoadedAnew
  <1> QED BY <1>1, <1>3, <1>5, <1>7 DEF ConfigurationInvariant
-----------------------------------------------------------------------------
FirstStatuses == {"NotSimulated", "Loaded", "Outdated"}

\* The simulation of a new design or of an opened file.
FirstSimulation ==
  sim # None =>
    \E c \in DOMAIN rocket.configs, options \in Option :
      \/ sim = NewSimulation(c, options)
      \/ \E status \in FirstStatuses, aborted \in BOOLEAN :
           /\ aborted => status # "NotSimulated"
           /\ sim = FromFile(rocket, c, options, status, aborted)

LEMMA FirstSimulationAtStart == Init => FirstSimulation
  <1> SUFFICES ASSUME Init, sim # None
               PROVE  \E c \in DOMAIN rocket.configs, options \in Option :
                        \/ sim = NewSimulation(c, options)
                        \/ \E status \in FirstStatuses, aborted \in BOOLEAN :
                             /\ aborted => status # "NotSimulated"
                             /\ sim = FromFile(rocket, c, options, status, aborted)
    BY DEF FirstSimulation
  <1>1. PICK c \in DOMAIN rocket.configs, options \in Option :
          \/ sim = NewSimulation(c, options)
          \/ sim = FromFile(rocket, c, options, "NotSimulated", FALSE)
          \/ \E status \in {"Loaded", "Outdated"}, aborted \in BOOLEAN :
               sim = FromFile(rocket, c, options, status, aborted)
    BY Zenon DEF Init
  <1> QED BY <1>1 DEF FirstStatuses

LEMMA ConfigurationsAtStart ==
  ASSUME Init
  PROVE  ConfigurationInvariant
  <1>1. PICK configurations \in SUBSET Configuration :
          \E selected \in configurations \cup {Default} :
            rocket = Opened(configurations \cup {Default}, selected)
    BY Zenon DEF Init
  <1>2. PICK selected \in configurations \cup {Default} :
          rocket = Opened(configurations \cup {Default}, selected)
    BY <1>1
  <1> DEFINE set    == configurations \cup {Default}
             opened == [tree |-> InitialTree, number |-> [s \in Stage |-> 0],
                        map |-> [n \in {} |-> Root], selected |-> selected,
                        configs |-> [c \in set |->
                           [flags |-> NoFlags, modId |-> Zero, instances |-> {},
                            chosen |-> [s \in Stage |-> TRUE]]]]
  <1>3. IsWhole(opened)
    BY DEF IsWhole, IsRocket
  <1>4. rocket = Updated(opened)
    BY <1>2, Zenon DEF Opened
  <1> HIDE DEF opened
  <1>5. IsWhole(rocket)
    BY <1>3, <1>4, UpdatedKeeps, SameSetIsWhole DEF IsWhole
  <1>6. state = None /\ FirstSimulation
    BY FirstSimulationAtStart DEF Init
  <1>7. HasItsConfiguration(sim, rocket)
    BY <1>6 DEF FirstSimulation, HasItsConfiguration, NewSimulation, FromFile, IsSimulation
  <1> QED BY <1>5, <1>6, <1>7 DEF ConfigurationInvariant

\* Every step keeps that the default configuration and the selected one exist, and
\* with them the configuration of every simulation, also within the undo history.
THEOREM ConfigurationsExist == Spec => []ConfigurationInvariant
  <1>1. Init => ConfigurationInvariant
    BY ConfigurationsAtStart
  <1>2. ConfigurationInvariant /\ [Next]_vars => ConfigurationInvariant'
    <2> SUFFICES ASSUME ConfigurationInvariant, [Next]_vars
                 PROVE  ConfigurationInvariant'
      OBVIOUS
    <2>1. CASE UNCHANGED vars
      BY <2>1 DEF vars, ConfigurationInvariant
    <2> QED BY <2>1, StagesKeep, ConfigurationsKeep, SimulationsKeep, TakingKeeps, LoadingKeeps
            DEF Next
  <1> QED BY <1>1, <1>2, PTL DEF Spec

\* A simulation never names a configuration the rocket lacks, nor does one in the undo
\* history: loading a state creates no configuration (loadSimulationsFrom()).
THEOREM SimulationsKeepTheirConfiguration == Spec => []SimulationsHaveTheirConfiguration
  <1>1. ConfigurationInvariant => SimulationsHaveTheirConfiguration
    BY DEF ConfigurationInvariant, HasItsConfiguration, SimulationsHaveTheirConfiguration
  <1> QED BY <1>1, ConfigurationsExist, PTL
-----------------------------------------------------------------------------
(* The invariant of the tree, the flags and the results.                     *)

\* Every stage stands once; those of h are held outside the tree, and may carry
\* boosters there.
TreeSound(tree, h) ==
  /\ tree \in [Parent -> Seq(Stage)]
  /\ ToSet(tree[Root]) \subseteq Core
  /\ \A p \in Core : ToSet(tree[p]) \subseteq Booster
  /\ \A p \in Parent : IsInjective(tree[p]) /\ ToSet(tree[p]) \cap h = {}
  /\ \A p, q \in Parent : p # q => ToSet(tree[p]) \cap ToSet(tree[q]) = {}
  /\ \A p \in Core : p \in ToSet(tree[Root]) \/ p \in h \/ tree[p] = << >>

ConfigurationFields == {"flags", "modId", "instances", "chosen"}

TypedFlags(flags) == \A n \in DOMAIN flags : flags[n] \in [stage : Stage, active : BOOLEAN]

TypedConfiguration(config) ==
  /\ DOMAIN config = ConfigurationFields
  /\ config.chosen \in [Stage -> BOOLEAN]
  /\ TypedFlags(config.flags)

Typed(r) ==
  /\ IsRocket(r)
  /\ r.number \in [Stage -> Nat]
  /\ \A c \in DOMAIN r.configs : TypedConfiguration(r.configs[c])

\* The stage map names stages of the tree, each by its number.
MapSound(r) ==
  /\ IsFiniteSet(DOMAIN r.map)
  /\ DOMAIN r.map \subseteq Nat
  /\ \A n \in DOMAIN r.map : r.map[n] \in InTree(r.tree) /\ r.number[r.map[n]] = n

Sound(r, h) == Typed(r) /\ TreeSound(r.tree, h) /\ MapSound(r)

\* What update() leaves: the stages are numbered as they stand in the tree, and the
\* configurations have the flags and instances of exactly these.
Numbered(r) ==
  /\ DOMAIN r.map = 0 .. Len(Stages(r.tree)) - 1
  /\ \A n \in DOMAIN r.map : /\ r.map[n] = Stages(r.tree)[n + 1]
                             /\ r.number[Stages(r.tree)[n + 1]] = n

SettledConfiguration(r, config) ==
  /\ DOMAIN config.flags = DOMAIN r.map
  /\ \A n \in DOMAIN r.map : config.flags[n].stage = r.map[n]
  /\ config.instances = ActiveInstances(r, config.flags)

Settled(r) ==
  /\ Numbered(r)
  /\ \A c \in DOMAIN r.configs : SettledConfiguration(r, r.configs[c])

\* The flags say what the user chose; a stage that is nowhere would be active.
Agrees(config) == \A s \in Stage : FlagOf(config.flags, s) <=> config.chosen[s]
ActiveOutside(config, stages) == \A s \in Stage \ stages : config.chosen[s]

\* The held stages and their boosters.
Loose(tree, h) == UNION {WithSubStages(tree, s) : s \in h}

\* What holds of a rocket also while it is frozen and the stages of h are held.
FollowedConfiguration(r, config, h) ==
  /\ config.instances \subseteq InTree(r.tree)
  /\ Agrees(config)
  /\ ActiveOutside(config, InTree(r.tree) \cup Loose(r.tree, h))

Followed(r, h) ==
  /\ Sound(r, h)
  /\ \A c \in DOMAIN r.configs : FollowedConfiguration(r, r.configs[c], h)

FlightInvariant ==
  /\ held \in Seq(Stage) /\ IsInjective(held)
  /\ frozen \in {"thawed", "removing", "adding"}
  /\ frozen = "thawed" => held = << >>
  /\ Followed(rocket, ToSet(held))
  /\ (frozen # "adding" /\ held = << >>) => Settled(rocket)

\* The rocket of a state of the undo history: the flags of its default are not the
\* user's, who gets back those of the rocket that is replaced.
SavedRocket(r) ==
  /\ Sound(r, {}) /\ Settled(r)
  /\ \A c \in DOMAIN r.configs :
       /\ c # Default => Agrees(r.configs[c])
       /\ ActiveOutside(r.configs[c], InTree(r.tree))

\* An id other than zero tells whose it is.
IdsSound(r) ==
  \A c \in DOMAIN r.configs :
    /\ c \in Configuration \cup {Default}
    /\ r.configs[c].modId \in {Zero} \cup ({c} \X (Nat \ {0}))

\* Results that getStatus() may call up to date.
Counts(simulation) ==
  /\ simulation # None /\ simulation.results # None
  /\ IsStatusUpToDate(simulation.status) /\ ~simulation.doubt

Dated(simulation, r, c) ==
  /\ r.configs[c].modId = simulation.simId
  /\ simulation.simId # Zero \/ c = simulation.config

ResultsAreOf(simulation, r, c) ==
  simulation.results = <<r.tree, ChosenActive(r, c), simulation.simOptions>>

\* Results are those of the configuration that has their id, whichever the simulation
\* names now.
ResultsAreDated(simulation, r) ==
  Counts(simulation) =>
    \A c \in DOMAIN r.configs : Dated(simulation, r, c) => ResultsAreOf(simulation, r, c)

SimulationTyped(simulation) == simulation \in {None} \cup SimulationType

SavedState ==
  state # None =>
    /\ SavedRocket(state.rocket) /\ IdsSound(state.rocket)
    /\ SimulationTyped(state.sim)
    /\ Counts(state.sim) => ResultsAreOf(state.sim, state.rocket, state.sim.config)

ResultsInvariant ==
  /\ FlightInvariant
  /\ IdsSound(rocket)
  /\ SimulationTyped(sim) /\ ResultsAreDated(sim, rocket)
  /\ SavedState
-----------------------------------------------------------------------------
(* Naturals and sequences.                                                   *)

NatOrder == {p \in Nat \X Nat : p[1] < p[2]}

LEMMA NatOrderIsWellFounded == IsWellFoundedOn(NatOrder, Nat)
BY NatLessThanWellFounded DEF OpToRel, NatOrder

LEMMA LeastNatural ==
    ASSUME NEW T \in SUBSET Nat, T # {}
    PROVE  \E n \in T : \A m \in T : n <= m
<1>1. PICK n \in T : \A m \in T : <<m, n>> \notin NatOrder
  BY NatOrderIsWellFounded, WFMin
<1>2. ASSUME NEW m \in T PROVE n <= m
  <2>1. <<m, n>> \in Nat \X Nat /\ <<m, n>>[1] = m /\ <<m, n>>[2] = n
    OBVIOUS
  <2>2. ~(m < n)
    BY <1>1, <2>1 DEF NatOrder
  <2> QED
    BY <2>2
<1> QED
  BY <1>2

LEMMA AllNaturals ==
    ASSUME NEW T \in SUBSET Nat, 0 \in T, \A m \in T : m + 1 \in T
    PROVE  T = Nat
<1> SUFFICES ASSUME NEW x \in Nat \ T PROVE FALSE
  OBVIOUS
<1>1. PICK n \in Nat \ T : \A m \in Nat \ T : n <= m
  BY LeastNatural
<1>2. n # 0 /\ n - 1 \in Nat /\ n - 1 \notin Nat \ T
  BY <1>1
<1> QED
  BY <1>1, <1>2

LEMMA GreatestSlot ==
    ASSUME NEW n \in Nat, NEW s \in SUBSET (1..n), s # {}
    PROVE  Max(s) \in s /\ \A y \in s : y <= Max(s)
<1> DEFINE T == {m \in Nat : \A y \in s : y <= m}
<1>1. n \in T /\ T \in SUBSET Nat
  OBVIOUS
<1>2. PICK m \in T : \A o \in T : m <= o
  <2> HIDE DEF T
  <2> QED
    BY <1>1, LeastNatural
<1>3. m \in Nat /\ \A y \in s : y <= m /\ y \in 1..n
  BY <1>2
<1>4. m \in s
  <2> SUFFICES ASSUME m \notin s PROVE FALSE
    OBVIOUS
  <2>1. m # 0
    <3>1. PICK y \in s : TRUE
      OBVIOUS
    <3>2. y \in 1..n /\ y <= m
      BY <1>3
    <3> QED
      BY <1>3, <3>2
  <2>2. m - 1 \in Nat /\ \A y \in s : y <= m - 1
    BY <1>3, <2>1
  <2>3. m <= m - 1
    BY <1>2, <2>2
  <2> QED
    BY <1>3, <2>3
<1>5. \E x \in s : \A y \in s : x >= y
  BY <1>3, <1>4
<1> QED
  BY <1>3, <1>5 DEF Max

LEMMA WhereIn ==
  ASSUME NEW S, NEW s \in Seq(S), IsInjective(s), NEW k \in 1 .. Len(s), NEW e,
         e = s[k]
  PROVE  RemoveFirst(s, e) = RemoveAt(s, k)
<1> DEFINE I == {i \in 1 .. Len(s) : s[i] = e}
<1>1. I = {k}
  BY DEF IsInjective
<1>2. Min({k}) = k
  BY DEF Min
<1>3. RemoveFirst(s, e) = IF \E i \in 1 .. Len(s) : s[i] = e
                          THEN RemoveAt(s, IF I # {} THEN Min(I) ELSE 0) ELSE s
  BY DEF RemoveFirst, SelectInSeq
<1> HIDE DEF I
<1> QED
  BY <1>1, <1>2, <1>3

LEMMA ElementsOf ==
  ASSUME NEW S, NEW s \in Seq(S)
  PROVE  /\ ToSet(s) = {s[i] : i \in 1 .. Len(s)}
         /\ ToSet(s) \subseteq S
BY DEF ToSet

\* One element less, and the others keep their order.
LEMMA SequenceWithout ==
  ASSUME NEW S, NEW s \in Seq(S), IsInjective(s), NEW k \in 1 .. Len(s)
  PROVE  /\ RemoveAt(s, k) \in Seq(S) /\ IsInjective(RemoveAt(s, k))
         /\ ToSet(RemoveAt(s, k)) = ToSet(s) \ {s[k]}
         /\ Len(RemoveAt(s, k)) = Len(s) - 1
<1> DEFINE n == Len(s)
           front == SubSeq(s, 1, k - 1)
           back == SubSeq(s, k + 1, n)
           t == front \o back
           Old(i) == IF i < k THEN i ELSE i + 1
<1>1. n \in Nat /\ k \in 1 .. n /\ \A i \in 1 .. n : s[i] \in S
  OBVIOUS
<1>2. /\ front \in Seq(S) /\ Len(front) = k - 1
      /\ \A i \in 1 .. k - 1 : front[i] = s[i]
  <2> DEFINE m == k - 1
  <2>1. m \in Nat /\ 1 \in Int /\ m \in Int /\ \A i \in 1 .. m : s[i] \in S
    BY <1>1
  <2>2. /\ SubSeq(s, 1, m) \in Seq(S) /\ Len(SubSeq(s, 1, m)) = IF 1 <= m THEN m - 1 + 1 ELSE 0
        /\ \A i \in 1 .. m - 1 + 1 : SubSeq(s, 1, m)[i] = s[1 + i - 1]
    <3> HIDE DEF m
    <3> QED
      BY <2>1, SubSeqProperties
  <2> HIDE DEF m
  <2>3. Len(SubSeq(s, 1, m)) = m /\ \A i \in 1 .. m : SubSeq(s, 1, m)[i] = s[i]
    BY <2>1, <2>2
  <2> QED
    BY <2>2, <2>3 DEF m
<1>3. /\ back \in Seq(S) /\ Len(back) = n - k
      /\ \A i \in 1 .. n - k : back[i] = s[k + i]
  <2> DEFINE m == k + 1
  <2>1. n \in Int /\ m \in Int /\ \A i \in m .. n : s[i] \in S
    BY <1>1
  <2>2. /\ SubSeq(s, m, n) \in Seq(S) /\ Len(SubSeq(s, m, n)) = IF m <= n THEN n - m + 1 ELSE 0
        /\ \A i \in 1 .. n - m + 1 : SubSeq(s, m, n)[i] = s[m + i - 1]
    <3> HIDE DEF m, n
    <3> QED
      BY <2>1, SubSeqProperties
  <2>3. n - m + 1 = n - k /\ (m <= n \/ n - k = 0) /\ \A i \in 1 .. n - k : m + i - 1 = k + i
    BY <1>1
  <2> HIDE DEF m
  <2>4. Len(SubSeq(s, m, n)) = n - k /\ \A i \in 1 .. n - k : SubSeq(s, m, n)[i] = s[k + i]
    BY <1>1, <2>1, <2>2, <2>3
  <2> QED
    BY <2>2, <2>4 DEF m
<1> HIDE DEF n, front, back
<1>4. /\ t \in Seq(S) /\ Len(t) = n - 1
      /\ \A i \in 1 .. n - 1 : t[i] = IF i <= k - 1 THEN front[i] ELSE back[i - (k - 1)]
  BY <1>1, <1>2, <1>3, ConcatProperties
<1> HIDE DEF t
<1>5. \A i \in 1 .. n - 1 : t[i] = s[Old(i)] /\ Old(i) \in 1 .. n /\ Old(i) # k
  BY <1>1, <1>2, <1>3, <1>4
<1>6. \A i, j \in 1 .. n : s[i] = s[j] => i = j
  BY DEF IsInjective, n
<1>7. IsInjective(t)
  <2> SUFFICES ASSUME NEW i \in 1 .. n - 1, NEW j \in 1 .. n - 1, t[i] = t[j] PROVE i = j
    BY <1>4 DEF IsInjective
  <2>1. Old(i) = Old(j)
    BY <1>5, <1>6
  <2> QED
    BY <1>1, <2>1
<1>8. ToSet(t) = {t[i] : i \in 1 .. n - 1} /\ ToSet(s) = {s[i] : i \in 1 .. n}
  <2>1. ToSet(t) = {t[i] : i \in 1 .. Len(t)} /\ ToSet(s) = {s[i] : i \in 1 .. Len(s)}
    BY <1>4, ElementsOf
  <2> QED
    BY <1>4, <2>1 DEF n
<1>9. ASSUME NEW e PROVE e \in ToSet(t) <=> e \in ToSet(s) \ {s[k]}
  <2>1. ASSUME NEW i \in 1 .. n - 1, e = t[i] PROVE e \in ToSet(s) \ {s[k]}
    BY <1>1, <1>5, <1>6, <1>8, <2>1
  <2>2. ASSUME NEW i \in 1 .. n, e = s[i], e # s[k] PROVE e \in ToSet(t)
    <3>1. PICK j \in 1 .. n - 1 : Old(j) = i
      <4>1. CASE i < k
        <5>1. i \in 1 .. n - 1 /\ Old(i) = i
          BY <1>1, <4>1
        <5> QED
          BY <5>1
      <4>2. CASE i > k
        <5>1. i - 1 \in 1 .. n - 1 /\ Old(i - 1) = i
          BY <1>1, <4>2
        <5> QED
          BY <5>1
      <4> QED
        BY <1>1, <2>2, <4>1, <4>2
    <3> QED
      BY <1>5, <1>8, <2>2, <3>1
  <2> QED
    BY <1>8, <2>1, <2>2
<1>10. ToSet(t) = ToSet(s) \ {s[k]}
  BY ONLY <1>9
<1>11. RemoveAt(s, k) = t
  BY DEF RemoveAt, t, front, back, n
<1>12. Len(t) = Len(s) - 1
  BY <1>4 DEF n
<1> QED
  BY <1>4, <1>7, <1>10, <1>11, <1>12

LEMMA RemoveFirstFacts ==
  ASSUME NEW S, NEW s \in Seq(S), IsInjective(s), NEW e
  PROVE  /\ RemoveFirst(s, e) \in Seq(S) /\ IsInjective(RemoveFirst(s, e))
         /\ ToSet(RemoveFirst(s, e)) = ToSet(s) \ {e}
         /\ e \in ToSet(s) => Len(RemoveFirst(s, e)) = Len(s) - 1
<1>1. CASE \E i \in 1 .. Len(s) : s[i] = e
  <2>1. PICK k \in 1 .. Len(s) : s[k] = e
    BY <1>1
  <2>2. RemoveFirst(s, e) = RemoveAt(s, k)
    BY <2>1, WhereIn
  <2> QED
    BY <2>1, <2>2, SequenceWithout
<1>2. CASE ~ \E i \in 1 .. Len(s) : s[i] = e
  <2>1. RemoveFirst(s, e) = s
    BY <1>2 DEF RemoveFirst
  <2>2. e \notin ToSet(s)
    BY <1>2, ElementsOf
  <2> QED
    BY <2>1, <2>2
<1> QED
  BY <1>1, <1>2

\* One element more, that was not there.
LEMMA InsertFacts ==
  ASSUME NEW S, NEW s \in Seq(S), IsInjective(s), NEW e \in S, e \notin ToSet(s),
         NEW k \in 1 .. Len(s) + 1
  PROVE  /\ InsertAt(s, k, e) \in Seq(S) /\ IsInjective(InsertAt(s, k, e))
         /\ ToSet(InsertAt(s, k, e)) = ToSet(s) \cup {e}
<1> DEFINE n == Len(s)
           m == k - 1
           front == SubSeq(s, 1, m)
           back == SubSeq(s, k, n)
           t == (front \o <<e>>) \o back
           New(i) == IF i < k THEN i ELSE i + 1
<1>1. n \in Nat /\ m \in Nat /\ k \in 1 .. n + 1 /\ k = m + 1 /\ \A i \in 1 .. n : s[i] \in S
  OBVIOUS
<1>2. /\ front \in Seq(S) /\ Len(front) = m
      /\ \A i \in 1 .. m : front[i] = s[i]
  <2>1. 1 \in Int /\ m \in Int /\ \A i \in 1 .. m : s[i] \in S
    BY <1>1
  <2>2. /\ SubSeq(s, 1, m) \in Seq(S) /\ Len(SubSeq(s, 1, m)) = IF 1 <= m THEN m - 1 + 1 ELSE 0
        /\ \A i \in 1 .. m - 1 + 1 : SubSeq(s, 1, m)[i] = s[1 + i - 1]
    <3> HIDE DEF m
    <3> QED
      BY <2>1, SubSeqProperties
  <2>3. Len(SubSeq(s, 1, m)) = m /\ \A i \in 1 .. m : SubSeq(s, 1, m)[i] = s[i]
    <3> HIDE DEF m
    <3> QED
      BY <1>1, <2>2
  <2> QED
    BY <2>2, <2>3
<1>3. /\ back \in Seq(S) /\ Len(back) = n - m
      /\ \A i \in 1 .. n - m : back[i] = s[m + i]
  <2>1. n \in Int /\ k \in Int /\ \A i \in k .. n : s[i] \in S
    BY <1>1
  <2>2. /\ SubSeq(s, k, n) \in Seq(S) /\ Len(SubSeq(s, k, n)) = IF k <= n THEN n - k + 1 ELSE 0
        /\ \A i \in 1 .. n - k + 1 : SubSeq(s, k, n)[i] = s[k + i - 1]
    <3> HIDE DEF n
    <3> QED
      BY <2>1, SubSeqProperties
  <2>3. n - k + 1 = n - m /\ (k <= n \/ n - m = 0) /\ \A i \in 1 .. n - m : k + i - 1 = m + i
    BY <1>1
  <2> HIDE DEF n, m
  <2> QED
    BY <1>1, <2>2, <2>3
<1> HIDE DEF n, m, front, back
<1>4. /\ front \o <<e>> \in Seq(S) /\ Len(front \o <<e>>) = k
      /\ (front \o <<e>>)[k] = e
      /\ \A i \in 1 .. m : (front \o <<e>>)[i] = s[i]
  BY <1>1, <1>2
<1> DEFINE head == front \o <<e>>
<1> HIDE DEF head
<1>5. /\ head \o back \in Seq(S) /\ Len(head \o back) = k + (n - m)
      /\ \A i \in 1 .. k + (n - m) : (head \o back)[i] = IF i <= k THEN head[i] ELSE back[i - k]
  <2>1. /\ head \in Seq(S) /\ back \in Seq(S)
        /\ Len(head) = k /\ Len(back) = n - m
    BY <1>3, <1>4 DEF head
  <2>2. /\ head \o back \in Seq(S) /\ Len(head \o back) = Len(head) + Len(back)
        /\ \A i \in 1 .. Len(head) + Len(back) :
             (head \o back)[i] = IF i <= Len(head) THEN head[i] ELSE back[i - Len(head)]
    BY <2>1, ConcatProperties
  <2> QED
    BY <2>1, <2>2
<1>6. t = head \o back
  BY DEF head
<1> HIDE DEF t
<1>7. t \in Seq(S) /\ Len(t) = n + 1 /\ t[k] = e
  BY <1>1, <1>4, <1>5, <1>6 DEF head
<1>8. ASSUME NEW i \in 1 .. n PROVE t[New(i)] = s[i] /\ New(i) \in 1 .. n + 1 /\ New(i) # k
  <2>1. CASE i < k
    BY <1>1, <1>4, <1>5, <1>6, <2>1 DEF head
  <2>2. CASE i >= k
    <3>1. t[i + 1] = back[i + 1 - k]
      BY <1>1, <1>5, <1>6, <2>2
    <3>2. i + 1 - k \in 1 .. n - m /\ m + (i + 1 - k) = i
      BY <1>1, <2>2
    <3> QED
      BY <1>1, <1>3, <2>2, <3>1, <3>2
  <2> QED
    BY <1>1, <2>1, <2>2
<1>9. ASSUME NEW j \in 1 .. n + 1, j # k PROVE \E i \in 1 .. n : New(i) = j
  <2>1. CASE j < k
    <3>1. j \in 1 .. n /\ New(j) = j
      BY <1>1, <2>1
    <3> QED
      BY <3>1
  <2>2. CASE j > k
    <3>1. j - 1 \in 1 .. n /\ New(j - 1) = j
      BY <1>1, <2>2
    <3> QED
      BY <3>1
  <2> QED
    BY <1>1, <1>9, <2>1, <2>2
<1>10. ToSet(t) = {t[i] : i \in 1 .. n + 1} /\ ToSet(s) = {s[i] : i \in 1 .. n}
  <2>1. ToSet(t) = {t[i] : i \in 1 .. Len(t)} /\ ToSet(s) = {s[i] : i \in 1 .. Len(s)}
    BY <1>7, ElementsOf
  <2> QED
    BY <1>7, <2>1 DEF n
<1>11. /\ \A i \in 1 .. n : s[i] # e
       /\ \A i, j \in 1 .. n : s[i] = s[j] => i = j
  BY <1>10 DEF IsInjective, n
<1>12. IsInjective(t)
  <2> SUFFICES ASSUME NEW i \in 1 .. n + 1, NEW j \in 1 .. n + 1, t[i] = t[j] PROVE i = j
    BY <1>7 DEF IsInjective
  <2> HIDE DEF New
  <2>1. ASSUME NEW x \in 1 .. n + 1, x # k PROVE t[x] # e
    BY <1>8, <1>9, <1>11, <2>1
  <2>2. CASE i = k \/ j = k
    BY <1>7, <2>1, <2>2
  <2>3. CASE i # k /\ j # k
    BY <1>8, <1>9, <1>11, <2>3
  <2> QED
    BY <2>2, <2>3
<1>13. ASSUME NEW x PROVE x \in ToSet(t) <=> x \in ToSet(s) \cup {e}
  <2> HIDE DEF New
  <2>1. ASSUME NEW j \in 1 .. n + 1, x = t[j] PROVE x \in ToSet(s) \cup {e}
    BY <1>7, <1>8, <1>9, <1>10, <2>1
  <2>2. ASSUME NEW i \in 1 .. n, x = s[i] PROVE x \in ToSet(t)
    BY <1>8, <1>10, <2>2
  <2>3. e \in ToSet(t)
    <3>1. k \in 1 .. n + 1
      BY <1>1
    <3> QED
      BY <3>1, <1>7, <1>10
  <2> QED
    BY <1>10, <2>1, <2>2, <2>3
<1>14. ToSet(t) = ToSet(s) \cup {e}
  BY ONLY <1>13
<1>15. InsertAt(s, k, e) = t
  BY DEF InsertAt, t, front, back, n, m
<1> QED
  BY <1>7, <1>12, <1>14, <1>15

LEMMA ConcatFacts ==
  ASSUME NEW S, NEW s \in Seq(S), NEW t \in Seq(S), IsInjective(s), IsInjective(t),
         ToSet(s) \cap ToSet(t) = {}
  PROVE  /\ s \o t \in Seq(S) /\ IsInjective(s \o t)
         /\ ToSet(s \o t) = ToSet(s) \cup ToSet(t)
<1> DEFINE n == Len(s)
           m == Len(t)
           u == s \o t
<1>1. /\ n \in Nat /\ m \in Nat /\ u \in Seq(S) /\ Len(u) = n + m
      /\ \A i \in 1 .. n + m : u[i] = IF i <= n THEN s[i] ELSE t[i - n]
  BY ConcatProperties
<1>2. /\ ToSet(s) = {s[i] : i \in 1 .. n} /\ ToSet(t) = {t[i] : i \in 1 .. m}
      /\ ToSet(u) = {u[i] : i \in 1 .. Len(u)}
  <2>1. ToSet(s) = {s[i] : i \in 1 .. n} /\ ToSet(t) = {t[i] : i \in 1 .. m}
    BY ElementsOf
  <2> HIDE DEF u
  <2>2. ToSet(u) = {u[i] : i \in 1 .. Len(u)}
    BY <1>1, ElementsOf
  <2> QED
    BY <2>1, <2>2
<1>3. /\ \A i, j \in 1 .. n : s[i] = s[j] => i = j
      /\ \A i, j \in 1 .. m : t[i] = t[j] => i = j
  BY DEF IsInjective
<1> HIDE DEF n, m, u
<1>4. ASSUME NEW i \in 1 .. n PROVE i \in 1 .. n + m /\ u[i] = s[i]
  BY <1>1
<1>5. ASSUME NEW j \in 1 .. m PROVE n + j \in 1 .. n + m /\ u[n + j] = t[j]
  <2>1. n + j \in 1 .. n + m /\ ~(n + j <= n) /\ (n + j) - n = j
    BY <1>1
  <2> QED
    BY <1>1, <2>1
<1>6. ASSUME NEW i \in 1 .. n + m
      PROVE  i \in 1 .. n \/ \E j \in 1 .. m : i = n + j
  <2>1. CASE i <= n
    BY <1>1, <2>1
  <2>2. CASE i > n
    <3>1. i - n \in 1 .. m /\ i = n + (i - n)
      BY <1>1, <2>2
    <3> QED
      BY <3>1
  <2> QED
    BY <1>1, <2>1, <2>2
<1>7. IsInjective(u)
  <2> SUFFICES ASSUME NEW i \in 1 .. n + m, NEW j \in 1 .. n + m, u[i] = u[j] PROVE i = j
    BY <1>1 DEF IsInjective
  <2>1. CASE i \in 1 .. n /\ j \in 1 .. n
    BY <1>3, <1>4, <2>1
  <2>2. ASSUME NEW x \in 1 .. n, NEW y \in 1 .. m PROVE u[x] # u[n + y]
    BY <1>2, <1>4, <1>5
  <2>3. ASSUME NEW x \in 1 .. m, NEW y \in 1 .. m, u[n + x] = u[n + y] PROVE x = y
    BY <1>3, <1>5, <2>3
  <2> QED
    BY <1>6, <2>1, <2>2, <2>3
<1>8. ASSUME NEW e PROVE e \in ToSet(u) <=> e \in ToSet(s) \cup ToSet(t)
  <2>1. e \in ToSet(u) <=> \E i \in 1 .. n + m : e = u[i]
    BY <1>1, <1>2
  <2> QED
    BY <1>2, <1>4, <1>5, <1>6, <2>1
<1>9. ToSet(u) = ToSet(s) \cup ToSet(t)
  BY ONLY <1>8
<1> QED
  BY <1>1, <1>7, <1>9 DEF u

LEMMA OneElement ==
  ASSUME NEW S, NEW e \in S
  PROVE  <<e>> \in Seq(S) /\ IsInjective(<<e>>) /\ ToSet(<<e>>) = {e}
  BY DEF IsInjective, ToSet

(* FlattenSeq. *)
IsFlattened(q, n, f) ==
  f = [i \in 1 .. n |-> IF i = 1 THEN q[i] ELSE f[i - 1] \o q[i]]

LEMMA FlattenedIs ==
  ASSUME NEW q, Len(q) # 0
  PROVE  FlattenSeq(q) = (CHOOSE f : IsFlattened(q, Len(q), f))[Len(q)]
  BY DEF FlattenSeq, IsFlattened

LEMMA FlattenedExists ==
  ASSUME NEW q, NEW n \in Nat
  PROVE  \E f : IsFlattened(q, n, f)
<1> DEFINE T == {m \in Nat : \E f : IsFlattened(q, m, f)}
<1>1. 0 \in T
  <2> DEFINE f == [i \in 1 .. 0 |-> q]
  <2>1. IsFlattened(q, 0, f)
    BY DEF IsFlattened
  <2> QED
    BY <2>1
<1>2. ASSUME NEW m \in T PROVE m + 1 \in T
  <2>1. PICK f : IsFlattened(q, m, f)
    OBVIOUS
  <2>2. m \in Nat
    OBVIOUS
  <2> HIDE DEF T
  <2> DEFINE g == [i \in 1 .. (m + 1) |-> IF i = 1 THEN q[i] ELSE f[i - 1] \o q[i]]
  <2>3. \A i \in 1 .. m : g[i] = f[i]
    <3>1. \A i \in 1 .. m : f[i] = IF i = 1 THEN q[i] ELSE f[i - 1] \o q[i]
      BY <2>1 DEF IsFlattened
    <3>2. 1 .. m \subseteq 1 .. (m + 1)
      BY <2>2
    <3> QED
      BY <3>1, <3>2
  <2>4. \A i \in 1 .. (m + 1) : i # 1 => g[i - 1] = f[i - 1]
    <3>1. \A i \in 1 .. (m + 1) : i # 1 => i - 1 \in 1 .. m
      BY <2>2
    <3> HIDE DEF g
    <3> QED
      BY <2>3, <3>1
  <2>5. IsFlattened(q, m + 1, g)
    BY <2>4, Zenon DEF IsFlattened
  <2> QED
    BY <2>2, <2>5 DEF T
<1> HIDE DEF T
<1>3. T = Nat
  BY <1>1, <1>2, AllNaturals DEF T
<1> QED
  BY <1>3 DEF T

\* The parts one after the other.
LEMMA FlattenFacts ==
  ASSUME NEW S, NEW q \in Seq(Seq(S)),
         \A i \in 1 .. Len(q) : IsInjective(q[i]),
         \A i, j \in 1 .. Len(q) : i # j => ToSet(q[i]) \cap ToSet(q[j]) = {}
  PROVE  /\ FlattenSeq(q) \in Seq(S) /\ IsInjective(FlattenSeq(q))
         /\ ToSet(FlattenSeq(q)) = UNION {ToSet(q[i]) : i \in 1 .. Len(q)}
<1> DEFINE n == Len(q)
           Parts(m) == UNION {ToSet(q[i]) : i \in 1 .. m}
<1>1. n \in Nat /\ \A i \in 1 .. n : q[i] \in Seq(S)
  OBVIOUS
<1>2. CASE n = 0
  <2>1. q = << >> /\ FlattenSeq(q) = q
    BY <1>2 DEF FlattenSeq
  <2>2. << >> \in Seq(S) /\ IsInjective(<< >>) /\ ToSet(<< >>) = {}
    BY DEF IsInjective, ToSet
  <2>3. Parts(n) = {}
    BY <1>2
  <2> QED
    BY <2>1, <2>2, <2>3
<1>3. CASE n # 0
  <2> DEFINE f == CHOOSE g : IsFlattened(q, n, g)
             T == {m \in Nat : (1 <= m /\ m <= n) =>
                     /\ f[m] \in Seq(S) /\ IsInjective(f[m]) /\ ToSet(f[m]) = Parts(m)}
  <2>1. IsFlattened(q, n, f)
    BY <1>1, FlattenedExists
  <2>2. FlattenSeq(q) = f[n]
    BY <1>3, FlattenedIs
  <2> HIDE DEF f
  <2>3. \A i \in 1 .. n : f[i] = IF i = 1 THEN q[i] ELSE f[i - 1] \o q[i]
    BY <2>1 DEF IsFlattened
  <2>4. 0 \in T
    OBVIOUS
  <2>5. ASSUME NEW m \in T PROVE m + 1 \in T
    <3>1. m \in Nat
      OBVIOUS
    <3>2. SUFFICES ASSUME m + 1 <= n
                   PROVE  /\ f[m + 1] \in Seq(S) /\ IsInjective(f[m + 1])
                          /\ ToSet(f[m + 1]) = Parts(m + 1)
      BY <3>1
    <3>3. m + 1 \in 1 .. n /\ q[m + 1] \in Seq(S) /\ IsInjective(q[m + 1])
      BY <1>1, <3>1, <3>2
    <3>4. Parts(m + 1) = Parts(m) \cup ToSet(q[m + 1])
      <4>1. \A i \in 1 .. m + 1 : i \in 1 .. m \/ i = m + 1
        BY <3>1
      <4>2. m + 1 \in 1 .. m + 1 /\ 1 .. m \subseteq 1 .. m + 1
        BY <3>1
      <4> QED
        BY ONLY <4>1, <4>2
    <3>5. CASE m = 0
      <4>1. f[m + 1] = q[m + 1]
        <5>1. m + 1 = 1
          BY <3>5
        <5> HIDE DEF T, Parts
        <5> QED
          BY <2>3, <3>3, <5>1
      <4>2. Parts(m) = {}
        BY <3>5
      <4> HIDE DEF Parts
      <4> QED
        BY <3>3, <3>4, <4>1, <4>2
    <3>6. CASE m # 0
      <4>1. f[m] \in Seq(S) /\ IsInjective(f[m]) /\ ToSet(f[m]) = Parts(m)
        BY <3>1, <3>2, <3>6, <1>1
      <4>2. f[m + 1] = f[m] \o q[m + 1]
        <5>1. m + 1 # 1 /\ (m + 1) - 1 = m
          BY <3>1, <3>6
        <5> HIDE DEF T
        <5> QED
          BY <2>3, <3>3, <5>1
      <4>3. Parts(m) \cap ToSet(q[m + 1]) = {}
        <5>1. \A i \in 1 .. m : i \in 1 .. n /\ i # m + 1
          BY <1>1, <3>1, <3>2
        <5>2. ASSUME NEW i \in 1 .. m PROVE ToSet(q[i]) \cap ToSet(q[m + 1]) = {}
          <6> HIDE DEF T, Parts
          <6> QED
            BY <3>3, <5>1
        <5> HIDE DEF T
        <5> QED
          BY ONLY <5>2
      <4> HIDE DEF Parts, T
      <4>4. /\ f[m] \o q[m + 1] \in Seq(S) /\ IsInjective(f[m] \o q[m + 1])
            /\ ToSet(f[m] \o q[m + 1]) = ToSet(f[m]) \cup ToSet(q[m + 1])
        <5>1. ToSet(f[m]) \cap ToSet(q[m + 1]) = {}
          BY <4>1, <4>3
        <5> DEFINE a == f[m]
                   b == q[m + 1]
        <5>2. /\ a \in Seq(S) /\ IsInjective(a) /\ b \in Seq(S) /\ IsInjective(b)
              /\ ToSet(a) \cap ToSet(b) = {}
          BY <3>3, <4>1, <5>1
        <5> HIDE DEF a, b
        <5>3. a \o b \in Seq(S) /\ IsInjective(a \o b) /\ ToSet(a \o b) = ToSet(a) \cup ToSet(b)
          BY ONLY <5>2, ConcatFacts
        <5> QED
          BY <5>3 DEF a, b
      <4> QED
        BY <3>4, <4>1, <4>2, <4>4
    <3> QED
      BY <3>5, <3>6
  <2>6. T = Nat
    <3>1. T \in SUBSET Nat
      OBVIOUS
    <3> HIDE DEF T
    <3> QED
      BY <2>4, <2>5, <3>1, AllNaturals
  <2>7. n \in T /\ 1 <= n
    <3> HIDE DEF T
    <3> QED
      BY <1>1, <1>3, <2>6
  <2>8. f[n] \in Seq(S) /\ IsInjective(f[n]) /\ ToSet(f[n]) = Parts(n)
    BY <1>1, <2>7
  <2> QED
    BY <2>2, <2>8
<1> QED
  BY <1>2, <1>3
-----------------------------------------------------------------------------
(* The tree.                                                                 *)

\* The stages of a set carry the same boosters as before.
SameBoosters(tree, t, stages) ==
  \A x \in stages : WithSubStages(t, x) = WithSubStages(tree, x)

\* A stage leaves its place, takes one, or changes it; removed stages are destroyed.
Shrunk(tree, p, s)   == [tree EXCEPT ![p] = RemoveFirst(tree[p], s)]
Grown(tree, p, i, s) == [tree EXCEPT ![p] = InsertAt(tree[p], i, s)]
Moved(tree, p, i, s) == [tree EXCEPT ![p] = InsertAt(RemoveFirst(tree[p], s), i, s)]
Cleared(tree, gone)  == [p \in Parent |-> IF p \in gone THEN << >> ELSE tree[p]]

OneLess(s, t) == Len(s) = Len(t) - 1

LEMMA Disjoint ==
  /\ Root \notin Stage /\ Parent = {Root} \cup Core
  /\ \A s \in Stage : s \in Core <=> s \notin Booster
  /\ Core \subseteq Stage /\ Booster \subseteq Stage
  BY StagesAssumption DEF Stage, Parent

LEMMA InTreeIs ==
  ASSUME NEW tree, NEW h, TreeSound(tree, h)
  PROVE  /\ InTree(tree) \subseteq Stage
         /\ \A s \in Core : s \in InTree(tree) <=> s \in ToSet(tree[Root])
         /\ \A s \in Booster : s \in InTree(tree) <=>
              \E p \in ToSet(tree[Root]) : s \in ToSet(tree[p])
  BY Disjoint DEF TreeSound, InTree

LEMMA EmptySequence ==
  ASSUME NEW S, NEW s \in Seq(S)
  PROVE  ToSet(s) = {} <=> s = << >>
<1>1. ToSet(s) = {s[i] : i \in 1 .. Len(s)} /\ Len(s) \in Nat
  BY ElementsOf
<1>2. CASE Len(s) = 0
  <2>1. s = << >>
    BY <1>2
  <2>2. 1 .. Len(s) = {}
    BY <1>2
  <2> QED
    BY <1>1, <2>1, <2>2
<1>3. CASE Len(s) # 0
  <2>1. 1 \in 1 .. Len(s)
    BY <1>1, <1>3
  <2>2. s # << >>
    BY <1>3
  <2> QED
    BY <1>1, <2>1, <2>2
<1> QED
  BY <1>2, <1>3

\* getSubStages() finds the stages of the tree, each once.
LEMMA StagesFacts ==
  ASSUME NEW tree, NEW h, TreeSound(tree, h)
  PROVE  /\ Stages(tree) \in Seq(Stage) /\ IsInjective(Stages(tree))
         /\ ToSet(Stages(tree)) = InTree(tree)
<1> DEFINE top == tree[Root]
           n == Len(top)
           Part(i) == <<top[i]>> \o tree[top[i]]
           parts == [i \in 1 .. n |-> Part(i)]
<1>1. /\ top \in Seq(Stage) /\ n \in Nat /\ DOMAIN top = 1 .. n
      /\ ToSet(top) = {top[i] : i \in 1 .. n} /\ ToSet(top) \subseteq Core
      /\ \A i, j \in 1 .. n : top[i] = top[j] => i = j
  <2>1. Root \in Parent
    BY Disjoint
  <2>2. top \in Seq(Stage) /\ IsInjective(top) /\ ToSet(top) \subseteq Core
    BY <2>1 DEF TreeSound
  <2> QED
    BY <2>2, ElementsOf DEF IsInjective
<1>2. \A i \in 1 .. n : top[i] \in Core
  BY <1>1
<1>3. Stages(tree) = FlattenSeq(parts)
  BY <1>1 DEF Stages
<1> HIDE DEF top, n
<1>4. ASSUME NEW i \in 1 .. n
      PROVE  /\ Part(i) \in Seq(Stage) /\ IsInjective(Part(i))
             /\ ToSet(Part(i)) = {top[i]} \cup ToSet(tree[top[i]])
             /\ ToSet(tree[top[i]]) \subseteq Booster
  <2> DEFINE a == top[i]
             b == tree[a]
  <2>1. a \in Core /\ a \in Stage /\ a \in Parent
    BY <1>2, Disjoint
  <2>2. b \in Seq(Stage) /\ IsInjective(b) /\ ToSet(b) \subseteq Booster
    BY <2>1 DEF TreeSound
  <2> HIDE DEF a, b
  <2>3. <<a>> \in Seq(Stage) /\ IsInjective(<<a>>) /\ ToSet(<<a>>) = {a}
    BY <2>1, OneElement
  <2>4. ToSet(<<a>>) \cap ToSet(b) = {}
    BY <2>1, <2>2, <2>3, Disjoint
  <2>5. /\ <<a>> \o b \in Seq(Stage) /\ IsInjective(<<a>> \o b)
        /\ ToSet(<<a>> \o b) = {a} \cup ToSet(b)
    <3> DEFINE c == <<a>>
    <3>1. c \in Seq(Stage) /\ IsInjective(c) /\ ToSet(c) = {a} /\ ToSet(c) \cap ToSet(b) = {}
      BY <2>3, <2>4
    <3> HIDE DEF c
    <3>2. c \o b \in Seq(Stage) /\ IsInjective(c \o b) /\ ToSet(c \o b) = ToSet(c) \cup ToSet(b)
      BY ONLY <2>2, <3>1, ConcatFacts
    <3> QED
      BY <3>1, <3>2 DEF c
  <2> QED
    BY <2>2, <2>5 DEF a, b
<1>5. ASSUME NEW i \in 1 .. n, NEW j \in 1 .. n, i # j
      PROVE  ToSet(Part(i)) \cap ToSet(Part(j)) = {}
  <2>1. top[i] # top[j] /\ top[i] \in Core /\ top[j] \in Core
    BY <1>1, <1>2, <1>5
  <2>2. ToSet(tree[top[i]]) \cap ToSet(tree[top[j]]) = {}
    BY <2>1 DEF TreeSound, Parent
  <2> HIDE DEF Part
  <2> QED
    BY <1>4, <2>1, <2>2, Disjoint
<1> HIDE DEF Part
<1>6. /\ parts \in Seq(Seq(Stage)) /\ Len(parts) = n
      /\ \A i \in 1 .. n : parts[i] = Part(i)
  BY <1>1, <1>4
<1> HIDE DEF parts
<1>7. /\ FlattenSeq(parts) \in Seq(Stage) /\ IsInjective(FlattenSeq(parts))
      /\ ToSet(FlattenSeq(parts)) = UNION {ToSet(parts[i]) : i \in 1 .. Len(parts)}
  <2>1. /\ \A i \in 1 .. Len(parts) : IsInjective(parts[i])
        /\ \A i, j \in 1 .. Len(parts) : i # j => ToSet(parts[i]) \cap ToSet(parts[j]) = {}
    BY <1>4, <1>5, <1>6
  <2> QED
    BY <1>6, <2>1, FlattenFacts
<1>8. UNION {ToSet(parts[i]) : i \in 1 .. Len(parts)} = InTree(tree)
  <2>1. ASSUME NEW e
        PROVE  e \in UNION {ToSet(parts[i]) : i \in 1 .. Len(parts)}
                 <=> \E i \in 1 .. n : e = top[i] \/ e \in ToSet(tree[top[i]])
    BY <1>4, <1>6
  <2>2. InTree(tree) = ToSet(top) \cup UNION {ToSet(tree[s]) : s \in ToSet(top)}
    BY DEF InTree, top
  <2> HIDE DEF InTree
  <2>3. ASSUME NEW e
        PROVE  e \in InTree(tree)
                 <=> \E i \in 1 .. n : e = top[i] \/ e \in ToSet(tree[top[i]])
    BY <1>1, <2>2
  <2> QED
    BY <2>1, <2>3
<1> QED
  BY <1>3, <1>7, <1>8

LEMMA ParentFacts ==
  ASSUME NEW tree, NEW h, TreeSound(tree, h), NEW s \in InTree(tree)
  PROVE  /\ ParentOf(tree, s) \in Parent /\ s \in ToSet(tree[ParentOf(tree, s)])
         /\ s \in Core <=> ParentOf(tree, s) = Root
         /\ ParentOf(tree, s) # Root => ParentOf(tree, s) \in ToSet(tree[Root])
         /\ ParentOf(tree, s) # s
<1> DEFINE p == ParentOf(tree, s)
<1>1. \E q \in Parent : s \in ToSet(tree[q])
  BY Disjoint DEF InTree, TreeSound
<1>2. p \in Parent /\ s \in ToSet(tree[p])
  BY <1>1 DEF ParentOf
<1> HIDE DEF p
<1>3. s \in Stage /\ (s \in Core <=> p = Root)
  BY <1>2, InTreeIs, Disjoint DEF TreeSound
<1>4. p # Root => p \in ToSet(tree[Root])
  <2> SUFFICES ASSUME p # Root PROVE p \in ToSet(tree[Root])
    OBVIOUS
  <2>1. s \in Booster
    BY <1>3, Disjoint
  <2>2. PICK q \in ToSet(tree[Root]) : s \in ToSet(tree[q])
    BY <2>1, InTreeIs
  <2>3. q \in Parent
    BY <2>2, Disjoint DEF TreeSound
  <2> QED
    BY <1>2, <2>2, <2>3 DEF TreeSound
<1>5. p # s
  BY <1>2, <1>3, Disjoint
<1> QED
  BY <1>2, <1>3, <1>4, <1>5 DEF p

LEMMA PlaceFacts ==
  ASSUME NEW S, NEW seq \in Seq(S), NEW e \in ToSet(seq)
  PROVE  PlaceOf(seq, e) \in 1 .. Len(seq) /\ seq[PlaceOf(seq, e)] = e
  BY DEF PlaceOf, ToSet

\* removeChild(): the stage and its boosters leave the tree.
LEMMA UnlinkedTree ==
  ASSUME NEW tree, NEW h \in SUBSET Stage, TreeSound(tree, h), NEW s \in InTree(tree),
         NEW p, p = ParentOf(tree, s), NEW t, t = Shrunk(tree, p, s)
  PROVE  /\ TreeSound(t, h \cup {s}) /\ InTree(t) = InTree(tree) \ WithSubStages(tree, s)
         /\ SameBoosters(tree, t, h \cup {s})
         /\ OneLess(t[p], tree[p])
<1>1. /\ p \in Parent /\ s \in ToSet(tree[p]) /\ (s \in Core <=> p = Root)
      /\ (p # Root => p \in ToSet(tree[Root])) /\ p # s
  BY ParentFacts
<1>2. /\ tree[p] \in Seq(Stage) /\ IsInjective(tree[p])
      /\ RemoveFirst(tree[p], s) \in Seq(Stage) /\ IsInjective(RemoveFirst(tree[p], s))
      /\ ToSet(RemoveFirst(tree[p], s)) = ToSet(tree[p]) \ {s}
      /\ Len(RemoveFirst(tree[p], s)) = Len(tree[p]) - 1
  <2>1. tree[p] \in Seq(Stage) /\ IsInjective(tree[p])
    BY <1>1 DEF TreeSound
  <2> QED
    BY <1>1, <2>1, RemoveFirstFacts
<1>3. /\ t \in [Parent -> Seq(Stage)]
      /\ \A q \in Parent : t[q] = IF q = p THEN RemoveFirst(tree[p], s) ELSE tree[q]
  BY <1>1, <1>2 DEF TreeSound, Shrunk
<1>4. \A q \in Parent : ToSet(t[q]) = ToSet(tree[q]) \ {s}
  BY <1>1, <1>2, <1>3 DEF TreeSound
<1>5. TreeSound(t, h \cup {s})
  <2>1. ToSet(t[Root]) \subseteq Core /\ \A q \in Core : ToSet(t[q]) \subseteq Booster
    BY <1>4 DEF TreeSound, Parent
  <2>2. \A q \in Parent : IsInjective(t[q]) /\ ToSet(t[q]) \cap (h \cup {s}) = {}
    BY <1>2, <1>3, <1>4 DEF TreeSound
  <2>3. \A q, u \in Parent : q # u => ToSet(t[q]) \cap ToSet(t[u]) = {}
    BY <1>4 DEF TreeSound
  <2>4. \A q \in Core : q \in ToSet(t[Root]) \/ q \in h \cup {s} \/ t[q] = << >>
    <3>1. Root \in Parent /\ \A q \in Core : q \in Parent
      BY DEF Parent
    <3>2. \A q \in Core : q \in ToSet(tree[Root]) \/ q \in h \/ tree[q] = << >>
      BY DEF TreeSound
    <3>3. \A q \in Core : q \in ToSet(tree[Root]) => q \in ToSet(t[Root]) \/ q = s
      BY <1>4, <3>1
    <3>4. \A q \in Core : q = p => q \in ToSet(tree[Root])
      BY <1>1, Disjoint
    <3> QED
      BY <1>3, <3>1, <3>2, <3>3, <3>4
  <2> QED
    BY <1>3, <2>1, <2>2, <2>3, <2>4 DEF TreeSound
<1>6. \A x \in h \cup {s} : WithSubStages(t, x) = WithSubStages(tree, x)
  <2> SUFFICES ASSUME NEW x \in h \cup {s} PROVE SubStages(t, x) = SubStages(tree, x)
    BY DEF WithSubStages
  <2>1. Root \in Parent /\ Root \notin h
    BY Disjoint
  <2>2. p \notin h
    BY <1>1, <2>1 DEF TreeSound
  <2>3. x # p
    BY <1>1, <2>2
  <2> QED
    BY <1>3, <2>3 DEF SubStages, Parent
<1>7. ASSUME NEW e PROVE e \in InTree(t) <=> e \in InTree(tree) \ WithSubStages(tree, s)
  <2>1. s \in Stage
    BY InTreeIs
  <2>2. CASE e \in Core
    <3>1. e \in InTree(t) <=> e \in ToSet(tree[Root]) /\ e # s
      BY <1>4, <1>5, <2>2, InTreeIs, Disjoint
    <3>2. e \in WithSubStages(tree, s) <=> e = s
      BY <2>1, <2>2, Disjoint DEF WithSubStages, SubStages, TreeSound, ToSet
    <3> QED
      BY <2>2, <3>1, <3>2, InTreeIs
  <2>3. CASE e \in Booster
    <3>1. e \in InTree(t) <=> \E q \in ToSet(t[Root]) : e \in ToSet(t[q])
      BY <1>5, <2>3, InTreeIs
    <3>2. e \in InTree(tree) <=> \E q \in ToSet(tree[Root]) : e \in ToSet(tree[q])
      BY <2>3, InTreeIs
    <3>3. ToSet(tree[Root]) \subseteq Parent /\ ToSet(t[Root]) = ToSet(tree[Root]) \ {s}
      BY <1>4 DEF TreeSound, Parent
    <3>4. CASE s \in Core
      <4>1. e \in WithSubStages(tree, s) <=> e \in ToSet(tree[s])
        BY <2>3, <3>4, Disjoint DEF WithSubStages, SubStages
      <4>2. s \in Parent /\ e # s
        BY <2>3, <3>4, Disjoint
      <4> QED
        BY <1>4, <3>1, <3>2, <3>3, <4>1, <4>2 DEF TreeSound
    <3>5. CASE s \notin Core
      <4>1. e \in WithSubStages(tree, s) <=> e = s
        BY <3>5 DEF WithSubStages, SubStages, ToSet
      <4>2. s \notin ToSet(tree[Root])
        BY <3>5 DEF TreeSound
      <4> QED
        BY <1>4, <3>1, <3>2, <3>3, <4>1, <4>2
    <3> QED
      BY <3>4, <3>5
  <2>4. CASE e \notin Stage
    BY <1>5, <2>4, InTreeIs
  <2> QED
    BY <2>2, <2>3, <2>4 DEF Stage
<1> QED
  BY <1>1, <1>2, <1>3, <1>5, <1>6, <1>7 DEF SameBoosters, OneLess

\* insertChild(): the stage joins the tree with its boosters.
LEMMA LinkedTree ==
  ASSUME NEW tree, NEW h \in SUBSET Stage, TreeSound(tree, h),
         NEW s \in Stage, \A q \in Parent : s \notin ToSet(tree[q]),
         NEW p \in Parent, s \in Core <=> p = Root, p # Root => p \in ToSet(tree[Root]),
         NEW i \in 1 .. Len(tree[p]) + 1,
         NEW t, t = Grown(tree, p, i, s)
  PROVE  /\ TreeSound(t, h \ {s}) /\ InTree(t) = InTree(tree) \cup WithSubStages(tree, s)
         /\ SameBoosters(tree, t, h \cup {s})
<1>1. /\ tree[p] \in Seq(Stage) /\ IsInjective(tree[p])
      /\ InsertAt(tree[p], i, s) \in Seq(Stage) /\ IsInjective(InsertAt(tree[p], i, s))
      /\ ToSet(InsertAt(tree[p], i, s)) = ToSet(tree[p]) \cup {s}
  <2>1. tree[p] \in Seq(Stage) /\ IsInjective(tree[p])
    BY DEF TreeSound
  <2> QED
    BY <2>1, InsertFacts
<1>2. /\ t \in [Parent -> Seq(Stage)]
      /\ \A q \in Parent : t[q] = IF q = p THEN InsertAt(tree[p], i, s) ELSE tree[q]
  BY <1>1 DEF TreeSound, Grown
<1>3. \A q \in Parent : ToSet(t[q]) = ToSet(tree[q]) \cup (IF q = p THEN {s} ELSE {})
  BY <1>1, <1>2
<1>4. Root \in Parent /\ Root \notin h /\ (\A q \in Core : q \in Parent) /\ s # Root
  BY Disjoint
<1>5. p \notin h /\ p # s
  BY <1>4, Disjoint DEF TreeSound
<1>6. TreeSound(t, h \ {s})
  <2>1. ToSet(t[Root]) \subseteq Core /\ \A q \in Core : ToSet(t[q]) \subseteq Booster
    <3>1. p # Root => s \in Booster
      BY Disjoint
    <3>2. ToSet(tree[Root]) \subseteq Core /\ \A q \in Core : ToSet(tree[q]) \subseteq Booster
      BY DEF TreeSound
    <3>3. \A q \in Core : q # Root
      BY Disjoint
    <3> QED
      BY <1>3, <1>4, <3>1, <3>2, <3>3
  <2>2. \A q \in Parent : IsInjective(t[q]) /\ ToSet(t[q]) \cap (h \ {s}) = {}
    BY <1>1, <1>2, <1>3 DEF TreeSound
  <2>3. \A q, u \in Parent : q # u => ToSet(t[q]) \cap ToSet(t[u]) = {}
    <3> SUFFICES ASSUME NEW q \in Parent, NEW u \in Parent, q # u
                 PROVE  ToSet(t[q]) \cap ToSet(t[u]) = {}
      OBVIOUS
    <3>1. ToSet(tree[q]) \cap ToSet(tree[u]) = {}
      BY DEF TreeSound
    <3> QED
      BY <1>3, <3>1
  <2>4. \A q \in Core : q \in ToSet(t[Root]) \/ q \in h \ {s} \/ t[q] = << >>
    <3>1. \A q \in Core : q \in ToSet(tree[Root]) \/ q \in h \/ tree[q] = << >>
      BY DEF TreeSound
    <3>2. s \in Core => s \in ToSet(t[Root])
      BY <1>3, <1>4
    <3>3. \A q \in Core : q \in ToSet(tree[Root]) => q \in ToSet(t[Root])
      BY <1>3, <1>4
    <3>4. \A q \in Core : q = p => q \in ToSet(tree[Root])
      BY <1>4, Disjoint
    <3> QED
      BY <1>2, <1>4, <3>1, <3>2, <3>3, <3>4
  <2> QED
    BY <1>2, <2>1, <2>2, <2>3, <2>4 DEF TreeSound
<1>7. \A x \in h \cup {s} : WithSubStages(t, x) = WithSubStages(tree, x)
  <2> SUFFICES ASSUME NEW x \in h \cup {s} PROVE SubStages(t, x) = SubStages(tree, x)
    BY DEF WithSubStages
  <2>1. x # p
    BY <1>5
  <2> QED
    BY <1>2, <1>4, <2>1 DEF SubStages
<1>8. ASSUME NEW e PROVE e \in InTree(t) <=> e \in InTree(tree) \cup WithSubStages(tree, s)
  <2>1. ToSet(t[Root]) \subseteq Parent /\ ToSet(tree[Root]) \subseteq Parent
    BY <1>3, <1>4, <1>6 DEF TreeSound
  <2>2. CASE e \in Core
    <3>1. e \in InTree(t) <=> e \in ToSet(tree[Root]) \/ (p = Root /\ e = s)
      BY <1>3, <1>4, <1>6, <2>2, InTreeIs
    <3>2. e \in WithSubStages(tree, s) <=> e = s
      BY <2>2, Disjoint DEF WithSubStages, SubStages, TreeSound, ToSet
    <3> QED
      BY <2>2, <3>1, <3>2, InTreeIs
  <2>3. CASE e \in Booster
    <3>1. e \in InTree(t) <=> \E q \in ToSet(t[Root]) : e \in ToSet(t[q])
      BY <1>6, <2>3, InTreeIs
    <3>2. e \in InTree(tree) <=> \E q \in ToSet(tree[Root]) : e \in ToSet(tree[q])
      BY <2>3, InTreeIs
    <3>3. CASE s \in Core
      <4>1. e \in WithSubStages(tree, s) <=> e \in ToSet(tree[s])
        BY <2>3, <3>3, Disjoint DEF WithSubStages, SubStages
      <4>2. /\ e # s /\ p = Root /\ s \in Parent
            /\ ToSet(t[Root]) = ToSet(tree[Root]) \cup {s}
        BY <1>3, <1>4, <2>3, <3>3, Disjoint
      <4>3. \A q \in Parent : e \in ToSet(t[q]) <=> e \in ToSet(tree[q])
        BY <1>3, <4>2
      <4> QED
        BY <2>1, <3>1, <3>2, <4>1, <4>2, <4>3
    <3>4. CASE s \notin Core
      <4>1. e \in WithSubStages(tree, s) <=> e = s
        BY <3>4 DEF WithSubStages, SubStages, ToSet
      <4>2. p \in ToSet(tree[Root]) /\ p # Root /\ ToSet(t[Root]) = ToSet(tree[Root])
        BY <1>3, <1>4, <3>4
      <4>3. \A q \in Parent : e \in ToSet(t[q]) <=> e \in ToSet(tree[q]) \/ (q = p /\ e = s)
        BY <1>3
      <4> QED
        BY <2>1, <3>1, <3>2, <4>1, <4>2, <4>3
    <3> QED
      BY <3>3, <3>4
  <2>4. CASE e \notin Stage
    <3>1. ToSet(SubStages(tree, s)) \subseteq Stage
      BY Disjoint DEF SubStages, ToSet, TreeSound
    <3> QED
      BY <1>6, <2>4, <3>1, InTreeIs DEF WithSubStages
  <2> QED
    BY <2>2, <2>3, <2>4 DEF Stage
<1> QED
  BY <1>6, <1>7, <1>8 DEF SameBoosters

\* moveChild(): another order of the same stages.
LEMMA MovedTree ==
  ASSUME NEW tree, NEW h, TreeSound(tree, h), NEW s \in InTree(tree),
         NEW p, p = ParentOf(tree, s), NEW i \in 1 .. Len(tree[p]),
         NEW t, t = Moved(tree, p, i, s)
  PROVE  TreeSound(t, h) /\ InTree(t) = InTree(tree)
<1>1. p \in Parent /\ s \in ToSet(tree[p]) /\ s \in Stage
  BY ParentFacts, InTreeIs
<1> DEFINE rest == RemoveFirst(tree[p], s)
<1>2. tree[p] \in Seq(Stage) /\ IsInjective(tree[p]) /\ Len(tree[p]) \in Nat
  BY <1>1 DEF TreeSound
<1>3. /\ rest \in Seq(Stage) /\ IsInjective(rest) /\ ToSet(rest) = ToSet(tree[p]) \ {s}
      /\ Len(rest) = Len(tree[p]) - 1
  BY <1>1, <1>2, RemoveFirstFacts
<1>4. t = [tree EXCEPT ![p] = InsertAt(rest, i, s)]
  BY DEF Moved
<1> HIDE DEF rest
<1>5. /\ InsertAt(rest, i, s) \in Seq(Stage) /\ IsInjective(InsertAt(rest, i, s))
      /\ ToSet(InsertAt(rest, i, s)) = ToSet(tree[p])
  <2>1. i \in 1 .. Len(rest) + 1 /\ s \notin ToSet(rest)
    BY <1>2, <1>3
  <2> QED
    <3>1. /\ InsertAt(rest, i, s) \in Seq(Stage) /\ IsInjective(InsertAt(rest, i, s))
          /\ ToSet(InsertAt(rest, i, s)) = ToSet(rest) \cup {s}
      BY ONLY <1>1, <1>3, <2>1, InsertFacts
    <3> QED
      BY <1>1, <1>3, <3>1
<1>6. /\ t \in [Parent -> Seq(Stage)]
      /\ \A q \in Parent : t[q] = IF q = p THEN InsertAt(rest, i, s) ELSE tree[q]
  BY <1>1, <1>4, <1>5 DEF TreeSound
<1>7. /\ \A q \in Parent : ToSet(t[q]) = ToSet(tree[q]) /\ IsInjective(t[q])
      /\ \A q \in Parent : tree[q] = << >> => t[q] = << >>
  <2>1. \A q \in Parent : ToSet(t[q]) = ToSet(tree[q]) /\ IsInjective(t[q])
    BY <1>1, <1>5, <1>6 DEF TreeSound
  <2>2. tree[p] # << >>
    BY <1>1, <1>2, EmptySequence
  <2> QED
    BY <1>6, <2>1, <2>2
<1>8. Root \in Parent /\ \A q \in Core : q \in Parent
  BY Disjoint
<1>9. TreeSound(t, h)
  BY <1>6, <1>7, <1>8 DEF TreeSound
<1>10. InTree(t) = InTree(tree)
  BY <1>7, <1>8 DEF InTree, TreeSound
<1> QED
  BY <1>9, <1>10

\* Removed stages are destroyed: the tree has no trace of them.
LEMMA DestroyedTree ==
  ASSUME NEW tree, NEW h, TreeSound(tree, h), NEW gone \in SUBSET Stage,
         gone \cap InTree(tree) = {},
         NEW t, t = Cleared(tree, gone)
  PROVE  /\ TreeSound(t, h \ gone) /\ InTree(t) = InTree(tree) /\ Stages(t) = Stages(tree)
<1>1. Root \in Parent /\ Root \notin gone /\ \A q \in Core : q \in Parent
  BY Disjoint
<1>2. ToSet(<< >>) = {} /\ IsInjective(<< >>) /\ << >> \in Seq(Stage)
  BY DEF ToSet, IsInjective
<1>3. /\ t \in [Parent -> Seq(Stage)] /\ t[Root] = tree[Root]
      /\ \A q \in Parent : t[q] = IF q \in gone THEN << >> ELSE tree[q]
  BY <1>1, <1>2 DEF TreeSound, Cleared
<1>4. \A q \in Parent : /\ ToSet(t[q]) \subseteq ToSet(tree[q]) /\ IsInjective(t[q])
  BY <1>2, <1>3 DEF TreeSound
<1>5. \A q \in ToSet(tree[Root]) : q \in Parent /\ q \notin gone /\ t[q] = tree[q]
  <2>1. ToSet(tree[Root]) \subseteq Core /\ ToSet(tree[Root]) \subseteq InTree(tree)
    BY DEF TreeSound, InTree
  <2> QED
    BY <1>1, <1>3, <2>1
<1>6. TreeSound(t, h \ gone)
  <2>1. \A q \in Core : q \in ToSet(t[Root]) \/ q \in h \ gone \/ t[q] = << >>
    BY <1>1, <1>3 DEF TreeSound
  <2>2. \A q \in Parent : ToSet(t[q]) \cap (h \ gone) = {}
    BY <1>4 DEF TreeSound
  <2>3. \A q, u \in Parent : q # u => ToSet(t[q]) \cap ToSet(t[u]) = {}
    BY <1>4 DEF TreeSound
  <2>4. ToSet(t[Root]) \subseteq Core /\ \A q \in Core : ToSet(t[q]) \subseteq Booster
    BY <1>1, <1>4 DEF TreeSound
  <2> QED
    BY <1>3, <1>4, <2>1, <2>2, <2>3, <2>4 DEF TreeSound
<1>7. InTree(t) = InTree(tree)
  BY <1>3, <1>5 DEF InTree
<1>8. Stages(t) = Stages(tree)
  <2>1. \A i \in DOMAIN tree[Root] : tree[Root][i] \in ToSet(tree[Root])
    BY DEF ToSet
  <2>2. \A i \in DOMAIN tree[Root] : t[tree[Root][i]] = tree[tree[Root][i]]
    BY <1>5, <2>1
  <2>3. [i \in DOMAIN t[Root] |-> <<t[Root][i]>> \o t[t[Root][i]]]
          = [i \in DOMAIN tree[Root] |-> <<tree[Root][i]>> \o tree[tree[Root][i]]]
    <3> DEFINE top == tree[Root]
    <3>1. \A i \in DOMAIN top : <<top[i]>> \o t[top[i]] = <<top[i]>> \o tree[top[i]]
      BY <2>2
    <3>2. t[Root] = top
      BY <1>3
    <3> HIDE DEF top
    <3>3. [i \in DOMAIN t[Root] |-> <<t[Root][i]>> \o t[t[Root][i]]]
            = [i \in DOMAIN top |-> <<top[i]>> \o tree[top[i]]]
      BY ONLY <3>1, <3>2
    <3> QED
      BY <3>3 DEF top
  <2> QED
    BY <2>3 DEF Stages
<1> QED
  BY <1>6, <1>7, <1>8

LEMMA TreeIsSound ==
  ASSUME NEW tree, IsTree(tree)
  PROVE  TreeSound(tree, {})
  BY DEF IsTree, TreeSound
-----------------------------------------------------------------------------
(* The stage numbers and the stage map.                                      *)

\* getNewStageNumber(): the least number that is free.
LEMMA NewNumber ==
  ASSUME NEW map, IsFiniteSet(DOMAIN map)
  PROVE  /\ NewStageNumber(map) \in Nat /\ NewStageNumber(map) \notin DOMAIN map
         /\ 0 .. NewStageNumber(map) - 1 \subseteq DOMAIN map
<1> DEFINE D == DOMAIN map
           c == Cardinality(D)
           T == Nat \ D
<1>1. c \in Nat
  BY FS_CardinalityType
<1> HIDE DEF D, c
<1>2. PICK m \in 0 .. c : m \notin D
  <2> SUFFICES ASSUME 0 .. c \subseteq D PROVE FALSE
    OBVIOUS
  <2>1. Cardinality(0 .. c) = c + 1
    BY <1>1, FS_Interval
  <2>2. Cardinality(0 .. c) <= Cardinality(D)
    BY FS_Subset DEF D
  <2> QED
    BY <1>1, <2>1, <2>2 DEF c
<1>3. PICK n \in T : \A k \in T : n <= k
  <2>1. T \in SUBSET Nat /\ m \in T
    BY <1>1, <1>2
  <2> HIDE DEF T
  <2> QED
    BY <2>1, LeastNatural
<1>4. n \in 0 .. c /\ n \notin D /\ 0 .. n - 1 \subseteq D
  <2>1. n \in Nat /\ n <= m
    BY <1>1, <1>2, <1>3
  <2>2. ASSUME NEW k \in 0 .. n - 1 PROVE k \in D
    <3>1. k \in Nat /\ ~(n <= k)
      BY <2>1
    <3> QED
      BY <1>3, <3>1
  <2> QED
    BY <1>1, <1>2, <1>3, <2>1, <2>2
<1>5. \E k \in 0 .. c : k \notin D /\ 0 .. k - 1 \subseteq D
  BY <1>4
<1>6. NewStageNumber(map) = CHOOSE k \in 0 .. c : k \notin D /\ 0 .. k - 1 \subseteq D
  BY DEF NewStageNumber, c, D
<1> QED
  BY <1>1, <1>5, <1>6 DEF D

LEMMA NextNumber ==
  ASSUME NEW map, NEW k \in Nat, DOMAIN map = 0 .. k - 1
  PROVE  NewStageNumber(map) = k
<1>1. IsFiniteSet(DOMAIN map)
  BY FS_Interval
<1> DEFINE n == NewStageNumber(map)
<1>2. n \in Nat /\ n \notin 0 .. k - 1 /\ 0 .. n - 1 \subseteq 0 .. k - 1
  BY <1>1, NewNumber
<1> HIDE DEF n
<1>3. n > k => k \in 0 .. n - 1
  BY <1>2
<1>4. n = k
  BY <1>2, <1>3
<1> QED
  BY <1>4 DEF n

\* trackStage() of the stages in the order of the tree.
OrderMap(order, k) == [n \in 0 .. k - 1 |-> order[n + 1]]

LEMMA TrackedNext ==
  ASSUME NEW order, NEW k \in Nat, NEW numbers \in [Stage -> Nat],
         order[k + 1] \in Stage, numbers[order[k + 1]] = k
  PROVE  Tracked([map |-> OrderMap(order, k), number |-> numbers], order[k + 1])
           = [map |-> OrderMap(order, k + 1), number |-> numbers]
<1> DEFINE s == order[k + 1]
           map == OrderMap(order, k)
           r == [map |-> map, number |-> numbers]
           grown == [m \in DOMAIN map \cup {k} |-> IF m = k THEN s ELSE map[m]]
<1>1. DOMAIN map = 0 .. k - 1 /\ \A n \in 0 .. k - 1 : map[n] = order[n + 1]
  BY DEF OrderMap
<1>2. NewStageNumber(map) = k
  BY <1>1, NextNumber
<1>3. grown = OrderMap(order, k + 1)
  <2>1. DOMAIN map \cup {k} = 0 .. k + 1 - 1
    BY <1>1
  <2>2. \A m \in 0 .. k + 1 - 1 : (IF m = k THEN s ELSE map[m]) = order[m + 1]
    BY <1>1
  <2> HIDE DEF map, s
  <2> QED
    BY <2>1, <2>2 DEF OrderMap
<1> HIDE DEF map, s
<1>4. ~(r.number[s] \in DOMAIN r.map /\ r.map[r.number[s]] = s)
  BY <1>1 DEF s
<1>5. Tracked(r, s) = [r EXCEPT !.number[s] = k, !.map = grown]
  BY <1>2, <1>4 DEF Tracked
<1>6. [numbers EXCEPT ![s] = k] = numbers
  BY DEF s
<1>7. [r EXCEPT !.number[s] = k, !.map = grown] = [map |-> grown, number |-> numbers]
  <2> HIDE DEF grown
  <2> DEFINE q == [r EXCEPT !.number[s] = k]
  <2>1. q = [map |-> map, number |-> [numbers EXCEPT ![s] = k]]
    OBVIOUS
  <2>2. q = r
    BY <1>6, <2>1
  <2>3. [r EXCEPT !.number[s] = k, !.map = grown] = [q EXCEPT !.map = grown]
    <3> HIDE DEF r
    <3> QED
      OBVIOUS
  <2>4. [r EXCEPT !.map = grown] = [map |-> grown, number |-> numbers]
    OBVIOUS
  <2> HIDE DEF q, r
  <2> QED
    BY <2>2, <2>3, <2>4
<1> QED
  BY <1>3, <1>5, <1>7 DEF map, s

IsTracked(base, order, n, f) ==
  f = [s \in SUBSET (1 .. n) |->
         IF s = {} THEN base ELSE Tracked(f[s \ {Max(s)}], order[Max(s)])]

LEMMA TrackedIs ==
  ASSUME NEW base, NEW order, DOMAIN order = 1 .. Len(order)
  PROVE  FoldLeft(Tracked, base, order)
           = (CHOOSE f : IsTracked(base, order, Len(order), f))[1 .. Len(order)]
  BY DEF FoldLeft, MapThenFoldSet, IsTracked

LEMMA TrackedExists ==
  ASSUME NEW base, NEW order, NEW n \in Nat
  PROVE  \E f : IsTracked(base, order, n, f)
<1> DEFINE T == {m \in Nat : \E f : IsTracked(base, order, m, f)}
<1>1. 0 \in T
  <2> DEFINE f == [s \in SUBSET (1 .. 0) |-> base]
  <2>1. 1 .. 0 = {}
    OBVIOUS
  <2>2. \A s \in SUBSET (1 .. 0) : s = {}
    BY <2>1
  <2>3. IsTracked(base, order, 0, f)
    BY <2>2 DEF IsTracked
  <2> QED
    BY <2>3
<1>2. ASSUME NEW m \in T PROVE m + 1 \in T
  <2>1. PICK f : IsTracked(base, order, m, f)
    OBVIOUS
  <2>2. m \in Nat
    OBVIOUS
  <2> HIDE DEF T
  <2> DEFINE g == [s \in SUBSET (1 .. (m + 1)) |->
                IF s = {} THEN base ELSE Tracked(f[s \ {Max(s)}], order[Max(s)])]
  <2>3. \A s \in SUBSET (1 .. m) : s \in SUBSET (1 .. (m + 1))
    BY <2>2
  <2>4. \A s \in SUBSET (1 .. m) : g[s] = f[s]
    BY <2>1, <2>3 DEF IsTracked
  <2>5. ASSUME NEW s \in SUBSET (1 .. (m + 1)), s # {} PROVE s \ {Max(s)} \in SUBSET (1 .. m)
    <3>1. Max(s) \in s /\ \A y \in s : y <= Max(s)
      <4>1. m + 1 \in Nat
        BY <2>2
      <4> QED
        BY <2>5, <4>1, GreatestSlot
    <3>2. ASSUME NEW y \in s, y # Max(s) PROVE y \in 1 .. m
      <4>1. y \in 1 .. (m + 1) /\ Max(s) \in 1 .. (m + 1) /\ y <= Max(s)
        BY <3>1
      <4> QED
        BY <2>2, <3>2, <4>1
    <3> QED
      BY <3>2
  <2>6. \A s \in SUBSET (1 .. (m + 1)) : s # {} => g[s \ {Max(s)}] = f[s \ {Max(s)}]
    BY <2>4, <2>5
  <2>7. IsTracked(base, order, m + 1, g)
    BY <2>6 DEF IsTracked
  <2> QED
    BY <2>2, <2>7 DEF T
<1> HIDE DEF T
<1>3. T = Nat
  BY <1>1, <1>2, AllNaturals DEF T
<1> QED
  BY <1>3 DEF T

\* The map has the stages in their order, and the numbers stay as they were set.
LEMMA TrackedInOrder ==
  ASSUME NEW order \in Seq(Stage), NEW numbers \in [Stage -> Nat],
         \A i \in 1 .. Len(order) : numbers[order[i]] = i - 1,
         NEW base, base = [map |-> OrderMap(order, 0), number |-> numbers]
  PROVE  FoldLeft(Tracked, base, order)
           = [map |-> OrderMap(order, Len(order)), number |-> numbers]
<1> DEFINE n == Len(order)
           f == CHOOSE g : IsTracked(base, order, n, g)
           Part(m) == [map |-> OrderMap(order, m), number |-> numbers]
           T == {m \in Nat : m <= n => f[1 .. m] = Part(m)}
<1>1. n \in Nat /\ DOMAIN order = 1 .. n /\ \A i \in 1 .. n : order[i] \in Stage
  OBVIOUS
<1>2. FoldLeft(Tracked, base, order) = f[1 .. n]
  BY <1>1, TrackedIs
<1>3. IsTracked(base, order, n, f)
  BY <1>1, TrackedExists
<1> HIDE DEF f
<1>4. \A s \in SUBSET (1 .. n) :
          f[s] = IF s = {} THEN base ELSE Tracked(f[s \ {Max(s)}], order[Max(s)])
  BY <1>3 DEF IsTracked
<1>5. 0 \in T
  <2>1. 1 .. 0 = {}
    OBVIOUS
  <2>2. f[1 .. 0] = Part(0)
    BY <1>4, <2>1
  <2> QED
    BY <2>2
<1>6. ASSUME NEW m \in T PROVE m + 1 \in T
  <2>1. m \in Nat /\ (m <= n => f[1 .. m] = Part(m))
    OBVIOUS
  <2> HIDE DEF T, Part
  <2> SUFFICES ASSUME m + 1 <= n PROVE f[1 .. (m + 1)] = Part(m + 1)
    BY <2>1 DEF T
  <2> DEFINE s == 1 .. (m + 1)
  <2>2. s \in SUBSET (1 .. n) /\ m + 1 \in s
    BY <1>1, <2>1
  <2>3. Max(s) = m + 1
    <3>1. s \in SUBSET (1 .. (m + 1)) /\ s # {} /\ m + 1 \in Nat
      <4>1. s \in SUBSET (1 .. (m + 1)) /\ m + 1 \in Nat
        BY <2>1
      <4> HIDE DEF s
      <4> QED
        BY <2>2, <4>1
    <3>2. Max(s) \in s /\ \A y \in s : y <= Max(s)
      BY <3>1, GreatestSlot
    <3>3. Max(s) \in 1 .. (m + 1) /\ m + 1 <= Max(s)
      BY <2>2, <3>2
    <3> QED
      BY <2>1, <3>3
  <2>4. s \ {m + 1} = 1 .. m
    BY <2>1
  <2>5. f[s] = Tracked(f[1 .. m], order[m + 1])
    <3> HIDE DEF s
    <3> QED
      BY <1>4, <2>2, <2>3, <2>4
  <2>6. f[1 .. m] = Part(m)
    BY <1>1, <2>1
  <2>7. order[m + 1] \in Stage /\ numbers[order[m + 1]] = m
    <3>1. m + 1 \in 1 .. n /\ (m + 1) - 1 = m
      BY <1>1, <2>1
    <3> QED
      BY <1>1, <3>1
  <2>8. Tracked(Part(m), order[m + 1]) = Part(m + 1)
    BY <2>1, <2>7, TrackedNext DEF Part
  <2> QED
    BY <2>5, <2>6, <2>8
<1>7. T = Nat
  <2>1. T \in SUBSET Nat
    OBVIOUS
  <2> HIDE DEF T
  <2> QED
    BY <1>5, <1>6, <2>1, AllNaturals
<1>8. f[1 .. n] = Part(n)
  <2>1. n \in T
    <3> HIDE DEF T
    <3> QED
      BY <1>1, <1>7
  <2> QED
    BY <1>1, <2>1
<1> QED
  BY <1>2, <1>8
-----------------------------------------------------------------------------
(* The flags of the configurations.                                          *)

LEMMA FlagOfIsBoolean ==
  ASSUME NEW flags, NEW s
  PROVE  FlagOf(flags, s) \in BOOLEAN
  BY DEF FlagOf

\* updateStages(): the flags of the stages that have a number, and no other.
LEMMA UpdatedFlagsFacts ==
  ASSUME NEW flags, NEW map, \A n \in DOMAIN map : map[n] \in Stage,
         NEW new, new = UpdatedFlags(flags, map)
  PROVE  /\ DOMAIN new = DOMAIN map /\ TypedFlags(new)
         /\ \A n \in DOMAIN map : new[n].stage = map[n]
         /\ \A s : FlagOf(new, s) <=> ((\E n \in DOMAIN map : map[n] = s) => FlagOf(flags, s))
<1>1. /\ DOMAIN new = DOMAIN map
      /\ \A n \in DOMAIN map : /\ new[n] = [stage |-> map[n], active |-> FlagOf(flags, map[n])]
                               /\ new[n].stage = map[n] /\ new[n].active = FlagOf(flags, map[n])
  BY DEF UpdatedFlags
<1>2. TypedFlags(new)
  BY <1>1, FlagOfIsBoolean DEF TypedFlags
<1>3. ASSUME NEW s
      PROVE  FlagOf(new, s) <=> ((\E n \in DOMAIN map : map[n] = s) => FlagOf(flags, s))
  <2>1. FlagOf(new, s) <=> \A n \in DOMAIN new : new[n].stage = s => new[n].active
    BY Zenon DEF FlagOf
  <2>2. \A n \in DOMAIN map : new[n].active <=> FlagOf(flags, map[n])
    BY <1>1, Zenon
  <2>3. FlagOf(new, s) <=> \A n \in DOMAIN map : map[n] = s => FlagOf(flags, map[n])
    BY <1>1, <2>1, <2>2, Zenon
  <2> QED
    BY <2>3
<1> QED
  BY <1>1, <1>2, <1>3

LEMMA WithFlagsFacts ==
  ASSUME NEW r, NEW config, TypedConfiguration(config), NEW flags, TypedFlags(flags),
         NEW new, new = WithFlags(r, config, flags)
  PROVE  /\ TypedConfiguration(new) /\ new.flags = flags
         /\ new.instances = ActiveInstances(r, flags)
         /\ new.chosen = config.chosen /\ new.modId = config.modId
<1> DEFINE instances == ActiveInstances(r, flags)
<1>1. new = [config EXCEPT !.flags = flags, !.instances = instances]
  BY DEF WithFlags
<1> HIDE DEF instances
<1>2. /\ DOMAIN new = ConfigurationFields /\ new.flags = flags /\ new.instances = instances
      /\ new.chosen = config.chosen /\ new.modId = config.modId
  BY <1>1 DEF TypedConfiguration, ConfigurationFields
<1> QED
  BY <1>2 DEF TypedConfiguration, instances

\* The instances depend on the stages and their numbers alone.
LEMMA SameInstances ==
  ASSUME NEW r, NEW q, q.tree = r.tree, q.map = r.map, q.number = r.number, NEW flags
  PROVE  ActiveInstances(q, flags) = ActiveInstances(r, flags)
  BY DEF ActiveInstances, IsStageActive

\* update(), up to the configurations.
LEMMA RenumberedFacts ==
  ASSUME NEW r, NEW h, Typed(r), TreeSound(r.tree, h), MapSound(r),
         NEW q, q = Renumbered(r)
  PROVE  /\ IsRocket(q) /\ q.tree = r.tree /\ q.configs = r.configs /\ q.selected = r.selected
         /\ q.number \in [Stage -> Nat] /\ Numbered(q)
<1> DEFINE order   == Stages(r.tree)
           numbers == [s \in Stage |-> IF s \in ToSet(order) THEN PlaceOf(order, s) - 1
                                                              ELSE r.number[s]]
           base    == [map |-> [n \in {} |-> Root], number |-> numbers]
           tracked == FoldLeft(Tracked, base, order)
<1>1. q = [r EXCEPT !.map = tracked.map, !.number = tracked.number]
  BY Zenon DEF Renumbered
<1>2. order \in Seq(Stage) /\ IsInjective(order) /\ ToSet(order) = InTree(r.tree)
  BY StagesFacts
<1>4. \A s \in ToSet(order) : PlaceOf(order, s) \in 1 .. Len(order) /\ order[PlaceOf(order, s)] = s
  BY <1>2, PlaceFacts
<1>5. \A i, j \in 1 .. Len(order) : order[i] = order[j] => i = j
  BY <1>2 DEF IsInjective
<1>6. r.number \in [Stage -> Nat]
  BY DEF Typed
<1>7. /\ ToSet(order) = {order[i] : i \in 1 .. Len(order)}
      /\ ToSet(order) \subseteq Stage /\ Len(order) \in Nat
  BY <1>2, ElementsOf
<1> HIDE DEF order
<1>8. numbers \in [Stage -> Nat]
  <2>1. ASSUME NEW s \in ToSet(order) PROVE PlaceOf(order, s) - 1 \in Nat
    BY <1>4, <1>7
  <2> QED
    BY <1>6, <2>1
<1>9. ASSUME NEW i \in 1 .. Len(order) PROVE numbers[order[i]] = i - 1
  <2>1. order[i] \in ToSet(order) /\ order[i] \in Stage
    BY <1>7
  <2>2. PlaceOf(order, order[i]) = i
    BY <1>4, <1>5, <2>1
  <2> QED
    BY <2>1, <2>2
<1> HIDE DEF numbers
<1>10. base = [map |-> OrderMap(order, 0), number |-> numbers]
  <2>1. [n \in {} |-> Root] = OrderMap(order, 0)
    <3>1. 0 .. 0 - 1 = {}
      OBVIOUS
    <3> QED
      BY <3>1 DEF OrderMap
  <2> QED
    BY <2>1
<1> HIDE DEF base
<1>11. tracked = [map |-> OrderMap(order, Len(order)), number |-> numbers]
  BY <1>2, <1>8, <1>9, <1>10, TrackedInOrder
<1> HIDE DEF tracked
<1>12. tracked.map = OrderMap(order, Len(order)) /\ tracked.number = numbers
  BY <1>11
<1>13. /\ IsRocket(q) /\ q.tree = r.tree /\ q.configs = r.configs /\ q.selected = r.selected
       /\ q.map = OrderMap(order, Len(order)) /\ q.number = numbers
  BY <1>1, <1>12 DEF Typed, IsRocket
<1>14. /\ DOMAIN q.map = 0 .. Len(order) - 1
       /\ \A n \in 0 .. Len(order) - 1 : q.map[n] = order[n + 1]
  BY <1>13 DEF OrderMap
<1>15. ASSUME NEW n \in 0 .. Len(order) - 1 PROVE numbers[order[n + 1]] = n
  <2>1. n + 1 \in 1 .. Len(order) /\ (n + 1) - 1 = n
    BY <1>7
  <2> QED
    BY <1>9, <2>1
<1> QED
  BY <1>8, <1>13, <1>14, <1>15 DEF order, Numbered

LEMMA NumberedStages ==
  ASSUME NEW r, NEW h, TreeSound(r.tree, h), Numbered(r)
  PROVE  /\ MapSound(r)
         /\ \A s : s \in InTree(r.tree) <=> \E n \in DOMAIN r.map : r.map[n] = s
<1> DEFINE order == Stages(r.tree)
<1>1. order \in Seq(Stage) /\ ToSet(order) = InTree(r.tree)
  BY StagesFacts
<1>2. ToSet(order) = {order[i] : i \in 1 .. Len(order)} /\ Len(order) \in Nat
  BY <1>1, ElementsOf
<1> HIDE DEF order
<1>3. /\ DOMAIN r.map = 0 .. Len(order) - 1
      /\ \A n \in DOMAIN r.map : r.map[n] = order[n + 1] /\ r.number[order[n + 1]] = n
  BY DEF order, Numbered
<1>4. \A n \in DOMAIN r.map : n \in Nat /\ n + 1 \in 1 .. Len(order) /\ r.map[n] \in InTree(r.tree)
  BY <1>1, <1>2, <1>3
<1>5. MapSound(r)
  <2>1. IsFiniteSet(0 .. Len(order) - 1)
    BY <1>2, FS_Interval
  <2> QED
    BY <1>3, <1>4, <2>1 DEF MapSound
<1>6. ASSUME NEW s \in InTree(r.tree) PROVE \E n \in DOMAIN r.map : r.map[n] = s
  <2>1. PICK i \in 1 .. Len(order) : order[i] = s
    BY <1>1, <1>2
  <2>2. i - 1 \in DOMAIN r.map /\ (i - 1) + 1 = i
    BY <1>2, <1>3
  <2> QED
    BY <1>3, <2>1, <2>2
<1> QED
  BY <1>4, <1>5, <1>6

\* The flags after an update: a stage that left the tree has none.
FlagsFollow(r, q) ==
  /\ DOMAIN q.configs = DOMAIN r.configs
  /\ \A c \in DOMAIN r.configs :
       /\ q.configs[c].chosen = r.configs[c].chosen
       /\ \A s : FlagOf(q.configs[c].flags, s)
                   <=> (s \in InTree(r.tree) => FlagOf(r.configs[c].flags, s))

SameIds(r, q) == \A c \in DOMAIN r.configs : q.configs[c].modId = r.configs[c].modId

\* update(): the rocket is settled, and every stage that stays keeps its flag.
LEMMA UpdatedFacts ==
  ASSUME NEW r, NEW h, Typed(r), TreeSound(r.tree, h), MapSound(r),
         NEW q, q = Updated(r)
  PROVE  /\ Typed(q) /\ q.tree = r.tree /\ q.selected = r.selected
         /\ MapSound(q) /\ Settled(q) /\ FlagsFollow(r, q) /\ SameIds(r, q)
<1> DEFINE p == Renumbered(r)
<1>0. p = Renumbered(r)
  OBVIOUS
<1> HIDE DEF p
<1>1. /\ IsRocket(p) /\ p.tree = r.tree /\ p.configs = r.configs /\ p.selected = r.selected
      /\ p.number \in [Stage -> Nat] /\ Numbered(p)
  BY <1>0, RenumberedFacts
<1> DEFINE configs == [c \in DOMAIN p.configs |->
              WithFlags(p, p.configs[c], UpdatedFlags(p.configs[c].flags, p.map))]
<1>2. q = [p EXCEPT !.configs = configs]
  BY <1>0 DEF Updated, UpdatedConfigurations
<1>3. DOMAIN configs = DOMAIN r.configs
  BY <1>1
<1>4. \A c \in DOMAIN r.configs :
        configs[c] = WithFlags(p, r.configs[c], UpdatedFlags(r.configs[c].flags, p.map))
  BY <1>1
<1> HIDE DEF configs
<1>5. /\ IsRocket(q) /\ q.tree = r.tree /\ q.selected = r.selected /\ q.configs = configs
      /\ q.number = p.number /\ q.map = p.map
  BY <1>1, <1>2 DEF IsRocket
<1>6. Numbered(q)
  BY <1>1, <1>5 DEF Numbered
<1>7. /\ MapSound(q)
      /\ \A s : s \in InTree(r.tree) <=> \E n \in DOMAIN q.map : q.map[n] = s
  <2>1. TreeSound(q.tree, h)
    BY <1>5
  <2>2. /\ MapSound(q)
        /\ \A s : s \in InTree(q.tree) <=> \E n \in DOMAIN q.map : q.map[n] = s
    BY ONLY <1>6, <2>1, NumberedStages
  <2> QED
    BY <1>5, <2>2
<1>8. \A n \in DOMAIN q.map : q.map[n] \in Stage
  BY <1>5, <1>7, InTreeIs
<1>9. ASSUME NEW c \in DOMAIN r.configs
      PROVE  /\ TypedConfiguration(q.configs[c]) /\ SettledConfiguration(q, q.configs[c])
             /\ q.configs[c].modId = r.configs[c].modId
             /\ q.configs[c].chosen = r.configs[c].chosen
             /\ \A s : FlagOf(q.configs[c].flags, s)
                         <=> (s \in InTree(r.tree) => FlagOf(r.configs[c].flags, s))
  <2> DEFINE old   == r.configs[c]
             flags == UpdatedFlags(old.flags, q.map)
             new   == q.configs[c]
  <2>1. TypedConfiguration(old)
    BY DEF Typed
  <2>2. /\ DOMAIN flags = DOMAIN q.map /\ TypedFlags(flags)
        /\ \A n \in DOMAIN q.map : flags[n].stage = q.map[n]
        /\ \A s : FlagOf(flags, s)
                    <=> ((\E n \in DOMAIN q.map : q.map[n] = s) => FlagOf(old.flags, s))
    BY <1>8, UpdatedFlagsFacts
  <2>3. new = WithFlags(p, old, flags)
    BY <1>4, <1>5
  <2> HIDE DEF flags, old, new
  <2>4. /\ TypedConfiguration(new) /\ new.flags = flags
        /\ new.instances = ActiveInstances(p, flags)
        /\ new.chosen = old.chosen /\ new.modId = old.modId
    BY <2>1, <2>2, <2>3, WithFlagsFacts
  <2>5. ActiveInstances(p, flags) = ActiveInstances(q, flags)
    BY <1>1, <1>5, SameInstances
  <2>6. \A s : FlagOf(new.flags, s) <=> (s \in InTree(r.tree) => FlagOf(old.flags, s))
    BY <1>7, <2>2, <2>4
  <2>7. SettledConfiguration(q, new)
    BY <2>2, <2>4, <2>5 DEF SettledConfiguration
  <2> QED
    BY <2>4, <2>6, <2>7 DEF old, new
<1>10. Typed(q) /\ DOMAIN q.configs = DOMAIN r.configs
  BY <1>1, <1>3, <1>5, <1>9 DEF Typed
<1>11. Settled(q)
  BY <1>6, <1>9, <1>10 DEF Settled
<1> QED
  BY <1>5, <1>7, <1>9, <1>10, <1>11 DEF FlagsFollow, SameIds

\* The flags of a configuration are those of the stages of the map.
FlagsOfMap(flags, map) ==
  DOMAIN flags = DOMAIN map /\ \A n \in DOMAIN map : flags[n].stage = map[n]

\* The same flags for the same stages.
LEMMA SameFlags ==
  ASSUME NEW map, NEW old, NEW new, FlagsOfMap(old, map), FlagsOfMap(new, map),
         \A n \in DOMAIN map : new[n].active <=> old[n].active
  PROVE  \A s : FlagOf(new, s) <=> FlagOf(old, s)
<1> TAKE s
<1>1. FlagOf(new, s) <=> \A n \in DOMAIN new : new[n].stage = s => new[n].active
  BY Zenon DEF FlagOf
<1>2. FlagOf(old, s) <=> \A n \in DOMAIN old : old[n].stage = s => old[n].active
  BY Zenon DEF FlagOf
<1> QED
  BY <1>1, <1>2, Zenon DEF FlagsOfMap

AllActive(flags, map) ==
  \A n \in DOMAIN map : flags[n] = [stage |-> map[n], active |-> TRUE]

LEMMA NewConfigurationFacts ==
  ASSUME NEW r, \A n \in DOMAIN r.map : r.map[n] \in Stage,
         NEW new, new = NewConfiguration(r)
  PROVE  /\ TypedConfiguration(new) /\ SettledConfiguration(r, new) /\ new.modId = Zero
         /\ \A s \in Stage : new.chosen[s] = TRUE
         /\ \A s : FlagOf(new.flags, s)
         /\ AllActive(new.flags, r.map)
<1> DEFINE flags == UpdatedFlags(NoFlags, r.map)
           instances == ActiveInstances(r, flags)
<1>1. /\ DOMAIN flags = DOMAIN r.map /\ TypedFlags(flags)
      /\ \A n \in DOMAIN r.map : flags[n].stage = r.map[n]
      /\ \A s : FlagOf(flags, s) <=> ((\E n \in DOMAIN r.map : r.map[n] = s) => FlagOf(NoFlags, s))
  BY UpdatedFlagsFacts
<1>2. \A s : FlagOf(NoFlags, s) = TRUE
  BY DEF FlagOf, NoFlags
<1>3. \A n \in DOMAIN r.map : flags[n] = [stage |-> r.map[n], active |-> TRUE]
  <2>1. \A n \in DOMAIN r.map :
          flags[n] = [stage |-> r.map[n], active |-> FlagOf(NoFlags, r.map[n])]
    BY DEF UpdatedFlags
  <2> HIDE DEF flags
  <2> QED
    BY <1>2, <2>1
<1>4. new = [flags |-> flags, modId |-> Zero, instances |-> instances,
             chosen |-> [s \in Stage |-> TRUE]]
  BY DEF NewConfiguration
<1> HIDE DEF flags, instances
<1>5. /\ DOMAIN new = ConfigurationFields /\ new.flags = flags /\ new.modId = Zero
      /\ new.instances = instances /\ new.chosen = [s \in Stage |-> TRUE]
  BY <1>4 DEF ConfigurationFields
<1>6. TypedConfiguration(new)
  BY <1>1, <1>5 DEF TypedConfiguration
<1>7. SettledConfiguration(r, new)
  BY <1>1, <1>5 DEF SettledConfiguration, instances
<1> QED
  BY <1>1, <1>2, <1>3, <1>5, <1>6, <1>7 DEF AllActive

\* A configuration of the map's flags with those of another one, by number.
FlagsTaken(flags, taken, map) ==
  \A n \in DOMAIN map : flags[n] = [stage |-> map[n], active |-> taken[n].active]

LEMMA TakenFlags ==
  ASSUME NEW r, \A n \in DOMAIN r.map : r.map[n] \in Stage,
         NEW source, TypedConfiguration(source), FlagsOfMap(source.flags, r.map),
         NEW base, TypedConfiguration(base),
         NEW flags, FlagsOfMap(flags, r.map), FlagsTaken(flags, source.flags, r.map),
         NEW new, new = WithFlags(r, base, flags)
  PROVE  /\ TypedConfiguration(new) /\ SettledConfiguration(r, new)
         /\ new.modId = base.modId /\ new.chosen = base.chosen
         /\ \A s : FlagOf(new.flags, s) <=> FlagOf(source.flags, s)
<1>1. \A n \in DOMAIN r.map : /\ source.flags[n].active \in BOOLEAN
                              /\ flags[n].active = source.flags[n].active
  BY DEF TypedConfiguration, TypedFlags, FlagsOfMap, FlagsTaken
<1>2. TypedFlags(flags)
  <2> SUFFICES ASSUME NEW n \in DOMAIN r.map PROVE flags[n] \in [stage : Stage, active : BOOLEAN]
    BY DEF TypedFlags, FlagsOfMap
  <2>1. r.map[n] \in Stage /\ source.flags[n].active \in BOOLEAN
    BY <1>1
  <2>2. flags[n] = [stage |-> r.map[n], active |-> source.flags[n].active]
    BY DEF FlagsTaken
  <2> QED
    BY ONLY <2>1, <2>2
<1>3. /\ TypedConfiguration(new) /\ new.flags = flags
      /\ new.instances = ActiveInstances(r, flags)
      /\ new.chosen = base.chosen /\ new.modId = base.modId
  BY <1>2, WithFlagsFacts
<1>4. SettledConfiguration(r, new)
  BY <1>3 DEF SettledConfiguration, FlagsOfMap
<1>5. \A s : FlagOf(flags, s) <=> FlagOf(source.flags, s)
  BY <1>1, SameFlags
<1> QED
  BY <1>3, <1>4, <1>5

\* clone(), copyStageActiveness().
LEMMA RebuiltFacts ==
  ASSUME NEW r, \A n \in DOMAIN r.map : r.map[n] \in Stage,
         NEW source, TypedConfiguration(source), FlagsOfMap(source.flags, r.map),
         NEW new, new = RebuiltConfiguration(r, source)
  PROVE  /\ TypedConfiguration(new) /\ SettledConfiguration(r, new)
         /\ new.modId = Zero /\ new.chosen = source.chosen
         /\ \A s : FlagOf(new.flags, s) <=> FlagOf(source.flags, s)
<1> DEFINE base  == NewConfiguration(r)
           flags == [n \in DOMAIN base.flags |->
                       IF n \in DOMAIN source.flags
                         THEN [base.flags[n] EXCEPT !.active = source.flags[n].active]
                         ELSE base.flags[n]]
           flagged == WithFlags(r, base, flags)
<1>1. /\ TypedConfiguration(base) /\ SettledConfiguration(r, base) /\ base.modId = Zero
      /\ AllActive(base.flags, r.map)
  <2>1. base = NewConfiguration(r)
    OBVIOUS
  <2> HIDE DEF base
  <2> QED
    BY <2>1, NewConfigurationFacts
<1>2. new = [flagged EXCEPT !.chosen = source.chosen]
  BY DEF RebuiltConfiguration
<1> HIDE DEF base
<1>3. /\ DOMAIN flags = DOMAIN r.map
      /\ \A n \in DOMAIN r.map : flags[n] = [base.flags[n] EXCEPT !.active = source.flags[n].active]
  BY <1>1 DEF SettledConfiguration, FlagsOfMap
<1> HIDE DEF flags
<1>4. \A n \in DOMAIN r.map :
        /\ flags[n] = [stage |-> r.map[n], active |-> source.flags[n].active]
        /\ flags[n].stage = r.map[n]
  <2> TAKE n \in DOMAIN r.map
  <2>1. base.flags[n] = [stage |-> r.map[n], active |-> TRUE]
    BY <1>1 DEF AllActive
  <2>2. flags[n] = [base.flags[n] EXCEPT !.active = source.flags[n].active]
    BY <1>3
  <2>3. flags[n] = [stage |-> r.map[n], active |-> source.flags[n].active]
    BY ONLY <2>1, <2>2
  <2> QED
    BY <2>3
<1>5. FlagsOfMap(flags, r.map) /\ FlagsTaken(flags, source.flags, r.map)
  BY <1>3, <1>4 DEF FlagsOfMap, FlagsTaken
<1>6. /\ TypedConfiguration(flagged) /\ SettledConfiguration(r, flagged)
      /\ flagged.modId = base.modId
      /\ \A s : FlagOf(flagged.flags, s) <=> FlagOf(source.flags, s)
  BY <1>1, <1>4, <1>5, TakenFlags
<1> HIDE DEF flagged
<1>7. /\ DOMAIN new = ConfigurationFields /\ new.flags = flagged.flags
      /\ new.modId = flagged.modId
      /\ new.instances = flagged.instances /\ new.chosen = source.chosen
  BY <1>2, <1>6 DEF TypedConfiguration, ConfigurationFields
<1>8. TypedConfiguration(new) /\ SettledConfiguration(r, new)
  BY <1>6, <1>7 DEF TypedConfiguration, SettledConfiguration
<1> QED
  BY <1>1, <1>6, <1>7, <1>8

\* copy().
LEMMA CopiedFacts ==
  ASSUME NEW r, \A n \in DOMAIN r.map : r.map[n] \in Stage,
         NEW source, TypedConfiguration(source), FlagsOfMap(source.flags, r.map),
         NEW new, new = CopiedConfiguration(r, source)
  PROVE  /\ TypedConfiguration(new) /\ SettledConfiguration(r, new)
         /\ new.modId = source.modId /\ new.chosen = source.chosen
         /\ \A s : FlagOf(new.flags, s) <=> FlagOf(source.flags, s)
<1> DEFINE base  == NewConfiguration(r)
           flags == [n \in DOMAIN base.flags \cup DOMAIN source.flags |->
                       IF n \in DOMAIN source.flags THEN source.flags[n] ELSE base.flags[n]]
           flagged == WithFlags(r, base, flags)
<1>1. TypedConfiguration(base) /\ SettledConfiguration(r, base)
  BY NewConfigurationFacts
<1>2. new = [flagged EXCEPT !.modId = source.modId, !.chosen = source.chosen]
  BY DEF CopiedConfiguration
<1> HIDE DEF base
<1>3. DOMAIN flags = DOMAIN r.map /\ \A n \in DOMAIN r.map : flags[n] = source.flags[n]
  BY <1>1 DEF SettledConfiguration, FlagsOfMap
<1> HIDE DEF flags
<1>4. \A n \in DOMAIN r.map :
        /\ flags[n] = [stage |-> r.map[n], active |-> source.flags[n].active]
        /\ flags[n].stage = r.map[n]
  BY <1>3 DEF FlagsOfMap, TypedConfiguration, TypedFlags
<1>5. FlagsOfMap(flags, r.map) /\ FlagsTaken(flags, source.flags, r.map)
  BY <1>3, <1>4 DEF FlagsOfMap, FlagsTaken
<1>6. /\ TypedConfiguration(flagged) /\ SettledConfiguration(r, flagged)
      /\ \A s : FlagOf(flagged.flags, s) <=> FlagOf(source.flags, s)
  BY <1>1, <1>4, <1>5, TakenFlags
<1> HIDE DEF flagged
<1>7. /\ DOMAIN new = ConfigurationFields /\ new.flags = flagged.flags
      /\ new.modId = source.modId
      /\ new.instances = flagged.instances /\ new.chosen = source.chosen
  BY <1>2, <1>6 DEF TypedConfiguration, ConfigurationFields
<1>8. TypedConfiguration(new) /\ SettledConfiguration(r, new)
  BY <1>6, <1>7 DEF TypedConfiguration, SettledConfiguration
<1> QED
  BY <1>6, <1>7, <1>8

\* In a settled rocket each stage has one flag, and a stage outside the tree has none.
LEMMA SettledFlags ==
  ASSUME NEW r, NEW h, TreeSound(r.tree, h), Numbered(r), NEW flags, FlagsOfMap(flags, r.map)
  PROVE  /\ \A n \in DOMAIN r.map : FlagOf(flags, r.map[n]) <=> flags[n].active
         /\ \A s : s \notin InTree(r.tree) => FlagOf(flags, s)
         /\ \A s \in InTree(r.tree) : /\ r.number[s] \in DOMAIN r.map
                                      /\ r.map[r.number[s]] = s
<1>1. /\ MapSound(r)
      /\ \A s : s \in InTree(r.tree) <=> \E n \in DOMAIN r.map : r.map[n] = s
  BY NumberedStages
<1>2. \A s : FlagOf(flags, s) <=> \A n \in DOMAIN flags : flags[n].stage = s => flags[n].active
  BY Zenon DEF FlagOf
<1>3. \A n, m \in DOMAIN r.map : r.map[n] = r.map[m] => n = m
  BY <1>1 DEF MapSound
<1> QED
  BY <1>1, <1>2, <1>3 DEF FlagsOfMap, MapSound
-----------------------------------------------------------------------------
(* The operations on a rocket.                                               *)

LEMMA MapNamesStages ==
  ASSUME NEW r, NEW h, Sound(r, h)
  PROVE  \A n \in DOMAIN r.map : r.map[n] \in Stage
  BY InTreeIs DEF Sound, MapSound

\* trackStage() of a stage that the map does not name.
LEMMA TrackedFacts ==
  ASSUME NEW r, Typed(r), NEW s \in Stage,
         IsFiniteSet(DOMAIN r.map), DOMAIN r.map \subseteq Nat,
         \A n \in DOMAIN r.map : r.map[n] # s,
         NEW q, q = Tracked(r, s)
  PROVE  /\ Typed(q) /\ q.tree = r.tree /\ q.configs = r.configs /\ q.selected = r.selected
         /\ IsFiniteSet(DOMAIN q.map) /\ DOMAIN q.map \subseteq Nat
         /\ q.number[s] \in DOMAIN q.map \ DOMAIN r.map
         /\ DOMAIN q.map = DOMAIN r.map \cup {q.number[s]} /\ q.map[q.number[s]] = s
         /\ \A n \in DOMAIN r.map : q.map[n] = r.map[n]
         /\ \A x \in Stage : x # s => q.number[x] = r.number[x]
<1> DEFINE n == NewStageNumber(r.map)
           map == [m \in DOMAIN r.map \cup {n} |-> IF m = n THEN s ELSE r.map[m]]
           number == [r.number EXCEPT ![s] = n]
<1>1. n \in Nat /\ n \notin DOMAIN r.map
  BY NewNumber
<1>2. q = [r EXCEPT !.number[s] = n, !.map = map]
  BY DEF Tracked
<1> HIDE DEF n
<1>3. r.number \in [Stage -> Nat] /\ IsRocket(r)
  BY DEF Typed
<1>4. /\ DOMAIN map = DOMAIN r.map \cup {n} /\ map[n] = s
      /\ \A m \in DOMAIN r.map : map[m] = r.map[m]
  BY <1>1
<1> HIDE DEF map
<1>5. /\ IsRocket(q) /\ q.tree = r.tree /\ q.configs = r.configs /\ q.selected = r.selected
      /\ q.map = map /\ q.number = number
  BY <1>2, <1>3 DEF IsRocket
<1>6. /\ number \in [Stage -> Nat] /\ number[s] = n
      /\ \A x \in Stage : x # s => number[x] = r.number[x]
  BY <1>1, <1>3
<1> HIDE DEF number
<1>7. IsFiniteSet(DOMAIN map)
  BY <1>4, FS_AddElement
<1>8. Typed(q)
  BY <1>5, <1>6 DEF Typed
<1> QED
  BY <1>1, <1>4, <1>5, <1>6, <1>7, <1>8

\* A stage came, or went, with its boosters.
Gained(tree, t, s) == InTree(t) = InTree(tree) \cup WithSubStages(tree, s)
Lost(tree, t, s)   == InTree(t) = InTree(tree) \ WithSubStages(tree, s)

\* Where a stage that is nowhere may be put.
FitsAt(tree, s, p, i) ==
  /\ \A q \in Parent : s \notin ToSet(tree[q])
  /\ p \in Parent /\ (s \in Core <=> p = Root) /\ (p # Root => p \in ToSet(tree[Root]))
  /\ i \in 1 .. Len(tree[p]) + 1

\* linkChild().
LEMMA LinkedFacts ==
  ASSUME NEW r, NEW h \in SUBSET Stage, Sound(r, h),
         NEW s \in Stage, NEW p, NEW i, FitsAt(r.tree, s, p, i),
         NEW q, q = Linked(r, p, i, s)
  PROVE  /\ Sound(q, h \ {s}) /\ q.configs = r.configs
         /\ Gained(r.tree, q.tree, s) /\ SameBoosters(r.tree, q.tree, h \cup {s})
<1> DEFINE t == Grown(r.tree, p, i, s)
           g == [r EXCEPT !.tree[p] = InsertAt(r.tree[p], i, s)]
<1>0. IsRocket(r) /\ r.number \in [Stage -> Nat] /\ TreeSound(r.tree, h) /\ MapSound(r)
  BY DEF Sound, Typed
<1>1. /\ TreeSound(t, h \ {s}) /\ InTree(t) = InTree(r.tree) \cup WithSubStages(r.tree, s)
      /\ \A x \in h \cup {s} : WithSubStages(t, x) = WithSubStages(r.tree, x)
  <2> DEFINE tree == r.tree
  <2>1. /\ t = Grown(tree, p, i, s)
        /\ TreeSound(tree, h) /\ h \in SUBSET Stage
        /\ s \in Stage /\ (\A q1 \in Parent : s \notin ToSet(tree[q1]))
        /\ p \in Parent /\ (s \in Core <=> p = Root) /\ (p # Root => p \in ToSet(tree[Root]))
        /\ i \in 1 .. Len(tree[p]) + 1
    BY <1>0 DEF FitsAt
  <2> HIDE DEF t, tree
  <2>2. /\ TreeSound(t, h \ {s}) /\ InTree(t) = InTree(tree) \cup WithSubStages(tree, s)
        /\ SameBoosters(tree, t, h \cup {s})
    BY ONLY <2>1, LinkedTree
  <2> QED
    BY <2>2 DEF tree, SameBoosters
<1>2. /\ IsRocket(g) /\ g.tree = t /\ g.configs = r.configs /\ g.selected = r.selected
      /\ g.map = r.map /\ g.number = r.number
  BY <1>0 DEF IsRocket, Grown
<1>3. q = Tracked(g, s)
  BY DEF Linked
<1> HIDE DEF t, g
<1>4. s \notin InTree(r.tree)
  <2>1. ToSet(r.tree[Root]) \subseteq Parent /\ Root \in Parent
    BY <1>0, Disjoint DEF TreeSound
  <2> QED
    BY <2>1 DEF InTree, FitsAt
<1>5. \A n \in DOMAIN r.map : /\ r.map[n] # s /\ r.map[n] \in Stage
                             /\ r.map[n] \in InTree(r.tree) /\ r.number[r.map[n]] = n
  BY <1>0, <1>4, InTreeIs DEF MapSound
<1>6. Typed(g)
  BY <1>2 DEF Typed, Sound
<1>7. /\ Typed(q) /\ q.tree = t /\ q.configs = r.configs /\ q.selected = r.selected
      /\ IsFiniteSet(DOMAIN q.map) /\ DOMAIN q.map \subseteq Nat
      /\ q.number[s] \in DOMAIN q.map \ DOMAIN r.map
      /\ DOMAIN q.map = DOMAIN r.map \cup {q.number[s]} /\ q.map[q.number[s]] = s
      /\ \A n \in DOMAIN r.map : q.map[n] = r.map[n]
      /\ \A x \in Stage : x # s => q.number[x] = r.number[x]
  <2>1. /\ IsFiniteSet(DOMAIN g.map) /\ DOMAIN g.map \subseteq Nat
        /\ \A n \in DOMAIN g.map : g.map[n] # s
    BY <1>0, <1>2, <1>5 DEF MapSound
  <2> QED
    BY <1>2, <1>3, <1>6, <2>1, TrackedFacts
<1>8. MapSound(q)
  <2> SUFFICES ASSUME NEW n \in DOMAIN q.map
               PROVE  q.map[n] \in InTree(q.tree) /\ q.number[q.map[n]] = n
    BY <1>7 DEF MapSound
  <2>1. s \in WithSubStages(r.tree, s)
    BY DEF WithSubStages
  <2>2. CASE n \in DOMAIN r.map
    BY <1>1, <1>5, <1>7, <2>2
  <2>3. CASE n = q.number[s]
    BY <1>1, <1>7, <2>1, <2>3
  <2> QED
    BY <1>7, <2>2, <2>3
<1> QED
  BY <1>1, <1>7, <1>8 DEF Sound, SameBoosters, Gained

SameFlagsAndChoices(r, q) ==
  /\ DOMAIN q.configs = DOMAIN r.configs
  /\ \A c \in DOMAIN r.configs : /\ q.configs[c].flags = r.configs[c].flags
                                 /\ q.configs[c].chosen = r.configs[c].chosen

FewerInstances(r, q, removed) ==
  \A c \in DOMAIN r.configs : q.configs[c].instances = r.configs[c].instances \ removed

\* removeChild(), up to the event.
LEMMA UnlinkedFacts ==
  ASSUME NEW r, NEW h \in SUBSET Stage, Sound(r, h), NEW s \in InTree(r.tree),
         NEW q, q = Unlinked(r, s)
  PROVE  /\ Sound(q, h \cup {s}) /\ SameFlagsAndChoices(r, q)
         /\ Lost(r.tree, q.tree, s) /\ SameBoosters(r.tree, q.tree, h \cup {s})
         /\ OneLess(q.tree[ParentOf(r.tree, s)], r.tree[ParentOf(r.tree, s)])
         /\ ParentOf(r.tree, s) # Root => ParentOf(r.tree, s) \in ToSet(q.tree[Root])
         /\ FewerInstances(r, q, WithSubStages(r.tree, s))
<1> DEFINE removed == WithSubStages(r.tree, s)
           kept    == {n \in DOMAIN r.map :
                         r.map[n] \notin removed /\ \A x \in removed : r.number[x] # n}
           p       == ParentOf(r.tree, s)
           t       == Shrunk(r.tree, p, s)
           map     == [n \in kept |-> r.map[n]]
           configs == [c \in DOMAIN r.configs |->
                         [r.configs[c] EXCEPT !.instances = @ \ removed]]
<1>0. IsRocket(r) /\ r.number \in [Stage -> Nat] /\ TreeSound(r.tree, h) /\ MapSound(r)
  BY DEF Sound, Typed
<1>1. /\ TreeSound(t, h \cup {s}) /\ InTree(t) = InTree(r.tree) \ removed
      /\ \A x \in h \cup {s} : WithSubStages(t, x) = WithSubStages(r.tree, x)
      /\ OneLess(t[p], r.tree[p])
  <2> DEFINE tree == r.tree
  <2>1. /\ t = Shrunk(tree, p, s) /\ p = ParentOf(tree, s)
        /\ TreeSound(tree, h) /\ s \in InTree(tree) /\ h \in SUBSET Stage
    BY <1>0
  <2> HIDE DEF t, p, tree
  <2>2. /\ TreeSound(t, h \cup {s}) /\ InTree(t) = InTree(tree) \ WithSubStages(tree, s)
        /\ SameBoosters(tree, t, h \cup {s})
        /\ OneLess(t[p], tree[p])
    BY ONLY <2>1, UnlinkedTree
  <2> QED
    BY <2>2 DEF tree, SameBoosters
<1>2. q = [r EXCEPT !.tree[p] = RemoveFirst(r.tree[p], s), !.map = map, !.configs = configs]
  BY DEF Unlinked
<1>3. p # Root => p \in ToSet(t[Root])
  <2>1. /\ p \in Parent /\ s \in ToSet(r.tree[p])
        /\ p # Root => p \in ToSet(r.tree[Root])
    BY <1>0, ParentFacts
  <2>2. p # Root => t[Root] = r.tree[Root]
    BY <1>0, Disjoint DEF TreeSound, Shrunk
  <2> QED
    BY <2>1, <2>2
<1> HIDE DEF removed, kept, map, configs, t, p
<1>4. /\ IsRocket(q) /\ q.tree = t /\ q.map = map /\ q.configs = configs
      /\ q.number = r.number /\ q.selected = r.selected
  <2>1. t = [r.tree EXCEPT ![p] = RemoveFirst(r.tree[p], s)]
    BY DEF t, Shrunk
  <2> QED
    BY <1>0, <1>2, <2>1 DEF IsRocket
<1>5. ASSUME NEW c \in DOMAIN r.configs
      PROVE  /\ TypedConfiguration(configs[c]) /\ configs[c].flags = r.configs[c].flags
             /\ configs[c].chosen = r.configs[c].chosen
             /\ configs[c].instances = r.configs[c].instances \ removed
  <2>1. TypedConfiguration(r.configs[c])
    BY DEF Sound, Typed
  <2>2. configs[c] = [r.configs[c] EXCEPT !.instances = @ \ removed]
    BY DEF configs
  <2> QED
    BY <2>1, <2>2 DEF TypedConfiguration, ConfigurationFields
<1>6. DOMAIN configs = DOMAIN r.configs
  BY DEF configs
<1>7. MapSound(q)
  <2>1. /\ kept \subseteq DOMAIN r.map /\ DOMAIN map = kept
        /\ \A n \in kept : map[n] = r.map[n] /\ r.map[n] \notin removed
    BY DEF map, kept
  <2>2. IsFiniteSet(kept)
    BY <1>0, <2>1, FS_Subset DEF MapSound
  <2> QED
    BY <1>0, <1>1, <1>4, <2>1, <2>2 DEF MapSound
<1>8. Typed(q)
  BY <1>0, <1>4, <1>5, <1>6 DEF Typed
<1> QED
  BY <1>1, <1>3, <1>4, <1>5, <1>6, <1>7, <1>8
  DEF Sound, SameFlagsAndChoices, SameBoosters, FewerInstances, Lost, removed, p

NoneStands(tree, stages) == stages \cap InTree(tree) = {}
SameStages(tree, t)      == InTree(t) = InTree(tree) /\ Stages(t) = Stages(tree)

\* The choices for the stages are forgotten, all else of the configurations stays.
Forgotten(r, q, stages) ==
  /\ DOMAIN q.configs = DOMAIN r.configs
  /\ \A c \in DOMAIN r.configs :
       /\ q.configs[c].flags = r.configs[c].flags
       /\ q.configs[c].modId = r.configs[c].modId
       /\ q.configs[c].instances = r.configs[c].instances
       /\ \A s \in Stage : q.configs[c].chosen[s] = (s \in stages \/ r.configs[c].chosen[s])

\* The end of the stages that were removed.
LEMMA DestroyedFacts ==
  ASSUME NEW r, NEW h, Sound(r, h), NEW gone \in SUBSET Stage, NoneStands(r.tree, gone),
         NEW q, q = Destroyed(r, gone)
  PROVE  /\ Sound(q, h \ gone) /\ SameStages(r.tree, q.tree) /\ Forgotten(r, q, gone)
         /\ q.tree = Cleared(r.tree, gone)
         /\ Settled(r) => Settled(q)
<1> DEFINE t       == Cleared(r.tree, gone)
           number  == [s \in Stage |-> IF s \in gone THEN 0 ELSE r.number[s]]
           configs == [c \in DOMAIN r.configs |->
                         [r.configs[c] EXCEPT !.chosen = [s \in Stage |-> s \in gone \/ @[s]]]]
<1>0. IsRocket(r) /\ r.number \in [Stage -> Nat] /\ TreeSound(r.tree, h) /\ MapSound(r)
  BY DEF Sound, Typed
<1>1. TreeSound(t, h \ gone) /\ InTree(t) = InTree(r.tree) /\ Stages(t) = Stages(r.tree)
  <2> DEFINE tree == r.tree
  <2>1. /\ t = Cleared(tree, gone)
        /\ TreeSound(tree, h) /\ gone \cap InTree(tree) = {} /\ gone \in SUBSET Stage
    BY <1>0 DEF NoneStands
  <2> HIDE DEF t, tree
  <2>2. TreeSound(t, h \ gone) /\ InTree(t) = InTree(tree) /\ Stages(t) = Stages(tree)
    BY ONLY <2>1, DestroyedTree
  <2> QED
    BY <2>2 DEF tree
<1>2. q = [r EXCEPT !.tree = t, !.number = number, !.configs = configs]
  BY DEF Destroyed, Cleared
<1>3. number \in [Stage -> Nat] /\ \A s \in InTree(r.tree) : number[s] = r.number[s]
  BY <1>0, InTreeIs DEF NoneStands
<1>4. DOMAIN configs = DOMAIN r.configs
  OBVIOUS
<1>5. ASSUME NEW c \in DOMAIN r.configs
      PROVE  /\ TypedConfiguration(configs[c])
             /\ configs[c].flags = r.configs[c].flags
             /\ configs[c].modId = r.configs[c].modId
             /\ configs[c].instances = r.configs[c].instances
             /\ \A s \in Stage : configs[c].chosen[s] = (s \in gone \/ r.configs[c].chosen[s])
  <2> DEFINE old    == r.configs[c]
             chosen == [s \in Stage |-> s \in gone \/ old.chosen[s]]
  <2>1. TypedConfiguration(old)
    BY DEF Sound, Typed
  <2>2. configs[c] = [old EXCEPT !.chosen = chosen]
    OBVIOUS
  <2>3. chosen \in [Stage -> BOOLEAN]
    OBVIOUS
  <2>4. \A s \in Stage : chosen[s] = (s \in gone \/ old.chosen[s])
    OBVIOUS
  <2> HIDE DEF chosen, old, configs
  <2>5. /\ DOMAIN configs[c] = ConfigurationFields /\ configs[c].flags = old.flags
        /\ configs[c].modId = old.modId /\ configs[c].instances = old.instances
        /\ configs[c].chosen = chosen
    BY <2>1, <2>2 DEF TypedConfiguration, ConfigurationFields
  <2>6. TypedConfiguration(configs[c])
    BY <2>1, <2>3, <2>5 DEF TypedConfiguration
  <2> QED
    BY <2>4, <2>5, <2>6 DEF old
<1> HIDE DEF t, number, configs
<1>6. /\ IsRocket(q) /\ q.tree = t /\ q.map = r.map /\ q.configs = configs
      /\ q.number = number /\ q.selected = r.selected
  BY <1>0, <1>2 DEF IsRocket
<1>7. Typed(q)
  BY <1>3, <1>4, <1>5, <1>6 DEF Typed
<1>8. MapSound(q)
  BY <1>0, <1>1, <1>3, <1>6 DEF MapSound
<1>9. ASSUME Settled(r) PROVE Settled(q)
  <2>1. Numbered(q)
    BY <1>0, <1>1, <1>3, <1>6, <1>9 DEF Settled, Numbered, MapSound
  <2>2. \A flags : ActiveInstances(q, flags) = ActiveInstances(r, flags)
    BY <1>1, <1>3, <1>6 DEF ActiveInstances, IsStageActive
  <2> QED
    BY <1>4, <1>5, <1>6, <1>9, <2>1, <2>2 DEF Settled, SettledConfiguration
<1> QED
  BY <1>1, <1>4, <1>5, <1>6, <1>7, <1>8, <1>9 DEF Sound, SameStages, Forgotten, t

\* updateConfigurationsModId().
LEMMA RedrawnFacts ==
  ASSUME NEW r, NEW h, Sound(r, h), NEW ids, NEW q, q = Redrawn(r, ids)
  PROVE  /\ Sound(q, h) /\ q.tree = r.tree /\ q.selected = r.selected
         /\ SameFlagsAndChoices(r, q)
         /\ \A c \in DOMAIN r.configs :
              /\ q.configs[c].instances = r.configs[c].instances
              /\ q.configs[c].modId = IF c \in ids THEN FreshId(c) ELSE r.configs[c].modId
         /\ Settled(r) => Settled(q)
<1> DEFINE configs == [c \in DOMAIN r.configs |->
                         IF c \in ids THEN [r.configs[c] EXCEPT !.modId = FreshId(c)]
                                      ELSE r.configs[c]]
<1>1. q = [r EXCEPT !.configs = configs]
  BY DEF Redrawn
<1>2. DOMAIN configs = DOMAIN r.configs
  OBVIOUS
<1>3. \A c \in DOMAIN r.configs :
        configs[c] = IF c \in ids THEN [r.configs[c] EXCEPT !.modId = FreshId(c)]
                                  ELSE r.configs[c]
  OBVIOUS
<1> HIDE DEF configs
<1>4. /\ IsRocket(q) /\ q.tree = r.tree /\ q.selected = r.selected /\ q.map = r.map
      /\ q.number = r.number /\ q.configs = configs
  BY <1>1 DEF Sound, Typed, IsRocket
<1>5. ASSUME NEW c \in DOMAIN r.configs
      PROVE  /\ TypedConfiguration(configs[c])
             /\ configs[c].flags = r.configs[c].flags
             /\ configs[c].chosen = r.configs[c].chosen
             /\ configs[c].instances = r.configs[c].instances
             /\ configs[c].modId = IF c \in ids THEN FreshId(c) ELSE r.configs[c].modId
  <2> DEFINE old == r.configs[c]
  <2>1. TypedConfiguration(old)
    BY DEF Sound, Typed
  <2>2. configs[c] = IF c \in ids THEN [old EXCEPT !.modId = FreshId(c)] ELSE old
    BY <1>3
  <2> HIDE DEF old
  <2>3. CASE c \in ids
    <3>1. configs[c] = [old EXCEPT !.modId = FreshId(c)]
      BY <2>2, <2>3
    <3>2. /\ DOMAIN configs[c] = ConfigurationFields /\ configs[c].flags = old.flags
          /\ configs[c].chosen = old.chosen /\ configs[c].instances = old.instances
          /\ configs[c].modId = FreshId(c)
      BY <2>1, <3>1 DEF TypedConfiguration, ConfigurationFields
    <3> QED
      BY <2>1, <2>3, <3>2 DEF TypedConfiguration, old
  <2>4. CASE c \notin ids
    BY <2>1, <2>2, <2>4 DEF old
  <2> QED
    BY <2>3, <2>4
<1>6. Typed(q)
  BY <1>2, <1>4, <1>5 DEF Sound, Typed
<1>7. MapSound(q)
  BY <1>4 DEF Sound, MapSound
<1>8. ASSUME Settled(r) PROVE Settled(q)
  <2>1. Numbered(q)
    BY <1>4, <1>8 DEF Settled, Numbered
  <2>2. \A flags : ActiveInstances(q, flags) = ActiveInstances(r, flags)
    BY <1>4, SameInstances
  <2> QED
    BY <1>2, <1>4, <1>5, <1>8, <2>1, <2>2 DEF Settled, SettledConfiguration
<1> QED
  BY <1>2, <1>4, <1>5, <1>6, <1>7, <1>8 DEF Sound, SameFlagsAndChoices

\* The flags of the stages agree with the choices, and outside the stages every choice
\* is the first one.
Ready(config, stages) ==
  /\ \A s \in stages : FlagOf(config.flags, s) <=> config.chosen[s]
  /\ ActiveOutside(config, stages)

Good(r) ==
  /\ Sound(r, {}) /\ Settled(r)
  /\ \A c \in DOMAIN r.configs :
       Agrees(r.configs[c]) /\ ActiveOutside(r.configs[c], InTree(r.tree))

LEMMA GoodIsReady ==
  ASSUME NEW r, Good(r), NEW c \in DOMAIN r.configs
  PROVE  Ready(r.configs[c], InTree(r.tree))
  BY InTreeIs DEF Good, Sound, Ready, Agrees

\* The same configurations with the same choices.
SameChoices(r, q) ==
  /\ DOMAIN q.configs = DOMAIN r.configs
  /\ \A c \in DOMAIN r.configs : q.configs[c].chosen = r.configs[c].chosen

LEMMA UpdateFollows ==
  ASSUME NEW r, NEW h, Sound(r, h), NEW q, q = Updated(r)
  PROVE  /\ Sound(q, h) /\ q.tree = r.tree /\ q.selected = r.selected
         /\ Settled(q) /\ FlagsFollow(r, q) /\ SameIds(r, q)
<1>1. Typed(r) /\ TreeSound(r.tree, h) /\ MapSound(r)
  BY DEF Sound
<1>2. /\ Typed(q) /\ q.tree = r.tree /\ q.selected = r.selected
      /\ MapSound(q) /\ Settled(q) /\ FlagsFollow(r, q) /\ SameIds(r, q)
  BY <1>1, UpdatedFacts
<1> QED
  BY <1>1, <1>2 DEF Sound

LEMMA GoodAfterUpdate ==
  ASSUME NEW r, Sound(r, {}), \A c \in DOMAIN r.configs : Ready(r.configs[c], InTree(r.tree)),
         NEW q, q = Updated(r)
  PROVE  /\ Good(q) /\ q.tree = r.tree /\ q.selected = r.selected
         /\ SameChoices(r, q) /\ SameIds(r, q)
<1>1. /\ Sound(q, {}) /\ q.tree = r.tree /\ q.selected = r.selected
      /\ Settled(q) /\ FlagsFollow(r, q) /\ SameIds(r, q)
  BY UpdateFollows
<1>2. /\ DOMAIN q.configs = DOMAIN r.configs
      /\ \A c \in DOMAIN r.configs :
           /\ q.configs[c].chosen = r.configs[c].chosen
           /\ \A s : FlagOf(q.configs[c].flags, s)
                       <=> (s \in InTree(r.tree) => FlagOf(r.configs[c].flags, s))
  BY <1>1 DEF FlagsFollow
<1>3. ASSUME NEW c \in DOMAIN r.configs
      PROVE  Agrees(q.configs[c]) /\ ActiveOutside(q.configs[c], InTree(q.tree))
  <2>1. Ready(r.configs[c], InTree(r.tree))
    OBVIOUS
  <2>2. ASSUME NEW s \in Stage PROVE FlagOf(q.configs[c].flags, s) <=> q.configs[c].chosen[s]
    <3>1. CASE s \in InTree(r.tree)
      BY <1>2, <2>1, <3>1 DEF Ready
    <3>2. CASE s \notin InTree(r.tree)
      BY <1>2, <2>1, <3>2 DEF Ready, ActiveOutside
    <3> QED
      BY <3>1, <3>2
  <2>3. ActiveOutside(q.configs[c], InTree(q.tree))
    BY <1>1, <1>2, <2>1 DEF Ready, ActiveOutside
  <2> QED
    BY <2>2, <2>3 DEF Agrees
<1> QED
  BY <1>1, <1>2, <1>3 DEF Good, SameChoices

\* restoreStageActiveness().
RestoredFlags(r, stages, before, q) ==
  \A c \in DOMAIN r.configs : \A s \in InTree(r.tree) :
    FlagOf(q.configs[c].flags, s)
      <=> FlagOf((IF s \in stages THEN before ELSE r).configs[c].flags, s)

LEMMA ReactivatedFacts ==
  ASSUME NEW r, Sound(r, {}), Settled(r), NEW stages, NEW before,
         NEW q, q = Reactivated(r, stages, before)
  PROVE  /\ Sound(q, {}) /\ q.tree = r.tree /\ q.selected = r.selected
         /\ SameChoices(r, q) /\ RestoredFlags(r, stages, before, q)
<1> DEFINE Flags(c) == [n \in DOMAIN r.configs[c].flags |->
                          LET flag == r.configs[c].flags[n]
                          IN  IF flag.stage \in stages
                                THEN [flag EXCEPT !.active =
                                        FlagOf(before.configs[c].flags, flag.stage)]
                                ELSE flag]
           configs == [c \in DOMAIN r.configs |->
                         WithFlags(r, r.configs[c], UpdatedFlags(Flags(c), r.map))]
<1>1. q = [r EXCEPT !.configs = configs]
  BY DEF Reactivated
<1>2. /\ DOMAIN configs = DOMAIN r.configs
      /\ \A c \in DOMAIN r.configs :
           configs[c] = WithFlags(r, r.configs[c], UpdatedFlags(Flags(c), r.map))
  OBVIOUS
<1> HIDE DEF configs
<1>3. /\ IsRocket(q) /\ q.tree = r.tree /\ q.selected = r.selected /\ q.map = r.map
      /\ q.number = r.number /\ q.configs = configs
  BY <1>1 DEF Sound, Typed, IsRocket
<1>4. \A n \in DOMAIN r.map : r.map[n] \in Stage
  BY MapNamesStages
<1>5. \A s : s \in InTree(r.tree) <=> \E n \in DOMAIN r.map : r.map[n] = s
  BY NumberedStages DEF Sound, Settled
<1>6. ASSUME NEW c \in DOMAIN r.configs
      PROVE  /\ TypedConfiguration(configs[c]) /\ configs[c].chosen = r.configs[c].chosen
             /\ \A s \in InTree(r.tree) :
                  FlagOf(configs[c].flags, s)
                    <=> FlagOf((IF s \in stages THEN before ELSE r).configs[c].flags, s)
  <2> DEFINE old  == r.configs[c].flags
             mid  == Flags(c)
             new  == UpdatedFlags(mid, r.map)
  <2>1. TypedConfiguration(r.configs[c]) /\ TypedFlags(old) /\ FlagsOfMap(old, r.map)
    BY DEF Sound, Typed, TypedConfiguration, Settled, SettledConfiguration, FlagsOfMap
  <2>2. /\ DOMAIN mid = DOMAIN r.map
        /\ \A n \in DOMAIN r.map :
             mid[n] = IF old[n].stage \in stages
                        THEN [old[n] EXCEPT !.active = FlagOf(before.configs[c].flags, old[n].stage)]
                        ELSE old[n]
    BY <2>1 DEF FlagsOfMap
  <2>3. /\ TypedFlags(new)
        /\ \A s : FlagOf(new, s) <=> ((\E n \in DOMAIN r.map : r.map[n] = s) => FlagOf(mid, s))
    <3> HIDE DEF mid
    <3> QED
      BY <1>4, UpdatedFlagsFacts
  <2>4. configs[c] = WithFlags(r, r.configs[c], new)
    BY <1>2
  <2> HIDE DEF mid, new, old
  <2>5. /\ TypedConfiguration(configs[c]) /\ configs[c].chosen = r.configs[c].chosen
        /\ configs[c].flags = new
    BY <2>1, <2>3, <2>4, WithFlagsFacts
  <2>6. \A n \in DOMAIN r.map :
          /\ mid[n].stage = old[n].stage
          /\ mid[n].active = IF old[n].stage \in stages
                               THEN FlagOf(before.configs[c].flags, old[n].stage)
                               ELSE old[n].active
    <3> TAKE n \in DOMAIN r.map
    <3>1. old[n] \in [stage : Stage, active : BOOLEAN]
      BY <2>1 DEF TypedFlags, FlagsOfMap
    <3>2. CASE old[n].stage \in stages
      <4>1. mid[n] = [old[n] EXCEPT !.active = FlagOf(before.configs[c].flags, old[n].stage)]
        BY <2>2, <3>2
      <4> QED
        BY <3>1, <3>2, <4>1
    <3>3. CASE old[n].stage \notin stages
      BY <2>2, <3>3
    <3> QED
      BY <3>2, <3>3
  <2>7. FlagsOfMap(mid, r.map)
    BY <2>1, <2>2, <2>6 DEF FlagsOfMap
  <2>8. ASSUME NEW s \in InTree(r.tree)
        PROVE  FlagOf(new, s) <=> FlagOf((IF s \in stages THEN before ELSE r).configs[c].flags, s)
    <3>1. PICK n \in DOMAIN r.map : r.map[n] = s
      BY <1>5
    <3>2. FlagOf(new, s) <=> FlagOf(mid, s)
      BY <2>3, <3>1
    <3>3. (FlagOf(mid, s) <=> mid[n].active) /\ (FlagOf(old, s) <=> old[n].active)
      BY <2>1, <2>7, <3>1, SettledFlags DEF Sound, Settled
    <3>4. old[n].stage = s
      BY <2>1, <3>1 DEF FlagsOfMap
    <3>5. CASE s \in stages
      <4>1. mid[n].active = FlagOf(before.configs[c].flags, s)
        BY <2>6, <3>4, <3>5
      <4>2. FlagOf(new, s) <=> FlagOf(before.configs[c].flags, s)
        BY <3>2, <3>3, <4>1
      <4> QED
        BY <3>5, <4>2
    <3>6. CASE s \notin stages
      <4>1. mid[n].active = old[n].active
        BY <2>6, <3>4, <3>6
      <4>2. FlagOf(new, s) <=> FlagOf(old, s)
        BY <3>2, <3>3, <4>1
      <4> QED
        BY <3>6, <4>2 DEF old
    <3> QED
      BY <3>5, <3>6
  <2> QED
    BY <2>5, <2>8
<1>7. Typed(q) /\ MapSound(q)
  BY <1>2, <1>3, <1>6 DEF Sound, Typed, MapSound
<1> QED
  BY <1>2, <1>3, <1>6, <1>7 DEF Sound, SameChoices, RestoredFlags
-----------------------------------------------------------------------------
(* The stages, thawed and frozen.                                            *)

LEMMA GoodIsFollowed ==
  ASSUME NEW r
  PROVE  Good(r) <=> Followed(r, {}) /\ Settled(r)
<1>1. Loose(r.tree, {}) = {}
  BY DEF Loose
<1>2. \A flags : ActiveInstances(r, flags) \subseteq InTree(r.tree)
  BY DEF ActiveInstances
<1> QED
  BY <1>1, <1>2 DEF Good, Followed, FollowedConfiguration, Settled, SettledConfiguration

\* A stage of the tree stands with its boosters; one that is held does not.
LEMMA BoostersStand ==
  ASSUME NEW tree, NEW h \in SUBSET Stage, TreeSound(tree, h)
  PROVE  /\ \A s \in InTree(tree) : WithSubStages(tree, s) \subseteq InTree(tree)
         /\ h \subseteq Loose(tree, h)
         /\ Loose(tree, h) \subseteq Stage
         /\ Loose(tree, h) \cap InTree(tree) = {}
<1>1. /\ InTree(tree) \subseteq Stage
      /\ \A s \in Core : s \in InTree(tree) <=> s \in ToSet(tree[Root])
      /\ \A s \in Booster : s \in InTree(tree) <=>
           \E p \in ToSet(tree[Root]) : s \in ToSet(tree[p])
  BY InTreeIs
<1>2. /\ Root \notin Stage /\ Parent = {Root} \cup Core
      /\ \A s \in Stage : s \in Core <=> s \notin Booster
      /\ Core \subseteq Stage /\ Booster \subseteq Stage
  BY Disjoint
<1>3. ToSet(<< >>) = {}
  <2>1. << >> \in Seq(Stage)
    OBVIOUS
  <2> QED
    BY <2>1, EmptySequence
<1>4. \A s \in Core : WithSubStages(tree, s) = {s} \cup ToSet(tree[s])
  BY DEF WithSubStages, SubStages
<1>5. \A s \in Stage : s \notin Core => WithSubStages(tree, s) = {s}
  BY <1>3 DEF WithSubStages, SubStages
<1>6. ToSet(tree[Root]) \subseteq Core /\ \A p \in Core : ToSet(tree[p]) \subseteq Booster
  BY DEF TreeSound
<1>7. \A s \in InTree(tree) : WithSubStages(tree, s) \subseteq InTree(tree)
  BY <1>1, <1>2, <1>4, <1>5, <1>6
<1>8. \A p \in Parent : ToSet(tree[p]) \cap h = {}
  BY DEF TreeSound
<1>9. \A s \in h : s \notin InTree(tree)
  BY <1>1, <1>2, <1>6, <1>8
<1>10. ASSUME NEW s \in h PROVE WithSubStages(tree, s) \subseteq Stage \ InTree(tree)
  <2>1. CASE s \in Core
    <3>1. s \notin ToSet(tree[Root])
      BY <1>1, <1>9, <2>1
    <3>2. \A p \in ToSet(tree[Root]) : ToSet(tree[s]) \cap ToSet(tree[p]) = {}
      BY <1>2, <2>1, <3>1 DEF TreeSound
    <3> QED
      BY <1>1, <1>2, <1>4, <1>6, <1>9, <2>1, <3>2
  <2>2. CASE s \notin Core
    BY <1>5, <1>9, <2>2
  <2> QED
    BY <2>1, <2>2
<1>11. \A s \in h : s \in WithSubStages(tree, s)
  BY DEF WithSubStages
<1> QED
  BY <1>7, <1>10, <1>11 DEF Loose

SetIds(r, ids, q) ==
  \A c \in DOMAIN r.configs :
    q.configs[c].modId = IF c \in ids THEN FreshId(c) ELSE r.configs[c].modId

\* fireComponentChangeEvent() while the rocket is thawed and while it is frozen.
LEMMA Fired ==
  ASSUME frozen = "thawed", NEW r, Sound(r, {}),
         \A c \in DOMAIN r.configs : Ready(r.configs[c], InTree(r.tree)),
         NEW ids, FireFunctional(r, ids)
  PROVE  /\ Good(rocket') /\ rocket'.tree = r.tree /\ rocket'.selected = r.selected
         /\ SameChoices(r, rocket') /\ SetIds(r, ids, rocket')
<1> DEFINE q == Redrawn(r, ids)
<1>1. q = Redrawn(r, ids) /\ rocket' = Updated(q)
  BY DEF FireFunctional
<1> HIDE DEF q
<1>2. /\ Sound(q, {}) /\ q.tree = r.tree /\ q.selected = r.selected
      /\ SameFlagsAndChoices(r, q)
      /\ \A c \in DOMAIN r.configs :
           /\ q.configs[c].instances = r.configs[c].instances
           /\ q.configs[c].modId = IF c \in ids THEN FreshId(c) ELSE r.configs[c].modId
  BY <1>1, RedrawnFacts
<1>3. \A c \in DOMAIN q.configs : Ready(q.configs[c], InTree(q.tree))
  BY <1>2 DEF Ready, ActiveOutside, SameFlagsAndChoices
<1>4. /\ Good(rocket') /\ rocket'.tree = q.tree /\ rocket'.selected = q.selected
      /\ SameChoices(q, rocket') /\ SameIds(q, rocket')
  BY <1>1, <1>2, <1>3, GoodAfterUpdate
<1> QED
  BY <1>2, <1>4 DEF SameChoices, SameIds, SetIds, SameFlagsAndChoices

LEMMA FiredFrozen ==
  ASSUME frozen # "thawed", NEW r, NEW h, Followed(r, h), NEW ids, FireFunctional(r, ids)
  PROVE  /\ Followed(rocket', h) /\ rocket'.tree = r.tree
         /\ SameFlagsAndChoices(r, rocket') /\ SetIds(r, ids, rocket')
<1> DEFINE q == Redrawn(r, ids)
<1>1. q = Redrawn(r, ids) /\ rocket' = q /\ Sound(r, h)
  BY DEF FireFunctional, Followed
<1> HIDE DEF q
<1>2. /\ Sound(q, h) /\ q.tree = r.tree /\ q.selected = r.selected
      /\ SameFlagsAndChoices(r, q)
      /\ \A c \in DOMAIN r.configs :
           /\ q.configs[c].instances = r.configs[c].instances
           /\ q.configs[c].modId = IF c \in ids THEN FreshId(c) ELSE r.configs[c].modId
  BY <1>1, RedrawnFacts
<1>3. Followed(q, h)
  BY <1>2 DEF Followed, FollowedConfiguration, Agrees, ActiveOutside, SameFlagsAndChoices
<1> QED
  BY <1>1, <1>2, <1>3 DEF SetIds

NoneHeld == held = << >> /\ ToSet(held) = {}

LEMMA ThawedIsGood ==
  ASSUME FlightInvariant, frozen = "thawed"
  PROVE  Good(rocket) /\ NoneHeld /\ Sound(rocket, {}) /\ TreeSound(rocket.tree, {})
         /\ InTree(rocket.tree) \subseteq Stage
<1>1. held = << >> /\ ToSet(held) = {}
  BY EmptySequence DEF FlightInvariant
<1>2. Good(rocket)
  BY <1>1, GoodIsFollowed DEF FlightInvariant
<1> QED
  BY <1>1, <1>2, InTreeIs DEF NoneHeld, Good, Sound

LEMMA GoodIsEnough ==
  ASSUME Good(rocket'), frozen' = "thawed", held' = << >>
  PROVE  FlightInvariant'
<1>1. ToSet(held') = {} /\ held' \in Seq(Stage) /\ IsInjective(held')
  <2>1. << >> \in Seq(Stage) /\ IsInjective(<< >>)
    BY DEF IsInjective
  <2> QED
    BY <2>1, EmptySequence
<1>2. Followed(rocket', {}) /\ Settled(rocket')
  BY GoodIsFollowed
<1> QED
  BY <1>1, <1>2 DEF FlightInvariant

\* Every configuration gets another id.
AllIdsDrawn ==
  /\ DOMAIN rocket'.configs = DOMAIN rocket.configs
  /\ \A c \in DOMAIN rocket.configs : rocket'.configs[c].modId = FreshId(c)

\* A functional change of the stages while the rocket is thawed.
LEMMA StagesFired ==
  ASSUME FlightInvariant, frozen = "thawed", UNCHANGED <<frozen, held>>,
         NEW r, Sound(r, {}), DOMAIN r.configs = DOMAIN rocket.configs,
         \A c \in DOMAIN r.configs : Ready(r.configs[c], InTree(r.tree)),
         FireForAll(r)
  PROVE  FlightInvariant' /\ AllIdsDrawn
<1>1. /\ Good(rocket') /\ SameChoices(r, rocket') /\ SetIds(r, DOMAIN r.configs, rocket')
  <2>1. FireFunctional(r, DOMAIN r.configs)
    BY DEF FireForAll
  <2> QED
    BY <2>1, Fired
<1>2. FlightInvariant'
  BY <1>1, ThawedIsGood, GoodIsEnough DEF NoneHeld
<1> QED
  BY <1>1, <1>2 DEF AllIdsDrawn, SameChoices, SetIds

\* The stages of a configuration whose flags and choices did not change.
LEMMA ReadyAfter ==
  ASSUME NEW r, Good(r), NEW q, SameFlagsAndChoices(r, q),
         InTree(r.tree) \subseteq InTree(q.tree), InTree(q.tree) \subseteq Stage
  PROVE  \A c \in DOMAIN q.configs : Ready(q.configs[c], InTree(q.tree))
<1> SUFFICES ASSUME NEW c \in DOMAIN q.configs
             PROVE  Ready(q.configs[c], InTree(q.tree))
  OBVIOUS
<1>1. /\ c \in DOMAIN r.configs
      /\ q.configs[c].flags = r.configs[c].flags /\ q.configs[c].chosen = r.configs[c].chosen
  BY DEF SameFlagsAndChoices
<1>2. Agrees(r.configs[c]) /\ ActiveOutside(r.configs[c], InTree(r.tree))
  BY <1>1 DEF Good
<1> QED
  BY <1>1, <1>2 DEF Agrees, ActiveOutside, Ready

LEMMA SameConfigsSameFlags ==
  ASSUME NEW r, NEW q, q.configs = r.configs
  PROVE  SameFlagsAndChoices(r, q)
  BY DEF SameFlagsAndChoices

LEMMA UnusedIsNowhere ==
  ASSUME NEW tree, TreeSound(tree, {}), NEW s \in Stage, s \notin InTree(tree)
  PROVE  /\ \A q \in Parent : s \notin ToSet(tree[q])
         /\ WithSubStages(tree, s) = {s}
<1>1. /\ InTree(tree) \subseteq Stage
      /\ \A x \in Core : x \in InTree(tree) <=> x \in ToSet(tree[Root])
  BY InTreeIs
<1>2. Root \notin Stage /\ Parent = {Root} \cup Core
  BY Disjoint
<1>3. ToSet(<< >>) = {}
  <2>1. << >> \in Seq(Stage)
    OBVIOUS
  <2> QED
    BY <2>1, EmptySequence
<1>4. \A p \in Core : p \in ToSet(tree[Root]) \/ tree[p] = << >>
  BY DEF TreeSound
<1>5. s \notin ToSet(tree[Root]) /\ \A p \in ToSet(tree[Root]) : s \notin ToSet(tree[p])
  BY DEF InTree
<1>6. \A q \in Parent : s \notin ToSet(tree[q])
  BY <1>2, <1>3, <1>4, <1>5
<1>7. WithSubStages(tree, s) = {s}
  BY <1>3, <1>4, <1>5 DEF WithSubStages, SubStages
<1> QED
  BY <1>6, <1>7

LEMMA AddStageKeeps ==
  ASSUME FlightInvariant, NEW s \in Stage, NEW parent \in Parent, NEW i, AddStage(s, parent, i)
  PROVE  FlightInvariant' /\ AllIdsDrawn
<1> DEFINE q == Linked(rocket, parent, i, s)
<1>0. q = Linked(rocket, parent, i, s)
  OBVIOUS
<1>1. /\ frozen = "thawed" /\ UNCHANGED <<frozen, held>> /\ FireForAll(q)
      /\ s \notin InTree(rocket.tree)
      /\ s \in Core <=> parent = Root
      /\ parent = Root \/ parent \in InTree(rocket.tree)
      /\ i \in 1 .. Len(rocket.tree[parent]) + 1
  BY DEF AddStage, Unused, Accepts, Attached
<1> HIDE DEF q
<1>2. /\ Good(rocket) /\ Sound(rocket, {}) /\ TreeSound(rocket.tree, {})
      /\ InTree(rocket.tree) \subseteq Stage
  BY <1>1, ThawedIsGood
<1>3. /\ \A p \in Parent : s \notin ToSet(rocket.tree[p])
      /\ WithSubStages(rocket.tree, s) = {s}
  BY <1>1, <1>2, UnusedIsNowhere
<1>4. parent # Root => parent \in ToSet(rocket.tree[Root])
  BY <1>1, <1>2, InTreeIs, Disjoint
<1>5. /\ Sound(q, {}) /\ q.configs = rocket.configs
      /\ InTree(q.tree) = InTree(rocket.tree) \cup {s}
  <2> DEFINE h == {}
  <2>1. h \in SUBSET Stage /\ Sound(rocket, h) /\ h \ {s} = {}
    BY <1>2
  <2> HIDE DEF h
  <2>2. FitsAt(rocket.tree, s, parent, i)
    BY <1>1, <1>3, <1>4 DEF FitsAt
  <2>3. /\ Sound(q, h \ {s}) /\ q.configs = rocket.configs
        /\ Gained(rocket.tree, q.tree, s)
    BY <1>0, <2>1, <2>2, LinkedFacts
  <2> QED
    BY <1>3, <2>1, <2>3 DEF Gained
<1>6. \A c \in DOMAIN q.configs : Ready(q.configs[c], InTree(q.tree))
  BY <1>2, <1>5, ReadyAfter, SameConfigsSameFlags
<1> QED
  BY <1>1, <1>5, <1>6, StagesFired

LEMMA RemoveStageKeeps ==
  ASSUME FlightInvariant, NEW s \in Stage, RemoveStage(s)
  PROVE  FlightInvariant' /\ AllIdsDrawn
<1> DEFINE none == {}
           gone == WithSubStages(rocket.tree, s)
           u    == Unlinked(rocket, s)
           d    == Destroyed(u, gone)
<1>0. u = Unlinked(rocket, s) /\ d = Destroyed(u, gone) /\ none = {}
  OBVIOUS
<1>1. frozen = "thawed" /\ UNCHANGED <<frozen, held>> /\ FireForAll(d) /\ s \in InTree(rocket.tree)
  BY DEF RemoveStage
<1> HIDE DEF u, d, none, gone
<1>2. /\ Good(rocket) /\ Sound(rocket, none) /\ TreeSound(rocket.tree, none)
      /\ InTree(rocket.tree) \subseteq Stage
  BY <1>0, <1>1, ThawedIsGood
<1>3. none \in SUBSET Stage
  BY <1>0
<1>4. /\ Sound(u, none \cup {s}) /\ SameFlagsAndChoices(rocket, u)
      /\ Lost(rocket.tree, u.tree, s)
  BY <1>0, <1>1, <1>2, <1>3, UnlinkedFacts
<1>5. s \in gone /\ gone \subseteq InTree(rocket.tree)
  BY <1>1, <1>2, <1>3, BoostersStand DEF gone, WithSubStages
<1>6. InTree(u.tree) = InTree(rocket.tree) \ gone
  BY <1>4 DEF Lost, gone
<1>7. NoneStands(u.tree, gone) /\ gone \in SUBSET Stage
  BY <1>2, <1>5, <1>6 DEF NoneStands
<1>8. Sound(d, (none \cup {s}) \ gone) /\ SameStages(u.tree, d.tree) /\ Forgotten(u, d, gone)
  BY <1>0, <1>4, <1>7, DestroyedFacts
<1>9. Sound(d, {})
  <2>1. (none \cup {s}) \ gone = {}
    BY <1>0, <1>5
  <2> QED
    BY <1>8, <2>1
<1>10. DOMAIN d.configs = DOMAIN rocket.configs
  BY <1>4, <1>8 DEF SameFlagsAndChoices, Forgotten
<1>11. ASSUME NEW c \in DOMAIN d.configs PROVE Ready(d.configs[c], InTree(d.tree))
  <2>1. Agrees(rocket.configs[c]) /\ ActiveOutside(rocket.configs[c], InTree(rocket.tree))
    BY <1>2, <1>10 DEF Good
  <2>2. /\ d.configs[c].flags = rocket.configs[c].flags
        /\ \A x \in Stage : d.configs[c].chosen[x] = (x \in gone \/ rocket.configs[c].chosen[x])
    BY <1>4, <1>8, <1>10 DEF SameFlagsAndChoices, Forgotten
  <2>3. InTree(d.tree) = InTree(rocket.tree) \ gone
    BY <1>6, <1>8 DEF SameStages
  <2>4. rocket.configs[c].chosen \in [Stage -> BOOLEAN]
    BY <1>2, <1>10 DEF Sound, Typed, TypedConfiguration
  <2> QED
    BY <1>2, <2>1, <2>2, <2>3, <2>4 DEF Agrees, ActiveOutside, Ready
<1> QED
  BY <1>1, <1>9, <1>10, <1>11, StagesFired

LEMMA MoveStageKeeps ==
  ASSUME FlightInvariant, NEW s \in Stage, NEW i, MoveStage(s, i)
  PROVE  FlightInvariant' /\ AllIdsDrawn
<1> DEFINE none   == {}
           parent == ParentOf(rocket.tree, s)
           moved  == [rocket EXCEPT !.tree[parent] = InsertAt(RemoveFirst(@, s), i, s)]
           tree   == rocket.tree
           t      == Moved(tree, parent, i, s)
<1>1. /\ frozen = "thawed" /\ UNCHANGED <<frozen, held>> /\ FireForAll(moved)
      /\ s \in InTree(tree) /\ i \in DOMAIN tree[parent]
  BY DEF MoveStage
<1>2. /\ Good(rocket) /\ Sound(rocket, {}) /\ TreeSound(tree, none)
      /\ InTree(rocket.tree) \subseteq Stage
  BY <1>1, ThawedIsGood
<1>3. /\ IsRocket(rocket)
      /\ IsRocket(moved) /\ moved.tree = t /\ moved.configs = rocket.configs
      /\ moved.map = rocket.map /\ moved.number = rocket.number
  <2>1. IsRocket(rocket)
    BY <1>2 DEF Sound, Typed
  <2> QED
    BY <2>1 DEF IsRocket, Moved
<1>4. i \in 1 .. Len(tree[parent])
  <2>1. parent \in Parent
    BY <1>1, <1>2, ParentFacts
  <2>2. tree[parent] \in Seq(Stage)
    BY <1>2, <2>1 DEF TreeSound
  <2> QED
    BY <1>1, <2>2
<1> HIDE DEF moved, none, tree
<1>5. parent = ParentOf(tree, s) /\ t = Moved(tree, parent, i, s)
  BY DEF tree
<1> HIDE DEF t, parent
<1>6. TreeSound(t, none) /\ InTree(t) = InTree(tree)
  BY <1>1, <1>2, <1>4, <1>5, MovedTree
<1>7. Sound(moved, {})
  <2>1. TreeSound(moved.tree, {})
    BY <1>3, <1>6 DEF none
  <2> QED
    BY <1>2, <1>3, <1>6, <2>1 DEF Sound, Typed, MapSound, tree
<1>8. \A c \in DOMAIN moved.configs : Ready(moved.configs[c], InTree(moved.tree))
  BY <1>2, <1>3, <1>6, SameConfigsSameFlags, ReadyAfter DEF tree
<1> QED
  BY <1>1, <1>3, <1>7, <1>8, StagesFired

LEMMA FreezeKeeps ==
  ASSUME FlightInvariant, Freeze
  PROVE  FlightInvariant' /\ UNCHANGED rocket
  BY DEF FlightInvariant, Freeze

LEMMA RemoveStageFailsKeeps ==
  ASSUME FlightInvariant, NEW s \in Stage, RemoveStageFails(s)
  PROVE  FlightInvariant' /\ AllIdsDrawn
<1> DEFINE none   == {}
           one    == none \cup {s}
           tree   == rocket.tree
           with   == WithSubStages(tree, s)
           parent == ParentOf(tree, s)
           place  == PlaceOf(tree[parent], s)
           u      == Unlinked(rocket, s)
           d      == Updated(u)
           l      == Linked(d, parent, place, s)
           v      == Updated(l)
           a      == Reactivated(v, with, rocket)
<1>0. /\ u = Unlinked(rocket, s) /\ d = Updated(u) /\ l = Linked(d, parent, place, s)
      /\ v = Updated(l) /\ a = Reactivated(v, with, rocket) /\ tree = rocket.tree
      /\ parent = ParentOf(tree, s) /\ place = PlaceOf(tree[parent], s)
      /\ with = WithSubStages(tree, s)
  OBVIOUS
<1>1. frozen = "thawed" /\ UNCHANGED <<frozen, held>> /\ FireForAll(a) /\ s \in InTree(tree)
  BY DEF RemoveStageFails
<1> HIDE DEF u, d, l, v, a, with, parent, place, tree
<1>2. none \in SUBSET Stage /\ one \in SUBSET Stage /\ one \ {s} = {} /\ one = {s}
  OBVIOUS
<1> HIDE DEF one, none
<1>3. /\ Good(rocket) /\ Sound(rocket, none)
      /\ TreeSound(tree, none) /\ InTree(tree) \subseteq Stage
  BY <1>0, <1>1, ThawedIsGood DEF none
<1>4. /\ parent \in Parent /\ s \in ToSet(tree[parent]) /\ (s \in Core <=> parent = Root)
  BY <1>0, <1>1, <1>3, ParentFacts
<1>5. /\ Sound(u, one) /\ SameFlagsAndChoices(rocket, u)
      /\ Lost(tree, u.tree, s) /\ SameBoosters(tree, u.tree, one)
      /\ OneLess(u.tree[parent], tree[parent])
      /\ parent # Root => parent \in ToSet(u.tree[Root])
  BY <1>0, <1>1, <1>2, <1>3, UnlinkedFacts DEF one
<1>6. Sound(d, one) /\ d.tree = u.tree /\ FlagsFollow(u, d)
  BY <1>0, <1>5, UpdateFollows
<1>7. FitsAt(d.tree, s, parent, place)
  <2>1. \A q \in Parent : s \notin ToSet(d.tree[q])
    BY <1>2, <1>6 DEF Sound, TreeSound
  <2>2. place \in 1 .. Len(d.tree[parent]) + 1
    <3>1. tree[parent] \in Seq(Stage) /\ d.tree[parent] \in Seq(Stage)
      BY <1>3, <1>4, <1>6 DEF Sound, TreeSound
    <3>2. place \in 1 .. Len(tree[parent])
      BY <1>0, <1>4, <3>1, PlaceFacts
    <3>3. Len(d.tree[parent]) = Len(tree[parent]) - 1
      BY <1>5, <1>6 DEF OneLess
    <3>4. Len(d.tree[parent]) \in Nat /\ Len(tree[parent]) \in Nat
      BY <3>1
    <3> QED
      BY <3>2, <3>3, <3>4
  <2> QED
    BY <1>4, <1>5, <1>6, <2>1, <2>2 DEF FitsAt
<1>8. Sound(l, {}) /\ l.configs = d.configs /\ Gained(d.tree, l.tree, s)
  <2>1. Sound(l, one \ {s}) /\ l.configs = d.configs /\ Gained(d.tree, l.tree, s)
    <3>1. /\ one \in SUBSET Stage /\ Sound(d, one) /\ s \in Stage
          /\ FitsAt(d.tree, s, parent, place) /\ l = Linked(d, parent, place, s)
      BY <1>0, <1>2, <1>6, <1>7
    <3> QED
      BY ONLY <3>1, LinkedFacts
  <2> QED
    BY <1>2, <2>1
<1>9. /\ s \in with /\ with \subseteq InTree(tree)
      /\ InTree(u.tree) = InTree(tree) \ with
      /\ InTree(l.tree) = InTree(tree)
  <2>1. s \in with /\ with \subseteq InTree(tree)
    BY <1>0, <1>1, <1>2, <1>3, BoostersStand DEF WithSubStages
  <2>2. InTree(u.tree) = InTree(tree) \ with
    BY <1>0, <1>5 DEF Lost
  <2>3. WithSubStages(d.tree, s) = with
    BY <1>0, <1>2, <1>5, <1>6 DEF SameBoosters
  <2>4. InTree(l.tree) = InTree(d.tree) \cup with
    BY <1>8, <2>3 DEF Gained
  <2> QED
    BY <1>6, <2>1, <2>2, <2>4
<1>10. Sound(v, {}) /\ v.tree = l.tree /\ Settled(v) /\ FlagsFollow(l, v)
  BY <1>0, <1>8, UpdateFollows
<1>11. /\ Sound(a, {}) /\ a.tree = v.tree /\ SameChoices(v, a)
       /\ RestoredFlags(v, with, rocket, a)
  BY <1>0, <1>10, ReactivatedFacts
<1>12. /\ DOMAIN a.configs = DOMAIN rocket.configs
       /\ DOMAIN v.configs = DOMAIN rocket.configs
       /\ DOMAIN d.configs = DOMAIN rocket.configs
  BY <1>5, <1>6, <1>8, <1>10, <1>11 DEF SameFlagsAndChoices, FlagsFollow, SameChoices
<1>13. ASSUME NEW c \in DOMAIN a.configs PROVE Ready(a.configs[c], InTree(a.tree))
  <2>1. Agrees(rocket.configs[c]) /\ ActiveOutside(rocket.configs[c], InTree(tree))
    BY <1>0, <1>3, <1>12 DEF Good
  <2>2. a.configs[c].chosen = rocket.configs[c].chosen
    BY <1>5, <1>6, <1>8, <1>10, <1>11, <1>12 DEF SameFlagsAndChoices, FlagsFollow, SameChoices
  <2>3. ASSUME NEW x \in InTree(tree)
        PROVE  FlagOf(a.configs[c].flags, x) <=> FlagOf(rocket.configs[c].flags, x)
    <3>1. CASE x \in with
      BY <1>9, <1>10, <1>11, <1>12, <3>1 DEF RestoredFlags
    <3>2. CASE x \notin with
      <4>1. FlagOf(a.configs[c].flags, x) <=> FlagOf(v.configs[c].flags, x)
        BY <1>9, <1>10, <1>11, <1>12, <3>2 DEF RestoredFlags
      <4>2. FlagOf(v.configs[c].flags, x) <=> FlagOf(d.configs[c].flags, x)
        BY <1>8, <1>9, <1>10, <1>12 DEF FlagsFollow
      <4>3. FlagOf(d.configs[c].flags, x) <=> FlagOf(u.configs[c].flags, x)
        BY <1>5, <1>6, <1>9, <1>12, <3>2 DEF FlagsFollow, SameFlagsAndChoices
      <4>4. u.configs[c].flags = rocket.configs[c].flags
        BY <1>5, <1>12 DEF SameFlagsAndChoices
      <4> QED
        BY <4>1, <4>2, <4>3, <4>4
    <3> QED
      BY <3>1, <3>2
  <2>4. InTree(a.tree) = InTree(tree)
    BY <1>9, <1>10, <1>11
  <2> QED
    BY <1>3, <2>1, <2>2, <2>3, <2>4 DEF Agrees, ActiveOutside, Ready
<1> QED
  BY <1>1, <1>11, <1>12, <1>13, StagesFired

LEMMA AppendFacts ==
  ASSUME NEW S, NEW s \in Seq(S), IsInjective(s), NEW e \in S, e \notin ToSet(s)
  PROVE  /\ Append(s, e) \in Seq(S) /\ IsInjective(Append(s, e))
         /\ ToSet(Append(s, e)) = ToSet(s) \cup {e}
<1> DEFINE t == Append(s, e)
           n == Len(s)
<1>1. /\ n \in Nat /\ t \in Seq(S) /\ Len(t) = n + 1 /\ t[n + 1] = e
      /\ \A i \in 1 .. n : t[i] = s[i]
  BY AppendProperties
<1>2. /\ \A i \in 1 .. n : s[i] # e
      /\ \A i, j \in 1 .. n : s[i] = s[j] => i = j
  BY ElementsOf DEF IsInjective
<1> HIDE DEF t, n
<1>3. IsInjective(t)
  <2> SUFFICES ASSUME NEW i \in 1 .. n + 1, NEW j \in 1 .. n + 1, t[i] = t[j] PROVE i = j
    BY <1>1 DEF IsInjective
  <2>1. (i \in 1 .. n \/ i = n + 1) /\ (j \in 1 .. n \/ j = n + 1)
    BY <1>1
  <2> QED
    BY <1>1, <1>2, <2>1
<1>4. ToSet(t) = {t[i] : i \in 1 .. n + 1} /\ ToSet(s) = {s[i] : i \in 1 .. n}
  <2>1. ToSet(t) = {t[i] : i \in 1 .. Len(t)} /\ ToSet(s) = {s[i] : i \in 1 .. Len(s)}
    BY <1>1, ElementsOf
  <2> QED
    BY <1>1, <2>1 DEF n
<1>5. ASSUME NEW x PROVE x \in ToSet(t) <=> x \in ToSet(s) \cup {e}
  <2>1. \A i \in 1 .. n + 1 : i \in 1 .. n \/ i = n + 1
    BY <1>1
  <2>2. 1 .. n \subseteq 1 .. n + 1 /\ n + 1 \in 1 .. n + 1
    BY <1>1
  <2> QED
    BY <1>1, <1>4, <2>1, <2>2
<1>6. ToSet(t) = ToSet(s) \cup {e}
  BY ONLY <1>5
<1> QED
  BY <1>1, <1>3, <1>6 DEF t

LEMMA TailFacts ==
  ASSUME NEW S, NEW seq \in Seq(S), IsInjective(seq), seq # << >>
  PROVE  /\ Head(seq) \in ToSet(seq) /\ Tail(seq) \in Seq(S) /\ IsInjective(Tail(seq))
         /\ ToSet(Tail(seq)) = ToSet(seq) \ {Head(seq)}
<1>1. /\ Tail(seq) \in Seq(S) /\ Len(Tail(seq)) = Len(seq) - 1 /\ Len(seq) \in Nat \ {0}
      /\ \A i \in 1 .. Len(seq) - 1 : Tail(seq)[i] = seq[i + 1]
      /\ Head(seq) = seq[1]
  OBVIOUS
<1>2. ToSet(seq) = {seq[i] : i \in 1 .. Len(seq)}
  BY ElementsOf
<1>3. ToSet(Tail(seq)) = {Tail(seq)[i] : i \in 1 .. Len(seq) - 1}
  BY <1>1, ElementsOf
<1>4. \A i, j \in 1 .. Len(seq) : seq[i] = seq[j] => i = j
  BY DEF IsInjective
<1>5. 1 \in 1 .. Len(seq) /\ \A i \in 1 .. Len(seq) - 1 : i + 1 \in 1 .. Len(seq) /\ i + 1 # 1
  BY <1>1
<1>6. \A i \in 1 .. Len(seq) : i # 1 => i - 1 \in 1 .. Len(seq) - 1 /\ (i - 1) + 1 = i
  BY <1>1
<1>7. Head(seq) \in ToSet(seq)
  BY <1>1, <1>2, <1>5
<1> DEFINE new == Tail(seq)
           n   == Len(seq) - 1
<1>8. DOMAIN new = 1 .. n
  BY <1>1
<1>9. \A i, j \in 1 .. n : i + 1 = j + 1 => i = j
  BY <1>1
<1> HIDE DEF new, n
<1>10. IsInjective(Tail(seq))
  <2>1. ASSUME NEW i \in 1 .. n, NEW j \in 1 .. n, new[i] = new[j] PROVE i = j
    <3>1. seq[i + 1] = seq[j + 1]
      BY <1>1, <2>1 DEF new, n
    <3>2. i + 1 = j + 1
      BY <1>4, <1>5, <3>1 DEF n
    <3> QED
      BY <1>9, <3>2
  <2> QED
    BY <1>8, <2>1 DEF IsInjective, new
<1>11. ToSet(Tail(seq)) = ToSet(seq) \ {Head(seq)}
  <2>1. \A i \in 1 .. Len(seq) - 1 : Tail(seq)[i] \in ToSet(seq) \ {Head(seq)}
    BY <1>1, <1>2, <1>4, <1>5
  <2>2. \A x \in ToSet(seq) \ {Head(seq)} : x \in ToSet(Tail(seq))
    <3> TAKE x \in ToSet(seq) \ {Head(seq)}
    <3>1. PICK i \in 1 .. Len(seq) : seq[i] = x
      BY <1>2
    <3>2. i # 1
      BY <1>1, <3>1
    <3> QED
      BY <1>1, <1>3, <1>6, <3>1, <3>2
  <2> QED
    BY <1>3, <2>1, <2>2
<1> QED
  BY <1>1, <1>7, <1>10, <1>11

\* What is loose does not depend on where the other stages stand.
LEMMA LooseFollows ==
  ASSUME NEW tree, NEW t, NEW h, NEW few, few \subseteq h, SameBoosters(tree, t, h)
  PROVE  Loose(t, few) = Loose(tree, few)
  BY DEF Loose, SameBoosters

LEMMA TakeStageKeeps ==
  ASSUME FlightInvariant, NEW s \in Stage, TakeStage(s)
  PROVE  FlightInvariant' /\ AllIdsDrawn
<1> DEFINE h == ToSet(held)
           k == h \cup {s}
           u == Unlinked(rocket, s)
<1>1. /\ frozen = "removing" /\ s \in InTree(rocket.tree) /\ FireForAll(u)
      /\ held' = Append(held, s) /\ frozen' = frozen
  BY DEF TakeStage
<1>2. u = Unlinked(rocket, s) /\ h = ToSet(held) /\ k = h \cup {s}
  OBVIOUS
<1> HIDE DEF u, h, k
<1>3. /\ held \in Seq(Stage) /\ IsInjective(held) /\ Followed(rocket, h) /\ Sound(rocket, h)
      /\ TreeSound(rocket.tree, h)
  BY <1>2 DEF FlightInvariant, Followed, Sound
<1>4. h \in SUBSET Stage
  BY <1>2, <1>3, ElementsOf
<1>5. /\ \A x \in InTree(rocket.tree) : WithSubStages(rocket.tree, x) \subseteq InTree(rocket.tree)
      /\ h \subseteq Loose(rocket.tree, h)
      /\ Loose(rocket.tree, h) \cap InTree(rocket.tree) = {}
  BY <1>3, <1>4, BoostersStand
<1>6. s \notin h
  BY <1>1, <1>5
<1>7. held' \in Seq(Stage) /\ IsInjective(held') /\ ToSet(held') = k
  BY <1>1, <1>2, <1>3, <1>6, AppendFacts
<1>8. /\ Sound(u, k) /\ SameFlagsAndChoices(rocket, u)
      /\ Lost(rocket.tree, u.tree, s) /\ SameBoosters(rocket.tree, u.tree, k)
      /\ FewerInstances(rocket, u, WithSubStages(rocket.tree, s))
  BY <1>1, <1>2, <1>3, <1>4, UnlinkedFacts
<1>9. Loose(u.tree, k) = Loose(rocket.tree, h) \cup WithSubStages(rocket.tree, s)
  <2>1. Loose(u.tree, k) = Loose(rocket.tree, k)
    BY <1>2, <1>8, LooseFollows
  <2>2. Loose(rocket.tree, k) = Loose(rocket.tree, h) \cup WithSubStages(rocket.tree, s)
    BY <1>2 DEF Loose
  <2> QED
    BY <2>1, <2>2
<1>10. Followed(u, k)
  <2> SUFFICES ASSUME NEW c \in DOMAIN u.configs
               PROVE  FollowedConfiguration(u, u.configs[c], k)
    BY <1>8 DEF Followed
  <2>1. /\ c \in DOMAIN rocket.configs
        /\ u.configs[c].flags = rocket.configs[c].flags
        /\ u.configs[c].chosen = rocket.configs[c].chosen
    BY <1>8 DEF SameFlagsAndChoices
  <2>2. /\ rocket.configs[c].instances \subseteq InTree(rocket.tree)
        /\ Agrees(rocket.configs[c])
        /\ ActiveOutside(rocket.configs[c], InTree(rocket.tree) \cup Loose(rocket.tree, h))
    BY <1>3, <2>1 DEF Followed, FollowedConfiguration
  <2>3. u.configs[c].instances \subseteq InTree(u.tree)
    BY <1>8, <2>1, <2>2 DEF FewerInstances, Lost
  <2>4. Agrees(u.configs[c])
    BY <2>1, <2>2 DEF Agrees
  <2>5. ActiveOutside(u.configs[c], InTree(u.tree) \cup Loose(u.tree, k))
    BY <1>8, <1>9, <2>1, <2>2 DEF ActiveOutside, Lost
  <2> QED
    BY <2>3, <2>4, <2>5 DEF FollowedConfiguration
<1>11. /\ Followed(rocket', k) /\ SameFlagsAndChoices(u, rocket')
       /\ SetIds(u, DOMAIN u.configs, rocket')
  <2>1. frozen # "thawed" /\ FireFunctional(u, DOMAIN u.configs)
    BY <1>1 DEF FireForAll
  <2> QED
    BY <1>10, <2>1, FiredFrozen
<1>12. AllIdsDrawn
  BY <1>8, <1>11 DEF AllIdsDrawn, SetIds, SameFlagsAndChoices
<1>13. held' # << >>
  BY <1>2, <1>7, EmptySequence
<1> QED
  BY <1>1, <1>7, <1>11, <1>12, <1>13 DEF FlightInvariant

LEMMA PutStageKeeps ==
  ASSUME FlightInvariant, NEW parent \in Parent, NEW i, PutStage(parent, i)
  PROVE  FlightInvariant' /\ AllIdsDrawn
<1> DEFINE h == ToSet(held)
           s == Head(held)
           k == h \ {s}
           l == Linked(rocket, parent, i, s)
<1>1. /\ frozen \in {"removing", "adding"} /\ held # << >> /\ FireForAll(l)
      /\ held' = Tail(held) /\ frozen' = "adding"
      /\ (s \in Core <=> parent = Root) /\ (parent = Root \/ parent \in InTree(rocket.tree))
      /\ i \in 1 .. Len(rocket.tree[parent]) + 1
  BY DEF PutStage, Accepts, Attached, FlightInvariant
<1>2. l = Linked(rocket, parent, i, s) /\ h = ToSet(held) /\ k = h \ {s} /\ s = Head(held)
  OBVIOUS
<1> HIDE DEF l, h, k, s
<1>3. /\ held \in Seq(Stage) /\ IsInjective(held) /\ Followed(rocket, h) /\ Sound(rocket, h)
      /\ TreeSound(rocket.tree, h)
  BY <1>2 DEF FlightInvariant, Followed, Sound
<1>4. h \in SUBSET Stage
  BY <1>2, <1>3, ElementsOf
<1>5. s \in h /\ held' \in Seq(Stage) /\ IsInjective(held') /\ ToSet(held') = k
  BY <1>1, <1>2, <1>3, TailFacts
<1>6. FitsAt(rocket.tree, s, parent, i)
  <2>1. \A q \in Parent : s \notin ToSet(rocket.tree[q])
    BY <1>3, <1>5 DEF TreeSound
  <2>2. parent # Root => parent \in ToSet(rocket.tree[Root])
    BY <1>1, <1>3, InTreeIs, Disjoint
  <2> QED
    BY <1>1, <2>1, <2>2 DEF FitsAt
<1>7. /\ Sound(l, k) /\ l.configs = rocket.configs /\ Gained(rocket.tree, l.tree, s)
      /\ SameBoosters(rocket.tree, l.tree, h)
  <2>1. /\ h \in SUBSET Stage /\ Sound(rocket, h) /\ s \in Stage
        /\ FitsAt(rocket.tree, s, parent, i) /\ l = Linked(rocket, parent, i, s)
    BY <1>2, <1>3, <1>4, <1>5, <1>6
  <2>2. /\ Sound(l, h \ {s}) /\ l.configs = rocket.configs /\ Gained(rocket.tree, l.tree, s)
        /\ SameBoosters(rocket.tree, l.tree, h \cup {s})
    BY ONLY <2>1, LinkedFacts
  <2>3. h \cup {s} = h
    BY <1>5
  <2> QED
    BY <1>2, <2>2, <2>3
<1>8. InTree(l.tree) \cup Loose(l.tree, k) = InTree(rocket.tree) \cup Loose(rocket.tree, h)
  <2>1. Loose(l.tree, k) = Loose(rocket.tree, k)
    BY <1>2, <1>7, LooseFollows
  <2>2. Loose(rocket.tree, h) = Loose(rocket.tree, k) \cup WithSubStages(rocket.tree, s)
    BY <1>2, <1>5 DEF Loose
  <2> QED
    BY <1>7, <2>1, <2>2 DEF Gained
<1>9. Followed(l, k)
  <2> SUFFICES ASSUME NEW c \in DOMAIN l.configs
               PROVE  FollowedConfiguration(l, l.configs[c], k)
    BY <1>7 DEF Followed
  <2>1. c \in DOMAIN rocket.configs /\ l.configs[c] = rocket.configs[c]
    BY <1>7
  <2>2. /\ rocket.configs[c].instances \subseteq InTree(rocket.tree)
        /\ Agrees(rocket.configs[c])
        /\ ActiveOutside(rocket.configs[c], InTree(rocket.tree) \cup Loose(rocket.tree, h))
    BY <1>3, <2>1 DEF Followed, FollowedConfiguration
  <2> QED
    BY <1>7, <1>8, <2>1, <2>2 DEF FollowedConfiguration, Gained
<1>10. /\ Followed(rocket', k) /\ SameFlagsAndChoices(l, rocket')
       /\ SetIds(l, DOMAIN l.configs, rocket')
  <2>1. frozen # "thawed" /\ FireFunctional(l, DOMAIN l.configs)
    BY <1>1 DEF FireForAll
  <2> QED
    BY <1>9, <2>1, FiredFrozen
<1>11. AllIdsDrawn
  BY <1>7, <1>10 DEF AllIdsDrawn, SetIds, SameFlagsAndChoices
<1> QED
  BY <1>1, <1>5, <1>10, <1>11 DEF FlightInvariant

LEMMA ThawKeeps ==
  ASSUME FlightInvariant, Thaw
  PROVE  FlightInvariant' /\ (AllIdsDrawn \/ UNCHANGED rocket)
<1> DEFINE h    == ToSet(held)
           lost == UNION {WithSubStages(rocket.tree, s) : s \in ToSet(held)}
           drawn == Redrawn(rocket, DOMAIN rocket.configs)
           u     == Updated(drawn)
           d     == Destroyed(u, lost)
<1>1. /\ frozen # "thawed" /\ frozen' = "thawed" /\ held' = << >>
      /\ rocket' = IF frozen = "adding" \/ held # << >> THEN d ELSE rocket
  BY DEF Thaw
<1>2. CASE ~(frozen = "adding" \/ held # << >>)
  <2>1. Settled(rocket) /\ Followed(rocket, {}) /\ rocket' = rocket
    BY <1>1, <1>2, EmptySequence DEF FlightInvariant
  <2>2. Good(rocket')
    BY <2>1, GoodIsFollowed
  <2> QED
    BY <1>1, <2>1, <2>2, GoodIsEnough
<1>3. CASE frozen = "adding" \/ held # << >>
  <2>1. /\ drawn = Redrawn(rocket, DOMAIN rocket.configs) /\ u = Updated(drawn)
        /\ d = Destroyed(u, lost) /\ rocket' = d /\ lost = Loose(rocket.tree, h)
        /\ h = ToSet(held)
    BY <1>1, <1>3 DEF Loose
  <2> HIDE DEF drawn, u, d, lost, h
  <2>2. /\ held \in Seq(Stage) /\ Followed(rocket, h) /\ Sound(rocket, h)
        /\ TreeSound(rocket.tree, h)
    BY <2>1 DEF FlightInvariant, Followed, Sound
  <2>3. h \in SUBSET Stage
    BY <2>1, <2>2, ElementsOf
  <2>4. h \subseteq lost /\ lost \in SUBSET Stage /\ lost \cap InTree(rocket.tree) = {}
    BY <2>1, <2>2, <2>3, BoostersStand
  <2>5. /\ Sound(drawn, h) /\ drawn.tree = rocket.tree
        /\ SameFlagsAndChoices(rocket, drawn)
        /\ \A c \in DOMAIN rocket.configs : drawn.configs[c].modId = FreshId(c)
    BY <2>1, <2>2, RedrawnFacts
  <2>6. /\ Sound(u, h) /\ u.tree = drawn.tree /\ Settled(u)
        /\ FlagsFollow(drawn, u) /\ SameIds(drawn, u)
    BY <2>1, <2>5, UpdateFollows
  <2>7. \A c \in DOMAIN drawn.configs : u.configs[c].modId = drawn.configs[c].modId
    BY <2>6 DEF SameIds
  <2>8. NoneStands(u.tree, lost)
    BY <2>4, <2>5, <2>6 DEF NoneStands
  <2>9. /\ Sound(d, h \ lost) /\ SameStages(u.tree, d.tree) /\ Forgotten(u, d, lost)
        /\ Settled(d)
    BY <2>1, <2>4, <2>6, <2>8, DestroyedFacts
  <2>10. Sound(d, {})
    <3>1. h \ lost = {}
      BY <2>4
    <3> QED
      BY <2>9, <3>1
  <2>11. ASSUME NEW c \in DOMAIN d.configs
         PROVE  Agrees(d.configs[c]) /\ ActiveOutside(d.configs[c], InTree(d.tree))
    <3>1. c \in DOMAIN rocket.configs /\ c \in DOMAIN drawn.configs /\ c \in DOMAIN u.configs
      BY <2>5, <2>6, <2>9 DEF SameFlagsAndChoices, FlagsFollow, Forgotten
    <3>2. /\ Agrees(rocket.configs[c])
          /\ ActiveOutside(rocket.configs[c], InTree(rocket.tree) \cup lost)
      BY <2>1, <2>2, <3>1 DEF Followed, FollowedConfiguration
    <3>3. \A x : FlagOf(d.configs[c].flags, x)
                   <=> (x \in InTree(rocket.tree) => FlagOf(rocket.configs[c].flags, x))
      BY <2>5, <2>6, <2>9, <3>1 DEF SameFlagsAndChoices, FlagsFollow, Forgotten
    <3>4. \A x \in Stage : d.configs[c].chosen[x] = (x \in lost \/ rocket.configs[c].chosen[x])
      BY <2>5, <2>6, <2>9, <3>1 DEF SameFlagsAndChoices, FlagsFollow, Forgotten
    <3>5. rocket.configs[c].chosen \in [Stage -> BOOLEAN]
      BY <2>2, <3>1 DEF Sound, Typed, TypedConfiguration
    <3>6. InTree(d.tree) = InTree(rocket.tree)
      BY <2>5, <2>6, <2>9 DEF SameStages
    <3>7. Agrees(d.configs[c])
      <4> SUFFICES ASSUME NEW x \in Stage
                   PROVE  FlagOf(d.configs[c].flags, x) <=> d.configs[c].chosen[x]
        BY DEF Agrees
      <4>1. CASE x \in InTree(rocket.tree)
        BY <2>4, <3>2, <3>3, <3>4, <3>5, <4>1 DEF Agrees
      <4>2. CASE x \notin InTree(rocket.tree)
        BY <3>2, <3>3, <3>4, <3>5, <4>2 DEF ActiveOutside
      <4> QED
        BY <4>1, <4>2
    <3>8. ActiveOutside(d.configs[c], InTree(d.tree))
      BY <3>2, <3>4, <3>5, <3>6 DEF ActiveOutside
    <3> QED
      BY <3>7, <3>8
  <2>12. Good(rocket')
    BY <2>1, <2>9, <2>10, <2>11 DEF Good
  <2>13. AllIdsDrawn
    <3>1. /\ DOMAIN drawn.configs = DOMAIN rocket.configs
          /\ DOMAIN u.configs = DOMAIN rocket.configs /\ DOMAIN d.configs = DOMAIN rocket.configs
      BY <2>5, <2>6, <2>9 DEF SameFlagsAndChoices, FlagsFollow, Forgotten
    <3>2. \A c \in DOMAIN rocket.configs : d.configs[c].modId = u.configs[c].modId
      BY <2>9, <3>1 DEF Forgotten
    <3>3. \A c \in DOMAIN rocket.configs : d.configs[c].modId = FreshId(c)
      BY <2>5, <2>7, <3>1, <3>2
    <3> QED
      BY <2>1, <3>1, <3>3 DEF AllIdsDrawn
  <2> QED
    BY <1>1, <2>12, <2>13, GoodIsEnough
<1> QED
  BY <1>2, <1>3

LEMMA StageCallsKeep ==
  ASSUME FlightInvariant, StageCalls
  PROVE  FlightInvariant' /\ (AllIdsDrawn \/ UNCHANGED rocket)
  BY AddStageKeeps, RemoveStageKeeps, RemoveStageFailsKeeps, MoveStageKeeps, FreezeKeeps,
     TakeStageKeeps, PutStageKeeps, ThawKeeps, Zenon DEF StageCalls
-----------------------------------------------------------------------------
(* The flight configurations.                                                *)

\* The rocket with other configurations.
SameRocket(r, q) ==
  IsRocket(q) /\ q.tree = r.tree /\ q.map = r.map /\ q.number = r.number

LEMMA OtherConfigurations ==
  ASSUME NEW r, NEW h, Sound(r, h), NEW q, SameRocket(r, q),
         \A c \in DOMAIN q.configs : TypedConfiguration(q.configs[c])
  PROVE  Sound(q, h)
  BY DEF Sound, SameRocket, Typed, MapSound

\* The stages of a settled rocket by their numbers.
LEMMA StagesByNumber ==
  ASSUME NEW r, Good(r)
  PROVE  /\ \A n \in DOMAIN r.map : /\ r.map[n] \in Stage /\ r.map[n] \in InTree(r.tree)
                                    /\ r.number[r.map[n]] = n
         /\ \A x \in InTree(r.tree) : r.number[x] \in DOMAIN r.map /\ r.map[r.number[x]] = x
<1>1. TreeSound(r.tree, {}) /\ Numbered(r) /\ Sound(r, {})
  BY DEF Good, Sound, Settled
<1>2. /\ MapSound(r)
      /\ \A s : s \in InTree(r.tree) <=> \E n \in DOMAIN r.map : r.map[n] = s
  BY <1>1, NumberedStages
<1> QED
  BY <1>1, <1>2, MapNamesStages DEF MapSound

LEMMA GoodFlags ==
  ASSUME NEW r, Good(r), NEW c \in DOMAIN r.configs
  PROVE  /\ TypedConfiguration(r.configs[c]) /\ FlagsOfMap(r.configs[c].flags, r.map)
         /\ Agrees(r.configs[c]) /\ ActiveOutside(r.configs[c], InTree(r.tree))
         /\ \A n \in DOMAIN r.map : r.configs[c].flags[n] \in [stage : Stage, active : BOOLEAN]
         /\ \A s \in InTree(r.tree) :
              FlagOf(r.configs[c].flags, s) <=> r.configs[c].flags[r.number[s]].active
<1>1. /\ TypedConfiguration(r.configs[c]) /\ FlagsOfMap(r.configs[c].flags, r.map)
      /\ Agrees(r.configs[c]) /\ ActiveOutside(r.configs[c], InTree(r.tree))
  BY DEF Good, Sound, Typed, Settled, SettledConfiguration, FlagsOfMap
<1>2. \A n \in DOMAIN r.map : r.configs[c].flags[n] \in [stage : Stage, active : BOOLEAN]
  BY <1>1 DEF TypedConfiguration, TypedFlags, FlagsOfMap
<1>3. \A n \in DOMAIN r.map : FlagOf(r.configs[c].flags, r.map[n]) <=> r.configs[c].flags[n].active
  <2>1. TreeSound(r.tree, {}) /\ Numbered(r)
    BY DEF Good, Sound, Settled
  <2> QED
    BY <1>1, <2>1, SettledFlags
<1> QED
  BY <1>1, <1>2, <1>3, StagesByNumber

ChangedConfiguration(r, q, c) ==
  /\ DOMAIN q.configs = DOMAIN r.configs
  /\ \A d \in DOMAIN r.configs : d # c => q.configs[d] = r.configs[d]

\* toggleStage().
LEMMA ToggledFacts ==
  ASSUME NEW r, Good(r), NEW c \in DOMAIN r.configs, NEW s \in InTree(r.tree),
         NEW q, q = Toggled(r, c, s)
  PROVE  /\ Sound(q, {}) /\ q.tree = r.tree /\ ChangedConfiguration(r, q, c)
         /\ \A d \in DOMAIN q.configs : Ready(q.configs[d], InTree(q.tree))
<1> DEFINE old     == r.configs[c]
           active  == ~old.flags[r.number[s]].active
           toggled == WithSubStages(r.tree, s)
           flags   == [n \in DOMAIN old.flags |->
                         IF \E x \in toggled : r.number[x] = n
                           THEN [old.flags[n] EXCEPT !.active = active] ELSE old.flags[n]]
           chosen  == [x \in Stage |-> IF x \in toggled THEN active ELSE old.chosen[x]]
           new     == [old EXCEPT !.flags = flags, !.chosen = chosen]
<1>1. /\ IsRocket(q) /\ q.tree = r.tree /\ q.map = r.map /\ q.number = r.number
      /\ q.configs = [r.configs EXCEPT ![c] = new]
  <2>1. IsRocket(r)
    BY DEF Good, Sound, Typed
  <2>2. q = [r EXCEPT !.configs[c].flags = flags, !.configs[c].chosen = chosen]
    BY DEF Toggled
  <2> HIDE DEF flags, chosen
  <2> QED
    BY <2>1, <2>2 DEF IsRocket
<1>2. /\ DOMAIN q.configs = DOMAIN r.configs /\ q.configs[c] = new
      /\ \A d \in DOMAIN r.configs : d # c => q.configs[d] = r.configs[d]
  <2> HIDE DEF new
  <2> QED
    BY <1>1
<1>3. /\ TypedConfiguration(old) /\ FlagsOfMap(old.flags, r.map)
      /\ Agrees(old) /\ ActiveOutside(old, InTree(r.tree))
      /\ \A n \in DOMAIN r.map : old.flags[n] \in [stage : Stage, active : BOOLEAN]
      /\ \A x \in InTree(r.tree) : FlagOf(old.flags, x) <=> old.flags[r.number[x]].active
  BY GoodFlags
<1>4. /\ \A n \in DOMAIN r.map : /\ r.map[n] \in Stage /\ r.map[n] \in InTree(r.tree)
                                /\ r.number[r.map[n]] = n
      /\ \A x \in InTree(r.tree) : r.number[x] \in DOMAIN r.map /\ r.map[r.number[x]] = x
  BY StagesByNumber
<1>5. toggled \subseteq InTree(r.tree) /\ InTree(r.tree) \subseteq Stage
  <2>1. TreeSound(r.tree, {})
    BY DEF Good, Sound
  <2>2. {} \in SUBSET Stage
    OBVIOUS
  <2> QED
    BY <2>1, <2>2, BoostersStand, InTreeIs
<1>6. active \in BOOLEAN
  BY <1>3, <1>4
<1>7. /\ chosen \in [Stage -> BOOLEAN]
      /\ \A x \in Stage : chosen[x] = IF x \in toggled THEN active ELSE old.chosen[x]
  BY <1>3, <1>6 DEF TypedConfiguration
<1>8. /\ DOMAIN flags = DOMAIN r.map
      /\ \A n \in DOMAIN r.map :
           flags[n] = IF \E x \in toggled : r.number[x] = n
                        THEN [old.flags[n] EXCEPT !.active = active] ELSE old.flags[n]
  BY <1>3 DEF FlagsOfMap
<1>9. /\ DOMAIN new = ConfigurationFields /\ new.flags = flags /\ new.chosen = chosen
      /\ new.modId = old.modId
  <2> HIDE DEF flags, chosen, old
  <2> QED
    BY <1>3 DEF TypedConfiguration, ConfigurationFields
<1> HIDE DEF new, chosen, flags, active, toggled, old
<1>10. \A n \in DOMAIN r.map :
         /\ flags[n].stage = r.map[n]
         /\ flags[n].active = IF r.map[n] \in toggled THEN active ELSE old.flags[n].active
         /\ flags[n] \in [stage : Stage, active : BOOLEAN]
  <2> TAKE n \in DOMAIN r.map
  <2>1. old.flags[n] \in [stage : Stage, active : BOOLEAN] /\ old.flags[n].stage = r.map[n]
    BY <1>3 DEF FlagsOfMap
  <2>2. (\E x \in toggled : r.number[x] = n) <=> r.map[n] \in toggled
    BY <1>4, <1>5
  <2>3. CASE r.map[n] \in toggled
    <3>1. flags[n] = [old.flags[n] EXCEPT !.active = active]
      BY <1>8, <2>2, <2>3
    <3> QED
      BY <1>6, <2>1, <2>3, <3>1
  <2>4. CASE r.map[n] \notin toggled
    <3>1. flags[n] = old.flags[n]
      BY <1>8, <2>2, <2>4
    <3> QED
      BY <2>1, <2>4, <3>1
  <2> QED
    BY <2>3, <2>4
<1>11. TypedConfiguration(new) /\ FlagsOfMap(flags, r.map)
  BY <1>7, <1>8, <1>9, <1>10 DEF TypedConfiguration, TypedFlags, FlagsOfMap
<1>12. Ready(new, InTree(r.tree))
  <2>1. \A n \in DOMAIN r.map : FlagOf(flags, r.map[n]) <=> flags[n].active
    <3>1. TreeSound(r.tree, {}) /\ Numbered(r)
      BY DEF Good, Sound, Settled
    <3> QED
      BY <1>11, <3>1, SettledFlags
  <2>2. ASSUME NEW x \in InTree(r.tree) PROVE FlagOf(new.flags, x) <=> new.chosen[x]
    <3>1. FlagOf(flags, x) <=> flags[r.number[x]].active
      BY <1>4, <2>1
    <3>2. flags[r.number[x]].active = IF x \in toggled THEN active ELSE old.flags[r.number[x]].active
      BY <1>4, <1>10
    <3>3. x \in Stage
      BY <1>5
    <3>4. CASE x \in toggled
      BY <1>6, <1>7, <1>9, <3>1, <3>2, <3>3, <3>4
    <3>5. CASE x \notin toggled
      <4>1. FlagOf(old.flags, x) <=> old.chosen[x]
        BY <1>3, <3>3 DEF Agrees
      <4>2. FlagOf(flags, x) <=> FlagOf(old.flags, x)
        BY <1>3, <3>1, <3>2, <3>5
      <4> QED
        BY <1>7, <1>9, <3>3, <3>5, <4>1, <4>2
    <3> QED
      BY <3>4, <3>5
  <2>3. ActiveOutside(new, InTree(r.tree))
    BY <1>3, <1>5, <1>7, <1>9 DEF ActiveOutside
  <2> QED
    BY <2>2, <2>3 DEF Ready
<1>13. Sound(q, {})
  <2>1. \A d \in DOMAIN q.configs : TypedConfiguration(q.configs[d])
    BY <1>2, <1>11 DEF Good, Sound, Typed
  <2>2. SameRocket(r, q) /\ Sound(r, {})
    BY <1>1 DEF SameRocket, Good
  <2> QED
    BY <2>1, <2>2, OtherConfigurations
<1>14. \A d \in DOMAIN q.configs : Ready(q.configs[d], InTree(q.tree))
  BY <1>1, <1>2, <1>12, GoodIsReady
<1> QED
  BY <1>1, <1>2, <1>13, <1>14 DEF ChangedConfiguration

\* Each configuration has an id that nobody held, or it is one the rocket had, with its
\* id, the same stages and the same choices.
IdsFollow ==
  \A c \in DOMAIN rocket'.configs :
    \/ c \in DOMAIN rocket.configs \cup Configuration /\ rocket'.configs[c].modId = FreshId(c)
    \/ /\ c \in DOMAIN rocket.configs /\ rocket'.tree = rocket.tree
       /\ rocket'.configs[c].modId = rocket.configs[c].modId
       /\ rocket'.configs[c].chosen = rocket.configs[c].chosen

LEMMA StageCallsFollow ==
  ASSUME FlightInvariant, StageCalls
  PROVE  FlightInvariant' /\ IdsFollow
  BY StageCallsKeep DEF AllIdsDrawn, IdsFollow

\* The configurations but c are some of those of the rocket.
KnownBut(r, c) ==
  \A d \in DOMAIN r.configs : d # c => d \in DOMAIN rocket.configs /\ r.configs[d] = rocket.configs[d]

LEMMA ConfigurationsFired ==
  ASSUME FlightInvariant, frozen = "thawed", UNCHANGED <<frozen, held>>,
         NEW r, Sound(r, {}), r.tree = rocket.tree,
         NEW c \in DOMAIN rocket.configs \cup Configuration, KnownBut(r, c),
         c \in DOMAIN r.configs => Ready(r.configs[c], InTree(r.tree)), FireFunctional(r, {c})
  PROVE  FlightInvariant' /\ IdsFollow
<1>1. \A d \in DOMAIN r.configs : Ready(r.configs[d], InTree(r.tree))
  BY ThawedIsGood, GoodIsReady DEF KnownBut
<1>2. /\ Good(rocket') /\ rocket'.tree = r.tree
      /\ SameChoices(r, rocket') /\ SetIds(r, {c}, rocket')
  BY <1>1, Fired
<1>3. FlightInvariant'
  BY <1>2, ThawedIsGood, GoodIsEnough DEF NoneHeld
<1>4. ASSUME NEW d \in DOMAIN rocket'.configs
      PROVE  \/ /\ d \in DOMAIN rocket.configs \cup Configuration
                /\ rocket'.configs[d].modId = FreshId(d)
             \/ /\ d \in DOMAIN rocket.configs /\ rocket'.tree = rocket.tree
                /\ rocket'.configs[d].modId = rocket.configs[d].modId
                /\ rocket'.configs[d].chosen = rocket.configs[d].chosen
  BY <1>2 DEF SameChoices, SetIds, KnownBut
<1> QED
  BY <1>3, <1>4 DEF IdsFollow

LEMMA ConfigurationsUpdated ==
  ASSUME FlightInvariant, frozen = "thawed", UNCHANGED <<frozen, held>>,
         NEW r, SameRocket(rocket, r),
         \A d \in DOMAIN r.configs : d \in DOMAIN rocket.configs /\ r.configs[d] = rocket.configs[d],
         rocket' = Updated(r)
  PROVE  FlightInvariant' /\ IdsFollow
<1>1. Good(rocket) /\ Sound(rocket, {}) /\ NoneHeld
  BY ThawedIsGood
<1>2. r.tree = rocket.tree
  BY DEF SameRocket
<1>3. Sound(r, {})
  <2>1. \A d \in DOMAIN r.configs : TypedConfiguration(r.configs[d])
    BY <1>1 DEF Sound, Typed
  <2> QED
    BY <1>1, <2>1, OtherConfigurations
<1>4. \A d \in DOMAIN r.configs : Ready(r.configs[d], InTree(r.tree))
  BY <1>1, <1>2, GoodIsReady
<1>5. /\ Good(rocket') /\ rocket'.tree = r.tree /\ SameChoices(r, rocket') /\ SameIds(r, rocket')
  BY <1>3, <1>4, GoodAfterUpdate
<1>6. FlightInvariant'
  BY <1>1, <1>5, GoodIsEnough DEF NoneHeld
<1> QED
  BY <1>2, <1>5, <1>6 DEF IdsFollow, SameChoices, SameIds

LEMMA ToggleStageKeeps ==
  ASSUME FlightInvariant, rocket.selected \in DOMAIN rocket.configs, NEW s \in Stage, ToggleStage(s)
  PROVE  FlightInvariant' /\ IdsFollow
<1> DEFINE c == rocket.selected
           q == Toggled(rocket, c, s)
<1>1. /\ frozen = "thawed" /\ UNCHANGED <<frozen, held>> /\ s \in InTree(rocket.tree)
      /\ FireFunctional(q, {c})
  BY DEF ToggleStage
<1>2. Good(rocket)
  BY <1>1, ThawedIsGood
<1>3. q = Toggled(rocket, c, s) /\ c \in DOMAIN rocket.configs
  OBVIOUS
<1> HIDE DEF q, c
<1>4. /\ Sound(q, {}) /\ q.tree = rocket.tree /\ ChangedConfiguration(rocket, q, c)
      /\ \A d \in DOMAIN q.configs : Ready(q.configs[d], InTree(q.tree))
  BY <1>1, <1>2, <1>3, ToggledFacts
<1>5. KnownBut(q, c) /\ c \in DOMAIN rocket.configs \cup Configuration
  BY <1>3, <1>4 DEF KnownBut, ChangedConfiguration
<1> QED
  BY <1>1, <1>4, <1>5, ConfigurationsFired

LEMMA AddConfigurationKeeps ==
  ASSUME FlightInvariant, NEW c \in Configuration, NEW configuration,
         AddConfiguration(c, configuration),
         TypedConfiguration(configuration), Ready(configuration, InTree(rocket.tree))
  PROVE  FlightInvariant' /\ IdsFollow
<1> DEFINE configs == [x \in DOMAIN rocket.configs \cup {c} |->
                         IF x = c THEN configuration ELSE rocket.configs[x]]
           q == [rocket EXCEPT !.configs = configs, !.selected = c]
<1>1. /\ frozen = "thawed" /\ UNCHANGED <<frozen, held>> /\ FireFunctional(q, {c})
  BY DEF AddConfiguration
<1>2. Good(rocket) /\ Sound(rocket, {})
  BY <1>1, ThawedIsGood
<1>3. /\ DOMAIN configs = DOMAIN rocket.configs \cup {c} /\ configs[c] = configuration
      /\ \A x \in DOMAIN rocket.configs : x # c => configs[x] = rocket.configs[x]
  OBVIOUS
<1> HIDE DEF configs
<1>4. SameRocket(rocket, q) /\ q.configs = configs
  BY <1>2 DEF Sound, Typed, IsRocket, SameRocket
<1> HIDE DEF q
<1>5. Sound(q, {})
  <2>1. \A d \in DOMAIN q.configs : TypedConfiguration(q.configs[d])
    BY <1>2, <1>3, <1>4 DEF Sound, Typed
  <2> QED
    BY <1>2, <1>4, <2>1, OtherConfigurations
<1>6. KnownBut(q, c) /\ q.tree = rocket.tree /\ q.configs[c] = configuration
  BY <1>3, <1>4 DEF KnownBut, SameRocket
<1> QED
  BY <1>1, <1>5, <1>6, ConfigurationsFired

LEMMA NewFlightConfigurationKeeps ==
  ASSUME FlightInvariant, NEW c \in Configuration, NewFlightConfiguration(c)
  PROVE  FlightInvariant' /\ IdsFollow
<1> DEFINE new == NewConfiguration(rocket)
<1>1. frozen = "thawed" /\ AddConfiguration(c, new)
  BY DEF NewFlightConfiguration, AddConfiguration
<1>2. Good(rocket) /\ InTree(rocket.tree) \subseteq Stage
  BY <1>1, ThawedIsGood
<1>3. \A n \in DOMAIN rocket.map : rocket.map[n] \in Stage
  BY <1>2, StagesByNumber
<1>4. new = NewConfiguration(rocket)
  OBVIOUS
<1> HIDE DEF new
<1>5. /\ TypedConfiguration(new)
      /\ \A s \in Stage : new.chosen[s] = TRUE
      /\ \A s : FlagOf(new.flags, s)
  BY <1>3, <1>4, NewConfigurationFacts
<1>6. Ready(new, InTree(rocket.tree))
  BY <1>2, <1>5 DEF Ready, ActiveOutside
<1> QED
  BY <1>1, <1>5, <1>6, AddConfigurationKeeps

LEMMA DuplicateConfigurationKeeps ==
  ASSUME FlightInvariant, NEW c \in Configuration, NEW d \in DOMAIN rocket.configs,
         DuplicateConfiguration(c, d)
  PROVE  FlightInvariant' /\ IdsFollow
<1> DEFINE source == rocket.configs[d]
           new    == CopiedConfiguration(rocket, source)
<1>1. frozen = "thawed" /\ AddConfiguration(c, new)
  BY DEF DuplicateConfiguration, AddConfiguration
<1>2. Good(rocket) /\ InTree(rocket.tree) \subseteq Stage
  BY <1>1, ThawedIsGood
<1>3. \A n \in DOMAIN rocket.map : rocket.map[n] \in Stage
  BY <1>2, StagesByNumber
<1>4. /\ TypedConfiguration(source) /\ FlagsOfMap(source.flags, rocket.map)
      /\ Agrees(source) /\ ActiveOutside(source, InTree(rocket.tree))
  BY <1>2, GoodFlags
<1>5. new = CopiedConfiguration(rocket, source)
  OBVIOUS
<1> HIDE DEF new, source
<1>6. /\ TypedConfiguration(new) /\ new.chosen = source.chosen
      /\ \A s : FlagOf(new.flags, s) <=> FlagOf(source.flags, s)
  BY <1>3, <1>4, <1>5, CopiedFacts
<1>7. Ready(new, InTree(rocket.tree))
  BY <1>2, <1>4, <1>6 DEF Ready, ActiveOutside, Agrees
<1> QED
  BY <1>1, <1>6, <1>7, AddConfigurationKeeps

LEMMA RemoveConfigurationKeeps ==
  ASSUME FlightInvariant, NEW c, RemoveConfiguration(c)
  PROVE  FlightInvariant' /\ IdsFollow
<1> DEFINE configs == [x \in DOMAIN rocket.configs \ {c} |-> rocket.configs[x]]
           q == Without(c)
<1>1. frozen = "thawed" /\ UNCHANGED <<frozen, held>> /\ rocket' = Updated(q)
  BY DEF RemoveConfiguration
<1>2. IsRocket(rocket)
  BY <1>1, ThawedIsGood DEF Sound, Typed
<1>3. q = [rocket EXCEPT !.configs = configs,
                         !.selected = IF rocket.selected = c THEN Default ELSE rocket.selected]
  BY DEF Without
<1>4. \A d \in DOMAIN configs : d \in DOMAIN rocket.configs /\ configs[d] = rocket.configs[d]
  OBVIOUS
<1> HIDE DEF configs, q
<1>5. SameRocket(rocket, q) /\ q.configs = configs
  BY <1>2, <1>3 DEF IsRocket, SameRocket
<1> QED
  BY <1>1, <1>4, <1>5, ConfigurationsUpdated

LEMMA SelectConfigurationKeeps ==
  ASSUME FlightInvariant, NEW c, SelectConfiguration(c)
  PROVE  FlightInvariant' /\ IdsFollow
<1> DEFINE q == [rocket EXCEPT !.selected = c]
<1>1. frozen = "thawed" /\ UNCHANGED <<frozen, held>> /\ rocket' = Updated(q)
  BY DEF SelectConfiguration
<1>2. IsRocket(rocket)
  BY <1>1, ThawedIsGood DEF Sound, Typed
<1>3. SameRocket(rocket, q) /\ q.configs = rocket.configs
  BY <1>2 DEF IsRocket, SameRocket
<1> HIDE DEF q
<1> QED
  BY <1>1, <1>3, ConfigurationsUpdated

LEMMA ConfigurationCallsFollow ==
  ASSUME FlightInvariant, rocket.selected \in DOMAIN rocket.configs, ConfigurationCalls
  PROVE  FlightInvariant' /\ IdsFollow
<1>1. UserConfigurations \subseteq DOMAIN rocket.configs
  BY DEF UserConfigurations
<1> QED
  BY <1>1, ToggleStageKeeps, NewFlightConfigurationKeeps, DuplicateConfigurationKeeps,
     RemoveConfigurationKeeps, SelectConfigurationKeeps, Zenon DEF ConfigurationCalls
-----------------------------------------------------------------------------
(* The copies of the undo history, and the ids.                              *)

AllIdsZero(r) == \A c \in DOMAIN r.configs : r.configs[c].modId = Zero

LEMMA SettledAlike ==
  ASSUME NEW r, NEW q, SameRocket(r, q), NEW config, SettledConfiguration(r, config)
  PROVE  SettledConfiguration(q, config)
<1>1. q.tree = r.tree /\ q.map = r.map /\ q.number = r.number
  BY DEF SameRocket
<1>2. ActiveInstances(q, config.flags) = ActiveInstances(r, config.flags)
  BY <1>1, SameInstances
<1> QED
  BY <1>1, <1>2 DEF SettledConfiguration

LEMMA RenamedChoices ==
  ASSUME NEW r, NEW new, TypedConfiguration(new), SettledConfiguration(r, new),
         NEW chosen \in [Stage -> BOOLEAN], NEW config, config = [new EXCEPT !.chosen = chosen]
  PROVE  /\ TypedConfiguration(config) /\ SettledConfiguration(r, config)
         /\ config.chosen = chosen /\ config.modId = new.modId
<1>1. /\ DOMAIN config = ConfigurationFields /\ config.flags = new.flags
      /\ config.instances = new.instances /\ config.modId = new.modId /\ config.chosen = chosen
  BY DEF TypedConfiguration, ConfigurationFields
<1> QED
  BY <1>1 DEF TypedConfiguration, SettledConfiguration

\* copyRocketWithOriginalId().
LEMMA CopyFacts ==
  ASSUME NEW r, Good(r), NEW q, q = CopyOf(r)
  PROVE  SavedRocket(q) /\ q.tree = r.tree /\ SameChoices(r, q) /\ AllIdsZero(q)
<1> DEFINE new     == NewConfiguration(r)
           Copy(c) == IF c = Default THEN [new EXCEPT !.chosen = r.configs[c].chosen]
                                     ELSE RebuiltConfiguration(r, r.configs[c])
           configs == [c \in DOMAIN r.configs |-> Copy(c)]
<1>1. q = [r EXCEPT !.configs = configs]
  BY DEF CopyOf
<1>2. DOMAIN configs = DOMAIN r.configs /\ \A c \in DOMAIN r.configs : configs[c] = Copy(c)
  OBVIOUS
<1> HIDE DEF configs
<1>3. Sound(r, {}) /\ IsRocket(r) /\ Numbered(r)
  BY DEF Good, Sound, Typed, Settled
<1>4. SameRocket(r, q) /\ q.configs = configs
  BY <1>1, <1>3 DEF IsRocket, SameRocket
<1>5. \A n \in DOMAIN r.map : r.map[n] \in Stage
  BY StagesByNumber
<1>6. ASSUME NEW c \in DOMAIN r.configs
      PROVE  /\ TypedConfiguration(configs[c]) /\ SettledConfiguration(r, configs[c])
             /\ configs[c].modId = Zero /\ configs[c].chosen = r.configs[c].chosen
             /\ c # Default => \A s : FlagOf(configs[c].flags, s) <=> FlagOf(r.configs[c].flags, s)
  <2>1. TypedConfiguration(r.configs[c]) /\ FlagsOfMap(r.configs[c].flags, r.map)
    BY GoodFlags
  <2>2. CASE c = Default
    <3>1. TypedConfiguration(new) /\ SettledConfiguration(r, new) /\ new.modId = Zero
      BY <1>5, NewConfigurationFacts
    <3>2. configs[c] = [new EXCEPT !.chosen = r.configs[c].chosen]
      BY <1>2, <2>2
    <3>3. r.configs[c].chosen \in [Stage -> BOOLEAN]
      BY <2>1 DEF TypedConfiguration
    <3> HIDE DEF new
    <3> QED
      BY <2>2, <3>1, <3>2, <3>3, RenamedChoices
  <2>3. CASE c # Default
    <3>1. configs[c] = RebuiltConfiguration(r, r.configs[c])
      BY <1>2, <2>3
    <3> QED
      BY <1>5, <2>1, <3>1, RebuiltFacts
  <2> QED
    BY <2>2, <2>3
<1>7. Sound(q, {})
  <2>1. \A c \in DOMAIN q.configs : TypedConfiguration(q.configs[c])
    BY <1>2, <1>4, <1>6
  <2> QED
    BY <1>3, <1>4, <2>1, OtherConfigurations
<1>8. Settled(q)
  <2>1. Numbered(q)
    BY <1>3, <1>4 DEF Numbered, SameRocket
  <2>2. \A c \in DOMAIN q.configs : SettledConfiguration(q, q.configs[c])
    BY <1>2, <1>4, <1>6, SettledAlike
  <2> QED
    BY <2>1, <2>2 DEF Settled
<1>9. ASSUME NEW c \in DOMAIN q.configs
      PROVE  /\ c # Default => Agrees(q.configs[c])
             /\ ActiveOutside(q.configs[c], InTree(q.tree))
  <2>1. Agrees(r.configs[c]) /\ ActiveOutside(r.configs[c], InTree(r.tree))
    BY <1>2, <1>4 DEF Good
  <2>2. q.configs[c] = configs[c] /\ q.tree = r.tree /\ c \in DOMAIN r.configs
    BY <1>2, <1>4 DEF SameRocket
  <2> QED
    BY <1>6, <2>1, <2>2 DEF Agrees, ActiveOutside
<1> QED
  BY <1>2, <1>4, <1>6, <1>7, <1>8, <1>9 DEF SavedRocket, SameRocket, SameChoices, AllIdsZero

\* What a load takes from the source and from the rocket it replaces.
Loads(r, source, q) ==
  /\ Good(q) /\ q.tree = source.tree /\ DOMAIN q.configs = DOMAIN source.configs
  /\ \A c \in DOMAIN source.configs :
       /\ q.configs[c].modId = IF c = Default THEN r.configs[c].modId ELSE Zero
       /\ c # Default => \A s \in InTree(source.tree) :
                            q.configs[c].chosen[s] <=> source.configs[c].chosen[s]

LEMMA NoneCleared ==
  ASSUME NEW tree, TreeSound(tree, {}), NEW gone \in SUBSET Stage, NoneStands(tree, gone)
  PROVE  Cleared(tree, gone) = tree
<1>1. tree \in [Parent -> Seq(Stage)]
  BY DEF TreeSound
<1>2. ASSUME NEW p \in Parent, p \in gone PROVE tree[p] = << >>
  <2>1. p \in Core
    BY <1>2, Disjoint
  <2>2. p \notin ToSet(tree[Root])
    BY <1>2 DEF NoneStands, InTree
  <2> QED
    BY <2>1, <2>2 DEF TreeSound
<1> QED
  BY <1>1, <1>2 DEF Cleared

LEMMA LoadFacts ==
  ASSUME NEW r, Good(r), Default \in DOMAIN r.configs,
         NEW source, SavedRocket(source), NEW q, q = LoadedFrom(r, source)
  PROVE  Loads(r, source, q)
<1> DEFINE gone    == InTree(r.tree) \ InTree(source.tree)
           few     == [c \in {Default} |-> r.configs[c]]
           loaded  == [source EXCEPT !.configs = few]
           default == UpdatedConfigurations(loaded).configs[Default]
           configs == [c \in DOMAIN source.configs |->
                         IF c = Default THEN default
                                        ELSE RebuiltConfiguration(loaded, source.configs[c])]
           whole   == [loaded EXCEPT !.configs = configs]
           d       == Destroyed(whole, gone)
           old     == r.configs[Default]
           flags   == UpdatedFlags(old.flags, loaded.map)
<1>1. q = Updated(d) /\ d = Destroyed(whole, gone)
  BY Zenon DEF LoadedFrom
<1>2. /\ Sound(source, {}) /\ IsRocket(source) /\ TreeSound(source.tree, {}) /\ Numbered(source)
      /\ Settled(source)
  BY DEF SavedRocket, Sound, Typed, Settled
<1>3. SameRocket(source, loaded) /\ loaded.configs = few /\ DOMAIN few = {Default}
      /\ few[Default] = old
  BY <1>2 DEF IsRocket, SameRocket
<1>4. default = WithFlags(loaded, old, flags)
  <2>1. UpdatedConfigurations(loaded)
          = [loaded EXCEPT !.configs = [c \in DOMAIN loaded.configs |->
               WithFlags(loaded, loaded.configs[c],
                         UpdatedFlags(loaded.configs[c].flags, loaded.map))]]
    BY DEF UpdatedConfigurations
  <2> HIDE DEF loaded, few, flags, old
  <2>2. "configs" \in DOMAIN loaded
    BY <1>3 DEF SameRocket, IsRocket
  <2> QED
    BY <1>3, <2>1, <2>2 DEF flags
<1>5. /\ DOMAIN configs = DOMAIN source.configs
      /\ \A c \in DOMAIN source.configs :
           configs[c] = IF c = Default THEN default
                                       ELSE RebuiltConfiguration(loaded, source.configs[c])
  OBVIOUS
<1> HIDE DEF configs, default
<1>6. SameRocket(source, whole) /\ whole.configs = configs
  <2> HIDE DEF loaded
  <2> QED
    BY <1>3 DEF SameRocket, IsRocket
<1> HIDE DEF loaded, few, whole, d, gone, old, flags
<1>7. \A n \in DOMAIN loaded.map : loaded.map[n] \in Stage
  BY <1>2, <1>3, MapNamesStages DEF SameRocket
<1>8. /\ TypedConfiguration(old) /\ Agrees(old) /\ ActiveOutside(old, InTree(r.tree))
      /\ InTree(r.tree) \subseteq Stage /\ InTree(source.tree) \subseteq Stage
  <2>1. TypedConfiguration(old) /\ Agrees(old) /\ ActiveOutside(old, InTree(r.tree))
    BY GoodFlags DEF old
  <2>2. TreeSound(r.tree, {})
    BY DEF Good, Sound
  <2> QED
    BY <1>2, <2>1, <2>2, InTreeIs
<1>9. /\ TypedConfiguration(default) /\ default.modId = old.modId /\ default.chosen = old.chosen
      /\ \A s \in InTree(source.tree) : FlagOf(default.flags, s) <=> FlagOf(old.flags, s)
  <2>1. /\ TypedFlags(flags)
        /\ \A s : FlagOf(flags, s) <=>
                    ((\E n \in DOMAIN loaded.map : loaded.map[n] = s) => FlagOf(old.flags, s))
    BY <1>7, UpdatedFlagsFacts DEF flags
  <2>2. \A s : s \in InTree(source.tree) <=> \E n \in DOMAIN source.map : source.map[n] = s
    BY <1>2, NumberedStages
  <2>3. /\ TypedConfiguration(default) /\ default.flags = flags
        /\ default.chosen = old.chosen /\ default.modId = old.modId
    BY <1>4, <1>8, <2>1, WithFlagsFacts
  <2>4. loaded.map = source.map
    BY <1>3 DEF SameRocket
  <2> QED
    BY <2>1, <2>2, <2>3, <2>4
<1>10. ASSUME NEW c \in DOMAIN source.configs, c # Default
       PROVE  /\ TypedConfiguration(configs[c]) /\ configs[c].modId = Zero
              /\ configs[c].chosen = source.configs[c].chosen
              /\ \A s : FlagOf(configs[c].flags, s) <=> FlagOf(source.configs[c].flags, s)
  <2>1. TypedConfiguration(source.configs[c]) /\ FlagsOfMap(source.configs[c].flags, loaded.map)
    BY <1>2, <1>3 DEF Sound, Typed, Settled, SettledConfiguration, FlagsOfMap, SameRocket
  <2>2. configs[c] = RebuiltConfiguration(loaded, source.configs[c])
    BY <1>5, <1>10
  <2> QED
    BY <1>7, <2>1, <2>2, RebuiltFacts
<1>11. Sound(whole, {})
  <2>1. \A c \in DOMAIN whole.configs : TypedConfiguration(whole.configs[c])
    BY <1>5, <1>6, <1>9, <1>10
  <2> QED
    BY <1>2, <1>6, <2>1, OtherConfigurations
<1>12. whole.tree = source.tree
  BY <1>6 DEF SameRocket
<1>13. gone \in SUBSET Stage /\ NoneStands(whole.tree, gone)
  BY <1>8, <1>12 DEF gone, NoneStands
<1>14. /\ Sound(d, {}) /\ SameStages(whole.tree, d.tree) /\ Forgotten(whole, d, gone)
       /\ d.tree = source.tree
  <2>1. /\ Sound(d, {} \ gone) /\ SameStages(whole.tree, d.tree) /\ Forgotten(whole, d, gone)
        /\ d.tree = Cleared(whole.tree, gone)
    BY <1>1, <1>11, <1>13, DestroyedFacts
  <2>2. {} \ gone = {}
    OBVIOUS
  <2>3. Cleared(whole.tree, gone) = whole.tree
    BY <1>2, <1>12, <1>13, NoneCleared
  <2> QED
    BY <1>12, <2>1, <2>2, <2>3
<1>15. DOMAIN d.configs = DOMAIN source.configs
  BY <1>5, <1>6, <1>14 DEF Forgotten
<1>16. \A c \in DOMAIN source.configs :
         /\ d.configs[c].flags = configs[c].flags /\ d.configs[c].modId = configs[c].modId
         /\ \A s \in Stage : d.configs[c].chosen[s] = (s \in gone \/ configs[c].chosen[s])
  BY <1>5, <1>6, <1>14 DEF Forgotten
<1>17. ASSUME NEW c \in DOMAIN d.configs PROVE Ready(d.configs[c], InTree(d.tree))
  <2>1. CASE c = Default
    <3>1. configs[c].flags = default.flags /\ configs[c].chosen = old.chosen
      BY <1>5, <1>9, <1>15, <2>1
    <3>2. old.chosen \in [Stage -> BOOLEAN]
      BY <1>8 DEF TypedConfiguration
    <3>3. ASSUME NEW s \in InTree(source.tree)
          PROVE  FlagOf(d.configs[c].flags, s) <=> d.configs[c].chosen[s]
      <4>1. s \in Stage /\ s \notin gone
        BY <1>8 DEF gone
      <4>2. FlagOf(d.configs[c].flags, s) <=> FlagOf(old.flags, s)
        BY <1>9, <1>15, <1>16, <3>1
      <4>3. d.configs[c].chosen[s] = old.chosen[s]
        BY <1>15, <1>16, <3>1, <3>2, <4>1
      <4> QED
        BY <1>8, <4>1, <4>2, <4>3 DEF Agrees
    <3>4. ASSUME NEW s \in Stage \ InTree(source.tree) PROVE d.configs[c].chosen[s]
      <4>1. s \in gone \/ old.chosen[s]
        BY <1>8 DEF gone, ActiveOutside
      <4> QED
        BY <1>15, <1>16, <3>1, <4>1
    <3> QED
      BY <1>14, <3>3, <3>4 DEF Ready, ActiveOutside
  <2>2. CASE c # Default
    <3>1. Agrees(source.configs[c]) /\ ActiveOutside(source.configs[c], InTree(source.tree))
      BY <1>15, <2>2 DEF SavedRocket
    <3>2. source.configs[c].chosen \in [Stage -> BOOLEAN]
      BY <1>2, <1>15 DEF Sound, Typed, TypedConfiguration
    <3>3. \A s \in Stage : d.configs[c].chosen[s] = (s \in gone \/ source.configs[c].chosen[s])
      BY <1>10, <1>15, <1>16, <2>2
    <3>4. \A s : FlagOf(d.configs[c].flags, s) <=> FlagOf(source.configs[c].flags, s)
      BY <1>10, <1>15, <1>16, <2>2
    <3>5. \A s \in InTree(source.tree) : s \notin gone /\ s \in Stage
      BY <1>8 DEF gone
    <3> QED
      BY <1>14, <3>1, <3>2, <3>3, <3>4, <3>5 DEF Ready, ActiveOutside, Agrees
  <2> QED
    BY <2>1, <2>2
<1>18. Good(q) /\ q.tree = d.tree /\ SameChoices(d, q) /\ SameIds(d, q)
  BY <1>1, <1>14, <1>17, GoodAfterUpdate
<1>19. DOMAIN q.configs = DOMAIN source.configs
  BY <1>15, <1>18 DEF SameChoices
<1>20. ASSUME NEW c \in DOMAIN source.configs
       PROVE  /\ q.configs[c].modId = IF c = Default THEN r.configs[c].modId ELSE Zero
              /\ c # Default => \A s \in InTree(source.tree) :
                                  q.configs[c].chosen[s] <=> source.configs[c].chosen[s]
  <2>1. q.configs[c].chosen = d.configs[c].chosen /\ q.configs[c].modId = configs[c].modId
    BY <1>15, <1>16, <1>18 DEF SameChoices, SameIds
  <2>2. c = Default => configs[c].modId = r.configs[c].modId
    BY <1>5, <1>9 DEF old
  <2>3. c # Default => configs[c].modId = Zero
    BY <1>10
  <2>4. ASSUME c # Default, NEW s \in InTree(source.tree)
        PROVE  q.configs[c].chosen[s] <=> source.configs[c].chosen[s]
    <3>1. s \in Stage /\ s \notin gone
      BY <1>8 DEF gone
    <3>2. d.configs[c].chosen[s] = (s \in gone \/ source.configs[c].chosen[s])
      BY <1>10, <1>16, <2>4, <3>1
    <3> QED
      BY <2>1, <3>1, <3>2
  <2> QED
    BY <2>1, <2>2, <2>3, <2>4
<1> QED
  BY <1>14, <1>18, <1>19, <1>20 DEF Loads

\* A document that was opened.
LEMMA OpenedFacts ==
  ASSUME NEW configurations, NEW selected, NEW q, q = Opened(configurations, selected)
  PROVE  Good(q) /\ DOMAIN q.configs = configurations /\ AllIdsZero(q)
<1> DEFINE every   == [s \in Stage |-> TRUE]
           first   == [flags |-> NoFlags, modId |-> Zero, instances |-> {}, chosen |-> every]
           configs == [c \in configurations |-> first]
           number  == [s \in Stage |-> 0]
           map     == [n \in {} |-> Root]
           r == [tree |-> InitialTree, number |-> number, map |-> map, selected |-> selected,
                 configs |-> configs]
<1>1. q = Updated(r)
  BY DEF Opened
<1>2. /\ every \in [Stage -> BOOLEAN] /\ \A s \in Stage : every[s]
      /\ number \in [Stage -> Nat] /\ DOMAIN map = {}
  OBVIOUS
<1>3. TypedFlags(NoFlags) /\ \A s : FlagOf(NoFlags, s)
  BY DEF TypedFlags, FlagOf, NoFlags
<1>4. DOMAIN configs = configurations /\ \A c \in configurations : configs[c] = first
  OBVIOUS
<1> HIDE DEF every, configs, number, map
<1>5. /\ TypedConfiguration(first) /\ first.flags = NoFlags /\ first.chosen = every
      /\ first.modId = Zero
  BY <1>2, <1>3 DEF TypedConfiguration, ConfigurationFields
<1>6. /\ IsRocket(r) /\ r.tree = InitialTree /\ r.number = number /\ r.map = map
      /\ r.configs = configs
  BY DEF IsRocket
<1> HIDE DEF r, first
<1>7. Sound(r, {})
  <2>1. TreeSound(r.tree, {})
    BY <1>6, TreeIsSound, InitialTreeAssumption
  <2>2. Typed(r)
    BY <1>2, <1>4, <1>5, <1>6 DEF Typed
  <2>3. MapSound(r)
    BY <1>2, <1>6, FS_EmptySet DEF MapSound
  <2> QED
    BY <2>1, <2>2, <2>3 DEF Sound
<1>8. InTree(r.tree) \subseteq Stage
  BY <1>7, InTreeIs DEF Sound
<1>9. \A c \in DOMAIN r.configs : Ready(r.configs[c], InTree(r.tree))
  BY <1>2, <1>3, <1>4, <1>5, <1>6, <1>8 DEF Ready, ActiveOutside
<1>10. Good(q) /\ SameChoices(r, q) /\ SameIds(r, q)
  BY <1>1, <1>7, <1>9, GoodAfterUpdate
<1> QED
  BY <1>4, <1>5, <1>6, <1>10 DEF SameChoices, SameIds, AllIdsZero

LEMMA HeldIdsFinite ==
  ASSUME IsFiniteSet(DOMAIN rocket.configs)
  PROVE  IsFiniteSet(HeldIds)
<1> DEFINE D   == DOMAIN rocket.configs
           ids == {rocket.configs[c].modId : c \in D}
           f   == [c \in D |-> rocket.configs[c].modId]
<1>1. IsFiniteSet(ids)
  <2>1. f \in Surjection(D, ids)
    BY DEF Surjection
  <2> HIDE DEF f, ids
  <2> QED
    BY <2>1, FS_Surjection
<1>2. \A s : IsFiniteSet(IdsOf(s))
  BY FS_EmptySet, FS_Singleton DEF IdsOf
<1>3. IsFiniteSet(IdsOf(sim)) /\ IsFiniteSet(IF state = None THEN {} ELSE IdsOf(state.sim))
  BY <1>2, FS_EmptySet
<1>4. HeldIds = (ids \cup IdsOf(sim)) \cup (IF state = None THEN {} ELSE IdsOf(state.sim))
  BY DEF HeldIds
<1> HIDE DEF ids
<1>5. IsFiniteSet(ids \cup IdsOf(sim))
  BY <1>1, <1>3, FS_Union
<1> QED
  BY <1>3, <1>4, <1>5, FS_Union

\* Of as many pairs as there are ids held, and one more, one is free.
LEMMA FreshIdFacts ==
  ASSUME IsFiniteSet(DOMAIN rocket.configs), NEW c
  PROVE  FreshId(c) \notin HeldIds /\ FreshId(c) \in {c} \X (Nat \ {0})
<1> DEFINE H       == HeldIds
           n       == Cardinality(H)
           free(k) == <<c, k>> \notin H
           T       == {k \in 1 .. n + 1 : free(k)}
           f       == [k \in 1 .. n + 1 |-> <<c, k>>]
<1>1. IsFiniteSet(H) /\ n \in Nat
  BY HeldIdsFinite, FS_CardinalityType
<1>2. FreshId(c) = <<c, CHOOSE k \in 1 .. n + 1 : free(k) /\ \A j \in 1 .. k - 1 : ~free(j)>>
  BY DEF FreshId
<1> HIDE DEF n, H
<1>3. T # {}
  <2> SUFFICES ASSUME \A k \in 1 .. n + 1 : <<c, k>> \in H PROVE FALSE
    OBVIOUS
  <2>1. IsFiniteSet(1 .. n + 1) /\ Cardinality(1 .. n + 1) = n + 1
    BY <1>1, FS_Interval
  <2>2. f \in [1 .. n + 1 -> H] /\ \A k \in 1 .. n + 1 : f[k] = <<c, k>>
    OBVIOUS
  <2>3. Cardinality(H) < Cardinality(1 .. n + 1)
    BY <1>1, <2>1 DEF n
  <2> HIDE DEF f
  <2>4. \E x, y \in 1 .. n + 1 : x # y /\ f[x] = f[y]
    BY <1>1, <2>1, <2>2, <2>3, FS_PigeonHole
  <2> QED
    BY <2>2, <2>4
<1>4. PICK m \in T : \A k \in T : m <= k
  <2>1. T \in SUBSET Nat
    BY <1>1
  <2> HIDE DEF T
  <2> QED
    BY <1>3, <2>1, LeastNatural
<1>5. m \in 1 .. n + 1 /\ free(m) /\ \A j \in 1 .. m - 1 : ~free(j)
  <2>1. m \in 1 .. n + 1 /\ free(m)
    OBVIOUS
  <2>2. ASSUME NEW j \in 1 .. m - 1, free(j) PROVE FALSE
    <3>1. j \in 1 .. n + 1 /\ ~(m <= j)
      BY <1>1, <2>1
    <3>2. j \in T
      BY <2>2, <3>1
    <3> QED
      BY <1>4, <3>1, <3>2
  <2> QED
    BY <2>1, <2>2
<1> DEFINE k == CHOOSE x \in 1 .. n + 1 : free(x) /\ \A j \in 1 .. x - 1 : ~free(j)
<1>6. k \in 1 .. n + 1 /\ free(k)
  BY <1>5
<1> HIDE DEF k
<1>7. FreshId(c) = <<c, k>>
  BY <1>2 DEF k
<1>8. k \in Nat \ {0}
  BY <1>1, <1>6
<1> QED
  BY <1>6, <1>7, <1>8 DEF H
-----------------------------------------------------------------------------
(* The results.                                                              *)

LEMMA IdsAreFinite ==
  ASSUME NEW r, IdsSound(r)
  PROVE  IsFiniteSet(DOMAIN r.configs)
<1>1. IsFiniteSet(Configuration \cup {Default})
  BY ConfigurationsAssumption, FS_AddElement
<1>2. DOMAIN r.configs \in SUBSET (Configuration \cup {Default})
  BY DEF IdsSound
<1> QED
  BY <1>1, <1>2, FS_Subset

LEMMA ChosenAlike ==
  ASSUME NEW r, NEW q, q.tree = r.tree, NEW c \in DOMAIN r.configs, c \in DOMAIN q.configs,
         \A s \in InTree(r.tree) : q.configs[c].chosen[s] <=> r.configs[c].chosen[s]
  PROVE  ChosenActive(q, c) = ChosenActive(r, c)
<1>1. ConfigurationOf(r, c) = r.configs[c] /\ ConfigurationOf(q, c) = q.configs[c]
  BY DEF ConfigurationOf
<1>2. /\ ChosenActive(r, c) = {s \in InTree(r.tree) : r.configs[c].chosen[s]}
      /\ ChosenActive(q, c) = {s \in InTree(r.tree) : q.configs[c].chosen[s]}
  BY <1>1 DEF ChosenActive
<1> QED
  BY <1>2

\* What is flown in a thawed rocket are the stages the user chose.
LEMMA FlaggedIsChosen ==
  ASSUME NEW r, Good(r), NEW c \in DOMAIN r.configs
  PROVE  FlaggedActive(r, c) = ChosenActive(r, c)
<1> DEFINE config == r.configs[c]
<1>1. ConfigurationOf(r, c) = config
  BY DEF ConfigurationOf
<1>2. /\ TypedConfiguration(config) /\ FlagsOfMap(config.flags, r.map) /\ Agrees(config)
      /\ \A s \in InTree(r.tree) : FlagOf(config.flags, s) <=> config.flags[r.number[s]].active
  BY GoodFlags
<1>3. \A s \in InTree(r.tree) : r.number[s] \in DOMAIN r.map
  BY StagesByNumber
<1>4. InTree(r.tree) \subseteq Stage
  BY InTreeIs DEF Good, Sound
<1> HIDE DEF config
<1>5. ASSUME NEW s \in InTree(r.tree)
      PROVE  IsStageActive(r, config.flags, r.number[s]) <=> config.chosen[s]
  <2>1. IsStageActive(r, config.flags, r.number[s]) <=> config.flags[r.number[s]].active
    BY <1>2, <1>3 DEF IsStageActive, FlagsOfMap
  <2> QED
    BY <1>2, <1>4, <2>1 DEF Agrees
<1> QED
  BY <1>1, <1>5 DEF FlaggedActive, ChosenActive

\* An id other than zero is that of one configuration.
LEMMA OneOfAnId ==
  ASSUME NEW r, IdsSound(r), NEW c \in DOMAIN r.configs, NEW d \in DOMAIN r.configs,
         r.configs[c].modId = r.configs[d].modId, r.configs[d].modId # Zero
  PROVE  c = d
  BY DEF IdsSound

\* The rocket changes: results lose their date, or the stages and choices are the same.
LEMMA DatesFollow ==
  ASSUME IdsSound(rocket), ResultsAreDated(sim, rocket), IdsFollow
  PROVE  ResultsAreDated(sim, rocket')
<1> SUFFICES ASSUME Counts(sim), NEW c \in DOMAIN rocket'.configs, Dated(sim, rocket', c)
             PROVE  ResultsAreOf(sim, rocket', c)
  BY DEF ResultsAreDated
<1>1. rocket'.configs[c].modId # FreshId(c)
  <2>1. FreshId(c) \notin HeldIds
    BY IdsAreFinite, FreshIdFacts
  <2>2. sim.simId \in HeldIds
    BY DEF Counts, HeldIds, IdsOf
  <2> QED
    BY <2>1, <2>2 DEF Dated
<1>2. /\ c \in DOMAIN rocket.configs /\ rocket'.tree = rocket.tree
      /\ rocket'.configs[c].modId = rocket.configs[c].modId
      /\ rocket'.configs[c].chosen = rocket.configs[c].chosen
  BY <1>1 DEF IdsFollow
<1>3. Dated(sim, rocket, c)
  BY <1>2 DEF Dated
<1>4. ResultsAreOf(sim, rocket, c)
  BY <1>2, <1>3 DEF ResultsAreDated
<1>5. ChosenActive(rocket', c) = ChosenActive(rocket, c)
  BY <1>2, ChosenAlike
<1> QED
  BY <1>2, <1>4, <1>5 DEF ResultsAreOf

LEMMA IdsStaySound ==
  ASSUME IdsSound(rocket), IdsFollow
  PROVE  IdsSound(rocket')
<1> SUFFICES ASSUME NEW c \in DOMAIN rocket'.configs
             PROVE  /\ c \in Configuration \cup {Default}
                    /\ rocket'.configs[c].modId \in {Zero} \cup ({c} \X (Nat \ {0}))
  BY DEF IdsSound
<1>1. FreshId(c) \in {c} \X (Nat \ {0})
  BY IdsAreFinite, FreshIdFacts
<1> QED
  BY <1>1 DEF IdsFollow, IdsSound

\* A change of the rocket alone.
LEMMA RocketChangeKeepsResults ==
  ASSUME ResultsInvariant, FlightInvariant', IdsFollow, UNCHANGED <<sim, state>>
  PROVE  ResultsInvariant'
<1>1. ResultsAreDated(sim, rocket') /\ IdsSound(rocket')
  BY DatesFollow, IdsStaySound DEF ResultsInvariant
<1> QED
  BY <1>1 DEF ResultsInvariant, SavedState

\* A change of the simulation alone.
LEMMA SimulationChangeKeeps ==
  ASSUME ResultsInvariant, UNCHANGED <<rocket, frozen, held, state>>,
         SimulationTyped(sim'), ResultsAreDated(sim', rocket)
  PROVE  ResultsInvariant'
<1>1. FlightInvariant'
  BY DEF ResultsInvariant, FlightInvariant
<1> QED
  BY <1>1 DEF ResultsInvariant, SavedState

LEMMA NewSimulationFacts ==
  ASSUME NEW c \in Configuration \cup {Default}, NEW options \in Option, NEW r
  PROVE  /\ SimulationTyped(NewSimulation(c, options))
         /\ ResultsAreDated(NewSimulation(c, options), r)
<1> DEFINE new == NewSimulation(c, options)
<1>1. new = [config |-> c, options |-> options, simId |-> Invalid, simOptions |-> None,
             status |-> "NotSimulated", results |-> None, aborted |-> FALSE,
             doubt |-> FALSE]
  BY DEF NewSimulation
<1> HIDE DEF new
<1>2. new \in SimulationType
  BY <1>1 DEF SimulationType
<1>3. ~Counts(new)
  BY <1>1 DEF Counts, IsStatusUpToDate
<1> QED
  BY <1>2, <1>3 DEF SimulationTyped, ResultsAreDated, new

\* What a file says is up to date was flown with the design the file holds.
LEMMA FromFileFacts ==
  ASSUME NEW r, Good(r), AllIdsZero(r), IdsSound(r), NEW c \in DOMAIN r.configs,
         NEW options \in Option, NEW status \in FirstStatuses, NEW aborted \in BOOLEAN,
         r.selected \in DOMAIN r.configs
  PROVE  /\ SimulationTyped(FromFile(r, c, options, status, aborted))
         /\ ResultsAreDated(FromFile(r, c, options, status, aborted), r)
<1> DEFINE active == ChosenActive(r, c)
           results == IF status = "NotSimulated" THEN None ELSE <<r.tree, active, options>>
           doubt == aborted \/ status = "Outdated"
           loaded == FromFile(r, c, options, status, aborted)
<1>1. loaded = [config |-> c, options |-> options, simId |-> Zero, simOptions |-> options,
                status |-> status, results |-> results, aborted |-> aborted, doubt |-> doubt]
  BY FlaggedIsChosen DEF AllIdsZero, FromFile, Flown
<1>2. c \in Configuration \cup {Default} /\ doubt \in BOOLEAN
  BY DEF IdsSound
<1>3. results \in {None} \cup ([Parent -> Seq(Stage)] \X (SUBSET Stage) \X Option)
  <2>1. r.tree \in [Parent -> Seq(Stage)] /\ active \in SUBSET Stage
    <3>1. TreeSound(r.tree, {})
      BY DEF Good, Sound
    <3>2. InTree(r.tree) \subseteq Stage
      BY <3>1, InTreeIs
    <3> QED
      BY <3>1, <3>2 DEF TreeSound, ChosenActive
  <2> HIDE DEF active
  <2> QED
    BY <2>1
<1>4. status \in {"NotSimulated", "Loaded", "UpToDate", "Outdated", "CantRun", "Aborted"}
  BY DEF FirstStatuses
<1>5. results = None \/ results = <<r.tree, active, options>>
  OBVIOUS
<1> HIDE DEF results, doubt, loaded
<1>6. loaded \in SimulationType
  BY <1>1, <1>2, <1>3, <1>4 DEF SimulationType
<1>7. ResultsAreDated(loaded, r)
  BY <1>1, <1>5 DEF ResultsAreDated, Counts, Dated, ResultsAreOf
<1> QED
  BY <1>6, <1>7 DEF SimulationTyped, loaded

LEMMA ModIdIs ==
  ASSUME NEW r, NEW simulation, simulation.config \in DOMAIN r.configs
  PROVE  ModIdOf(r, simulation) = r.configs[simulation.config].modId
  BY DEF ModIdOf, ConfigurationOf

LEMMA SimulateKeeps ==
  ASSUME ResultsInvariant, ConfigurationInvariant, Simulate
  PROVE  ResultsInvariant'
<1> DEFINE c == sim.config
<1>1. frozen = "thawed" /\ sim # None /\ UNCHANGED <<rocket, frozen, held, state>>
  BY DEF Simulate
<1>2. sim \in SimulationType /\ c \in DOMAIN rocket.configs
  BY <1>1 DEF ResultsInvariant, SimulationTyped, ConfigurationInvariant, HasItsConfiguration
<1>3. /\ Good(rocket) /\ InTree(rocket.tree) \subseteq Stage /\ TreeSound(rocket.tree, {})
      /\ IdsSound(rocket)
  BY <1>1, ThawedIsGood DEF ResultsInvariant
<1>4. PICK results \in {None, Flown(rocket, ChosenActive(rocket, c), sim.options)},
           aborted \in BOOLEAN :
        sim' = [sim EXCEPT !.simId = rocket.configs[c].modId, !.simOptions = sim.options,
                           !.status = "UpToDate", !.results = results, !.aborted = aborted,
                           !.doubt = FALSE]
  <2>1. FlaggedActive(rocket, c) = ChosenActive(rocket, c)
    BY <1>2, <1>3, FlaggedIsChosen
  <2>2. ModIdOf(rocket, sim) = rocket.configs[c].modId
    BY <1>2, ModIdIs
  <2>3. \E results \in {None, Flown(rocket, FlaggedActive(rocket, c), sim.options)},
           aborted \in BOOLEAN :
          sim' = [sim EXCEPT !.simId = ModIdOf(rocket, sim), !.simOptions = sim.options,
                             !.status = "UpToDate", !.results = results, !.aborted = aborted,
                             !.doubt = FALSE]
    BY DEF Simulate
  <2> QED
    BY <2>1, <2>2, <2>3
<1>5. /\ rocket.configs[c].modId \in {Zero} \cup ({c} \X (Nat \ {0}))
      /\ c \in Configuration \cup {Default}
  BY <1>2, <1>3 DEF IdsSound
<1> DEFINE active == ChosenActive(rocket, c)
<1>6. rocket.tree \in [Parent -> Seq(Stage)] /\ active \in SUBSET Stage
  BY <1>3 DEF TreeSound, ChosenActive
<1>7. /\ sim'.config = c /\ sim'.simId = rocket.configs[c].modId /\ sim'.simOptions = sim.options
      /\ sim'.results = results
  BY <1>2, <1>4 DEF SimulationType
<1>8. results \in {None} \cup ([Parent -> Seq(Stage)] \X (SUBSET Stage) \X Option)
  <2>1. sim.options \in Option
    BY <1>2 DEF SimulationType
  <2>2. results \in {None, <<rocket.tree, active, sim.options>>}
    BY DEF Flown
  <2> HIDE DEF active
  <2> QED
    BY <1>6, <2>1, <2>2
<1>9. SimulationTyped(sim')
  <2> HIDE DEF c
  <2>1. rocket.configs[c].modId \in {Zero} \cup ((Configuration \cup {Default}) \X (Nat \ {0}))
    BY <1>5
  <2>2. sim' \in SimulationType
    BY <1>2, <1>4, <1>8, <2>1 DEF SimulationType
  <2> QED
    BY <2>2 DEF SimulationTyped
<1>10. ResultsAreDated(sim', rocket)
  <2> SUFFICES ASSUME Counts(sim'), NEW d \in DOMAIN rocket.configs, Dated(sim', rocket, d)
               PROVE  ResultsAreOf(sim', rocket, d)
    BY DEF ResultsAreDated
  <2>1. d = c
    <3>1. rocket.configs[d].modId = rocket.configs[c].modId
      BY <1>7 DEF Dated
    <3>2. rocket.configs[c].modId # Zero \/ d = c
      BY <1>7 DEF Dated
    <3> QED
      BY <1>2, <1>3, <3>1, <3>2, OneOfAnId
  <2>2. results = <<rocket.tree, active, sim.options>>
    BY <1>7 DEF Counts, Flown
  <2> QED
    BY <1>7, <2>1, <2>2 DEF ResultsAreOf
<1> QED
  BY <1>1, <1>9, <1>10, SimulationChangeKeeps

LEMMA SimulationCallsKeepResults ==
  ASSUME ResultsInvariant, ConfigurationInvariant, SimulationCalls
  PROVE  ResultsInvariant'
<1>1. CASE AddSimulation
  <2>1. PICK options \in Option : sim' = NewSimulation(rocket.selected, options)
    BY <1>1 DEF AddSimulation
  <2>2. rocket.selected \in Configuration \cup {Default}
    BY DEF ResultsInvariant, IdsSound, ConfigurationInvariant, IsWhole
  <2>3. UNCHANGED <<rocket, frozen, held, state>>
    BY <1>1 DEF AddSimulation
  <2> QED
    BY <2>1, <2>2, <2>3, NewSimulationFacts, SimulationChangeKeeps
<1>2. CASE RemoveSimulation
  <2>1. sim' = None /\ UNCHANGED <<rocket, frozen, held, state>>
    BY <1>2 DEF RemoveSimulation
  <2>2. SimulationTyped(sim') /\ ResultsAreDated(sim', rocket)
    BY <2>1 DEF SimulationTyped, ResultsAreDated, Counts
  <2> QED
    BY <2>1, <2>2, SimulationChangeKeeps
<1>3. ASSUME NEW c \in DOMAIN rocket.configs, SetFlightConfiguration(c)
      PROVE  ResultsInvariant'
  <2>1. /\ sim # None /\ UNCHANGED <<rocket, frozen, held, state>>
        /\ sim' = [sim EXCEPT !.config = c,
                     !.doubt = sim.doubt \/ (IsStatusUpToDate(sim.status) /\ sim.simId = Zero)]
    BY <1>3 DEF SetFlightConfiguration
  <2>2. sim \in SimulationType /\ c \in Configuration \cup {Default}
    BY <2>1 DEF ResultsInvariant, SimulationTyped, IdsSound
  <2>3. sim' \in SimulationType
    BY <2>1, <2>2 DEF SimulationType
  <2>4. /\ sim'.results = sim.results /\ sim'.status = sim.status /\ sim'.simId = sim.simId
        /\ sim'.simOptions = sim.simOptions
        /\ sim'.doubt = (sim.doubt \/ (IsStatusUpToDate(sim.status) /\ sim.simId = Zero))
    BY <2>1, <2>2 DEF SimulationType
  <2>5. Counts(sim') => Counts(sim) /\ sim.simId # Zero
    BY <2>1, <2>4 DEF Counts
  <2>6. ResultsAreDated(sim', rocket)
    BY <2>4, <2>5 DEF ResultsAreDated, ResultsInvariant, Dated, ResultsAreOf
  <2> QED
    BY <2>1, <2>3, <2>6, SimulationChangeKeeps DEF SimulationTyped
<1>4. ASSUME NEW options \in Option, SetOptions(options)
      PROVE  ResultsInvariant'
  <2>1. /\ sim # None /\ UNCHANGED <<rocket, frozen, held, state>>
        /\ sim' = [sim EXCEPT !.options = options]
    BY <1>4 DEF SetOptions
  <2>2. sim \in SimulationType
    BY <2>1 DEF ResultsInvariant, SimulationTyped
  <2>3. sim' \in SimulationType
    BY <2>1, <2>2 DEF SimulationType
  <2>4. /\ sim'.results = sim.results /\ sim'.status = sim.status /\ sim'.simId = sim.simId
        /\ sim'.simOptions = sim.simOptions /\ sim'.doubt = sim.doubt /\ sim'.config = sim.config
    BY <2>1, <2>2 DEF SimulationType
  <2>5. ResultsAreDated(sim', rocket)
    BY <2>1, <2>4 DEF ResultsAreDated, ResultsInvariant, Dated, ResultsAreOf, Counts
  <2> QED
    BY <2>1, <2>3, <2>5, SimulationChangeKeeps DEF SimulationTyped
<1>5. CASE Simulate
  BY <1>5, SimulateKeeps
<1>6. CASE GetStatus
  <2>1. PICK motors \in BOOLEAN :
          sim' = [sim EXCEPT !.status =
                    IF sim.aborted THEN "Aborted"
                    ELSE IF ~motors THEN "CantRun"
                    ELSE IF IsStatusUpToDate(sim.status) /\ ~IsUpToDate(rocket, sim)
                      THEN "Outdated"
                    ELSE sim.status]
    BY <1>6 DEF GetStatus
  <2>2. sim # None /\ UNCHANGED <<rocket, frozen, held, state>>
    BY <1>6 DEF GetStatus
  <2>3. sim \in SimulationType
    BY <2>2 DEF ResultsInvariant, SimulationTyped
  <2>4. sim' \in SimulationType
    BY <2>1, <2>3 DEF SimulationType
  <2>5. /\ sim'.results = sim.results /\ sim'.simId = sim.simId
        /\ sim'.simOptions = sim.simOptions /\ sim'.doubt = sim.doubt /\ sim'.config = sim.config
        /\ IsStatusUpToDate(sim'.status) => IsStatusUpToDate(sim.status)
    BY <2>1, <2>3 DEF SimulationType, IsStatusUpToDate
  <2>6. ResultsAreDated(sim', rocket)
    BY <2>2, <2>5 DEF ResultsAreDated, ResultsInvariant, Dated, ResultsAreOf, Counts
  <2> QED
    BY <2>2, <2>4, <2>6, SimulationChangeKeeps DEF SimulationTyped
<1> QED
  BY <1>1, <1>2, <1>3, <1>4, <1>5, <1>6 DEF SimulationCalls

\* A new configuration may come with a simulation of it.
LEMMA AddingKeepsResults ==
  ASSUME ResultsInvariant, FlightInvariant', IdsFollow,
         NEW c \in Configuration, NEW configuration, AddConfiguration(c, configuration)
  PROVE  ResultsInvariant'
<1>1. UNCHANGED state /\ (sim' = sim \/ \E options \in Option : sim' = NewSimulation(c, options))
  BY DEF AddConfiguration
<1>2. CASE sim' = sim
  BY <1>1, <1>2, RocketChangeKeepsResults
<1>3. ASSUME NEW options \in Option, sim' = NewSimulation(c, options)
      PROVE  ResultsInvariant'
  <2>1. SimulationTyped(sim') /\ ResultsAreDated(sim', rocket')
    BY <1>3, NewSimulationFacts
  <2>2. IdsSound(rocket')
    BY IdsStaySound DEF ResultsInvariant
  <2> QED
    BY <1>1, <2>1, <2>2 DEF ResultsInvariant, SavedState
<1> QED
  BY <1>1, <1>2, <1>3

LEMMA RemovingKeepsResults ==
  ASSUME ResultsInvariant, FlightInvariant', IdsFollow, NEW c, RemoveConfiguration(c)
  PROVE  ResultsInvariant'
<1>1. UNCHANGED state /\ sim' \in {sim, None}
  BY DEF RemoveConfiguration
<1>2. CASE sim' = sim
  BY <1>1, <1>2, RocketChangeKeepsResults
<1>3. CASE sim' = None
  <2>1. SimulationTyped(sim') /\ ResultsAreDated(sim', rocket')
    BY <1>3 DEF SimulationTyped, ResultsAreDated, Counts
  <2>2. IdsSound(rocket')
    BY IdsStaySound DEF ResultsInvariant
  <2> QED
    BY <1>1, <2>1, <2>2 DEF ResultsInvariant, SavedState
<1> QED
  BY <1>1, <1>2, <1>3

LEMMA ConfigurationCallsKeepResults ==
  ASSUME ResultsInvariant, ConfigurationInvariant, ConfigurationCalls
  PROVE  ResultsInvariant'
<1>1. FlightInvariant' /\ IdsFollow
  BY ConfigurationCallsFollow DEF ResultsInvariant, ConfigurationInvariant, IsWhole
<1>2. CASE \E s \in Stage : ToggleStage(s)
  BY <1>1, <1>2, RocketChangeKeepsResults DEF ToggleStage
<1>3. CASE \E c \in DOMAIN rocket.configs : SelectConfiguration(c)
  BY <1>1, <1>3, RocketChangeKeepsResults DEF SelectConfiguration
<1>4. CASE \E c \in Configuration : NewFlightConfiguration(c)
  BY <1>1, <1>4, AddingKeepsResults DEF NewFlightConfiguration
<1>5. CASE \E c \in Configuration, d \in UserConfigurations : DuplicateConfiguration(c, d)
  BY <1>1, <1>5, AddingKeepsResults DEF DuplicateConfiguration
<1>6. CASE \E c \in UserConfigurations : RemoveConfiguration(c)
  BY <1>1, <1>6, RemovingKeepsResults
<1> QED
  BY <1>2, <1>3, <1>4, <1>5, <1>6 DEF ConfigurationCalls

LEMMA StageCallsKeepResults ==
  ASSUME ResultsInvariant, StageCalls
  PROVE  ResultsInvariant'
<1>1. FlightInvariant' /\ IdsFollow
  BY StageCallsFollow DEF ResultsInvariant
<1>2. UNCHANGED <<sim, state>>
  BY DEF StageCalls, AddStage, RemoveStage, RemoveStageFails, MoveStage, Freeze, TakeStage,
         PutStage, Thaw
<1> QED
  BY <1>1, <1>2, RocketChangeKeepsResults

LEMMA ZeroIsSound ==
  ASSUME NEW r, NEW q, IdsSound(r), DOMAIN q.configs = DOMAIN r.configs, AllIdsZero(q)
  PROVE  IdsSound(q)
  BY DEF IdsSound, AllIdsZero

LEMMA TakeStateKeepsResults ==
  ASSUME ResultsInvariant, ConfigurationInvariant, TakeState
  PROVE  ResultsInvariant'
<1> DEFINE copy  == CopyOf(rocket)
           taken == IF sim = None THEN None
                    ELSE [sim EXCEPT !.doubt =
                            \/ sim.doubt
                            \/ IsStatusUpToDate(sim.status) /\ sim.simId # ModIdOf(rocket, sim)]
<1>1. /\ frozen = "thawed" /\ UNCHANGED <<rocket, frozen, held, sim>>
      /\ state'.rocket = copy /\ state'.sim = taken
  BY DEF TakeState
<1>2. Good(rocket)
  BY <1>1, ThawedIsGood DEF ResultsInvariant
<1>3. SavedRocket(copy) /\ copy.tree = rocket.tree /\ SameChoices(rocket, copy) /\ AllIdsZero(copy)
  BY <1>2, CopyFacts
<1> HIDE DEF copy
<1>4. IdsSound(copy)
  BY <1>3, ZeroIsSound DEF ResultsInvariant, SameChoices
<1>5. CASE sim = None
  <2>1. taken = None
    BY <1>5
  <2>2. SimulationTyped(taken) /\ ~Counts(taken)
    BY <2>1 DEF SimulationTyped, Counts
  <2>3. FlightInvariant'
    BY <1>1 DEF ResultsInvariant, FlightInvariant
  <2> HIDE DEF taken
  <2> QED
    BY <1>1, <1>3, <1>4, <2>2, <2>3 DEF ResultsInvariant, SavedState
<1>6. CASE sim # None
  <2>1. taken = [sim EXCEPT !.doubt = sim.doubt \/ (IsStatusUpToDate(sim.status)
                                                     /\ sim.simId # ModIdOf(rocket, sim))]
    BY <1>6
  <2> HIDE DEF taken
  <2>2. sim \in SimulationType /\ sim.config \in DOMAIN rocket.configs
    BY <1>6 DEF ResultsInvariant, SimulationTyped, ConfigurationInvariant, HasItsConfiguration
  <2>3. /\ taken \in SimulationType
        /\ taken.results = sim.results /\ taken.status = sim.status /\ taken.config = sim.config
        /\ taken.simOptions = sim.simOptions
        /\ taken.doubt = (sim.doubt \/ (IsStatusUpToDate(sim.status) /\ sim.simId # ModIdOf(rocket, sim)))
    BY <2>1, <2>2 DEF SimulationType
  <2>4. ASSUME Counts(taken) PROVE ResultsAreOf(taken, copy, taken.config)
    <3>1. Counts(sim) /\ sim.simId = ModIdOf(rocket, sim)
      BY <1>6, <2>3, <2>4 DEF Counts
    <3>2. Dated(sim, rocket, sim.config)
      BY <2>2, <3>1, ModIdIs DEF Dated
    <3>3. ResultsAreOf(sim, rocket, sim.config)
      BY <2>2, <3>1, <3>2 DEF ResultsInvariant, ResultsAreDated
    <3>4. ChosenActive(copy, sim.config) = ChosenActive(rocket, sim.config)
      BY <1>3, <2>2, ChosenAlike DEF SameChoices
    <3> QED
      BY <1>3, <2>3, <3>3, <3>4 DEF ResultsAreOf
  <2>5. FlightInvariant'
    BY <1>1 DEF ResultsInvariant, FlightInvariant
  <2> QED
    BY <1>1, <1>3, <1>4, <2>3, <2>4, <2>5 DEF ResultsInvariant, SavedState, SimulationTyped
<1> QED
  BY <1>5, <1>6

\* What a load leaves: a state has the configuration of its simulation, so none is created.
LEMMA LoadStateIs ==
  ASSUME ConfigurationInvariant, LoadState
  PROVE  /\ rocket' = LoadedFrom(rocket, state.rocket)
         /\ frozen = "thawed" /\ state # None /\ UNCHANGED <<frozen, held, state>>
         /\ \/ sim' = None
            \/ /\ state.sim # None
               /\ \E simulation \in {LoadedInPlace(rocket', state.sim),
                                     LoadedAnew(rocket', state.sim)} :
                    sim' = [simulation EXCEPT !.doubt =
                              simulation.doubt \/ (state.sim.config = Default
                                                    /\ DefaultDiffers(rocket'))]
<1> DEFINE loaded == LoadedFrom(rocket, state.rocket)
<1>1. frozen = "thawed" /\ state # None /\ UNCHANGED <<frozen, held, state>>
  BY DEF LoadState
<1>2. SameSet(state.rocket, loaded)
  BY <1>1, LoadedFromKeeps DEF ConfigurationInvariant, IsWhole
<1>3. state.sim # None => state.sim.config \in DOMAIN loaded.configs
  BY <1>1, <1>2 DEF SameSet, HasItsConfiguration, ConfigurationInvariant
<1>4. rocket' = loaded
  BY <1>3 DEF LoadState
<1>5. \/ sim' = None
      \/ /\ state.sim # None
         /\ \E simulation \in {LoadedInPlace(rocket', state.sim), LoadedAnew(rocket', state.sim)} :
              sim' = [simulation EXCEPT !.doubt =
                        simulation.doubt \/ (state.sim.config = Default /\ DefaultDiffers(rocket'))]
  <2> HIDE DEF loaded
  <2> QED
    BY <1>4 DEF LoadState, loaded
<1> QED
  BY <1>1, <1>4, <1>5

\* What a load gives the rocket, and a simulation that is loaded into it.
LEMMA LoadedIdsSound ==
  ASSUME NEW r, NEW source, NEW q, Loads(r, source, q), IdsSound(r), IdsSound(source),
         Default \in DOMAIN r.configs
  PROVE  IdsSound(q)
  BY DEF Loads, IdsSound

WithDoubt(simulation, doubted) == [simulation EXCEPT !.doubt = simulation.doubt \/ doubted]

LEMMA LoadedSimulationFacts ==
  ASSUME NEW r, IdsSound(r), NEW saved \in SimulationType, saved # None,
         saved.config \in DOMAIN r.configs,
         NEW loaded \in {LoadedInPlace(r, saved), LoadedAnew(r, saved)},
         NEW doubted \in BOOLEAN,
         NEW new, new = WithDoubt(loaded, doubted)
  PROVE  /\ new \in SimulationType
         /\ new.config = saved.config /\ new.results = saved.results
         /\ new.simOptions = saved.simOptions
         /\ Counts(new) => /\ Counts(saved) /\ ~doubted
                           /\ new.simId = r.configs[saved.config].modId
<1> DEFINE id == r.configs[saved.config].modId
<1>1. ModIdOf(r, saved) = id
  BY ModIdIs
<1>2. id \in {Invalid, Zero} \cup ((Configuration \cup {Default}) \X (Nat \ {0}))
  BY DEF IdsSound
<1> HIDE DEF id
<1>3. loaded \in {saved, [saved EXCEPT !.simId = id]}
  BY <1>1 DEF LoadedInPlace, LoadedAnew
<1>4. IsStatusUpToDate(saved.status) => loaded = [saved EXCEPT !.simId = id]
  BY <1>1 DEF LoadedInPlace, LoadedAnew
<1>5. loaded \in SimulationType
  BY <1>2, <1>3 DEF SimulationType
<1>6. /\ loaded.config = saved.config /\ loaded.results = saved.results
      /\ loaded.simOptions = saved.simOptions /\ loaded.status = saved.status
      /\ loaded.doubt = saved.doubt
      /\ IsStatusUpToDate(saved.status) => loaded.simId = id
  BY <1>3, <1>4 DEF SimulationType
<1>7. /\ new \in SimulationType
      /\ new.config = loaded.config /\ new.results = loaded.results
      /\ new.simOptions = loaded.simOptions /\ new.status = loaded.status
      /\ new.simId = loaded.simId /\ new.doubt = (loaded.doubt \/ doubted)
  <2> DEFINE doubt == loaded.doubt \/ doubted
  <2>1. doubt \in BOOLEAN /\ new = [loaded EXCEPT !.doubt = doubt]
    BY DEF WithDoubt
  <2> HIDE DEF doubt
  <2>2. /\ new \in SimulationType
        /\ new.config = loaded.config /\ new.results = loaded.results
        /\ new.simOptions = loaded.simOptions /\ new.status = loaded.status
        /\ new.simId = loaded.simId /\ new.doubt = doubt
    BY <1>5, <2>1 DEF SimulationType
  <2> QED
    BY <2>2 DEF doubt
<1> QED
  BY <1>6, <1>7 DEF Counts, id
LEMMA LoadStateKeepsResults ==
  ASSUME ResultsInvariant, ConfigurationInvariant, LoadState
  PROVE  ResultsInvariant'
<1> DEFINE source == state.rocket
           saved  == state.sim
<1>1. /\ rocket' = LoadedFrom(rocket, source)
      /\ frozen = "thawed" /\ state # None /\ UNCHANGED <<frozen, held, state>>
      /\ \/ sim' = None
         \/ /\ saved # None
            /\ \E loaded \in {LoadedInPlace(rocket', saved), LoadedAnew(rocket', saved)} :
                 sim' = [loaded EXCEPT !.doubt =
                           loaded.doubt \/ (saved.config = Default /\ DefaultDiffers(rocket'))]
  BY LoadStateIs
<1>2. /\ SavedRocket(source) /\ IdsSound(source) /\ SimulationTyped(saved)
      /\ Counts(saved) => ResultsAreOf(saved, source, saved.config)
      /\ IdsSound(rocket)
  BY <1>1 DEF ResultsInvariant, SavedState
<1>3. Good(rocket) /\ held = << >>
  BY <1>1, ThawedIsGood DEF ResultsInvariant, NoneHeld
<1>4. Default \in DOMAIN rocket.configs
  BY DEF ConfigurationInvariant, IsWhole
<1>5. saved # None => saved.config \in DOMAIN source.configs
  BY <1>1 DEF ConfigurationInvariant, HasItsConfiguration
<1> DEFINE q == rocket'
<1>6. Loads(rocket, source, q)
  <2> HIDE DEF source, q
  <2>1. q = LoadedFrom(rocket, source)
    BY <1>1 DEF q
  <2> QED
    BY <1>2, <1>3, <1>4, <2>1, LoadFacts
<1>7. FlightInvariant'
  BY <1>1, <1>3, <1>6, GoodIsEnough DEF Loads
<1> HIDE DEF source
<1>8. IdsSound(q)
  BY <1>2, <1>4, <1>6, LoadedIdsSound
<1>9. q.tree = source.tree /\ DOMAIN q.configs = DOMAIN source.configs
  BY <1>6 DEF Loads
<1> DEFINE doubted == saved.config = Default /\ DefaultDiffers(q)
<1>10. ASSUME saved # None, NEW loaded \in {LoadedInPlace(q, saved), LoadedAnew(q, saved)},
              sim' = [loaded EXCEPT !.doubt = loaded.doubt \/ doubted]
       PROVE  SimulationTyped(sim') /\ ResultsAreDated(sim', q)
  <2> DEFINE new == sim'
  <2>1. saved \in SimulationType /\ saved.config \in DOMAIN q.configs
    BY <1>2, <1>5, <1>9, <1>10 DEF SimulationTyped
  <2>2. doubted \in BOOLEAN
    BY DEF DefaultDiffers
  <2>3. new = WithDoubt(loaded, doubted)
    BY <1>10 DEF WithDoubt
  <2> HIDE DEF q, saved, doubted, new
  <2>4. /\ new \in SimulationType
        /\ new.config = saved.config /\ new.results = saved.results
        /\ new.simOptions = saved.simOptions
        /\ Counts(new) => /\ Counts(saved) /\ ~doubted
                          /\ new.simId = q.configs[saved.config].modId
    BY <1>8, <1>10, <2>1, <2>2, <2>3, LoadedSimulationFacts
  <2>5. ASSUME Counts(new), NEW c \in DOMAIN q.configs, Dated(new, q, c)
        PROVE  ResultsAreOf(new, q, c)
    <3>1. c = saved.config
      <4>1. /\ q.configs[c].modId = q.configs[saved.config].modId
            /\ q.configs[saved.config].modId # Zero \/ c = saved.config
        BY <2>4, <2>5 DEF Dated
      <4> QED
        BY <1>8, <2>1, <4>1, OneOfAnId
    <3>2. ResultsAreOf(saved, source, c)
      BY <1>2, <2>4, <2>5, <3>1
    <3>3. ChosenActive(q, c) = ChosenActive(source, c)
      <4>1. CASE c = Default
        BY <2>4, <2>5, <3>1, <4>1 DEF doubted, DefaultDiffers, source
      <4>2. CASE c # Default
        <5>1. c \in DOMAIN source.configs
          BY <1>9
        <5>2. \A s \in InTree(source.tree) :
                q.configs[c].chosen[s] <=> source.configs[c].chosen[s]
          BY <1>6, <4>2, <5>1 DEF Loads
        <5> QED
          BY <1>9, <5>1, <5>2, ChosenAlike
      <4> QED
        BY <4>1, <4>2
    <3> QED
      BY <1>9, <2>4, <3>2, <3>3 DEF ResultsAreOf
  <2>6. SimulationTyped(new) /\ ResultsAreDated(new, q)
    BY <2>4, <2>5 DEF SimulationTyped, ResultsAreDated
  <2> QED
    BY <2>6 DEF new
<1>11. SimulationTyped(sim') /\ ResultsAreDated(sim', q)
  <2>1. CASE sim' = None
    BY <2>1 DEF SimulationTyped, ResultsAreDated, Counts
  <2> QED
    BY <1>1, <1>10, <2>1
<1> QED
  BY <1>1, <1>7, <1>8, <1>11 DEF ResultsInvariant, SavedState

LEMMA ResultsAtStart ==
  ASSUME Init
  PROVE  ResultsInvariant
<1>1. PICK configurations \in SUBSET Configuration :
        \E selected \in configurations \cup {Default} :
          rocket = Opened(configurations \cup {Default}, selected)
  BY DEF Init
<1>2. /\ Good(rocket) /\ AllIdsZero(rocket)
      /\ DOMAIN rocket.configs = configurations \cup {Default}
  <2> DEFINE all == configurations \cup {Default}
  <2>1. PICK selected : rocket = Opened(all, selected)
    BY <1>1
  <2> HIDE DEF all
  <2>2. Good(rocket) /\ AllIdsZero(rocket) /\ DOMAIN rocket.configs = all
    BY <2>1, OpenedFacts
  <2> QED
    BY <2>2 DEF all
<1>3. frozen = "thawed" /\ held = << >> /\ state = None
  BY DEF Init
<1>4. FlightInvariant
  <2>1. ToSet(held) = {} /\ held \in Seq(Stage) /\ IsInjective(held)
    <3>1. << >> \in Seq(Stage) /\ IsInjective(<< >>)
      BY DEF IsInjective
    <3> QED
      BY <1>3, <3>1, EmptySequence
  <2>2. Followed(rocket, {}) /\ Settled(rocket)
    BY <1>2, GoodIsFollowed
  <2> QED
    BY <1>3, <2>1, <2>2 DEF FlightInvariant
<1>5. IdsSound(rocket)
  BY <1>2 DEF IdsSound, AllIdsZero
<1>6. SimulationTyped(sim) /\ ResultsAreDated(sim, rocket)
  <2>1. CASE sim = None
    BY <2>1 DEF SimulationTyped, ResultsAreDated, Counts
  <2>2. ASSUME NEW c \in DOMAIN rocket.configs, NEW options \in Option,
               sim = NewSimulation(c, options)
        PROVE  SimulationTyped(sim) /\ ResultsAreDated(sim, rocket)
    BY <1>2, <2>2, NewSimulationFacts
  <2>3. ASSUME NEW c \in DOMAIN rocket.configs, NEW options \in Option,
               NEW status \in FirstStatuses, NEW aborted \in BOOLEAN,
               sim = FromFile(rocket, c, options, status, aborted)
        PROVE  SimulationTyped(sim) /\ ResultsAreDated(sim, rocket)
    <3>1. rocket.selected \in DOMAIN rocket.configs
      BY ConfigurationsAtStart DEF ConfigurationInvariant, IsWhole
    <3> QED
      BY <1>2, <1>5, <2>3, <3>1, FromFileFacts DEF AllIdsZero
  <2> QED
    BY <2>1, <2>2, <2>3, FirstSimulationAtStart DEF FirstSimulation
<1> QED
  BY <1>3, <1>4, <1>5, <1>6 DEF ResultsInvariant, SavedState

\* The steps of the program keep the invariant.
LEMMA ResultsStep ==
  ASSUME ResultsInvariant, ConfigurationInvariant, [Next]_vars
  PROVE  ResultsInvariant'
<1>1. CASE StageCalls
  BY <1>1, StageCallsKeepResults
<1>2. CASE ConfigurationCalls
  BY <1>2, ConfigurationCallsKeepResults
<1>3. CASE SimulationCalls
  BY <1>3, SimulationCallsKeepResults
<1>4. CASE TakeState
  BY <1>4, TakeStateKeepsResults
<1>5. CASE LoadState
  BY <1>5, LoadStateKeepsResults
<1>6. CASE UNCHANGED vars
  BY <1>6 DEF vars, ResultsInvariant, FlightInvariant, SavedState
<1> QED
  BY <1>1, <1>2, <1>3, <1>4, <1>5, <1>6 DEF Next
-----------------------------------------------------------------------------
(* The theorems.                                                             *)

\* The rocket keeps a sound tree, stage map and numbers, and its flags agree with the
\* choices of the user, also while moveFrozen() holds stages; results that count carry
\* the id of the configuration they were made with.
THEOREM ResultsAreKept == Spec => []ResultsInvariant
<1>1. Init => ResultsInvariant
  BY ResultsAtStart
<1>2. ResultsInvariant /\ ConfigurationInvariant /\ [Next]_vars => ResultsInvariant'
  BY ResultsStep
<1> QED
  BY <1>1, <1>2, ConfigurationsExist, PTL DEF Spec

LEMMA TypesFollow ==
  ASSUME ResultsInvariant, ConfigurationInvariant
  PROVE  TypeOK
<1>1. /\ Sound(rocket, ToSet(held)) /\ held \in Seq(Stage)
      /\ frozen \in {"thawed", "removing", "adding"} /\ (frozen = "thawed" => held = << >>)
  BY DEF ResultsInvariant, FlightInvariant, Followed
<1>2. TreeSound(rocket.tree, ToSet(held)) /\ rocket.number \in [Stage -> Nat]
  BY <1>1 DEF Sound, Typed
<1>3. rocket.tree \in [Parent -> Seq(Stage)] /\ IsInjective(Stages(rocket.tree))
  BY <1>2, StagesFacts DEF TreeSound
<1>4. ToSet(held) \cap InTree(rocket.tree) = {}
  <2> DEFINE h == ToSet(held)
  <2>1. h \in SUBSET Stage
    BY <1>1, ElementsOf
  <2> HIDE DEF h
  <2>2. TreeSound(rocket.tree, h)
    BY <1>2 DEF h
  <2>3. h \cap InTree(rocket.tree) = {}
    BY <2>1, <2>2, BoostersStand
  <2> QED
    BY <2>3 DEF h
<1>5. UserConfigurations \subseteq Configuration
  BY DEF ResultsInvariant, IdsSound, UserConfigurations
<1>6. {Default, rocket.selected} \subseteq DOMAIN rocket.configs
  BY DEF ConfigurationInvariant, IsWhole
<1>7. sim \in {None} \cup SimulationType
  BY DEF ResultsInvariant, SimulationTyped
<1>8. state # None => state.sim \in {None} \cup SimulationType
  BY DEF ResultsInvariant, SavedState, SimulationTyped
<1> QED
  BY <1>1, <1>2, <1>3, <1>4, <1>5, <1>6, <1>7, <1>8 DEF TypeOK

LEMMA TreeIsFollowed ==
  ASSUME FlightInvariant
  PROVE  ConfigurationsFollowTree
<1> DEFINE order == Stages(rocket.tree)
<1>1. /\ MapSound(rocket)
      /\ \A c \in DOMAIN rocket.configs :
           rocket.configs[c].instances \subseteq InTree(rocket.tree)
  BY DEF FlightInvariant, Followed, FollowedConfiguration, Sound
<1>2. ASSUME frozen = "thawed"
      PROVE  /\ DOMAIN rocket.map = 0 .. Len(order) - 1
             /\ \A n \in DOMAIN rocket.map :
                  rocket.map[n] = order[n + 1] /\ rocket.number[order[n + 1]] = n
  BY <1>2, ThawedIsGood DEF Good, Settled, Numbered
<1>3. ASSUME frozen = "thawed", NEW c \in DOMAIN rocket.configs
      PROVE  /\ DOMAIN rocket.configs[c].flags = DOMAIN rocket.map
             /\ \A n \in DOMAIN rocket.configs[c].flags :
                  rocket.configs[c].flags[n].stage = rocket.map[n]
             /\ rocket.configs[c].instances = FlaggedActive(rocket, c)
  <2>1. SettledConfiguration(rocket, rocket.configs[c])
    BY <1>3, ThawedIsGood DEF Good, Settled
  <2>2. ConfigurationOf(rocket, c) = rocket.configs[c]
    BY DEF ConfigurationOf
  <2>3. FlaggedActive(rocket, c) = ActiveInstances(rocket, rocket.configs[c].flags)
    BY <2>2 DEF FlaggedActive, ActiveInstances
  <2> QED
    BY <2>1, <2>3 DEF SettledConfiguration
<1> QED
  BY <1>1, <1>2, <1>3 DEF ConfigurationsFollowTree, MapSound

LEMMA FlagsAreTheChoices ==
  ASSUME FlightInvariant
  PROVE  ActivenessIsKept
<1> DEFINE h == ToSet(held)
<1>1. h \in SUBSET Stage
  BY ElementsOf DEF FlightInvariant
<1>2. TreeSound(rocket.tree, h)
  BY DEF FlightInvariant, Followed, Sound
<1>3. \A c \in DOMAIN rocket.configs : Agrees(rocket.configs[c])
  BY DEF FlightInvariant, Followed, FollowedConfiguration
<1>4. InTree(rocket.tree) \cup Loose(rocket.tree, h) \subseteq Stage
  <2> HIDE DEF h
  <2> QED
    BY <1>1, <1>2, BoostersStand, InTreeIs
<1> QED
  BY <1>3, <1>4 DEF ActivenessIsKept, Agrees, Loose

LEMMA DatedIsCurrent ==
  ASSUME ResultsInvariant, ConfigurationInvariant
  PROVE  UpToDateIsCurrent
<1> SUFFICES ASSUME sim # None, IsUpToDate(rocket, sim), ~sim.doubt, sim.results # None
             PROVE  sim.results = Flown(rocket, ChosenActive(rocket, sim.config), sim.options)
  BY DEF UpToDateIsCurrent
<1>1. sim.config \in DOMAIN rocket.configs
  BY DEF ConfigurationInvariant, HasItsConfiguration
<1>2. /\ Counts(sim) /\ sim.options = sim.simOptions
      /\ Dated(sim, rocket, sim.config)
  BY <1>1, ModIdIs DEF IsUpToDate, Counts, Dated
<1>3. ResultsAreOf(sim, rocket, sim.config)
  BY <1>1, <1>2 DEF ResultsInvariant, ResultsAreDated
<1> QED
  BY <1>2, <1>3 DEF ResultsAreOf, Flown

\* Every variable keeps its type; a stage stands at one place of the tree, a stage that
\* moveFrozen() holds at none, and the default configuration and the selected one exist.
THEOREM ResultTypesHold == Spec => []TypeOK
<1>1. ResultsInvariant /\ ConfigurationInvariant => TypeOK
  BY TypesFollow
<1> QED
  BY <1>1, ResultsAreKept, ConfigurationsExist, PTL

\* The stage map and the configurations forget a stage that leaves the tree, also while the
\* rocket is frozen, and update() leaves numbers, flags and instances of exactly the stages
\* of the tree.
THEOREM StagesAreFollowed == Spec => []ConfigurationsFollowTree
<1>1. ResultsInvariant => ConfigurationsFollowTree
  BY TreeIsFollowed DEF ResultsInvariant
<1> QED
  BY <1>1, ResultsAreKept, PTL

\* A stage stays as active in each configuration as the user made it, whatever renumbers,
\* moves, restores, copies or loads the stages.
THEOREM ActivenessStaysKept == Spec => []ActivenessIsKept
<1>1. ResultsInvariant => ActivenessIsKept
  BY FlagsAreTheChoices DEF ResultsInvariant
<1> QED
  BY <1>1, ResultsAreKept, PTL

\* Results that getStatus() calls up to date are those of the stages, their activeness and
\* the options of now, but for the three ways the code is known to miss.
THEOREM UpToDateResultsAreCurrent == Spec => []UpToDateIsCurrent
<1>1. ResultsInvariant /\ ConfigurationInvariant => UpToDateIsCurrent
  BY DatedIsCurrent
<1> QED
  BY <1>1, ResultsAreKept, ConfigurationsExist, PTL
=============================================================================
