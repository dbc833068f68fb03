------------------------ MODULE FlightConfigurations ------------------------
(***************************************************************************)
(* The stages of a rocket and what its flight configurations derive from   *)
(* them: rocket/Rocket.cpp, rocket/FlightConfiguration.cpp and the parts   *)
(* of rocket/RocketComponent.cpp that change the tree, as operators on one *)
(* record.  The record of a rocket has                                     *)
(*                                                                         *)
(*   tree      the stages below the rocket and below each stage            *)
(*   number    the stage numbers (m_stageNumber), 0 for a new stage        *)
(*   map       the rocket's stage map (m_stageMap): number |-> stage       *)
(*   configs   the flight configurations (m_configSet): the default and    *)
(*             those of the user                                           *)
(*   selected  m_selectedConfigurationId                                   *)
(*                                                                         *)
(* and a flight configuration has its stage flags by stage number          *)
(* (m_stages), its modification id, the stages among its active instances  *)
(* (m_activeInstances) and, as a history variable, what the user chose for *)
(* each stage (`chosen`; every stage is active at first).                  *)
(*                                                                         *)
(* Core stages stand in a row below the rocket, boosters below a core      *)
(* stage.  Every stage holds components: one without any is inactive       *)
(* whatever its flag, which is left out.  Events are enabled, as they are  *)
(* for the rocket of a document.                                           *)
(***************************************************************************)
EXTENDS Naturals, SequencesExt

CONSTANTS
  Core,           \* the core stages (AxialStage)
  Booster,        \* the strap-on stages (ParallelStage)
  Configuration,  \* the ids of the user's flight configurations
  Root,           \* the rocket, as the parent of core stages
  Default,        \* FlightConfigurationId::defaultValueId()
  Zero            \* ModId::zero()

ASSUME StagesAssumption  == Core \cap Booster = {} /\ Root \notin Core \cup Booster
ASSUME DefaultAssumption == Default \notin Configuration
\* An id is a UUID.
ASSUME ConfigurationsAssumption == IsFiniteSet(Configuration)

Stage  == Core \cup Booster
Parent == {Root} \cup Core
-----------------------------------------------------------------------------
(* The tree. *)

SubStages(tree, s) == IF s \in Core THEN tree[s] ELSE << >>
WithSubStages(tree, s) == {s} \cup ToSet(SubStages(tree, s))

\* getSubStages() of the rocket: depth first.
Stages(tree) ==
  FlattenSeq([i \in DOMAIN tree[Root] |-> <<tree[Root][i]>> \o tree[tree[Root][i]]])
InTree(tree) ==
  ToSet(tree[Root]) \cup UNION {ToSet(tree[s]) : s \in ToSet(tree[Root])}

\* Every stage stands once, below the rocket or below a core stage that stands there.
IsTree(tree) ==
  /\ tree \in [Parent -> Seq(Stage)]
  /\ ToSet(tree[Root]) \subseteq Core
  /\ \A p \in Core : ToSet(tree[p]) \subseteq Booster
  /\ \A p \in Parent : IsInjective(tree[p])
  /\ \A p, q \in Parent : p # q => ToSet(tree[p]) \cap ToSet(tree[q]) = {}
  /\ \A p \in Core \ ToSet(tree[Root]) : tree[p] = << >>

ParentOf(tree, s) == CHOOSE p \in Parent : s \in ToSet(tree[p])
PlaceOf(seq, s)   == CHOOSE i \in DOMAIN seq : seq[i] = s
-----------------------------------------------------------------------------
(* Flight configurations. *)

NoFlags == [n \in {} |-> [stage |-> Root, active |-> TRUE]]

\* A stage without a flag is active.
FlagOf(flags, s) == \A n \in DOMAIN flags : flags[n].stage = s => flags[n].active

\* updateStages(): a flag for every stage of the map, kept by the id of the stage.
UpdatedFlags(flags, map) ==
  [n \in DOMAIN map |-> [stage |-> map[n], active |-> FlagOf(flags, map[n])]]

IsStageActive(r, flags, n) == n \in DOMAIN r.map /\ n \in DOMAIN flags /\ flags[n].active

ActiveInstances(r, flags) ==
  {s \in InTree(r.tree) : IsStageActive(r, flags, r.number[s])}

WithFlags(r, config, flags) ==
  [config EXCEPT !.flags = flags, !.instances = ActiveInstances(r, flags)]

\* The constructor: every stage active, and the modification id zero.
NewConfiguration(r) ==
  LET flags == UpdatedFlags(NoFlags, r.map)
  IN  [flags |-> flags, modId |-> Zero, instances |-> ActiveInstances(r, flags),
       chosen |-> [s \in Stage |-> TRUE]]

\* copy(): the flags and the modification id of the other configuration.
CopiedConfiguration(r, other) ==
  LET new   == NewConfiguration(r)
      flags == [n \in DOMAIN new.flags \cup DOMAIN other.flags |->
                  IF n \in DOMAIN other.flags THEN other.flags[n] ELSE new.flags[n]]
  IN  [WithFlags(r, new, flags) EXCEPT !.modId = other.modId, !.chosen = other.chosen]

\* rebuildConfigurations(): a new configuration with the activeness of the source's,
\* by stage number (copyStageActiveness()).
RebuiltConfiguration(r, source) ==
  LET new   == NewConfiguration(r)
      flags == [n \in DOMAIN new.flags |->
                  IF n \in DOMAIN source.flags
                    THEN [new.flags[n] EXCEPT !.active = source.flags[n].active]
                    ELSE new.flags[n]]
  IN  [WithFlags(r, new, flags) EXCEPT !.chosen = source.chosen]

\* The flight configuration of an id: the default for an id the rocket lacks.
ConfigurationOf(r, c) == r.configs[IF c \in DOMAIN r.configs THEN c ELSE Default]
-----------------------------------------------------------------------------
(* The rocket. *)

\* updateConfigurations() of every configuration.
UpdatedConfigurations(r) ==
  [r EXCEPT !.configs =
     [c \in DOMAIN r.configs |->
        WithFlags(r, r.configs[c], UpdatedFlags(r.configs[c].flags, r.map))]]

NewStageNumber(map) ==
  CHOOSE n \in 0..Cardinality(DOMAIN map) : n \notin DOMAIN map /\ 0..n - 1 \subseteq DOMAIN map

\* trackStage(): a stage the map has under its number keeps it.  (Of r only the map
\* and the numbers count.)
Tracked(r, s) ==
  LET n == NewStageNumber(r.map)
  IN  IF r.number[s] \in DOMAIN r.map /\ r.map[r.number[s]] = s
        THEN r
        ELSE [r EXCEPT !.number[s] = n,
                       !.map = [m \in DOMAIN r.map \cup {n} |-> IF m = n THEN s ELSE r.map[m]]]

\* update() clears the map: updateStageNumbers() numbers the stages in the order of the
\* tree, updateStageMap() tracks them.
Renumbered(r) ==
  LET order   == Stages(r.tree)
      numbers == [s \in Stage |-> IF s \in ToSet(order) THEN PlaceOf(order, s) - 1
                                                         ELSE r.number[s]]
      tracked == FoldLeft(Tracked, [map |-> [n \in {} |-> Root], number |-> numbers], order)
  IN  [r EXCEPT !.map = tracked.map, !.number = tracked.number]

\* update(), which every event that is delivered calls (componentChanged()).
Updated(r) == UpdatedConfigurations(Renumbered(r))

\* linkChild(): the stage, but none of its boosters, is tracked.
Linked(r, parent, i, s) ==
  Tracked([r EXCEPT !.tree[parent] = InsertAt(r.tree[parent], i, s)], s)

\* Mutant: the configurations keep the removed components.
UnlinkedUnforgotten(r, s) ==
  LET removed == WithSubStages(r.tree, s)
      kept    == {n \in DOMAIN r.map :
                    r.map[n] \notin removed /\ \A x \in removed : r.number[x] # n}
      parent  == ParentOf(r.tree, s)
  IN  [r EXCEPT !.tree[parent] = RemoveFirst(r.tree[parent], s),
                !.map = [n \in kept |-> r.map[n]]]

\* removeChild() and finishRemoval(), up to the event: the map forgets the stage and
\* its boosters (forgetStage(), by number, and forgetStageEntries()), the
\* configurations forget their components (forgetComponents()).
Unlinked(r, s) ==
  LET removed == WithSubStages(r.tree, s)
      kept    == {n \in DOMAIN r.map :
                    r.map[n] \notin removed /\ \A x \in removed : r.number[x] # n}
      parent  == ParentOf(r.tree, s)
  IN  [r EXCEPT !.tree[parent] = RemoveFirst(r.tree[parent], s),
                !.map = [n \in kept |-> r.map[n]],
                !.configs = [c \in DOMAIN r.configs |->
                               [r.configs[c] EXCEPT !.instances = @ \ removed]]]

\* A removed stage is destroyed; its name may stand for another one.
Destroyed(r, gone) ==
  [r EXCEPT !.tree   = [p \in Parent |-> IF p \in gone THEN << >> ELSE r.tree[p]],
            !.number = [s \in Stage |-> IF s \in gone THEN 0 ELSE r.number[s]],
            !.configs = [c \in DOMAIN r.configs |->
                           [r.configs[c] EXCEPT !.chosen =
                              [s \in Stage |-> s \in gone \/ @[s]]]]]

\* restoreStageActiveness(): the flags that r had for the stages, by their ids.
Reactivated(r, stages, before) ==
  [r EXCEPT !.configs =
     [c \in DOMAIN r.configs |->
        LET flags == [n \in DOMAIN r.configs[c].flags |->
                        LET flag == r.configs[c].flags[n]
                        IN  IF flag.stage \in stages
                              THEN [flag EXCEPT !.active =
                                      FlagOf(before.configs[c].flags, flag.stage)]
                              ELSE flag]
        IN  WithFlags(r, r.configs[c], UpdatedFlags(flags, r.map))]]

\* copyRocketWithOriginalId(): the default is new, every other configuration rebuilt.
CopyOf(r) ==
  [r EXCEPT !.configs =
     [c \in DOMAIN r.configs |->
        IF c = Default THEN [NewConfiguration(r) EXCEPT !.chosen = r.configs[c].chosen]
                       ELSE RebuiltConfiguration(r, r.configs[c])]]

\* loadFrom(): the tree of the source and its stage map; the default keeps its own
\* flags, the other configurations are rebuilt, and the event is delivered.
LoadedFrom(r, source) ==
  LET gone == InTree(r.tree) \ InTree(source.tree)
      loaded == [source EXCEPT !.configs = [c \in {Default} |-> r.configs[c]]]
      default == UpdatedConfigurations(loaded).configs[Default]
  IN  Updated(Destroyed(
        [loaded EXCEPT !.configs =
           [c \in DOMAIN source.configs |->
              IF c = Default THEN default ELSE RebuiltConfiguration(loaded, source.configs[c])]],
        gone))
=============================================================================
