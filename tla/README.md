# Verification of QtRocket

QtRocket is a model rocket designer and flight simulator, a C++ port of
OpenRocket: a core library (`src/`), a Qt GUI (`gui/`) and a command line
program. This directory models the parts that have control rather than
arithmetic: the undo history of a document, the event loop of the flight
simulation with its staging, the queue of flight events, the stages and flight
configurations that date the results of a simulation, and the running
application with its windows, its files and the replacement of a file on disk.
Each model is checked by TLC on small instances; what is proved for every value
of the constants is proved with TLAPS.

Paths below are relative to the repository. `PROJECT.json` maps every definition
to the lines it models and lists runs, mutants, findings, hazards and theorems.

## 1. The system

### Components

| Component | State | Operations | What makes it correct | Status |
|---|---|---|---|---|
| Document (`src/document/OpenRocketDocument.cpp`) | rocket, simulations, undo states with a position, two descriptions, modification ids, a nesting depth | addUndoPosition, startUndo/stopUndo, undo, redo, clearUndo, add/removeSimulation, setSaved, slots for the changes of rocket, simulations and preferences | undo and redo lose no work; a redo never overwrites newer work; "saved" and "clean" tell the truth; the history stays bounded | `UndoHistory`; decals, attachments and listeners left out |
| Simulation engine (`src/simulation/BasicEventSimulationEngine.cpp`, `SimulationStatus.cpp`, `FlightEventActivation.cpp`, `src/mass/MotorClusterState.cpp`) | a stack of branch statuses (active stages, time, flags, deployed devices, event queue), shared motor states | the event loop, one handler per event type, queueing what an event sets off, separation, one step | every stage flies once; no branch loses or inherits an event; events happen in order and once; every flight ends | `FlightEngine` |
| Event queue (`src/simulation/EventQueue.cpp`) | an array | add, poll, remove, clear, copy, iterator with remove | it is a bag with a minimum, and an iterator sees each event once | `EventQueue` |
| Simulation (`src/simulation/Simulation.cpp`) | settings, extensions, results, status, the ids it was simulated with | setters, simulate, loadFrom, cloneForUndo, getStatus | results shown as up to date are of the design of now | its part in undo is in `UndoHistory`, its status in `SimulationResults` |
| Rocket (`src/rocket/Rocket.cpp`) | component tree, five modification ids, stage map, frozen events | change events, freeze/thaw, loadFrom, copy | ids change with the content; the stage map names the stages of the tree | its stages in `FlightConfigurations`, `SimulationResults` |
| Flight configurations (`src/rocket/FlightConfiguration.cpp`, `FlightConfigurableParameterSet`) | active stages, motors, per-configuration overrides, the selection | create, remove, select, activate stages | the selection exists; each stage stays as active as the user made it | `FlightConfigurations`; motors and overrides left out |
| Steppers, tumble detector, aerodynamics, mass, models | caches keyed by modification ids | one integration step | numerical | outcome only |
| Listeners and extensions | code of the user | hooks before and after every step and event | – | a listener that refuses events, in `FlightEngine` |
| Decals, component copies (`src/document/`) | images by unique name | register, replace, restore on undo | a component's image exists | planned |
| File replacement (`src/util/FileIo.cpp`) | the file system | temporary file, permissions, rename | old or new file, whole | `FileReplacement` |
| File formats, SAX, presets, motor database, units, strings, preferences | – | parse, write, look up | round trips | not planned, except the handler stack |
| Application (`gui/src/app/`, `gui/src/main/`) | windows in order, their documents, recent files, flags of the calls under way | start, open, save, save as, close, quit, reopen, the platform's requests | no work is lost without the user's word, no call uses a window that is gone, every call ends | `DesignWindows`, `DesignSession` |
| The rest of the GUI (`gui/src/`) | dialogs, widgets, plots | edit, show | – | presentation; not modelled |

### How they interact

What is modelled runs on one thread; the hard behaviour comes from callbacks and
from event loops within calls: a question (a message box, a file chooser) runs
an event loop in which the platform may ask to open a file, to reopen a window
or to quit, so calls nest and a call may find its window closed when its question
is answered. A change
of a component climbs to the rocket, which draws a new modification id, updates
its configurations and emits the event; the document's slot drops the redo
states, labels the undo step and becomes unsaved, and its own listeners run
after that. `undo()` sends the rocket's event in the *middle* of its work, so a
slot may change the document between the loading of the rocket and the loading
of the simulations. A simulation hands the engine a *copy* of its configuration;
the engine owns the statuses, each status owns its queue, all statuses of a
flight share the motor states. The steppers and listeners add events to the
queue of the status they are given.

### What is hard

No data races: the hazards (listed with their lines in
`PROJECT.json`) are long sequences of legal calls (undo, change, redo, save,
purge), state that stands for other state (modification ids for content, a
position for a state, a flag for two ids), several effects of one event
(a charge that separates, deploys and ignites), branches that are copies of one
another but share the motors, removal during iteration, requests inside the event
loops of questions, calls of the file system that fail, crashes between them, and
termination.

## 2. Modules

| Module | Models | Used by |
|---|---|---|
| `UndoTimeline` | what undo and redo promise: past, present, future | refined by `UndoHistory` |
| `UndoHistory` | OpenRocketDocument's history, simulations list, saved flag | |
| `UndoHistoryProofs` | theorems about `UndoHistory` | |
| `FlightBranches` | what staging promises: the stages split into branches | refined by `FlightEngine` |
| `FlightEngine` | the event loop, staging, recovery, shared motor states | |
| `FlightBranchesProofs` | theorem about `FlightBranches` | `FlightEngineProofs` |
| `FlightEngineProofs` | the inductive invariant of `FlightEngine`; it implements `FlightBranches`; the shared motors | `FlightEventsProofs` |
| `FlightEventsProofs` | the events of the branches against their flags and motors | |
| `EventBag` | what the engine relies on in its queue | refined by `EventQueue` |
| `EventQueue` | the binary heap and its iterator | |
| `EventQueueProofs` | theorems about `EventQueue` | |
| `FlightConfigurations` | stages, stage map and configurations of a rocket, as operators | `SimulationResults` |
| `SimulationResults` | a rocket, one of its simulations, one undo state | |
| `SimulationResultsProofs` | the inductive invariant of `SimulationResults`: tree, stage map, flags, results | |
| `DesignStore` | what saving promises of the files | refined by `FileReplacement`, `DesignSession` |
| `FileReplacement` | `util/FileIo.cpp`: temporary file, permissions, rename | `DesignWindows` |
| `FileReplacementProofs` | theorems about `FileReplacement` | `DesignSessionProofs` |
| `DesignWindows` | windows, documents, save and save as | `DesignSession` |
| `DesignSession` | start, open, close, quit, reopen, crashes and restarts | |
| `DesignSessionProofs` | the inductive invariant of `DesignSession` | |
| `MCUndoHistory`, `MCFlightEngine`, `MCEventQueue`, `MCSimulationResults`, `MCDesignSession` | instances and bounds for TLC | the runs |

### UndoHistory

`rocket` is the rocket's modification id with one value for the design;
`history` and `position` are `m_undoHistory` and `m_undoPosition`; the ids of
the document, which are only ever compared with the id of the last save, are
the flags `modified` and `saved`. A simulation has the settings `operator==`
compares, the results it ignores, and `heard`: whether its options reach the
document. Every public operation is an action (`AddUndoPosition`, `StartUndo`,
`StopUndo`, `ClearUndo`, `RocketChanged`, `ChangeSettings`, `ChangeResults`,
`AddSimulation`, `RemoveSimulation`, `RemoveUnlisted`, `PreferencesChanged`,
`SetSaved`, `Undo`, `Redo`). `undo()` and `redo()` take two steps, `Undo` or
`Redo` and then `LoadSimulations`, since the slots of the rocket's event run in
between; the constant `EventSlots` says whether they change the document.
`SilentSources` says which changes that emit nothing are made: those of the
extension list (`Simulation::copyExtensionsFrom`), and those of the options of
the copies an undo made (`MayChangeSilently`; the class comment of
`OpenRocketDocument.h` documents the latter). The saved flag and the redo states
outlive such a change. `SavedButForSilent` says that this is all the flag misses, and
`UndoneIsReachable` that an undo still keeps the content it replaces.

The refinement mapping to `UndoTimeline` takes the states before the position as
the past, with the state at the position too when the document is dirty.

### FlightEngine

`toSimulate` is the stack of waiting statuses, `status` the one in flight,
`motors` the shared motor states, `flown` the ended branches. `pc` tells whether
the loop starts a branch, handles the events that are due, or takes a step.
There is one action per kind of event, and each models the whole of
`handleEvent`: the ignitions, separations and deployments it queues come before
the handler of the type. A queue is a bag, of which any first event is taken:
which of several equal events comes first is left open, and that the heap is
such a bag is what `EventQueue` shows. The physics is a choice: a step takes one
of `StepSizes`, may run past the next event when it is at most `MinStep`
(`computeTimeStep()` of the Runge-Kutta steppers raises a step that is too small),
and moves the abstract altitude by at most a level; what the
calculators may find wrong is any subset of `Troubles`. Times are in
milliseconds only where the code has one, the least delay of a deployment.

### EventQueue

The array with `siftUp`, `siftDown`, `removeAt`, `heapify` as in the source, and
the iterator with its cursor, its last returned slot and its list of events
that a removal moved past it. While an iterator is in use the queue changes
only through it, as in `removeUnattachedEvents()`, its one user.

### FlightConfigurations and SimulationResults

`FlightConfigurations` has a rocket as one record: its stages as a tree of two
levels, their numbers, the stage map and the set of configurations with the
selection. Its operators are the functions of `Rocket.cpp`, `FlightConfiguration.cpp`
and `RocketComponent.cpp` that relate them; a removed stage is held by its caller
or destroyed, and what a destroyed stage's number and flags were matters to
nobody. `chosen` is a history variable: what the user made of each stage in each
configuration.

`SimulationResults` has such a rocket, one simulation, one state of the undo
history, and the actions of the user interface on them. While the rocket is
frozen (`moveFrozen()`, a drop in the component tree) a change draws new
modification ids at once, but numbers, map and configurations are updated by
`Thaw`. An id is a pair of its configuration and a number, of which any that
nobody holds may be drawn, since ids are only compared for equality. Motors are
a choice in `GetStatus`. Every stage carries components, for an empty one is
inactive whatever its flag. `RemoveStageFails` is the path of `removeChild()` on
which a listener throws. `doubt` marks results for which the code is known to
answer wrongly (section 6, the three ways), and `UpToDateIsCurrent` does not speak
of them. A simulation of an opened file (`FromFile`) has the status `LOADED`, which counts
as up to date, with results of the design in the file; outdated ones, and those of an
aborted flight, which may be of another design, are never called up to date.

### FileReplacement, DesignWindows and DesignSession

`FileReplacement` has the directory as a function from names to entries, links
with the file behind them, and the local variables of `replaceThrough()` as `job`.
Every call of the file system that may fail has an action for its failure, or
leaves its result open where the code ignores the error.

`DesignWindows` adds the GUI thread as a stack of calls. A call at a question is in
an event loop: there an event of the platform pushes another call, and only the
call on top goes on. A window has its document (the design, whether it is saved,
its file), the images without a source and which of them the user left out;
`typing` is the edit in the configuration dialog that is not yet in the design.
`owed` is a history variable: the designs that a window or a file held and that
nobody agreed to lose. `Lose` takes a design from it where the user discards,
overwrites or confirms.

`DesignSession` adds opening, closing, quitting, reopening the last window, the
start and the restart after a crash, which keeps nothing but the disk and the
recent files.

## 3. Runs

| Run | Instance | Shows |
|---|---|---|
| `undo_design` | two designs, two descriptions, no simulation, 2 levels + margin 2, histories up to 5 | labels, the saved flag, purges and the work an undo keeps, over long histories of the design |
| `undo_simulations` | one design, up to two simulations, 1 level + margin 1, histories up to 3 | no redo while dirty, and the refinement of `UndoTimeline`, with loads into lists of the same and of another length |
| `undo_slots` | two designs, one simulation, slots and silent changes allowed | the clean test is right, and an undo keeps what it replaces within reach, whatever slots do during an undo and whatever changes unheard |
| `undo_silent` | two designs, up to two simulations, options of copies change unheard | a saved document has the content it was saved with, but for the settings of such copies |
| `undo_unpurged` | levels 1 + 1 | violation: finding 1 |
| `flight_staging` | a stack of three stages under eight configurations, steps of 1, 2 and 3, those up to 2 also past the next event, 12 time units | everything about branches, events and recovery, and that every flight ends |
| `flight_troubles` | a core with two strap-on boosters that burn out together; aborts, tumbling, exceptions, refused ignitions and separations | every stage flies in one branch also in flights that go wrong, and these end too |
| `flight_air_start` | the core lit by the burnout of both boosters | violation: finding 2 |
| `flight_thrust_curve` | the same, with points of the thrust curve | violation: finding 3 |
| `event_queue` | four events, two of them equal in the order, up to seven in the queue | the heap, its iterator and its refinement of `EventBag` |
| `simulation_results` | two core stages and a booster, up to three configurations, one simulation (new, or of the file), one state, up to two steps of a kind | stage map and configurations follow the tree, activeness is kept, up-to-date results are current |
| `design_session` | one design file, two windows, two edits, two requests of the platform, one crash, in seven worlds | no work is lost, no call uses a window that is gone, flags follow calls, files are replaced whole, every call ends |

### Bounds, and why they are enough

* Undo: the code tests whether a state is the first, the last, at or beyond the
  margin. With two levels and a margin of two (1 and 1 with simulations) a
  history passes each of these, is purged, and is purged again. `MaxModId` and
  `MaxHistory` are constraints: states beyond them are checked but not left.
  The values are symmetric, since the code only compares them.
* Flight: three stages give a booster that separates again. `MaxTime` is the
  program's own limit on a branch; 12 lets every event of the configurations
  happen before it. Two levels of altitude above ground give a climb, an apogee
  and a descent in every order, also repeatedly. The configurations are chosen
  such that each rule of ignition, separation and deployment of
  `FlightEventActivation.cpp` occurs.
* Queue: six is the least size at which a removal moves an event up past the
  iterator; seven fills the third level of the heap.

* Results: the undo history holds one state, taken and loaded (two steps of
  `history`). The six worlds of `MCSimulationResults` share the steps between tree,
  configuration and simulation: one of each; two of the configurations; two of the
  simulation with one of the configuration or the tree; two of the tree with one
  of the configuration; one of the tree and one of the simulation, from a simulation
  the file has with results or without. A wrong answer needs a run, a change and a question, or a
  state between them.
* Session: two windows are enough for a request to find another window than the
  one that asks; more windows than there are slots (`RoomFor`) are not opened. The
  worlds start with part of the bounds used up: an edit and a request; two
  requests where the application stays without a window; an edit and a crash; a
  design never saved; two images without a source; on Windows, a read-only file
  and a link to one. One image more would ask more questions of
  the same kind.

A check that a theorem of section 4 makes for every instance is not repeated in
every run: `CleanIsUnchanged` is checked in `undo_slots`, `StagesFlyOnce` in
`flight_troubles`, where exceptions leave the engine while branches wait.

Deadlock is checked in every run but two. `FlightEngine` has an action `Terminated`
for a simulation that is over. `simulation_results` ends when the steps are used
up. `design_session` may rest where the code does: without a window, when an exit
was asked that nobody heard (section 6), or when the bounds are used up.

### Fairness

`FairSpec` of `FlightEngine` assumes weak fairness of `Next` as a whole: the
engine is one loop on one thread that waits for nothing. `FlightEnds` rests on it
and on the maximum time, and on no listener refusing `APOGEE` (section 6).
`OperationsEnd` of `DesignSession` assumes weak fairness of the steps of the call on
top and of leaving the event loops: the user answers every question. An exit, and
the answers that begin another save, are bounded by what there is to ask, not by
fairness; nothing is assumed of requests, edits or the deletion of a closed window.
The undo history, the queue and the results are called by others and need none.

## 4. What is proved

All theorems hold for every value of the constants that satisfies the named
assumptions of the modules.

`UndoHistoryProofs`:

* `TypeInvariant`: `Spec => []TypeOK`, inductive as it stands. The lemmas state
  what `MarkPosition`, `LabelledStep`, `Undo` and `LoadSimulations` return.
* `CleanTestIsSound`: `Spec => []CleanIsUnchanged`. Inductive with `IdInvariant`:
  among the rocket and the rockets of the history, equal ids mean equal designs,
  and no id is above the last one drawn. This is why comparing ids may replace
  comparing rockets, whatever slots or silent changes do.
* `DirtyAtEndOfHistory`, `DirtyStepIsLabelled`: from `DirtyInvariant`: between
  undos, a dirty document is at the end of the history with its step labelled,
  and inside an undo the content that is not yet loaded is that of the state at
  the position. Assumption: every change is heard (`SilentSources = {}`); with
  the options of copies it fails, as the class comment of `OpenRocketDocument.h` says.
* `SavedContentButSilent`: `SavedButForSilent` for any `SilentSources` and any slots;
  `SavedContent` follows from it: where every change is heard, a saved document has
  the content it was saved with.
* `UndoneStaysReachable`: `UndoneIsReachable`, without an assumption: a clean document has
  the content of the state at the position (`CleanIsUnchanged`), and a dirty one is
  appended. `UndoLosesNothing`: where every change is heard, the appended state is
  the next one, from `DirtyInvariant`.
* `PurgesKeepLevels`: an action property, from the lemma on `MarkPosition`.
* `HistoryIsTimeline`: `ImplementsTimeline`, for histories of any length. A change of a
  clean document starts a step of the past and one that makes the document clean
  again takes that step back; a new position moves the present into the list and
  may purge; the first half of an undo or redo moves past, present and future, and
  loading the simulations stutters. It rests on `DirtyInvariant`, with the same
  assumption, and on `EventSlots = FALSE`: a slot that changes the document in the
  middle of an undo is a move the timeline does not have. The run
  `undo_simulations` checks it under these two values.

`FlightBranchesProofs`, about any system that splits and ends branches that way:

* `EveryStageFliesOnce`: `Spec => []StagesFlyOnce`. The list of branches, flying
  then ended, is a partition of the rocket; `SplitKeepsPartition` and
  `EndKeepsPartition` say that both operations keep it one.

`FlightEngineProofs`:

* `EngineStaysSound`: the strengthening `EngineInvariant` is inductive. `EventsAttached`
  is not by itself: a handler queues events at the stage of the event's motor or
  device, so one must also know that an event about a motor or a device comes from
  the stage of its item, and that a separation comes from a stage with one above
  it (`EngineEvents`). One lemma per handler, each on the lemmas that say what
  `Add`, `Kept`, `Poll` and the three triggers of `FlightEventActivation.cpp` keep.
* `EngineTyped`, `EventsStayAttached`: `TypeOK` and `EventsAttached` follow from it.
* `StagingSplitsOnly`: `FlightEngine` implements `FlightBranches`. Only a separation
  changes the stages of the branch in flight, and it splits them at the source of
  its event, which the branch carries by `EngineInvariant`; starting a branch moves
  the head of the stack to the status and so changes nothing in the list.
* `FlightStagesFlyOnce`: `StagesFlyOnce` of the engine, by instantiating
  `FlightBranchesProofs` with the refinement mapping.
* `WaitingMotorsKept`: `WaitingMotorsUntouched`, from both: the motor of an event is
  carried by the branch that handles it, and no other branch carries it.

`FlightEventsProofs`. All of these rest on `EngineInvariant` and on one lemma, `BranchesStep`:
a property of a status is kept in every branch if handling an event, refusing it, a
step and a copy keep it. Each theorem then has an invariant of its own that
relates the queue of a branch to its flags or to the shared motors.

* `FlightEventsHappenOnce`: `HappensOnce`. Apogee, the launch rod and the ground are
  queued only where their flag is not set, but nothing tests whether such an event
  is queued already. `OnceInvariant` says why there is none: it is due at once, so it
  is handled before the step that could queue another (`pc = "step"` implies an
  empty queue of these types).
* `FlightMotorEventsInOrder`: `MotorEventsInOrder`, from `MotorsInOrder`. The motors are
  shared, so that a waiting branch keeps it needs `FlightStagesFlyOnce`.
* `FlightDeploymentsRemembered`, `FlightSeparationsRemembered`,
  `FlightSeparationFirst`: `DeploymentsRemembered`, `SeparationsRemembered`, `SeparationFirst`,
  for every `Vetoed` without deployments or separations: a listener
  that refuses the event makes the code forget it, and there is nothing to remember.
  The last one rests on the order of the queue (`FirstEvent`): a
  deployment is delayed by at least a millisecond, so the separation queued with it
  comes first.
* `FlightDeploysOnce`: `DeploysOnce`. `OpenInvariant` compares every branch that flies,
  waits or has ended with every branch that is still to fly.

They need one assumption on the constants, `NoneAssumption`: the value for "no time
yet" is no time.

`EventQueueProofs`, for any events, any ranks (`RankAssumption`: they are numbers, of
which several events may have the same) and any `MaxSize`. What it rests on:

* The sifts. `SiftUpTarget`, `SiftDownPath` and `Heapified` are recursive functions;
  each exists and is described by a set of slots, by induction on sets of naturals
  (`AllNaturals`): a chain from a slot up to the root, and one down along the lesser
  children. `PlaceUpOrder` and `PlaceDownOrder`: a heap that is in order but for a gap is
  in order once the event is placed. `Copies` counts an event in a part of the array;
  placing an event only permutes slots, so `WithoutSlotFacts` can say that filling a gap
  with the last event keeps the order and loses just the event in the gap.
* `QueueInv`, inductive (`InvariantStep`): the heap is in order, and while an iterator
  is in use, of each event, those returned, those at or behind the cursor and those
  in `forgetMeNot` make up the ones at the start; so do those queued and those removed;
  and those removed, with the one that `remove()` would take, are at most those
  returned. The last part is what lets a removal by value, after the array has been
  walked through, take an equal event from any slot.

What follows:

* `QueueIsAHeap`: `Spec => []HeapOrder`.
* `QueueCopiesKeepTheArray`: `CopiesKeepTheArray`. In a heap nothing sinks or rises, so
  `Heapified` leaves every slot, and `FoldLeft(Offered, ...)`, unfolded from the greatest
  slot, appends each event where it was. Ties matter: a sift stops at an equal event.
* `QueueVisitsOnce`, `QueueRemovesReturned`: at the end of the iteration no slot
  is left ahead of the cursor and `forgetMeNot` is empty, so the counts are equal.
* `QueueImplementsBag`: `EventQueue` implements `EventBag`, with the bag of the events in
  the array. A poll takes the root, which no event comes before (`RootIsFirst`, by
  induction from each slot to its parent); iterating only stutters. This is what
  justifies that `FlightEngine` has a bag where the code has a heap.

`FileReplacementProofs`, about `FileReplacement` alone (`DesignSessionProofs` has it
for the session as a whole):

* `FileInvHolds`, `FileTypesHold`: the invariant `FileInv` is inductive. Between the
  creation of the temporary file and the rename the file is there, of a name that
  is no design file, and complete once it is written; what was found at the target
  is there until it is replaced.
* `ReplacementIsWhole`: it implements `DesignStore`. The one step that changes what
  reading a design file gives is the rename, and `FileInv` says what it brings.
* `ReplacesOnlyByRename`: `OnlyTheRenameReplaces`, from the same invariant.

`SimulationResultsProofs`:

* `ConfigurationsExist`: the default configuration and the selected one exist, in
  the rocket and in the state of the undo history. One lemma per operation on a
  rocket says that it keeps the set of configurations and the selection (`SameSet`);
  only adding, removing and loading change them.
* `SimulationsKeepTheirConfiguration`: from it. It is not inductive alone: a new
  simulation takes the selected configuration, which must therefore exist, and a
  load takes the set of the state.
* `ResultsAreKept`: `ResultsInvariant` is inductive, given `ConfigurationsExist`. None of
  the four properties below is inductive alone. Its parts:
  `FlightInvariant`, about the rocket: the tree is one, with the stages that `moveFrozen()`
  holds outside it; the stage map names stages of the tree, each by its number; the
  instances of a configuration are in the tree; a flag of a stage is what the user chose
  for it, and a stage without a flag was never made inactive; and, except within a
  frozen move (`Settled`), numbers, map, flags and instances are those of the tree;
  `IdsSound`, a modification id other than zero belongs to one configuration, and
  `ResultsAreDated`, results that count are those of the configuration with their id;
  and `SavedState`, the same for the rocket and the simulation of the undo state, which
  is what a load relies on.
* `ResultTypesHold`, `StagesAreFollowed`, `ActivenessStaysKept`: `TypeOK`,
  `ConfigurationsFollowTree`, `ActivenessIsKept`, from `FlightInvariant`.
* `UpToDateResultsAreCurrent`: `UpToDateIsCurrent`, from `IdsSound` and `ResultsAreDated`.
  Every change of stages or flags draws new ids for the configurations, so results of
  before stop counting; a load brings back ids together with the rocket they were drawn
  for. The proof does not need that the rocket is thawed.

The argument goes from the data up: the stages of a tree are each listed once (from
facts on `FlattenSeq`, `RemoveFirst` and `InsertAt`); numbering a list of distinct stages,
a fold that writes to map and numbers at once, gives each stage its place
(`Renumbered`); flags copied by number or by stage then agree with the choices; each
operation on a rocket (link, unlink, update, rebuild, copy, load) keeps the tree and the
flags; each action composes such operations. Assumptions: a flight configuration's id is a
UUID, so there are finitely many (`ConfigurationsAssumption`) and an id that none of the
configurations holds can be drawn; and a design is opened with a tree in which each
stage stands once, core stages below the rocket and boosters below those
(`InitialTreeAssumption`).

`DesignSessionProofs`, for any number of files, windows and nested calls:

* `SessionInvHolds`: `SessionInv` is inductive. Its parts:
  `FileInv`; `SessionTypes`;
  `StackSound`, what each call on the stack relies on when it goes on (its window, its
  file, the design that its save will replace);
  `LocksFollow` and `OpeningFollows`, the flags against the stack;
  `DocumentsSound`, a document that is saved, or has an unchanged base, holds no work that
  only it has;
  `WritingSound`, a file is written within a save only, for the file and with the design
  of that save;
  and `WorkIsKept` itself.
  The hard part is that a call at a question is on the stack while others run: the
  lemma `WaitingSurvives` says which changes of documents, files and windows leave what
  a waiting call relies on alone, and every step of the call on top makes only such
  changes. A call whose window may be closed above it (a save at a question) does not rely
  on it until it has looked again; a close does, and may, since its window is marked
  and is not closed twice.
* `SessionTypesHold`, `WorkStaysKept`: `TypeOK` and `WorkIsKept` follow.
* `CallsHaveTheirWindows`: `WindowsOutliveTheirCalls`, from `StackSound`.
* `FlagsAreRight`: `FlagsFollowCalls`. A guard against a second close, quit or reopen is a
  lock held by one call (`LockCount`); the flag of the opening files nests, and each call restores
  what it found.
* `SessionImplementsStore`, `SessionReplacesByRename`: every step of the session is a step
  of `FileReplacement` or leaves the files alone (`SessionReplaces`: `Spec => FileSpec`), so both
  theorems of `FileReplacementProofs` hold of it.

The bound of the edits, `MaxWork`, is any natural number (`WorkBound`). A list of windows or
of recent files holds each at most once, so removing a member is `RemoveFirst` of
`SequencesExt` in the model.

Every invariant and action property of the passing runs is a theorem. Only model-checked:
liveness (`FlightEnds`, `OperationsEnd`), which is beyond the prover. The theorems of the
library that take an operator as a parameter cannot be used, so an induction over the
naturals is done on a set of naturals, from the least number outside it. `FoldLeft` over a
sequence can be unfolded slot by slot that way, as `EventQueueProofs` does; for
`FlattenSeq`, `SimulationResultsProofs` shows in this way that the recursive function it
is defined by exists.

## 5. Findings

1. `undo_unpurged`: `addUndoPosition()` returns before the purge when the document
   is clean, and `undo()` appends a state without one: an edit, its undo and its
   redo in turn add a level each time. `OpenRocketDocument.h` says that the
   history is purged once it exceeds `kUndoLevels` by the margin.
2. `flight_air_start`: two ignitions of a motor at the same instant are both
   carried out, against "Ignore all after the first": the guard compares with
   `<`. The motor gets two burnouts and two charges.
3. `flight_thrust_curve`: the altitude events that are to bound the steps at the
   points of a thrust curve are queued at times that count from the ignition, as
   if they counted from launch.

## 6. Observations

Behaviour met while modelling that no document speaks about:

* An undo or redo that changes the number of simulations fills the list with copies
  whose options emit nothing, as the class comment of `OpenRocketDocument.h` says.
  Beyond what it says: the redo states stay after such a change, and a redo loses it.
* A listener that refuses `APOGEE` keeps the flag unset; on the ground the event
  is then queued again in a step of no duration, for ever. No listener of the
  repository refuses events, and no run has it.
* A separation copies the set of deployed devices, so the booster and the upper
  part each count the other's devices as their own.
* `NO_MOTORS_FIRED` aborts a branch only after a last step: the abort is queued
  when no event is due any more.
* Events that are still queued when a branch lands are waited for on the ground.

About results (`SimulationResults`; the first three are the `doubt` of the model):

* A new configuration has the modification id zero, and after an undo or redo every
  configuration but the default has it again. Results made under the id zero stay
  up to date when the simulation is given another configuration with the id zero.
* `cloneForUndo()` copies the status as it is stored, and only `getStatus()` refreshes
  it. A state taken after a change about which nobody asked holds results marked up
  to date, and `loadFrom()` gives them the id of now.
* The default configuration keeps its own stage flags over undo and redo, so results
  restored for it may be of other active stages.
* Options that differ only in the geodetic computation, the use of the standard
  atmosphere or the launch into the wind compare equal, so results stay up to date.
* `getStatus()` says `ABORTED` of results with an abort event whatever else holds: an
  aborted simulation stays `ABORTED`, not outdated, after changes of the design.
* A run that failed is recorded as up to date, with no data. A status `CANT_RUN` is
  left only by the next run, also when there are motors again.
* `FlightConfiguration.h` says its derived data is stale only while events are
  disabled; it is stale while the rocket is frozen too.

About the application (`DesignSession`):

* `exitRequested()`, emitted while `ApplicationSession` is constructed (a quit during a
  question of the start), comes before `gui/main.cpp` connects it and is lost; the
  application then runs without a window.
* Each try of a save consumes the user's decision to leave out the images before the
  one it stops at, so n images without a source ask up to 2^n - 1 questions in one
  save; a decision left over from a save that failed leaves an image out of a later
  save without a question.
* Save as does not look whether another window has the file, and a file opened
  within its own open gives two windows. Whether a file exists is asked before
  questions in which another request may create it.
* While no window is open, an open from the menu does not set `m_openingFiles`, so an
  activation during its question opens a new design.

## 7. Not modelled, and why

In the modelled components: warnings, the events recorded in the flight data, the
coast time optimum (a nested simulation of its own), listener hooks that add
events or replace calculations; several aborts for "no mass" within one step
count as one; the decals and imports of an undo state; the modification counts of
the queue, which only report misuse. The maximum altitude of a branch starts
below every altitude. Of the rocket: components other than stages, overrides of
mass and drag, the structure checks; of a configuration: motors, names and the
geometry caches; of the results: other simulations of the document, extensions
(shared by reference with the undo states), copies for other rockets, and two paths
nothing leads to: the status `EXTERNAL` (`SingleSimulationHandler` makes every status of a
file with data `LOADED` or `OUTDATED`) and the error id (`setFlightConfigurationId()`
refuses it). Of a save: `fireDocumentSavingEvent()`, to which the application connects
no slot, and the way of RockSim and RASAero files to save as, since only the file type
`OPENROCKET` is ever set. Of the
application: the examples menu, the preferences dialog, the internal error dialog,
attachments.

In the rest of the system: numerical code (integration, aerodynamics, mass,
geometry) is out of TLC's reach and is tested against golden values in `tests/`;
parsers and writers are sequential conversions; the remaining GUI is presentation
on top of the operations modelled here. These make up most of the lines of the
repository, so the models cover a small share of it by line count.

## 8. Plan

Done: `UndoTimeline`, `UndoHistory` with its proofs; `FlightBranches`, `FlightEngine`
with their proofs; `EventBag`, `EventQueue` with its proofs; `DesignStore`, `FileReplacement`,
`DesignWindows`, `DesignSession` with their proofs; `FlightConfigurations`, `SimulationResults`
with its proofs.

What could follow:

1. `DecalRegistry` with the images an undo state keeps, and the extensions shared
   between a simulation and the undo states.
2. The per-configuration overrides of components (ignition, separation, deployment)
   with the set of configurations, and motors in `FlightConfigurations`.
3. The batch of configuration editing (`FlightConfigurationEditing.cpp`), whose
   dialogs run event loops as those of the session do.
4. The three gaps of `UpToDateIsCurrent` (section 6), should the code close them: the
   property then holds without `doubt`.
