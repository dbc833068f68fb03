----------------------------- MODULE UndoHistory -----------------------------
(***************************************************************************)
(* The undo history and the saved flag of a document:                      *)
(* src/src/document/OpenRocketDocument.cpp, with the parts of              *)
(* rocket/Rocket.cpp and simulation/Simulation.cpp it calls.               *)
(*                                                                         *)
(* The design of the rocket is one value, `design`, that travels with the  *)
(* rocket's modification id.  A simulation has the settings that           *)
(* Simulation::operator== compares (`settings`), the results it ignores    *)
(* (`results`) and whether a change of its options emits changed()         *)
(* (`heard`): the simulations an undo or redo makes with cloneForUndo()    *)
(* lack that connection.  The document's own modification id is compared   *)
(* only with the id of the last save, so two flags stand for the two ids:  *)
(* `modified` (m_modId is valid) and `saved` (m_modId == m_savedId).       *)
(*                                                                         *)
(* undo() and redo() take two steps: the first loads the rocket and        *)
(* delivers its event, whose slots may change the document, the second     *)
(* loads the simulations from the state that is at the position then.      *)
(***************************************************************************)
EXTENDS Naturals, Sequences

CONSTANTS
  Designs,        \* the designs a rocket may have
  Settings,       \* the settings of a simulation that operator== compares
  Results,        \* its status and results, which operator== ignores
  Descriptions,   \* the texts of undo steps
  NoDescription,  \* nullopt
  UndoLevels,     \* kUndoLevels
  UndoMargin,     \* kUndoMargin
  MaxSimulations, \* the most simulations the list holds
  SilentSources,  \* which changes of a simulation without an event are made
  EventSlots      \* whether slots of the rocket's undo event change the document

ASSUME LevelsAssumption      == UndoLevels \in Nat \ {0} /\ UndoMargin \in Nat \ {0}
ASSUME SimulationsAssumption == MaxSimulations \in Nat
ASSUME DescriptionAssumption == NoDescription \notin Descriptions
ASSUME SilentAssumption      == SilentSources \subseteq {"options", "extensions"}
ASSUME SlotsAssumption       == EventSlots \in BOOLEAN

VARIABLES
  rocket,            \* m_rocket: its modification id and design
  sims,              \* m_simulations
  history,           \* m_undoHistory
  position,          \* m_undoPosition, counted from 1
  nextDescription,   \* m_nextDescription
  storedDescription, \* m_storedDescription
  inUndoRedo,        \* m_inUndoRedo and m_busyDepth > 0: a state is being loaded
  lastModId,         \* the last modification id a rocket drew
  modified,          \* m_modId is not ModId::invalid()
  saved,             \* m_modId == m_savedId
  savedContent       \* history variable: the content at the last save

undoVars  == <<history, position, nextDescription, storedDescription>>
savedVars == <<modified, saved, savedContent>>
vars      == <<rocket, sims, undoVars, inUndoRedo, lastModId, savedVars>>
-----------------------------------------------------------------------------
Labels     == Descriptions \cup {NoDescription}
RocketType == [modId : Nat, design : Designs]
SimType    == [settings : Settings, results : Results, heard : BOOLEAN]
CopyType   == [settings : Settings, results : Results]
StateType  == [rocket : RocketType, sims : Seq(CopyType), label : Labels]

\* cloneForUndo() of every simulation: a copy of a simulation emits nothing.
Copies(list) ==
  [i \in 1..Len(list) |-> [settings |-> list[i].settings, results |-> list[i].results]]

\* What a user would lose: the design, and the simulations but for their results.
SettingsOf(list) == [i \in 1..Len(list) |-> list[i].settings]
Content          == <<rocket.design, SettingsOf(sims)>>
ContentOf(state) == <<state.rocket.design, SettingsOf(state.sims)>>

CurrentState == [rocket |-> rocket, sims |-> Copies(sims), label |-> NoDescription]
HistoryTop   == history[position]

\* Mutant: the clean test forgets the simulations.
IsCleanByRocket == rocket.modId = HistoryTop.rocket.modId

IsClean ==
  /\ rocket.modId = HistoryTop.rocket.modId
  /\ SettingsOf(sims) = SettingsOf(HistoryTop.sims)

IsUndoAvailable == position > 1 \/ ~IsClean
IsRedoAvailable == position < Len(history)

WithoutRedo(states) == SubSeq(states, 1, position)

\* Mutants: a change keeps the redo states; a change leaves the step unlabelled.
LabelledStepWithRedo == [history EXCEPT ![position].label = nextDescription]
UnlabelledStep       == WithoutRedo(history)

\* A change that makes an undo step drops the redo states and labels the state
\* it leads away from.
LabelledStep ==
  [WithoutRedo(history) EXCEPT ![position].label = nextDescription]

\* ModId{}: the document is not as it was saved any more.
TouchDocument ==
  /\ modified' = TRUE
  /\ saved' = FALSE
  /\ UNCHANGED savedContent
-----------------------------------------------------------------------------
Init ==
  /\ \E d \in Designs : rocket = [modId |-> 1, design |-> d]
  /\ sims = << >>
  /\ history = <<CurrentState>>
  /\ position = 1
  /\ nextDescription = NoDescription
  /\ storedDescription = NoDescription
  /\ inUndoRedo = FALSE
  /\ lastModId = 1
  /\ modified = FALSE
  /\ saved = TRUE
  /\ savedContent = Content
-----------------------------------------------------------------------------
(* The undo positions. *)

\* Mutants: the position is not moved along with a purge; the history is purged
\* a state too early.
MarkPositionUnmoved(description) ==
  /\ nextDescription' = description
  /\ IF IsClean
       THEN UNCHANGED <<history, position>>
       ELSE LET grown  == Append(WithoutRedo(history), CurrentState)
                excess == IF Len(grown) > UndoLevels + UndoMargin THEN UndoMargin ELSE 0
            IN  /\ history' = SubSeq(grown, excess + 1, Len(grown))
                /\ position' = position + 1

MarkPositionEarly(description) ==
  /\ nextDescription' = description
  /\ IF IsClean
       THEN UNCHANGED <<history, position>>
       ELSE LET grown  == Append(WithoutRedo(history), CurrentState)
                excess == IF Len(grown) >= UndoLevels + UndoMargin THEN UndoMargin ELSE 0
            IN  /\ history' = SubSeq(grown, excess + 1, Len(grown))
                /\ position' = (position + 1) - excess

\* addUndoPosition(): what startUndo() and stopUndo() call too.
MarkPosition(description) ==
  /\ nextDescription' = description
  /\ IF IsClean
       THEN UNCHANGED <<history, position>>
       ELSE LET grown == Append(WithoutRedo(history), CurrentState)
                excess == IF /\ Len(grown) > UndoLevels + UndoMargin
                             /\ position > UndoMargin
                            THEN UndoMargin ELSE 0
            IN  /\ history' = SubSeq(grown, excess + 1, Len(grown))
                /\ position' = (position + 1) - excess

AddUndoPosition(description) ==
  /\ MarkPosition(description)
  /\ UNCHANGED <<rocket, sims, storedDescription, inUndoRedo, lastModId, savedVars>>

StartUndo(description) ==
  /\ MarkPosition(description)
  /\ storedDescription' = nextDescription
  /\ UNCHANGED <<rocket, sims, inUndoRedo, lastModId, savedVars>>

StopUndo ==
  /\ MarkPosition(storedDescription)
  /\ storedDescription' = NoDescription
  /\ UNCHANGED <<rocket, sims, inUndoRedo, lastModId, savedVars>>

ClearUndo ==
  /\ history' = <<CurrentState>>
  /\ position' = 1
  /\ UNCHANGED <<rocket, sims, nextDescription, storedDescription, inUndoRedo,
                 lastModId, savedVars>>
-----------------------------------------------------------------------------
(* Changes of the document. *)

\* Mutant: the rocket keeps its modification id.
FireRocketChangeSameId(design) ==
  /\ lastModId' = lastModId + 1
  /\ rocket' = [modId |-> rocket.modId, design |-> design]

\* The event of a component: the rocket draws its modification id before the
\* document hears of the change.
FireRocketChange(design) ==
  /\ lastModId' = lastModId + 1
  /\ rocket' = [modId |-> lastModId + 1, design |-> design]

RocketChanged(design) ==
  /\ FireRocketChange(design)
  /\ history' = LabelledStep
  /\ TouchDocument
  /\ UNCHANGED <<sims, position, nextDescription, storedDescription, inUndoRedo>>

\* Mutant: a change counts only where it changes the undo step.
SimulationChangedQuietly(i) ==
  /\ IF SettingsOf(sims') # SettingsOf(HistoryTop.sims)
       THEN history' = LabelledStep /\ TouchDocument
       ELSE UNCHANGED <<history, savedVars>>
  /\ UNCHANGED <<rocket, position, nextDescription, storedDescription, inUndoRedo,
                 lastModId>>

\* simulationChanged(), once the list of simulations is sims'.
SimulationChanged(i) ==
  /\ TouchDocument
  /\ history' =
       IF inUndoRedo
         THEN history
       ELSE IF SettingsOf(sims') # SettingsOf(HistoryTop.sims)
         THEN LabelledStep
       ELSE IF rocket.modId = HistoryTop.rocket.modId
         THEN [history EXCEPT ![position].sims[i] = Copies(sims')[i]]
       ELSE history
  /\ UNCHANGED <<rocket, position, nextDescription, storedDescription, inUndoRedo,
                 lastModId>>

\* A setter of the simulation, or of the options of a simulation that is heard.
ChangeSettings(i, s) ==
  /\ sims[i].settings # s
  /\ sims' = [sims EXCEPT ![i].settings = s]
  /\ SimulationChanged(i)

\* A run, a new status or a new plot appearance.
ChangeResults(i, r) ==
  /\ sims[i].results # r
  /\ sims' = [sims EXCEPT ![i].results = r]
  /\ SimulationChanged(i)

\* The extension list changes without an event, and so do the options of a
\* simulation that an undo or redo made.
MayChangeSilently(i) ==
  \/ "extensions" \in SilentSources
  \/ "options" \in SilentSources /\ ~sims[i].heard

ChangeSilently(i, s) ==
  /\ MayChangeSilently(i)
  /\ sims[i].settings # s
  /\ sims' = [sims EXCEPT ![i].settings = s]
  /\ UNCHANGED <<rocket, undoVars, inUndoRedo, lastModId, savedVars>>

\* simulationsChanged(): the list holds other simulations.
SimulationsChanged ==
  /\ history' = LabelledStep
  /\ TouchDocument
  /\ UNCHANGED <<position, nextDescription, storedDescription, inUndoRedo>>

\* With the flight configuration of the simulation, when the rocket lacks it.
AddSimulation(n, s, r, createConfiguration) ==
  /\ Len(sims) < MaxSimulations
  /\ sims' = SubSeq(sims, 1, n)
               \o <<[settings |-> s, results |-> r, heard |-> TRUE]>>
               \o SubSeq(sims, n + 1, Len(sims))
  /\ IF createConfiguration
       THEN \E d \in Designs : FireRocketChange(d)
       ELSE UNCHANGED <<rocket, lastModId>>
  /\ SimulationsChanged

\* By index, or (n = 0) the removal of a simulation the list does not hold.
RemoveSimulation(n) ==
  /\ sims' = SubSeq(sims, 1, n - 1) \o SubSeq(sims, n + 1, Len(sims))
  /\ SimulationsChanged
  /\ UNCHANGED <<rocket, lastModId>>

RemoveUnlisted ==
  /\ SimulationsChanged
  /\ UNCHANGED <<rocket, sims, lastModId>>

PreferencesChanged ==
  /\ TouchDocument
  /\ UNCHANGED <<rocket, sims, undoVars, inUndoRedo, lastModId>>

SetSaved(save) ==
  /\ saved' = (save \/ ~modified)
  /\ savedContent' = IF save THEN Content ELSE savedContent
  /\ UNCHANGED <<rocket, sims, undoVars, inUndoRedo, lastModId, modified>>
-----------------------------------------------------------------------------
(* Undo and redo. *)

\* Mutants: an undo does not count as a change; the state left is loaded again.
LoadRocketUntouched ==
  /\ inUndoRedo' = TRUE
  /\ rocket' = history'[position'].rocket
  /\ UNCHANGED <<sims, nextDescription, storedDescription, lastModId, savedVars>>

LoadRocketBeforeMove ==
  /\ inUndoRedo' = TRUE
  /\ rocket' = history'[position].rocket
  /\ TouchDocument
  /\ UNCHANGED <<sims, nextDescription, storedDescription, lastModId>>

\* The first half of loadStateAtPosition(): the rocket takes the state's
\* modification id, and its event is an undo change.
LoadRocket ==
  /\ inUndoRedo' = TRUE
  /\ rocket' = history'[position'].rocket
  /\ TouchDocument
  /\ UNCHANGED <<sims, nextDescription, storedDescription, lastModId>>

\* Mutant: undo() does not keep the state it leaves.
UndoWithoutCopy ==
  /\ ~inUndoRedo
  /\ IsUndoAvailable
  /\ position' = IF IsClean THEN position - 1 ELSE position
  /\ UNCHANGED history
  /\ LoadRocket

Undo ==
  /\ ~inUndoRedo
  /\ IsUndoAvailable
  /\ IF IsClean
       THEN position' = position - 1 /\ UNCHANGED history
       ELSE history' = Append(history, CurrentState) /\ UNCHANGED position
  /\ LoadRocket

Redo ==
  /\ ~inUndoRedo
  /\ IsRedoAvailable
  /\ position' = position + 1
  /\ UNCHANGED history
  /\ LoadRocket

\* Mutant: the list keeps its length.
LoadSimulationsInPlace ==
  /\ inUndoRedo
  /\ inUndoRedo' = FALSE
  /\ sims' = [i \in 1..Len(sims) |->
                IF i > Len(HistoryTop.sims) THEN sims[i]
                ELSE [settings |-> HistoryTop.sims[i].settings,
                      results |-> HistoryTop.sims[i].results, heard |-> sims[i].heard]]
  /\ UNCHANGED <<rocket, undoVars, lastModId, savedVars>>

\* The second half: the simulations one by one when their number is the same,
\* else new ones, whose options nobody hears.
LoadSimulations ==
  LET copies == HistoryTop.sims
      sameNumber == Len(sims) = Len(copies)
  IN  /\ inUndoRedo
      /\ inUndoRedo' = FALSE
      /\ sims' = [i \in 1..Len(copies) |->
                    [settings |-> copies[i].settings, results |-> copies[i].results,
                     heard |-> sameNumber /\ sims[i].heard]]
      /\ UNCHANGED <<rocket, undoVars, lastModId, savedVars>>
-----------------------------------------------------------------------------
UndoCalls ==
  \/ \E d \in Descriptions : AddUndoPosition(d) \/ StartUndo(d)
  \/ StopUndo
  \/ ClearUndo

SimulationCalls ==
  \/ \E i \in 1..Len(sims) : \E s \in Settings : ChangeSettings(i, s) \/ ChangeSilently(i, s)
  \/ \E i \in 1..Len(sims) : \E r \in Results : ChangeResults(i, r)
  \/ \E n \in 0..Len(sims), s \in Settings, r \in Results, b \in BOOLEAN :
        AddSimulation(n, s, r, b)
  \/ \E n \in 1..Len(sims) : RemoveSimulation(n)
  \/ RemoveUnlisted

\* What the program does between undo() and redo(), and what a slot of the
\* rocket's event may do within one.
Calls ==
  \/ UndoCalls
  \/ \E d \in Designs : RocketChanged(d)
  \/ SimulationCalls
  \/ PreferencesChanged

Next ==
  \/ (inUndoRedo => EventSlots) /\ Calls
  \/ ~inUndoRedo /\ \E save \in BOOLEAN : SetSaved(save)
  \/ Undo
  \/ Redo
  \/ LoadSimulations

Spec == Init /\ [][Next]_vars
-----------------------------------------------------------------------------
(* Properties. *)

TypeOK ==
  /\ rocket \in RocketType
  /\ sims \in Seq(SimType)
  /\ history \in Seq(StateType)
  /\ position \in 1..Len(history)
  /\ nextDescription \in Labels
  /\ storedDescription \in Labels
  /\ inUndoRedo \in BOOLEAN
  /\ lastModId \in Nat
  /\ modified \in BOOLEAN
  /\ saved \in BOOLEAN
  /\ savedContent \in Designs \X Seq(Settings)

\* The clean test compares modification ids in place of rockets: where it says
\* clean (isCleanState()), the document has the content of the state at the
\* position, so leaving that state without a copy loses nothing.
CleanIsUnchanged == IsClean => Content = ContentOf(HistoryTop)

\* "undo position inconsistency" (checkUndoPositionConsistency(), undo()) is
\* never reported: a dirty document is at the end of its history.
NoRedoWhileDirty == ~inUndoRedo /\ ~IsClean => position = Len(history)

\* The step that undo would take back carries the description given for it by
\* the last addUndoPosition() before it (setLatestDescription()).
StepIsLabelled == ~inUndoRedo /\ ~IsClean => HistoryTop.label = nextDescription

\* undo() loses no work: the content it replaces is what redo() would bring back.
UndoKeepsWork ==
  [][(~inUndoRedo /\ inUndoRedo' /\ position' <= position)
       => /\ position' < Len(history')
          /\ ContentOf(history'[position' + 1]) = Content]_vars

\* The same whatever changed without an event: redo still leads to the content
\* that undo() replaces, though behind states of another past ("undo position
\* inconsistency", which the code reports and goes on from).
UndoneIsReachable ==
  [][(~inUndoRedo /\ inUndoRedo' /\ position' <= position)
       => \E k \in (position' + 1)..Len(history') : ContentOf(history'[k]) = Content]_vars

\* maintainMaximumUndoSize() never leaves fewer than kUndoLevels steps to undo (a
\* margin of one moves the position back by as much as the new state moves it on):
\* the position goes back only by an undo, by clearUndo() or to above kUndoLevels.
PurgeKeepsLevels ==
  [][position' < position
       => \/ ~inUndoRedo /\ inUndoRedo'
          \/ history' = <<CurrentState>>
          \/ position' > UndoLevels]_vars

\* isSaved(): a document that is said to be saved has the content it was saved
\* with, whatever was changed, undone and redone since.
SavedIsUnchanged == saved => Content = savedContent

\* "such a change is noticed only with the next event" (the class comment of
\* OpenRocketDocument): what the saved flag misses is the settings of simulations
\* that may change without an event, and nothing else.
SavedButForSilent ==
  saved => /\ rocket.design = savedContent[1]
           /\ Len(sims) = Len(savedContent[2])
           /\ \A i \in 1..Len(sims) :
                 sims[i].settings = savedContent[2][i] \/ MayChangeSilently(i)

\* kUndoMargin: "once the number of undo levels exceeds kUndoLevels by this
\* amount, the undo history is purged".  A redo counts too, so one step more is
\* allowed before the next addUndoPosition().
LevelsArePurged == position - 1 <= UndoLevels + UndoMargin + 1

\* The timeline that undo and redo promise: the state at the position is behind
\* a dirty document and is the present of a clean one.
Loaded == inUndoRedo \/ IsClean
Timeline == INSTANCE UndoTimeline WITH
  Contents <- Designs \X Seq(Settings),
  past     <- [k \in 1..(IF Loaded THEN position - 1 ELSE position) |-> ContentOf(history[k])],
  present  <- IF inUndoRedo THEN ContentOf(HistoryTop) ELSE Content,
  future   <- IF Loaded
                THEN [k \in 1..(Len(history) - position) |-> ContentOf(history[position + k])]
                ELSE << >>
ImplementsTimeline == Timeline!Spec
=============================================================================
