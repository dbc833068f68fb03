-------------------------- MODULE UndoHistoryProofs --------------------------
(* What TLAPS proves about UndoHistory, for every value of its constants. *)
EXTENDS UndoHistory, SequenceTheorems, TLAPS

-----------------------------------------------------------------------------
(* The operators the actions are built from. *)

\* A function on 1..n is a sequence of length n.
LEMMA FunctionIsSeq ==
  ASSUME NEW S, NEW n \in Nat, NEW f \in [1..n -> S]
  PROVE  f \in Seq(S) /\ Len(f) = n
<1>1. f \in Seq(S)
  BY SeqDef
<1>2. DOMAIN f = 1..Len(f) /\ Len(f) \in Nat
  BY <1>1, LenProperties
<1>3. 1..n = 1..Len(f)
  BY <1>2
<1>4. Len(f) = n
  BY <1>2, <1>3
<1> QED
  BY <1>1, <1>4

\* SettingsOf() of a list of simulations or of copies.
LEMMA SettingsOfType ==
  ASSUME NEW T, \A t \in T : t.settings \in Settings, NEW list \in Seq(T)
  PROVE  SettingsOf(list) \in Seq(Settings) /\ Len(SettingsOf(list)) = Len(list)
<1>1. Len(list) \in Nat /\ \A i \in 1..Len(list) : list[i] \in T
  BY LenProperties, ElementOfSeq
<1>2. SettingsOf(list) \in [1..Len(list) -> Settings]
  BY <1>1 DEF SettingsOf
<1> QED
  BY <1>1, <1>2, FunctionIsSeq

\* cloneForUndo() keeps the settings of every simulation.
LEMMA CopiesFacts ==
  ASSUME NEW list \in Seq(SimType)
  PROVE  /\ Copies(list) \in Seq(CopyType)
         /\ Len(Copies(list)) = Len(list)
         /\ SettingsOf(Copies(list)) = SettingsOf(list)
<1>1. Len(list) \in Nat /\ \A i \in 1..Len(list) : list[i] \in SimType
  BY LenProperties, ElementOfSeq
<1>2. Copies(list) \in [1..Len(list) -> CopyType]
  BY <1>1 DEF Copies, SimType, CopyType
<1>3. Copies(list) \in Seq(CopyType) /\ Len(Copies(list)) = Len(list)
  BY <1>1, <1>2, FunctionIsSeq
<1>4. SettingsOf(Copies(list)) = SettingsOf(list)
  BY <1>1, <1>3 DEF SettingsOf, Copies
<1> QED
  BY <1>3, <1>4

\* currentState() is a state with the content of the document.
LEMMA CurrentStateFacts ==
  ASSUME TypeOK
  PROVE  /\ CurrentState \in StateType
         /\ CurrentState.rocket = rocket
         /\ SettingsOf(CurrentState.sims) = SettingsOf(sims)
         /\ ContentOf(CurrentState) = Content
         /\ Content \in Designs \X Seq(Settings)
<1>1. /\ Copies(sims) \in Seq(CopyType)
      /\ SettingsOf(Copies(sims)) = SettingsOf(sims)
  BY CopiesFacts DEF TypeOK
<1>2. SettingsOf(sims) \in Seq(Settings)
  BY SettingsOfType DEF TypeOK, SimType
<1> QED
  BY <1>1, <1>2 DEF TypeOK, CurrentState, StateType, ContentOf, Content, Labels, RocketType

\* removeRedoInfo() keeps the states up to the position.
LEMMA WithoutRedoFacts ==
  ASSUME TypeOK
  PROVE  /\ WithoutRedo(history) \in Seq(StateType)
         /\ Len(WithoutRedo(history)) = position
         /\ \A k \in 1..position : WithoutRedo(history)[k] = history[k]
<1>1. /\ history \in Seq(StateType) /\ Len(history) \in Nat
      /\ position \in 1..Len(history) /\ position \in Int
  BY LenProperties DEF TypeOK
<1>2. \A k \in 1..position : history[k] \in StateType
  BY <1>1, ElementOfSeq
<1> QED
  BY <1>1, <1>2, SubSeqProperties DEF WithoutRedo

\* A labelled step ends the history at the position and changes its label only.
LEMMA LabelledStepFacts ==
  ASSUME TypeOK
  PROVE  /\ LabelledStep \in Seq(StateType)
         /\ Len(LabelledStep) = position
         /\ \A k \in 1..position : /\ LabelledStep[k].rocket = history[k].rocket
                                   /\ LabelledStep[k].sims = history[k].sims
         /\ LabelledStep[position].label = nextDescription
<1> DEFINE kept  == WithoutRedo(history)
           state == [kept[position] EXCEPT !.label = nextDescription]
<1>1. /\ kept \in Seq(StateType) /\ Len(kept) = position
      /\ position \in 1..Len(kept)
      /\ \A k \in 1..position : kept[k] = history[k]
      /\ \A k \in 1..position : kept[k] \in StateType
  <2>1. position \in 1..position
    BY LenProperties DEF TypeOK
  <2> QED
    BY <2>1, WithoutRedoFacts, ElementOfSeq
<1>2. state \in StateType /\ state.label = nextDescription
      /\ state.rocket = kept[position].rocket /\ state.sims = kept[position].sims
  BY <1>1 DEF StateType, TypeOK
<1>3. LabelledStep = [kept EXCEPT ![position] = state]
  BY DEF LabelledStep
<1> HIDE DEF kept, state
<1>4. /\ [kept EXCEPT ![position] = state] \in Seq(StateType)
      /\ Len([kept EXCEPT ![position] = state]) = Len(kept)
      /\ \A k \in 1..Len(kept) :
            [kept EXCEPT ![position] = state][k] = IF k = position THEN state ELSE kept[k]
  BY <1>1, <1>2, ExceptSeq
<1> QED
  BY <1>1, <1>2, <1>3, <1>4

\* addUndoPosition() leaves a clean document's history alone; else the current
\* state becomes the last one, and a purge takes away the oldest states only.
LEMMA MarkPositionFacts ==
  ASSUME TypeOK, NEW d \in Labels, MarkPosition(d)
  PROVE  /\ history' \in Seq(StateType)
         /\ position' \in 1..Len(history')
         /\ nextDescription' \in Labels
         /\ IsClean => history' = history /\ position' = position
         /\ ~IsClean => /\ position' = Len(history')
                        /\ history'[position'] = CurrentState
         /\ \A k \in 1..Len(history') :
               \/ history'[k] = CurrentState
               \/ \E j \in 1..Len(history) : history'[k] = history[j]
         /\ position' < position => position' > UndoLevels
<1>1. CASE IsClean
  <2>1. history' = history /\ position' = position /\ nextDescription' = d
    BY <1>1 DEF MarkPosition
  <2>2. position \in Int
    BY LenProperties DEF TypeOK
  <2> QED
    BY <1>1, <2>1, <2>2 DEF TypeOK
<1>2. CASE ~IsClean
  <2> DEFINE grown  == Append(WithoutRedo(history), CurrentState)
             excess == IF /\ Len(grown) > UndoLevels + UndoMargin
                          /\ position > UndoMargin
                         THEN UndoMargin ELSE 0
  <2>1. /\ position \in Nat \ {0} /\ Len(history) \in Nat /\ position <= Len(history)
        /\ UndoLevels \in Nat \ {0} /\ UndoMargin \in Nat \ {0}
    BY LenProperties, LevelsAssumption DEF TypeOK
  <2>2. /\ grown \in Seq(StateType) /\ Len(grown) = position + 1
        /\ \A k \in 1..position : grown[k] = history[k]
        /\ grown[position + 1] = CurrentState
    BY WithoutRedoFacts, CurrentStateFacts, AppendProperties
  <2>3. /\ history' = SubSeq(grown, excess + 1, Len(grown))
        /\ position' = (position + 1) - excess
        /\ nextDescription' = d
    BY <1>2 DEF MarkPosition
  <2>4. \A k \in 1..(position + 1) : grown[k] \in StateType
    BY <2>1, <2>2, ElementOfSeq
  <2>5. /\ excess \in Nat /\ excess <= position
        /\ excess # 0 => position + 1 > UndoLevels + UndoMargin /\ excess = UndoMargin
    BY <2>1, <2>2
  <2> HIDE DEF grown, excess
  <2>6. /\ history' \in Seq(StateType)
        /\ Len(history') = (position + 1) - excess
        /\ \A k \in 1..((position + 1) - excess) : history'[k] = grown[excess + k]
    <3>1. /\ SubSeq(grown, excess + 1, position + 1) \in Seq(StateType)
          /\ Len(SubSeq(grown, excess + 1, position + 1)) =
                IF excess + 1 <= position + 1 THEN (position + 1) - (excess + 1) + 1 ELSE 0
          /\ \A k \in 1..((position + 1) - (excess + 1) + 1) :
                SubSeq(grown, excess + 1, position + 1)[k] = grown[(excess + 1) + k - 1]
      BY <2>1, <2>4, <2>5, SubSeqProperties
    <3>2. (IF excess + 1 <= position + 1 THEN (position + 1) - (excess + 1) + 1 ELSE 0)
            = (position + 1) - excess
      BY ONLY <2>1, <2>5
    <3>3. /\ (position + 1) - (excess + 1) + 1 = (position + 1) - excess
          /\ \A k \in 1..((position + 1) - excess) : (excess + 1) + k - 1 = excess + k
      BY ONLY <2>1, <2>5
    <3>4. history' = SubSeq(grown, excess + 1, position + 1)
      BY <2>2, <2>3
    <3>5. Len(history') = (position + 1) - excess
      BY <3>1, <3>2, <3>4
    <3>6. \A k \in 1..((position + 1) - excess) : history'[k] = grown[excess + k]
      BY ONLY <3>1, <3>3, <3>4
    <3> QED
      BY <3>1, <3>4, <3>5, <3>6
  <2>7. position' = Len(history') /\ position' \in 1..Len(history')
    <3>1. (position + 1) - excess \in 1..((position + 1) - excess)
      BY ONLY <2>1, <2>5
    <3> QED
      BY <2>3, <2>6, <3>1
  <2>8. history'[position'] = CurrentState
    <3> DEFINE last == (position + 1) - excess
    <3>1. last \in 1..last /\ excess + last = position + 1
      BY <2>1, <2>5
    <3>2. history'[last] = grown[excess + last]
      BY <2>6, <3>1
    <3> QED
      BY <2>2, <2>3, <3>1, <3>2
  <2>9. ASSUME NEW k \in 1..Len(history')
        PROVE  \/ history'[k] = CurrentState
               \/ \E j \in 1..Len(history) : history'[k] = history[j]
    <3>1. CASE excess + k = position + 1
      BY <2>1, <2>2, <2>5, <2>6, <3>1
    <3>2. CASE excess + k # position + 1
      <4>1. excess + k \in 1..position /\ excess + k \in 1..Len(history)
        BY <2>1, <2>5, <2>6, <3>2
      <4> QED
        BY <2>2, <2>6, <4>1
    <3> QED
      BY <3>1, <3>2
  <2>10. position' < position => position' > UndoLevels
    BY <2>1, <2>3, <2>5
  <2> QED
    BY <1>2, <2>3, <2>6, <2>7, <2>8, <2>9, <2>10
<1> QED
  BY <1>1, <1>2

\* Append() keeps the states and the new one is the last.
LEMMA UndoFacts ==
  ASSUME TypeOK, Undo
  PROVE  /\ history' \in Seq(StateType)
         /\ position' \in 1..Len(history')
         /\ history'[position'].rocket = rocket'
         /\ \A k \in 1..Len(history') :
               \/ history'[k] = CurrentState
               \/ \E j \in 1..Len(history) : history'[k] = history[j]
<1>1. /\ history \in Seq(StateType) /\ Len(history) \in Nat
      /\ position \in 1..Len(history) /\ position \in Int
  BY LenProperties DEF TypeOK
<1>2. rocket' = history'[position'].rocket
  BY DEF Undo, LoadRocket
<1>3. CASE IsClean
  <2>1. position' = position - 1 /\ history' = history /\ position > 1
    BY <1>3 DEF Undo, IsUndoAvailable
  <2> QED
    BY <1>1, <1>2, <2>1
<1>4. CASE ~IsClean
  <2>1. position' = position /\ history' = Append(history, CurrentState)
    BY <1>4 DEF Undo
  <2>2. /\ Append(history, CurrentState) \in Seq(StateType)
        /\ Len(Append(history, CurrentState)) = Len(history) + 1
        /\ \A k \in 1..Len(history) : Append(history, CurrentState)[k] = history[k]
        /\ Append(history, CurrentState)[Len(history) + 1] = CurrentState
    BY <1>1, CurrentStateFacts, AppendProperties
  <2>3. ASSUME NEW k \in 1..Len(history')
        PROVE  \/ history'[k] = CurrentState
               \/ \E j \in 1..Len(history) : history'[k] = history[j]
    <3>1. k \in 1..Len(history) \/ k = Len(history) + 1
      BY <1>1, <2>1, <2>2
    <3> QED
      BY <2>1, <2>2, <3>1
  <2> QED
    BY <1>1, <1>2, <2>1, <2>2, <2>3
<1> QED
  BY <1>3, <1>4

-----------------------------------------------------------------------------
(* Types. *)

\* Every variable keeps its type, and the position stays inside the history.
THEOREM TypeInvariant == Spec => []TypeOK
<1>1. Init => TypeOK
  <2> SUFFICES ASSUME Init PROVE TypeOK
    OBVIOUS
  <2>1. rocket \in RocketType
    BY DEF Init, RocketType
  <2>2. sims = << >> /\ sims \in Seq(SimType)
    BY EmptySeq DEF Init
  <2>3. /\ Copies(sims) \in Seq(CopyType)
        /\ SettingsOf(sims) \in Seq(Settings)
    BY <2>2, CopiesFacts, SettingsOfType DEF SimType
  <2>4. CurrentState \in StateType
    BY <2>1, <2>3 DEF CurrentState, StateType, Labels
  <2>5. history \in Seq(StateType) /\ Len(history) = 1 /\ position = 1
    BY <2>4 DEF Init
  <2>6. savedContent \in Designs \X Seq(Settings)
    BY <2>1, <2>3 DEF Init, Content, RocketType
  <2>7. position \in 1..Len(history)
    BY <2>5
  <2> QED
    BY <2>1, <2>2, <2>5, <2>6, <2>7 DEF Init, TypeOK, Labels
<1>2. TypeOK /\ [Next]_vars => TypeOK'
  <2> SUFFICES ASSUME TypeOK, [Next]_vars PROVE TypeOK'
    OBVIOUS
  <2>0. /\ history \in Seq(StateType) /\ Len(history) \in Nat
        /\ position \in 1..Len(history) /\ position \in Int
        /\ sims \in Seq(SimType) /\ Len(sims) \in Nat
    BY LenProperties DEF TypeOK
  <2>1. ASSUME NEW d \in Labels, MarkPosition(d),
               UNCHANGED <<rocket, sims, inUndoRedo, lastModId, savedVars>>,
               storedDescription' \in Labels
        PROVE  TypeOK'
    BY <2>1, MarkPositionFacts DEF TypeOK, savedVars, SimType, RocketType
  <2>2. CASE UndoCalls
    <3>1. ASSUME NEW d \in Descriptions, AddUndoPosition(d) PROVE TypeOK'
      BY <2>1, <3>1 DEF AddUndoPosition, TypeOK, Labels
    <3>2. ASSUME NEW d \in Descriptions, StartUndo(d) PROVE TypeOK'
      BY <2>1, <3>2 DEF StartUndo, TypeOK, Labels
    <3>3. CASE StopUndo
      BY <2>1, <3>3 DEF StopUndo, TypeOK, Labels
    <3>4. CASE ClearUndo
      BY <3>4, CurrentStateFacts DEF ClearUndo, TypeOK, savedVars
    <3> QED
      BY <2>2, <3>1, <3>2, <3>3, <3>4 DEF UndoCalls
  <2> DEFINE ChangeOK == /\ history' \in Seq(StateType) /\ Len(history') = position
                         /\ TouchDocument
                         /\ UNCHANGED <<position, nextDescription, storedDescription, inUndoRedo>>
  <2>3. ASSUME ChangeOK, rocket' \in RocketType, lastModId' \in Nat, sims' \in Seq(SimType)
        PROVE  TypeOK'
    <3>1. position' \in 1..Len(history')
      BY <2>0, <2>3
    <3> QED
      BY <2>3, <3>1 DEF TouchDocument, TypeOK
  <2>4. ASSUME NEW d \in Designs, RocketChanged(d) PROVE TypeOK'
    <3>1. ChangeOK
      BY <2>4, LabelledStepFacts DEF RocketChanged
    <3> QED
      BY <2>3, <2>4, <3>1 DEF RocketChanged, FireRocketChange, TypeOK, RocketType
  <2>5. CASE SimulationCalls
    <3>1. ASSUME NEW i \in 1..Len(sims), SimulationChanged(i), sims' \in Seq(SimType),
                 Len(sims') = Len(sims)
          PROVE  TypeOK'
      <4>1. history' \in Seq(StateType) /\ position \in 1..Len(history')
        <5>1. CASE history' = history \/ history' = LabelledStep
          BY <2>0, <5>1, LabelledStepFacts
        <5>2. CASE /\ SettingsOf(sims') = SettingsOf(HistoryTop.sims)
                   /\ history' = [history EXCEPT ![position].sims[i] = Copies(sims')[i]]
          <6>0. HistoryTop \in StateType
            BY <2>0, ElementOfSeq DEF HistoryTop
          <6>1. HistoryTop \in StateType /\ HistoryTop.sims \in Seq(CopyType)
            BY <6>0 DEF StateType
          <6>2. Len(HistoryTop.sims) = Len(sims')
            BY <3>1, <5>2, <6>1, SettingsOfType DEF SimType, CopyType
          <6>3. Copies(sims')[i] \in CopyType
            BY <3>1, CopiesFacts, ElementOfSeq
          <6>4. [HistoryTop.sims EXCEPT ![i] = Copies(sims')[i]] \in Seq(CopyType)
            BY <3>1, <6>1, <6>2, <6>3, ExceptSeq
          <6> DEFINE state == [HistoryTop EXCEPT !.sims = [HistoryTop.sims EXCEPT ![i] = Copies(sims')[i]]]
          <6>5. state \in StateType
            BY <6>1, <6>4 DEF StateType
          <6>6. history' = [history EXCEPT ![position] = state]
            BY <5>2 DEF HistoryTop
          <6> QED
            BY <2>0, <6>5, <6>6, ExceptSeq
        <5> QED
          BY <3>1, <5>1, <5>2 DEF SimulationChanged
      <4> QED
        BY <3>1, <4>1 DEF SimulationChanged, TouchDocument, TypeOK
    <3>2. ASSUME NEW i \in 1..Len(sims), NEW s \in Settings,
                 sims' = [sims EXCEPT ![i].settings = s]
          PROVE  sims' \in Seq(SimType) /\ Len(sims') = Len(sims)
      <4>1. sims[i] \in SimType
        BY <2>0, ElementOfSeq
      <4>2. [sims[i] EXCEPT !.settings = s] \in SimType
        BY <4>1 DEF SimType
      <4> QED
        BY <2>0, <3>2, <4>2, ExceptSeq
    <3>3. ASSUME NEW i \in 1..Len(sims), NEW r \in Results,
                 sims' = [sims EXCEPT ![i].results = r]
          PROVE  sims' \in Seq(SimType) /\ Len(sims') = Len(sims)
      <4>1. sims[i] \in SimType
        BY <2>0, ElementOfSeq
      <4>2. [sims[i] EXCEPT !.results = r] \in SimType
        BY <4>1 DEF SimType
      <4> QED
        BY <2>0, <3>3, <4>2, ExceptSeq
    <3>4. ASSUME NEW i \in 1..Len(sims), NEW s \in Settings, ChangeSettings(i, s)
          PROVE  TypeOK'
      BY <3>1, <3>2, <3>4 DEF ChangeSettings
    <3>5. ASSUME NEW i \in 1..Len(sims), NEW s \in Settings, ChangeSilently(i, s)
          PROVE  TypeOK'
      BY <3>2, <3>5 DEF ChangeSilently, TypeOK, undoVars, savedVars
    <3>6. ASSUME NEW i \in 1..Len(sims), NEW r \in Results, ChangeResults(i, r)
          PROVE  TypeOK'
      BY <3>1, <3>3, <3>6 DEF ChangeResults
    <3>7. ASSUME SimulationsChanged PROVE ChangeOK
      BY <3>7, LabelledStepFacts DEF SimulationsChanged
    <3>8. \A m, n \in Nat : (m >= 1 /\ n <= Len(sims)) => SubSeq(sims, m, n) \in Seq(SimType)
      BY <2>0, ElementOfSeq, SubSeqProperties
    <3>9. ASSUME NEW n \in 0..Len(sims), NEW s \in Settings, NEW r \in Results, NEW b \in BOOLEAN,
                 AddSimulation(n, s, r, b)
          PROVE  TypeOK'
      <4>1. <<[settings |-> s, results |-> r, heard |-> TRUE]>> \in Seq(SimType)
        BY DEF SimType
      <4>2. SubSeq(sims, 1, n) \in Seq(SimType) /\ SubSeq(sims, n + 1, Len(sims)) \in Seq(SimType)
        BY <2>0, <3>8
      <4>3. sims' \in Seq(SimType)
        BY <3>9, <4>1, <4>2, ConcatProperties DEF AddSimulation
      <4>4. rocket' \in RocketType /\ lastModId' \in Nat
        BY <3>9 DEF AddSimulation, FireRocketChange, TypeOK, RocketType
      <4> QED
        BY <2>3, <3>7, <3>9, <4>3, <4>4 DEF AddSimulation
    <3>10. ASSUME NEW n \in 1..Len(sims), RemoveSimulation(n)
           PROVE  TypeOK'
      <4>1. SubSeq(sims, 1, n - 1) \in Seq(SimType) /\ SubSeq(sims, n + 1, Len(sims)) \in Seq(SimType)
        BY <2>0, <3>8
      <4>2. sims' \in Seq(SimType)
        BY <3>10, <4>1, ConcatProperties DEF RemoveSimulation
      <4> QED
        BY <2>3, <3>7, <3>10, <4>2 DEF RemoveSimulation, TypeOK
    <3>11. CASE RemoveUnlisted
      BY <2>3, <3>7, <3>11 DEF RemoveUnlisted, TypeOK
    <3> QED
      BY <2>5, <3>4, <3>5, <3>6, <3>9, <3>10, <3>11 DEF SimulationCalls
  <2>6. CASE PreferencesChanged
    BY <2>6 DEF PreferencesChanged, TouchDocument, TypeOK, undoVars
  <2>7. ASSUME NEW save \in BOOLEAN, SetSaved(save) PROVE TypeOK'
    BY <2>7, CurrentStateFacts DEF SetSaved, TypeOK, undoVars
  <2>8. CASE Undo \/ Redo
    <3>1. /\ history' \in Seq(StateType) /\ position' \in 1..Len(history')
          /\ history'[position'].rocket = rocket'
      <4>1. CASE Redo
        BY <2>0, <4>1 DEF Redo, IsRedoAvailable, LoadRocket
      <4> QED
        BY <2>8, <4>1, UndoFacts
    <3>2. rocket' \in RocketType
      <4>1. history'[position'] \in StateType
        BY <3>1, ElementOfSeq
      <4> QED
        BY <3>1, <4>1 DEF StateType
    <3>3. LoadRocket
      BY <2>8 DEF Undo, Redo
    <3> QED
      BY <3>1, <3>2, <3>3 DEF LoadRocket, TouchDocument, TypeOK
  <2>9. CASE LoadSimulations
    <3>1. HistoryTop.sims \in Seq(CopyType) /\ Len(HistoryTop.sims) \in Nat
          /\ \A i \in 1..Len(HistoryTop.sims) : HistoryTop.sims[i] \in CopyType
      <4>1. HistoryTop \in StateType
        BY <2>0, ElementOfSeq DEF HistoryTop
      <4>2. HistoryTop.sims \in Seq(CopyType)
        BY <4>1 DEF StateType
      <4> QED
        BY <4>2, LenProperties, ElementOfSeq
    <3>2. \A i \in 1..Len(sims) : sims[i] \in SimType
      BY <2>0, ElementOfSeq
    <3>3. sims' \in [1..Len(HistoryTop.sims) -> SimType]
      BY <2>9, <3>1, <3>2 DEF LoadSimulations, SimType, CopyType
    <3>4. sims' \in Seq(SimType)
      BY <3>1, <3>3, FunctionIsSeq
    <3> QED
      BY <2>9, <3>4 DEF LoadSimulations, TypeOK, undoVars, savedVars
  <2>10. CASE UNCHANGED vars
    BY <2>10 DEF vars, undoVars, savedVars, TypeOK
  <2> QED
    BY <2>2, <2>4, <2>5, <2>6, <2>7, <2>8, <2>9, <2>10 DEF Next, Calls
<1> QED
  BY <1>1, <1>2, PTL DEF Spec

-----------------------------------------------------------------------------
(* Modification ids. *)

\* The rockets a modification id may be looked up in.
Versions == {rocket} \cup {history[k].rocket : k \in 1..Len(history)}

\* No id is used before it is drawn, and an id stands for one design.
IdInvariant ==
  /\ \A v \in Versions : v.modId <= lastModId
  /\ \A v, w \in Versions : v.modId = w.modId => v.design = w.design

\* A refreshed copy of a simulation changes no rocket, no label and, when the
\* settings agreed, no settings.
LEMMA RefreshFacts ==
  ASSUME TypeOK, NEW i \in 1..Len(sims), sims' \in Seq(SimType), Len(sims') = Len(sims),
         SettingsOf(sims') = SettingsOf(HistoryTop.sims),
         history' = [history EXCEPT ![position].sims[i] = Copies(sims')[i]]
  PROVE  /\ Len(history') = Len(history)
         /\ \A k \in 1..Len(history) : /\ history'[k].rocket = history[k].rocket
                                       /\ history'[k].label = history[k].label
         /\ SettingsOf(history'[position].sims) = SettingsOf(sims')
<1>1. history \in Seq(StateType) /\ Len(history) \in Nat /\ position \in 1..Len(history)
  BY LenProperties DEF TypeOK
<1>2. \A k \in 1..Len(history) : history[k] \in StateType
  BY <1>1, ElementOfSeq
<1>3. HistoryTop \in StateType /\ HistoryTop.sims \in Seq(CopyType)
  <2>1. HistoryTop \in StateType
    BY <1>1, <1>2 DEF HistoryTop
  <2> QED
    BY <2>1 DEF StateType
<1>4. Len(HistoryTop.sims) = Len(sims') /\ Len(sims') \in Nat
  <2>1. Len(SettingsOf(HistoryTop.sims)) = Len(HistoryTop.sims)
    BY <1>3, SettingsOfType DEF CopyType
  <2>2. Len(SettingsOf(sims')) = Len(sims')
    BY SettingsOfType DEF SimType
  <2> QED
    BY <2>1, <2>2, LenProperties
<1>5. /\ Copies(sims') \in Seq(CopyType) /\ Copies(sims')[i] \in CopyType
      /\ Copies(sims')[i].settings = sims'[i].settings
  <2>1. Copies(sims') \in Seq(CopyType) /\ Len(Copies(sims')) = Len(sims')
    BY CopiesFacts
  <2>2. Copies(sims')[i].settings = sims'[i].settings
    BY DEF Copies
  <2> QED
    BY <2>1, <2>2, ElementOfSeq
<1> DEFINE copies == [HistoryTop.sims EXCEPT ![i] = Copies(sims')[i]]
           state  == [HistoryTop EXCEPT !.sims = copies]
<1>6. /\ copies \in Seq(CopyType) /\ Len(copies) = Len(HistoryTop.sims)
      /\ \A j \in 1..Len(HistoryTop.sims) :
            copies[j] = IF j = i THEN Copies(sims')[i] ELSE HistoryTop.sims[j]
  BY <1>3, <1>4, <1>5, ExceptSeq
<1>7. \A j \in 1..Len(sims') : sims'[j].settings = HistoryTop.sims[j].settings
  <2> SUFFICES ASSUME NEW j \in 1..Len(sims')
               PROVE  sims'[j].settings = HistoryTop.sims[j].settings
    OBVIOUS
  <2>1. SettingsOf(sims')[j] = sims'[j].settings
    BY DEF SettingsOf
  <2>2. SettingsOf(HistoryTop.sims)[j] = HistoryTop.sims[j].settings
    BY <1>4 DEF SettingsOf
  <2> QED
    BY <2>1, <2>2
<1>8. SettingsOf(copies) = SettingsOf(sims')
  BY <1>4, <1>5, <1>6, <1>7 DEF SettingsOf
<1>9. /\ state \in StateType /\ state.sims = copies
      /\ state.rocket = HistoryTop.rocket /\ state.label = HistoryTop.label
  BY <1>3, <1>6 DEF StateType
<1>10. history' = [history EXCEPT ![position] = state]
  BY DEF HistoryTop
<1>11. /\ Len(history') = Len(history)
       /\ \A k \in 1..Len(history) : history'[k] = IF k = position THEN state ELSE history[k]
  <2>1. state \in StateType
    BY <1>9
  <2> HIDE DEF state
  <2>2. /\ Len([history EXCEPT ![position] = state]) = Len(history)
        /\ \A k \in 1..Len(history) :
              [history EXCEPT ![position] = state][k] = IF k = position THEN state ELSE history[k]
    BY <1>1, <2>1, ExceptSeq
  <2> QED
    BY <1>10, <2>2
<1> QED
  BY <1>1, <1>8, <1>9, <1>11 DEF HistoryTop

\* A change of one simulation keeps the number of simulations.
LEMMA ChangedSimulationFacts ==
  ASSUME TypeOK, NEW i \in 1..Len(sims),
         \/ \E s \in Settings : ChangeSettings(i, s)
         \/ \E r \in Results : ChangeResults(i, r)
  PROVE  sims' \in Seq(SimType) /\ Len(sims') = Len(sims) /\ SimulationChanged(i)
<1>1. sims \in Seq(SimType) /\ sims[i] \in SimType
  BY ElementOfSeq DEF TypeOK
<1>2. \A s \in Settings : [sims[i] EXCEPT !.settings = s] \in SimType
  BY <1>1 DEF SimType
<1>3. \A r \in Results : [sims[i] EXCEPT !.results = r] \in SimType
  BY <1>1 DEF SimType
<1>4. CASE \E s \in Settings : ChangeSettings(i, s)
  BY <1>1, <1>2, <1>4, ExceptSeq DEF ChangeSettings
<1>5. CASE \E r \in Results : ChangeResults(i, r)
  BY <1>1, <1>3, <1>5, ExceptSeq DEF ChangeResults
<1> QED
  BY <1>4, <1>5

\* What a step does to the rockets: the history holds the rockets it held and
\* the one that is left, and the rocket stays, draws a new id or is a state's.
LEMMA RocketsOfStep ==
  ASSUME TypeOK, [Next]_vars
  PROVE  /\ \A k \in 1..Len(history') :
               \/ history'[k].rocket = rocket
               \/ \E j \in 1..Len(history) : history'[k].rocket = history[j].rocket
         /\ \/ UNCHANGED <<rocket, lastModId>>
            \/ /\ lastModId' = lastModId + 1
               /\ rocket'.modId = lastModId'
            \/ /\ lastModId' = lastModId
               /\ \E k \in 1..Len(history') : rocket' = history'[k].rocket
<1> DEFINE Kept == \A k \in 1..Len(history') :
                      \/ history'[k].rocket = rocket
                      \/ \E j \in 1..Len(history) : history'[k].rocket = history[j].rocket
<1>1. /\ history \in Seq(StateType) /\ Len(history) \in Nat
      /\ position \in 1..Len(history) /\ position \in Int
  BY LenProperties DEF TypeOK
<1>2. CurrentState.rocket = rocket
  BY DEF CurrentState
<1>3. ASSUME history' = LabelledStep PROVE Kept
  BY <1>1, <1>3, LabelledStepFacts
<1>4. CASE UndoCalls
  <2>1. ASSUME NEW d \in Labels, MarkPosition(d) PROVE Kept
    BY <1>2, <2>1, MarkPositionFacts
  <2>2. CASE ClearUndo
    BY <1>2, <2>2 DEF ClearUndo
  <2> QED
    BY <1>4, <2>1, <2>2 DEF UndoCalls, AddUndoPosition, StartUndo, StopUndo, TypeOK, Labels
<1>5. ASSUME NEW d \in Designs, RocketChanged(d) PROVE Kept /\ lastModId' = lastModId + 1 /\ rocket'.modId = lastModId'
  BY <1>3, <1>5 DEF RocketChanged, FireRocketChange
<1>6. CASE SimulationCalls
  <2>1. ASSUME NEW i \in 1..Len(sims), \/ \E s \in Settings : ChangeSettings(i, s)
                                       \/ \E r \in Results : ChangeResults(i, r)
        PROVE  Kept /\ UNCHANGED <<rocket, lastModId>>
    <3>1. sims' \in Seq(SimType) /\ Len(sims') = Len(sims) /\ SimulationChanged(i)
      BY <2>1, ChangedSimulationFacts
    <3>2. CASE history' = history \/ history' = LabelledStep
      BY <1>3, <3>1, <3>2 DEF SimulationChanged
    <3>3. CASE /\ SettingsOf(sims') = SettingsOf(HistoryTop.sims)
               /\ history' = [history EXCEPT ![position].sims[i] = Copies(sims')[i]]
      BY <3>1, <3>3, RefreshFacts DEF SimulationChanged
    <3> QED
      BY <3>1, <3>2, <3>3 DEF SimulationChanged
  <2>2. ASSUME NEW i \in 1..Len(sims), NEW s \in Settings, ChangeSilently(i, s)
        PROVE  Kept /\ UNCHANGED <<rocket, lastModId>>
    BY <2>2 DEF ChangeSilently, undoVars
  <2>3. ASSUME SimulationsChanged PROVE Kept
    BY <1>3, <2>3 DEF SimulationsChanged
  <2>4. ASSUME NEW n, NEW s, NEW r, NEW b \in BOOLEAN, AddSimulation(n, s, r, b)
        PROVE  Kept /\ \/ UNCHANGED <<rocket, lastModId>>
                       \/ lastModId' = lastModId + 1 /\ rocket'.modId = lastModId'
    <3>1. Kept
      BY <2>3, <2>4 DEF AddSimulation
    <3>2. CASE b
      BY <2>4, <3>1, <3>2 DEF AddSimulation, FireRocketChange
    <3>3. CASE ~b
      BY <2>4, <3>1, <3>3 DEF AddSimulation
    <3> QED
      BY <3>2, <3>3
  <2>5. ASSUME NEW n, RemoveSimulation(n) PROVE Kept /\ UNCHANGED <<rocket, lastModId>>
    BY <2>3, <2>5 DEF RemoveSimulation
  <2>6. ASSUME RemoveUnlisted PROVE Kept /\ UNCHANGED <<rocket, lastModId>>
    BY <2>3, <2>6 DEF RemoveUnlisted
  <2> QED
    BY <1>6, <2>1, <2>2, <2>4, <2>5, <2>6 DEF SimulationCalls
<1>7. CASE Undo
  BY <1>2, <1>7, UndoFacts DEF Undo, LoadRocket
<1>8. CASE Redo
  BY <1>1, <1>8 DEF Redo, LoadRocket, IsRedoAvailable
<1>9. CASE \/ PreferencesChanged
           \/ \E save \in BOOLEAN : SetSaved(save)
           \/ LoadSimulations
           \/ UNCHANGED vars
  BY <1>9 DEF PreferencesChanged, SetSaved, LoadSimulations, vars, undoVars
<1>10. UndoCalls => UNCHANGED <<rocket, lastModId>>
  BY DEF UndoCalls, AddUndoPosition, StartUndo, StopUndo, ClearUndo
<1> QED
  BY <1>4, <1>5, <1>6, <1>7, <1>8, <1>9, <1>10 DEF Next, Calls

\* The clean test compares ids instead of designs, and loses nothing by it.
THEOREM CleanTestIsSound == Spec => []CleanIsUnchanged
<1>1. Init => IdInvariant
  BY DEF Init, IdInvariant, Versions, CurrentState
<1>2. TypeOK /\ IdInvariant /\ [Next]_vars => IdInvariant'
  <2> SUFFICES ASSUME TypeOK, IdInvariant, [Next]_vars PROVE IdInvariant'
    OBVIOUS
  <2> DEFINE Fresh == lastModId' = lastModId + 1 /\ rocket'.modId = lastModId'
  <2>0. lastModId \in Nat /\ \A v \in Versions : v \in RocketType
    <3>1. history \in Seq(StateType) /\ rocket \in RocketType /\ lastModId \in Nat
      BY DEF TypeOK
    <3>2. \A k \in 1..Len(history) : history[k] \in StateType
      BY <3>1, ElementOfSeq
    <3> QED
      BY <3>1, <3>2 DEF Versions, StateType
  <2>1. \A k \in 1..Len(history') : history'[k].rocket \in Versions
    BY RocketsOfStep DEF Versions
  <2>2. \/ rocket' \in Versions /\ lastModId' = lastModId
        \/ Fresh
    BY <2>1, RocketsOfStep DEF Versions
  <2>3. \A v \in Versions' : v \in Versions \/ (Fresh /\ v = rocket')
    BY <2>1, <2>2 DEF Versions
  <2>4. lastModId' = lastModId \/ lastModId' = lastModId + 1
    BY <2>2
  <2>5. ASSUME NEW v \in Versions' PROVE v.modId <= lastModId'
    BY <2>0, <2>3, <2>4, <2>5 DEF IdInvariant, RocketType
  <2>6. ASSUME NEW v \in Versions', NEW w \in Versions', v.modId = w.modId
        PROVE  v.design = w.design
    <3>1. CASE v \in Versions /\ w \in Versions
      BY <2>6, <3>1 DEF IdInvariant
    <3>2. ASSUME NEW x \in Versions, Fresh PROVE x.modId # rocket'.modId
      BY <2>0, <3>2 DEF IdInvariant, RocketType
    <3> QED
      BY <2>3, <2>6, <3>1, <3>2
  <2> QED
    BY <2>5, <2>6 DEF IdInvariant
<1>3. TypeOK /\ IdInvariant => CleanIsUnchanged
  <2> SUFFICES ASSUME TypeOK, IdInvariant, IsClean PROVE Content = ContentOf(HistoryTop)
    BY DEF CleanIsUnchanged
  <2>1. rocket \in Versions /\ HistoryTop.rocket \in Versions
    BY DEF Versions, HistoryTop, TypeOK
  <2>2. rocket.design = HistoryTop.rocket.design
    BY <2>1 DEF IdInvariant, IsClean
  <2> QED
    BY <2>2 DEF Content, ContentOf, IsClean
<1> QED
  BY <1>1, <1>2, <1>3, TypeInvariant, PTL DEF Spec

-----------------------------------------------------------------------------
(* The dirty document. *)

\* The last change dropped the redo states and labelled the step it belongs to.
Pending == position = Len(history) /\ HistoryTop.label = nextDescription

\* While a state is loaded the simulations are still to come, so only the rocket
\* tells whether a slot has changed the document.
DirtyInvariant ==
  /\ inUndoRedo => rocket.modId = HistoryTop.rocket.modId \/ Pending
  /\ ~inUndoRedo => IsClean \/ Pending

\* loadSimulationsFrom() leaves the simulations as the state has them.
LEMMA LoadSimulationsFacts ==
  ASSUME TypeOK, LoadSimulations
  PROVE  SettingsOf(sims') = SettingsOf(HistoryTop.sims)
<1>1. HistoryTop.sims \in Seq(CopyType)
  <2>1. HistoryTop \in StateType
    BY ElementOfSeq DEF HistoryTop, TypeOK
  <2> QED
    BY <2>1 DEF StateType
<1>2. Len(HistoryTop.sims) \in Nat
  BY <1>1, LenProperties
<1>3. sims' \in [1..Len(HistoryTop.sims) -> {sims'[i] : i \in 1..Len(HistoryTop.sims)}]
      /\ \A i \in 1..Len(HistoryTop.sims) : sims'[i].settings = HistoryTop.sims[i].settings
  BY <1>2 DEF LoadSimulations
<1>4. Len(sims') = Len(HistoryTop.sims)
  BY <1>2, <1>3, FunctionIsSeq
<1> QED
  BY <1>3, <1>4 DEF SettingsOf

\* What a step that is no undo or redo does to the dirty document.
LEMMA DirtyStep ==
  ASSUME SilentSources = {}, TypeOK, DirtyInvariant, [Next]_vars
  PROVE  DirtyInvariant'
<1>1. /\ history \in Seq(StateType) /\ Len(history) \in Nat
      /\ position \in 1..Len(history) /\ position \in Int
  BY LenProperties DEF TypeOK
<1>2. ASSUME HistoryTop' = CurrentState, UNCHANGED <<rocket, sims>> PROVE DirtyInvariant'
  <2>1. IsClean'
    BY <1>2, CurrentStateFacts DEF IsClean
  <2> QED
    BY <2>1 DEF DirtyInvariant, IsClean
<1>3. ASSUME history' = LabelledStep, UNCHANGED <<position, nextDescription>>
      PROVE  DirtyInvariant'
  BY <1>1, <1>3, LabelledStepFacts DEF DirtyInvariant, Pending, HistoryTop
<1>4. CASE UndoCalls
  <2>1. ASSUME NEW d \in Labels, MarkPosition(d), UNCHANGED <<rocket, sims, inUndoRedo>>
        PROVE  DirtyInvariant'
    <3>1. CASE IsClean
      <4>1. history' = history /\ position' = position
        BY <2>1, <3>1, MarkPositionFacts
      <4>2. HistoryTop' = HistoryTop
        BY <4>1 DEF HistoryTop
      <4>3. IsClean'
        BY <2>1, <3>1, <4>2 DEF IsClean
      <4> QED
        BY <4>3 DEF DirtyInvariant, IsClean
    <3>2. CASE ~IsClean
      BY <1>2, <2>1, <3>2, MarkPositionFacts DEF HistoryTop
    <3> QED
      BY <3>1, <3>2
  <2>2. CASE ClearUndo
    BY <1>2, <2>2 DEF ClearUndo, HistoryTop
  <2> QED
    BY <1>4, <2>1, <2>2 DEF UndoCalls, AddUndoPosition, StartUndo, StopUndo, TypeOK, Labels
<1>5. ASSUME NEW d \in Designs, RocketChanged(d) PROVE DirtyInvariant'
  BY <1>3, <1>5 DEF RocketChanged
<1>6. CASE SimulationCalls
  <2>1. ASSUME NEW i \in 1..Len(sims), \/ \E s \in Settings : ChangeSettings(i, s)
                                       \/ \E r \in Results : ChangeResults(i, r)
        PROVE  DirtyInvariant'
    <3>1. sims' \in Seq(SimType) /\ Len(sims') = Len(sims) /\ SimulationChanged(i)
      BY <2>1, ChangedSimulationFacts
    <3>2. UNCHANGED <<rocket, position, nextDescription, inUndoRedo>>
      BY <3>1 DEF SimulationChanged
    <3>3. CASE inUndoRedo
      BY <3>1, <3>2, <3>3 DEF SimulationChanged, DirtyInvariant, Pending, HistoryTop
    <3>4. CASE ~inUndoRedo /\ SettingsOf(sims') # SettingsOf(HistoryTop.sims)
      BY <1>3, <3>1, <3>2, <3>4 DEF SimulationChanged
    <3>5. CASE /\ ~inUndoRedo
               /\ SettingsOf(sims') = SettingsOf(HistoryTop.sims)
               /\ rocket.modId = HistoryTop.rocket.modId
      <4>1. history' = [history EXCEPT ![position].sims[i] = Copies(sims')[i]]
        BY <3>1, <3>5 DEF SimulationChanged
      <4>2. IsClean'
        BY <1>1, <3>1, <3>2, <3>5, <4>1, RefreshFacts DEF IsClean, HistoryTop
      <4> QED
        BY <3>2, <3>5, <4>2 DEF DirtyInvariant
    <3>6. CASE /\ ~inUndoRedo
               /\ SettingsOf(sims') = SettingsOf(HistoryTop.sims)
               /\ rocket.modId # HistoryTop.rocket.modId
      <4>1. history' = history
        BY <3>1, <3>6 DEF SimulationChanged
      <4>2. Pending
        BY <3>6 DEF DirtyInvariant, IsClean
      <4> QED
        BY <3>2, <3>6, <4>1, <4>2 DEF DirtyInvariant, Pending, HistoryTop
    <3> QED
      BY <3>3, <3>4, <3>5, <3>6
  <2>2. ASSUME NEW i, NEW s, ChangeSilently(i, s) PROVE FALSE
    BY <2>2 DEF ChangeSilently, MayChangeSilently
  <2>3. ASSUME SimulationsChanged PROVE DirtyInvariant'
    BY <1>3, <2>3 DEF SimulationsChanged
  <2> QED
    BY <1>6, <2>1, <2>2, <2>3 DEF SimulationCalls, AddSimulation, RemoveSimulation, RemoveUnlisted
<1>7. CASE Undo \/ Redo
  BY <1>7 DEF Undo, Redo, LoadRocket, DirtyInvariant, HistoryTop
<1>8. CASE LoadSimulations
  <2>1. /\ inUndoRedo /\ ~inUndoRedo'
        /\ UNCHANGED <<rocket, history, position, nextDescription>>
    BY <1>8 DEF LoadSimulations, undoVars
  <2>2. SettingsOf(sims') = SettingsOf(HistoryTop'.sims)
    BY <1>8, <2>1, LoadSimulationsFacts DEF HistoryTop
  <2> QED
    BY <2>1, <2>2 DEF DirtyInvariant, IsClean, Pending, HistoryTop
<1>9. CASE PreferencesChanged \/ (\E save \in BOOLEAN : SetSaved(save)) \/ UNCHANGED vars
  BY <1>9 DEF PreferencesChanged, SetSaved, vars, undoVars, DirtyInvariant, Pending,
              IsClean, HistoryTop
<1> QED
  BY <1>4, <1>5, <1>6, <1>7, <1>8, <1>9 DEF Next, Calls

LEMMA DirtyHolds ==
  ASSUME SilentSources = {}
  PROVE  Spec => []DirtyInvariant
<1>1. Init => DirtyInvariant
  <2> SUFFICES ASSUME Init PROVE DirtyInvariant
    OBVIOUS
  <2>1. sims = << >> /\ << >> \in Seq(SimType)
    BY EmptySeq DEF Init
  <2>2. HistoryTop = CurrentState /\ ~inUndoRedo
    BY DEF Init, HistoryTop
  <2>3. SettingsOf(CurrentState.sims) = SettingsOf(sims)
    BY <2>1, CopiesFacts DEF CurrentState
  <2> QED
    BY <2>2, <2>3 DEF DirtyInvariant, IsClean, CurrentState
<1>2. TypeOK /\ DirtyInvariant /\ [Next]_vars => DirtyInvariant'
  BY DirtyStep
<1> QED
  BY <1>1, <1>2, TypeInvariant, PTL DEF Spec

\* "undo position inconsistency" is never reported when every change is heard.
THEOREM DirtyAtEndOfHistory ==
  ASSUME SilentSources = {}
  PROVE  Spec => []NoRedoWhileDirty
<1>1. DirtyInvariant => NoRedoWhileDirty
  BY DEF DirtyInvariant, NoRedoWhileDirty, Pending
<1> QED
  BY <1>1, DirtyHolds, PTL

\* The menu names the step that undo takes back, when every change is heard.
THEOREM DirtyStepIsLabelled ==
  ASSUME SilentSources = {}
  PROVE  Spec => []StepIsLabelled
<1>1. DirtyInvariant => StepIsLabelled
  BY DEF DirtyInvariant, StepIsLabelled, Pending
<1> QED
  BY <1>1, DirtyHolds, PTL

-----------------------------------------------------------------------------
(* The saved document. *)

SavedInvariant ==
  /\ SavedButForSilent
  /\ inUndoRedo => ~saved
  /\ ~modified => saved

\* What the saved flag misses is settings that changed without an event.
THEOREM SavedContentButSilent == Spec => []SavedButForSilent
<1>1. ASSUME TypeOK, savedContent = Content PROVE SavedButForSilent
  <2>1. Len(SettingsOf(sims)) = Len(sims)
    <3>1. \A t \in SimType : t.settings \in Settings
      BY DEF SimType
    <3> QED
      BY <1>1, <3>1, SettingsOfType DEF TypeOK
  <2> QED
    BY <1>1, <2>1 DEF SavedButForSilent, Content, SettingsOf
<1>2. TypeOK /\ Init => SavedInvariant
  BY <1>1 DEF Init, SavedInvariant
<1>3. TypeOK /\ TypeOK' /\ SavedInvariant /\ [Next]_vars => SavedInvariant'
  <2> SUFFICES ASSUME TypeOK, TypeOK', SavedInvariant, [Next]_vars PROVE SavedInvariant'
    OBVIOUS
  <2>1. TouchDocument => SavedInvariant'
    BY DEF TouchDocument, SavedInvariant, SavedButForSilent
  <2>2. ASSUME UNCHANGED <<rocket, sims, inUndoRedo, savedVars>> PROVE SavedInvariant'
    BY <2>2 DEF SavedInvariant, SavedButForSilent, MayChangeSilently, savedVars
  <2>3. CASE UndoCalls
    BY <2>2, <2>3 DEF UndoCalls, AddUndoPosition, StartUndo, StopUndo, ClearUndo
  <2>4. ASSUME NEW d \in Designs, RocketChanged(d) PROVE SavedInvariant'
    BY <2>1, <2>4 DEF RocketChanged
  <2>5. CASE SimulationCalls
    <3>1. ASSUME NEW i \in 1..Len(sims), NEW s \in Settings, ChangeSilently(i, s)
          PROVE  SavedInvariant'
      <4>1. /\ sims' = [sims EXCEPT ![i].settings = s] /\ MayChangeSilently(i)
            /\ UNCHANGED <<rocket, inUndoRedo, modified, saved, savedContent>>
        BY <3>1 DEF ChangeSilently, savedVars
      <4>2. sims \in Seq(SimType) /\ Len(sims') = Len(sims)
        BY <4>1 DEF TypeOK
      <4>3. \A j \in 1..Len(sims) : sims'[j].heard = sims[j].heard
        BY <4>1, <4>2, ElementOfSeq DEF SimType
      <4>4. \A j \in 1..Len(sims) : j # i => sims'[j] = sims[j]
        BY <4>1, <4>2
      <4> QED
        BY <4>1, <4>2, <4>3, <4>4 DEF SavedInvariant, SavedButForSilent, MayChangeSilently
    <3> QED
      BY <2>1, <2>5, <3>1 DEF SimulationCalls, ChangeSettings, ChangeResults, SimulationChanged,
           AddSimulation, RemoveSimulation, RemoveUnlisted, SimulationsChanged
  <2>6. ASSUME NEW save \in BOOLEAN, SetSaved(save), ~inUndoRedo PROVE SavedInvariant'
    <3>1. CASE save
      <4>1. savedContent' = Content' /\ ~inUndoRedo' /\ saved'
        BY <2>6, <3>1 DEF SetSaved, Content
      <4>2. Len(SettingsOf(sims')) = Len(sims')
        <5>1. \A t \in SimType : t.settings \in Settings
          BY DEF SimType
        <5>2. sims' \in Seq(SimType)
          BY DEF TypeOK
        <5> QED
          BY <5>1, <5>2, SettingsOfType
      <4>3. SavedButForSilent'
        BY <4>1, <4>2 DEF SavedButForSilent, Content, SettingsOf
      <4> QED
        BY <4>1, <4>3 DEF SavedInvariant
    <3>2. CASE ~save
      BY <2>6, <3>2 DEF SetSaved, SavedInvariant, SavedButForSilent, MayChangeSilently, TypeOK,
                        undoVars
    <3> QED
      BY <3>1, <3>2
  <2>7. CASE LoadSimulations
    BY <2>7 DEF LoadSimulations, SavedInvariant, SavedButForSilent, savedVars
  <2>8. CASE UNCHANGED vars
    BY <2>2, <2>8 DEF vars
  <2> QED
    BY <2>1, <2>3, <2>4, <2>5, <2>6, <2>7, <2>8
    DEF Next, Calls, PreferencesChanged, Undo, Redo, LoadRocket
<1>4. SavedInvariant => SavedButForSilent
  BY DEF SavedInvariant
<1> QED
  BY <1>2, <1>3, <1>4, TypeInvariant, PTL DEF Spec

\* A document that is said to be saved has the content it was saved with, when
\* every change is heard.
THEOREM SavedContent ==
  ASSUME SilentSources = {}
  PROVE  Spec => []SavedIsUnchanged
<1>1. TypeOK /\ SavedButForSilent => SavedIsUnchanged
  <2> SUFFICES ASSUME TypeOK, SavedButForSilent, saved PROVE Content = savedContent
    BY DEF SavedIsUnchanged
  <2>1. /\ savedContent = <<savedContent[1], savedContent[2]>>
        /\ savedContent[2] \in Seq(Settings)
    BY DEF TypeOK
  <2>2. /\ rocket.design = savedContent[1] /\ Len(sims) = Len(savedContent[2])
        /\ \A i \in 1..Len(sims) : sims[i].settings = savedContent[2][i]
    BY DEF SavedButForSilent, MayChangeSilently
  <2>3. SettingsOf(sims) = savedContent[2]
    BY <2>1, <2>2 DEF SettingsOf
  <2> QED
    BY <2>1, <2>2, <2>3 DEF Content
<1> QED
  BY <1>1, SavedContentButSilent, TypeInvariant, PTL

-----------------------------------------------------------------------------
(* What a step may never do. *)

\* The steps that leave the position where it was or move it on are no purge.
THEOREM PurgesKeepLevels == Spec => PurgeKeepsLevels
<1> DEFINE Step == position' < position
                     => \/ ~inUndoRedo /\ inUndoRedo'
                        \/ history' = <<CurrentState>>
                        \/ position' > UndoLevels
<1>1. TypeOK /\ [Next]_vars => [Step]_vars
  <2> SUFFICES ASSUME TypeOK, Next PROVE Step
    OBVIOUS
  <2>1. position \in Nat
    BY LenProperties DEF TypeOK
  <2>2. position' = position => Step
    BY <2>1
  <2>3. CASE UndoCalls
    <3>1. ASSUME NEW d \in Labels, MarkPosition(d) PROVE Step
      BY <3>1, MarkPositionFacts
    <3>2. ClearUndo => Step
      BY DEF ClearUndo
    <3> QED
      BY <2>3, <3>1, <3>2 DEF UndoCalls, AddUndoPosition, StartUndo, StopUndo, TypeOK, Labels
  <2>4. CASE (\E d \in Designs : RocketChanged(d)) \/ SimulationCalls \/ PreferencesChanged
    <3>1. position' = position
      BY <2>4 DEF RocketChanged, SimulationCalls, ChangeSettings, ChangeResults, ChangeSilently,
           SimulationChanged, AddSimulation, RemoveSimulation, RemoveUnlisted,
           SimulationsChanged, PreferencesChanged, undoVars
    <3> QED
      BY <2>2, <3>1
  <2>5. CASE (\E save \in BOOLEAN : SetSaved(save)) \/ LoadSimulations
    BY <2>2, <2>5 DEF SetSaved, LoadSimulations, undoVars
  <2>6. CASE Undo \/ Redo
    BY <2>6 DEF Undo, Redo, LoadRocket
  <2> QED
    BY <2>3, <2>4, <2>5, <2>6 DEF Next, Calls
<1> QED
  BY <1>1, TypeInvariant, PTL DEF Spec, PurgeKeepsLevels

\* An undo is what enters a load without moving the position on.
LEMMA UndoStep ==
  ASSUME TypeOK, Next, ~inUndoRedo, inUndoRedo', position' <= position
  PROVE  Undo
<1>1. position \in Nat
  BY LenProperties DEF TypeOK
<1>2. UndoCalls => inUndoRedo' = inUndoRedo
  BY DEF UndoCalls, AddUndoPosition, StartUndo, StopUndo, ClearUndo
<1>3. SimulationCalls => inUndoRedo' = inUndoRedo
  BY DEF SimulationCalls, ChangeSettings, ChangeResults, ChangeSilently, SimulationChanged,
         AddSimulation, RemoveSimulation, RemoveUnlisted, SimulationsChanged
<1>4. \A d \in Designs : RocketChanged(d) => inUndoRedo' = inUndoRedo
  BY DEF RocketChanged
<1>5. PreferencesChanged \/ (\E save \in BOOLEAN : SetSaved(save)) => inUndoRedo' = inUndoRedo
  BY DEF PreferencesChanged, SetSaved
<1>6. ~LoadSimulations
  BY DEF LoadSimulations
<1>7. ~Redo
  BY <1>1 DEF Redo
<1> QED
  BY <1>2, <1>3, <1>4, <1>5, <1>6, <1>7 DEF Next, Calls

\* Where the content that undo() replaces is kept: at the next state of a clean
\* document, at the end of the history of a dirty one.
LEMMA UndoneContent ==
  ASSUME TypeOK, CleanIsUnchanged, Undo
  PROVE  /\ IsClean => /\ position' = position - 1 /\ history' = history
                       /\ ContentOf(history[position]) = Content
         /\ ~IsClean => /\ position' = position /\ Len(history') = Len(history) + 1
                        /\ ContentOf(history'[Len(history')]) = Content
<1>1. CASE IsClean
  BY <1>1 DEF Undo, CleanIsUnchanged, HistoryTop
<1>2. CASE ~IsClean
  <2>1. history \in Seq(StateType) /\ position' = position /\ history' = Append(history, CurrentState)
    BY <1>2 DEF Undo, TypeOK
  <2>2. /\ Len(history') = Len(history) + 1
        /\ history'[Len(history) + 1] = CurrentState
    BY <2>1, CurrentStateFacts, AppendProperties
  <2> QED
    BY <1>2, <2>1, <2>2, CurrentStateFacts
<1> QED
  BY <1>1, <1>2

\* undo() loses no work, when every change is heard.
THEOREM UndoLosesNothing ==
  ASSUME SilentSources = {}
  PROVE  Spec => UndoKeepsWork
<1> DEFINE Step == (~inUndoRedo /\ inUndoRedo' /\ position' <= position)
                     => /\ position' < Len(history')
                        /\ ContentOf(history'[position' + 1]) = Content
<1>1. TypeOK /\ CleanIsUnchanged /\ DirtyInvariant /\ [Next]_vars => [Step]_vars
  <2> SUFFICES ASSUME TypeOK, CleanIsUnchanged, DirtyInvariant, Next,
                      ~inUndoRedo, inUndoRedo', position' <= position
               PROVE  /\ position' < Len(history')
                      /\ ContentOf(history'[position' + 1]) = Content
    OBVIOUS
  <2>1. /\ Len(history) \in Nat /\ position \in Nat \ {0} /\ position <= Len(history)
    BY LenProperties DEF TypeOK
  <2>2. ~IsClean => position = Len(history)
    BY DEF DirtyInvariant, Pending
  <2> QED
    BY <2>1, <2>2, UndoStep, UndoneContent
<1> QED
  BY <1>1, TypeInvariant, CleanTestIsSound, DirtyHolds, PTL DEF Spec, UndoKeepsWork

\* undo() leaves no work out of the reach of redo(), also work that changed
\* without an event.
THEOREM UndoneStaysReachable == Spec => UndoneIsReachable
<1> DEFINE Step == (~inUndoRedo /\ inUndoRedo' /\ position' <= position)
                     => \E k \in (position' + 1)..Len(history') : ContentOf(history'[k]) = Content
<1>1. TypeOK /\ CleanIsUnchanged /\ [Next]_vars => [Step]_vars
  <2> SUFFICES ASSUME TypeOK, CleanIsUnchanged, Next,
                      ~inUndoRedo, inUndoRedo', position' <= position
               PROVE  \E k \in (position' + 1)..Len(history') : ContentOf(history'[k]) = Content
    OBVIOUS
  <2>1. /\ Len(history) \in Nat /\ position \in Nat \ {0} /\ position <= Len(history)
    BY LenProperties DEF TypeOK
  <2>2. CASE IsClean
    <3>1. position \in (position' + 1)..Len(history') /\ ContentOf(history'[position]) = Content
      BY <2>1, <2>2, UndoStep, UndoneContent
    <3> QED
      BY <3>1
  <2>3. CASE ~IsClean
    <3>1. /\ Len(history') \in (position' + 1)..Len(history')
          /\ ContentOf(history'[Len(history')]) = Content
      BY <2>1, <2>3, UndoStep, UndoneContent
    <3> QED
      BY <3>1
  <2> QED
    BY <2>2, <2>3
<1> QED
  BY <1>1, TypeInvariant, CleanTestIsSound, PTL DEF Spec, UndoneIsReachable

-----------------------------------------------------------------------------
(* The timeline. *)

\* What past, present and future are of, by their names.
ContentType == Designs \X Seq(Settings)
Undoable    == IF Loaded THEN position - 1 ELSE position
Redoable    == IF Loaded THEN Len(history) - position ELSE 0
Past        == [k \in 1..Undoable |-> ContentOf(history[k])]
Present     == IF inUndoRedo THEN ContentOf(HistoryTop) ELSE Content
Future      == IF Loaded
                 THEN [k \in 1..(Len(history) - position) |-> ContentOf(history[position + k])]
                 ELSE << >>

\* The steps of the timeline in these names.
LEMMA TimelineInNames ==
  /\ Timeline!Init <=> Past = << >> /\ Present \in ContentType /\ Future = << >>
  /\ Timeline!Change <=> /\ Past' \in {Past, Append(Past, Present)}
                         /\ Present' \in ContentType
                         /\ Future' = << >>
  /\ Timeline!TakeBack <=> /\ Past # << >>
                           /\ Past' = SubSeq(Past, 1, Len(Past) - 1)
                           /\ Present' = Past[Len(Past)]
                           /\ Future' = << >>
  /\ Timeline!Undo <=> /\ Past # << >>
                       /\ Past' = SubSeq(Past, 1, Len(Past) - 1)
                       /\ Present' = Past[Len(Past)]
                       /\ Future' = <<Present>> \o Future
  /\ Timeline!Redo <=> /\ Future # << >>
                       /\ Past' = Append(Past, Present)
                       /\ Present' = Head(Future)
                       /\ Future' = Tail(Future)
  /\ Timeline!Purge <=> /\ \E oldest \in 2..(Len(Past) + 1 - UndoLevels) :
                              Past' = SubSeq(Past, oldest, Len(Past))
                        /\ Present' = Present /\ Future' = Future
  /\ Timeline!Clear <=> Past' = << >> /\ Future' = << >> /\ Present' = Present
  /\ UNCHANGED Timeline!vars <=> Past' = Past /\ Present' = Present /\ Future' = Future
<1> USE DEF Past, Present, Future, Undoable, ContentType, Timeline!Front, Timeline!Last
<1>1. Timeline!Init <=> Past = << >> /\ Present \in ContentType /\ Future = << >>
  BY DEF Timeline!Init
<1>2. Timeline!Change <=> /\ Past' \in {Past, Append(Past, Present)}
                          /\ Present' \in ContentType
                          /\ Future' = << >>
  BY DEF Timeline!Change
<1>3. Timeline!TakeBack <=> /\ Past # << >>
                            /\ Past' = SubSeq(Past, 1, Len(Past) - 1)
                            /\ Present' = Past[Len(Past)]
                            /\ Future' = << >>
  BY DEF Timeline!TakeBack
<1>4. Timeline!Undo <=> /\ Past # << >>
                        /\ Past' = SubSeq(Past, 1, Len(Past) - 1)
                        /\ Present' = Past[Len(Past)]
                        /\ Future' = <<Present>> \o Future
  BY DEF Timeline!Undo
<1>5. Timeline!Redo <=> /\ Future # << >>
                        /\ Past' = Append(Past, Present)
                        /\ Present' = Head(Future)
                        /\ Future' = Tail(Future)
  BY DEF Timeline!Redo
<1>6. Timeline!Purge <=> /\ \E oldest \in 2..(Len(Past) + 1 - UndoLevels) :
                               Past' = SubSeq(Past, oldest, Len(Past))
                         /\ Present' = Present /\ Future' = Future
  BY DEF Timeline!Purge
<1>7. Timeline!Clear <=> Past' = << >> /\ Future' = << >> /\ Present' = Present
  BY DEF Timeline!Clear
<1>8. UNCHANGED Timeline!vars <=> Past' = Past /\ Present' = Present /\ Future' = Future
  BY DEF Timeline!vars
<1> QED
  BY <1>1, <1>2, <1>3, <1>4, <1>5, <1>6, <1>7, <1>8

\* How a sequence q comes from a sequence p in the steps of the timeline.
LEMMA AppendMove ==
  ASSUME NEW C, NEW p \in Seq(C), NEW q \in Seq(C), NEW c \in C,
         Len(q) = Len(p) + 1, \A k \in 1..Len(p) : q[k] = p[k], q[Len(p) + 1] = c
  PROVE  q = Append(p, c)
<1>1. Len(p) \in Nat
  BY LenProperties
<1>2. /\ Append(p, c) \in Seq(C) /\ Len(Append(p, c)) = Len(p) + 1
      /\ \A k \in 1..Len(p) : Append(p, c)[k] = p[k]
      /\ Append(p, c)[Len(p) + 1] = c
  BY AppendProperties
<1>3. \A k \in 1..Len(q) : q[k] = Append(p, c)[k]
  BY <1>1, <1>2
<1> QED
  BY <1>2, <1>3, SeqEqual

LEMMA PrependMove ==
  ASSUME NEW C, NEW p \in Seq(C), NEW q \in Seq(C), NEW c \in C,
         Len(q) = Len(p) + 1, \A k \in 1..Len(p) : q[k + 1] = p[k], q[1] = c
  PROVE  q = <<c>> \o p
<1>1. Len(p) \in Nat /\ <<c>> \in Seq(C) /\ Len(<<c>>) = 1 /\ <<c>>[1] = c
  BY LenProperties
<1>2. /\ <<c>> \o p \in Seq(C) /\ Len(<<c>> \o p) = 1 + Len(p)
      /\ \A k \in 1..(1 + Len(p)) : (<<c>> \o p)[k] = IF k <= 1 THEN <<c>>[k] ELSE p[k - 1]
  BY <1>1, ConcatProperties
<1>3. ASSUME NEW k \in 1..Len(q) PROVE q[k] = (<<c>> \o p)[k]
  <2>1. CASE k = 1
    BY <1>1, <1>2, <2>1
  <2>2. CASE k # 1
    <3>1. k - 1 \in 1..Len(p) /\ (k - 1) + 1 = k
      BY <1>1, <2>2
    <3>2. q[k] = p[k - 1]
      BY <3>1
    <3> QED
      BY <1>1, <1>2, <2>2, <3>1, <3>2
  <2> QED
    BY <2>1, <2>2
<1> QED
  BY <1>1, <1>2, <1>3, SeqEqual

LEMMA TailMove ==
  ASSUME NEW C, NEW p \in Seq(C), NEW q \in Seq(C), p # << >>,
         Len(q) = Len(p) - 1, \A k \in 1..Len(q) : q[k] = p[k + 1]
  PROVE  q = Tail(p)
<1>1. Tail(p) \in Seq(C) /\ Len(Tail(p)) = Len(p) - 1
  BY HeadTailProperties
<1>2. \A k \in 1..(Len(p) - 1) : Tail(p)[k] = p[k + 1]
  OBVIOUS
<1> QED
  BY <1>1, <1>2, SeqEqual

LEMMA SubSeqMove ==
  ASSUME NEW C, NEW p \in Seq(C), NEW q \in Seq(C),
         NEW m \in 1..(Len(p) + 1), NEW n \in 0..Len(p), m <= n + 1,
         Len(q) = n - m + 1, \A k \in 1..Len(q) : q[k] = p[m + k - 1]
  PROVE  q = SubSeq(p, m, n)
<1>1. Len(p) \in Nat /\ m \in Int /\ n \in Int
  BY LenProperties
<1>2. \A k \in m..n : p[k] \in C
  BY <1>1, ElementOfSeq
<1>3. /\ SubSeq(p, m, n) \in Seq(C)
      /\ Len(SubSeq(p, m, n)) = IF m <= n THEN n - m + 1 ELSE 0
      /\ \A k \in 1..(n - m + 1) : SubSeq(p, m, n)[k] = p[m + k - 1]
  BY <1>1, <1>2, SubSeqProperties
<1>4. Len(SubSeq(p, m, n)) = Len(q)
  BY <1>1, <1>3
<1>5. \A k \in 1..Len(q) : q[k] = SubSeq(p, m, n)[k]
  BY <1>3
<1> QED
  BY <1>3, <1>4, <1>5, SeqEqual

\* Past and future are sequences of contents.
TimelineTyped ==
  /\ history \in Seq(StateType) /\ Len(history) \in Nat
  /\ position \in Nat \ {0} /\ position <= Len(history)
  /\ \A k \in 1..Len(history) : ContentOf(history[k]) \in ContentType
  /\ Content \in ContentType /\ Present \in ContentType
  /\ Past \in Seq(ContentType) /\ Len(Past) = Undoable
  /\ \A k \in 1..Undoable : Past[k] = ContentOf(history[k])
  /\ Future \in Seq(ContentType) /\ Len(Future) = Redoable
  /\ \A k \in 1..Redoable : Future[k] = ContentOf(history[position + k])

LEMMA TimelineTypes == TypeOK => TimelineTyped
<1> SUFFICES ASSUME TypeOK PROVE TimelineTyped
  OBVIOUS
<1>1. /\ history \in Seq(StateType) /\ Len(history) \in Nat
      /\ position \in Nat \ {0} /\ position <= Len(history)
  BY LenProperties DEF TypeOK
<1>2. ASSUME NEW k \in 1..Len(history) PROVE ContentOf(history[k]) \in ContentType
  <2>1. history[k] \in StateType
    BY <1>1, ElementOfSeq
  <2>2. history[k].rocket.design \in Designs /\ history[k].sims \in Seq(CopyType)
    BY <2>1 DEF StateType, RocketType
  <2>3. SettingsOf(history[k].sims) \in Seq(Settings)
    BY <2>2, SettingsOfType DEF CopyType
  <2> QED
    BY <2>2, <2>3 DEF ContentOf, ContentType
<1>3. Content \in ContentType
  BY CurrentStateFacts DEF ContentType
<1>4. Present \in ContentType
  BY <1>1, <1>2, <1>3 DEF Present, HistoryTop
<1>5. Undoable \in Nat /\ Undoable <= Len(history)
  BY <1>1 DEF Undoable
<1>6. Past \in [1..Undoable -> ContentType] /\ \A k \in 1..Undoable : Past[k] = ContentOf(history[k])
  BY <1>1, <1>2, <1>5 DEF Past
<1>7. Past \in Seq(ContentType) /\ Len(Past) = Undoable
  BY <1>5, <1>6, FunctionIsSeq
<1>8. /\ Future \in Seq(ContentType) /\ Len(Future) = Redoable
      /\ \A k \in 1..Redoable : Future[k] = ContentOf(history[position + k])
  <2>1. CASE ~Loaded
    <3>1. Future = << >> /\ Redoable = 0
      BY <2>1 DEF Future, Redoable
    <3> QED
      BY <3>1, EmptySeq
  <2>2. CASE Loaded
    <3> DEFINE n == Len(history) - position
               f == [k \in 1..n |-> ContentOf(history[position + k])]
    <3>1. Redoable = n /\ n \in Nat /\ Future = f
      BY <1>1, <2>2 DEF Future, Redoable
    <3>2. \A k \in 1..n : position + k \in 1..Len(history)
      BY <1>1
    <3>3. f \in [1..n -> ContentType]
      BY <1>2, <3>2
    <3>4. \A k \in 1..n : f[k] = ContentOf(history[position + k])
      OBVIOUS
    <3> HIDE DEF n, f
    <3> QED
      BY <3>1, <3>3, <3>4, FunctionIsSeq
  <2> QED
    BY <2>1, <2>2
<1> QED
  BY <1>1, <1>2, <1>3, <1>4, <1>6, <1>7, <1>8 DEF TimelineTyped

LEMMA TimelineTypesNext == TypeOK' => TimelineTyped'
BY TimelineTypes, PTL

\* As sequences only, for the steps that compare them.
LEMMA TimelineIsSequences ==
  TypeOK => Past \in Seq(ContentType) /\ Future \in Seq(ContentType) /\ Present \in ContentType
BY TimelineTypes DEF TimelineTyped

LEMMA TimelineStaysSequences ==
  TypeOK' => Past' \in Seq(ContentType) /\ Future' \in Seq(ContentType) /\ Present' \in ContentType
BY TimelineTypesNext DEF TimelineTyped

\* Between undos every change is heard, and nothing runs while a state is loaded.
TimelineInvariant ==
  /\ TypeOK /\ CleanIsUnchanged /\ DirtyInvariant
  /\ inUndoRedo => rocket = HistoryTop.rocket

\* The same states, seen from the same position.
LEMMA SameTimeline ==
  ASSUME TypeOK, TypeOK', Loaded' = Loaded, position' = position, Len(history') = Len(history),
         \A k \in 1..Len(history) : ContentOf(history'[k]) = ContentOf(history[k]),
         Present' = Present
  PROVE  UNCHANGED Timeline!vars
<1>1. TimelineTyped /\ TimelineTyped'
  BY TimelineTypes, TimelineTypesNext
<1>2. Undoable' = Undoable /\ Redoable' = Redoable
  BY DEF Undoable, Redoable
<1>3. /\ \A k \in 1..Undoable : k \in 1..Len(history)
      /\ \A k \in 1..Redoable : position + k \in 1..Len(history)
  BY <1>1 DEF Undoable, Redoable, TimelineTyped
<1>4. Len(Past') = Len(Past) /\ \A k \in 1..Len(Past) : Past'[k] = Past[k]
  BY <1>1, <1>2, <1>3 DEF TimelineTyped
<1>5. Len(Future') = Len(Future) /\ \A k \in 1..Len(Future) : Future'[k] = Future[k]
  BY <1>1, <1>2, <1>3 DEF TimelineTyped
<1>6. Past \in Seq(ContentType) /\ Past' \in Seq(ContentType)
      /\ Future \in Seq(ContentType) /\ Future' \in Seq(ContentType)
  BY <1>1 DEF TimelineTyped, ContentType
<1>7. Past' = Past
  BY <1>4, <1>6, SeqEqual
<1>8. Future' = Future
  BY <1>5, <1>6, SeqEqual
<1> QED
  BY <1>7, <1>8, TimelineInNames

\* A change abandons what follows the position.  It starts a step when the
\* document was clean, and takes one back when it makes the document clean.
LEMMA ChangeOnTimeline ==
  ASSUME TimelineInvariant, TypeOK', CleanIsUnchanged', ~inUndoRedo, ~inUndoRedo',
         position' = position, Len(history') = position,
         \A k \in 1..position : ContentOf(history'[k]) = ContentOf(history[k])
  PROVE  Timeline!Change \/ Timeline!TakeBack
<1>1. TimelineTyped /\ TimelineTyped'
  BY TimelineTypes, TimelineTypesNext DEF TimelineInvariant
<1>s. /\ Past \in Seq(ContentType) /\ Past' \in Seq(ContentType)
      /\ Future \in Seq(ContentType) /\ Future' \in Seq(ContentType)
      /\ Present \in ContentType /\ Present' \in ContentType
  BY TimelineIsSequences, TimelineStaysSequences DEF TimelineInvariant
<1>2. Present = Content /\ Present' = Content'
  BY DEF Present
<1>3. Future' = << >>
  <2>1. Redoable' = 0
    BY <1>1 DEF Redoable, TimelineTyped
  <2> QED
    BY <1>1, <2>1, EmptySeq DEF TimelineTyped
<1>4. ASSUME NEW k \in 1..Undoable', k <= Undoable
      PROVE  Past'[k] = Past[k]
  BY <1>1, <1>4 DEF TimelineTyped, Undoable
<1>5. /\ Loaded <=> IsClean
      /\ Loaded' <=> IsClean'
  BY DEF Loaded
<1>6. IsClean => Present = ContentOf(history[position])
  BY <1>2 DEF TimelineInvariant, CleanIsUnchanged, HistoryTop
<1>7. IsClean' => Present' = ContentOf(history[position])
  <2>1. IsClean' => Present' = ContentOf(history'[position'])
    BY <1>2 DEF CleanIsUnchanged, HistoryTop
  <2>2. position \in 1..position
    BY <1>1 DEF TimelineTyped
  <2> QED
    BY <2>1, <2>2
<1>8. CASE IsClean' <=> IsClean
  <2>1. Undoable' = Undoable
    BY <1>5, <1>8 DEF Undoable
  <2>2. Past' = Past
    <3>1. Len(Past') = Len(Past) /\ \A k \in 1..Len(Past) : Past'[k] = Past[k]
      BY <1>1, <1>4, <2>1 DEF TimelineTyped, Undoable
    <3> QED
      BY <1>s, <3>1, SeqEqual
  <2> QED
    BY <1>1, <1>3, <2>2, TimelineInNames DEF TimelineTyped
<1>9. CASE IsClean /\ ~IsClean'
  <2>1. Undoable = position - 1 /\ Undoable' = position
    BY <1>5, <1>9 DEF Undoable
  <2>2. /\ Len(Past') = Len(Past) + 1 /\ Past'[Len(Past) + 1] = Present
        /\ \A k \in 1..Len(Past) : Past'[k] = Past[k]
    BY <1>1, <1>4, <1>6, <1>9, <2>1 DEF TimelineTyped
  <2>3. Past' = Append(Past, Present)
    BY <1>s, <2>2, AppendMove
  <2> QED
    BY <1>1, <1>3, <2>3, TimelineInNames DEF TimelineTyped
<1>10. CASE ~IsClean /\ IsClean'
  <2>1. Undoable = position /\ Undoable' = position - 1
    BY <1>5, <1>10 DEF Undoable
  <2>2. /\ Len(Past) = position /\ Len(Past') = position - 1 /\ Past # << >>
        /\ Past[Len(Past)] = Present'
        /\ \A k \in 1..Len(Past') : Past'[k] = Past[1 + k - 1]
    BY <1>1, <1>4, <1>7, <1>10, <2>1 DEF TimelineTyped
  <2>3. Past' = SubSeq(Past, 1, Len(Past) - 1)
    <3>1. Len(Past) - 1 \in 0..Len(Past) /\ 1 \in 1..(Len(Past) + 1) /\ 1 <= (Len(Past) - 1) + 1
          /\ Len(Past') = (Len(Past) - 1) - 1 + 1
      BY <1>1, <2>2 DEF TimelineTyped
    <3> QED
      BY <1>s, <2>2, <3>1, SubSeqMove
  <2> QED
    BY <1>3, <2>2, <2>3, TimelineInNames
<1> QED
  BY <1>8, <1>9, <1>10

\* A new undo position takes the content into the history.  A purge then drops
\* the oldest states, of which undo keeps kUndoLevels.
LEMMA PurgeFacts ==
  ASSUME TypeOK, NEW d \in Labels, MarkPosition(d), ~IsClean
  PROVE  \E excess \in 0..position :
           /\ excess # 0 => UndoLevels + excess <= position
           /\ Len(history') = (position + 1) - excess
           /\ position' = Len(history') /\ history'[position'] = CurrentState
           /\ \A k \in 1..(position - excess) : history'[k] = history[excess + k]
<1> DEFINE grown  == Append(WithoutRedo(history), CurrentState)
           excess == IF /\ Len(grown) > UndoLevels + UndoMargin
                        /\ position > UndoMargin
                       THEN UndoMargin ELSE 0
<1>1. /\ position \in Nat \ {0} /\ Len(history) \in Nat /\ position <= Len(history)
      /\ UndoLevels \in Nat \ {0} /\ UndoMargin \in Nat \ {0}
  BY LenProperties, LevelsAssumption DEF TypeOK
<1>2. /\ grown \in Seq(StateType) /\ Len(grown) = position + 1
      /\ \A k \in 1..position : grown[k] = history[k]
  BY WithoutRedoFacts, CurrentStateFacts, AppendProperties
<1>3. /\ history' = SubSeq(grown, excess + 1, Len(grown))
      /\ position' = (position + 1) - excess
  BY DEF MarkPosition
<1>4. /\ excess \in 0..position
      /\ excess # 0 => UndoLevels + excess <= position
  BY <1>1, <1>2
<1>5. \A k \in 1..(position + 1) : grown[k] \in StateType
  BY <1>1, <1>2, ElementOfSeq
<1> HIDE DEF grown, excess
<1>6. /\ Len(SubSeq(grown, excess + 1, position + 1)) =
           IF excess + 1 <= position + 1 THEN (position + 1) - (excess + 1) + 1 ELSE 0
      /\ \A k \in 1..((position + 1) - (excess + 1) + 1) :
           SubSeq(grown, excess + 1, position + 1)[k] = grown[(excess + 1) + k - 1]
  BY <1>1, <1>4, <1>5, SubSeqProperties
<1>7. Len(history') = (position + 1) - excess
  BY <1>1, <1>2, <1>3, <1>4, <1>6
<1>8. ASSUME NEW k \in 1..(position - excess) PROVE history'[k] = history[excess + k]
  <2>1. /\ k \in 1..((position + 1) - (excess + 1) + 1)
        /\ (excess + 1) + k - 1 = excess + k /\ excess + k \in 1..position
    BY <1>1, <1>4
  <2> QED
    BY <1>2, <1>3, <1>6, <2>1
<1>9. history'[position'] = CurrentState
  BY MarkPositionFacts
<1> QED
  BY <1>3, <1>4, <1>7, <1>8, <1>9

LEMMA PositionOnTimeline ==
  ASSUME TimelineInvariant, TypeOK', ~inUndoRedo, NEW d \in Labels, MarkPosition(d),
         UNCHANGED <<rocket, sims, inUndoRedo>>
  PROVE  Timeline!Purge \/ UNCHANGED Timeline!vars
<1>1. TimelineTyped /\ TimelineTyped'
  BY TimelineTypes, TimelineTypesNext DEF TimelineInvariant
<1>s. /\ Past \in Seq(ContentType) /\ Past' \in Seq(ContentType)
      /\ Future \in Seq(ContentType) /\ Future' \in Seq(ContentType)
      /\ Present \in ContentType /\ Present' \in ContentType
  BY TimelineIsSequences, TimelineStaysSequences DEF TimelineInvariant
<1>2. Present = Content /\ Present' = Content /\ Content' = Content
  BY DEF Present, Content
<1>3. CASE IsClean
  <2>1. history' = history /\ position' = position
    BY <1>3, MarkPositionFacts DEF TimelineInvariant
  <2>2. Loaded' = Loaded
    BY <2>1 DEF Loaded, IsClean, HistoryTop
  <2> QED
    BY <1>2, <2>1, <2>2, SameTimeline DEF TimelineInvariant
<1>4. CASE ~IsClean
  <2>1. PICK excess \in 0..position :
          /\ excess # 0 => UndoLevels + excess <= position
          /\ Len(history') = (position + 1) - excess
          /\ position' = Len(history') /\ history'[position'] = CurrentState
          /\ \A k \in 1..(position - excess) : history'[k] = history[excess + k]
    BY <1>4, PurgeFacts DEF TimelineInvariant
  <2>2. position = Len(history) /\ ~Loaded
    BY <1>4 DEF TimelineInvariant, DirtyInvariant, Pending, Loaded
  <2>3. Loaded'
    <3>1. SettingsOf(CurrentState.sims) = SettingsOf(sims) /\ CurrentState.rocket = rocket
      BY CurrentStateFacts DEF TimelineInvariant
    <3> QED
      BY <2>1, <3>1 DEF Loaded, IsClean, HistoryTop
  <2>4. Undoable = position /\ Undoable' = position - excess /\ Redoable = 0 /\ Redoable' = 0
    <3>1. position \in Nat /\ Len(history) \in Nat /\ excess \in Int
      BY <1>1 DEF TimelineTyped
    <3>2. Undoable = position /\ Redoable = 0
      BY <2>2 DEF Undoable, Redoable
    <3>3. Undoable' = position' - 1 /\ Redoable' = Len(history') - position'
      BY <2>3 DEF Undoable, Redoable
    <3>4. position' = (position + 1) - excess
      BY <2>1
    <3> QED
      BY <2>1, <3>1, <3>2, <3>3, <3>4
  <2>5. Future' = Future
    <3>1. Len(Future) = 0 /\ Len(Future') = 0
      BY <1>1, <2>4 DEF TimelineTyped
    <3> QED
      BY <1>s, <3>1, SeqEqual
  <2>6. ASSUME NEW k \in 1..Len(Past') PROVE Past'[k] = Past[(excess + 1) + k - 1]
    <3>1. excess + k \in 1..position /\ (excess + 1) + k - 1 = excess + k /\ k \in 1..(position - excess)
      BY <1>1, <2>4 DEF TimelineTyped
    <3> QED
      BY <1>1, <2>1, <2>4, <3>1 DEF TimelineTyped
  <2>7. /\ Len(Past) = position /\ Len(Past') = Len(Past) - (excess + 1) + 1
        /\ excess + 1 \in 1..(Len(Past) + 1) /\ Len(Past) \in 0..Len(Past)
        /\ excess + 1 <= Len(Past) + 1
    BY <1>1, <2>4 DEF TimelineTyped
  <2>8. Past' = SubSeq(Past, excess + 1, Len(Past))
    BY <1>s, <2>6, <2>7, SubSeqMove
  <2>9. CASE excess = 0
    <3>1. Past' = Past
      <4>1. Len(Past') = Len(Past) /\ \A k \in 1..Len(Past) : Past'[k] = Past[k]
        BY <1>1, <2>6, <2>7, <2>9 DEF TimelineTyped
      <4> QED
        BY <1>s, <4>1, SeqEqual
    <3> QED
      BY <1>2, <2>5, <3>1, TimelineInNames
  <2>10. CASE excess # 0
    <3>1. UndoLevels \in Nat
      BY LevelsAssumption
    <3>2. excess + 1 \in 2..(Len(Past) + 1 - UndoLevels)
      BY <1>1, <2>1, <2>7, <2>10, <3>1 DEF TimelineTyped
    <3> QED
      BY <1>2, <2>5, <2>8, <3>2, TimelineInNames
  <2> QED
    BY <2>9, <2>10
<1> QED
  BY <1>3, <1>4

LEMMA ClearOnTimeline ==
  ASSUME TimelineInvariant, TypeOK', ~inUndoRedo, ClearUndo
  PROVE  Timeline!Clear
<1>1. TimelineTyped'
  BY TimelineTypesNext
<1>2. Present' = Present
  BY DEF ClearUndo, Present, Content
<1>3. SettingsOf(CurrentState.sims) = SettingsOf(sims) /\ CurrentState.rocket = rocket
  BY CurrentStateFacts DEF TimelineInvariant
<1>4. Loaded' /\ Len(history') = 1 /\ position' = 1
  BY <1>3 DEF ClearUndo, Loaded, IsClean, HistoryTop
<1>5. Undoable' = 0 /\ Redoable' = 0
  BY <1>4 DEF Undoable, Redoable
<1>6. Past' = << >> /\ Future' = << >>
  BY <1>1, <1>5, EmptySeq DEF TimelineTyped
<1> QED
  BY <1>2, <1>6, TimelineInNames

\* An undo goes to the state before a clean document, or to the state behind a
\* dirty one; what it leaves comes first in the future.
LEMMA UndoOnTimeline ==
  ASSUME TimelineInvariant, TypeOK', Undo
  PROVE  Timeline!Undo
<1>1. TimelineTyped /\ TimelineTyped'
  BY TimelineTypes, TimelineTypesNext DEF TimelineInvariant
<1>s. /\ Past \in Seq(ContentType) /\ Past' \in Seq(ContentType)
      /\ Future \in Seq(ContentType) /\ Future' \in Seq(ContentType)
      /\ Present \in ContentType /\ Present' \in ContentType
  BY TimelineIsSequences, TimelineStaysSequences DEF TimelineInvariant
<1>2. /\ ~inUndoRedo /\ inUndoRedo' /\ Present = Content
      /\ Present' = ContentOf(history'[position']) /\ Loaded'
  BY DEF Undo, LoadRocket, Present, HistoryTop, Loaded
<1>3. /\ Undoable' = position' - 1
      /\ Redoable' = Len(history') - position'
  BY <1>2 DEF Undoable, Redoable
<1>4. /\ position' = Undoable /\ Undoable > 0 /\ Redoable' = Redoable + 1
      /\ \A k \in 1..Undoable : ContentOf(history'[k]) = ContentOf(history[k])
      /\ ContentOf(history'[position' + 1]) = Present
      /\ \A k \in 1..Redoable :
           ContentOf(history'[position' + (k + 1)]) = ContentOf(history[position + k])
  <2>1. CASE IsClean
    <3>1. position' = position - 1 /\ history' = history /\ position > 1
      BY <2>1 DEF Undo, IsUndoAvailable
    <3>2. Undoable = position - 1 /\ Redoable = Len(history) - position
      BY <2>1 DEF Undoable, Redoable, Loaded
    <3>3. ContentOf(history[position]) = Content
      BY <2>1 DEF TimelineInvariant, CleanIsUnchanged, HistoryTop
    <3>4. position' + 1 = position /\ \A k \in 1..Redoable : position' + (k + 1) = position + k
      BY <1>1, <3>1, <3>2 DEF TimelineTyped
    <3> QED
      BY <1>1, <1>2, <1>3, <3>1, <3>2, <3>3, <3>4 DEF TimelineTyped
  <2>2. CASE ~IsClean
    <3>1. position' = position /\ history' = Append(history, CurrentState)
      BY <2>2 DEF Undo
    <3>2. position = Len(history)
      BY <1>2, <2>2 DEF TimelineInvariant, DirtyInvariant, Pending
    <3>3. Undoable = position /\ Redoable = 0
      BY <1>2, <2>2 DEF Undoable, Redoable, Loaded
    <3>4. CurrentState \in StateType /\ ContentOf(CurrentState) = Content
      BY CurrentStateFacts DEF TimelineInvariant
    <3>5. /\ Len(history') = Len(history) + 1
          /\ \A k \in 1..Len(history) : history'[k] = history[k]
          /\ history'[Len(history) + 1] = CurrentState
      BY <1>1, <3>1, <3>4, AppendProperties DEF TimelineTyped
    <3> QED
      BY <1>1, <1>2, <1>3, <3>1, <3>2, <3>3, <3>4, <3>5 DEF TimelineTyped
  <2> QED
    BY <2>1, <2>2
<1>5. /\ Past # << >> /\ Len(Past) = Undoable /\ Len(Past') = Undoable - 1 /\ Undoable \in Nat
      /\ Past[Len(Past)] = Present'
  <2>1. Len(Past) = Undoable /\ Len(Past') = Undoable'
    BY <1>1 DEF TimelineTyped
  <2>2. Undoable \in Nat
    BY <1>1, <2>1, LenProperties DEF TimelineTyped
  <2>3. Undoable \in 1..Undoable /\ Undoable' = Undoable - 1
    BY <1>3, <1>4, <2>2
  <2>4. Past[Undoable] = ContentOf(history[Undoable])
    BY <1>1, <2>3 DEF TimelineTyped
  <2>5. Past # << >>
    BY <1>4, <2>1, EmptySeq
  <2> QED
    BY <1>2, <1>4, <2>1, <2>2, <2>3, <2>4, <2>5
<1>6. ASSUME NEW k \in 1..Len(Past') PROVE Past'[k] = Past[1 + k - 1]
  <2>1. Len(Past') = Undoable'
    BY <1>1 DEF TimelineTyped
  <2>2. k \in 1..Undoable' /\ k \in 1..Undoable /\ 1 + k - 1 = k
    BY <1>5, <2>1
  <2>3. Past'[k] = ContentOf(history'[k])
    BY <1>1, <2>2 DEF TimelineTyped
  <2>4. Past[k] = ContentOf(history[k])
    BY <1>1, <2>2 DEF TimelineTyped
  <2> QED
    BY <1>4, <2>2, <2>3, <2>4
<1>7. Past' = SubSeq(Past, 1, Len(Past) - 1)
  <2>1. Len(Past) - 1 \in 0..Len(Past) /\ 1 \in 1..(Len(Past) + 1) /\ 1 <= (Len(Past) - 1) + 1
        /\ Len(Past') = (Len(Past) - 1) - 1 + 1
    BY <1>4, <1>5
  <2> QED
    BY <1>s, <1>6, <2>1, SubSeqMove
<1>8. /\ Len(Future') = Len(Future) + 1 /\ Future'[1] = Present
      /\ \A k \in 1..Len(Future) : Future'[k + 1] = Future[k]
  <2>1. Redoable \in Nat /\ Len(Future) = Redoable /\ Len(Future') = Redoable'
    BY <1>1, LenProperties DEF TimelineTyped
  <2>2. \A k \in 1..Redoable : k + 1 \in 1..Redoable'
    BY <1>4, <2>1
  <2>3. 1 \in 1..Redoable'
    BY <1>4, <2>1
  <2>4. \A k \in 1..Redoable' : Future'[k] = ContentOf(history'[position' + k])
    BY <1>1 DEF TimelineTyped
  <2>5. Future'[1] = Present
    BY <1>4, <2>3, <2>4
  <2>6. ASSUME NEW k \in 1..Len(Future) PROVE Future'[k + 1] = Future[k]
    <3>1. Future[k] = ContentOf(history[position + k])
      BY <1>1, <2>1 DEF TimelineTyped
    <3>2. Future'[k + 1] = ContentOf(history'[position' + (k + 1)])
      BY <2>1, <2>2, <2>4
    <3> QED
      BY <1>4, <2>1, <3>1, <3>2
  <2>7. Len(Future') = Len(Future) + 1
    BY <1>4, <2>1
  <2> QED
    BY <2>5, <2>6, <2>7
<1>9. Future' = <<Present>> \o Future
  BY ZenonT(40), <1>s, <1>8, PrependMove
<1> QED
  BY <1>5, <1>7, <1>9, TimelineInNames

\* A redo goes on from a clean document only: a dirty one has nothing to redo.
LEMMA RedoOnTimeline ==
  ASSUME TimelineInvariant, TypeOK', Redo
  PROVE  Timeline!Redo
<1>1. TimelineTyped /\ TimelineTyped'
  BY TimelineTypes, TimelineTypesNext DEF TimelineInvariant
<1>s. /\ Past \in Seq(ContentType) /\ Past' \in Seq(ContentType)
      /\ Future \in Seq(ContentType) /\ Future' \in Seq(ContentType)
      /\ Present \in ContentType /\ Present' \in ContentType
  BY TimelineIsSequences, TimelineStaysSequences DEF TimelineInvariant
<1>2. /\ ~inUndoRedo /\ inUndoRedo' /\ Present = Content
      /\ position < Len(history) /\ position' = position + 1 /\ history' = history
      /\ Present' = ContentOf(history[position + 1]) /\ Loaded'
  BY DEF Redo, IsRedoAvailable, LoadRocket, Present, HistoryTop, Loaded
<1> DEFINE n == Len(history) - position
<1>0. position \in Nat \ {0} /\ Len(history) \in Nat /\ n \in Nat \ {0}
  BY <1>1, <1>2 DEF TimelineTyped
<1>3. IsClean /\ Loaded
  BY <1>1, <1>2 DEF TimelineInvariant, DirtyInvariant, Pending, Loaded, TimelineTyped
<1>4. /\ Undoable = position - 1 /\ Undoable' = position
      /\ Redoable = n /\ Redoable' = n - 1
  BY <1>0, <1>2, <1>3 DEF Undoable, Redoable
<1>5. ContentOf(history[position]) = Present
  BY <1>2, <1>3 DEF TimelineInvariant, CleanIsUnchanged, HistoryTop
<1>6. /\ Len(Past') = Len(Past) + 1 /\ Past'[Len(Past) + 1] = Present
      /\ \A k \in 1..Len(Past) : Past'[k] = Past[k]
  BY <1>1, <1>2, <1>4, <1>5 DEF TimelineTyped
<1>7. Past' = Append(Past, Present)
  BY <1>s, <1>6, AppendMove
<1>8. /\ Len(Future) = n /\ Len(Future') = n - 1
      /\ \A k \in 1..n : Future[k] = ContentOf(history[position + k])
      /\ \A k \in 1..(n - 1) : Future'[k] = ContentOf(history[(position + 1) + k])
  BY <1>1, <1>2, <1>4 DEF TimelineTyped
<1> HIDE DEF n
<1>9. ASSUME NEW k \in 1..Len(Future') PROVE Future'[k] = Future[k + 1]
  <2>1. k \in 1..(n - 1) /\ k + 1 \in 1..n /\ (position + 1) + k = position + (k + 1)
    BY <1>0, <1>8
  <2>2. Future'[k] = ContentOf(history[(position + 1) + k])
    BY <1>8, <2>1
  <2>3. Future[k + 1] = ContentOf(history[position + (k + 1)])
    BY <1>8, <2>1
  <2> QED
    BY <2>1, <2>2, <2>3
<1>10. Future[1] = Present' /\ Future # << >>
  <2>1. 1 \in 1..n
    BY <1>0
  <2> QED
    BY <1>0, <1>2, <1>8, <2>1
<1>11. Future' = Tail(Future)
  <2>1. Len(Future') = Len(Future) - 1
    BY <1>8
  <2> QED
    BY <1>s, <1>9, <1>10, <2>1, TailMove
<1>12. Head(Future) = Present'
  BY <1>s, <1>10
<1> QED
  BY <1>7, <1>10, <1>11, <1>12, TimelineInNames

LEMMA SimulationOnTimeline ==
  ASSUME TimelineInvariant, TypeOK', CleanIsUnchanged', ~inUndoRedo, NEW i \in 1..Len(sims),
         \/ \E s \in Settings : ChangeSettings(i, s)
         \/ \E r \in Results : ChangeResults(i, r)
  PROVE  Timeline!Change \/ Timeline!TakeBack \/ UNCHANGED Timeline!vars
<1>1. TimelineTyped /\ TypeOK
  BY TimelineTypes DEF TimelineInvariant
<1>2. sims' \in Seq(SimType) /\ Len(sims') = Len(sims) /\ SimulationChanged(i)
  BY <1>1, ChangedSimulationFacts
<1>3. ~inUndoRedo' /\ UNCHANGED <<rocket, position>>
  BY <1>2 DEF SimulationChanged
<1>4. ASSUME history' = LabelledStep PROVE Timeline!Change \/ Timeline!TakeBack
  <2>1. /\ Len(history') = position
        /\ \A k \in 1..position : ContentOf(history'[k]) = ContentOf(history[k])
    BY <1>1, <1>4, LabelledStepFacts DEF ContentOf
  <2> QED
    BY <1>3, <2>1, ChangeOnTimeline
<1>5. CASE SettingsOf(sims') # SettingsOf(HistoryTop.sims)
  BY <1>2, <1>4, <1>5 DEF SimulationChanged
<1>6. CASE /\ SettingsOf(sims') = SettingsOf(HistoryTop.sims)
           /\ rocket.modId = HistoryTop.rocket.modId
  <2>1. history' = [history EXCEPT ![position].sims[i] = Copies(sims')[i]]
    BY <1>2, <1>6 DEF SimulationChanged
  <2>2. /\ Len(history') = Len(history)
        /\ \A k \in 1..Len(history) : history'[k].rocket = history[k].rocket
        /\ SettingsOf(history'[position].sims) = SettingsOf(HistoryTop.sims)
    BY <1>1, <1>2, <1>6, <2>1, RefreshFacts
  <2>3. \A k \in 1..Len(history) : k # position => history'[k] = history[k]
    BY <1>1, <2>1 DEF TimelineTyped, TypeOK
  <2>4. ASSUME NEW k \in 1..Len(history)
        PROVE  ContentOf(history'[k]) = ContentOf(history[k])
    BY <2>2, <2>3 DEF ContentOf, HistoryTop
  <2>5. IsClean'
    <3>1. position \in 1..Len(history)
      BY <1>1 DEF TimelineTyped
    <3> QED
      BY <1>3, <1>6, <2>2, <3>1 DEF IsClean, HistoryTop
  <2>6. CASE IsClean
    <3>1. Present = ContentOf(history[position])
      BY <2>6 DEF TimelineInvariant, CleanIsUnchanged, Present, HistoryTop
    <3>2. Present' = ContentOf(history'[position])
      BY <1>3, <2>5 DEF CleanIsUnchanged, Present, HistoryTop
    <3>3. Present' = Present
      BY <1>1, <2>4, <3>1, <3>2 DEF TimelineTyped
    <3>4. Loaded' = Loaded
      BY <2>5, <2>6 DEF Loaded
    <3> QED
      BY <1>1, <1>3, <2>2, <2>4, <3>3, <3>4, SameTimeline
  <2>7. CASE ~IsClean
    <3>1. position = Len(history)
      BY <2>7 DEF TimelineInvariant, DirtyInvariant, Pending
    <3> QED
      BY <1>3, <2>2, <2>4, <3>1, ChangeOnTimeline
  <2> QED
    BY <2>6, <2>7
<1>7. CASE /\ SettingsOf(sims') = SettingsOf(HistoryTop.sims)
           /\ rocket.modId # HistoryTop.rocket.modId
  <2>1. history' = history
    BY <1>2, <1>7 DEF SimulationChanged
  <2>2. position = Len(history)
    BY <1>7 DEF TimelineInvariant, DirtyInvariant, Pending, IsClean
  <2> QED
    BY <1>3, <2>1, <2>2, ChangeOnTimeline
<1> QED
  BY <1>5, <1>6, <1>7

\* The second half of an undo or redo brings the content that the timeline has
\* already.
LEMMA LoadOnTimeline ==
  ASSUME TimelineInvariant, TypeOK', CleanIsUnchanged', LoadSimulations
  PROVE  UNCHANGED Timeline!vars
<1>1. /\ inUndoRedo /\ ~inUndoRedo' /\ UNCHANGED <<rocket, history, position>>
      /\ HistoryTop' = HistoryTop
  BY DEF LoadSimulations, undoVars, HistoryTop
<1>2. SettingsOf(sims') = SettingsOf(HistoryTop.sims)
  BY LoadSimulationsFacts DEF TimelineInvariant
<1>3. IsClean'
  BY <1>1, <1>2 DEF IsClean, TimelineInvariant
<1>4. Loaded' = Loaded
  BY <1>1, <1>3 DEF Loaded
<1>5. Present' = Present
  BY <1>1, <1>3 DEF Present, CleanIsUnchanged
<1> QED
  BY <1>1, <1>4, <1>5, SameTimeline DEF TimelineInvariant

LEMMA StepOnTimeline ==
  ASSUME SilentSources = {}, EventSlots = FALSE, TimelineInvariant, TypeOK', CleanIsUnchanged',
         [Next]_vars
  PROVE  [Timeline!Next]_(Timeline!vars)
<1> USE DEF Timeline!Next
<1>1. ASSUME UNCHANGED <<rocket, sims, undoVars, inUndoRedo>> PROVE UNCHANGED Timeline!vars
  <2>1. Loaded' = Loaded /\ Present' = Present /\ history' = history /\ position' = position
    BY <1>1 DEF undoVars, Loaded, IsClean, HistoryTop, Present, Content
  <2> QED
    BY <2>1, SameTimeline DEF TimelineInvariant
<1>2. ASSUME ~inUndoRedo, history' = LabelledStep, UNCHANGED <<position, inUndoRedo>>
      PROVE  Timeline!Change \/ Timeline!TakeBack
  <2>1. /\ Len(history') = position
        /\ \A k \in 1..position : ContentOf(history'[k]) = ContentOf(history[k])
    BY <1>2, LabelledStepFacts DEF ContentOf, TimelineInvariant
  <2> QED
    BY <1>2, <2>1, ChangeOnTimeline
<1>3. CASE ~inUndoRedo /\ UndoCalls
  <2>1. ASSUME NEW d \in Labels, MarkPosition(d), UNCHANGED <<rocket, sims, inUndoRedo>>
        PROVE  Timeline!Purge \/ UNCHANGED Timeline!vars
    BY <1>3, <2>1, PositionOnTimeline
  <2>2. ClearUndo => Timeline!Clear
    BY <1>3, ClearOnTimeline
  <2>3. storedDescription \in Labels /\ \A d \in Descriptions : d \in Labels
    BY DEF TimelineInvariant, TypeOK, Labels
  <2> QED
    BY <1>3, <2>1, <2>2, <2>3 DEF UndoCalls, AddUndoPosition, StartUndo, StopUndo
<1>4. ASSUME ~inUndoRedo, NEW d \in Designs, RocketChanged(d)
      PROVE  Timeline!Change \/ Timeline!TakeBack
  BY <1>2, <1>4 DEF RocketChanged
<1>5. CASE ~inUndoRedo /\ SimulationCalls
  <2>1. ASSUME NEW i \in 1..Len(sims), \/ \E s \in Settings : ChangeSettings(i, s)
                                       \/ \E r \in Results : ChangeResults(i, r)
        PROVE  Timeline!Change \/ Timeline!TakeBack \/ UNCHANGED Timeline!vars
    BY <1>5, <2>1, SimulationOnTimeline
  <2>2. ASSUME NEW i, NEW s, ChangeSilently(i, s) PROVE FALSE
    BY <2>2 DEF ChangeSilently, MayChangeSilently
  <2>3. SimulationsChanged => Timeline!Change \/ Timeline!TakeBack
    BY <1>2, <1>5 DEF SimulationsChanged
  <2> QED
    BY <1>5, <2>1, <2>2, <2>3 DEF SimulationCalls, AddSimulation, RemoveSimulation, RemoveUnlisted
<1>6. Undo => Timeline!Undo
  BY UndoOnTimeline
<1>7. Redo => Timeline!Redo
  BY RedoOnTimeline
<1>8. LoadSimulations => UNCHANGED Timeline!vars
  BY LoadOnTimeline
<1>9. CASE PreferencesChanged \/ (\E save \in BOOLEAN : SetSaved(save)) \/ UNCHANGED vars
  BY <1>1, <1>9 DEF PreferencesChanged, SetSaved, vars
<1> QED
  BY <1>3, <1>4, <1>5, <1>6, <1>7, <1>8, <1>9 DEF Next, Calls

\* Nothing runs between the two halves of an undo or redo when no slot does.
LEMMA LoadedRocketStays ==
  ASSUME EventSlots = FALSE
  PROVE  Spec => [](inUndoRedo => rocket = HistoryTop.rocket)
<1>1. Init => (inUndoRedo => rocket = HistoryTop.rocket)
  BY DEF Init
<1>2. (inUndoRedo => rocket = HistoryTop.rocket) /\ [Next]_vars
        => (inUndoRedo => rocket = HistoryTop.rocket)'
  <2> SUFFICES ASSUME inUndoRedo => rocket = HistoryTop.rocket, [Next]_vars, inUndoRedo'
               PROVE  rocket' = HistoryTop'.rocket
    OBVIOUS
  <2>1. ~inUndoRedo /\ Calls => inUndoRedo' = inUndoRedo
    BY DEF Calls, UndoCalls, AddUndoPosition, StartUndo, StopUndo, ClearUndo, RocketChanged,
           SimulationCalls, ChangeSettings, ChangeResults, ChangeSilently, SimulationChanged,
           AddSimulation, RemoveSimulation, RemoveUnlisted, SimulationsChanged, PreferencesChanged
  <2>2. ASSUME ~inUndoRedo, NEW save \in BOOLEAN, SetSaved(save) PROVE FALSE
    BY <2>2 DEF SetSaved
  <2>3. Undo \/ Redo => rocket' = HistoryTop'.rocket
    BY DEF Undo, Redo, LoadRocket, HistoryTop
  <2>4. ~LoadSimulations
    BY DEF LoadSimulations
  <2>5. UNCHANGED vars => rocket' = HistoryTop'.rocket
    BY DEF vars, undoVars, HistoryTop
  <2> QED
    BY <2>1, <2>2, <2>3, <2>4, <2>5 DEF Next
<1> QED
  BY <1>1, <1>2, PTL DEF Spec

\* The history implements the timeline: undo goes back through the contents the
\* document had, redo brings back what undo left, a change abandons it, a purge
\* forgets the oldest steps, and no other call moves anything, when every change
\* is heard and no slot changes the document in the middle of an undo.
THEOREM HistoryIsTimeline ==
  ASSUME SilentSources = {}, EventSlots = FALSE
  PROVE  Spec => ImplementsTimeline
<1>1. Init /\ TypeOK => Timeline!Init
  <2> SUFFICES ASSUME Init, TypeOK PROVE Timeline!Init
    OBVIOUS
  <2>1. TimelineTyped
    BY TimelineTypes
  <2>2. Len(history) = 1 /\ position = 1 /\ HistoryTop = CurrentState /\ ~inUndoRedo
    BY DEF Init, HistoryTop
  <2>3. SettingsOf(CurrentState.sims) = SettingsOf(sims) /\ CurrentState.rocket = rocket
    BY CurrentStateFacts
  <2>4. Loaded
    BY <2>2, <2>3 DEF Loaded, IsClean
  <2>5. Undoable = 0 /\ Redoable = 0
    BY <2>2, <2>4 DEF Undoable, Redoable
  <2>6. Past = << >> /\ Future = << >>
    BY <2>1, <2>5, EmptySeq DEF TimelineTyped
  <2> QED
    BY <2>1, <2>6, TimelineInNames DEF TimelineTyped
<1>2. /\ TypeOK /\ CleanIsUnchanged /\ DirtyInvariant
      /\ (inUndoRedo => rocket = HistoryTop.rocket)
      /\ TypeOK' /\ CleanIsUnchanged' /\ [Next]_vars
      => [Timeline!Next]_(Timeline!vars)
  BY StepOnTimeline DEF TimelineInvariant
<1> QED
  BY <1>1, <1>2, TypeInvariant, CleanTestIsSound, DirtyHolds, LoadedRocketStays, PTL
  DEF Spec, ImplementsTimeline, Timeline!Spec
=============================================================================
