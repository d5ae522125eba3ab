-------------------------- MODULE Pipeline_proofs --------------------------
(***************************************************************************)
(* Proofs about the abstract pipe_while loop, for every window, every      *)
(* number of iterations and every number of stages.                        *)
(***************************************************************************)
EXTENDS Pipeline, TLAPS

Slots == 0 .. MaxIter + 1

\* An iteration is behind its last wait only behind its left neighbour.
BehindLeft ==
  \A i \in Iters :
    stage[i] >= PostStage \/ (stage[i] = FinalStage /\ ~waiting[i]) =>
      stage[i - 1] >= PostStage

\* What is far enough behind an iteration that exists is over.
WindowOver ==
  \A i, j \in Iters :
    stage[i] # Unborn /\ j <= i - Window => stage[j] >= PostStage

\* A waiting iteration has a stage to wait for; a finished one waits no more.
WaitsInUserStage == \A i \in Iters : waiting[i] => stage[i] \in 1 .. FinalStage

Inv == /\ TypeOK /\ StageZeroInOrder /\ FinishInOrder
       /\ BehindLeft /\ WindowOver /\ WaitsInUserStage

----------------------------------------------------------------------------
\* Only the sentinel exists at the start.
LEMMA InitInv == ASSUME PipelineAssumption PROVE Init => Inv
  BY PipelineAssumption, SMTT(20)
     DEF PipelineAssumption, Init, Inv, TypeOK, StageZeroInOrder, FinishInOrder, BehindLeft,
         WindowOver, WaitsInUserStage,
         Iters, Unborn, FinalStage, PostStage, FinishStage

\* Every step keeps the types.
LEMMA TypeStep == ASSUME PipelineAssumption PROVE TypeOK /\ Next => TypeOK'
<1> SUFFICES ASSUME TypeOK, NEW i \in Iters,
                    \/ Start(i) \/ LastIteration(i) \/ Pass(i) \/ Finish(i)
                    \/ \E s \in 1 .. FinalStage, wait \in BOOLEAN : Enter(i, s, wait)
             PROVE  TypeOK'
  BY DEF Next
<1> USE PipelineAssumption DEF PipelineAssumption, TypeOK, Iters, Unborn, FinalStage, PostStage, FinishStage
<1>1. CASE Start(i) BY <1>1 DEF Start
<1>2. CASE LastIteration(i) BY <1>2 DEF LastIteration
<1>3. CASE Pass(i) BY <1>3 DEF Pass
<1>4. CASE Finish(i) BY <1>4 DEF Finish
<1>5. ASSUME NEW s \in 1 .. FinalStage, NEW wait \in BOOLEAN, Enter(i, s, wait)
      PROVE  TypeOK'
  BY <1>5 DEF Enter
<1>6. QED BY <1>1, <1>2, <1>3, <1>4, <1>5

\* Every step keeps the invariant: stages only grow, and each guard gives the
\* conjunct the step could break.
LEMMA StepInv == ASSUME PipelineAssumption PROVE Inv /\ Next => Inv'
<1> SUFFICES ASSUME Inv, NEW i \in Iters,
                    \/ Start(i) \/ LastIteration(i) \/ Pass(i) \/ Finish(i)
                    \/ \E s \in 1 .. FinalStage, wait \in BOOLEAN : Enter(i, s, wait)
             PROVE  Inv'
  BY DEF Next
<1>0. TypeOK' BY TypeStep DEF Inv, Next
<1>a. /\ TypeOK /\ StageZeroInOrder /\ FinishInOrder
      /\ BehindLeft /\ WindowOver /\ WaitsInUserStage
      /\ \A j \in Iters : j \in Slots /\ j - 1 \in Slots
      /\ \A j \in Slots : stage[j] \in Int
  BY PipelineAssumption DEF PipelineAssumption, Inv, TypeOK, Iters, Slots, Unborn, FinishStage
<1>b. ASSUME stage[i - 1] >= PostStage, NEW k \in Iters, k < i
      PROVE  stage[k] >= PostStage
  BY PipelineAssumption, <1>a, <1>b DEF PipelineAssumption, FinishInOrder, Iters
<1>1. CASE Start(i)
  <2> USE PipelineAssumption, <1>a, <1>1
      DEF PipelineAssumption, Start, TypeOK, Iters, Slots, Unborn, FinalStage, PostStage, FinishStage
  <2>1. StageZeroInOrder' BY DEF StageZeroInOrder
  <2>2. BehindLeft'
    <3>1. /\ stage[i] = Unborn /\ stage'[i] = 0
          /\ \A j \in Slots : j # i => stage'[j] = stage[j]
      OBVIOUS
    <3>2. \A j \in Iters : j # i /\ j - 1 # i =>
            stage'[j] = stage[j] /\ stage'[j - 1] = stage[j - 1]
      BY <3>1
    <3>3. \A j \in Iters : j - 1 = i => stage'[j] = stage[j]
      BY <3>1
    <3>4. waiting' = waiting
      OBVIOUS
    <3>5. SUFFICES ASSUME NEW j \in Iters,
                          stage'[j] >= PostStage \/ (stage'[j] = FinalStage /\ ~waiting[j])
                   PROVE  stage'[j - 1] >= PostStage
      BY <3>4 DEF BehindLeft
    <3>6. CASE j = i BY <3>1, <3>5, <3>6
    <3>7. CASE j - 1 = i
      <4>1. stage[i] >= PostStage BY <3>3, <3>5, <3>7 DEF BehindLeft
      <4>2. QED BY <3>1, <4>1
    <3>8. CASE j # i /\ j - 1 # i
      <4>1. stage[j - 1] >= PostStage BY <3>2, <3>5, <3>8 DEF BehindLeft
      <4>2. QED BY <3>2, <3>8, <4>1
    <3>9. QED BY <3>6, <3>7, <3>8
  <2>3. WindowOver' BY SMTT(30) DEF WindowOver
  <2>4. WaitsInUserStage' BY DEF WaitsInUserStage
  <2>5. FinishInOrder'
    <3>1. \A j \in Slots : stage'[j] >= stage[j] /\ (j # i => stage'[j] = stage[j])
      OBVIOUS
    <3>2. stage'[i] >= PostStage => stage[i - 1] >= PostStage
      BY DEF BehindLeft
    <3>3. SUFFICES ASSUME NEW j \in Iters, NEW k \in Iters, k < j,
                          stage'[j] >= PostStage
                   PROVE  stage'[k] >= PostStage
      BY DEF FinishInOrder
    <3>4. stage[k] >= PostStage
      <4>1. CASE j = i BY <1>b, <3>2, <3>3, <4>1
      <4>2. CASE j # i BY <3>1, <3>3, <4>2 DEF FinishInOrder
      <4>3. QED BY <4>1, <4>2
    <3>5. QED BY <3>1, <3>4
  <2>6. QED BY <1>0, <2>1, <2>2, <2>3, <2>4, <2>5 DEF Inv
<1>2. CASE LastIteration(i)
  BY <1>a, <1>0, <1>2
     DEF LastIteration, Inv, StageZeroInOrder, FinishInOrder, BehindLeft, WindowOver, WaitsInUserStage
<1>3. CASE Pass(i)
  <2> USE PipelineAssumption, <1>a, <1>3
      DEF PipelineAssumption, Pass, TypeOK, Iters, Slots, Unborn, FinalStage, PostStage, FinishStage
  <2>1. StageZeroInOrder' BY DEF StageZeroInOrder
  <2>2. BehindLeft' BY DEF BehindLeft, WaitsInUserStage
  <2>3. WindowOver' BY SMTT(30) DEF WindowOver
  <2>4. WaitsInUserStage' BY DEF WaitsInUserStage
  <2>5. FinishInOrder'
    <3>1. \A j \in Slots : stage'[j] >= stage[j] /\ (j # i => stage'[j] = stage[j])
      OBVIOUS
    <3>2. stage'[i] >= PostStage => stage[i - 1] >= PostStage
      BY DEF BehindLeft
    <3>3. SUFFICES ASSUME NEW j \in Iters, NEW k \in Iters, k < j,
                          stage'[j] >= PostStage
                   PROVE  stage'[k] >= PostStage
      BY DEF FinishInOrder
    <3>4. stage[k] >= PostStage
      <4>1. CASE j = i BY <1>b, <3>2, <3>3, <4>1
      <4>2. CASE j # i BY <3>1, <3>3, <4>2 DEF FinishInOrder
      <4>3. QED BY <4>1, <4>2
    <3>5. QED BY <3>1, <3>4
  <2>6. QED BY <1>0, <2>1, <2>2, <2>3, <2>4, <2>5 DEF Inv
<1>4. CASE Finish(i)
  <2> USE PipelineAssumption, <1>a, <1>4
      DEF PipelineAssumption, Finish, TypeOK, Iters, Slots, Unborn, FinalStage, PostStage, FinishStage
  <2>1. StageZeroInOrder' BY DEF StageZeroInOrder
  <2>2. BehindLeft' BY SMTT(60) DEF BehindLeft, WaitsInUserStage
  <2>3. WindowOver' BY SMTT(30) DEF WindowOver
  <2>4. WaitsInUserStage' BY DEF WaitsInUserStage
  <2>5. FinishInOrder'
    <3>1. \A j \in Slots : stage'[j] >= stage[j] /\ (j # i => stage'[j] = stage[j])
      OBVIOUS
    <3>2. stage'[i] >= PostStage => stage[i - 1] >= PostStage
      BY DEF BehindLeft
    <3>3. SUFFICES ASSUME NEW j \in Iters, NEW k \in Iters, k < j,
                          stage'[j] >= PostStage
                   PROVE  stage'[k] >= PostStage
      BY DEF FinishInOrder
    <3>4. stage[k] >= PostStage
      <4>1. CASE j = i BY <1>b, <3>2, <3>3, <4>1
      <4>2. CASE j # i BY <3>1, <3>3, <4>2 DEF FinishInOrder
      <4>3. QED BY <4>1, <4>2
    <3>5. QED BY <3>1, <3>4
  <2>6. QED BY <1>0, <2>1, <2>2, <2>3, <2>4, <2>5 DEF Inv
<1>5. ASSUME NEW s \in 1 .. FinalStage, NEW wait \in BOOLEAN, Enter(i, s, wait)
      PROVE  Inv'
  <2> USE PipelineAssumption, <1>a, <1>5
      DEF PipelineAssumption, Enter, TypeOK, Iters, Slots, Unborn, FinalStage, PostStage, FinishStage
  <2>1. StageZeroInOrder' BY DEF StageZeroInOrder
  <2>2. BehindLeft' BY SMTT(60) DEF BehindLeft, WaitsInUserStage
  <2>3. WindowOver' BY SMTT(30) DEF WindowOver
  <2>4. WaitsInUserStage' BY DEF WaitsInUserStage
  <2>5. FinishInOrder'
    <3>1. /\ stage[i] < PostStage /\ stage'[i] < PostStage
          /\ \A j \in Slots : j # i => stage'[j] = stage[j]
      OBVIOUS
    <3>2. QED BY <3>1, SMTT(60) DEF FinishInOrder
  <2>6. QED BY <1>0, <2>1, <2>2, <2>3, <2>4, <2>5 DEF Inv
<1>6. QED BY <1>1, <1>2, <1>3, <1>4, <1>5

\* The invariant holds in every reachable state.
LEMMA Invariant == ASSUME PipelineAssumption PROVE Spec => []Inv
<1>1. Inv /\ UNCHANGED vars => Inv'
  BY DEF Inv, TypeOK, StageZeroInOrder, FinishInOrder, BehindLeft, WindowOver, WaitsInUserStage, vars
<1>2. Init => Inv BY InitInv
<1>3. Inv /\ Next => Inv' BY StepInv
<1>4. QED BY <1>1, <1>2, <1>3, PTL DEF Spec

\* Iterations enter in order: whatever stages they skip, when one exists all
\* before it have left stage 0 (the serial condition of pipe_while).
THEOREM SerialEntry == ASSUME PipelineAssumption PROVE Spec => []StageZeroInOrder
<1>1. Inv => StageZeroInOrder BY DEF Inv
<1>2. QED BY <1>1, Invariant, PTL

\* Iterations leave in order: none ends its final stage before the ones before.
THEOREM SerialExit == ASSUME PipelineAssumption PROVE Spec => []FinishInOrder
<1>1. Inv => FinishInOrder BY DEF Inv
<1>2. QED BY <1>1, Invariant, PTL

\* The throttle: two iterations under way are less than Window apart.
THEOREM Throttled == ASSUME PipelineAssumption PROVE Spec => []WithinWindow
<1>1. Inv => WithinWindow
  BY PipelineAssumption
     DEF PipelineAssumption, Inv, TypeOK, WindowOver, WithinWindow, UnderWay, Iters, Unborn,
         FinalStage, PostStage, FinishStage
<1>2. QED BY <1>1, Invariant, PTL

\* Types, for every window and every number of iterations and stages.
THEOREM PipelineTypes == ASSUME PipelineAssumption PROVE Spec => []TypeOK
<1>1. Inv => TypeOK BY DEF Inv
<1>2. QED BY <1>1, Invariant, PTL
=============================================================================
