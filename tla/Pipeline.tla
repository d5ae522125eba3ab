------------------------------ MODULE Pipeline ------------------------------
(***************************************************************************)
(* What a pipe_while loop promises its program, whatever the scheduler     *)
(* does: iteration i starts after iteration i - 1 has left its stage 0,    *)
(* at most Window iterations are under way, and an iteration passes a      *)
(* stage wait at stage s only when the iteration before it is beyond s.    *)
(* Iteration 0 is the sentinel, finished from the start.                   *)
(***************************************************************************)
EXTENDS Integers

CONSTANTS
  Window,    \* how many iterations may be under way
  MaxIter,   \* bound: at most MaxIter iterations with a body
  MaxStage   \* bound: the largest user stage

\* what the theorems about this module assume of its constants
PipelineAssumption ==
  Window \in Nat \ {0} /\ MaxIter \in Nat /\ MaxStage \in Nat

VARIABLES
  stage,     \* the stage each iteration is in
  waiting,   \* whether it stands at the wait before that stage
  more       \* the condition of the loop

vars == <<stage, waiting, more>>

Iters       == 1 .. MaxIter + 1
Unborn      == -1
FinalStage  == MaxStage + 1
PostStage   == MaxStage + 2
FinishStage == MaxStage + 3

Init ==
  /\ stage = [i \in 0 .. MaxIter + 1 |-> IF i = 0 THEN FinishStage ELSE Unborn]
  /\ waiting = [i \in 0 .. MaxIter + 1 |-> FALSE]
  /\ more = TRUE

Start(i) ==
  /\ more
  /\ stage[i] = Unborn
  /\ stage[i - 1] > 0
  /\ \A j \in 1 .. i - Window : stage[j] >= PostStage
  /\ stage' = [stage EXCEPT ![i] = 0]
  /\ UNCHANGED <<waiting, more>>

\* The condition of the loop turns out false in stage 0.
LastIteration(i) ==
  /\ more
  /\ stage[i] = 0
  /\ more' = FALSE
  /\ UNCHANGED <<stage, waiting>>

Enter(i, s, wait) ==
  /\ stage[i] >= 0
  /\ ~waiting[i]
  /\ s > stage[i]
  /\ s = FinalStage => wait
  /\ stage' = [stage EXCEPT ![i] = s]
  /\ waiting' = [waiting EXCEPT ![i] = wait]
  /\ UNCHANGED more

Pass(i) ==
  /\ waiting[i]
  /\ stage[i - 1] > stage[i]
  /\ waiting' = [waiting EXCEPT ![i] = FALSE]
  /\ UNCHANGED <<stage, more>>

Finish(i) ==
  /\ stage[i] \in {FinalStage, PostStage}
  /\ ~waiting[i]
  /\ stage' = [stage EXCEPT ![i] = @ + 1]
  /\ UNCHANGED <<waiting, more>>

Next == \E i \in Iters :
  \/ Start(i) \/ LastIteration(i) \/ Pass(i) \/ Finish(i)
  \/ \E s \in 1 .. FinalStage, wait \in BOOLEAN : Enter(i, s, wait)

Spec == Init /\ [][Next]_vars

----------------------------------------------------------------------------
\* Every iteration is unborn or in one of its stages.
TypeOK ==
  /\ stage \in [0 .. MaxIter + 1 -> Unborn .. FinishStage]
  /\ waiting \in [0 .. MaxIter + 1 -> BOOLEAN]
  /\ more \in BOOLEAN

\* Stage 0 is serial: when an iteration exists, all before it have left stage 0.
StageZeroInOrder ==
  \A i, j \in Iters : j < i /\ stage[i] # Unborn => stage[j] > 0

\* The iterations end their last stage in order, whatever stages they skip.
FinishInOrder ==
  \A i, j \in Iters : j < i /\ stage[i] >= PostStage => stage[j] >= PostStage

\* Two iterations under way are never Window or more apart: the throttle.
UnderWay(i) == stage[i] \in 0 .. FinalStage

WithinWindow ==
  \A i, j \in Iters : UnderWay(i) /\ UnderWay(j) => i - j < Window
=============================================================================
