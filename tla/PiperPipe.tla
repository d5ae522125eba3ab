----------------------------- MODULE PiperPipe -----------------------------
(***************************************************************************)
(* How Piper schedules the iterations of one pipe_while loop: the macros   *)
(* of include/cilk/piper.h, runtime/piper_sched.cpp and the parts of       *)
(* runtime/scheduler.c that suspend, steal and resume its frames.          *)
(*                                                                         *)
(* The control frame runs iteration after iteration; iteration i uses      *)
(* block i % K of a ring.  A thief that takes the control frame promotes   *)
(* the iteration left behind to a full frame.  A promoted iteration whose  *)
(* left neighbour is not far enough suspends at its stage wait, the        *)
(* control frame suspends at the throttle when the next block is in use,   *)
(* and whoever removes the reason has to resume the frame or leave it      *)
(* where a thief finds it: in the worker's implicit deque flags.           *)
(*                                                                         *)
(* Stages are abstracted to 0 .. MaxStage and the three system stages      *)
(* after them.  Iteration bodies do not spawn.  Locks held within one step *)
(* are not variables; those held from one step to the next are the ones an *)
(* iteration's pc tells (HoldsWorkerLock, BlockLocked, ControlLocked).     *)
(***************************************************************************)
EXTENDS Integers

CONSTANTS
  Workers,   \* the workers of one team
  Leader,    \* the user worker that entered the pipe_while
  K,         \* buffer_size, the throttle limit
  MaxIter,   \* bound: the condition is false at iteration MaxIter + 1 at last
  MaxStage   \* bound: the largest user stage

ASSUME WorkersAssumption == Leader \in Workers
ASSUME RingAssumption    == K \in Nat /\ K >= 2
ASSUME BoundAssumption   == MaxIter \in Nat /\ MaxStage \in Nat

Blocks  == 0 .. K - 1
Control == -1              \* the full frame of the control frame
NoFrame == -2
Frames  == Blocks \cup {Control}
Idx(i)   == i % K
Left(b)  == (b + K - 1) % K
Right(b) == (b + 1) % K

FinalStage  == MaxStage + 1    \* CILK_PIPE_FINAL_USER_STAGE
PostStage   == MaxStage + 2    \* CILK_PIPE_POST_ITER_CLEANUP_STAGE
FinishStage == MaxStage + 3    \* CILK_PIPE_RUNTIME_FINISH_ITER_STAGE

FinishVal   == 16              \* CLEANUP_FINISH_ITER_VAL
ThrottleVal == 1               \* CLEANUP_THROTTLE_VAL
InitialVal  == 2 * FinishVal + ThrottleVal

VARIABLES
  \* the ring
  iter_num, stage, cached_left_stage, cleanup_counter, iter_status,
  block_status, in_use,
  \* the control frame
  current_iter, test_condition, control_ff, join_counter, cpc,
  \* full frames: resume_flags of the blocks' frames and of the control frame
  resume_flags,
  \* where the code of each block's iteration is, and whether the running
  \* iteration has put the control frame on the deque
  pc, detached,
  \* workers: core_frame_ff, next_frame_ff, implicit_deque_flags
  frame_ff, next_frame_ff, parent_resume, iter_ff_on_top

ring    == <<iter_num, stage, cached_left_stage, cleanup_counter, iter_status,
             block_status, in_use>>
control == <<current_iter, test_condition, control_ff, join_counter, cpc>>
code    == <<pc, detached>>
worker  == <<frame_ff, next_frame_ff, parent_resume, iter_ff_on_top>>
vars    == <<ring, control, resume_flags, code, worker>>

Current == Idx(current_iter)
NextBlock  == Right(Current)

\* Worker w executes the iteration in block b: promoted, with a full frame of
\* its own, or still on top of the control frame.
Executes(w, b) ==
  \/ frame_ff[w] = b
  \/ frame_ff[w] = Control /\ cpc = "body" /\ b = Current

RunsControl(w, p) == frame_ff[w] = Control /\ cpc = p

Finishing == {"free_left", "stage_done", "check_right", "free_own"}

HoldsWorkerLock(w) == \E b \in Blocks :
  frame_ff[w] = b /\ pc[b] \in Finishing \cup {"suspending"}
BlockLocked(b) == pc[b] \in {"suspending", "check_right", "free_own"}
ControlLocked  == \E b \in Blocks : pc[b] \in Finishing

Goto(b, p) == pc' = [pc EXCEPT ![b] = p]

----------------------------------------------------------------------------
Init ==
  /\ iter_num = [b \in Blocks |-> IF b = 0 THEN 0 ELSE -1]
  /\ stage = [b \in Blocks |-> IF b = 0 THEN FinishStage ELSE 0]
  /\ cached_left_stage = [b \in Blocks |-> 0]
  /\ cleanup_counter = [b \in Blocks |->
       CASE b = 0 -> FinishVal + ThrottleVal
         [] b = 1 -> InitialVal
         [] OTHER -> ThrottleVal]
  /\ iter_status = [b \in Blocks |-> IF b = 0 THEN "standard" ELSE "finished"]
  /\ block_status = [b \in Blocks |-> IF b \in {0, 1} THEN "in_use"
                                                      ELSE "available"]
  /\ in_use = [b \in Blocks |-> FALSE]
  /\ current_iter = 1
  /\ test_condition = TRUE
  /\ control_ff = FALSE
  /\ join_counter = 1
  /\ cpc = "loop"
  /\ resume_flags = [f \in Frames |-> "normal"]
  /\ pc = [b \in Blocks |-> "idle"]
  /\ detached = FALSE
  /\ frame_ff = [w \in Workers |-> IF w = Leader THEN Control ELSE NoFrame]
  /\ next_frame_ff = [w \in Workers |-> NoFrame]
  /\ parent_resume = [w \in Workers |-> "none"]
  /\ iter_ff_on_top = [w \in Workers |-> FALSE]

----------------------------------------------------------------------------
(* The loop of the control frame. *)

\* Variant: the cached stage of the left neighbour survives the reuse of the block.
InitKeepsCache(w) ==
  /\ RunsControl(w, "loop")
  /\ test_condition
  /\ iter_status' = [iter_status EXCEPT ![Current] = "standard"]
  /\ iter_num' = [iter_num EXCEPT ![Current] = current_iter]
  /\ stage' = [stage EXCEPT ![Current] = 0]
  /\ cpc' = "body"
  /\ Goto(Current, "test")
  /\ detached' = FALSE
  /\ UNCHANGED <<cached_left_stage, cleanup_counter, block_status, in_use, current_iter,
                 test_condition, control_ff, join_counter, resume_flags,
                 worker>>

\* Variant: the status of the iteration before in this block stays.
InitKeepsStatus(w) ==
  /\ RunsControl(w, "loop")
  /\ test_condition
  /\ iter_num' = [iter_num EXCEPT ![Current] = current_iter]
  /\ stage' = [stage EXCEPT ![Current] = 0]
  /\ cached_left_stage' = [cached_left_stage EXCEPT ![Current] = 0]
  /\ cpc' = "body"
  /\ Goto(Current, "test")
  /\ detached' = FALSE
  /\ UNCHANGED <<iter_status, cleanup_counter, block_status, in_use, current_iter,
                 test_condition, control_ff, join_counter, resume_flags,
                 worker>>

InitIterFrame(w) ==
  /\ RunsControl(w, "loop")
  /\ test_condition
  /\ iter_status' = [iter_status EXCEPT ![Current] = "standard"]
  /\ iter_num' = [iter_num EXCEPT ![Current] = current_iter]
  /\ stage' = [stage EXCEPT ![Current] = 0]
  /\ cached_left_stage' = [cached_left_stage EXCEPT ![Current] = 0]
  /\ cpc' = "body"
  /\ Goto(Current, "test")
  /\ detached' = FALSE
  /\ UNCHANGED <<cleanup_counter, block_status, in_use, current_iter,
                 test_condition, control_ff, join_counter, resume_flags,
                 worker>>

EndLoop(w) ==
  /\ RunsControl(w, "loop")
  /\ ~test_condition
  /\ cpc' = IF control_ff THEN "sync" ELSE "cleanup"
  /\ UNCHANGED <<ring, current_iter, test_condition, control_ff, join_counter,
                 resume_flags, code, worker>>

----------------------------------------------------------------------------
(* The body of an iteration. *)

\* The condition is evaluated in stage 0, before anyone can take the control
\* frame; if it is false only the final wait is left.
TestCondition(w, b, t) ==
  /\ Executes(w, b)
  /\ pc[b] = "test"
  /\ t => iter_num[b] <= MaxIter
  /\ test_condition' = t
  /\ Goto(b, IF t THEN "user" ELSE "last")
  /\ UNCHANGED <<ring, current_iter, control_ff, join_counter, cpc,
                 resume_flags, detached, worker>>

\* CILK_STAGE_ADVANCE_BODY: the new stage, and the first time the control
\* frame becomes stealable.
Advance(b, s) ==
  /\ stage' = [stage EXCEPT ![b] = s]
  /\ detached' = (detached \/ stage[b] = 0)

UserStages(b) == {s \in 1 .. MaxStage : pc[b] = "user" /\ s > stage[b]}

Stage(w, b, s) ==
  /\ Executes(w, b)
  /\ s \in UserStages(b)
  /\ Advance(b, s)
  /\ UNCHANGED <<iter_num, cached_left_stage, cleanup_counter, iter_status,
                 block_status, in_use, control, resume_flags, pc, worker>>

StageWait(w, b, s) ==
  /\ Executes(w, b)
  /\ pc[b] \in {"user", "last"}
  /\ s \in UserStages(b) \cup {FinalStage}
  /\ Advance(b, s)
  /\ Goto(b, "wait")
  /\ UNCHANGED <<iter_num, cached_left_stage, cleanup_counter, iter_status,
                 block_status, in_use, control, resume_flags, worker>>

AfterWait(b) == IF stage[b] = FinalStage THEN "final" ELSE "user"

\* Variant: an equal stage of the left neighbour is enough.
CachedEqualEnough(w, b) ==
  /\ Executes(w, b)
  /\ pc[b] = "wait"
  /\ cached_left_stage[b] >= stage[b]
  /\ Goto(b, AfterWait(b))
  /\ UNCHANGED <<ring, control, resume_flags, detached, worker>>

\* CILK_STAGE_WAIT_ON_LEFT_DEPENDENCY_BODY
CachedEnough(w, b) ==
  /\ Executes(w, b)
  /\ pc[b] = "wait"
  /\ cached_left_stage[b] > stage[b]
  /\ Goto(b, AfterWait(b))
  /\ UNCHANGED <<ring, control, resume_flags, detached, worker>>

\* Variant: the value compared is the one cached before.
ReadLeftStale(w, b) ==
  /\ Executes(w, b)
  /\ pc[b] = "wait"
  /\ cached_left_stage[b] <= stage[b]
  /\ UNCHANGED cached_left_stage
  /\ Goto(b, IF cached_left_stage[b] > stage[b] THEN AfterWait(b) ELSE "stall")
  /\ UNCHANGED <<iter_num, stage, cleanup_counter, iter_status, block_status,
                 in_use, control, resume_flags, detached, worker>>

ReadLeft(w, b) ==
  /\ Executes(w, b)
  /\ pc[b] = "wait"
  /\ cached_left_stage[b] <= stage[b]
  /\ cached_left_stage' = [cached_left_stage EXCEPT ![b] = stage[Left(b)]]
  /\ Goto(b, IF stage[Left(b)] > stage[b] THEN AfterWait(b) ELSE "stall")
  /\ UNCHANGED <<iter_num, stage, cleanup_counter, iter_status, block_status,
                 in_use, control, resume_flags, detached, worker>>

NeedToStall(b) == stage[Left(b)] <= stage[b]

\* The loop of __cilkrts_piper_stage_wait.  Backing off is staying here.
Stall(w, b) ==
  /\ Executes(w, b)
  /\ pc[b] = "stall"
  /\ Goto(b, IF ~NeedToStall(b) THEN "wait"
             ELSE IF iter_status[b] = "standard" THEN "promote" ELSE "suspend")
  /\ UNCHANGED <<ring, control, resume_flags, detached, worker>>

----------------------------------------------------------------------------
(* Taking the control frame away from an iteration. *)

Stealable(w) == RunsControl(w, "body") /\ detached

\* make_pipe_iter_child and piper_install_iteration_frame: worker w goes on
\* with the iteration as a full frame, without the control frame.
InstallIteration(w, parent) ==
  /\ control_ff' = TRUE
  /\ join_counter' = join_counter + 1
  /\ cpc' = "throttle"
  /\ detached' = FALSE
  /\ in_use' = [in_use EXCEPT ![Current] = TRUE]
  /\ iter_status' = [iter_status EXCEPT ![Current] = "promoted"]
  /\ frame_ff' = [frame_ff EXCEPT ![w] = Current]
  /\ iter_ff_on_top' = [iter_ff_on_top EXCEPT ![w] = TRUE]
  /\ parent_resume' = [parent_resume EXCEPT ![w] = parent]
  /\ UNCHANGED <<iter_num, stage, cached_left_stage, cleanup_counter,
                 block_status, current_iter, test_condition>>

\* Variant: the control frame is taken without its lock.
PromoteUnlocked(w, b) ==
  /\ Executes(w, b)
  /\ pc[b] = "promote"
  /\ iter_status[b] # "promoted"
  /\ Goto(b, "suspend")
  /\ InstallIteration(w, "self")
  /\ UNCHANGED <<resume_flags, next_frame_ff>>

\* The worker that has to suspend takes its own control frame, under the
\* frame's lock as a thief does: it stays implicitly on its deque.
Promote(w, b) ==
  /\ Executes(w, b)
  /\ pc[b] = "promote"
  /\ iter_status[b] # "promoted"
  /\ ~ControlLocked
  /\ Goto(b, "suspend")
  /\ InstallIteration(w, "self")
  /\ UNCHANGED <<resume_flags, next_frame_ff>>

AlreadyPromoted(w, b) ==
  /\ Executes(w, b)
  /\ pc[b] = "promote"
  /\ iter_status[b] = "promoted"
  /\ Goto(b, "suspend")
  /\ UNCHANGED <<ring, control, resume_flags, detached, worker>>

Idle(w) == frame_ff[w] = NoFrame /\ next_frame_ff[w] = NoFrame

StealControl(v, w) ==
  /\ Idle(v)
  /\ v # w
  /\ Stealable(w)
  /\ ~ControlLocked
  /\ InstallIteration(w, parent_resume[w])
  /\ next_frame_ff' = [next_frame_ff EXCEPT ![v] = Control]
  /\ UNCHANGED <<resume_flags, pc>>

----------------------------------------------------------------------------
(* Resuming a suspended neighbour or the control frame. *)

\* piper_try_resume_next_iteration_helper, under the lock of the right block
RightResumable(b) ==
  /\ iter_status[Right(b)] = "suspended"
  /\ ~NeedToStall(Right(b))

ResumeRight(b, v) ==
  /\ iter_status' = [iter_status EXCEPT ![Right(b)] = "promoted"]
  /\ resume_flags' = [resume_flags EXCEPT ![Right(b)] = "resuming"]
  /\ next_frame_ff' = [next_frame_ff EXCEPT ![v] = Right(b)]

\* piper_try_remove_implicit_parent: what worker v gets for a flag
ParentResumable(flag) ==
  \/ flag = "self"
  \/ flag = "throttle" /\ resume_flags[Control] = "suspended"

TakeParent(flag, v) ==
  /\ resume_flags' = [resume_flags EXCEPT ![Control] =
       IF flag = "throttle" THEN "resuming" ELSE @]
  /\ next_frame_ff' = [next_frame_ff EXCEPT ![v] = Control]

NothingToResume == UNCHANGED <<iter_status, resume_flags, next_frame_ff>>

\* Variant: the flag of the victim stays set.
StealKeepsFlag(v, w) ==
  /\ Idle(v)
  /\ v # w
  /\ frame_ff[w] \in Blocks
  /\ parent_resume[w] # "none" \/ iter_ff_on_top[w]
  /\ ~HoldsWorkerLock(w)
  /\ \/ /\ ParentResumable(parent_resume[w])
        /\ TakeParent(parent_resume[w], v)
        /\ UNCHANGED iter_status
     \/ /\ ~ParentResumable(parent_resume[w])
        /\ ~BlockLocked(Right(frame_ff[w]))
        /\ IF RightResumable(frame_ff[w]) THEN ResumeRight(frame_ff[w], v)
                                          ELSE NothingToResume
  /\ UNCHANGED parent_resume
  /\ UNCHANGED <<iter_num, stage, cached_left_stage, cleanup_counter,
                 block_status, in_use, control, code, frame_ff,
                 iter_ff_on_top>>

\* piper_try_implicit_steals.  The flag of the victim is cleared even if the
\* control frame turns out not to be suspended.
StealImplicitly(v, w) ==
  /\ Idle(v)
  /\ v # w
  /\ frame_ff[w] \in Blocks
  /\ parent_resume[w] # "none" \/ iter_ff_on_top[w]
  /\ ~HoldsWorkerLock(w)
  /\ \/ /\ ParentResumable(parent_resume[w])
        /\ TakeParent(parent_resume[w], v)
        /\ UNCHANGED iter_status
     \/ /\ ~ParentResumable(parent_resume[w])
        /\ ~BlockLocked(Right(frame_ff[w]))
        /\ IF RightResumable(frame_ff[w]) THEN ResumeRight(frame_ff[w], v)
                                          ELSE NothingToResume
  /\ parent_resume' = [parent_resume EXCEPT ![w] = "none"]
  /\ UNCHANGED <<iter_num, stage, cached_left_stage, cleanup_counter,
                 block_status, in_use, control, code, frame_ff,
                 iter_ff_on_top>>

\* worker_scheduling_loop_body: a worker runs the frame in its one-element
\* queue.  make_runnable tells whether it is an iteration.
ResumeFrame(w) ==
  /\ frame_ff[w] = NoFrame
  /\ next_frame_ff[w] # NoFrame
  /\ next_frame_ff[w] = Control => ~ControlLocked
  /\ frame_ff' = [frame_ff EXCEPT ![w] = next_frame_ff[w]]
  /\ next_frame_ff' = [next_frame_ff EXCEPT ![w] = NoFrame]
  /\ resume_flags' = [resume_flags EXCEPT ![next_frame_ff[w]] =
       IF @ = "resuming" THEN "normal" ELSE @]
  /\ iter_ff_on_top' = [iter_ff_on_top EXCEPT ![w] = next_frame_ff[w] \in Blocks]
  /\ pc' = [b \in Blocks |-> IF b = next_frame_ff[w] THEN "stall" ELSE pc[b]]
  /\ UNCHANGED <<ring, control, detached, parent_resume>>

----------------------------------------------------------------------------
(* Suspending an iteration: do_suspend_pipe_iter_frame. *)

\* piper_try_suspend_at_stage_wait, under the lock of the own block
SuspendFails(w, b) ==
  /\ Executes(w, b)
  /\ pc[b] = "suspend"
  /\ ~NeedToStall(b)
  /\ resume_flags' = [resume_flags EXCEPT ![b] = "resuming"]
  /\ next_frame_ff' = [next_frame_ff EXCEPT ![w] = b]
  /\ frame_ff' = [frame_ff EXCEPT ![w] = NoFrame]
  /\ Goto(b, "asleep")
  /\ UNCHANGED <<ring, control, detached, parent_resume, iter_ff_on_top>>

\* Variant: the stage of the left neighbour is not read again under the lock.
SuspendUnchecked(w, b) ==
  /\ Executes(w, b)
  /\ pc[b] = "suspend"
  /\ iter_status' = [iter_status EXCEPT ![b] = "suspended"]
  /\ resume_flags' = [resume_flags EXCEPT ![b] = "suspended"]
  /\ Goto(b, "suspending")
  /\ UNCHANGED <<iter_num, stage, cached_left_stage, cleanup_counter,
                 block_status, in_use, control, detached, worker>>

Suspend(w, b) ==
  /\ Executes(w, b)
  /\ pc[b] = "suspend"
  /\ NeedToStall(b)
  /\ iter_status' = [iter_status EXCEPT ![b] = "suspended"]
  /\ resume_flags' = [resume_flags EXCEPT ![b] = "suspended"]
  /\ Goto(b, "suspending")
  /\ UNCHANGED <<iter_num, stage, cached_left_stage, cleanup_counter,
                 block_status, in_use, control, detached, worker>>

\* piper_try_resume_next_iter_on_suspend, under the lock of the right block;
\* the control frame is taken whatever it waits for.
SuspendNext(w, b) ==
  /\ Executes(w, b)
  /\ pc[b] = "suspending"
  /\ ~BlockLocked(Right(b))
  /\ \/ /\ RightResumable(b)
        /\ ResumeRight(b, w)
        /\ UNCHANGED parent_resume
     \/ /\ ~RightResumable(b)
        /\ next_frame_ff' = [next_frame_ff EXCEPT ![w] =
             IF parent_resume[w] # "none" THEN Control ELSE @]
        /\ parent_resume' = [parent_resume EXCEPT ![w] = "none"]
        /\ UNCHANGED <<iter_status, resume_flags>>
  /\ iter_ff_on_top' = [iter_ff_on_top EXCEPT ![w] = FALSE]
  /\ frame_ff' = [frame_ff EXCEPT ![w] = NoFrame]
  /\ Goto(b, "asleep")
  /\ UNCHANGED <<iter_num, stage, cached_left_stage, cleanup_counter,
                 block_status, in_use, control, detached>>

----------------------------------------------------------------------------
(* The end of an iteration. *)

FinishFinalStage(w, b) ==
  /\ Executes(w, b)
  /\ pc[b] = "final"
  /\ stage' = [stage EXCEPT ![b] = PostStage]
  /\ Goto(b, "leave")
  /\ UNCHANGED <<iter_num, cached_left_stage, cleanup_counter, iter_status,
                 block_status, in_use, control, resume_flags, detached, worker>>

\* __cilkrts_leave_frame: pop the control frame, or find it stolen.
LeaveFrame(w, b) ==
  /\ Executes(w, b)
  /\ pc[b] = "leave"
  /\ Goto(b, IF frame_ff[w] = Control THEN "attached_done" ELSE "return")
  /\ detached' = (detached /\ frame_ff[w] # Control)
  /\ UNCHANGED <<ring, control, resume_flags, worker>>

\* piper_try_free_iter_data_block_common on block b, under its lock
\* Variants: a block is reused when one of the two ends is counted; the
\* control frame is flagged when the block is ready, suspended or not.
ReadyTooSoon(n)   == n <= ThrottleVal + FinishVal
FlagTooSoon(n)    == n <= ThrottleVal
ReadyForReuse(n)  == n <= ThrottleVal
PastThrottle(n)   == n <= 0
CountFinish(b)    == cleanup_counter[b] - FinishVal

FreeBlock(b) ==
  /\ cleanup_counter' = [cleanup_counter EXCEPT ![b] = CountFinish(b)]
  /\ iter_status' = [iter_status EXCEPT ![b] =
       IF ReadyForReuse(CountFinish(b)) THEN "finished" ELSE @]
  /\ block_status' = [block_status EXCEPT ![b] =
       IF ReadyForReuse(CountFinish(b)) THEN "available" ELSE @]

\* What it sets when the worker is passed in: the control frame waits for
\* exactly this block.
FlagAfterFree(w, b) ==
  IF PastThrottle(CountFinish(b)) THEN "throttle" ELSE parent_resume[w]

\* piper_leave_iter_frame_attached_exit: no lock but those of the blocks
AttachedDone(w, b) ==
  /\ Executes(w, b)
  /\ pc[b] = "attached_done"
  /\ stage' = [stage EXCEPT ![b] = FinishStage]
  /\ Goto(b, "attached_left")
  /\ UNCHANGED <<iter_num, cached_left_stage, cleanup_counter, iter_status,
                 block_status, in_use, control, resume_flags, detached, worker>>

AttachedFreeLeft(w, b) ==
  /\ Executes(w, b)
  /\ pc[b] = "attached_left"
  /\ ~BlockLocked(Left(b))
  /\ FreeBlock(Left(b))
  /\ Goto(b, "attached_own")
  /\ UNCHANGED <<iter_num, stage, cached_left_stage, in_use, control,
                 resume_flags, detached, worker>>

AttachedFreeOwn(w, b) ==
  /\ Executes(w, b)
  /\ pc[b] = "attached_own"
  /\ FreeBlock(b)
  /\ Goto(b, "idle")
  /\ cpc' = "throttle"
  /\ UNCHANGED <<iter_num, stage, cached_left_stage, in_use, current_iter,
                 test_condition, control_ff, join_counter, resume_flags,
                 detached, worker>>

\* do_return_from_spawn and pipe_iter_finish: the last child of a control
\* frame that waits at its sync sends it back to the team's user worker,
\* anyone else goes on to piper_finish_iter_and_get_next.
ReturnLast(w, b) ==
  /\ Executes(w, b)
  /\ pc[b] = "return"
  /\ ~ControlLocked
  /\ join_counter = 1
  /\ join_counter' = 1           \* decjoin, then incjoin by the push
  /\ next_frame_ff' = [next_frame_ff EXCEPT ![Leader] = Control]
  /\ frame_ff' = [frame_ff EXCEPT ![w] = NoFrame]
  /\ iter_ff_on_top' = [iter_ff_on_top EXCEPT ![w] = FALSE]
  /\ Goto(b, "idle")
  /\ UNCHANGED <<ring, current_iter, test_condition, control_ff, cpc,
                 resume_flags, detached, parent_resume>>

\* Variant: the end of an iteration is not counted on its left block.
ReturnSkipsLeft(w, b) ==
  /\ Executes(w, b)
  /\ pc[b] = "return"
  /\ ~ControlLocked
  /\ join_counter # 1
  /\ join_counter' = join_counter - 1
  /\ Goto(b, "stage_done")
  /\ UNCHANGED <<ring, current_iter, test_condition, control_ff, cpc,
                 resume_flags, detached, worker>>

ReturnOther(w, b) ==
  /\ Executes(w, b)
  /\ pc[b] = "return"
  /\ ~ControlLocked
  /\ join_counter # 1
  /\ join_counter' = join_counter - 1
  /\ Goto(b, "free_left")
  /\ UNCHANGED <<ring, current_iter, test_condition, control_ff, cpc,
                 resume_flags, detached, worker>>

FreeLeft(w, b) ==
  /\ Executes(w, b)
  /\ pc[b] = "free_left"
  /\ ~BlockLocked(Left(b))
  /\ FreeBlock(Left(b))
  /\ parent_resume' = [parent_resume EXCEPT ![w] = FlagAfterFree(w, Left(b))]
  /\ Goto(b, "stage_done")
  /\ UNCHANGED <<iter_num, stage, cached_left_stage, in_use, control,
                 resume_flags, detached, frame_ff, next_frame_ff,
                 iter_ff_on_top>>

StageDone(w, b) ==
  /\ Executes(w, b)
  /\ pc[b] = "stage_done"
  /\ stage' = [stage EXCEPT ![b] = FinishStage]
  /\ Goto(b, "check_right")
  /\ UNCHANGED <<iter_num, cached_left_stage, cleanup_counter, iter_status,
                 block_status, in_use, control, resume_flags, detached, worker>>

CheckRight(w, b) ==
  /\ Executes(w, b)
  /\ pc[b] = "check_right"
  /\ ~BlockLocked(Right(b))
  /\ IF RightResumable(b)
       THEN ResumeRight(b, w)
       ELSE NothingToResume
  /\ Goto(b, "free_own")
  /\ UNCHANGED <<iter_num, stage, cached_left_stage, cleanup_counter,
                 block_status, in_use, control, detached, frame_ff,
                 parent_resume, iter_ff_on_top>>

\* Variant: the implicit parent flag is not cleared at the end.
FreeOwnKeepsFlag(w, b) ==
  /\ Executes(w, b)
  /\ pc[b] = "free_own"
  /\ FreeBlock(b)
  /\ in_use' = [in_use EXCEPT ![b] = FALSE]
  /\ iter_ff_on_top' = [iter_ff_on_top EXCEPT ![w] = FALSE]
  /\ IF next_frame_ff[w] # NoFrame
       THEN /\ parent_resume' = [parent_resume EXCEPT ![w] = FlagAfterFree(w, b)]
            /\ UNCHANGED <<resume_flags, next_frame_ff>>
       ELSE /\ parent_resume' = [parent_resume EXCEPT ![w] = FlagAfterFree(w, b)]
            /\ IF ParentResumable(FlagAfterFree(w, b))
                 THEN TakeParent(FlagAfterFree(w, b), w)
                 ELSE UNCHANGED <<resume_flags, next_frame_ff>>
  /\ frame_ff' = [frame_ff EXCEPT ![w] = NoFrame]
  /\ Goto(b, "idle")
  /\ UNCHANGED <<iter_num, stage, cached_left_stage, control, detached>>

FreeOwn(w, b) ==
  /\ Executes(w, b)
  /\ pc[b] = "free_own"
  /\ FreeBlock(b)
  /\ in_use' = [in_use EXCEPT ![b] = FALSE]
  /\ iter_ff_on_top' = [iter_ff_on_top EXCEPT ![w] = FALSE]
  /\ IF next_frame_ff[w] # NoFrame
       THEN /\ parent_resume' = [parent_resume EXCEPT ![w] = FlagAfterFree(w, b)]
            /\ UNCHANGED <<resume_flags, next_frame_ff>>
       ELSE /\ parent_resume' = [parent_resume EXCEPT ![w] = "none"]
            /\ IF ParentResumable(FlagAfterFree(w, b))
                 THEN TakeParent(FlagAfterFree(w, b), w)
                 ELSE UNCHANGED <<resume_flags, next_frame_ff>>
  /\ frame_ff' = [frame_ff EXCEPT ![w] = NoFrame]
  /\ Goto(b, "idle")
  /\ UNCHANGED <<iter_num, stage, cached_left_stage, control, detached>>

----------------------------------------------------------------------------
(* The throttle and the sync of the control frame. *)

\* __cilkrts_piper_throttle, under the lock of the next block
ThrottleFast(w) ==
  /\ RunsControl(w, "throttle")
  /\ ~BlockLocked(NextBlock)
  /\ ReadyForReuse(cleanup_counter[NextBlock])
  /\ cleanup_counter' = [cleanup_counter EXCEPT ![NextBlock] = @ - ThrottleVal]
  /\ cpc' = "setup"
  /\ UNCHANGED <<iter_num, stage, cached_left_stage, iter_status, block_status,
                 in_use, current_iter, test_condition, control_ff,
                 join_counter, resume_flags, code, worker>>

ThrottleSlow(w) ==
  /\ RunsControl(w, "throttle")
  /\ ~BlockLocked(NextBlock)
  /\ ~ReadyForReuse(cleanup_counter[NextBlock])
  /\ cpc' = "slow"
  /\ UNCHANGED <<ring, current_iter, test_condition, control_ff, join_counter,
                 resume_flags, code, worker>>

\* do_suspend_pipe_control_frame and
\* piper_try_suspend_control_frame_at_throttle: whatever it decides, the
\* control frame goes on from here when it is run again.
SuspendControl(w) ==
  /\ RunsControl(w, "slow")
  /\ ~ControlLocked
  /\ ~BlockLocked(NextBlock)
  /\ LET count == cleanup_counter[NextBlock] - ThrottleVal
     IN /\ cleanup_counter' = [cleanup_counter EXCEPT ![NextBlock] = count]
        /\ resume_flags' = [resume_flags EXCEPT ![Control] =
             IF ReadyForReuse(count) THEN "resuming" ELSE "suspended"]
        /\ next_frame_ff' = [next_frame_ff EXCEPT ![w] =
             IF ReadyForReuse(count) THEN Control ELSE @]
  /\ frame_ff' = [frame_ff EXCEPT ![w] = NoFrame]
  /\ cpc' = "setup"
  /\ UNCHANGED <<iter_num, stage, cached_left_stage, iter_status, block_status,
                 in_use, current_iter, test_condition, control_ff,
                 join_counter, code, parent_resume, iter_ff_on_top>>

SetupNext(w) ==
  /\ RunsControl(w, "setup")
  /\ cleanup_counter' = [cleanup_counter EXCEPT ![NextBlock] = InitialVal]
  /\ block_status' = [block_status EXCEPT ![NextBlock] = "in_use"]
  /\ current_iter' = current_iter + 1
  /\ cpc' = "loop"
  /\ UNCHANGED <<iter_num, stage, cached_left_stage, iter_status, in_use,
                 test_condition, control_ff, join_counter, resume_flags, code,
                 worker>>

\* do_sync: wait for the promoted iterations, or go on at once.
SyncControl(w) ==
  /\ RunsControl(w, "sync")
  /\ ~ControlLocked
  /\ cpc' = "cleanup"
  /\ frame_ff' = [frame_ff EXCEPT ![w] = NoFrame]
  /\ IF join_counter = 1
       THEN /\ next_frame_ff' = [next_frame_ff EXCEPT ![Leader] = Control]
            /\ UNCHANGED join_counter
       ELSE /\ join_counter' = join_counter - 1
            /\ UNCHANGED next_frame_ff
  /\ UNCHANGED <<ring, current_iter, test_condition, control_ff, resume_flags,
                 code, parent_resume, iter_ff_on_top>>

\* __cilkrts_piper_cleanup_extended_control_frame frees the ring.
CleanUp(w) ==
  /\ RunsControl(w, "cleanup")
  /\ cpc' = "done"
  /\ UNCHANGED <<ring, current_iter, test_condition, control_ff, join_counter,
                 resume_flags, code, worker>>

----------------------------------------------------------------------------
ControlStep(w) ==
  \/ InitIterFrame(w) \/ EndLoop(w)
  \/ ThrottleFast(w) \/ ThrottleSlow(w) \/ SuspendControl(w) \/ SetupNext(w)
  \/ SyncControl(w) \/ CleanUp(w)

UserStep(w, b) ==
  \/ \E t \in BOOLEAN : TestCondition(w, b, t)
  \/ \E s \in 1 .. MaxStage : Stage(w, b, s)
  \/ \E s \in 1 .. FinalStage : StageWait(w, b, s)

WaitStep(w, b) ==
  \/ CachedEnough(w, b) \/ ReadLeft(w, b) \/ Stall(w, b)
  \/ Promote(w, b) \/ AlreadyPromoted(w, b)
  \/ SuspendFails(w, b) \/ Suspend(w, b) \/ SuspendNext(w, b)

LeaveStep(w, b) ==
  \/ FinishFinalStage(w, b) \/ LeaveFrame(w, b)
  \/ AttachedDone(w, b) \/ AttachedFreeLeft(w, b) \/ AttachedFreeOwn(w, b)
  \/ ReturnLast(w, b) \/ ReturnOther(w, b)
  \/ FreeLeft(w, b) \/ StageDone(w, b) \/ CheckRight(w, b) \/ FreeOwn(w, b)

\* What worker w does by itself
Step(w) ==
  \/ ControlStep(w)
  \/ ResumeFrame(w)
  \/ \E b \in Blocks : UserStep(w, b) \/ WaitStep(w, b) \/ LeaveStep(w, b)

Steals(v) == \E w \in Workers : StealControl(v, w) \/ StealImplicitly(v, w)

\* The loop is over; the workers look for other work.
Over == cpc = "done" /\ UNCHANGED vars

Next ==
  \/ \E w \in Workers : Step(w) \/ Steals(w)
  \/ Over

Spec == Init /\ [][Next]_vars

\* A worker that can go on does.  Nothing is assumed of thieves.
FairSpec == Spec /\ \A w \in Workers : WF_vars(Step(w))

----------------------------------------------------------------------------
(* Properties *)

PCs == {"idle", "test", "user", "last", "wait", "stall", "promote", "suspend",
        "suspending", "asleep", "final", "leave", "attached_done",
        "attached_left", "attached_own", "return"} \cup Finishing

\* Every variable keeps its type: in particular no worker is given a frame
\* that does not exist and no counter leaves its range.
TypeOK ==
  /\ iter_num \in [Blocks -> -1 .. MaxIter + 1]
  /\ stage \in [Blocks -> 0 .. FinishStage]
  /\ cached_left_stage \in [Blocks -> 0 .. FinishStage]
  /\ cleanup_counter \in [Blocks -> 0 .. InitialVal]
  /\ iter_status \in [Blocks -> {"standard", "promoted", "suspended", "finished"}]
  /\ block_status \in [Blocks -> {"available", "in_use"}]
  /\ in_use \in [Blocks -> BOOLEAN]
  /\ current_iter \in 1 .. MaxIter + 2
  /\ test_condition \in BOOLEAN /\ control_ff \in BOOLEAN
  /\ join_counter \in 1 .. K
  /\ cpc \in {"loop", "body", "throttle", "slow", "setup", "sync", "cleanup",
              "done"}
  /\ resume_flags \in [Frames -> {"normal", "suspended", "resuming"}]
  /\ pc \in [Blocks -> PCs]
  /\ detached \in BOOLEAN
  /\ frame_ff \in [Workers -> Frames \cup {NoFrame}]
  /\ next_frame_ff \in [Workers -> Frames \cup {NoFrame}]
  /\ parent_resume \in [Workers -> {"none", "self", "throttle"}]
  /\ iter_ff_on_top \in [Workers -> BOOLEAN]

\* The iteration block b is reserved for or was last used by.
Reservation(i, b) == i - ((i - b) % K)    \* when the current iteration is i
Reserved(b) == Reservation(current_iter, b)

Started(b)  == iter_num[b] = Reserved(b)
OwnPending(b) == Reserved(b) >= 1 /\ (Started(b) => pc[b] # "idle")
DoneWithLeft(b) ==
  pc[b] \in {"idle", "stage_done", "check_right", "free_own", "attached_own"}
RightPending(b) ==
  \/ b = Current
  \/ /\ Reserved(b) >= 0
     /\ Started(Right(b)) => ~DoneWithLeft(Right(b))
ThrottlePending(b) == ~(b = NextBlock /\ cpc = "setup")

\* The cleanup counter of a block is exactly what is still to come: the end
\* of its iteration, the end of the next one, and the throttle point of the
\* iteration that will use it next ("3 updates to the cleanup counter").
CounterProtocol ==
  cpc \notin {"sync", "cleanup", "done"} => \A b \in Blocks :
    cleanup_counter[b] = (IF OwnPending(b) THEN FinishVal ELSE 0)
                       + (IF RightPending(b) THEN FinishVal ELSE 0)
                       + (IF ThrottlePending(b) THEN ThrottleVal ELSE 0)

\* Until an iteration has counted its end on its left block, that block holds the
\* iteration before it: its stage is what the waits read, not the stage of an
\* iteration that reuses the block.
LeftNeighbourStays ==
  \A b \in Blocks : ~DoneWithLeft(b) =>
    /\ iter_num[b] = Reserved(b)
    /\ iter_num[Left(b)] = iter_num[b] - 1

\* The cached stage of the left neighbour never runs ahead of its stage.
CachedStageIsOld ==
  \A b \in Blocks : ~DoneWithLeft(b) => cached_left_stage[b] <= stage[Left(b)]

\* A suspended iteration that may go on is never forgotten: the worker of its
\* left neighbour has yet to look to its right, and until then shows thieves
\* that there is something to look for.
NoLostWakeUp ==
  \A b \in Blocks : iter_status[b] = "suspended" /\ ~NeedToStall(b) =>
    \E w \in Workers :
      \/ /\ frame_ff[w] = Left(b)
         /\ iter_ff_on_top[w]
         /\ pc[Left(b)] # "free_own"
      \/ next_frame_ff[w] = Left(b)

\* Where the control frame is: running, queued, or implicitly on a deque.
Holders ==
  {<<w, "runs">> : w \in {v \in Workers : frame_ff[v] = Control}}
    \cup {<<w, "queued">> : w \in {v \in Workers : next_frame_ff[v] = Control}}
    \cup {<<w, "implicit">> : w \in {v \in Workers : parent_resume[v] # "none"}}

\* The control frame is never in two places (the source suspects that several
\* workers may hold the parent flag) and never lost: it is nowhere only while
\* an iteration that will find it is still running.
ControlHeldOnce ==
  /\ \A g, h \in Holders : g = h
  /\ Holders = {} =>
       \/ /\ cpc = "setup"
          /\ resume_flags[Control] = "suspended"
          /\ cleanup_counter[NextBlock] > 0
       \/ /\ cpc = "cleanup"
          /\ \E b \in Blocks : pc[b] # "idle"

\* A parent flag always matches the state of the control frame: "Someone else
\* beat us to the resume? Is this case even possible?" - it is not.
FlagMatchesControl ==
  \A w \in Workers :
    /\ parent_resume[w] = "self" => resume_flags[Control] = "normal"
    /\ parent_resume[w] = "throttle" => /\ resume_flags[Control] = "suspended"
                                        /\ cleanup_counter[NextBlock] = 0

\* An iteration that suspends takes the control frame without looking why it
\* waits: that is right only for one it has promoted itself.
SuspendTakesOwnControl ==
  \A w \in Workers, b \in Blocks :
    frame_ff[w] = b /\ pc[b] = "suspending" => parent_resume[w] # "throttle"

\* The assertions of the source along these paths, and that the ring of blocks
\* is freed only when no iteration is left that could touch it.
AssertionsHold ==
  /\ cpc = "done" => /\ \A b \in Blocks : pc[b] = "idle"
                     /\ \A w \in Workers : frame_ff[w] \notin Blocks
  /\ \A w \in Workers :
      /\ RunsControl(w, "loop") /\ test_condition =>
           /\ block_status[Current] = "in_use"
           /\ iter_status[Current] = "finished"
           /\ cleanup_counter[Current] = InitialVal
      /\ RunsControl(w, "slow") => control_ff
      /\ RunsControl(w, "setup") =>
           /\ block_status[NextBlock] = "available"
           /\ cleanup_counter[NextBlock] = 0
           /\ control_ff => join_counter < K
      /\ Stealable(w) =>
           /\ parent_resume[w] = "none" /\ ~iter_ff_on_top[w]
           /\ iter_status[Current] = "standard" /\ ~in_use[Current]
      /\ \A b \in Blocks : Executes(w, b) =>
           /\ pc[b] = "promote" /\ iter_status[b] # "promoted" => control_ff
           /\ pc[b] \in {"suspend", "suspending"} => frame_ff[w] = b
           /\ pc[b] = "return" =>
                /\ iter_ff_on_top[w]
                /\ join_counter = 1 => /\ parent_resume[w] = "none"
                                       /\ cpc = "cleanup"
           /\ pc[b] \in {"free_left", "attached_left"} =>
                stage[Left(b)] >= PostStage /\ block_status[Left(b)] = "in_use"
           /\ pc[b] = "attached_left" => cleanup_counter[Left(b)] > FinishVal
           /\ pc[b] = "attached_own" => cleanup_counter[b] > FinishVal
      /\ frame_ff[w] = NoFrame /\ next_frame_ff[w] = NoFrame =>
           parent_resume[w] = "none"
      /\ frame_ff[w] \in Blocks /\ pc[frame_ff[w]] \in {"suspending"} =>
           next_frame_ff[w] = NoFrame

\* No ring of block locks: an iteration that suspends or ends holds the lock of
\* its own block while it waits for the lock of the block to its right, and that
\* block is the first one again behind the last.  Not all blocks may be in such a
\* place at once.  What keeps one out is the control frame's lock: the iteration
\* that ends holds it from before it gives its left block free, and the iteration
\* that reuses that block is not suspended before it was stolen or promoted.
NoLockRing ==
  ~ \A b \in Blocks : pc[b] \in {"suspending", "check_right"}

\* Every pipe_while loop whose iterations end comes to its own end, even if
\* nobody ever steals: no wake-up is lost and no lock is waited for in a ring.
PipelineCompletes == <>(cpc = "done")

\* What the loop promises: module Pipeline
StageOf(i) ==
  IF i > current_iter \/ (i = current_iter /\ iter_num[Current] # i) THEN -1
  ELSE IF iter_num[Idx(i)] = i THEN stage[Idx(i)] ELSE FinishStage
WaitsAt(i) ==
  /\ iter_num[Idx(i)] = i
  /\ pc[Idx(i)] \in {"wait", "stall", "promote", "suspend", "suspending", "asleep"}

Promise == INSTANCE Pipeline WITH
  Window  <- K - 1,
  stage   <- [i \in 0 .. MaxIter + 1 |-> StageOf(i)],
  waiting <- [i \in 0 .. MaxIter + 1 |-> WaitsAt(i)],
  more    <- test_condition

\* The scheduler runs the iterations as the abstract pipeline allows: each
\* starts when the one before has left stage 0 and the window has room, and
\* passes a stage wait only behind its left neighbour.
ImplementsPipeline == Promise!Spec
=============================================================================
