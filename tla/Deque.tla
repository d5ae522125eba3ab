------------------------------- MODULE Deque -------------------------------
(***************************************************************************)
(* The deque of one worker under the THE protocol: the spawns and returns  *)
(* of its owner in runtime/cilk-abi.c, the steals and the locks of         *)
(* runtime/scheduler.c.                                                    *)
(*                                                                         *)
(* The owner spawns and returns without a lock.  It lowers tail before it  *)
(* looks at exc, a thief raises exc before it looks at tail; whoever sees  *)
(* the other one leaves the fast path, and the worker lock decides.        *)
(*                                                                         *)
(* The owner's stores wait in its store buffer (x86): other workers see    *)
(* them in order but late, until a fence or a locked instruction empties   *)
(* the buffer.  Thieves store only between locked instructions, so their   *)
(* stores need no buffer.  A frame is named by the number of its spawn.    *)
(* protected_tail stays ltq_limit, as DISABLE_PARALLEL_REDUCERS is 0.      *)
(***************************************************************************)
EXTENDS Integers, Sequences, FiniteSets

CONSTANTS
  Owner,      \* the worker the deque belongs to
  Thieves,    \* the others
  ltq_limit,  \* the number of slots
  MaxPush     \* bound: how many spawns there are

ASSUME OwnerAssumption  == Owner \notin Thieves
ASSUME NobodyAssumption == "nobody" \notin Thieves \cup {Owner}
ASSUME LimitAssumption  == ltq_limit \in Nat \ {0} /\ MaxPush \in Nat

Nobody == "nobody"
Frames == 1 .. MaxPush
Slots  == 0 .. ltq_limit - 1

VARIABLES
  head, tail, exc,            \* the deque
  ltq,                        \* its slots
  frame_ff,                   \* whether the deque has a full frame
  lock, steal_lock, do_not_steal,
  buffer,                     \* the owner's stores that are not in memory yet
  calls,                      \* the frames on the owner's stack, oldest first
  pc, task,                   \* where the owner is, and what it locks for
  tpc,                        \* where each thief is
  spawns,                     \* frames spawned so far
  taken,                      \* who has taken each frame
  passed                      \* thieves that took the lock since the owner's flag

memory == <<head, tail, exc, ltq, frame_ff>>
locks  == <<lock, steal_lock, do_not_steal>>
owner  == <<buffer, calls, pc, task, spawns>>
vars   == <<memory, locks, owner, tpc, taken, passed>>

Stores == [var : {"tail", "slot", "frame", "flag"}, at : Slots,
           val : -1 .. MaxPush + ltq_limit]

TypeOK ==
  /\ head \in 0 .. ltq_limit /\ tail \in -1 .. ltq_limit
  /\ exc \in 0 .. ltq_limit + 1
  /\ ltq \in [Slots -> Frames \cup {0}]
  /\ frame_ff \in BOOLEAN
  /\ lock \in Thieves \cup {Owner, Nobody}
  /\ steal_lock \in Thieves \cup {Nobody}
  /\ do_not_steal \in BOOLEAN
  /\ buffer \in Seq(Stores)
  /\ calls \in Seq(Frames) /\ Len(calls) <= ltq_limit
  /\ pc \in {"run", "undone", "test", "flag", "acquire", "locked", "compare",
             "unlock", "unflag", "leaving", "search"}
  /\ task \in {"check", "orphan", "leave", "setup"}
  /\ tpc \in [Thieves -> {"idle", "contend", "peek", "try", "locked", "look",
                          "detach", "retreat", "unlock"}]
  /\ spawns \in 0 .. MaxPush
  /\ taken \in [Frames -> SUBSET (Thieves \cup {Owner})]
  /\ passed \in Nat

\* a worker that has just set up a full frame
Init ==
  /\ head = 0 /\ tail = 0 /\ exc = 0
  /\ ltq = [s \in Slots |-> 0]
  /\ frame_ff = TRUE
  /\ lock = Nobody /\ steal_lock = Nobody /\ do_not_steal = FALSE
  /\ buffer = <<>> /\ calls = <<>>
  /\ pc = "run" /\ task = "check"
  /\ tpc = [t \in Thieves |-> "idle"]
  /\ spawns = 0
  /\ taken = [f \in Frames |-> {}]
  /\ passed = 0

TakenBy(f, w) == taken' = [taken EXCEPT ![f] = @ \cup {w}]

----------------------------------------------------------------------------
(* The owner's store buffer                                                *)

StoreTail(n)    == <<[var |-> "tail", at |-> 0, val |-> n]>>
StoreSlot(n, f) == <<[var |-> "slot", at |-> n, val |-> f]>>
StoreNoFrame    == <<[var |-> "frame", at |-> 0, val |-> 0]>>
ClearedFlag     == <<[var |-> "flag", at |-> 0, val |-> 0]>>
Drained == buffer = <<>>

\* the oldest store reaches memory
Commit ==
  /\ buffer # <<>>
  /\ LET s == Head(buffer)
     IN /\ tail' = IF s.var = "tail" THEN s.val ELSE tail
        /\ ltq' = IF s.var = "slot" THEN [ltq EXCEPT ![s.at] = s.val] ELSE ltq
        /\ frame_ff' = (frame_ff /\ s.var # "frame")
        /\ do_not_steal' = (do_not_steal /\ s.var # "flag")
  /\ buffer' = Tail(buffer)
  /\ UNCHANGED <<head, exc, lock, steal_lock, calls, pc, task, tpc, spawns, taken,
                 passed>>

----------------------------------------------------------------------------
(* The owner: spawn, return, the slow path of a return                     *)

Goto(from, to) == pc = from /\ pc' = to

\* __cilkrts_detach: the frame into the slot, then the tail
CanPush == spawns < MaxPush /\ Len(calls) < ltq_limit

Push ==
  /\ pc = "run" /\ CanPush
  /\ buffer' = buffer \o StoreSlot(Len(calls), spawns + 1)
                      \o StoreTail(Len(calls) + 1)
  /\ calls' = Append(calls, spawns + 1)
  /\ spawns' = spawns + 1
  /\ UNCHANGED <<memory, locks, pc, task, tpc, taken, passed>>

\* __cilkrts_undo_detach: lower the tail, below the first slot if the frame to
\* return to was stolen before this worker had the child ...
UndoDetach ==
  /\ Goto("run", "undone")
  /\ buffer' = buffer \o StoreTail(Len(calls) - 1)
  /\ UNCHANGED <<memory, locks, calls, task, tpc, spawns, taken, passed>>

\* Variant: the flags are cleared without a locked instruction.
UndoFenceless ==
  /\ Goto("undone", "test")
  /\ UNCHANGED <<memory, locks, buffer, calls, task, tpc, spawns, taken, passed>>

\* ... the locked instruction that clears CILK_FRAME_DETACHED ...
UndoFence ==
  /\ Drained
  /\ Goto("undone", "test")
  /\ UNCHANGED <<memory, locks, buffer, calls, task, tpc, spawns, taken, passed>>

Top     == calls[Len(calls)]
Pop     == calls' = SubSeq(calls, 1, Len(calls) - 1)
ReturnToCaller == Pop /\ TakenBy(Top, Owner)

\* ... and the test t < exc: return to the caller, or find out under the lock
TestExc ==
  /\ pc = "test"
  /\ IF Len(calls) - 1 < exc
       THEN pc' = "flag" /\ task' = "check" /\ UNCHANGED <<calls, taken>>
       ELSE pc' = "run" /\ ReturnToCaller /\ UNCHANGED task
  /\ UNCHANGED <<memory, locks, buffer, tpc, spawns, passed>>

\* __cilkrts_worker_lock: tell thieves to stay out of the way ...
SetFlag ==
  /\ Drained
  /\ Goto("flag", "acquire")
  /\ do_not_steal' = TRUE
  /\ passed' = 0
  /\ UNCHANGED <<memory, lock, steal_lock, buffer, calls, task, tpc, spawns, taken>>

\* ... and spin for the lock
Acquire ==
  /\ lock = Nobody
  /\ Goto("acquire", "locked")
  /\ lock' = Owner
  /\ UNCHANGED <<memory, steal_lock, do_not_steal, buffer, calls, task, tpc,
                 spawns, taken, passed>>

\* __cilkrts_c_THE_exception_check: reset_THE_exception ...
ResetExc ==
  /\ task = "check" /\ Goto("locked", "compare")
  /\ exc' = head
  /\ UNCHANGED <<head, tail, ltq, frame_ff, locks, buffer, calls, task, tpc,
                 spawns, taken, passed>>

\* Variant: the comparison forgets that the tail was already lowered.
StolenUnlowered == ~ (head < Len(calls) - 1)

\* ... and stolen_p
Stolen == ~ (head < Len(calls) - 1 + 1)

\* the parent was stolen: the stack is given up, the deque is empty again
Orphaned ==
  /\ Stolen
  /\ Goto("compare", "unlock")
  /\ buffer' = buffer \o StoreTail(Len(calls))
  /\ calls' = <<>>
  /\ task' = "orphan"
  /\ UNCHANGED <<memory, locks, tpc, spawns, taken, passed>>

\* a thief came close but has nothing: return to the caller after all
NotStolen ==
  /\ ~Stolen
  /\ Goto("compare", "unlock")
  /\ ReturnToCaller
  /\ UNCHANGED <<memory, locks, buffer, task, tpc, spawns, passed>>

\* __cilkrts_worker_unlock
Unlock ==
  /\ Drained
  /\ Goto("unlock", "unflag")
  /\ lock' = Nobody
  /\ UNCHANGED <<memory, steal_lock, do_not_steal, buffer, calls, task, tpc,
                 spawns, taken, passed>>

\* what the owner does after it has unlocked
After == CASE task = "orphan" -> "leaving"
           [] task = "leave"  -> "search"
           [] OTHER           -> "run"

ClearFlag ==
  /\ Goto("unflag", After)
  /\ buffer' = buffer \o ClearedFlag
  /\ UNCHANGED <<memory, locks, calls, task, tpc, spawns, taken, passed>>

----------------------------------------------------------------------------
(* The owner: the end of a full frame and the next one                     *)

\* __cilkrts_c_sync: a full frame has to wait; it has no spawned child left here
Sync ==
  /\ calls = <<>>
  /\ Goto("run", "leaving")
  /\ UNCHANGED <<memory, locks, buffer, calls, task, tpc, spawns, taken, passed>>

\* run_scheduling_stack_fcn takes the full frame off the deque without a lock ...
GiveUpFrame ==
  /\ Goto("leaving", "flag")
  /\ buffer' = buffer \o StoreNoFrame
  /\ task' = "leave"
  /\ UNCHANGED <<memory, locks, calls, tpc, spawns, taken, passed>>

\* ... and do_sync or do_return_from_spawn deals with it under the lock
DealWithFrame ==
  /\ task = "leave" /\ Goto("locked", "unlock")
  /\ UNCHANGED <<memory, locks, buffer, calls, task, tpc, spawns, taken, passed>>

\* the scheduling loop has found a full frame to run
FindFrame ==
  /\ Goto("search", "flag")
  /\ task' = "setup"
  /\ UNCHANGED <<memory, locks, buffer, calls, tpc, spawns, taken, passed>>

\* finish_setup_for_execution
Setup ==
  /\ task = "setup" /\ Goto("locked", "unlock")
  /\ head' = 0 /\ tail' = 0 /\ exc' = 0 /\ frame_ff' = TRUE
  /\ UNCHANGED <<ltq, locks, buffer, calls, task, tpc, spawns, taken, passed>>

----------------------------------------------------------------------------
(* A thief: random_steal                                                   *)

TGoto(t, from, to) == tpc[t] = from /\ tpc' = [tpc EXCEPT ![t] = to]

CanSteal == head < tail /\ head < ltq_limit

\* can_steal_from, without a lock: nothing there, or worth trying
FindNothing(t) == tpc[t] = "idle" /\ ~CanSteal /\ UNCHANGED vars

QuickCheck(t) ==
  /\ CanSteal
  /\ TGoto(t, "idle", "contend")
  /\ UNCHANGED <<memory, locks, owner, taken, passed>>

\* worker_trylock_other: compete for the right to disturb the owner
Contend(t) ==
  /\ IF steal_lock = Nobody
       THEN TGoto(t, "contend", "peek") /\ steal_lock' = t
       ELSE TGoto(t, "contend", "idle") /\ UNCHANGED steal_lock
  /\ UNCHANGED <<memory, lock, do_not_steal, owner, taken, passed>>

\* Variant: the flag is not looked at.
PeekAway(t) ==
  /\ TGoto(t, "peek", "try") /\ UNCHANGED steal_lock
  /\ UNCHANGED <<memory, lock, do_not_steal, owner, taken, passed>>

\* leave the owner alone if it asks for that
Peek(t) ==
  /\ IF do_not_steal
       THEN TGoto(t, "peek", "idle") /\ steal_lock' = Nobody
       ELSE TGoto(t, "peek", "try") /\ UNCHANGED steal_lock
  /\ UNCHANGED <<memory, lock, do_not_steal, owner, taken, passed>>

TryLock(t) ==
  /\ IF lock = Nobody
       THEN /\ TGoto(t, "try", "locked")
            /\ lock' = t
            /\ passed' = IF do_not_steal THEN passed + 1 ELSE passed
       ELSE TGoto(t, "try", "idle") /\ UNCHANGED <<lock, passed>>
  /\ steal_lock' = Nobody
  /\ UNCHANGED <<memory, do_not_steal, owner, taken>>

\* dekker_protocol: announce the theft (increment_E) ...
IncrementE(t) ==
  /\ IF frame_ff
       THEN TGoto(t, "locked", "look") /\ exc' = exc + 1
       ELSE TGoto(t, "locked", "unlock") /\ UNCHANGED exc
  /\ UNCHANGED <<head, tail, ltq, frame_ff, locks, owner, taken, passed>>

\* ... then look: can_steal_from
Look(t) ==
  /\ TGoto(t, "look", IF CanSteal THEN "detach" ELSE "retreat")
  /\ UNCHANGED <<memory, locks, owner, taken, passed>>

\* detach_for_steal; the owner goes on with a child in place of its frame
Detach(t) ==
  /\ TGoto(t, "detach", "unlock")
  /\ head' = head + 1
  /\ TakenBy(ltq[head], t)
  /\ UNCHANGED <<tail, exc, ltq, frame_ff, locks, owner, passed>>

\* the log that is replayed says that this is not the frame to steal
Mismatch(t) ==
  /\ TGoto(t, "detach", "retreat")
  /\ UNCHANGED <<memory, locks, owner, taken, passed>>

\* Variant: the announcement stands after a failed steal.
RetreatKeepsExc(t) ==
  /\ TGoto(t, "retreat", "unlock")
  /\ UNCHANGED <<memory, locks, owner, taken, passed>>

\* Variant: a thief that has nothing forgets the lock.
RetreatKeepsLock(t) ==
  /\ TGoto(t, "retreat", "idle")
  /\ exc' = exc - 1
  /\ UNCHANGED <<head, tail, ltq, frame_ff, locks, owner, taken, passed>>

\* decrement_E
Retreat(t) ==
  /\ TGoto(t, "retreat", "unlock")
  /\ exc' = exc - 1
  /\ UNCHANGED <<head, tail, ltq, frame_ff, locks, owner, taken, passed>>

UnlockOther(t) ==
  /\ TGoto(t, "unlock", "idle")
  /\ lock' = Nobody
  /\ UNCHANGED <<memory, steal_lock, do_not_steal, owner, taken, passed>>

----------------------------------------------------------------------------
Return ==
  UndoFence \/ TestExc \/ SetFlag \/ Acquire \/ ResetExc \/ Orphaned
    \/ NotStolen \/ Unlock \/ ClearFlag \/ GiveUpFrame \/ DealWithFrame \/ Setup

Own == Push \/ UndoDetach \/ Sync \/ FindFrame \/ Return

Approach(t) == FindNothing(t) \/ QuickCheck(t) \/ Contend(t)

Steal(t) ==
  Peek(t) \/ TryLock(t) \/ IncrementE(t) \/ Look(t) \/ Detach(t) \/ Mismatch(t)
    \/ Retreat(t) \/ UnlockOther(t)

Next == Commit \/ Own \/ \E t \in Thieves : Approach(t) \/ Steal(t)

Spec == Init /\ [][Next]_vars

\* A thread in the middle of a return or of a steal goes on; stores reach
\* memory.  Nothing is said about who gets a lock, nor about new spawns.
FairSpec ==
  /\ Spec
  /\ WF_vars(Commit) /\ WF_vars(Return)
  /\ \A t \in Thieves : WF_vars(Steal(t))

----------------------------------------------------------------------------
(* Properties                                                              *)

\* While the owner waits for its lock at most one thief gets it first: the one
\* that had already read do_not_steal (worker_trylock_other promises this).
AtMostOnePasses == pc = "acquire" => passed <= 1

\* The comments of dekker_protocol: exc is never behind head, and it is ahead
\* of it only while a thief that holds the lock makes up its mind.
ExcFollowsHead ==
  /\ exc >= head
  /\ lock = Nobody => exc = head

\* The claim of __cilkrts_c_sync, which reads the full frame without a lock, and
\* the conjecture above BEGIN_WITH_WORKER_LOCK_OPTIONAL that a worker whose
\* deque is empty needs no lock: no thief replaces its full frame.
EmptyIsLeftAlone == calls = <<>> => \A t \in Thieves : tpc[t] # "detach"

\* The owner always gets back to its program or to the search for work, however
\* many thieves disturb it: every return, sync and set-up comes to an end.
OwnerGoesOn == pc \notin {"run", "search"} ~> pc \in {"run", "search"}

\* What the deque promises: module WorkQueue.  A frame waits from its spawn on,
\* stored or still in the buffer, until the owner or a thief has decided.
Promise == INSTANCE WorkQueue WITH
  queue <- SubSeq(calls, head + 1, Len(calls))

\* Every frame is taken once, thieves take the oldest one, and a worker gives
\* its stack up only when nothing is left of it.
ImplementsQueue == Promise!Spec
=============================================================================
