---------------------------- MODULE Deque_proofs ----------------------------
(***************************************************************************)
(* Proofs about Deque, for any number of thieves, any size of the deque    *)
(* and any number of spawns: who disturbs whom, and that with the owner's  *)
(* store buffer between them owner and thieves still never take the same   *)
(* frame.                                                                  *)
(***************************************************************************)
EXTENDS Deque, SequenceTheorems, TLAPS

USE DEF Nobody

----------------------------------------------------------------------------
(* The inductive invariant                                                 *)

Inside  == {"locked", "look", "detach", "retreat", "unlock"}
Decides == {"look", "detach", "retreat"}

\* A lock is held by the one who is between taking and releasing it.
LocksHeld ==
  /\ \A t \in Thieves : lock = t <=> tpc[t] \in Inside
  /\ \A t \in Thieves : steal_lock = t <=> tpc[t] \in {"peek", "try"}
  /\ lock = Owner <=> pc \in {"locked", "compare", "unlock"}

\* exc is ahead of head exactly while a thief decides.
ExcExact ==
  exc = IF \E t \in Thieves : tpc[t] \in Decides THEN head + 1 ELSE head

\* Once the flag is seen by all, only the thief that has looked already passes.
FlagSeen ==
  pc = "acquire" =>
    /\ do_not_steal
    /\ \/ passed = 0
       \/ passed = 1 /\ \A t \in Thieves : tpc[t] # "try"

\* The owner's stack by its place in the code.
HasNoStack ==
  \/ pc \in {"leaving", "search"}
  \/ task # "check" /\ pc \in {"flag", "acquire", "locked", "unlock", "unflag"}

StackFits == HasNoStack => calls = <<>>

\* The worker is between two full frames, and head is left over from the last.
BetweenFrames ==
  \/ pc \in {"leaving", "search"}
  \/ task # "check" /\ pc \in {"flag", "acquire", "locked"}
  \/ task \in {"orphan", "leave"} /\ pc \in {"unlock", "unflag"}

HeadOnStack == BetweenFrames \/ head <= Len(calls)

Lowered ==
  pc = "test" \/ (task = "check" /\ pc \in {"flag", "acquire", "locked", "compare"})

IsTail(k) == buffer[k].var = "tail"
IsSlot(k) == buffer[k].var = "slot"

\* When the owner's stores have to be in memory, and what tail is then.
BufferFits ==
  /\ pc \in {"acquire", "locked", "compare"} => buffer = <<>>
  /\ pc = "compare" => task = "check"
  /\ Lowered => buffer = <<>> /\ tail = Len(calls) - 1
  /\ pc = "undone" =>
       IF buffer = <<>> THEN tail = Len(calls) - 1
       ELSE IsTail(Len(buffer)) /\ buffer[Len(buffer)].val = Len(calls) - 1

\* No tail, in memory or on its way there, shows thieves more than the stack.
NoTailTooHigh ==
  /\ tail <= Len(calls) \/ (BetweenFrames /\ tail <= head)
  /\ \A k \in 1 .. Len(buffer) : IsTail(k) =>
       /\ buffer[k].val \in -1 .. ltq_limit
       /\ buffer[k].val <= Len(calls) \/ (BetweenFrames /\ buffer[k].val <= head)

\* Frames reach their slots before the tail that covers them.
SlotsMatch ==
  /\ \A k \in 1 .. Len(buffer) : IsSlot(k) =>
       buffer[k].at < Len(calls) /\ buffer[k].val = calls[buffer[k].at + 1]
  /\ \A i \in 1 .. Len(calls) :
       i <= tail => ltq[i - 1] = calls[i]
  /\ \A k \in 1 .. Len(buffer) : IsTail(k) =>
       \A i \in 1 .. Len(calls) : i <= buffer[k].val =>
         \/ ltq[i - 1] = calls[i]
         \/ \E j \in 1 .. k - 1 : IsSlot(j) /\ buffer[j].at = i - 1
  /\ \A i \in 1 .. Len(calls) :
       \/ ltq[i - 1] = calls[i]
       \/ \E j \in 1 .. Len(buffer) : IsSlot(j) /\ buffer[j].at = i - 1

\* What a thief is about to take is on the owner's stack, and is in its slot.
TheftIsSafe ==
  \A t \in Thieves : tpc[t] = "detach" =>
    /\ head < ltq_limit
    /\ head < Len(calls)
    /\ ltq[head] = calls[head + 1]

Inv == /\ TypeOK /\ LocksHeld /\ ExcExact /\ FlagSeen /\ StackFits /\ HeadOnStack
       /\ BufferFits /\ NoTailTooHigh /\ SlotsMatch /\ TheftIsSafe

----------------------------------------------------------------------------
(* Sequences                                                               *)

\* What is known of a store buffer to which a store is added.
LEMMA AddStore ==
  ASSUME NEW b \in Seq(Stores), NEW x \in Stores
  PROVE  /\ b \o <<x>> \in Seq(Stores)
         /\ Len(b \o <<x>>) = Len(b) + 1
         /\ \A k \in 1 .. Len(b) : (b \o <<x>>)[k] = b[k]
         /\ (b \o <<x>>)[Len(b) + 1] = x
  OBVIOUS

\* What is known of a store buffer whose oldest store is gone.
LEMMA DropStore ==
  ASSUME NEW b \in Seq(Stores), b # <<>>
  PROVE  /\ Head(b) = b[1] /\ b[1] \in Stores
         /\ Tail(b) \in Seq(Stores)
         /\ Len(Tail(b)) = Len(b) - 1
         /\ \A k \in 1 .. Len(b) - 1 : Tail(b)[k] = b[k + 1]
  OBVIOUS

\* The stack after a spawn and after a return.
LEMMA StackOps ==
  ASSUME NEW c \in Seq(Frames)
  PROVE  /\ \A f \in Frames : /\ Append(c, f) \in Seq(Frames)
                              /\ Len(Append(c, f)) = Len(c) + 1
                              /\ \A i \in 1 .. Len(c) : Append(c, f)[i] = c[i]
                              /\ Append(c, f)[Len(c) + 1] = f
         /\ c # <<>> => /\ SubSeq(c, 1, Len(c) - 1) \in Seq(Frames)
                        /\ Len(SubSeq(c, 1, Len(c) - 1)) = Len(c) - 1
                        /\ \A i \in 1 .. Len(c) - 1 : SubSeq(c, 1, Len(c) - 1)[i] = c[i]
         /\ c = <<>> => SubSeq(c, 1, Len(c) - 1) = <<>>
         /\ c = <<>> <=> Len(c) = 0
<1>1. \A f \in Frames : /\ Append(c, f) \in Seq(Frames)
                        /\ Len(Append(c, f)) = Len(c) + 1
                        /\ \A i \in 1 .. Len(c) : Append(c, f)[i] = c[i]
                        /\ Append(c, f)[Len(c) + 1] = f
  OBVIOUS
<1>2. c # <<>> => /\ SubSeq(c, 1, Len(c) - 1) \in Seq(Frames)
                  /\ Len(SubSeq(c, 1, Len(c) - 1)) = Len(c) - 1
                  /\ \A i \in 1 .. Len(c) - 1 : SubSeq(c, 1, Len(c) - 1)[i] = c[i]
  <2> DEFINE n == Len(c) - 1
  <2>1. n \in Int /\ \A i \in 1 .. n : c[i] \in Frames
    OBVIOUS
  <2>2. c # <<>> => n >= 0
    OBVIOUS
  <2> HIDE DEF n
  <2>3. /\ SubSeq(c, 1, n) \in Seq(Frames)
        /\ Len(SubSeq(c, 1, n)) = IF 1 <= n THEN n - 1 + 1 ELSE 0
        /\ \A i \in 1 .. n - 1 + 1 : SubSeq(c, 1, n)[i] = c[1 + i - 1]
    BY <2>1, SubSeqProperties
  <2>4. c # <<>> => /\ SubSeq(c, 1, n) \in Seq(Frames)
                    /\ Len(SubSeq(c, 1, n)) = n
                    /\ \A i \in 1 .. n : SubSeq(c, 1, n)[i] = c[i]
    BY <2>1, <2>2, <2>3
  <2>5. QED BY <2>4 DEF n
<1>3. c = <<>> => SubSeq(c, 1, Len(c) - 1) = <<>>
  OBVIOUS
<1>4. c = <<>> <=> Len(c) = 0
  OBVIOUS
<1>5. QED BY <1>1, <1>2, <1>3, <1>4

----------------------------------------------------------------------------
(* The initial state                                                       *)

\* Inv holds of a worker that has just set up a full frame.
LEMMA InitInv == Init => Inv
<1> SUFFICES ASSUME Init PROVE Inv
  OBVIOUS
<1> USE OwnerAssumption, NobodyAssumption, LimitAssumption DEF Init
<1>1. TypeOK
  <2>1. 0 \in 0 .. ltq_limit /\ 0 \in -1 .. ltq_limit /\ 0 \in 0 .. ltq_limit + 1
        /\ 0 \in 0 .. MaxPush /\ 0 \in Nat /\ Len(calls) <= ltq_limit
    OBVIOUS
  <2>2. buffer \in Seq(Stores) /\ calls \in Seq(Frames)
    OBVIOUS
  <2>3. QED BY <2>1, <2>2, Zenon DEF TypeOK
<1>2. LocksHeld BY DEF LocksHeld, Inside
<1>3. ExcExact BY DEF ExcExact, Decides
<1>4. FlagSeen /\ StackFits /\ HeadOnStack
  BY DEF FlagSeen, StackFits, HasNoStack, HeadOnStack
<1>5. BufferFits BY DEF BufferFits, Lowered
<1>6. NoTailTooHigh /\ SlotsMatch BY DEF NoTailTooHigh, SlotsMatch
<1>7. TheftIsSafe BY DEF TheftIsSafe
<1>8. QED BY <1>1, <1>2, <1>3, <1>4, <1>5, <1>6, <1>7 DEF Inv

----------------------------------------------------------------------------
(* Types                                                                   *)

\* Every step keeps the types; slots and tails come from the buffer.
LEMMA TypeStep == Inv /\ Next => TypeOK'
<1> SUFFICES ASSUME Inv, Next PROVE TypeOK'
  OBVIOUS
<1> USE LimitAssumption DEF Inv, memory, locks
<1>1. CASE Commit
  <2>1. /\ Head(buffer) \in Stores /\ Tail(buffer) \in Seq(Stores)
        /\ Head(buffer) = buffer[1] /\ Len(buffer) \in Nat /\ Len(buffer) >= 1
    BY <1>1, DropStore DEF Commit, TypeOK
  <2>2. Head(buffer).var = "tail" => Head(buffer).val \in -1 .. ltq_limit
    BY <2>1 DEF NoTailTooHigh, IsTail
  <2>3. Head(buffer).var = "slot" =>
          Head(buffer).at \in Slots /\ Head(buffer).val \in Frames
    BY <2>1 DEF SlotsMatch, IsSlot, TypeOK, Stores, Slots
  <2>4. QED BY <1>1, <2>1, <2>2, <2>3 DEF Commit, TypeOK
<1>2. CASE Push
  <2>1. /\ [var |-> "slot", at |-> Len(calls), val |-> spawns + 1] \in Stores
        /\ [var |-> "tail", at |-> 0, val |-> Len(calls) + 1] \in Stores
        /\ spawns + 1 \in Frames
    BY <1>2 DEF Push, CanPush, TypeOK, Stores, Slots, Frames
  <2>2. buffer' \in Seq(Stores)
    BY <1>2, <2>1, AddStore DEF Push, StoreSlot, StoreTail, TypeOK
  <2>3. calls' \in Seq(Frames) /\ Len(calls') <= ltq_limit
    BY <1>2, <2>1, StackOps DEF Push, CanPush, TypeOK
  <2>4. QED BY <1>2, <2>1, <2>2, <2>3 DEF Push, TypeOK, Frames
<1>3. CASE UndoDetach
  <2>1. [var |-> "tail", at |-> 0, val |-> Len(calls) - 1] \in Stores
    BY DEF TypeOK, Stores, Slots
  <2>2. buffer' \in Seq(Stores)
    BY <1>3, <2>1, AddStore DEF UndoDetach, StoreTail, TypeOK
  <2>3. QED BY <1>3, <2>2 DEF UndoDetach, Goto, TypeOK
<1>4. CASE TestExc \/ NotStolen
  <2>1. SubSeq(calls, 1, Len(calls) - 1) \in Seq(Frames)
        /\ Len(SubSeq(calls, 1, Len(calls) - 1)) <= ltq_limit
    BY StackOps DEF TypeOK
  <2>2. [taken EXCEPT ![Top] = @ \cup {Owner}] \in [Frames -> SUBSET (Thieves \cup {Owner})]
    BY DEF TypeOK
  <2>3. QED BY <1>4, <2>1, <2>2
            DEF TestExc, NotStolen, Goto, ReturnToCaller, Pop, TakenBy, TypeOK
<1>5. CASE Orphaned
  <2>1. [var |-> "tail", at |-> 0, val |-> Len(calls)] \in Stores
    BY DEF TypeOK, Stores, Slots
  <2>2. buffer' \in Seq(Stores)
    BY <1>5, <2>1, AddStore DEF Orphaned, StoreTail, TypeOK
  <2>3. QED BY <1>5, <2>2 DEF Orphaned, Goto, TypeOK
<1>6. CASE ClearFlag \/ GiveUpFrame
  <2>1. /\ [var |-> "flag", at |-> 0, val |-> 0] \in Stores
        /\ [var |-> "frame", at |-> 0, val |-> 0] \in Stores
    BY DEF Stores, Slots
  <2>2. buffer' \in Seq(Stores)
    <3>1. buffer' = buffer \o ClearedFlag \/ buffer' = buffer \o StoreNoFrame
      BY <1>6 DEF ClearFlag, GiveUpFrame
    <3>2. buffer \in Seq(Stores) BY DEF TypeOK
    <3>3. QED BY <2>1, <3>1, <3>2, AddStore DEF ClearedFlag, StoreNoFrame
  <2>3. QED BY <1>6, <2>2 DEF ClearFlag, GiveUpFrame, After, Goto, TypeOK
<1>7. CASE \/ Sync \/ FindFrame \/ UndoFence \/ SetFlag \/ Acquire \/ ResetExc
           \/ Unlock \/ DealWithFrame \/ Setup
  <2> USE DEF Goto, TypeOK
  <2>1. CASE Sync \/ UndoFence BY <2>1 DEF Sync, UndoFence
  <2>2. CASE FindFrame BY <2>2 DEF FindFrame
  <2>3. CASE SetFlag BY <2>3 DEF SetFlag
  <2>4. CASE Acquire BY <2>4 DEF Acquire
  <2>5. CASE ResetExc BY <2>5 DEF ResetExc
  <2>6. CASE Unlock BY <2>6 DEF Unlock
  <2>7. CASE DealWithFrame BY <2>7 DEF DealWithFrame
  <2>8. CASE Setup BY <2>8 DEF Setup
  <2>9. QED BY <1>7, <2>1, <2>2, <2>3, <2>4, <2>5, <2>6, <2>7, <2>8
<1>8. ASSUME NEW t \in Thieves, Approach(t) \/ Steal(t)
      PROVE  TypeOK'
  <2>1. CASE FindNothing(t) BY <2>1 DEF FindNothing, vars, memory, locks, owner, TypeOK
  <2>2. CASE QuickCheck(t) \/ Contend(t) \/ Peek(t) \/ TryLock(t)
    BY SMTT(60), <2>2 DEF QuickCheck, Contend, Peek, TryLock, TGoto, memory, locks, owner, TypeOK
  <2>3. CASE IncrementE(t)
    <3>1. exc + 1 \in 0 .. ltq_limit + 1 \/ UNCHANGED exc
      BY <2>3 DEF IncrementE, ExcExact, TypeOK, TGoto, Decides, LocksHeld, Inside
    <3>2. QED BY SMTT(60), <2>3, <3>1 DEF IncrementE, TGoto, locks, owner, TypeOK
  <2>4. CASE Look(t) \/ Mismatch(t) \/ UnlockOther(t)
    BY <2>4, SMTT(60) DEF Look, Mismatch, UnlockOther, TGoto, memory, locks, owner, TypeOK
  <2>5. CASE Detach(t)
    <3>1. head + 1 \in 0 .. ltq_limit
      BY <2>5 DEF Detach, TGoto, TheftIsSafe, TypeOK
    <3>2. taken' \in [Frames -> SUBSET (Thieves \cup {Owner})]
      BY <2>5 DEF Detach, TakenBy, TypeOK
    <3>3. QED BY <2>5, <3>1, <3>2 DEF Detach, TGoto, locks, owner, TypeOK
  <2>6. CASE Retreat(t)
    <3>1. exc - 1 \in 0 .. ltq_limit + 1
      BY <2>6 DEF Retreat, TGoto, ExcExact, Decides, TypeOK
    <3>2. QED BY <2>6, <3>1 DEF Retreat, TGoto, locks, owner, TypeOK
  <2>7. QED BY <1>8, <2>1, <2>2, <2>3, <2>4, <2>5, <2>6 DEF Approach, Steal
<1>9. QED BY <1>1, <1>2, <1>3, <1>4, <1>5, <1>6, <1>7, <1>8 DEF Next, Own, Return

----------------------------------------------------------------------------
(* Locks, the exception pointer and do_not_steal                           *)

\* Locks are taken free and released by their holder.
LEMMA LockStep == Inv /\ Next => LocksHeld'
<1> SUFFICES ASSUME Inv, Next PROVE LocksHeld'
  OBVIOUS
<1>0. TypeOK /\ LocksHeld
  BY DEF Inv
<1> USE OwnerAssumption, NobodyAssumption, <1>0 DEF TypeOK, LocksHeld, Inside, memory, locks
<1>1. CASE Commit \/ Push BY <1>1 DEF Commit, Push
<1>2. CASE UndoDetach \/ Sync \/ FindFrame \/ UndoFence \/ TestExc \/ SetFlag
  BY <1>2 DEF UndoDetach, Sync, FindFrame, UndoFence, TestExc, SetFlag, Goto
<1>3. CASE Acquire BY <1>3 DEF Acquire, Goto
<1>4. CASE ResetExc \/ Orphaned \/ NotStolen \/ GiveUpFrame \/ DealWithFrame \/ Setup
  BY <1>4 DEF ResetExc, Orphaned, NotStolen, GiveUpFrame, DealWithFrame, Setup, Goto
<1>5. CASE Unlock BY <1>5 DEF Unlock, Goto
<1>6. CASE ClearFlag
  <2>1. pc' \notin {"locked", "compare", "unlock"} /\ pc = "unflag"
    BY <1>6, Zenon DEF ClearFlag, Goto, After
  <2>2. QED BY <1>6, <2>1 DEF ClearFlag
<1>7. ASSUME NEW t \in Thieves, Approach(t) \/ Steal(t)
      PROVE  LocksHeld'
  <2> USE DEF owner, TGoto
  <2>1. CASE FindNothing(t) BY <2>1 DEF FindNothing, vars
  <2>2. CASE QuickCheck(t) BY <2>2 DEF QuickCheck
  <2>3. CASE Contend(t) BY <2>3 DEF Contend
  <2>4. CASE Peek(t) BY <2>4 DEF Peek
  <2>5. CASE TryLock(t) BY <2>5 DEF TryLock
  <2>6. CASE IncrementE(t) BY <2>6 DEF IncrementE
  <2>7. CASE Look(t) \/ Mismatch(t) BY <2>7 DEF Look, Mismatch
  <2>8. CASE Detach(t) BY <2>8 DEF Detach
  <2>9. CASE Retreat(t) BY <2>9 DEF Retreat
  <2>10. CASE UnlockOther(t) BY <2>10 DEF UnlockOther
  <2>11. QED BY <1>7, <2>1, <2>2, <2>3, <2>4, <2>5, <2>6, <2>7, <2>8, <2>9, <2>10
             DEF Approach, Steal
<1>8. QED BY <1>1, <1>2, <1>3, <1>4, <1>5, <1>6, <1>7 DEF Next, Own, Return

\* The lock excludes: at most one thief decides, and none while the owner is in.
LEMMA OneDecides ==
  ASSUME TypeOK, LocksHeld
  PROVE  /\ \A t, u \in Thieves : tpc[t] \in Inside /\ tpc[u] \in Inside => t = u
         /\ pc \in {"locked", "compare", "unlock"} => \A t \in Thieves : tpc[t] \notin Inside
  BY OwnerAssumption DEF LocksHeld

\* exc is raised, lowered and caught up with by the thief that holds the lock.
LEMMA ExcStep == Inv /\ Next => ExcExact'
<1> SUFFICES ASSUME Inv, Next PROVE ExcExact'
  OBVIOUS
<1>0. TypeOK /\ LocksHeld /\ ExcExact
  BY DEF Inv
<1>1. /\ \A t, u \in Thieves : tpc[t] \in Inside /\ tpc[u] \in Inside => t = u
      /\ pc \in {"locked", "compare", "unlock"} => \A t \in Thieves : tpc[t] \notin Inside
  BY <1>0, OneDecides
<1> USE DEF Decides, Inside
<1>2. CASE UNCHANGED <<head, exc, tpc>>
  BY <1>0, <1>2 DEF ExcExact
<1>3. CASE ResetExc \/ Setup
  <2>1. \A t \in Thieves : tpc'[t] \notin Decides
    BY <1>1, <1>3 DEF ResetExc, Setup, Goto
  <2>2. exc' = head'
    BY <1>3 DEF ResetExc, Setup
  <2>3. QED BY <2>1, <2>2 DEF ExcExact
<1>4. ASSUME NEW t \in Thieves, Approach(t) \/ Steal(t)
      PROVE  ExcExact'
  <2> USE <1>0 DEF TGoto, memory, TypeOK
  <2>1. CASE FindNothing(t) BY <1>2, <2>1 DEF FindNothing, vars
  <2>2. CASE QuickCheck(t) \/ Contend(t) \/ Peek(t) \/ TryLock(t) \/ UnlockOther(t)
    <3>1. \A u \in Thieves : tpc'[u] \in Decides <=> tpc[u] \in Decides
      BY <2>2 DEF QuickCheck, Contend, Peek, TryLock, UnlockOther
    <3>2. UNCHANGED <<head, exc>>
      BY <2>2 DEF QuickCheck, Contend, Peek, TryLock, UnlockOther
    <3>3. QED BY <3>1, <3>2 DEF ExcExact
  <2>3. CASE IncrementE(t)
    <3>1. \A u \in Thieves : tpc[u] \notin Decides
      BY <1>1, <2>3 DEF IncrementE
    <3>2. QED BY <2>3, <3>1 DEF IncrementE, ExcExact
  <2>4. CASE Look(t) \/ Mismatch(t)
    <3>1. tpc[t] \in Decides /\ tpc'[t] \in Decides
      BY <2>4 DEF Look, Mismatch
    <3>2. UNCHANGED <<head, exc>>
      BY <2>4 DEF Look, Mismatch
    <3>3. QED BY <3>1, <3>2 DEF ExcExact
  <2>5. CASE Detach(t) \/ Retreat(t)
    <3>1. \A u \in Thieves : tpc'[u] \notin Decides
      BY <1>1, <2>5 DEF Detach, Retreat
    <3>2. tpc[t] \in Decides
      BY <2>5 DEF Detach, Retreat
    <3>3. QED BY <2>5, <3>1, <3>2 DEF Detach, Retreat, ExcExact
  <2>6. QED BY <1>4, <2>1, <2>2, <2>3, <2>4, <2>5 DEF Approach, Steal
<1>5. QED
  <2>1. \/ UNCHANGED <<head, exc, tpc>> \/ ResetExc \/ Setup
        \/ \E t \in Thieves : Approach(t) \/ Steal(t)
    BY DEF Next, Own, Return, Commit, Push, UndoDetach, Sync, FindFrame, UndoFence,
           TestExc, SetFlag, Acquire, Orphaned, NotStolen, Unlock, ClearFlag,
           GiveUpFrame, DealWithFrame, memory
  <2>2. QED BY <1>2, <1>3, <1>4, <2>1

\* A thief passes the flag only from "try", and comes there only without it.
LEMMA FlagStep == Inv /\ Next => FlagSeen'
<1> SUFFICES ASSUME Inv, Next PROVE FlagSeen'
  OBVIOUS
<1>0. TypeOK /\ LocksHeld /\ FlagSeen /\ BufferFits
  BY DEF Inv
<1> USE <1>0 DEF FlagSeen, Goto
<1>1. CASE UNCHANGED <<pc, do_not_steal, passed, tpc>>
  BY <1>1
<1>2. CASE SetFlag BY <1>2 DEF SetFlag
<1>3. CASE Commit BY <1>3 DEF Commit, BufferFits
<1>4. CASE \/ UndoDetach \/ Sync \/ FindFrame \/ UndoFence \/ TestExc \/ Acquire \/ ResetExc
           \/ Orphaned \/ NotStolen \/ Unlock \/ GiveUpFrame \/ DealWithFrame \/ Setup
  BY <1>4 DEF UndoDetach, Sync, FindFrame, UndoFence, TestExc, Acquire, ResetExc, Orphaned,
              NotStolen, Unlock, GiveUpFrame, DealWithFrame, Setup
<1>5. CASE ClearFlag
  <2>1. pc' # "acquire" BY <1>5, Zenon DEF ClearFlag, After
  <2>2. QED BY <2>1
<1>6. ASSUME NEW t \in Thieves, Approach(t) \/ Steal(t)
      PROVE  FlagSeen'
  <2> USE DEF TGoto, owner, locks, memory, TypeOK
  <2>1. CASE FindNothing(t) BY <1>1, <2>1 DEF FindNothing, vars
  <2>2. CASE QuickCheck(t) \/ Contend(t) BY <2>2 DEF QuickCheck, Contend
  <2>3. CASE Peek(t) BY <2>3 DEF Peek
  <2>4. CASE TryLock(t)
    <3>1. \A u \in Thieves : tpc'[u] # "try"
      BY <2>4 DEF TryLock, LocksHeld
    <3>2. QED BY <2>4, <3>1 DEF TryLock
  <2>5. CASE IncrementE(t) \/ Look(t) \/ Detach(t) \/ Mismatch(t) \/ Retreat(t) \/ UnlockOther(t)
    BY <2>5 DEF IncrementE, Look, Detach, Mismatch, Retreat, UnlockOther
  <2>6. QED BY <1>6, <2>1, <2>2, <2>3, <2>4, <2>5 DEF Approach, Steal
<1>7. QED
  BY <1>1, <1>2, <1>3, <1>4, <1>5, <1>6 DEF Next, Own, Return, Push, locks

----------------------------------------------------------------------------
(* The owner's stack and its store buffer                                  *)

\* A worker without a frame to run has no stack.
LEMMA StackStep == Inv /\ Next => StackFits'
<1> SUFFICES ASSUME Inv, Next PROVE StackFits'
  OBVIOUS
<1>0. TypeOK /\ StackFits /\ BufferFits
  BY DEF Inv
<1> USE <1>0 DEF StackFits, HasNoStack, Goto, TypeOK
<1>1. CASE UNCHANGED <<pc, task, calls>>
  BY <1>1
<1>2. CASE Push \/ UndoDetach \/ Sync \/ FindFrame \/ UndoFence
  BY <1>2 DEF Push, UndoDetach, Sync, FindFrame, UndoFence
<1>3. CASE TestExc BY <1>3 DEF TestExc
<1>4. CASE SetFlag \/ Acquire \/ ResetExc \/ Unlock \/ DealWithFrame \/ Setup
  BY <1>4 DEF SetFlag, Acquire, ResetExc, Unlock, DealWithFrame, Setup
<1>5. CASE Orphaned \/ NotStolen
  BY <1>5 DEF Orphaned, NotStolen, BufferFits
<1>6. CASE GiveUpFrame
  BY <1>6 DEF GiveUpFrame
<1>7. CASE ClearFlag
  <2>1. /\ pc = "unflag" /\ UNCHANGED <<calls, task>>
        /\ pc' \in {"leaving", "search"} => task # "check"
        /\ pc' \in {"leaving", "search", "run"}
    BY <1>7, Zenon DEF ClearFlag, After
  <2>2. QED BY <2>1
<1>8. QED
  <2>1. \/ UNCHANGED <<pc, task, calls>> \/ Own
    BY Zenon DEF Next, Commit, Approach, Steal, FindNothing, QuickCheck, Contend, Peek, TryLock,
           IncrementE, Look, Detach, Mismatch, Retreat, UnlockOther, owner, vars
  <2>2. QED BY <1>1, <1>2, <1>3, <1>4, <1>5, <1>6, <1>7, <2>1 DEF Own, Return

\* Before the owner compares, its stores are in memory.
LEMMA BufferStep == Inv /\ Next => BufferFits'
<1> SUFFICES ASSUME Inv, Next PROVE BufferFits'
  OBVIOUS
<1>0. TypeOK /\ BufferFits
  BY DEF Inv
<1> USE <1>0 DEF BufferFits, Lowered, Goto, IsTail
<1>1. CASE UNCHANGED <<pc, task, calls, tail, buffer>>
  BY <1>1
<1>2. CASE Commit
  <2>1. /\ Head(buffer) = buffer[1] /\ Len(Tail(buffer)) = Len(buffer) - 1
        /\ Len(buffer) \in Nat \ {0}
        /\ \A k \in 1 .. Len(buffer) - 1 : Tail(buffer)[k] = buffer[k + 1]
        /\ Tail(buffer) \in Seq(Stores)
    BY <1>2, DropStore DEF Commit, TypeOK
  <2>2. pc = "undone" => BufferFits'
    <3> SUFFICES ASSUME pc = "undone" PROVE BufferFits'
      OBVIOUS
    <3>1. IsTail(Len(buffer)) /\ buffer[Len(buffer)].val = Len(calls) - 1
      BY <1>2 DEF Commit
    <3>2. CASE Len(buffer) = 1
      <4>1. tail' = Len(calls) - 1 /\ buffer' = <<>>
        BY <1>2, <2>1, <3>1, <3>2 DEF Commit
      <4>2. QED BY <1>2, <4>1 DEF Commit
    <3>3. CASE Len(buffer) > 1
      <4>1. Len(buffer) - 1 \in 1 .. Len(buffer) - 1
        BY <2>1, <3>3
      <4>2. buffer' = Tail(buffer)
        BY <1>2 DEF Commit
      <4>3. Tail(buffer)[Len(buffer) - 1] = buffer[(Len(buffer) - 1) + 1]
        BY <2>1, <4>1
      <4>4. buffer'[Len(buffer')] = buffer[Len(buffer)] /\ Len(buffer') # 0
        BY <2>1, <3>3, <4>2, <4>3
      <4>5. buffer' # <<>>
        BY <4>4
      <4>6. QED BY <1>2, <3>1, <4>4, <4>5 DEF Commit
    <3>4. QED BY <2>1, <3>2, <3>3
  <2>3. QED BY <1>2, <2>2 DEF Commit
<1>3. CASE Push BY <1>3 DEF Push
<1>4. CASE UndoDetach
  <2>1. [var |-> "tail", at |-> 0, val |-> Len(calls) - 1] \in Stores
    BY LimitAssumption DEF TypeOK, Stores, Slots
  <2>2. buffer'[Len(buffer')] = [var |-> "tail", at |-> 0, val |-> Len(calls) - 1]
    BY <1>4, <2>1, AddStore DEF UndoDetach, StoreTail, TypeOK
  <2>3. buffer' # <<>>
    BY <1>4 DEF UndoDetach, StoreTail, TypeOK
  <2>4. pc' = "undone" /\ UNCHANGED calls
    BY <1>4 DEF UndoDetach
  <2>5. QED BY <2>2, <2>3, <2>4
<1>5. CASE Sync \/ FindFrame \/ GiveUpFrame
  BY <1>5 DEF Sync, FindFrame, GiveUpFrame
<1>6. CASE UndoFence BY <1>6 DEF UndoFence, Drained, memory
<1>7. CASE TestExc BY <1>7 DEF TestExc, memory
<1>8. CASE SetFlag \/ Acquire
  BY <1>8 DEF SetFlag, Acquire, Drained, memory
<1>9. CASE ResetExc BY <1>9 DEF ResetExc
<1>10. CASE Orphaned \/ NotStolen \/ Unlock \/ DealWithFrame \/ Setup
  BY <1>10 DEF Orphaned, NotStolen, Unlock, DealWithFrame, Setup
<1>11. CASE ClearFlag
  <2>1. pc' \in {"leaving", "search", "run"}
    BY <1>11, Zenon DEF ClearFlag, After
  <2>2. QED BY <2>1
<1>12. QED
  <2>1. \/ UNCHANGED <<pc, task, calls, tail, buffer>> \/ Commit \/ Own
    BY Zenon DEF Next, Approach, Steal, FindNothing, QuickCheck, Contend, Peek, TryLock,
           IncrementE, Look, Detach, Mismatch, Retreat, UnlockOther, owner, memory, vars
  <2>2. QED BY <1>1, <1>2, <1>3, <1>4, <1>5, <1>6, <1>7, <1>8, <1>9, <1>10, <1>11, <2>1
            DEF Own, Return

----------------------------------------------------------------------------
(* What thieves can see of the stack                                       *)

\* A return that takes a frame back finds its own tail in memory.
LEMMA ReturnFinds ==
  ASSUME Inv, TestExc \/ NotStolen, UNCHANGED calls => FALSE
  PROVE  /\ calls # <<>> /\ buffer = <<>> /\ UNCHANGED <<buffer, tail, head, ltq, tpc>>
         /\ calls' = SubSeq(calls, 1, Len(calls) - 1)
         /\ tail = Len(calls) - 1
         /\ head < Len(calls)
         /\ \A t \in Thieves : tpc[t] \in Decides => head + 1 < Len(calls)
<1>0. TypeOK /\ LocksHeld /\ ExcExact /\ BufferFits
  BY DEF Inv
<1>1. CASE TestExc
  <2>1. /\ ~(Len(calls) - 1 < exc) /\ pc = "test"
        /\ calls' = SubSeq(calls, 1, Len(calls) - 1)
    BY <1>1 DEF TestExc, ReturnToCaller, Pop
  <2>2. exc >= head /\ \A t \in Thieves : tpc[t] \in Decides => exc = head + 1
    BY <1>0 DEF ExcExact, TypeOK
  <2>3. head < Len(calls) /\ \A t \in Thieves : tpc[t] \in Decides => head + 1 < Len(calls)
    BY <1>0, <2>1, <2>2 DEF TypeOK
  <2>4. QED BY <1>0, <1>1, <2>1, <2>3 DEF TestExc, BufferFits, Lowered, memory, TypeOK
<1>2. CASE NotStolen
  <2>1. /\ head < Len(calls) /\ pc = "compare"
        /\ calls' = SubSeq(calls, 1, Len(calls) - 1)
    BY <1>0, <1>2 DEF NotStolen, Stolen, ReturnToCaller, Pop, Goto, TypeOK
  <2>2. \A t \in Thieves : tpc[t] \notin Inside
    BY <1>0, <2>1, OneDecides
  <2>3. QED BY <1>0, <1>2, <2>1, <2>2
            DEF NotStolen, BufferFits, Lowered, memory, TypeOK, Inside, Decides
<1>3. QED BY <1>1, <1>2

\* A worker without a frame gets one only from Setup.
LEMMA BetweenStep == Inv /\ Next /\ BetweenFrames => BetweenFrames' \/ Setup
<1> SUFFICES ASSUME Inv, Next, BetweenFrames PROVE BetweenFrames' \/ Setup
  OBVIOUS
<1> USE DEF BetweenFrames, Goto
<1>0. TypeOK BY DEF Inv
<1>1. CASE UNCHANGED <<pc, task>> BY <1>1
<1>2. CASE Push \/ UndoDetach \/ Sync \/ FindFrame \/ UndoFence \/ TestExc
  BY <1>2 DEF Push, UndoDetach, Sync, FindFrame, UndoFence, TestExc
<1>3. CASE SetFlag \/ Acquire \/ ResetExc \/ Orphaned \/ NotStolen \/ GiveUpFrame
  BY <1>3 DEF SetFlag, Acquire, ResetExc, Orphaned, NotStolen, GiveUpFrame
<1>4. CASE Unlock \/ DealWithFrame
  BY <1>0, <1>4 DEF Unlock, DealWithFrame, TypeOK
<1>5. CASE ClearFlag
  <2>1. pc' \in {"leaving", "search"}
    BY <1>5, Zenon DEF ClearFlag, After
  <2>2. QED BY <2>1
<1>6. CASE Setup BY <1>6
<1>7. QED
  <2>1. \/ UNCHANGED <<pc, task>> \/ Own
    BY Zenon DEF Next, Commit, Approach, Steal, FindNothing, QuickCheck, Contend, Peek, TryLock,
           IncrementE, Look, Detach, Mismatch, Retreat, UnlockOther, owner, vars
  <2>2. QED BY <1>1, <1>2, <1>3, <1>4, <1>5, <1>6, <2>1 DEF Own, Return

\* Thieves take what is on the stack, returns what thieves have left.
LEMMA HeadStep == Inv /\ Next => HeadOnStack'
<1> SUFFICES ASSUME Inv, Next PROVE HeadOnStack'
  OBVIOUS
<1>0. TypeOK /\ StackFits /\ BufferFits /\ HeadOnStack /\ TheftIsSafe
  BY DEF Inv
<1>b. BetweenFrames => BetweenFrames' \/ Setup
  BY BetweenStep
<1> USE DEF HeadOnStack
<1>1. CASE UNCHANGED <<calls, head>> /\ ~Setup
  BY <1>0, <1>1, <1>b
<1>2. CASE Push
  BY <1>0, <1>2 DEF Push, BetweenFrames, memory, TypeOK
<1>3. CASE (TestExc \/ NotStolen) /\ ~UNCHANGED calls
  <2>1. Len(calls') = Len(calls) - 1 /\ head' = head /\ head < Len(calls)
    BY <1>0, <1>3, ReturnFinds, StackOps DEF TypeOK
  <2>2. QED BY <1>0, <2>1 DEF TypeOK
<1>4. CASE Orphaned
  BY <1>4 DEF Orphaned, Goto, BetweenFrames
<1>5. CASE Setup
  BY <1>0, <1>5 DEF Setup, Goto, StackFits, HasNoStack
<1>6. ASSUME NEW t \in Thieves, Detach(t)
      PROVE  HeadOnStack'
  BY <1>0, <1>6 DEF Detach, TGoto, TheftIsSafe, owner, TypeOK
<1>7. QED
  <2>1. \/ UNCHANGED <<calls, head>> \/ Push
        \/ ((TestExc \/ NotStolen) /\ ~UNCHANGED calls)
        \/ Orphaned \/ Setup \/ \E t \in Thieves : Detach(t)
    BY Zenon DEF Next, Own, Return, Commit, UndoDetach, Sync, FindFrame, UndoFence, TestExc, SetFlag,
           Acquire, ResetExc, NotStolen, Unlock, ClearFlag, GiveUpFrame, DealWithFrame, Approach,
           Steal, FindNothing, QuickCheck, Contend, Peek, TryLock, IncrementE, Look, Mismatch,
           Retreat, UnlockOther, owner, memory, vars
  <2>2. QED BY <1>1, <1>2, <1>3, <1>4, <1>5, <1>6, <2>1

\* A tail store is never above the stack it is made for.
LEMMA TailStep == Inv /\ Next => NoTailTooHigh'
<1> SUFFICES ASSUME Inv, Next PROVE NoTailTooHigh'
  OBVIOUS
<1>0. TypeOK /\ StackFits /\ BufferFits /\ NoTailTooHigh
  BY DEF Inv
<1>b. BetweenFrames => BetweenFrames' \/ Setup
  BY BetweenStep
<1> USE DEF NoTailTooHigh, IsTail
<1>1. CASE UNCHANGED <<calls, tail, buffer, head>> /\ ~Setup
  BY <1>0, <1>1, <1>b
<1>2. CASE Commit
  <2>1. /\ Head(buffer) = buffer[1] /\ Len(Tail(buffer)) = Len(buffer) - 1
        /\ Len(buffer) \in Nat \ {0}
        /\ \A k \in 1 .. Len(buffer) - 1 : Tail(buffer)[k] = buffer[k + 1]
    BY <1>0, <1>2, DropStore DEF Commit, TypeOK
  <2>2. tail' <= Len(calls) \/ (BetweenFrames /\ tail' <= head)
    BY <1>0, <1>2, <2>1 DEF Commit
  <2>3. \A k \in 1 .. Len(buffer') : buffer'[k] = buffer[k + 1] /\ k + 1 \in 1 .. Len(buffer)
    BY <1>2, <2>1 DEF Commit
  <2>4. UNCHANGED <<calls, head, pc, task>>
    BY <1>2 DEF Commit
  <2>5. BetweenFrames' <=> BetweenFrames
    BY <2>4 DEF BetweenFrames
  <2>6. QED BY <1>0, <2>2, <2>3, <2>4, <2>5
<1>3. CASE Push
  <2> DEFINE x == [var |-> "slot", at |-> Len(calls), val |-> spawns + 1]
             y == [var |-> "tail", at |-> 0, val |-> Len(calls) + 1]
  <2>1. x \in Stores /\ y \in Stores /\ spawns + 1 \in Frames
    BY <1>0, <1>3, LimitAssumption DEF Push, CanPush, TypeOK, Stores, Slots, Frames
  <2>2. buffer' = (buffer \o <<x>>) \o <<y>>
    BY <1>3 DEF Push, StoreSlot, StoreTail
  <2>3. x.var = "slot" /\ y.var = "tail" /\ y.val = Len(calls) + 1
    OBVIOUS
  <2> HIDE DEF x, y
  <2>4. /\ Len(buffer') = Len(buffer) + 2
        /\ \A k \in 1 .. Len(buffer) : buffer'[k] = buffer[k]
        /\ buffer'[Len(buffer) + 1] = x /\ buffer'[Len(buffer) + 2] = y
    BY <1>0, <2>1, <2>2, AddStore DEF TypeOK
  <2>5. Len(calls') = Len(calls) + 1
    BY <1>0, <1>3, <2>1, StackOps DEF Push, TypeOK
  <2>6. Len(calls) + 1 \in -1 .. ltq_limit
    BY <1>0, <1>3, LimitAssumption DEF Push, CanPush, TypeOK
  <2>7. UNCHANGED <<tail, head>>
    BY <1>3 DEF Push, memory
  <2>n. ~BetweenFrames
    BY <1>3 DEF Push, BetweenFrames
  <2>8. tail' <= Len(calls')
    BY <1>0, <2>5, <2>7, <2>n DEF TypeOK
  <2>9. ASSUME NEW k \in 1 .. Len(buffer'), buffer'[k].var = "tail"
        PROVE  /\ buffer'[k].val \in -1 .. ltq_limit
               /\ buffer'[k].val <= Len(calls')
    <3>1. CASE k \in 1 .. Len(buffer)
      BY <1>0, <2>4, <2>5, <2>7, <2>9, <2>n, <3>1, SMTT(30) DEF TypeOK, Stores
    <3>2. CASE k = Len(buffer) + 1
      BY <2>3, <2>4, <2>9, <3>2
    <3>3. CASE k = Len(buffer) + 2
      BY <2>3, <2>4, <2>5, <2>6, <3>3
    <3>4. Len(buffer) \in Nat
      BY <1>0 DEF TypeOK
    <3>5. QED BY <2>4, <3>1, <3>2, <3>3, <3>4
  <2>10. QED BY <2>8, <2>9
<1>4. CASE UndoDetach
  <2> DEFINE y == [var |-> "tail", at |-> 0, val |-> Len(calls) - 1]
  <2>1. y \in Stores /\ y.val = Len(calls) - 1 /\ y.val \in -1 .. ltq_limit
    BY <1>0, LimitAssumption DEF TypeOK, Stores, Slots
  <2>2. buffer' = buffer \o <<y>>
    BY <1>4 DEF UndoDetach, StoreTail
  <2> HIDE DEF y
  <2>3. /\ Len(buffer') = Len(buffer) + 1
        /\ \A k \in 1 .. Len(buffer) : buffer'[k] = buffer[k]
        /\ buffer'[Len(buffer) + 1] = y
    BY <1>0, <2>1, <2>2, AddStore DEF TypeOK
  <2>4. ~BetweenFrames
    BY <1>4 DEF UndoDetach, Goto, BetweenFrames
  <2>5. QED BY SMTT(60), <1>0, <1>4, <2>1, <2>3, <2>4 DEF UndoDetach, memory, TypeOK
<1>5. CASE (TestExc \/ NotStolen) /\ ~UNCHANGED calls
  <2>1. Len(calls') = Len(calls) - 1
    BY <1>0, <1>5, ReturnFinds, StackOps DEF TypeOK
  <2>2. QED BY <1>0, <1>5, <2>1, ReturnFinds DEF TypeOK
<1>6. CASE Orphaned
  <2> DEFINE y == [var |-> "tail", at |-> 0, val |-> Len(calls)]
  <2>1. y \in Stores /\ y.val = Len(calls) /\ y.val \in -1 .. ltq_limit
    BY <1>0, LimitAssumption DEF TypeOK, Stores, Slots
  <2>2. buffer' = buffer \o <<y>> /\ calls' = <<>> /\ UNCHANGED <<tail, head>>
    BY <1>6 DEF Orphaned, StoreTail, memory
  <2>3. buffer = <<>> /\ tail = Len(calls) - 1 /\ head >= Len(calls)
    BY <1>0, <1>6 DEF Orphaned, Stolen, Goto, BufferFits, Lowered, TypeOK
  <2> HIDE DEF y
  <2>4. Len(buffer') = 1 /\ buffer'[1] = y
    BY <1>0, <2>1, <2>2, <2>3, AddStore DEF TypeOK
  <2>5. BetweenFrames'
    BY <1>6 DEF Orphaned, Goto, BetweenFrames
  <2>6. QED BY <1>0, <2>1, <2>2, <2>3, <2>4, <2>5 DEF TypeOK
<1>7. CASE ClearFlag \/ GiveUpFrame
  <2>1. PICK y \in Stores : y.var # "tail" /\ buffer' = buffer \o <<y>>
    <3>1. [var |-> "flag", at |-> 0, val |-> 0] \in Stores
          /\ [var |-> "frame", at |-> 0, val |-> 0] \in Stores
      BY LimitAssumption DEF Stores, Slots
    <3>2. \/ buffer' = buffer \o <<[var |-> "flag", at |-> 0, val |-> 0]>>
          \/ buffer' = buffer \o <<[var |-> "frame", at |-> 0, val |-> 0]>>
      BY <1>7 DEF ClearFlag, GiveUpFrame, ClearedFlag, StoreNoFrame
    <3>3. QED BY <3>1, <3>2
  <2>2. /\ Len(buffer') = Len(buffer) + 1
        /\ \A k \in 1 .. Len(buffer) : buffer'[k] = buffer[k]
        /\ buffer'[Len(buffer) + 1] = y
    BY <1>0, <2>1, AddStore DEF TypeOK
  <2>3. UNCHANGED <<calls, tail, head>>
    BY <1>7 DEF ClearFlag, GiveUpFrame, memory
  <2>4. ~Setup
    BY <1>7 DEF ClearFlag, GiveUpFrame, Setup, Goto
  <2>5. QED BY <1>0, <1>b, <2>1, <2>2, <2>3, <2>4 DEF TypeOK
<1>8. CASE Setup
  BY <1>0, <1>8 DEF Setup, Goto, BufferFits, StackFits, HasNoStack
<1>9. ASSUME NEW t \in Thieves, Detach(t)
      PROVE  NoTailTooHigh'
  <2>1. UNCHANGED <<calls, buffer, tail, pc, task>> /\ head' >= head
    BY <1>0, <1>9 DEF Detach, owner, TypeOK
  <2>2. BetweenFrames' <=> BetweenFrames
    BY <2>1 DEF BetweenFrames
  <2>3. head' \in Int /\ head \in Int /\ tail \in Int
    BY <1>0, <1>9 DEF Detach, TypeOK
  <2>4. QED BY <1>0, <2>1, <2>2, <2>3
<1>10. QED
  <2>1. \/ UNCHANGED <<calls, tail, buffer, head>> \/ Commit \/ Push \/ UndoDetach
        \/ ((TestExc \/ NotStolen) /\ ~UNCHANGED calls)
        \/ Orphaned \/ ClearFlag \/ GiveUpFrame \/ Setup
        \/ \E t \in Thieves : Detach(t)
    BY Zenon DEF Next, Own, Return, Sync, FindFrame, UndoFence, TestExc, SetFlag, Acquire, ResetExc,
           NotStolen, Unlock, DealWithFrame, Approach, Steal, FindNothing, QuickCheck, Contend,
           Peek, TryLock, IncrementE, Look, Mismatch, Retreat, UnlockOther, owner, memory, vars
  <2>2. QED BY <1>1, <1>2, <1>3, <1>4, <1>5, <1>6, <1>7, <1>8, <1>9, <2>1

\* Other variables have no part in SlotsMatch.
LEMMA SlotsStay ==
  ASSUME SlotsMatch, UNCHANGED <<calls, tail, buffer, ltq>> PROVE SlotsMatch'
<1> USE DEF SlotsMatch, IsTail, IsSlot
<1>1. calls' = calls /\ tail' = tail /\ buffer' = buffer /\ ltq' = ltq
  OBVIOUS
<1>2. ASSUME NEW k \in 1 .. Len(buffer), buffer[k].var = "tail",
             NEW i \in 1 .. Len(calls), i <= buffer[k].val
      PROVE  \/ ltq[i - 1] = calls[i]
             \/ \E j \in 1 .. k - 1 : buffer[j].var = "slot" /\ buffer[j].at = i - 1
  BY <1>2
<1>3. ASSUME NEW i \in 1 .. Len(calls)
      PROVE  \/ ltq[i - 1] = calls[i]
             \/ \E j \in 1 .. Len(buffer) : buffer[j].var = "slot" /\ buffer[j].at = i - 1
  OBVIOUS
<1>4. QED BY <1>1, <1>2, <1>3

\* Slots are written before the tail that covers them, and read by the thief
\* that saw this tail.
LEMMA SlotStep == Inv /\ Next => SlotsMatch'
<1> SUFFICES ASSUME Inv, Next PROVE SlotsMatch'
  OBVIOUS
<1>0. TypeOK /\ StackFits /\ BufferFits /\ NoTailTooHigh /\ SlotsMatch
  BY DEF Inv
<1> USE DEF SlotsMatch, IsTail, IsSlot
<1>1. CASE UNCHANGED <<calls, tail, buffer, ltq>>
  BY <1>0, <1>1, SlotsStay
<1>2. CASE Commit
  <2>1. /\ Head(buffer) = buffer[1] /\ Len(Tail(buffer)) = Len(buffer) - 1
        /\ Len(buffer) \in Nat \ {0} /\ buffer[1] \in Stores
        /\ \A k \in 1 .. Len(buffer) - 1 : Tail(buffer)[k] = buffer[k + 1]
    BY <1>0, <1>2, DropStore DEF Commit, TypeOK
  <2>2. /\ UNCHANGED calls /\ Len(buffer') = Len(buffer) - 1
        /\ \A k \in 1 .. Len(buffer') : buffer'[k] = buffer[k + 1] /\ k + 1 \in 1 .. Len(buffer)
    BY <1>2, <2>1 DEF Commit
  <2>3. \A i \in 1 .. Len(calls) : ltq[i - 1] = calls[i] => ltq'[i - 1] = calls[i]
    BY <1>0, <1>2, <2>1 DEF Commit, TypeOK, Slots
  <2>4. \A i \in 1 .. Len(calls) : IsSlot(1) /\ buffer[1].at = i - 1 => ltq'[i - 1] = calls[i]
    BY SMTT(60), <1>0, <1>2, <2>1 DEF Commit, TypeOK, Slots, Stores
  <2>5. \A k \in 1 .. Len(buffer') : buffer'[k].var = "slot" =>
          buffer'[k].at < Len(calls) /\ buffer'[k].val = calls[buffer'[k].at + 1]
    BY SMTT(60), <1>0, <2>2
  <2>6. ASSUME NEW i \in 1 .. Len(calls), i <= tail'
        PROVE  ltq'[i - 1] = calls[i]
    <3>1. CASE buffer[1].var = "tail"
      <4>1. i <= buffer[1].val BY <1>2, <2>1, <2>6, <3>1 DEF Commit
      <4>2. 1 \in 1 .. Len(buffer) /\ ~\E j \in 1 .. 1 - 1 : TRUE BY <2>1
      <4>3. ltq[i - 1] = calls[i] BY <1>0, <3>1, <4>1, <4>2
      <4>4. QED BY <2>3, <4>3
    <3>2. CASE buffer[1].var # "tail"
      BY <1>0, <1>2, <2>1, <2>3, <2>6, <3>2 DEF Commit
    <3>3. QED BY <3>1, <3>2
  <2>7. ASSUME NEW k \in 1 .. Len(buffer'), buffer'[k].var = "tail",
               NEW i \in 1 .. Len(calls), i <= buffer'[k].val
        PROVE  \/ ltq'[i - 1] = calls[i]
               \/ \E j \in 1 .. k - 1 : buffer'[j].var = "slot" /\ buffer'[j].at = i - 1
    <3>1. CASE ltq[i - 1] = calls[i] BY <2>3, <3>1
    <3>2. CASE ltq[i - 1] # calls[i]
      <4>1. PICK j \in 1 .. (k + 1) - 1 : buffer[j].var = "slot" /\ buffer[j].at = i - 1
        BY <1>0, <2>2, <2>7, <3>2
      <4>2. CASE j = 1 BY <2>4, <4>1, <4>2
      <4>3. CASE j # 1
        <5>1. j - 1 \in 1 .. k - 1 /\ j - 1 \in 1 .. Len(buffer') /\ (j - 1) + 1 = j
          BY <2>1, <2>2, <4>3
        <5>2. buffer'[j - 1] = buffer[j] BY <2>2, <5>1
        <5>3. QED BY <4>1, <5>1, <5>2
      <4>4. QED BY <4>2, <4>3
    <3>3. QED BY <3>1, <3>2
  <2>8. ASSUME NEW i \in 1 .. Len(calls)
        PROVE  \/ ltq'[i - 1] = calls[i]
               \/ \E j \in 1 .. Len(buffer') : buffer'[j].var = "slot" /\ buffer'[j].at = i - 1
    <3>1. CASE ltq[i - 1] = calls[i] BY <2>3, <3>1
    <3>2. CASE ltq[i - 1] # calls[i]
      <4>1. PICK j \in 1 .. Len(buffer) : buffer[j].var = "slot" /\ buffer[j].at = i - 1
        BY <1>0, <3>2
      <4>2. CASE j = 1 BY <2>4, <4>1, <4>2
      <4>3. CASE j # 1
        <5>1. j - 1 \in 1 .. Len(buffer') /\ (j - 1) + 1 = j
          BY <2>1, <2>2, <4>3
        <5>2. buffer'[j - 1] = buffer[j] BY <2>2, <5>1
        <5>3. QED BY <4>1, <5>1, <5>2
      <4>4. QED BY <4>2, <4>3
    <3>3. QED BY <3>1, <3>2
  <2>9. QED BY <2>2, <2>5, <2>6, <2>7, <2>8
<1>3. CASE Push
  <2> DEFINE x == [var |-> "slot", at |-> Len(calls), val |-> spawns + 1]
             y == [var |-> "tail", at |-> 0, val |-> Len(calls) + 1]
  <2>1. x \in Stores /\ y \in Stores /\ spawns + 1 \in Frames
    BY <1>0, <1>3, LimitAssumption DEF Push, CanPush, TypeOK, Stores, Slots, Frames
  <2>2. buffer' = (buffer \o <<x>>) \o <<y>> /\ calls' = Append(calls, spawns + 1)
    BY <1>3 DEF Push, StoreSlot, StoreTail
  <2>3. x.var = "slot" /\ x.at = Len(calls) /\ x.val = spawns + 1 /\ y.var = "tail"
    OBVIOUS
  <2> HIDE DEF x, y
  <2>4. /\ Len(buffer') = Len(buffer) + 2 /\ Len(buffer) \in Nat
        /\ \A k \in 1 .. Len(buffer) : buffer'[k] = buffer[k]
        /\ buffer'[Len(buffer) + 1] = x /\ buffer'[Len(buffer) + 2] = y
    BY <1>0, <2>1, <2>2, AddStore DEF TypeOK
  <2>5. /\ Len(calls') = Len(calls) + 1 /\ Len(calls) \in Nat
        /\ \A i \in 1 .. Len(calls) : calls'[i] = calls[i]
        /\ calls'[Len(calls) + 1] = spawns + 1
    BY <1>0, <2>1, <2>2, StackOps DEF TypeOK
  <2>6. UNCHANGED <<tail, head, ltq>>
    BY <1>3 DEF Push, memory
  <2>7. ASSUME NEW k \in 1 .. Len(buffer'), buffer'[k].var = "slot"
        PROVE  buffer'[k].at < Len(calls') /\ buffer'[k].val = calls'[buffer'[k].at + 1]
    <3>1. CASE k \in 1 .. Len(buffer)
      <4>1. buffer[k].at \in Nat
        <5>1. buffer[k] \in Stores
          BY <1>0, <3>1 DEF TypeOK
        <5>2. QED BY <5>1, LimitAssumption DEF Stores, Slots
      <4>2. QED BY <1>0, <2>4, <2>5, <2>7, <3>1, <4>1, SMTT(30)
    <3>2. CASE k = Len(buffer) + 1 BY <2>3, <2>4, <2>5, <3>2
    <3>3. CASE k = Len(buffer) + 2 BY <2>3, <2>4, <2>7, <3>3
    <3>4. QED BY <2>4, <3>1, <3>2, <3>3
  <2>8. ASSUME NEW i \in 1 .. Len(calls'), i <= tail'
        PROVE  ltq'[i - 1] = calls'[i]
    <3>1. CASE i \in 1 .. Len(calls)
      BY <1>0, <2>5, <2>6, <2>8, <3>1
    <3>2. CASE i = Len(calls) + 1
      BY <1>0, <1>3, <2>6, <2>8, <3>2 DEF NoTailTooHigh, BetweenFrames, Push, TypeOK
    <3>3. QED BY <2>5, <3>1, <3>2
  <2>9. ASSUME NEW k \in 1 .. Len(buffer'), buffer'[k].var = "tail",
               NEW i \in 1 .. Len(calls'), i <= buffer'[k].val
        PROVE  \/ ltq'[i - 1] = calls'[i]
               \/ \E j \in 1 .. k - 1 : buffer'[j].var = "slot" /\ buffer'[j].at = i - 1
    <3>1. CASE k \in 1 .. Len(buffer)
      <4>1. i \in 1 .. Len(calls)
        BY SMTT(60), <1>0, <1>3, <2>4, <2>5, <2>9, <3>1, LimitAssumption
           DEF NoTailTooHigh, BetweenFrames, Push, TypeOK
      <4>2. \/ ltq[i - 1] = calls[i]
            \/ \E j \in 1 .. k - 1 : buffer[j].var = "slot" /\ buffer[j].at = i - 1
        BY <1>0, <2>4, <2>9, <3>1, <4>1
      <4>3. \A j \in 1 .. k - 1 : buffer'[j] = buffer[j]
        BY <2>4, <3>1
      <4>4. QED BY <2>5, <2>6, <4>1, <4>2, <4>3
    <3>2. CASE k = Len(buffer) + 1 BY <2>3, <2>4, <2>9, <3>2
    <3>3. CASE k = Len(buffer) + 2
      <4>1. CASE i = Len(calls) + 1
        <5>1. Len(buffer) + 1 \in 1 .. k - 1 BY <2>4, <3>3
        <5>2. Len(calls) = i - 1 BY <2>5, <4>1
        <5>3. QED BY <2>3, <2>4, <5>1, <5>2
      <4>2. CASE i \in 1 .. Len(calls)
        <5>1. \/ ltq[i - 1] = calls[i]
              \/ \E j \in 1 .. Len(buffer) : buffer[j].var = "slot" /\ buffer[j].at = i - 1
          BY <1>0, <4>2
        <5>2. \A j \in 1 .. Len(buffer) : buffer'[j] = buffer[j] /\ j \in 1 .. k - 1
          BY <2>4, <3>3
        <5>3. QED BY <2>5, <2>6, <4>2, <5>1, <5>2
      <4>3. QED BY <2>5, <4>1, <4>2
    <3>4. QED BY SMTT(60), <2>4, <3>1, <3>2, <3>3
  <2>10. ASSUME NEW i \in 1 .. Len(calls')
         PROVE  \/ ltq'[i - 1] = calls'[i]
                \/ \E j \in 1 .. Len(buffer') : buffer'[j].var = "slot" /\ buffer'[j].at = i - 1
    <3>1. CASE i = Len(calls) + 1
      <4>1. Len(buffer) + 1 \in 1 .. Len(buffer') /\ Len(calls) = i - 1
        BY <2>4, <2>5, <3>1
      <4>2. QED BY <2>3, <2>4, <4>1
    <3>2. CASE i \in 1 .. Len(calls)
      <4>1. \/ ltq[i - 1] = calls[i]
            \/ \E j \in 1 .. Len(buffer) : buffer[j].var = "slot" /\ buffer[j].at = i - 1
        BY <1>0, <3>2
      <4>2. \A j \in 1 .. Len(buffer) : buffer'[j] = buffer[j] /\ j \in 1 .. Len(buffer')
        BY <2>4
      <4>3. QED BY <2>5, <2>6, <3>2, <4>1, <4>2
    <3>3. QED BY <2>5, <3>1, <3>2
  <2>11. QED BY <2>7, <2>8, <2>9, <2>10
<1>4. ASSUME NEW y \in Stores, y.var # "slot", buffer' = buffer \o <<y>>,
             UNCHANGED <<calls, tail, ltq>>
      PROVE  SlotsMatch'
  <2>1. /\ Len(buffer') = Len(buffer) + 1 /\ Len(buffer) \in Nat
        /\ \A k \in 1 .. Len(buffer) : buffer'[k] = buffer[k]
        /\ buffer'[Len(buffer) + 1] = y
    BY <1>0, <1>4, AddStore DEF TypeOK
  <2>2. \A k \in 1 .. Len(buffer') : buffer'[k].var = "slot" => k \in 1 .. Len(buffer)
    BY <1>4, <2>1
  <2>3. ASSUME NEW k \in 1 .. Len(buffer'), buffer'[k].var = "tail",
               NEW i \in 1 .. Len(calls), i <= buffer'[k].val
        PROVE  \/ ltq[i - 1] = calls[i]
               \/ \E j \in 1 .. k - 1 : buffer'[j].var = "slot" /\ buffer'[j].at = i - 1
    <3>1. CASE k \in 1 .. Len(buffer)
      <4>1. \/ ltq[i - 1] = calls[i]
            \/ \E j \in 1 .. k - 1 : buffer[j].var = "slot" /\ buffer[j].at = i - 1
        BY <1>0, <2>1, <2>3, <3>1
      <4>2. \A j \in 1 .. k - 1 : buffer'[j] = buffer[j]
        BY <2>1, <3>1
      <4>3. QED BY <4>1, <4>2
    <3>2. CASE k = Len(buffer) + 1
      <4>1. \/ ltq[i - 1] = calls[i]
            \/ \E j \in 1 .. Len(buffer) : buffer[j].var = "slot" /\ buffer[j].at = i - 1
        BY <1>0
      <4>2. \A j \in 1 .. Len(buffer) : buffer'[j] = buffer[j] /\ j \in 1 .. k - 1
        BY <2>1, <3>2
      <4>3. QED BY <4>1, <4>2
    <3>3. QED BY <2>1, <3>1, <3>2
  <2>4. \A j \in 1 .. Len(buffer) : buffer'[j] = buffer[j] /\ j \in 1 .. Len(buffer')
    BY <2>1
  <2>5. QED BY <1>0, <1>4, <2>1, <2>2, <2>3, <2>4
<1>5. CASE UndoDetach \/ ClearFlag \/ GiveUpFrame
  <2>1. PICK y \in Stores : y.var # "slot" /\ buffer' = buffer \o <<y>>
    <3>1. /\ [var |-> "flag", at |-> 0, val |-> 0] \in Stores
          /\ [var |-> "frame", at |-> 0, val |-> 0] \in Stores
          /\ [var |-> "tail", at |-> 0, val |-> Len(calls) - 1] \in Stores
      BY <1>0, LimitAssumption DEF Stores, Slots, TypeOK
    <3>2. \/ buffer' = buffer \o <<[var |-> "flag", at |-> 0, val |-> 0]>>
          \/ buffer' = buffer \o <<[var |-> "frame", at |-> 0, val |-> 0]>>
          \/ buffer' = buffer \o <<[var |-> "tail", at |-> 0, val |-> Len(calls) - 1]>>
      BY <1>5 DEF UndoDetach, ClearFlag, GiveUpFrame, StoreTail, ClearedFlag, StoreNoFrame
    <3>3. QED BY <3>1, <3>2
  <2>2. UNCHANGED <<calls, tail, ltq>>
    BY <1>5 DEF UndoDetach, ClearFlag, GiveUpFrame, memory
  <2>3. QED BY <1>4, <2>1, <2>2
<1>6. CASE (TestExc \/ NotStolen) /\ ~UNCHANGED calls
  <2>1. /\ calls # <<>> /\ buffer = <<>> /\ UNCHANGED <<buffer, tail, ltq>>
        /\ calls' = SubSeq(calls, 1, Len(calls) - 1)
    BY <1>6, ReturnFinds
  <2>2. /\ Len(calls') = Len(calls) - 1 /\ Len(calls) \in Nat \ {0}
        /\ \A i \in 1 .. Len(calls) - 1 : calls'[i] = calls[i]
    BY <1>0, <2>1, StackOps DEF TypeOK
  <2>3. QED BY <1>0, <2>1, <2>2, SMTT(60)
<1>7. CASE Orphaned \/ Setup
  <2>1. calls' = <<>>
    BY <1>0, <1>7 DEF Orphaned, Setup, Goto, StackFits, HasNoStack
  <2>2. \A k \in 1 .. Len(buffer') : buffer'[k].var # "slot"
    <3>1. CASE Orphaned
      <4>1. buffer = <<>>
        BY <1>0, <3>1 DEF Orphaned, Goto, BufferFits
      <4>2. [var |-> "tail", at |-> 0, val |-> Len(calls)] \in Stores
        BY <1>0, LimitAssumption DEF Stores, Slots, TypeOK
      <4>3. Len(buffer') = 1 /\ buffer'[1] = [var |-> "tail", at |-> 0, val |-> Len(calls)]
        BY <1>0, <3>1, <4>1, <4>2, AddStore DEF Orphaned, StoreTail, TypeOK
      <4>4. QED BY <4>3
    <3>2. CASE Setup
      BY <1>0, <3>2 DEF Setup, Goto, BufferFits
    <3>3. QED BY <1>7, <3>1, <3>2
  <2>3. QED BY <2>1, <2>2
<1>8. QED
  <2>1. \/ UNCHANGED <<calls, tail, buffer, ltq>> \/ Commit \/ Push
        \/ UndoDetach \/ ClearFlag \/ GiveUpFrame
        \/ ((TestExc \/ NotStolen) /\ ~UNCHANGED calls)
        \/ Orphaned \/ Setup
    BY Zenon DEF Next, Own, Return, Sync, FindFrame, UndoFence, TestExc, SetFlag, Acquire, ResetExc,
           NotStolen, Unlock, DealWithFrame, Approach, Steal, FindNothing, QuickCheck, Contend,
           Peek, TryLock, IncrementE, Look, Detach, Mismatch, Retreat, UnlockOther, owner, memory, vars
  <2>2. QED BY <1>1, <1>2, <1>3, <1>5, <1>6, <1>7, <2>1

\* A thief that saw a tail above head takes a frame of the stack, from a slot
\* that is written; the owner does not return to it meanwhile.
LEMMA TheftStep == Inv /\ Next => TheftIsSafe'
<1> SUFFICES ASSUME Inv, Next PROVE TheftIsSafe'
  OBVIOUS
<1>0. TypeOK /\ LocksHeld /\ BufferFits /\ NoTailTooHigh /\ SlotsMatch /\ TheftIsSafe
  BY DEF Inv
<1> USE DEF TheftIsSafe
<1>1. CASE UNCHANGED <<head, calls, ltq, tpc>>
  <2>1. head' = head /\ calls' = calls /\ ltq' = ltq /\ tpc' = tpc
    BY <1>1
  <2>2. QED BY <1>0, <2>1
<1>2. CASE Commit
  <2> SUFFICES ASSUME NEW t \in Thieves, tpc'[t] = "detach"
               PROVE  /\ head' < ltq_limit /\ head' < Len(calls')
                      /\ ltq'[head'] = calls'[head' + 1]
    OBVIOUS
  <2>1. /\ tpc[t] = "detach" /\ UNCHANGED <<head, calls>>
        /\ Head(buffer) = buffer[1] /\ buffer[1] \in Stores /\ 1 \in 1 .. Len(buffer)
    BY <1>0, <1>2, DropStore DEF Commit, TypeOK
  <2>2. head < ltq_limit /\ head < Len(calls) /\ ltq[head] = calls[head + 1] /\ head \in Slots
    BY <1>0, <2>1, LimitAssumption DEF TypeOK, Slots
  <2>3. CASE buffer[1].var = "slot"
    <3>1. buffer[1].val = calls[buffer[1].at + 1]
      BY <1>0, <2>1, <2>3 DEF SlotsMatch, IsSlot
    <3>2. ltq' = [ltq EXCEPT ![buffer[1].at] = buffer[1].val]
      BY <1>2, <2>1, <2>3 DEF Commit
    <3>3. QED BY <1>0, <2>1, <2>2, <3>1, <3>2 DEF TypeOK
  <2>4. CASE buffer[1].var # "slot"
    BY <1>2, <2>1, <2>2, <2>4 DEF Commit
  <2>5. QED BY <2>3, <2>4
<1>3. CASE Push
  <2>1. /\ Len(calls') = Len(calls) + 1 /\ Len(calls) \in Nat
        /\ \A i \in 1 .. Len(calls) : calls'[i] = calls[i]
    <3>1. calls' = Append(calls, spawns + 1) /\ spawns + 1 \in Frames
      BY <1>0, <1>3, LimitAssumption DEF Push, CanPush, TypeOK, Frames
    <3>2. QED BY <1>0, <3>1, StackOps DEF TypeOK
  <2>2. UNCHANGED <<head, ltq, tpc>>
    BY <1>3 DEF Push, memory
  <2>3. QED BY <1>0, <2>1, <2>2 DEF TypeOK
<1>4. CASE (TestExc \/ NotStolen) /\ ~UNCHANGED calls
  <2>1. /\ UNCHANGED <<head, ltq, tpc>>
        /\ \A t \in Thieves : tpc[t] \in Decides => head + 1 < Len(calls)
        /\ calls # <<>> /\ calls' = SubSeq(calls, 1, Len(calls) - 1)
    BY <1>4, ReturnFinds
  <2>2. /\ Len(calls') = Len(calls) - 1 /\ Len(calls) \in Nat
        /\ \A i \in 1 .. Len(calls) - 1 : calls'[i] = calls[i]
    BY <1>0, <2>1, StackOps DEF TypeOK
  <2>3. QED BY <1>0, <2>1, <2>2 DEF TypeOK, Decides
<1>5. CASE Orphaned \/ Setup
  <2>1. \A t \in Thieves : tpc[t] \notin Inside
    BY <1>0, <1>5, OneDecides DEF Orphaned, Setup, Goto
  <2>2. UNCHANGED tpc
    BY <1>5 DEF Orphaned, Setup
  <2>3. QED BY <2>1, <2>2 DEF Inside
<1>6. ASSUME NEW t \in Thieves, Approach(t) \/ Steal(t)
      PROVE  TheftIsSafe'
  <2> USE DEF TGoto
  <2>1. CASE FindNothing(t) BY <1>1, <2>1 DEF FindNothing, vars, memory, owner
  <2>2. CASE \/ QuickCheck(t) \/ Contend(t) \/ Peek(t) \/ TryLock(t) \/ IncrementE(t)
             \/ Mismatch(t) \/ Retreat(t) \/ UnlockOther(t)
    <3>1. \A u \in Thieves : tpc'[u] = "detach" => tpc[u] = "detach"
      BY <1>0, <2>2 DEF QuickCheck, Contend, Peek, TryLock, IncrementE, Mismatch, Retreat,
                        UnlockOther, TypeOK
    <3>2. head' = head /\ calls' = calls /\ ltq' = ltq
      BY <2>2 DEF QuickCheck, Contend, Peek, TryLock, IncrementE, Mismatch, Retreat,
                  UnlockOther, memory, owner
    <3>3. QED BY <1>0, <3>1, <3>2
  <2>3. CASE Look(t)
    <3>1. head' = head /\ calls' = calls /\ ltq' = ltq
      BY <2>3 DEF Look, memory, owner
    <3>2. ASSUME tpc'[t] = "detach"
          PROVE  head < ltq_limit /\ head < Len(calls) /\ ltq[head] = calls[head + 1]
      <4>1. head < tail /\ head < ltq_limit
        BY <1>0, <2>3, <3>2 DEF Look, CanSteal, TypeOK
      <4>2. head < Len(calls) /\ head + 1 \in 1 .. Len(calls) /\ head + 1 <= tail
        BY <1>0, <4>1 DEF NoTailTooHigh, TypeOK
      <4>3. ltq[(head + 1) - 1] = calls[head + 1]
        BY <1>0, <4>2 DEF SlotsMatch
      <4>4. (head + 1) - 1 = head
        BY <1>0 DEF TypeOK
      <4>5. QED BY <4>1, <4>2, <4>3, <4>4
    <3>3. \A u \in Thieves \ {t} : tpc'[u] = tpc[u]
      BY <1>0, <2>3 DEF Look, TypeOK
    <3>4. QED BY <1>0, <3>1, <3>2, <3>3
  <2>4. CASE Detach(t)
    <3>1. \A u \in Thieves : tpc'[u] # "detach"
      BY <1>0, <2>4, OneDecides DEF Detach, Inside, TypeOK
    <3>2. QED BY <3>1
  <2>5. QED BY <1>6, <2>1, <2>2, <2>3, <2>4 DEF Approach, Steal
<1>7. QED
  <2>1. \/ UNCHANGED <<head, calls, ltq, tpc>> \/ Commit \/ Push
        \/ ((TestExc \/ NotStolen) /\ ~UNCHANGED calls)
        \/ Orphaned \/ Setup
        \/ \E t \in Thieves : Approach(t) \/ Steal(t)
    BY Zenon DEF Next, Own, Return, UndoDetach, Sync, FindFrame, UndoFence, TestExc, SetFlag,
           Acquire, ResetExc, NotStolen, Unlock, ClearFlag, GiveUpFrame, DealWithFrame, memory
  <2>2. QED BY <1>1, <1>2, <1>3, <1>4, <1>5, <1>6, <2>1

----------------------------------------------------------------------------
(* The theorems                                                            *)

\* Inv is an invariant.
LEMMA Invariance == Spec => []Inv
<1>1. Inv /\ UNCHANGED vars => Inv'
  <2> SUFFICES ASSUME Inv, UNCHANGED vars PROVE Inv'
    OBVIOUS
  <2>1. /\ head' = head /\ tail' = tail /\ exc' = exc /\ ltq' = ltq /\ frame_ff' = frame_ff
        /\ lock' = lock /\ steal_lock' = steal_lock /\ do_not_steal' = do_not_steal
        /\ buffer' = buffer /\ calls' = calls /\ pc' = pc /\ task' = task
        /\ spawns' = spawns /\ tpc' = tpc /\ taken' = taken /\ passed' = passed
    BY DEF vars, memory, locks, owner
  <2>2. TypeOK' BY <2>1 DEF Inv, TypeOK
  <2>3. LocksHeld' /\ FlagSeen' BY <2>1 DEF Inv, LocksHeld, FlagSeen
  <2>4. ExcExact' BY <2>1 DEF Inv, ExcExact
  <2>5. StackFits' /\ HeadOnStack'
    BY <2>1 DEF Inv, StackFits, HasNoStack, HeadOnStack, BetweenFrames
  <2>6. BufferFits' BY <2>1 DEF Inv, BufferFits, Lowered, IsTail
  <2>7. NoTailTooHigh' BY <2>1 DEF Inv, NoTailTooHigh, BetweenFrames, IsTail
  <2>8. SlotsMatch' BY <2>1, SlotsStay DEF Inv
  <2>9. TheftIsSafe' BY <2>1 DEF Inv, TheftIsSafe
  <2>10. QED BY <2>2, <2>3, <2>4, <2>5, <2>6, <2>7, <2>8, <2>9 DEF Inv
<1>2. Inv /\ [Next]_vars => Inv'
  BY <1>1, TypeStep, LockStep, ExcStep, FlagStep, StackStep, HeadStep, BufferStep, TailStep, SlotStep,
     TheftStep DEF Inv
<1>3. QED BY InitInv, <1>2, PTL DEF Spec

\* The types, for any deque and any number of thieves.
THEOREM TypeCorrect == Spec => []TypeOK
  BY Invariance, PTL DEF Inv

\* worker_trylock_other lets at most one thief in before the owner that waits.
THEOREM OwnerWaitsForOne == Spec => []AtMostOnePasses
<1>1. Inv => AtMostOnePasses
  BY DEF Inv, FlagSeen, AtMostOnePasses
<1>2. QED BY <1>1, Invariance, PTL

\* exc announces thefts, and nothing is left of the announcement afterwards.
THEOREM ExcIsExact == Spec => []ExcFollowsHead
<1>1. ASSUME Inv PROVE ExcFollowsHead
  <2>1. TypeOK /\ LocksHeld /\ ExcExact
    BY <1>1 DEF Inv
  <2>2. exc >= head
    BY <2>1 DEF ExcExact, TypeOK
  <2>3. ASSUME lock = "nobody" PROVE exc = head
    <3>1. \A t \in Thieves : tpc[t] \notin Decides
      BY <2>1, <2>3, NobodyAssumption DEF LocksHeld, Inside, Decides
    <3>2. QED BY <2>1, <3>1 DEF ExcExact
  <2>4. QED BY <2>2, <2>3 DEF ExcFollowsHead
<1>2. QED BY <1>1, Invariance, PTL

\* A worker with an empty deque may handle its full frame without the lock,
\* although thieves see its tail late.
THEOREM NoTheftFromEmpty == Spec => []EmptyIsLeftAlone
<1>1. Inv => EmptyIsLeftAlone
  BY DEF Inv, TheftIsSafe, TypeOK, EmptyIsLeftAlone
<1>2. QED BY <1>1, Invariance, PTL

----------------------------------------------------------------------------
(* The deque implements WorkQueue                                          *)

\* The frames still waiting are the stack above head.
Waiting(c, h) == SubSeq(c, h + 1, Len(c))

\* The frames that wait, one by one.
LEMMA WaitingIs ==
  ASSUME NEW c \in Seq(Frames), NEW h \in Nat
  PROVE  /\ Waiting(c, h) \in Seq(Frames)
         /\ h <= Len(c) => Len(Waiting(c, h)) = Len(c) - h
         /\ h >= Len(c) => Waiting(c, h) = <<>>
         /\ \A i \in 1 .. Len(c) - h : Waiting(c, h)[i] = c[h + i]
<1>1. Len(c) \in Nat /\ h + 1 \in Int /\ \A i \in h + 1 .. Len(c) : c[i] \in Frames
  OBVIOUS
<1> DEFINE n == Len(c)
           m == h + 1
<1>2. n \in Nat /\ m \in Int /\ m = h + 1 /\ \A i \in m .. n : c[i] \in Frames
  BY <1>1
<1> HIDE DEF n, m
<1>3. /\ SubSeq(c, m, n) \in Seq(Frames)
      /\ Len(SubSeq(c, m, n)) = IF m <= n THEN n - m + 1 ELSE 0
      /\ \A i \in 1 .. n - m + 1 : SubSeq(c, m, n)[i] = c[m + i - 1]
  <2>1. m \in Int BY <1>2
  <2>2. n \in Int BY <1>2
  <2>3. \A i \in m .. n : c[i] \in Frames BY <1>2
  <2>4. QED BY <2>1, <2>2, <2>3, SubSeqProperties
<1>4. n < m => SubSeq(c, m, n) = <<>>
  BY <1>2, SubSeqEmpty
<1>5. Waiting(c, h) = SubSeq(c, m, n)
  BY DEF Waiting, n, m
<1>6. n = Len(c)
  BY DEF n
<1>7. \A i \in 1 .. n - h : m + i - 1 = h + i /\ i \in 1 .. n - m + 1
  BY <1>2
<1>8. \A i \in 1 .. n - h : SubSeq(c, m, n)[i] = c[h + i]
  BY <1>3, <1>7
<1>9. /\ h <= n => Len(SubSeq(c, m, n)) = n - h
      /\ h >= n => n < m
  BY <1>2, <1>3
<1>10. QED BY <1>3, <1>4, <1>5, <1>6, <1>8, <1>9

\* A spawn adds a frame at the end of what is waiting.
LEMMA WaitingPush ==
  ASSUME NEW c \in Seq(Frames), NEW h \in Nat, h <= Len(c), NEW f \in Frames
  PROVE  Waiting(Append(c, f), h) = Append(Waiting(c, h), f)
<1> DEFINE a == Append(c, f)
           p == Waiting(a, h)
           q == Append(Waiting(c, h), f)
<1>1. /\ a \in Seq(Frames) /\ Len(a) = Len(c) + 1 /\ Len(c) \in Nat
      /\ \A i \in 1 .. Len(c) : a[i] = c[i]
      /\ a[Len(c) + 1] = f
  BY StackOps
<1> HIDE DEF a
<1>2. /\ p \in Seq(Frames) /\ Len(p) = Len(c) + 1 - h
      /\ \A i \in 1 .. Len(c) + 1 - h : p[i] = a[h + i]
  <2>1. h <= Len(a)
    BY <1>1
  <2>2. /\ p \in Seq(Frames) /\ Len(p) = Len(a) - h
        /\ \A i \in 1 .. Len(a) - h : p[i] = a[h + i]
    BY <1>1, <2>1, WaitingIs
  <2>3. QED BY <1>1, <2>2
<1>3. /\ Waiting(c, h) \in Seq(Frames) /\ Len(Waiting(c, h)) = Len(c) - h
      /\ \A i \in 1 .. Len(c) - h : Waiting(c, h)[i] = c[h + i]
  BY WaitingIs
<1>4. /\ q \in Seq(Frames) /\ Len(q) = Len(c) - h + 1
      /\ \A i \in 1 .. Len(c) - h : q[i] = c[h + i]
      /\ q[Len(c) - h + 1] = f
  BY <1>3, StackOps
<1> HIDE DEF p, q
<1>5. \A i \in 1 .. Len(p) : p[i] = q[i]
  <2> SUFFICES ASSUME NEW i \in 1 .. Len(p) PROVE p[i] = q[i]
    OBVIOUS
  <2>1. CASE i = Len(c) - h + 1
    <3>1. h + i = Len(c) + 1 BY <1>1, <2>1
    <3>2. QED BY <1>1, <1>2, <1>4, <2>1, <3>1
  <2>2. CASE i # Len(c) - h + 1
    <3>1. i \in 1 .. Len(c) + 1 - h /\ Len(c) \in Nat
      BY <1>1, <1>2
    <3>2. i \in 1 .. Len(c) - h /\ h + i \in 1 .. Len(c)
      BY <2>2, <3>1
    <3>3. p[i] = a[h + i]
      BY <1>2, <3>1
    <3>4. q[i] = c[h + i]
      BY <1>4, <3>2
    <3>5. a[h + i] = c[h + i]
      BY <1>1, <3>2
    <3>6. QED BY <3>3, <3>4, <3>5
  <2>3. QED BY <2>1, <2>2
<1>6. Len(p) = Len(q)
  BY <1>1, <1>2, <1>4
<1>7. p = q
  BY <1>2, <1>4, <1>5, <1>6, SeqEqual
<1>8. QED BY <1>7 DEF a, p, q

\* A return takes the last frame that is waiting.
LEMMA WaitingPop ==
  ASSUME NEW c \in Seq(Frames), NEW h \in Nat, h < Len(c)
  PROVE  /\ Waiting(c, h) # <<>>
         /\ Waiting(c, h)[Len(Waiting(c, h))] = c[Len(c)]
         /\ Waiting(SubSeq(c, 1, Len(c) - 1), h)
               = SubSeq(Waiting(c, h), 1, Len(Waiting(c, h)) - 1)
<1> DEFINE a == SubSeq(c, 1, Len(c) - 1)
           w == Waiting(c, h)
           p == Waiting(a, h)
           q == SubSeq(w, 1, Len(w) - 1)
<1>1. /\ a \in Seq(Frames) /\ Len(a) = Len(c) - 1 /\ Len(c) \in Nat /\ h <= Len(a)
      /\ \A i \in 1 .. Len(c) - 1 : a[i] = c[i]
  BY StackOps
<1>2. /\ w \in Seq(Frames) /\ Len(w) = Len(c) - h
      /\ \A i \in 1 .. Len(c) - h : w[i] = c[h + i]
  <2>1. h <= Len(c)
    BY <1>1
  <2>2. QED BY <2>1, WaitingIs
<1> HIDE DEF a, w
<1>3. /\ p \in Seq(Frames) /\ Len(p) = Len(c) - 1 - h
      /\ \A i \in 1 .. Len(c) - 1 - h : p[i] = a[h + i]
  <2>1. /\ p \in Seq(Frames) /\ Len(p) = Len(a) - h
        /\ \A i \in 1 .. Len(a) - h : p[i] = a[h + i]
    BY <1>1, WaitingIs
  <2>2. QED BY <1>1, <2>1
<1>4. w # <<>> /\ w[Len(w)] = c[Len(c)]
  <2>1. Len(c) - h \in 1 .. Len(c) - h /\ h + (Len(c) - h) = Len(c)
    BY <1>1
  <2>2. QED BY <1>2, <2>1
<1>5. /\ q \in Seq(Frames) /\ Len(q) = Len(c) - h - 1
      /\ \A i \in 1 .. Len(c) - h - 1 : q[i] = w[i]
  BY <1>2, <1>4, StackOps
<1> HIDE DEF p, q
<1>6. \A i \in 1 .. Len(p) : p[i] = q[i]
  <2> SUFFICES ASSUME NEW i \in 1 .. Len(p) PROVE p[i] = q[i]
    OBVIOUS
  <2>1. i \in 1 .. Len(c) - 1 - h /\ i \in 1 .. Len(c) - h /\ i \in 1 .. Len(c) - h - 1
        /\ h + i \in 1 .. Len(c) - 1
    BY <1>1, <1>3
  <2>2. p[i] = c[h + i] BY <1>1, <1>3, <2>1
  <2>3. q[i] = c[h + i] BY <1>2, <1>5, <2>1
  <2>4. QED BY <2>2, <2>3
<1>7. Len(p) = Len(q)
  BY <1>1, <1>3, <1>5
<1>8. p = q
  BY <1>3, <1>5, <1>6, <1>7, SeqEqual
<1>9. QED BY <1>4, <1>8 DEF a, w, p, q

\* A thief takes the first one.
LEMMA WaitingSteal ==
  ASSUME NEW c \in Seq(Frames), NEW h \in Nat, h < Len(c)
  PROVE  /\ Waiting(c, h) # <<>>
         /\ Head(Waiting(c, h)) = c[h + 1]
         /\ Waiting(c, h + 1) = Tail(Waiting(c, h))
<1> DEFINE w == Waiting(c, h)
           p == Waiting(c, h + 1)
           q == Tail(w)
<1>1. Len(c) \in Nat /\ h + 1 \in Nat /\ h + 1 <= Len(c)
  OBVIOUS
<1>2. /\ w \in Seq(Frames) /\ Len(w) = Len(c) - h
      /\ \A i \in 1 .. Len(c) - h : w[i] = c[h + i]
  <2>1. h <= Len(c)
    BY <1>1
  <2>2. QED BY <2>1, WaitingIs
<1>3. /\ p \in Seq(Frames) /\ Len(p) = Len(c) - (h + 1)
      /\ \A i \in 1 .. Len(c) - (h + 1) : p[i] = c[(h + 1) + i]
  BY <1>1, WaitingIs
<1> HIDE DEF w, p
<1>4. w # <<>> /\ Head(w) = c[h + 1]
  BY <1>1, <1>2
<1>5. /\ q \in Seq(Frames) /\ Len(q) = Len(c) - h - 1
      /\ \A i \in 1 .. Len(q) : q[i] = w[i + 1]
  BY <1>2, <1>4, HeadTailProperties
<1> HIDE DEF q
<1>6. \A i \in 1 .. Len(p) : p[i] = q[i]
  <2> SUFFICES ASSUME NEW i \in 1 .. Len(p) PROVE p[i] = q[i]
    OBVIOUS
  <2>1. /\ i \in 1 .. Len(c) - (h + 1) /\ i + 1 \in 1 .. Len(c) - h /\ i \in 1 .. Len(q)
        /\ (h + 1) + i = h + (i + 1)
    BY <1>1, <1>3, <1>5
  <2>2. p[i] = c[(h + 1) + i] BY <1>3, <2>1
  <2>3. q[i] = c[h + (i + 1)] BY <1>2, <1>5, <2>1
  <2>4. QED BY <2>1, <2>2, <2>3
<1>7. Len(p) = Len(q)
  BY <1>1, <1>3, <1>5
<1>8. p = q
  BY <1>3, <1>5, <1>6, <1>7, SeqEqual
<1>9. QED BY <1>4, <1>8 DEF w, p, q

\* Every step of the deque is a step of the queue or leaves it alone.
LEMMA QueueStep == Inv /\ Next => [Promise!Next]_(Promise!vars)
<1> SUFFICES ASSUME Inv, Next PROVE Promise!Next \/ UNCHANGED Promise!vars
  OBVIOUS
<1>0. TypeOK /\ StackFits /\ HeadOnStack /\ BufferFits /\ TheftIsSafe
  BY DEF Inv
<1>t. calls \in Seq(Frames) /\ head \in Nat /\ Len(calls) \in Nat
  BY <1>0 DEF TypeOK
<1>1. CASE UNCHANGED <<calls, head, spawns, taken>>
  BY <1>1 DEF Promise!vars
<1>2. CASE Push
  <2>1. /\ calls' = Append(calls, spawns + 1) /\ spawns + 1 \in Frames /\ head' = head
        /\ spawns < MaxPush /\ spawns' = spawns + 1 /\ taken' = taken
    BY <1>0, <1>2, LimitAssumption DEF Push, CanPush, TypeOK, Frames, memory
  <2>2. head <= Len(calls)
    BY <1>0, <1>2 DEF HeadOnStack, BetweenFrames, Push
  <2>3. Waiting(calls', head') = Append(Waiting(calls, head), spawns + 1)
    BY <1>t, <2>1, <2>2, WaitingPush
  <2>4. Promise!Push
    BY <2>1, <2>3 DEF Promise!Push, Waiting
  <2>5. QED BY <2>4 DEF Promise!Next
<1>3. CASE (TestExc \/ NotStolen) /\ ~UNCHANGED calls
  <2>1. /\ calls # <<>> /\ UNCHANGED head /\ head < Len(calls)
        /\ calls' = SubSeq(calls, 1, Len(calls) - 1)
    BY <1>3, ReturnFinds
  <2>2. taken' = [taken EXCEPT ![calls[Len(calls)]] = @ \cup {Owner}] /\ spawns' = spawns
    BY <1>3 DEF TestExc, NotStolen, ReturnToCaller, TakenBy, Top
  <2>3. /\ Waiting(calls, head) # <<>>
        /\ Waiting(calls, head)[Len(Waiting(calls, head))] = calls[Len(calls)]
        /\ Waiting(calls', head')
              = SubSeq(Waiting(calls, head), 1, Len(Waiting(calls, head)) - 1)
    BY <1>t, <2>1, WaitingPop
  <2>4. Promise!Pop
    BY <2>2, <2>3 DEF Promise!Pop, Promise!TakenBy, Waiting
  <2>5. QED BY <2>4 DEF Promise!Next
<1>4. CASE Orphaned \/ Setup
  <2>1. calls' = <<>> /\ spawns' = spawns /\ taken' = taken
    BY <1>0, <1>4 DEF Orphaned, Setup, Goto, StackFits, HasNoStack
  <2>2. head >= Len(calls)
    BY <1>0, <1>4, <1>t DEF Orphaned, Stolen, Setup, Goto, StackFits, HasNoStack
  <2>3. head' \in Nat /\ calls' \in Seq(Frames) /\ Len(calls') = 0
    BY <1>4, <1>t, <2>1 DEF Orphaned, Setup, memory
  <2>4. Waiting(calls, head) = <<>>
    BY <1>t, <2>2, WaitingIs
  <2>5. Waiting(calls', head') = <<>>
    <3>1. head' >= Len(calls')
      BY <2>3
    <3>2. QED BY <2>3, <3>1, WaitingIs
  <2>6. QED BY <2>1, <2>4, <2>5 DEF Promise!vars, Waiting
<1>5. ASSUME NEW t \in Thieves, Detach(t)
      PROVE  Promise!Next
  <2>1. /\ head' = head + 1 /\ UNCHANGED <<calls, spawns>>
        /\ taken' = [taken EXCEPT ![ltq[head]] = @ \cup {t}]
    BY <1>5 DEF Detach, TakenBy, owner
  <2>2. head < Len(calls) /\ ltq[head] = calls[head + 1]
    BY <1>0, <1>5 DEF TheftIsSafe, Detach, TGoto
  <2>3. /\ Waiting(calls, head) # <<>> /\ Head(Waiting(calls, head)) = calls[head + 1]
        /\ Waiting(calls', head') = Tail(Waiting(calls, head))
    BY <1>t, <2>1, <2>2, WaitingSteal
  <2>4. Promise!Steal(t)
    BY <2>1, <2>2, <2>3 DEF Promise!Steal, Promise!TakenBy, Waiting
  <2>5. QED BY <2>4 DEF Promise!Next
<1>6. QED
  <2>1. \/ UNCHANGED <<calls, head, spawns, taken>> \/ Push
        \/ ((TestExc \/ NotStolen) /\ ~UNCHANGED calls)
        \/ Orphaned \/ Setup \/ \E t \in Thieves : Detach(t)
    <3>1. CASE TestExc /\ UNCHANGED calls
      <4>1. UNCHANGED <<head, spawns>>
        BY <3>1 DEF TestExc, memory
      <4>2. calls \in Seq(Frames) /\ exc \in Nat
        BY <1>0 DEF TypeOK
      <4>3. CASE Len(calls) - 1 < exc
        BY <3>1, <4>1, <4>3 DEF TestExc
      <4>4. CASE ~ (Len(calls) - 1 < exc)
        <5>1. calls' = SubSeq(calls, 1, Len(calls) - 1)
          BY <3>1, <4>4 DEF TestExc, ReturnToCaller, Pop
        <5>2. Len(calls) >= 1
          BY <1>t, <4>2, <4>4
        <5>3. Len(calls') = Len(calls) - 1
          BY <4>2, <5>1, <5>2, StackOps
        <5>4. QED BY <1>t, <3>1, <5>3
      <4>5. QED BY <3>1, <4>1, <4>3, <4>4
    <3>2. CASE NotStolen /\ UNCHANGED calls
      <4>1. calls \in Seq(Frames) /\ head < Len(calls)
        BY <1>0, <1>t, <3>2 DEF NotStolen, Stolen, TypeOK
      <4>2. calls' = SubSeq(calls, 1, Len(calls) - 1)
        BY <3>2 DEF NotStolen, ReturnToCaller, Pop
      <4>3. Len(calls) >= 1
        BY <1>t, <4>1
      <4>4. Len(calls') = Len(calls) - 1
        BY <4>1, <4>2, <4>3, StackOps
      <4>5. QED BY <1>t, <3>2, <4>4
    <3>3. QED
      BY <3>1, <3>2, Zenon
      DEF Next, Own, Return, Commit, UndoDetach, Sync, FindFrame, UndoFence, SetFlag,
          Acquire, ResetExc, Unlock, ClearFlag, GiveUpFrame, DealWithFrame, Approach,
          Steal, FindNothing, QuickCheck, Contend, Peek, TryLock, IncrementE, Look,
          Mismatch, Retreat, UnlockOther, owner, memory, vars
  <2>2. QED BY <1>1, <1>2, <1>3, <1>4, <1>5, <2>1

\* At the start no frame waits.
LEMMA QueueInit == Init => Promise!Init
<1> SUFFICES ASSUME Init PROVE Promise!Init
  OBVIOUS
<1>1. calls = <<>> /\ head = 0 /\ spawns = 0 /\ taken = [f \in Frames |-> {}]
  BY DEF Init
<1>2. calls \in Seq(Frames) /\ head \in Nat /\ head >= Len(calls)
  BY <1>1
<1>3. Waiting(calls, head) = <<>>
  BY <1>2, WaitingIs
<1>4. QED BY <1>1, <1>3 DEF Promise!Init, Promise!Frames, Frames, Waiting

\* The THE protocol implements a queue from which each frame is taken once: what
\* TestExc, NotStolen and Detach decide on their own, with stores of the owner
\* still in its buffer, is what one indivisible pop or steal would decide.
THEOREM RefinesWorkQueue == Spec => ImplementsQueue
<1>1. UNCHANGED vars => UNCHANGED Promise!vars
  BY DEF vars, memory, locks, owner, Promise!vars
<1>2. Inv /\ [Next]_vars => [Promise!Next]_(Promise!vars)
  BY <1>1, QueueStep
<1>3. QED BY <1>2, QueueInit, Invariance, PTL DEF Spec, ImplementsQueue, Promise!Spec
=============================================================================
