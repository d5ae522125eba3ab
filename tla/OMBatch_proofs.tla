--------------------------- MODULE OMBatch_proofs ---------------------------
(***************************************************************************)
(* Theorems about OMBatch, for any number of workers and lists, any gaps   *)
(* and bounds, and with or without thieves: the state stays well typed, no *)
(* insert runs while a batch is announced, and a query that accepts its    *)
(* answer read one labelling.  The last two rest on the invariants LockInv *)
(* (who holds which mutex where), FrameInv (where the fork-join frame of a *)
(* batch is) and QueryInv.                                                 *)
(*                                                                         *)
(* An owner that leaves its batch too early breaks what else the protocol  *)
(* should give: no insert while labels are in flux, no heavy list lost, an *)
(* answer for every insert that failed, and that relabelling is            *)
(* indivisible, as OrderLists says.  All this is proved for owners that    *)
(* stay: without thieves, because the owner is then alone in its batch     *)
(* (SerialInv), and with thieves for owners that begin with the id of      *)
(* their own batch (StayInv).  So it takes a stale id to break these;      *)
(* thieves alone do not.  Nor do they leave the frame of a batch behind,   *)
(* if they wait for the batch they steal from.  What thieves alone do      *)
(* break is the assertion of cilk_set_next_batch_owner: then batch_lock is *)
(* held, but only by a worker that has published the end of its batch      *)
(* (LeaveInv).                                                             *)
(***************************************************************************)
EXTENDS OMBatch, TLAPS

\* A worker inside its insert holds its own mutex.
InsertersHoldTheirMutex ==
  \A w \in Workers : pc[w] \in Critical => worker_mutex[w] = w

\* Whoever gathers or gives back the mutexes holds g_relabel_mutex, and no
\* batch is announced meanwhile.
GatherersHoldRelabelMutex ==
  \A w \in Workers :
    pc[w] \in Gathering \cup Releasing =>
      relabel_mutex = w /\ batch_owner_id = NoWorker

\* The loops over g_worker_mutexes: what is locked so far, what is left.
LockedSoFar ==
  \A w \in Workers : pc[w] = "lock_all" =>
    \A i \in Workers : i < cursor => worker_mutex[i] = w
StillLocked ==
  \A w \in Workers : pc[w] = "unlock_all" =>
    \A i \in Workers : i >= cursor => worker_mutex[i] = w

\* The announced owner holds everything and stays inside cilk_batchify.
OwnerHoldsAll ==
  batch_owner_id # NoWorker =>
    /\ relabel_mutex = batch_owner_id
    /\ pc[batch_owner_id] \in InBatch
    /\ \A i \in Workers : worker_mutex[i] = batch_owner_id

BatchHasOwner == batch_in_progress => batch_owner_id # NoWorker

\* A worker that may become the owner, and the owner, wait for some batch.
WaitsForBatch ==
  /\ \A w \in Workers :
       pc[w] \in {"try_start", "try_relabel_mutex"} \cup Gathering =>
         batch_id[w] # -1
  /\ batch_owner_id # NoWorker => batch_id[batch_owner_id] # -1

LockInv ==
  /\ InsertersHoldTheirMutex
  /\ GatherersHoldRelabelMutex
  /\ LockedSoFar
  /\ StillLocked
  /\ OwnerHoldsAll
  /\ BatchHasOwner
  /\ WaitsForBatch

\* A worker that alone carries the batch: before the fork or after the join.
Alone == {"set_owner_field", "lock_all", "relabel_begin", "relabel_end",
          "term_id", "term_owner", "term_lock"}

\* The relabel id is odd exactly while the fork-join frame of batch_relabel
\* lives, and batch_lock is held throughout.
FrameLives ==
  /\ cont # "none" <=> relabel_id % 2 = 1
  /\ cont # "none" => batch_lock.lock

\* What each state of the frame says of the two relabel calls.
FrameShape ==
  /\ cont \in {"none", "synched"} => \A o \in Orders : running[o] = NoWorker
  /\ cont = "stealable" =>
       running[English] # NoWorker /\ running[Hebrew] = NoWorker
  /\ cont = "popped" => running[English] = NoWorker
  /\ cont = "taken" => running[Hebrew] # NoWorker
  /\ cont = "at_sync" =>
       running[English] # NoWorker /\ running[Hebrew] = NoWorker
  /\ next_frame # NoWorker => cont = "synched"

\* Each call has its own worker, which is inside it; lists are in flux only
\* under a worker that has not finished that order.
CallsAreServed ==
  /\ running[English] # NoWorker => running[English] # running[Hebrew]
  /\ \A w \in Workers, o \in Orders :
       running[o] = w => pc[w] \in {"relabel", "relabel_done"}

TornIsServed ==
  \A o \in Orders : torn[o] # {} =>
    running[o] # NoWorker /\ pc[running[o]] = "relabel"

\* There is one batch at a time.
OneBatch ==
  /\ \A w \in Workers : pc[w] \in Alone =>
       /\ batch_lock.lock
       /\ next_frame = NoWorker
       /\ \A o \in Orders : running[o] = NoWorker
       /\ \A v \in Workers : pc[v] \in Alone => v = w
       /\ pc[w] # "relabel_end" => cont = "none"
  /\ \A w \in Workers : pc[w] = "relabel_end" => cont \in {"popped", "synched"}

FrameInv ==
  /\ FrameLives
  /\ FrameShape
  /\ CallsAreServed
  /\ TornIsServed
  /\ OneBatch

\* Without a thief the announced owner is alone in the whole batch: the frame
\* never waits at its sync, and who holds batch_lock is on its way through
\* the batch.
OwnBatch == {"relabel_begin", "relabel", "relabel_done", "relabel_end",
             "term_id", "term_owner", "term_lock"}

SerialInv ==
  /\ \A w \in Workers : pc[w] \in OwnBatch => batch_owner_id = w
  /\ cont # "none" =>
       /\ batch_owner_id # NoWorker
       /\ pc[batch_owner_id] \in {"relabel", "relabel_done", "relabel_end"}
  /\ cont \in {"none", "stealable", "popped"}
  /\ batch_lock.lock =>
       cont # "none" \/ \E w \in Workers : pc[w] \in Alone

\* What a query that would still be accepted has read is the current
\* labelling of its order.
QueryInv ==
  \A w \in Workers :
    LET now == version[OrderOf(target[w])]
    IN /\ query[w].id <= relabel_id
       /\ pc[w] \in {"read_y", "ask_again"} /\ Accepts(w) => query[w].x = now
       /\ pc[w] = "ask_again" /\ Accepts(w) => query[w].y = now

----------------------------------------------------------------------------
(* The steps preserve the invariants.                                      *)

\* NoWorker is not the number of a worker.
LEMMA NoWorkerIsNone == NoWorker \notin Workers
  BY PAssumption DEF NoWorker, Workers

\* Every operation of the protocol stores values of the right kind.
LEMMA TypeStep == TypeOK /\ [Next]_vars => TypeOK'
<1> SUFFICES ASSUME TypeOK, [Next]_vars
             PROVE  TypeOK'
  OBVIOUS
<1> USE DEF TypeOK, PCs, Critical, Gathering, InBatch, Releasing, Joining,
            Asking
<1> USE DEF Goto, lockVars, omVars, frameVars, idVars, askVars, ownVars
<1>1. ASSUME NEW w \in Workers, NEW l \in Lists, StartInsert(w, l)
  PROVE TypeOK'
  BY <1>1 DEF StartInsert
<1>2. ASSUME NEW w \in Workers, NEW l \in Lists, StartQuery(w, l) PROVE TypeOK'
  BY <1>2 DEF StartQuery
<1>4. ASSUME NEW w \in Workers, LockOwn(w) PROVE TypeOK'
  BY <1>4 DEF LockOwn
<1>5. ASSUME NEW w \in Workers, OwnMutexTaken(w) PROVE TypeOK'
  BY <1>5 DEF OwnMutexTaken
<1>6. ASSUME NEW w \in Workers, InsertFits(w) PROVE TypeOK'
  <2>1. gap[w][target[w]] \in 0 .. MaxGap /\ target[w] \in Lists
    OBVIOUS
  <2>2. gap[w][target[w]] - 1 \in 0 .. MaxGap
    BY <2>1, <1>6, GapAssumption DEF InsertFits
  <2>3. gap' = [gap EXCEPT ![w] =
                  [gap[w] EXCEPT ![target[w]] = gap[w][target[w]] - 1]]
    BY <1>6 DEF InsertFits
  <2>4. gap' \in [Workers -> [Lists -> 0 .. MaxGap]]
    BY <2>1, <2>2, <2>3
  <2> QED
    BY <1>6, <2>4 DEF InsertFits
<1>7. ASSUME NEW w \in Workers, InsertFails(w) PROVE TypeOK'
  BY <1>7 DEF InsertFails
<1>8. ASSUME NEW w \in Workers, MarkHeavy(w) PROVE TypeOK'
  BY <1>8 DEF MarkHeavy, AfterMark
<1>9. ASSUME NEW w \in Workers, AddHeavy(w) PROVE TypeOK'
  BY <1>9 DEF AddHeavy, AfterMark, OrderOf, Orders
<1>10. ASSUME NEW w \in Workers, SetBatchId(w) PROVE TypeOK'
  BY <1>10 DEF SetBatchId
<1>11. ASSUME NEW w \in Workers, UnlockOwn(w) PROVE TypeOK'
  BY <1>11 DEF UnlockOwn
<1>12. ASSUME NEW w \in Workers, Batchify(w) PROVE TypeOK'
  BY <1>12 DEF Batchify
<1>13. ASSUME NEW w \in Workers, TryStart(w) PROVE TypeOK'
  BY <1>13 DEF TryStart
<1>14. ASSUME NEW w \in Workers, LockRelabel(w) PROVE TypeOK'
  BY <1>14 DEF LockRelabel
<1>15. ASSUME NEW w \in Workers, RelabelMutexTaken(w) PROVE TypeOK'
  BY <1>15 DEF RelabelMutexTaken
<1>16. ASSUME NEW w \in Workers, SetNextBatchOwner(w) PROVE TypeOK'
  BY <1>16 DEF SetNextBatchOwner
<1>17. ASSUME NEW w \in Workers, SetOwnerField(w) PROVE TypeOK'
  <2>1. cursor' \in 0 .. P
    BY <1>17, PAssumption DEF SetOwnerField
  <2> QED
    BY <1>17, <2>1 DEF SetOwnerField
<1>18. ASSUME NEW w \in Workers, LockNext(w) PROVE TypeOK'
  <2>1. cursor \in Workers /\ cursor' \in 0 .. P
    BY <1>18, PAssumption DEF LockNext, Workers
  <2> QED
    BY <1>18, <2>1 DEF LockNext
<1>19. ASSUME NEW w \in Workers, AllLocked(w) PROVE TypeOK'
  BY <1>19 DEF AllLocked
<1>20. ASSUME NEW w \in Workers, HelpId(w) PROVE TypeOK'
  BY <1>20 DEF HelpId
<1>21. ASSUME NEW w \in Workers, HelpOwner(w) PROVE TypeOK'
  BY <1>21 DEF HelpOwner
<1>22. ASSUME NEW w \in Workers, Steal(w) PROVE TypeOK'
  BY <1>22 DEF Steal
<1>23. ASSUME NEW w \in Workers, FindNothing(w) PROVE TypeOK'
  BY <1>23 DEF FindNothing
<1>24. ASSUME NEW w \in Workers, Leave(w) PROVE TypeOK'
  <2>1. cursor' \in 0 .. P
    BY <1>24, PAssumption DEF Leave
  <2>2. pc' \in [Workers -> PCs] /\ batch_id' \in [Workers -> Int]
    BY <1>24 DEF Leave
  <2>3. insert_failed' \in [Workers -> BOOLEAN]
    BY <1>24 DEF Leave
  <2>4. /\ batch_in_progress' \in BOOLEAN
        /\ batch_owner_id' \in Workers \cup {NoWorker}
    BY <1>24 DEF Leave
  <2> QED
    BY <1>24, <2>1, <2>2, <2>3, <2>4 DEF Leave
<1>25. ASSUME NEW w \in Workers, UnlockNext(w) PROVE TypeOK'
  <2>1. cursor \in Workers /\ cursor' \in 0 .. P
    BY <1>25, PAssumption DEF UnlockNext, Workers
  <2> QED
    BY <1>25, <2>1 DEF UnlockNext
<1>26. ASSUME NEW w \in Workers, UnlockRelabel(w) PROVE TypeOK'
  BY <1>26 DEF UnlockRelabel
<1>27. ASSUME NEW w \in Workers, BeginRelabel(w) PROVE TypeOK'
  BY <1>27 DEF BeginRelabel, Orders
<1>28. ASSUME NEW w \in Workers, NEW o \in Orders, NothingHeavy(w, o)
  PROVE TypeOK'
  BY <1>28 DEF NothingHeavy
<1>29. ASSUME NEW w \in Workers, NEW o \in Orders, SplitHeavy(w, o)
  PROVE TypeOK'
  BY <1>29 DEF SplitHeavy
<1>30. ASSUME NEW w \in Workers, NEW o \in Orders, Rebuild(w, o) PROVE TypeOK'
  <2>1. gap' \in [Workers -> [Lists -> 0 .. MaxGap]]
    BY <1>30, GapAssumption DEF Rebuild
  <2>2. heavy' \in [Lists -> BOOLEAN]
    BY <1>30 DEF Rebuild
  <2>3. /\ heavy_nodes' \in [Orders -> SUBSET Lists]
        /\ torn' \in [Orders -> SUBSET Lists]
        /\ version' \in [Orders -> Nat]
    BY <1>30 DEF Rebuild
  <2> QED
    BY <1>30, <2>1, <2>2, <2>3 DEF Rebuild
<1>31. ASSUME NEW w \in Workers, PopContinuation(w) PROVE TypeOK'
  BY <1>31 DEF PopContinuation
<1>32. ASSUME NEW w \in Workers, ChildReturns(w) PROVE TypeOK'
  BY <1>32 DEF ChildReturns
<1>33. ASSUME NEW w \in Workers, PlainSync(w) PROVE TypeOK'
  BY <1>33 DEF PlainSync
<1>34. ASSUME NEW w \in Workers, StolenSync(w) PROVE TypeOK'
  BY <1>34 DEF StolenSync
<1>35. ASSUME NEW w \in Workers, ResumeFrame(w) PROVE TypeOK'
  BY <1>35 DEF ResumeFrame
<1>36. ASSUME NEW w \in Workers, EndRelabel(w) PROVE TypeOK'
  BY <1>36 DEF EndRelabel
<1>37. ASSUME NEW w \in Workers, TerminateId(w) PROVE TypeOK'
  BY <1>37 DEF TerminateId
<1>38. ASSUME NEW w \in Workers, TerminateOwner(w) PROVE TypeOK'
  BY <1>38 DEF TerminateOwner
<1>39. ASSUME NEW w \in Workers, TerminateLock(w) PROVE TypeOK'
  BY <1>39 DEF TerminateLock, BackToScheduler
<1>40. ASSUME NEW w \in Workers, ReadRelabelId(w) PROVE TypeOK'
  <2>1. query' \in [Workers -> [id : Nat, x : Labellings, y : Labellings]]
    BY <1>40 DEF ReadRelabelId, Labellings, Unread
  <2> QED
    BY <1>40, <2>1 DEF ReadRelabelId
<1>41. ASSUME NEW w \in Workers, ReadX(w) PROVE TypeOK'
  <2>1. LabelsOf(OrderOf(target[w])) \in Labellings
    BY DEF LabelsOf, OrderOf, Orders, Labellings, Torn
  <2>2. query' = [query EXCEPT ![w] =
                    [query[w] EXCEPT !.x = LabelsOf(OrderOf(target[w]))]]
    BY <1>41 DEF ReadX
  <2>3. query' \in [Workers -> [id : Nat, x : Labellings, y : Labellings]]
    BY <2>1, <2>2, ZenonT(60)
  <2> QED
    BY <1>41, <2>3 DEF ReadX
<1>42. ASSUME NEW w \in Workers, ReadY(w) PROVE TypeOK'
  <2>1. LabelsOf(OrderOf(target[w])) \in Labellings
    BY DEF LabelsOf, OrderOf, Orders, Labellings, Torn
  <2>2. query' = [query EXCEPT ![w] =
                    [query[w] EXCEPT !.y = LabelsOf(OrderOf(target[w]))]]
    BY <1>42 DEF ReadY
  <2>3. query' \in [Workers -> [id : Nat, x : Labellings, y : Labellings]]
    BY <2>1, <2>2, ZenonT(60)
  <2> QED
    BY <1>42, <2>3 DEF ReadY
<1>43. ASSUME NEW w \in Workers, EndQuery(w) PROVE TypeOK'
  <2>1. query' \in [Workers -> [id : Nat, x : Labellings, y : Labellings]]
    BY <1>43 DEF EndQuery, Labellings, Unread
  <2> QED
    BY <1>43, <2>1 DEF EndQuery
<1>90. CASE UNCHANGED vars
  BY <1>90 DEF vars
<1> HIDE DEF TypeOK, PCs, Critical, Gathering, InBatch, Releasing, Joining,
             Asking, Goto
<1> QED
  BY <1>1, <1>2, <1>4, <1>5, <1>6, <1>7, <1>8, <1>9, <1>10, <1>11,
     <1>12, <1>13, <1>14, <1>15, <1>16, <1>17, <1>18, <1>19, <1>20, <1>21,
     <1>22, <1>23, <1>24, <1>25, <1>26, <1>27, <1>28, <1>29, <1>30, <1>31,
     <1>32, <1>33, <1>34, <1>35, <1>36, <1>37, <1>38, <1>39, <1>40, <1>41,
     <1>42, <1>43, <1>90
  DEF Next, Call, Step, Insert, JoinBatch, Relabel, Query, Finished

\* LockInv is preserved by every step of every worker.
LEMMA LockStep == TypeOK /\ LockInv /\ [Next]_vars => LockInv'
<1> SUFFICES ASSUME TypeOK /\ LockInv, [Next]_vars
             PROVE  LockInv'
  OBVIOUS
<1> USE DEF TypeOK, LockInv, InsertersHoldTheirMutex,
            GatherersHoldRelabelMutex, LockedSoFar, StillLocked,
            OwnerHoldsAll, BatchHasOwner, WaitsForBatch
<1> USE DEF Critical, Gathering, InBatch, Releasing, Goto
<1> USE DEF lockVars, omVars, frameVars, idVars, askVars, ownVars
<1> USE PAssumption
<1>1. ASSUME NEW w \in Workers, NEW l \in Lists, StartInsert(w, l)
  PROVE LockInv'
  BY <1>1 DEF StartInsert
<1>2. ASSUME NEW w \in Workers, NEW l \in Lists, StartQuery(w, l)
  PROVE LockInv'
  BY <1>2 DEF StartQuery
<1>4. ASSUME NEW w \in Workers, LockOwn(w) PROVE LockInv'
  <2>a. /\ worker_mutex' = [worker_mutex EXCEPT ![w] = w]
        /\ pc' = [pc EXCEPT ![w] = "try_insert"] /\ pc[w] = "acquire"
        /\ UNCHANGED <<relabel_mutex, cursor, batch_in_progress, batch_owner_id,
                       batch_id>>
        /\ \A v \in Workers : worker_mutex[w] # v
    BY <1>4, NoWorkerIsNone DEF LockOwn
  <2>1. InsertersHoldTheirMutex'
    BY <2>a
  <2>2. GatherersHoldRelabelMutex'
    BY <2>a
  <2>3. LockedSoFar'
    BY <2>a
  <2>4. StillLocked'
    BY <2>a
  <2>5. OwnerHoldsAll'
    BY <2>a
  <2>6. BatchHasOwner'
    BY <2>a
  <2>7. WaitsForBatch'
    BY <2>a
  <2> QED
    BY <2>1, <2>2, <2>3, <2>4, <2>5, <2>6, <2>7
<1>5. ASSUME NEW w \in Workers, OwnMutexTaken(w) PROVE LockInv'
  BY <1>5 DEF OwnMutexTaken
<1>6. ASSUME NEW w \in Workers, InsertFits(w) PROVE LockInv'
  BY <1>6 DEF InsertFits
<1>7. ASSUME NEW w \in Workers, InsertFails(w) PROVE LockInv'
  BY <1>7 DEF InsertFails
<1>8. ASSUME NEW w \in Workers, MarkHeavy(w) PROVE LockInv'
  BY <1>8 DEF MarkHeavy, AfterMark
<1>9. ASSUME NEW w \in Workers, AddHeavy(w) PROVE LockInv'
  BY <1>9 DEF AddHeavy, AfterMark
<1>10. ASSUME NEW w \in Workers, SetBatchId(w) PROVE LockInv'
  BY <1>10 DEF SetBatchId
<1>11. ASSUME NEW w \in Workers, UnlockOwn(w) PROVE LockInv'
  BY <1>11 DEF UnlockOwn
<1>12. ASSUME NEW w \in Workers, Batchify(w) PROVE LockInv'
  BY <1>12 DEF Batchify
<1>13. ASSUME NEW w \in Workers, TryStart(w) PROVE LockInv'
  BY <1>13 DEF TryStart
<1>14. ASSUME NEW w \in Workers, LockRelabel(w) PROVE LockInv'
  <2>a. /\ batch_owner_id = NoWorker
        /\ \A v \in Workers : pc[v] \notin Gathering \cup Releasing
    BY <1>14, NoWorkerIsNone DEF LockRelabel
  <2>1. InsertersHoldTheirMutex'
    BY <1>14 DEF LockRelabel
  <2>2. GatherersHoldRelabelMutex'
    BY <1>14, <2>a DEF LockRelabel
  <2>3. LockedSoFar'
    BY <1>14 DEF LockRelabel
  <2>4. StillLocked'
    BY <1>14 DEF LockRelabel
  <2>5. OwnerHoldsAll'
    BY <1>14 DEF LockRelabel
  <2>6. BatchHasOwner'
    BY <1>14 DEF LockRelabel
  <2>7. WaitsForBatch'
    BY <1>14 DEF LockRelabel
  <2> QED
    BY <2>1, <2>2, <2>3, <2>4, <2>5, <2>6, <2>7
<1>15. ASSUME NEW w \in Workers, RelabelMutexTaken(w) PROVE LockInv'
  BY <1>15 DEF RelabelMutexTaken
<1>16. ASSUME NEW w \in Workers, SetNextBatchOwner(w) PROVE LockInv'
  BY <1>16 DEF SetNextBatchOwner
<1>17. ASSUME NEW w \in Workers, SetOwnerField(w) PROVE LockInv'
  <2>1. InsertersHoldTheirMutex'
    BY <1>17 DEF SetOwnerField
  <2>2. GatherersHoldRelabelMutex'
    BY <1>17 DEF SetOwnerField
  <2>3. LockedSoFar'
    BY <1>17, NoWorkerIsNone DEF SetOwnerField, Workers
  <2>4. StillLocked'
    BY <1>17 DEF SetOwnerField
  <2>5. OwnerHoldsAll'
    BY <1>17 DEF SetOwnerField
  <2>6. BatchHasOwner'
    BY <1>17 DEF SetOwnerField
  <2>7. WaitsForBatch'
    BY <1>17 DEF SetOwnerField
  <2> QED
    BY <2>1, <2>2, <2>3, <2>4, <2>5, <2>6, <2>7
<1>18. ASSUME NEW w \in Workers, LockNext(w) PROVE LockInv'
  <2>a. /\ worker_mutex' = [worker_mutex EXCEPT ![cursor] = w]
        /\ cursor \in Workers /\ cursor' = cursor + 1 /\ pc[w] = "lock_all"
        /\ UNCHANGED <<pc, relabel_mutex, batch_in_progress, batch_owner_id,
                       batch_id>>
        /\ worker_mutex[cursor] = NoWorker
    BY <1>18 DEF LockNext, Workers
  <2>b. \A v \in Workers : worker_mutex[cursor] # v
    BY <2>a, NoWorkerIsNone
  <2>1. InsertersHoldTheirMutex'
    BY <2>a, <2>b
  <2>2. GatherersHoldRelabelMutex'
    BY <2>a, <2>b
  <2>3. LockedSoFar'
    BY <2>a, <2>b DEF Workers
  <2>4. StillLocked'
    BY <2>a, <2>b
  <2>5. OwnerHoldsAll'
    BY <2>a, <2>b
  <2>6. BatchHasOwner'
    BY <2>a, <2>b
  <2>7. WaitsForBatch'
    BY <2>a, <2>b
  <2> QED
    BY <2>1, <2>2, <2>3, <2>4, <2>5, <2>6, <2>7
<1>19. ASSUME NEW w \in Workers, AllLocked(w) PROVE LockInv'
  <2>a. \A i \in Workers : worker_mutex[i] = w
    BY <1>19 DEF AllLocked, Workers
  <2>1. InsertersHoldTheirMutex'
    BY <1>19 DEF AllLocked
  <2>2. GatherersHoldRelabelMutex'
    BY <1>19 DEF AllLocked
  <2>3. LockedSoFar'
    BY <1>19 DEF AllLocked
  <2>4. StillLocked'
    BY <1>19 DEF AllLocked
  <2>5. OwnerHoldsAll'
    BY <1>19, <2>a DEF AllLocked
  <2>6. BatchHasOwner'
    BY <1>19, NoWorkerIsNone DEF AllLocked
  <2>7. WaitsForBatch'
    BY <1>19 DEF AllLocked
  <2> QED
    BY <2>1, <2>2, <2>3, <2>4, <2>5, <2>6, <2>7
<1>20. ASSUME NEW w \in Workers, HelpId(w) PROVE LockInv'
  BY <1>20 DEF HelpId
<1>21. ASSUME NEW w \in Workers, HelpOwner(w) PROVE LockInv'
  BY <1>21 DEF HelpOwner
<1>22. ASSUME NEW w \in Workers, Steal(w) PROVE LockInv'
  BY <1>22 DEF Steal
<1>23. ASSUME NEW w \in Workers, FindNothing(w) PROVE LockInv'
  BY <1>23 DEF FindNothing
<1>24. ASSUME NEW w \in Workers, Leave(w) PROVE LockInv'
  <2>1. CASE batch_owner_id = w
    <3>a. /\ pc[w] = "leave"
          /\ pc' = [pc EXCEPT ![w] = "unlock_all"]
          /\ UNCHANGED <<worker_mutex, relabel_mutex>>
          /\ batch_id' = [batch_id EXCEPT ![w] = -1]
          /\ batch_in_progress' = FALSE /\ batch_owner_id' = NoWorker
      BY <1>24, <2>1 DEF Leave
    <3>b. \A v \in Workers :
            pc[v] \notin Gathering \cup Releasing /\ worker_mutex[v] = w
      BY <2>1, NoWorkerIsNone
    <3>1. InsertersHoldTheirMutex'
      BY <3>a, <2>1
    <3>2. GatherersHoldRelabelMutex'
      BY <3>a, <3>b, <2>1, NoWorkerIsNone
    <3>3. LockedSoFar'
      BY <3>a, <3>b
    <3>4. StillLocked'
      BY <3>a, <3>b
    <3>5. OwnerHoldsAll'
      BY <3>a, <2>1
    <3>6. BatchHasOwner'
      BY <3>a, <2>1
    <3>7. WaitsForBatch'
      BY <3>a, <2>1
    <3> QED
      BY <3>1, <3>2, <3>3, <3>4, <3>5, <3>6, <3>7
  <2>2. CASE batch_owner_id # w
    <3>a. /\ pc[w] = "leave"
          /\ pc' = [pc EXCEPT ![w] = "acquire"]
          /\ UNCHANGED <<worker_mutex, relabel_mutex>>
          /\ batch_id' = [batch_id EXCEPT ![w] = -1]
          /\ UNCHANGED <<batch_in_progress, batch_owner_id, cursor>>
      BY <1>24, <2>2 DEF Leave
    <3>1. InsertersHoldTheirMutex'
      BY <3>a, <2>2
    <3>2. GatherersHoldRelabelMutex'
      BY <3>a, <2>2
    <3>3. LockedSoFar'
      BY <3>a, <2>2
    <3>4. StillLocked'
      BY <3>a, <2>2
    <3>5. OwnerHoldsAll'
      BY <3>a, <2>2
    <3>6. BatchHasOwner'
      BY <3>a, <2>2
    <3>7. WaitsForBatch'
      BY <3>a, <2>2
    <3> QED
      BY <3>1, <3>2, <3>3, <3>4, <3>5, <3>6, <3>7
  <2> QED
    BY <2>1, <2>2
<1>25. ASSUME NEW w \in Workers, UnlockNext(w) PROVE LockInv'
  <2>a. /\ worker_mutex' = [worker_mutex EXCEPT ![cursor] = NoWorker]
        /\ cursor \in Workers /\ cursor' = cursor + 1 /\ pc[w] = "unlock_all"
        /\ UNCHANGED <<pc, relabel_mutex, batch_in_progress, batch_owner_id,
                       batch_id>>
    BY <1>25 DEF UnlockNext, Workers
  <2>b. worker_mutex[cursor] = w
    BY <2>a DEF Workers
  <2>c. \A i \in Workers : i >= cursor' => i >= cursor /\ i # cursor
    BY <2>a DEF Workers
  <2>1. InsertersHoldTheirMutex'
    BY <2>a, <2>b
  <2>2. GatherersHoldRelabelMutex'
    BY <2>a
  <2>3. LockedSoFar'
    BY <2>a
  <2>4. StillLocked'
    BY <2>a, <2>b, <2>c
  <2>5. OwnerHoldsAll'
    BY <2>a
  <2>6. BatchHasOwner'
    BY <2>a
  <2>7. WaitsForBatch'
    BY <2>a
  <2> QED
    BY <2>1, <2>2, <2>3, <2>4, <2>5, <2>6, <2>7
<1>26. ASSUME NEW w \in Workers, UnlockRelabel(w) PROVE LockInv'
  <2>1. InsertersHoldTheirMutex'
    BY <1>26 DEF UnlockRelabel
  <2>2. GatherersHoldRelabelMutex'
    BY <1>26 DEF UnlockRelabel
  <2>3. LockedSoFar'
    BY <1>26 DEF UnlockRelabel
  <2>4. StillLocked'
    BY <1>26 DEF UnlockRelabel
  <2>5. OwnerHoldsAll'
    BY <1>26 DEF UnlockRelabel
  <2>6. BatchHasOwner'
    BY <1>26 DEF UnlockRelabel
  <2>7. WaitsForBatch'
    BY <1>26 DEF UnlockRelabel
  <2> QED
    BY <2>1, <2>2, <2>3, <2>4, <2>5, <2>6, <2>7
<1>27. ASSUME NEW w \in Workers, BeginRelabel(w) PROVE LockInv'
  BY <1>27 DEF BeginRelabel
<1>28. ASSUME NEW w \in Workers, NEW o \in Orders, NothingHeavy(w, o)
  PROVE LockInv'
  BY <1>28 DEF NothingHeavy
<1>29. ASSUME NEW w \in Workers, NEW o \in Orders, SplitHeavy(w, o)
  PROVE LockInv'
  BY <1>29 DEF SplitHeavy
<1>30. ASSUME NEW w \in Workers, NEW o \in Orders, Rebuild(w, o) PROVE LockInv'
  BY <1>30 DEF Rebuild
<1>31. ASSUME NEW w \in Workers, PopContinuation(w) PROVE LockInv'
  BY <1>31 DEF PopContinuation
<1>32. ASSUME NEW w \in Workers, ChildReturns(w) PROVE LockInv'
  BY <1>32 DEF ChildReturns
<1>33. ASSUME NEW w \in Workers, PlainSync(w) PROVE LockInv'
  BY <1>33 DEF PlainSync
<1>34. ASSUME NEW w \in Workers, StolenSync(w) PROVE LockInv'
  BY <1>34 DEF StolenSync
<1>35. ASSUME NEW w \in Workers, ResumeFrame(w) PROVE LockInv'
  BY <1>35 DEF ResumeFrame
<1>36. ASSUME NEW w \in Workers, EndRelabel(w) PROVE LockInv'
  BY <1>36 DEF EndRelabel
<1>37. ASSUME NEW w \in Workers, TerminateId(w) PROVE LockInv'
  BY <1>37 DEF TerminateId
<1>38. ASSUME NEW w \in Workers, TerminateOwner(w) PROVE LockInv'
  BY <1>38 DEF TerminateOwner
<1>39. ASSUME NEW w \in Workers, TerminateLock(w) PROVE LockInv'
  BY <1>39 DEF TerminateLock, BackToScheduler
<1>40. ASSUME NEW w \in Workers, ReadRelabelId(w) PROVE LockInv'
  BY <1>40 DEF ReadRelabelId
<1>41. ASSUME NEW w \in Workers, ReadX(w) PROVE LockInv'
  BY <1>41 DEF ReadX
<1>42. ASSUME NEW w \in Workers, ReadY(w) PROVE LockInv'
  BY <1>42 DEF ReadY
<1>43. ASSUME NEW w \in Workers, EndQuery(w) PROVE LockInv'
  BY <1>43 DEF EndQuery
<1>90. CASE UNCHANGED vars
  BY <1>90 DEF vars
<1> HIDE DEF TypeOK, LockInv, InsertersHoldTheirMutex,
             GatherersHoldRelabelMutex, LockedSoFar, StillLocked,
             OwnerHoldsAll, BatchHasOwner, WaitsForBatch, Critical, Gathering,
             InBatch, Releasing, Goto
<1> QED
  BY <1>1, <1>2, <1>4, <1>5, <1>6, <1>7, <1>8, <1>9, <1>10, <1>11,
     <1>12, <1>13, <1>14, <1>15, <1>16, <1>17, <1>18, <1>19, <1>20, <1>21,
     <1>22, <1>23, <1>24, <1>25, <1>26, <1>27, <1>28, <1>29, <1>30, <1>31,
     <1>32, <1>33, <1>34, <1>35, <1>36, <1>37, <1>38, <1>39, <1>40, <1>41,
     <1>42, <1>43, <1>90
  DEF Next, Call, Step, Insert, JoinBatch, Relabel, Query, Finished

\* g_relabel_id++ changes its parity.
LEMMA Parity == ASSUME NEW n \in Nat PROVE (n + 1) % 2 = 1 <=> n % 2 # 1
  OBVIOUS

\* FrameInv is preserved by every step of every worker.
LEMMA FrameStep == TypeOK /\ FrameInv /\ [Next]_vars => FrameInv'
<1> SUFFICES ASSUME TypeOK /\ FrameInv, [Next]_vars
             PROVE  FrameInv'
  OBVIOUS
<1> USE DEF TypeOK, FrameInv, FrameLives, FrameShape, CallsAreServed,
            TornIsServed, OneBatch
<1> USE DEF Alone, Goto, Orders, English, Hebrew
<1> USE DEF lockVars, omVars, frameVars, idVars, askVars, ownVars
<1> USE NoWorkerIsNone
<1>1. ASSUME NEW w \in Workers, NEW l \in Lists, StartInsert(w, l)
  PROVE FrameInv'
  BY <1>1 DEF StartInsert
<1>2. ASSUME NEW w \in Workers, NEW l \in Lists, StartQuery(w, l)
  PROVE FrameInv'
  BY <1>2 DEF StartQuery
<1>4. ASSUME NEW w \in Workers, LockOwn(w) PROVE FrameInv'
  BY <1>4 DEF LockOwn
<1>5. ASSUME NEW w \in Workers, OwnMutexTaken(w) PROVE FrameInv'
  BY <1>5 DEF OwnMutexTaken
<1>6. ASSUME NEW w \in Workers, InsertFits(w) PROVE FrameInv'
  BY <1>6 DEF InsertFits
<1>7. ASSUME NEW w \in Workers, InsertFails(w) PROVE FrameInv'
  BY <1>7 DEF InsertFails
<1>8. ASSUME NEW w \in Workers, MarkHeavy(w) PROVE FrameInv'
  BY <1>8 DEF MarkHeavy, AfterMark
<1>9. ASSUME NEW w \in Workers, AddHeavy(w) PROVE FrameInv'
  BY <1>9 DEF AddHeavy, AfterMark
<1>10. ASSUME NEW w \in Workers, SetBatchId(w) PROVE FrameInv'
  BY <1>10 DEF SetBatchId
<1>11. ASSUME NEW w \in Workers, UnlockOwn(w) PROVE FrameInv'
  BY <1>11 DEF UnlockOwn
<1>12. ASSUME NEW w \in Workers, Batchify(w) PROVE FrameInv'
  BY <1>12 DEF Batchify
<1>13. ASSUME NEW w \in Workers, TryStart(w) PROVE FrameInv'
  BY <1>13 DEF TryStart
<1>14. ASSUME NEW w \in Workers, LockRelabel(w) PROVE FrameInv'
  BY <1>14 DEF LockRelabel
<1>15. ASSUME NEW w \in Workers, RelabelMutexTaken(w) PROVE FrameInv'
  BY <1>15 DEF RelabelMutexTaken
<1>16. ASSUME NEW w \in Workers, SetNextBatchOwner(w) PROVE FrameInv'
  <2>1. FrameLives'
    BY <1>16 DEF SetNextBatchOwner
  <2>2. FrameShape'
    BY <1>16 DEF SetNextBatchOwner
  <2>3. CallsAreServed'
    BY <1>16 DEF SetNextBatchOwner
  <2>4. TornIsServed'
    BY <1>16 DEF SetNextBatchOwner
  <2>5. OneBatch'
    BY <1>16 DEF SetNextBatchOwner
  <2> QED
    BY <2>1, <2>2, <2>3, <2>4, <2>5
<1>17. ASSUME NEW w \in Workers, SetOwnerField(w) PROVE FrameInv'
  <2>1. FrameLives'
    BY <1>17 DEF SetOwnerField
  <2>2. FrameShape'
    BY <1>17 DEF SetOwnerField
  <2>3. CallsAreServed'
    BY <1>17 DEF SetOwnerField
  <2>4. TornIsServed'
    BY <1>17 DEF SetOwnerField
  <2>5. OneBatch'
    BY <1>17 DEF SetOwnerField
  <2> QED
    BY <2>1, <2>2, <2>3, <2>4, <2>5
<1>18. ASSUME NEW w \in Workers, LockNext(w) PROVE FrameInv'
  BY <1>18 DEF LockNext
<1>19. ASSUME NEW w \in Workers, AllLocked(w) PROVE FrameInv'
  <2>1. FrameLives'
    BY <1>19 DEF AllLocked
  <2>2. FrameShape'
    BY <1>19 DEF AllLocked
  <2>3. CallsAreServed'
    BY <1>19 DEF AllLocked
  <2>4. TornIsServed'
    BY <1>19 DEF AllLocked
  <2>5. OneBatch'
    BY <1>19 DEF AllLocked
  <2> QED
    BY <2>1, <2>2, <2>3, <2>4, <2>5
<1>20. ASSUME NEW w \in Workers, HelpId(w) PROVE FrameInv'
  BY <1>20 DEF HelpId
<1>21. ASSUME NEW w \in Workers, HelpOwner(w) PROVE FrameInv'
  BY <1>21 DEF HelpOwner
<1>22. ASSUME NEW w \in Workers, Steal(w) PROVE FrameInv'
  <2>1. FrameLives'
    BY <1>22 DEF Steal
  <2>2. FrameShape'
    BY <1>22 DEF Steal
  <2>3. CallsAreServed'
    BY <1>22 DEF Steal
  <2>4. TornIsServed'
    BY <1>22 DEF Steal
  <2>5. OneBatch'
    BY <1>22 DEF Steal
  <2> QED
    BY <2>1, <2>2, <2>3, <2>4, <2>5
<1>23. ASSUME NEW w \in Workers, FindNothing(w) PROVE FrameInv'
  BY <1>23 DEF FindNothing
<1>24. ASSUME NEW w \in Workers, Leave(w) PROVE FrameInv'
  BY <1>24 DEF Leave
<1>25. ASSUME NEW w \in Workers, UnlockNext(w) PROVE FrameInv'
  BY <1>25 DEF UnlockNext
<1>26. ASSUME NEW w \in Workers, UnlockRelabel(w) PROVE FrameInv'
  BY <1>26 DEF UnlockRelabel
<1>27. ASSUME NEW w \in Workers, BeginRelabel(w) PROVE FrameInv'
  <2>a. /\ relabel_id' = relabel_id + 1 /\ relabel_id \in Nat
        /\ batch_lock' = batch_lock /\ batch_lock.lock
        /\ cont = "none" /\ cont' = "stealable"
    BY <1>27 DEF BeginRelabel
  <2>b. relabel_id % 2 = 1 <=> cont # "none"
    OBVIOUS
  <2>1. FrameLives'
    BY <2>a, <2>b, Parity
  <2>2. FrameShape'
    BY <1>27 DEF BeginRelabel
  <2>3. CallsAreServed'
    BY <1>27 DEF BeginRelabel
  <2>4. TornIsServed'
    BY <1>27 DEF BeginRelabel
  <2>5. OneBatch'
    BY <1>27 DEF BeginRelabel
  <2> QED
    BY <2>1, <2>2, <2>3, <2>4, <2>5
<1>28. ASSUME NEW w \in Workers, NEW o \in Orders, NothingHeavy(w, o)
  PROVE FrameInv'
  <2>1. FrameLives'
    BY <1>28 DEF NothingHeavy
  <2>2. FrameShape'
    BY <1>28 DEF NothingHeavy
  <2>3. CallsAreServed'
    BY <1>28 DEF NothingHeavy
  <2>4. TornIsServed'
    BY <1>28 DEF NothingHeavy
  <2>5. OneBatch'
    BY <1>28 DEF NothingHeavy
  <2> QED
    BY <2>1, <2>2, <2>3, <2>4, <2>5
<1>29. ASSUME NEW w \in Workers, NEW o \in Orders, SplitHeavy(w, o)
  PROVE FrameInv'
  <2>1. FrameLives'
    BY <1>29 DEF SplitHeavy
  <2>2. FrameShape'
    BY <1>29 DEF SplitHeavy
  <2>3. CallsAreServed'
    BY <1>29 DEF SplitHeavy
  <2>4. TornIsServed'
    BY <1>29 DEF SplitHeavy
  <2>5. OneBatch'
    BY <1>29 DEF SplitHeavy
  <2> QED
    BY <2>1, <2>2, <2>3, <2>4, <2>5
<1>30. ASSUME NEW w \in Workers, NEW o \in Orders, Rebuild(w, o)
  PROVE FrameInv'
  <2>1. FrameLives'
    BY <1>30 DEF Rebuild
  <2>2. FrameShape'
    BY <1>30 DEF Rebuild
  <2>3. CallsAreServed'
    BY <1>30 DEF Rebuild
  <2>4. TornIsServed'
    BY <1>30 DEF Rebuild
  <2>5. OneBatch'
    BY <1>30 DEF Rebuild
  <2> QED
    BY <2>1, <2>2, <2>3, <2>4, <2>5
<1>31. ASSUME NEW w \in Workers, PopContinuation(w) PROVE FrameInv'
  <2>1. FrameLives'
    BY <1>31 DEF PopContinuation
  <2>2. FrameShape'
    BY <1>31 DEF PopContinuation
  <2>3. CallsAreServed'
    BY <1>31 DEF PopContinuation
  <2>4. TornIsServed'
    BY <1>31 DEF PopContinuation
  <2>5. OneBatch'
    BY <1>31 DEF PopContinuation
  <2> QED
    BY <2>1, <2>2, <2>3, <2>4, <2>5
<1>32. ASSUME NEW w \in Workers, ChildReturns(w) PROVE FrameInv'
  <2>1. FrameLives'
    BY <1>32 DEF ChildReturns
  <2>2. FrameShape'
    BY <1>32 DEF ChildReturns
  <2>3. CallsAreServed'
    BY <1>32 DEF ChildReturns
  <2>4. TornIsServed'
    BY <1>32 DEF ChildReturns
  <2>5. OneBatch'
    BY <1>32 DEF ChildReturns
  <2> QED
    BY <2>1, <2>2, <2>3, <2>4, <2>5
<1>33. ASSUME NEW w \in Workers, PlainSync(w) PROVE FrameInv'
  <2>1. FrameLives'
    BY <1>33 DEF PlainSync
  <2>2. FrameShape'
    BY <1>33 DEF PlainSync
  <2>3. CallsAreServed'
    BY <1>33 DEF PlainSync
  <2>4. TornIsServed'
    BY <1>33 DEF PlainSync
  <2>5. OneBatch'
    BY <1>33 DEF PlainSync
  <2> QED
    BY <2>1, <2>2, <2>3, <2>4, <2>5
<1>34. ASSUME NEW w \in Workers, StolenSync(w) PROVE FrameInv'
  <2>1. FrameLives'
    BY <1>34 DEF StolenSync
  <2>2. FrameShape'
    BY <1>34 DEF StolenSync
  <2>3. CallsAreServed'
    BY <1>34 DEF StolenSync
  <2>4. TornIsServed'
    BY <1>34 DEF StolenSync
  <2>5. OneBatch'
    BY <1>34 DEF StolenSync
  <2> QED
    BY <2>1, <2>2, <2>3, <2>4, <2>5
<1>35. ASSUME NEW w \in Workers, ResumeFrame(w) PROVE FrameInv'
  <2>1. FrameLives'
    BY <1>35 DEF ResumeFrame
  <2>2. FrameShape'
    BY <1>35 DEF ResumeFrame
  <2>3. CallsAreServed'
    BY <1>35 DEF ResumeFrame
  <2>4. TornIsServed'
    BY <1>35 DEF ResumeFrame
  <2>5. OneBatch'
    BY <1>35 DEF ResumeFrame
  <2> QED
    BY <2>1, <2>2, <2>3, <2>4, <2>5
<1>36. ASSUME NEW w \in Workers, EndRelabel(w) PROVE FrameInv'
  <2>a. /\ relabel_id' = relabel_id + 1 /\ relabel_id \in Nat
        /\ batch_lock' = batch_lock /\ batch_lock.lock
        /\ cont # "none" /\ cont' = "none"
    BY <1>36 DEF EndRelabel
  <2>b. relabel_id % 2 = 1 <=> cont # "none"
    OBVIOUS
  <2>1. FrameLives'
    BY <2>a, <2>b, Parity
  <2>2. FrameShape'
    BY <1>36 DEF EndRelabel
  <2>3. CallsAreServed'
    BY <1>36 DEF EndRelabel
  <2>4. TornIsServed'
    BY <1>36 DEF EndRelabel
  <2>5. OneBatch'
    BY <1>36 DEF EndRelabel
  <2> QED
    BY <2>1, <2>2, <2>3, <2>4, <2>5
<1>37. ASSUME NEW w \in Workers, TerminateId(w) PROVE FrameInv'
  <2>1. FrameLives'
    BY <1>37 DEF TerminateId
  <2>2. FrameShape'
    BY <1>37 DEF TerminateId
  <2>3. CallsAreServed'
    BY <1>37 DEF TerminateId
  <2>4. TornIsServed'
    BY <1>37 DEF TerminateId
  <2>5. OneBatch'
    BY <1>37 DEF TerminateId
  <2> QED
    BY <2>1, <2>2, <2>3, <2>4, <2>5
<1>38. ASSUME NEW w \in Workers, TerminateOwner(w) PROVE FrameInv'
  <2>1. FrameLives'
    BY <1>38 DEF TerminateOwner
  <2>2. FrameShape'
    BY <1>38 DEF TerminateOwner
  <2>3. CallsAreServed'
    BY <1>38 DEF TerminateOwner
  <2>4. TornIsServed'
    BY <1>38 DEF TerminateOwner
  <2>5. OneBatch'
    BY <1>38 DEF TerminateOwner
  <2> QED
    BY <2>1, <2>2, <2>3, <2>4, <2>5
<1>39. ASSUME NEW w \in Workers, TerminateLock(w) PROVE FrameInv'
  <2>1. FrameLives'
    BY <1>39 DEF TerminateLock, BackToScheduler
  <2>2. FrameShape'
    BY <1>39 DEF TerminateLock, BackToScheduler
  <2>3. CallsAreServed'
    BY <1>39 DEF TerminateLock, BackToScheduler
  <2>4. TornIsServed'
    BY <1>39 DEF TerminateLock, BackToScheduler
  <2>5. OneBatch'
    BY <1>39 DEF TerminateLock, BackToScheduler
  <2> QED
    BY <2>1, <2>2, <2>3, <2>4, <2>5
<1>40. ASSUME NEW w \in Workers, ReadRelabelId(w) PROVE FrameInv'
  BY <1>40 DEF ReadRelabelId
<1>41. ASSUME NEW w \in Workers, ReadX(w) PROVE FrameInv'
  BY <1>41 DEF ReadX
<1>42. ASSUME NEW w \in Workers, ReadY(w) PROVE FrameInv'
  BY <1>42 DEF ReadY
<1>43. ASSUME NEW w \in Workers, EndQuery(w) PROVE FrameInv'
  BY <1>43 DEF EndQuery
<1>90. CASE UNCHANGED vars
  BY <1>90 DEF vars
<1> HIDE DEF TypeOK, FrameInv, FrameLives, FrameShape, CallsAreServed,
             TornIsServed, OneBatch, Alone, Goto, Orders, English, Hebrew
<1> QED
  BY <1>1, <1>2, <1>4, <1>5, <1>6, <1>7, <1>8, <1>9, <1>10, <1>11,
     <1>12, <1>13, <1>14, <1>15, <1>16, <1>17, <1>18, <1>19, <1>20, <1>21,
     <1>22, <1>23, <1>24, <1>25, <1>26, <1>27, <1>28, <1>29, <1>30, <1>31,
     <1>32, <1>33, <1>34, <1>35, <1>36, <1>37, <1>38, <1>39, <1>40, <1>41,
     <1>42, <1>43, <1>90
  DEF Next, Call, Step, Insert, JoinBatch, Relabel, Query, Finished

\* No list is in flux while a query would be accepted.
LEMMA QuietWhenAccepted ==
  ASSUME TypeOK, FrameInv, NEW w \in Workers, Accepts(w)
  PROVE  \A o \in Orders : torn[o] = {}
  BY DEF FrameInv, FrameShape, FrameLives, TornIsServed, Accepts

\* QueryInv is preserved by every step of every worker.
LEMMA QueryStep == TypeOK /\ FrameInv /\ QueryInv /\ [Next]_vars => QueryInv'
<1> SUFFICES ASSUME TypeOK, FrameInv, QueryInv, [Next]_vars
             PROVE  QueryInv'
  OBVIOUS
<1> USE DEF TypeOK, QueryInv, Accepts, Goto
<1> USE DEF lockVars, omVars, frameVars, idVars, askVars, ownVars
<1>1. ASSUME NEW w \in Workers, NEW l \in Lists, StartInsert(w, l)
  PROVE QueryInv'
  BY <1>1 DEF StartInsert
<1>2. ASSUME NEW w \in Workers, NEW l \in Lists, StartQuery(w, l)
  PROVE QueryInv'
  BY <1>2 DEF StartQuery
<1>4. ASSUME NEW w \in Workers, LockOwn(w) PROVE QueryInv'
  BY <1>4 DEF LockOwn
<1>5. ASSUME NEW w \in Workers, OwnMutexTaken(w) PROVE QueryInv'
  BY <1>5 DEF OwnMutexTaken
<1>6. ASSUME NEW w \in Workers, InsertFits(w) PROVE QueryInv'
  BY <1>6 DEF InsertFits
<1>7. ASSUME NEW w \in Workers, InsertFails(w) PROVE QueryInv'
  BY <1>7 DEF InsertFails
<1>8. ASSUME NEW w \in Workers, MarkHeavy(w) PROVE QueryInv'
  BY <1>8 DEF MarkHeavy, AfterMark
<1>9. ASSUME NEW w \in Workers, AddHeavy(w) PROVE QueryInv'
  BY <1>9 DEF AddHeavy, AfterMark
<1>10. ASSUME NEW w \in Workers, SetBatchId(w) PROVE QueryInv'
  BY <1>10 DEF SetBatchId
<1>11. ASSUME NEW w \in Workers, UnlockOwn(w) PROVE QueryInv'
  BY <1>11 DEF UnlockOwn
<1>12. ASSUME NEW w \in Workers, Batchify(w) PROVE QueryInv'
  BY <1>12 DEF Batchify
<1>13. ASSUME NEW w \in Workers, TryStart(w) PROVE QueryInv'
  BY <1>13 DEF TryStart
<1>14. ASSUME NEW w \in Workers, LockRelabel(w) PROVE QueryInv'
  BY <1>14 DEF LockRelabel
<1>15. ASSUME NEW w \in Workers, RelabelMutexTaken(w) PROVE QueryInv'
  BY <1>15 DEF RelabelMutexTaken
<1>16. ASSUME NEW w \in Workers, SetNextBatchOwner(w) PROVE QueryInv'
  BY <1>16 DEF SetNextBatchOwner
<1>17. ASSUME NEW w \in Workers, SetOwnerField(w) PROVE QueryInv'
  BY <1>17 DEF SetOwnerField
<1>18. ASSUME NEW w \in Workers, LockNext(w) PROVE QueryInv'
  BY <1>18 DEF LockNext
<1>19. ASSUME NEW w \in Workers, AllLocked(w) PROVE QueryInv'
  BY <1>19 DEF AllLocked
<1>20. ASSUME NEW w \in Workers, HelpId(w) PROVE QueryInv'
  BY <1>20 DEF HelpId
<1>21. ASSUME NEW w \in Workers, HelpOwner(w) PROVE QueryInv'
  BY <1>21 DEF HelpOwner
<1>22. ASSUME NEW w \in Workers, Steal(w) PROVE QueryInv'
  BY <1>22 DEF Steal
<1>23. ASSUME NEW w \in Workers, FindNothing(w) PROVE QueryInv'
  BY <1>23 DEF FindNothing
<1>24. ASSUME NEW w \in Workers, Leave(w) PROVE QueryInv'
  BY <1>24 DEF Leave
<1>25. ASSUME NEW w \in Workers, UnlockNext(w) PROVE QueryInv'
  BY <1>25 DEF UnlockNext
<1>26. ASSUME NEW w \in Workers, UnlockRelabel(w) PROVE QueryInv'
  BY <1>26 DEF UnlockRelabel
<1>27. ASSUME NEW w \in Workers, BeginRelabel(w) PROVE QueryInv'
  <2>1. relabel_id' = relabel_id + 1 /\ UNCHANGED <<query, version, target>>
    BY <1>27 DEF BeginRelabel
  <2>2. \A v \in Workers : query[v].id \in Nat
    OBVIOUS
  <2>3. \A v \in Workers : query'[v].id <= relabel_id' /\ ~Accepts(v)'
    BY <2>1, <2>2
  <2> QED
    BY <2>3
<1>28. ASSUME NEW w \in Workers, NEW o \in Orders, NothingHeavy(w, o)
  PROVE QueryInv'
  BY <1>28 DEF NothingHeavy
<1>29. ASSUME NEW w \in Workers, NEW o \in Orders, SplitHeavy(w, o)
  PROVE QueryInv'
  BY <1>29 DEF SplitHeavy
<1>30. ASSUME NEW w \in Workers, NEW o \in Orders, Rebuild(w, o)
  PROVE QueryInv'
  <2>1. relabel_id % 2 = 1
    BY <1>30 DEF Rebuild, FrameInv, FrameShape, FrameLives, TornIsServed
  <2>2. UNCHANGED <<query, relabel_id>>
    BY <1>30 DEF Rebuild
  <2>a. \A v \in Workers : query'[v].id <= relabel_id'
    BY <2>2
  <2>b. ASSUME NEW v \in Workers PROVE ~Accepts(v)'
    <3>1. SUFFICES ASSUME query[v].id = relabel_id PROVE query[v].id % 2 # 0
      BY <2>2
    <3> QED
      BY <2>1, <3>1
  <2>3. \A v \in Workers : query'[v].id <= relabel_id' /\ ~Accepts(v)'
    BY <2>a, <2>b
  <2> QED
    BY <2>3
<1>31. ASSUME NEW w \in Workers, PopContinuation(w) PROVE QueryInv'
  BY <1>31 DEF PopContinuation
<1>32. ASSUME NEW w \in Workers, ChildReturns(w) PROVE QueryInv'
  BY <1>32 DEF ChildReturns
<1>33. ASSUME NEW w \in Workers, PlainSync(w) PROVE QueryInv'
  BY <1>33 DEF PlainSync
<1>34. ASSUME NEW w \in Workers, StolenSync(w) PROVE QueryInv'
  BY <1>34 DEF StolenSync
<1>35. ASSUME NEW w \in Workers, ResumeFrame(w) PROVE QueryInv'
  BY <1>35 DEF ResumeFrame
<1>36. ASSUME NEW w \in Workers, EndRelabel(w) PROVE QueryInv'
  <2>1. relabel_id' = relabel_id + 1 /\ UNCHANGED <<query, version, target>>
    BY <1>36 DEF EndRelabel
  <2>2. \A v \in Workers : query[v].id \in Nat
    OBVIOUS
  <2>3. \A v \in Workers : query'[v].id <= relabel_id' /\ ~Accepts(v)'
    BY <2>1, <2>2
  <2> QED
    BY <2>3
<1>37. ASSUME NEW w \in Workers, TerminateId(w) PROVE QueryInv'
  BY <1>37 DEF TerminateId
<1>38. ASSUME NEW w \in Workers, TerminateOwner(w) PROVE QueryInv'
  BY <1>38 DEF TerminateOwner
<1>39. ASSUME NEW w \in Workers, TerminateLock(w) PROVE QueryInv'
  BY <1>39 DEF TerminateLock, BackToScheduler
<1>40. ASSUME NEW w \in Workers, ReadRelabelId(w) PROVE QueryInv'
  BY <1>40 DEF ReadRelabelId
<1>41. ASSUME NEW w \in Workers, ReadX(w) PROVE QueryInv'
  <2>1. Accepts(w) => torn[OrderOf(target[w])] = {}
    <3>1. OrderOf(target[w]) \in Orders
      BY DEF OrderOf, Orders
    <3> QED
      BY <3>1, QuietWhenAccepted
  <2> QED
    BY <1>41, <2>1 DEF ReadX, LabelsOf
<1>42. ASSUME NEW w \in Workers, ReadY(w) PROVE QueryInv'
  <2>1. Accepts(w) => torn[OrderOf(target[w])] = {}
    <3>1. OrderOf(target[w]) \in Orders
      BY DEF OrderOf, Orders
    <3> QED
      BY <3>1, QuietWhenAccepted
  <2> QED
    BY <1>42, <2>1 DEF ReadY, LabelsOf
<1>43. ASSUME NEW w \in Workers, EndQuery(w) PROVE QueryInv'
  BY <1>43 DEF EndQuery
<1>90. CASE UNCHANGED vars
  BY <1>90 DEF vars
<1> HIDE DEF TypeOK, QueryInv, Accepts, Goto
<1> QED
  BY <1>1, <1>2, <1>4, <1>5, <1>6, <1>7, <1>8, <1>9, <1>10, <1>11,
     <1>12, <1>13, <1>14, <1>15, <1>16, <1>17, <1>18, <1>19, <1>20, <1>21,
     <1>22, <1>23, <1>24, <1>25, <1>26, <1>27, <1>28, <1>29, <1>30, <1>31,
     <1>32, <1>33, <1>34, <1>35, <1>36, <1>37, <1>38, <1>39, <1>40, <1>41,
     <1>42, <1>43, <1>90
  DEF Next, Call, Step, Insert, JoinBatch, Relabel, Query, Finished

\* Without thieves, SerialInv is preserved by every step of every worker.
LEMMA SerialStep ==
  ~CanSteal /\ TypeOK /\ LockInv /\ FrameInv /\ SerialInv /\ [Next]_vars
    => SerialInv'
<1> SUFFICES ASSUME ~CanSteal, TypeOK, LockInv, FrameInv, SerialInv,
                    [Next]_vars
             PROVE  SerialInv'
  OBVIOUS
<1> USE DEF TypeOK, SerialInv, OwnBatch, Alone, Goto
<1> USE DEF GatherersHoldRelabelMutex, Gathering, Releasing
<1> USE DEF FrameLives, FrameShape, CallsAreServed, OneBatch, Orders, English,
            Hebrew
<1> USE DEF lockVars, omVars, frameVars, idVars, askVars, ownVars
<1> USE NoWorkerIsNone
<1>a. GatherersHoldRelabelMutex
  BY DEF LockInv
<1>b. FrameLives /\ FrameShape /\ CallsAreServed /\ OneBatch
  BY DEF FrameInv
<1> USE <1>a, <1>b
<1>1. ASSUME NEW w \in Workers, NEW l \in Lists, StartInsert(w, l)
  PROVE SerialInv'
  BY <1>1 DEF StartInsert
<1>2. ASSUME NEW w \in Workers, NEW l \in Lists, StartQuery(w, l)
  PROVE SerialInv'
  BY <1>2 DEF StartQuery
<1>4. ASSUME NEW w \in Workers, LockOwn(w) PROVE SerialInv'
  BY <1>4 DEF LockOwn
<1>5. ASSUME NEW w \in Workers, OwnMutexTaken(w) PROVE SerialInv'
  BY <1>5 DEF OwnMutexTaken
<1>6. ASSUME NEW w \in Workers, InsertFits(w) PROVE SerialInv'
  BY <1>6 DEF InsertFits
<1>7. ASSUME NEW w \in Workers, InsertFails(w) PROVE SerialInv'
  BY <1>7 DEF InsertFails
<1>8. ASSUME NEW w \in Workers, MarkHeavy(w) PROVE SerialInv'
  BY <1>8 DEF MarkHeavy, AfterMark
<1>9. ASSUME NEW w \in Workers, AddHeavy(w) PROVE SerialInv'
  BY <1>9 DEF AddHeavy, AfterMark
<1>10. ASSUME NEW w \in Workers, SetBatchId(w) PROVE SerialInv'
  BY <1>10 DEF SetBatchId
<1>11. ASSUME NEW w \in Workers, UnlockOwn(w) PROVE SerialInv'
  BY <1>11 DEF UnlockOwn
<1>12. ASSUME NEW w \in Workers, Batchify(w) PROVE SerialInv'
  BY <1>12 DEF Batchify
<1>13. ASSUME NEW w \in Workers, TryStart(w) PROVE SerialInv'
  BY <1>13 DEF TryStart
<1>14. ASSUME NEW w \in Workers, LockRelabel(w) PROVE SerialInv'
  BY <1>14 DEF LockRelabel
<1>15. ASSUME NEW w \in Workers, RelabelMutexTaken(w) PROVE SerialInv'
  BY <1>15 DEF RelabelMutexTaken
<1>16. ASSUME NEW w \in Workers, SetNextBatchOwner(w) PROVE SerialInv'
  BY <1>16 DEF SetNextBatchOwner
<1>17. ASSUME NEW w \in Workers, SetOwnerField(w) PROVE SerialInv'
  BY <1>17 DEF SetOwnerField
<1>18. ASSUME NEW w \in Workers, LockNext(w) PROVE SerialInv'
  BY <1>18 DEF LockNext
<1>19. ASSUME NEW w \in Workers, AllLocked(w) PROVE SerialInv'
  BY <1>19 DEF AllLocked
<1>20. ASSUME NEW w \in Workers, HelpId(w) PROVE SerialInv'
  BY <1>20 DEF HelpId
<1>21. ASSUME NEW w \in Workers, HelpOwner(w) PROVE SerialInv'
  BY <1>21 DEF HelpOwner
<1>22. ASSUME NEW w \in Workers, Steal(w) PROVE SerialInv'
  BY <1>22 DEF Steal
<1>23. ASSUME NEW w \in Workers, FindNothing(w) PROVE SerialInv'
  BY <1>23 DEF FindNothing
<1>24. ASSUME NEW w \in Workers, Leave(w) PROVE SerialInv'
  BY <1>24 DEF Leave
<1>25. ASSUME NEW w \in Workers, UnlockNext(w) PROVE SerialInv'
  BY <1>25 DEF UnlockNext
<1>26. ASSUME NEW w \in Workers, UnlockRelabel(w) PROVE SerialInv'
  BY <1>26 DEF UnlockRelabel
<1>27. ASSUME NEW w \in Workers, BeginRelabel(w) PROVE SerialInv'
  BY <1>27 DEF BeginRelabel
<1>28. ASSUME NEW w \in Workers, NEW o \in Orders, NothingHeavy(w, o)
  PROVE SerialInv'
  BY <1>28 DEF NothingHeavy
<1>29. ASSUME NEW w \in Workers, NEW o \in Orders, SplitHeavy(w, o)
  PROVE SerialInv'
  BY <1>29 DEF SplitHeavy
<1>30. ASSUME NEW w \in Workers, NEW o \in Orders, Rebuild(w, o)
  PROVE SerialInv'
  BY <1>30 DEF Rebuild
<1>31. ASSUME NEW w \in Workers, PopContinuation(w) PROVE SerialInv'
  BY <1>31 DEF PopContinuation
<1>32. ASSUME NEW w \in Workers, ChildReturns(w) PROVE SerialInv'
  BY <1>32 DEF ChildReturns
<1>33. ASSUME NEW w \in Workers, PlainSync(w) PROVE SerialInv'
  BY <1>33 DEF PlainSync
<1>34. ASSUME NEW w \in Workers, StolenSync(w) PROVE SerialInv'
  BY <1>34 DEF StolenSync
<1>35. ASSUME NEW w \in Workers, ResumeFrame(w) PROVE SerialInv'
  BY <1>35 DEF ResumeFrame
<1>36. ASSUME NEW w \in Workers, EndRelabel(w) PROVE SerialInv'
  BY <1>36 DEF EndRelabel
<1>37. ASSUME NEW w \in Workers, TerminateId(w) PROVE SerialInv'
  BY <1>37 DEF TerminateId
<1>38. ASSUME NEW w \in Workers, TerminateOwner(w) PROVE SerialInv'
  BY <1>38 DEF TerminateOwner
<1>39. ASSUME NEW w \in Workers, TerminateLock(w) PROVE SerialInv'
  BY <1>39 DEF TerminateLock, BackToScheduler
<1>40. ASSUME NEW w \in Workers, ReadRelabelId(w) PROVE SerialInv'
  BY <1>40 DEF ReadRelabelId
<1>41. ASSUME NEW w \in Workers, ReadX(w) PROVE SerialInv'
  BY <1>41 DEF ReadX
<1>42. ASSUME NEW w \in Workers, ReadY(w) PROVE SerialInv'
  BY <1>42 DEF ReadY
<1>43. ASSUME NEW w \in Workers, EndQuery(w) PROVE SerialInv'
  BY <1>43 DEF EndQuery
<1>90. CASE UNCHANGED vars
  BY <1>90 DEF vars
<1> HIDE DEF TypeOK, SerialInv, OwnBatch, Alone, Goto,
             GatherersHoldRelabelMutex, Gathering, Releasing, FrameLives,
             FrameShape, CallsAreServed, OneBatch, Orders, English, Hebrew
<1> QED
  BY <1>1, <1>2, <1>4, <1>5, <1>6, <1>7, <1>8, <1>9, <1>10, <1>11,
     <1>12, <1>13, <1>14, <1>15, <1>16, <1>17, <1>18, <1>19, <1>20, <1>21,
     <1>22, <1>23, <1>24, <1>25, <1>26, <1>27, <1>28, <1>29, <1>30, <1>31,
     <1>32, <1>33, <1>34, <1>35, <1>36, <1>37, <1>38, <1>39, <1>40, <1>41,
     <1>42, <1>43, <1>90
  DEF Next, Call, Step, Insert, JoinBatch, Relabel, Query, Finished

----------------------------------------------------------------------------
(* Theorems                                                                *)

Inv == TypeOK /\ LockInv /\ FrameInv /\ QueryInv

\* The globals of omrd.cpp and batcher.c as they are initialised.
LEMMA InitInv == Init => Inv /\ SerialInv
<1> SUFFICES ASSUME Init PROVE Inv /\ SerialInv
  OBVIOUS
<1> USE DEF Init
<1>1. TypeOK
  <2>2. gap \in [Workers -> [Lists -> 0 .. MaxGap]]
    BY GapAssumption
  <2>3. query \in [Workers -> [id : Nat, x : Labellings, y : Labellings]]
    <3>1. Unread \in Labellings
      BY DEF Labellings
    <3> QED
      BY <3>1
  <2>4. 0 \in 0 .. P
    BY PAssumption
  <2>5. target \in [Workers -> Lists]
    <3>1. (CHOOSE l \in Lists : TRUE) \in Lists
      BY ListAssumption
    <3> QED
      BY <3>1
  <2>6. cursor \in 0 .. P
    BY <2>4
  <2>7. pc \in [Workers -> PCs]
    BY DEF PCs
  <2>8. batch_id \in [Workers -> Int]
    OBVIOUS
  <2>9. worker_mutex \in [Workers -> Workers \cup {NoWorker}]
        /\ running \in [Orders -> Workers \cup {NoWorker}]
    OBVIOUS
  <2>10. /\ heavy_nodes \in [Orders -> SUBSET Lists]
         /\ torn \in [Orders -> SUBSET Lists]
    OBVIOUS
  <2>11. batch_lock \in [lock : BOOLEAN, owner : Workers \cup {NoWorker}]
    OBVIOUS
  <2>12. /\ slow \in [Workers -> BOOLEAN]
         /\ insert_failed \in [Workers -> BOOLEAN]
         /\ heavy \in [Lists -> BOOLEAN]
    OBVIOUS
  <2>13. /\ inserts \in [Workers -> Nat] /\ queries \in [Workers -> Nat]
         /\ version \in [Orders -> Nat]
    OBVIOUS
  <2> QED
    BY <2>2, <2>3, <2>5, <2>6, <2>7, <2>8, <2>9, <2>10, <2>11, <2>12, <2>13
       DEF TypeOK
<1>2. LockInv
  BY DEF LockInv, InsertersHoldTheirMutex, GatherersHoldRelabelMutex,
         LockedSoFar, StillLocked, OwnerHoldsAll, BatchHasOwner, WaitsForBatch,
         Critical, Gathering, Releasing
<1>3. FrameInv
  BY NoWorkerIsNone
     DEF FrameInv, FrameLives, FrameShape, CallsAreServed, TornIsServed,
         OneBatch, Orders, English, Hebrew, Alone
<1>4. QueryInv
  BY DEF QueryInv
<1>5. SerialInv
  BY DEF SerialInv, OwnBatch
<1> QED
  BY <1>1, <1>2, <1>3, <1>4, <1>5 DEF Inv

\* Inv is inductive.
LEMMA InvStep == Inv /\ [Next]_vars => Inv'
  BY TypeStep, LockStep, FrameStep, QueryStep DEF Inv

\* The inductive invariant holds all along.
LEMMA InvHolds == Spec => []Inv
  BY InitInv, InvStep, PTL DEF Spec

\* Whatever the workers do, the shared variables of the protocol keep values
\* of their kind; in particular no loop over g_worker_mutexes runs past it.
THEOREM TypeCorrect == Spec => []TypeOK
<1>1. Inv => TypeOK
  BY DEF Inv
<1> QED
  BY <1>1, InvHolds, PTL

\* While a batch is announced its owner holds the mutex of every worker.
LEMMA AllLockedOut == Inv => NoInsertDuringBatch
<1> SUFFICES ASSUME Inv, batch_in_progress, NEW w \in Workers,
                    pc[w] \in Critical
             PROVE  FALSE
  BY DEF NoInsertDuringBatch
<1>1. worker_mutex[w] = w
  BY DEF Inv, LockInv, InsertersHoldTheirMutex
<1>2. pc[batch_owner_id] \in InBatch /\ worker_mutex[w] = batch_owner_id
  BY DEF Inv, LockInv, BatchHasOwner, OwnerHoldsAll
<1> QED
  BY <1>1, <1>2 DEF Critical, InBatch

\* The assertions g_batch_in_progress == 0 in try_insert and add_heavy never
\* fail, thieves or not.
THEOREM InsertsAvoidBatches == Spec => []NoInsertDuringBatch
  BY AllLockedOut, InvHolds, PTL

\* The test of QUERY_END is enough: a query it accepts has read every label
\* from the same labelling, thieves or not.
THEOREM QueriesAreConsistent == Spec => []AcceptedQueriesAreConsistent
<1>1. ASSUME Inv PROVE AcceptedQueriesAreConsistent
  <2> SUFFICES ASSUME NEW w \in Workers, pc[w] = "ask_again", Accepts(w)
               PROVE  query[w].x = query[w].y /\ query[w].x # Torn
    BY DEF AcceptedQueriesAreConsistent
  <2>1. query[w].x = version[OrderOf(target[w])] /\ query[w].y = query[w].x
    BY <1>1 DEF Inv, QueryInv
  <2>2. version[OrderOf(target[w])] \in Nat
    BY <1>1 DEF Inv, TypeOK, OrderOf, Orders
  <2> QED
    BY <2>1, <2>2 DEF Torn
<1> QED
  BY <1>1, InvHolds, PTL

\* Without thieves the owner is alone in its batch, all along.
LEMMA SerialHolds == ASSUME ~CanSteal PROVE Spec => [](Inv /\ SerialInv)
<1>1. Init => Inv /\ SerialInv
  BY InitInv
<1>2. Inv /\ SerialInv /\ [Next]_vars => (Inv /\ SerialInv)'
  BY InvStep, SerialStep DEF Inv
<1> QED
  BY <1>1, <1>2, PTL DEF Spec

\* As long as the owner runs its batch alone, no insert is under way while
\* labels are in flux.  With thieves that is not so.
THEOREM OwnerAloneIsSafe ==
  ASSUME ~CanSteal
  PROVE  Spec => []RelabelExcludesInserts
<1>1. ASSUME Inv, SerialInv PROVE RelabelExcludesInserts
  <2> SUFFICES ASSUME relabel_id % 2 = 1 \/ \E o \in Orders : torn[o] # {},
                      NEW w \in Workers, pc[w] \in Critical
               PROVE  FALSE
    BY DEF RelabelExcludesInserts
  <2>1. cont # "none"
    BY <1>1 DEF Inv, FrameInv, FrameLives, FrameShape, TornIsServed
  <2>2. batch_owner_id # NoWorker
    BY <1>1, <2>1 DEF SerialInv
  <2>3. pc[batch_owner_id] \in InBatch /\ worker_mutex[w] = batch_owner_id
    BY <1>1, <2>2 DEF Inv, LockInv, OwnerHoldsAll
  <2>4. worker_mutex[w] = w
    BY <1>1 DEF Inv, LockInv, InsertersHoldTheirMutex
  <2> QED
    BY <2>3, <2>4 DEF Critical, InBatch
<1> QED
  BY <1>1, SerialHolds, PTL

----------------------------------------------------------------------------
(* With thieves                                                            *)

\* Where a worker may be that waits in its batch while the relabel runs.
Staying == {"relabel", "relabel_done", "relabel_end",
            "help_id", "help_owner", "help_work"}

\* The relabel is begun by the announced owner, which stays in the batch until
\* the frame has ended, whoever ends it: neither test of execute_batch lets it
\* go.
OwnerBegins ==
  /\ \A w \in Workers : pc[w] = "relabel_begin" => batch_owner_id = w
  /\ running[English] \in {NoWorker, batch_owner_id}
OwnerStays ==
  cont # "none" =>
    /\ batch_owner_id # NoWorker
    /\ pending_id <= batch_id[batch_owner_id]
    /\ pc[batch_owner_id] \in Staying
OwnerIsNamed ==
  cont # "none" \/ (\E w \in Workers : pc[w] \in {"lock_all", "relabel_begin"})
    => batch_lock.owner # NoWorker

StayInv == OwnerBegins /\ OwnerStays /\ OwnerIsNamed

\* With an owner that is current, StayInv is preserved by every step of every
\* worker.
LEMMA StayStep ==
  OwnerIsCurrent /\ TypeOK /\ FrameInv /\ StayInv /\ [Next]_vars => StayInv'
<1> SUFFICES ASSUME OwnerIsCurrent, TypeOK, FrameInv, StayInv, [Next]_vars
             PROVE  StayInv'
  OBVIOUS
<1> USE DEF TypeOK, StayInv, OwnerBegins, OwnerStays, OwnerIsNamed, Staying,
            Alone, Goto
<1> USE DEF FrameShape, CallsAreServed, OneBatch, Orders, English, Hebrew
<1> USE DEF lockVars, omVars, frameVars, idVars, askVars, ownVars
<1> USE NoWorkerIsNone
<1>b. FrameShape /\ CallsAreServed /\ OneBatch
  BY DEF FrameInv
<1> USE <1>b
<1>1. ASSUME NEW w \in Workers, NEW l \in Lists, StartInsert(w, l)
  PROVE StayInv'
  BY <1>1 DEF StartInsert
<1>2. ASSUME NEW w \in Workers, NEW l \in Lists, StartQuery(w, l)
  PROVE StayInv'
  BY <1>2 DEF StartQuery
<1>4. ASSUME NEW w \in Workers, LockOwn(w) PROVE StayInv'
  BY <1>4 DEF LockOwn
<1>5. ASSUME NEW w \in Workers, OwnMutexTaken(w) PROVE StayInv'
  BY <1>5 DEF OwnMutexTaken
<1>6. ASSUME NEW w \in Workers, InsertFits(w) PROVE StayInv'
  BY <1>6 DEF InsertFits
<1>7. ASSUME NEW w \in Workers, InsertFails(w) PROVE StayInv'
  BY <1>7 DEF InsertFails
<1>8. ASSUME NEW w \in Workers, MarkHeavy(w) PROVE StayInv'
  BY <1>8 DEF MarkHeavy, AfterMark
<1>9. ASSUME NEW w \in Workers, AddHeavy(w) PROVE StayInv'
  BY <1>9 DEF AddHeavy, AfterMark
<1>10. ASSUME NEW w \in Workers, SetBatchId(w) PROVE StayInv'
  BY <1>10 DEF SetBatchId
<1>11. ASSUME NEW w \in Workers, UnlockOwn(w) PROVE StayInv'
  BY <1>11 DEF UnlockOwn
<1>12. ASSUME NEW w \in Workers, Batchify(w) PROVE StayInv'
  BY <1>12 DEF Batchify
<1>13. ASSUME NEW w \in Workers, TryStart(w) PROVE StayInv'
  BY <1>13 DEF TryStart
<1>14. ASSUME NEW w \in Workers, LockRelabel(w) PROVE StayInv'
  BY <1>14 DEF LockRelabel
<1>15. ASSUME NEW w \in Workers, RelabelMutexTaken(w) PROVE StayInv'
  BY <1>15 DEF RelabelMutexTaken
<1>16. ASSUME NEW w \in Workers, SetNextBatchOwner(w) PROVE StayInv'
  BY <1>16 DEF SetNextBatchOwner
<1>17. ASSUME NEW w \in Workers, SetOwnerField(w) PROVE StayInv'
  BY <1>17 DEF SetOwnerField
<1>18. ASSUME NEW w \in Workers, LockNext(w) PROVE StayInv'
  BY <1>18 DEF LockNext
<1>19. ASSUME NEW w \in Workers, AllLocked(w) PROVE StayInv'
  BY <1>19 DEF AllLocked
<1>20. ASSUME NEW w \in Workers, HelpId(w) PROVE StayInv'
  BY <1>20 DEF HelpId
<1>21. ASSUME NEW w \in Workers, HelpOwner(w) PROVE StayInv'
  BY <1>21 DEF HelpOwner
<1>22. ASSUME NEW w \in Workers, Steal(w) PROVE StayInv'
  BY <1>22 DEF Steal
<1>23. ASSUME NEW w \in Workers, FindNothing(w) PROVE StayInv'
  BY <1>23 DEF FindNothing
<1>24. ASSUME NEW w \in Workers, Leave(w) PROVE StayInv'
  BY <1>24 DEF Leave
<1>25. ASSUME NEW w \in Workers, UnlockNext(w) PROVE StayInv'
  BY <1>25 DEF UnlockNext
<1>26. ASSUME NEW w \in Workers, UnlockRelabel(w) PROVE StayInv'
  BY <1>26 DEF UnlockRelabel
<1>27. ASSUME NEW w \in Workers, BeginRelabel(w) PROVE StayInv'
  BY <1>27 DEF BeginRelabel, OwnerIsCurrent
<1>28. ASSUME NEW w \in Workers, NEW o \in Orders, NothingHeavy(w, o)
  PROVE StayInv'
  BY <1>28 DEF NothingHeavy
<1>29. ASSUME NEW w \in Workers, NEW o \in Orders, SplitHeavy(w, o)
  PROVE StayInv'
  BY <1>29 DEF SplitHeavy
<1>30. ASSUME NEW w \in Workers, NEW o \in Orders, Rebuild(w, o)
  PROVE StayInv'
  BY <1>30 DEF Rebuild
<1>31. ASSUME NEW w \in Workers, PopContinuation(w) PROVE StayInv'
  BY <1>31 DEF PopContinuation
<1>32. ASSUME NEW w \in Workers, ChildReturns(w) PROVE StayInv'
  BY <1>32 DEF ChildReturns
<1>33. ASSUME NEW w \in Workers, PlainSync(w) PROVE StayInv'
  BY <1>33 DEF PlainSync
<1>34. ASSUME NEW w \in Workers, StolenSync(w) PROVE StayInv'
  BY <1>34 DEF StolenSync
<1>35. ASSUME NEW w \in Workers, ResumeFrame(w) PROVE StayInv'
  BY <1>35 DEF ResumeFrame
<1>36. ASSUME NEW w \in Workers, EndRelabel(w) PROVE StayInv'
  BY <1>36 DEF EndRelabel
<1>37. ASSUME NEW w \in Workers, TerminateId(w) PROVE StayInv'
  BY <1>37 DEF TerminateId
<1>38. ASSUME NEW w \in Workers, TerminateOwner(w) PROVE StayInv'
  BY <1>38 DEF TerminateOwner
<1>39. ASSUME NEW w \in Workers, TerminateLock(w) PROVE StayInv'
  BY <1>39 DEF TerminateLock, BackToScheduler
<1>40. ASSUME NEW w \in Workers, ReadRelabelId(w) PROVE StayInv'
  BY <1>40 DEF ReadRelabelId
<1>41. ASSUME NEW w \in Workers, ReadX(w) PROVE StayInv'
  BY <1>41 DEF ReadX
<1>42. ASSUME NEW w \in Workers, ReadY(w) PROVE StayInv'
  BY <1>42 DEF ReadY
<1>43. ASSUME NEW w \in Workers, EndQuery(w) PROVE StayInv'
  BY <1>43 DEF EndQuery
<1>90. CASE UNCHANGED vars
  BY <1>90 DEF vars
<1> HIDE DEF TypeOK, StayInv, OwnerBegins, OwnerStays, OwnerIsNamed, Staying,
             Alone, Goto, FrameShape, CallsAreServed, OneBatch, Orders,
             English, Hebrew
<1> QED
  BY <1>1, <1>2, <1>4, <1>5, <1>6, <1>7, <1>8, <1>9, <1>10, <1>11,
     <1>12, <1>13, <1>14, <1>15, <1>16, <1>17, <1>18, <1>19, <1>20, <1>21,
     <1>22, <1>23, <1>24, <1>25, <1>26, <1>27, <1>28, <1>29, <1>30, <1>31,
     <1>32, <1>33, <1>34, <1>35, <1>36, <1>37, <1>38, <1>39, <1>40, <1>41,
     <1>42, <1>43, <1>90
  DEF Next, Call, Step, Insert, JoinBatch, Relabel, Query, Finished

\* The owner stays in its batch, all along.
LEMMA StayHolds == Spec /\ []OwnerIsCurrent => [](Inv /\ StayInv)
<1>1. Init => StayInv
  BY NoWorkerIsNone DEF Init, StayInv, OwnerBegins, OwnerStays, OwnerIsNamed,
                        Orders, English, Hebrew
<1>2. Inv /\ OwnerIsCurrent /\ StayInv /\ [Next]_vars => StayInv'
  BY StayStep DEF Inv
<1> QED
  BY <1>1, <1>2, InvHolds, PTL DEF Spec

\* Thieves are not the reason for which an owner leaves too early: if no owner
\* begins with the id of a batch that is over, no insert is under way while
\* labels are in flux, whoever ends the relabel.
THEOREM CurrentOwnerIsSafe ==
  Spec /\ []OwnerIsCurrent => []RelabelExcludesInserts
<1>1. ASSUME Inv, StayInv PROVE RelabelExcludesInserts
  <2> SUFFICES ASSUME relabel_id % 2 = 1 \/ \E o \in Orders : torn[o] # {},
                      NEW w \in Workers, pc[w] \in Critical
               PROVE  FALSE
    BY DEF RelabelExcludesInserts
  <2>1. cont # "none"
    BY <1>1 DEF Inv, FrameInv, FrameLives, FrameShape, TornIsServed
  <2>2. batch_owner_id # NoWorker
    BY <1>1, <2>1 DEF StayInv, OwnerStays
  <2>3. pc[batch_owner_id] \in InBatch /\ worker_mutex[w] = batch_owner_id
    BY <1>1, <2>2 DEF Inv, LockInv, OwnerHoldsAll
  <2>4. worker_mutex[w] = w
    BY <1>1 DEF Inv, LockInv, InsertersHoldTheirMutex
  <2> QED
    BY <2>3, <2>4 DEF Critical, InBatch
<1> QED
  BY <1>1, StayHolds, PTL

\* Then om_insert finds base->list->above->below == base->list: split() never
\* takes a list apart that an insert looks at.
THEOREM CurrentOwnerKeepsLists ==
  Spec /\ []OwnerIsCurrent => []InsertFindsListWhole
<1>1. TypeOK /\ RelabelExcludesInserts => InsertFindsListWhole
  <2> SUFFICES ASSUME TypeOK, RelabelExcludesInserts, NEW w \in Workers,
                      pc[w] = "try_insert",
                      target[w] \in torn[OrderOf(target[w])]
               PROVE  FALSE
    BY DEF InsertFindsListWhole
  <2>1. OrderOf(target[w]) \in Orders
    BY DEF OrderOf, Orders
  <2> QED
    BY <2>1 DEF RelabelExcludesInserts, Critical
<1> QED
  BY <1>1, TypeCorrect, CurrentOwnerIsSafe, PTL

\* batch_lock is held only for a worker that is somewhere in the batch, and whoever
\* is about to publish the end of the batch does so with the owner still inside.
LockIsUsed ==
  batch_lock.lock => cont # "none" \/ \E w \in Workers : pc[w] \in Alone
OwnerAwaitsId ==
  \A w \in Workers : pc[w] = "term_id" =>
    /\ batch_owner_id # NoWorker
    /\ pending_id <= batch_id[batch_owner_id]
    /\ pc[batch_owner_id] \in Staying \cup {"term_id"}
    /\ batch_lock.owner # NoWorker

LeaveInv == LockIsUsed /\ OwnerAwaitsId

\* While owners stay in their batches, LeaveInv is preserved by every step of every
\* worker.
LEMMA LeaveStep ==
  TypeOK /\ FrameInv /\ StayInv /\ LeaveInv /\ [Next]_vars => LeaveInv'
<1> SUFFICES ASSUME TypeOK, FrameInv, StayInv, LeaveInv, [Next]_vars
             PROVE  LeaveInv'
  OBVIOUS
<1> USE DEF TypeOK, StayInv, OwnerBegins, OwnerStays, OwnerIsNamed, Staying,
            LeaveInv, LockIsUsed, OwnerAwaitsId, Alone, Goto
<1> USE DEF FrameLives, FrameShape, CallsAreServed, OneBatch, Orders, English,
            Hebrew
<1> USE DEF lockVars, omVars, frameVars, idVars, askVars, ownVars
<1> USE NoWorkerIsNone
<1>b. FrameLives /\ FrameShape /\ CallsAreServed /\ OneBatch
  BY DEF FrameInv
<1> USE <1>b
<1>1. ASSUME NEW w \in Workers, NEW l \in Lists, StartInsert(w, l)
  PROVE LeaveInv'
  BY <1>1 DEF StartInsert
<1>2. ASSUME NEW w \in Workers, NEW l \in Lists, StartQuery(w, l)
  PROVE LeaveInv'
  BY <1>2 DEF StartQuery
<1>4. ASSUME NEW w \in Workers, LockOwn(w) PROVE LeaveInv'
  BY <1>4 DEF LockOwn
<1>5. ASSUME NEW w \in Workers, OwnMutexTaken(w) PROVE LeaveInv'
  BY <1>5 DEF OwnMutexTaken
<1>6. ASSUME NEW w \in Workers, InsertFits(w) PROVE LeaveInv'
  BY <1>6 DEF InsertFits
<1>7. ASSUME NEW w \in Workers, InsertFails(w) PROVE LeaveInv'
  BY <1>7 DEF InsertFails
<1>8. ASSUME NEW w \in Workers, MarkHeavy(w) PROVE LeaveInv'
  BY <1>8 DEF MarkHeavy, AfterMark
<1>9. ASSUME NEW w \in Workers, AddHeavy(w) PROVE LeaveInv'
  BY <1>9 DEF AddHeavy, AfterMark
<1>10. ASSUME NEW w \in Workers, SetBatchId(w) PROVE LeaveInv'
  BY <1>10 DEF SetBatchId
<1>11. ASSUME NEW w \in Workers, UnlockOwn(w) PROVE LeaveInv'
  BY <1>11 DEF UnlockOwn
<1>12. ASSUME NEW w \in Workers, Batchify(w) PROVE LeaveInv'
  BY <1>12 DEF Batchify
<1>13. ASSUME NEW w \in Workers, TryStart(w) PROVE LeaveInv'
  BY <1>13 DEF TryStart
<1>14. ASSUME NEW w \in Workers, LockRelabel(w) PROVE LeaveInv'
  BY <1>14 DEF LockRelabel
<1>15. ASSUME NEW w \in Workers, RelabelMutexTaken(w) PROVE LeaveInv'
  BY <1>15 DEF RelabelMutexTaken
<1>16. ASSUME NEW w \in Workers, SetNextBatchOwner(w) PROVE LeaveInv'
  BY <1>16 DEF SetNextBatchOwner
<1>17. ASSUME NEW w \in Workers, SetOwnerField(w) PROVE LeaveInv'
  BY <1>17 DEF SetOwnerField
<1>18. ASSUME NEW w \in Workers, LockNext(w) PROVE LeaveInv'
  BY <1>18 DEF LockNext
<1>19. ASSUME NEW w \in Workers, AllLocked(w) PROVE LeaveInv'
  BY <1>19 DEF AllLocked
<1>20. ASSUME NEW w \in Workers, HelpId(w) PROVE LeaveInv'
  BY <1>20 DEF HelpId
<1>21. ASSUME NEW w \in Workers, HelpOwner(w) PROVE LeaveInv'
  BY <1>21 DEF HelpOwner
<1>22. ASSUME NEW w \in Workers, Steal(w) PROVE LeaveInv'
  BY <1>22 DEF Steal
<1>23. ASSUME NEW w \in Workers, FindNothing(w) PROVE LeaveInv'
  BY <1>23 DEF FindNothing
<1>24. ASSUME NEW w \in Workers, Leave(w) PROVE LeaveInv'
  BY <1>24 DEF Leave
<1>25. ASSUME NEW w \in Workers, UnlockNext(w) PROVE LeaveInv'
  BY <1>25 DEF UnlockNext
<1>26. ASSUME NEW w \in Workers, UnlockRelabel(w) PROVE LeaveInv'
  BY <1>26 DEF UnlockRelabel
<1>27. ASSUME NEW w \in Workers, BeginRelabel(w) PROVE LeaveInv'
  BY <1>27 DEF BeginRelabel
<1>28. ASSUME NEW w \in Workers, NEW o \in Orders, NothingHeavy(w, o)
  PROVE LeaveInv'
  BY <1>28 DEF NothingHeavy
<1>29. ASSUME NEW w \in Workers, NEW o \in Orders, SplitHeavy(w, o)
  PROVE LeaveInv'
  BY <1>29 DEF SplitHeavy
<1>30. ASSUME NEW w \in Workers, NEW o \in Orders, Rebuild(w, o)
  PROVE LeaveInv'
  BY <1>30 DEF Rebuild
<1>31. ASSUME NEW w \in Workers, PopContinuation(w) PROVE LeaveInv'
  BY <1>31 DEF PopContinuation
<1>32. ASSUME NEW w \in Workers, ChildReturns(w) PROVE LeaveInv'
  BY <1>32 DEF ChildReturns
<1>33. ASSUME NEW w \in Workers, PlainSync(w) PROVE LeaveInv'
  BY <1>33 DEF PlainSync
<1>34. ASSUME NEW w \in Workers, StolenSync(w) PROVE LeaveInv'
  BY <1>34 DEF StolenSync
<1>35. ASSUME NEW w \in Workers, ResumeFrame(w) PROVE LeaveInv'
  BY <1>35 DEF ResumeFrame
<1>36. ASSUME NEW w \in Workers, EndRelabel(w) PROVE LeaveInv'
  BY <1>36 DEF EndRelabel
<1>37. ASSUME NEW w \in Workers, TerminateId(w) PROVE LeaveInv'
  BY <1>37 DEF TerminateId
<1>38. ASSUME NEW w \in Workers, TerminateOwner(w) PROVE LeaveInv'
  BY <1>38 DEF TerminateOwner
<1>39. ASSUME NEW w \in Workers, TerminateLock(w) PROVE LeaveInv'
  BY <1>39 DEF TerminateLock, BackToScheduler
<1>40. ASSUME NEW w \in Workers, ReadRelabelId(w) PROVE LeaveInv'
  BY <1>40 DEF ReadRelabelId
<1>41. ASSUME NEW w \in Workers, ReadX(w) PROVE LeaveInv'
  BY <1>41 DEF ReadX
<1>42. ASSUME NEW w \in Workers, ReadY(w) PROVE LeaveInv'
  BY <1>42 DEF ReadY
<1>43. ASSUME NEW w \in Workers, EndQuery(w) PROVE LeaveInv'
  BY <1>43 DEF EndQuery
<1>90. CASE UNCHANGED vars
  BY <1>90 DEF vars
<1> HIDE DEF TypeOK, StayInv, OwnerBegins, OwnerStays, OwnerIsNamed, Staying,
             LeaveInv, LockIsUsed, OwnerAwaitsId, Alone, Goto, FrameLives,
             FrameShape, CallsAreServed, OneBatch, Orders, English, Hebrew
<1> QED
  BY <1>1, <1>2, <1>4, <1>5, <1>6, <1>7, <1>8, <1>9, <1>10, <1>11,
     <1>12, <1>13, <1>14, <1>15, <1>16, <1>17, <1>18, <1>19, <1>20, <1>21,
     <1>22, <1>23, <1>24, <1>25, <1>26, <1>27, <1>28, <1>29, <1>30, <1>31,
     <1>32, <1>33, <1>34, <1>35, <1>36, <1>37, <1>38, <1>39, <1>40, <1>41,
     <1>42, <1>43, <1>90
  DEF Next, Call, Step, Insert, JoinBatch, Relabel, Query, Finished

\* With thieves the CILK_ASSERT of cilk_set_next_batch_owner may fail, but only in
\* one way: if no owner begins with the id of a batch that is over, the lock that
\* the next owner finds taken is in the hands of a worker between the first and the
\* last store of terminate_batch.  No owner gives g_relabel_mutex back earlier.
THEOREM NextOwnerMeetsNoBatch == Spec => CurrentOwnerOutlastsBatch
<1>1. Init => LeaveInv
  BY DEF Init, LeaveInv, LockIsUsed, OwnerAwaitsId
<1>2. Inv /\ StayInv /\ LeaveInv /\ [Next]_vars => LeaveInv'
  BY LeaveStep DEF Inv
<1>3. ASSUME Inv, StayInv, LeaveInv PROVE LockHeldAtEndOnly
  <2> SUFFICES ASSUME NEW w \in Workers, pc[w] = "set_owner", batch_lock.lock
               PROVE  \E v \in Workers : pc[v] \in {"term_owner", "term_lock"}
    BY DEF LockHeldAtEndOnly
  <2>1. relabel_mutex = w /\ batch_owner_id = NoWorker
    BY <1>3 DEF Inv, LockInv, GatherersHoldRelabelMutex, Gathering
  <2>2. cont = "none"
    BY <1>3, <2>1 DEF StayInv, OwnerStays
  <2>3. PICK v \in Workers : pc[v] \in Alone
    BY <1>3, <2>2 DEF LeaveInv, LockIsUsed
  <2>4. pc[v] \notin {"set_owner_field", "lock_all"}
    BY <1>3, <2>1 DEF Inv, LockInv, GatherersHoldRelabelMutex, Gathering
  <2>5. pc[v] # "relabel_begin"
    BY <1>3, <2>1, NoWorkerIsNone DEF StayInv, OwnerBegins
  <2>6. pc[v] # "relabel_end"
    BY <1>3, <2>2 DEF Inv, FrameInv, OneBatch
  <2>7. pc[v] # "term_id"
    BY <1>3, <2>1 DEF LeaveInv, OwnerAwaitsId
  <2> QED
    BY <2>3, <2>4, <2>5, <2>6, <2>7 DEF Alone
<1> QED
  BY <1>1, <1>2, <1>3, StayHolds, PTL DEF Spec, CurrentOwnerOutlastsBatch

\* Whoever was given the frame is on its way to pop_next_frame, and neither
\* test of execute_batch lets it go before.
FrameIsFetched ==
  next_frame # NoWorker =>
    /\ pc[next_frame] \in {"help_id", "help_owner", "help_work"}
    /\ pending_id <= batch_id[next_frame]

\* With workers that are current, FrameIsFetched is preserved by every step of
\* every worker.
LEMMA FetchStep ==
  /\ ThiefIsCurrent /\ TypeOK /\ FrameInv /\ StayInv
  /\ FrameIsFetched /\ [Next]_vars
  => FrameIsFetched'
<1> SUFFICES ASSUME ThiefIsCurrent, TypeOK, FrameInv, StayInv, FrameIsFetched,
                    [Next]_vars
             PROVE  FrameIsFetched'
  OBVIOUS
<1> USE DEF TypeOK, FrameIsFetched, Goto
<1> USE DEF lockVars, omVars, frameVars, idVars, askVars, ownVars
<1> USE NoWorkerIsNone
<1>1. ASSUME NEW w \in Workers, NEW l \in Lists, StartInsert(w, l)
  PROVE FrameIsFetched'
  BY <1>1 DEF StartInsert
<1>2. ASSUME NEW w \in Workers, NEW l \in Lists, StartQuery(w, l)
  PROVE FrameIsFetched'
  BY <1>2 DEF StartQuery
<1>4. ASSUME NEW w \in Workers, LockOwn(w) PROVE FrameIsFetched'
  BY <1>4 DEF LockOwn
<1>5. ASSUME NEW w \in Workers, OwnMutexTaken(w) PROVE FrameIsFetched'
  BY <1>5 DEF OwnMutexTaken
<1>6. ASSUME NEW w \in Workers, InsertFits(w) PROVE FrameIsFetched'
  BY <1>6 DEF InsertFits
<1>7. ASSUME NEW w \in Workers, InsertFails(w) PROVE FrameIsFetched'
  BY <1>7 DEF InsertFails
<1>8. ASSUME NEW w \in Workers, MarkHeavy(w) PROVE FrameIsFetched'
  BY <1>8 DEF MarkHeavy, AfterMark
<1>9. ASSUME NEW w \in Workers, AddHeavy(w) PROVE FrameIsFetched'
  BY <1>9 DEF AddHeavy, AfterMark
<1>10. ASSUME NEW w \in Workers, SetBatchId(w) PROVE FrameIsFetched'
  BY <1>10 DEF SetBatchId
<1>11. ASSUME NEW w \in Workers, UnlockOwn(w) PROVE FrameIsFetched'
  BY <1>11 DEF UnlockOwn
<1>12. ASSUME NEW w \in Workers, Batchify(w) PROVE FrameIsFetched'
  BY <1>12 DEF Batchify
<1>13. ASSUME NEW w \in Workers, TryStart(w) PROVE FrameIsFetched'
  BY <1>13 DEF TryStart
<1>14. ASSUME NEW w \in Workers, LockRelabel(w) PROVE FrameIsFetched'
  BY <1>14 DEF LockRelabel
<1>15. ASSUME NEW w \in Workers, RelabelMutexTaken(w) PROVE FrameIsFetched'
  BY <1>15 DEF RelabelMutexTaken
<1>16. ASSUME NEW w \in Workers, SetNextBatchOwner(w) PROVE FrameIsFetched'
  BY <1>16 DEF SetNextBatchOwner
<1>17. ASSUME NEW w \in Workers, SetOwnerField(w) PROVE FrameIsFetched'
  BY <1>17 DEF SetOwnerField
<1>18. ASSUME NEW w \in Workers, LockNext(w) PROVE FrameIsFetched'
  BY <1>18 DEF LockNext
<1>19. ASSUME NEW w \in Workers, AllLocked(w) PROVE FrameIsFetched'
  BY <1>19 DEF AllLocked
<1>20. ASSUME NEW w \in Workers, HelpId(w) PROVE FrameIsFetched'
  BY <1>20 DEF HelpId
<1>21. ASSUME NEW w \in Workers, HelpOwner(w) PROVE FrameIsFetched'
  BY <1>21 DEF HelpOwner, FrameInv, FrameShape, StayInv, OwnerIsNamed
<1>22. ASSUME NEW w \in Workers, Steal(w) PROVE FrameIsFetched'
  BY <1>22 DEF Steal
<1>23. ASSUME NEW w \in Workers, FindNothing(w) PROVE FrameIsFetched'
  BY <1>23 DEF FindNothing
<1>24. ASSUME NEW w \in Workers, Leave(w) PROVE FrameIsFetched'
  BY <1>24 DEF Leave
<1>25. ASSUME NEW w \in Workers, UnlockNext(w) PROVE FrameIsFetched'
  BY <1>25 DEF UnlockNext
<1>26. ASSUME NEW w \in Workers, UnlockRelabel(w) PROVE FrameIsFetched'
  BY <1>26 DEF UnlockRelabel
<1>27. ASSUME NEW w \in Workers, BeginRelabel(w) PROVE FrameIsFetched'
  BY <1>27 DEF BeginRelabel
<1>28. ASSUME NEW w \in Workers, NEW o \in Orders, NothingHeavy(w, o)
  PROVE FrameIsFetched'
  BY <1>28 DEF NothingHeavy
<1>29. ASSUME NEW w \in Workers, NEW o \in Orders, SplitHeavy(w, o)
  PROVE FrameIsFetched'
  BY <1>29 DEF SplitHeavy
<1>30. ASSUME NEW w \in Workers, NEW o \in Orders, Rebuild(w, o)
  PROVE FrameIsFetched'
  BY <1>30 DEF Rebuild
<1>31. ASSUME NEW w \in Workers, PopContinuation(w) PROVE FrameIsFetched'
  BY <1>31 DEF PopContinuation
<1>32. ASSUME NEW w \in Workers, ChildReturns(w) PROVE FrameIsFetched'
  <2>1. CASE cont = "at_sync"
    <3>1. /\ batch_owner_id = w /\ pending_id <= batch_id[w]
      BY <1>32, <2>1 DEF ChildReturns, StayInv, OwnerBegins, OwnerStays
    <3> QED
      BY <1>32, <2>1, <3>1 DEF ChildReturns
  <2>2. CASE cont # "at_sync"
    BY <1>32, <2>2 DEF ChildReturns
  <2> QED
    BY <2>1, <2>2
<1>33. ASSUME NEW w \in Workers, PlainSync(w) PROVE FrameIsFetched'
  BY <1>33 DEF PlainSync
<1>34. ASSUME NEW w \in Workers, StolenSync(w) PROVE FrameIsFetched'
  BY <1>34 DEF StolenSync, ThiefIsCurrent
<1>35. ASSUME NEW w \in Workers, ResumeFrame(w) PROVE FrameIsFetched'
  BY <1>35 DEF ResumeFrame
<1>36. ASSUME NEW w \in Workers, EndRelabel(w) PROVE FrameIsFetched'
  BY <1>36 DEF EndRelabel
<1>37. ASSUME NEW w \in Workers, TerminateId(w) PROVE FrameIsFetched'
  BY <1>37 DEF TerminateId, FrameInv, OneBatch, Alone
<1>38. ASSUME NEW w \in Workers, TerminateOwner(w) PROVE FrameIsFetched'
  BY <1>38 DEF TerminateOwner
<1>39. ASSUME NEW w \in Workers, TerminateLock(w) PROVE FrameIsFetched'
  BY <1>39 DEF TerminateLock, BackToScheduler
<1>40. ASSUME NEW w \in Workers, ReadRelabelId(w) PROVE FrameIsFetched'
  BY <1>40 DEF ReadRelabelId
<1>41. ASSUME NEW w \in Workers, ReadX(w) PROVE FrameIsFetched'
  BY <1>41 DEF ReadX
<1>42. ASSUME NEW w \in Workers, ReadY(w) PROVE FrameIsFetched'
  BY <1>42 DEF ReadY
<1>43. ASSUME NEW w \in Workers, EndQuery(w) PROVE FrameIsFetched'
  BY <1>43 DEF EndQuery
<1>90. CASE UNCHANGED vars
  BY <1>90 DEF vars
<1> HIDE DEF TypeOK, FrameIsFetched, Goto
<1> QED
  BY <1>1, <1>2, <1>4, <1>5, <1>6, <1>7, <1>8, <1>9, <1>10, <1>11,
     <1>12, <1>13, <1>14, <1>15, <1>16, <1>17, <1>18, <1>19, <1>20, <1>21,
     <1>22, <1>23, <1>24, <1>25, <1>26, <1>27, <1>28, <1>29, <1>30, <1>31,
     <1>32, <1>33, <1>34, <1>35, <1>36, <1>37, <1>38, <1>39, <1>40, <1>41,
     <1>42, <1>43, <1>90
  DEF Next, Call, Step, Insert, JoinBatch, Relabel, Query, Finished

\* When owner and thief wait for the batch they run, the provably good steal
\* finds l->next_frame_ff empty: no worker leaves a batch, or goes through user
\* code, with a frame in next_frame_ff.
THEOREM FrameIsTaken == Spec => CurrentWorkersTakeFrame
<1>1. Init => FrameIsFetched
  BY DEF Init, FrameIsFetched
<1>2. /\ Inv /\ StayInv /\ ThiefIsCurrent /\ FrameIsFetched /\ [Next]_vars
      => FrameIsFetched'
  BY FetchStep DEF Inv
<1>3. FrameIsFetched => NoFrameLeftBehind
  BY NoWorkerIsNone DEF FrameIsFetched, NoFrameLeftBehind, InBatch
<1> QED
  BY <1>1, <1>2, <1>3, StayHolds, PTL DEF Spec, CurrentWorkersTakeFrame

----------------------------------------------------------------------------
(* What no relabel disturbs that keeps inserts out                         *)
(*                                                                         *)
(* The queues of heavy lists                                               *)

\* A list is queued with its own order.
QueuedHere == \A o \in Orders : \A l \in heavy_nodes[o] : OrderOf(l) = o

\* Nothing is queued behind a relabel that is under way.
TornIsQueue == \A o \in Orders : torn[o] # {} => torn[o] = heavy_nodes[o]

\* Where insert_failed is never set.
NotFailing == {"idle", "acquire", "try_insert",
               "ask", "read_x", "read_y", "ask_again"}

\* An insert that failed keeps its list heavy until there is room again.
FailedIsKept ==
  \A w \in Workers : insert_failed[w] =>
    /\ pc[w] \notin NotFailing
    /\ pc[w] = "mark" \/ heavy[target[w]] \/ gap[w][target[w]] > 0

\* A worker whose insert failed waits for some batch until it leaves it, so it
\* goes back to no user code after a batch it ended.
Waiting == {"try_start", "try_relabel_mutex"} \cup Gathering \cup InBatch
FailedWaits ==
  \A w \in Workers : insert_failed[w] /\ pc[w] \in Waiting => batch_id[w] # -1

QueueInv ==
  /\ HeavyListsAreQueued
  /\ QueuedHere
  /\ TornIsQueue
  /\ FailedIsKept
  /\ FailedWaits

\* Every step keeps what is queued, as long as nobody inserts during a relabel.
LEMMA QueueStep ==
  TypeOK /\ RelabelExcludesInserts /\ QueueInv /\ [Next]_vars => QueueInv'
<1> SUFFICES ASSUME TypeOK, RelabelExcludesInserts, QueueInv, [Next]_vars
             PROVE  QueueInv'
  OBVIOUS
<1> USE DEF TypeOK, QueueInv, HeavyListsAreQueued, QueuedHere, TornIsQueue,
            FailedIsKept, NotFailing, FailedWaits, Waiting, Gathering, InBatch,
            Goto
<1> USE DEF lockVars, omVars, frameVars, idVars, askVars, ownVars
<1>1. ASSUME NEW w \in Workers, NEW l \in Lists, StartInsert(w, l)
  PROVE QueueInv'
  BY <1>1 DEF StartInsert
<1>2. ASSUME NEW w \in Workers, NEW l \in Lists, StartQuery(w, l)
  PROVE QueueInv'
  BY <1>2 DEF StartQuery
<1>3. ASSUME NEW w \in Workers, LockOwn(w) PROVE QueueInv'
  BY <1>3 DEF LockOwn
<1>4. ASSUME NEW w \in Workers, OwnMutexTaken(w) PROVE QueueInv'
  BY <1>4 DEF OwnMutexTaken
<1>5. ASSUME NEW w \in Workers, InsertFits(w) PROVE QueueInv'
  BY <1>5 DEF InsertFits
<1>6. ASSUME NEW w \in Workers, InsertFails(w) PROVE QueueInv'
  BY <1>6 DEF InsertFails
<1>7. ASSUME NEW w \in Workers, MarkHeavy(w) PROVE QueueInv'
  BY <1>7 DEF MarkHeavy, AfterMark
<1>8. ASSUME NEW w \in Workers, AddHeavy(w) PROVE QueueInv'
  <2>1. \A o \in Orders : torn[o] = {}
    BY <1>8 DEF AddHeavy, RelabelExcludesInserts, Critical
  <2>2. target[w] \in Lists /\ OrderOf(target[w]) \in Orders
    BY DEF OrderOf, Orders
  <2>3. HeavyListsAreQueued'
    BY <1>8, <2>2 DEF AddHeavy, AfterMark
  <2>4. QueuedHere'
    BY <1>8, <2>2 DEF AddHeavy
  <2>5. TornIsQueue'
    BY <1>8, <2>1 DEF AddHeavy
  <2>6. FailedIsKept' /\ FailedWaits'
    BY <1>8 DEF AddHeavy, AfterMark
  <2> QED
    BY <2>3, <2>4, <2>5, <2>6
<1>9. ASSUME NEW w \in Workers, SetBatchId(w) PROVE QueueInv'
  BY <1>9 DEF SetBatchId
<1>10. ASSUME NEW w \in Workers, UnlockOwn(w) PROVE QueueInv'
  BY <1>10 DEF UnlockOwn
<1>11. ASSUME NEW w \in Workers, Batchify(w) PROVE QueueInv'
  BY <1>11 DEF Batchify
<1>12. ASSUME NEW w \in Workers, TryStart(w) PROVE QueueInv'
  BY <1>12 DEF TryStart
<1>13. ASSUME NEW w \in Workers, LockRelabel(w) PROVE QueueInv'
  BY <1>13 DEF LockRelabel
<1>14. ASSUME NEW w \in Workers, RelabelMutexTaken(w) PROVE QueueInv'
  BY <1>14 DEF RelabelMutexTaken
<1>15. ASSUME NEW w \in Workers, SetNextBatchOwner(w) PROVE QueueInv'
  BY <1>15 DEF SetNextBatchOwner
<1>16. ASSUME NEW w \in Workers, SetOwnerField(w) PROVE QueueInv'
  BY <1>16 DEF SetOwnerField
<1>17. ASSUME NEW w \in Workers, LockNext(w) PROVE QueueInv'
  BY <1>17 DEF LockNext
<1>18. ASSUME NEW w \in Workers, AllLocked(w) PROVE QueueInv'
  BY <1>18 DEF AllLocked
<1>19. ASSUME NEW w \in Workers, HelpId(w) PROVE QueueInv'
  BY <1>19 DEF HelpId
<1>20. ASSUME NEW w \in Workers, HelpOwner(w) PROVE QueueInv'
  BY <1>20 DEF HelpOwner
<1>21. ASSUME NEW w \in Workers, Steal(w) PROVE QueueInv'
  BY <1>21 DEF Steal
<1>22. ASSUME NEW w \in Workers, FindNothing(w) PROVE QueueInv'
  BY <1>22 DEF FindNothing
<1>23. ASSUME NEW w \in Workers, Leave(w) PROVE QueueInv'
  BY <1>23 DEF Leave
<1>24. ASSUME NEW w \in Workers, UnlockNext(w) PROVE QueueInv'
  BY <1>24 DEF UnlockNext
<1>25. ASSUME NEW w \in Workers, UnlockRelabel(w) PROVE QueueInv'
  BY <1>25 DEF UnlockRelabel
<1>26. ASSUME NEW w \in Workers, BeginRelabel(w) PROVE QueueInv'
  BY <1>26 DEF BeginRelabel
<1>27. ASSUME NEW w \in Workers, NEW o \in Orders, NothingHeavy(w, o)
  PROVE QueueInv'
  BY <1>27 DEF NothingHeavy
<1>28. ASSUME NEW w \in Workers, NEW o \in Orders, SplitHeavy(w, o)
  PROVE QueueInv'
  BY <1>28 DEF SplitHeavy
<1>29. ASSUME NEW w \in Workers, NEW o \in Orders, Rebuild(w, o)
  PROVE QueueInv'
  <2>1. \A v \in Workers : pc[v] \notin Critical
    BY <1>29 DEF Rebuild, RelabelExcludesInserts
  <2>2. torn[o] = heavy_nodes[o]
    BY <1>29 DEF Rebuild
  <2>3. HeavyListsAreQueued'
    <3> SUFFICES ASSUME NEW l \in Lists
                 PROVE  (heavy[l] <=> l \in heavy_nodes[OrderOf(l)])'
      BY <1>29, <2>1 DEF Rebuild, Critical
    <3>1. heavy[l] <=> l \in heavy_nodes[OrderOf(l)]
      BY <2>1 DEF Critical
    <3>2. heavy'[l] <=> heavy[l] /\ l \notin torn[o]
      BY <1>29 DEF Rebuild
    <3>3. CASE OrderOf(l) = o
      BY <1>29, <2>2, <3>1, <3>2, <3>3 DEF Rebuild
    <3>4. CASE OrderOf(l) # o
      BY <1>29, <2>2, <3>1, <3>2, <3>4 DEF Rebuild, OrderOf, Orders
    <3> QED
      BY <3>3, <3>4
  <2>4. QueuedHere' /\ TornIsQueue'
    BY <1>29 DEF Rebuild
  <2>5. FailedIsKept'
    <3> SUFFICES ASSUME NEW v \in Workers, insert_failed'[v]
                 PROVE  /\ pc'[v] \notin NotFailing
                        /\ heavy'[target'[v]] \/ gap'[v][target'[v]] > 0
      OBVIOUS
    <3>1. /\ insert_failed[v] /\ pc[v] \notin NotFailing /\ target' = target
          /\ heavy[target[v]] \/ gap[v][target[v]] > 0
      BY <1>29, <2>1 DEF Rebuild, Critical
    <3>2. pc'[v] \notin NotFailing
      BY <1>29, <3>1 DEF Rebuild
    <3>3. target[v] \in Lists
      OBVIOUS
    <3>4. CASE target[v] \in torn[o]
      <4>1. gap'[v][target[v]] = MaxGap
        BY <1>29, <3>3, <3>4 DEF Rebuild
      <4> QED
        BY <3>1, <3>2, <4>1, GapAssumption
    <3>5. CASE target[v] \notin torn[o]
      <4>1. /\ gap'[v][target[v]] = gap[v][target[v]]
            /\ heavy'[target[v]] = heavy[target[v]]
        BY <1>29, <3>3, <3>5 DEF Rebuild
      <4> QED
        BY <3>1, <3>2, <4>1
    <3> QED
      BY <3>4, <3>5
  <2>6. FailedWaits'
    BY <1>29 DEF Rebuild
  <2> QED
    BY <2>3, <2>4, <2>5, <2>6
<1>30. ASSUME NEW w \in Workers, PopContinuation(w) PROVE QueueInv'
  BY <1>30 DEF PopContinuation
<1>31. ASSUME NEW w \in Workers, ChildReturns(w) PROVE QueueInv'
  BY <1>31 DEF ChildReturns
<1>32. ASSUME NEW w \in Workers, PlainSync(w) PROVE QueueInv'
  BY <1>32 DEF PlainSync
<1>33. ASSUME NEW w \in Workers, StolenSync(w) PROVE QueueInv'
  BY <1>33 DEF StolenSync
<1>34. ASSUME NEW w \in Workers, ResumeFrame(w) PROVE QueueInv'
  BY <1>34 DEF ResumeFrame
<1>35. ASSUME NEW w \in Workers, EndRelabel(w) PROVE QueueInv'
  BY <1>35 DEF EndRelabel
<1>36. ASSUME NEW w \in Workers, TerminateId(w) PROVE QueueInv'
  BY <1>36 DEF TerminateId
<1>37. ASSUME NEW w \in Workers, TerminateOwner(w) PROVE QueueInv'
  BY <1>37 DEF TerminateOwner
<1>38. ASSUME NEW w \in Workers, TerminateLock(w) PROVE QueueInv'
  BY <1>38 DEF TerminateLock, BackToScheduler
<1>39. ASSUME NEW w \in Workers, ReadRelabelId(w) PROVE QueueInv'
  BY <1>39 DEF ReadRelabelId
<1>40. ASSUME NEW w \in Workers, ReadX(w) PROVE QueueInv'
  BY <1>40 DEF ReadX
<1>41. ASSUME NEW w \in Workers, ReadY(w) PROVE QueueInv'
  BY <1>41 DEF ReadY
<1>42. ASSUME NEW w \in Workers, EndQuery(w) PROVE QueueInv'
  BY <1>42 DEF EndQuery
<1>90. CASE UNCHANGED vars
  BY <1>90 DEF vars
<1> HIDE DEF TypeOK, QueueInv, HeavyListsAreQueued, QueuedHere, TornIsQueue,
             FailedIsKept, NotFailing, FailedWaits, Waiting, Gathering,
             InBatch, Goto
<1> QED
  BY <1>1, <1>2, <1>3, <1>4, <1>5, <1>6, <1>7, <1>8, <1>9, <1>10, <1>11,
     <1>12, <1>13, <1>14, <1>15, <1>16, <1>17, <1>18, <1>19, <1>20, <1>21,
     <1>22, <1>23, <1>24, <1>25, <1>26, <1>27, <1>28, <1>29, <1>30, <1>31,
     <1>32, <1>33, <1>34, <1>35, <1>36, <1>37, <1>38, <1>39, <1>40, <1>41,
     <1>42, <1>90
  DEF Next, Call, Step, Insert, JoinBatch, Relabel, Query, Finished

\* The queues hold what they should.
LEMMA QueueHolds == Spec /\ []RelabelExcludesInserts => []QueueInv
<1>1. Init => QueueInv
  <2> SUFFICES ASSUME Init PROVE QueueInv
    OBVIOUS
  <2>1. /\ \A o \in Orders : heavy_nodes[o] = {} /\ torn[o] = {}
        /\ \A l \in Lists : heavy[l] = FALSE
        /\ \A w \in Workers : insert_failed[w] = FALSE /\ pc[w] = "idle"
    BY DEF Init
  <2>2. \A l \in Lists : OrderOf(l) \in Orders
    BY DEF OrderOf, Orders
  <2> QED
    BY <2>1, <2>2
    DEF QueueInv, HeavyListsAreQueued, QueuedHere, TornIsQueue, FailedIsKept,
        FailedWaits
<1>2. Inv /\ RelabelExcludesInserts /\ QueueInv /\ [Next]_vars => QueueInv'
  BY QueueStep DEF Inv
<1> QED
  BY <1>1, <1>2, InvHolds, PTL DEF Spec

\* What the queues say of a batch: every failed insert is answered.
LEMMA QueuesAnswerAll == Inv /\ QueueInv => BatchCoversFailedInserts
<1> SUFFICES ASSUME Inv, QueueInv PROVE BatchCoversFailedInserts
  OBVIOUS
<1> SUFFICES ASSUME batch_in_progress, NEW w \in Workers, insert_failed[w]
             PROVE  \/ gap[w][target[w]] > 0
                    \/ target[w] \in heavy_nodes[OrderOf(target[w])]
  BY DEF BatchCoversFailedInserts
<1>1. \A v \in Workers : pc[v] \notin Critical
  BY AllLockedOut DEF NoInsertDuringBatch
<1>2. heavy[target[w]] \/ gap[w][target[w]] > 0
  BY <1>1 DEF QueueInv, FailedIsKept, Critical
<1>3. target[w] \in Lists
  BY DEF Inv, TypeOK
<1> QED
  BY <1>1, <1>2, <1>3 DEF QueueInv, HeavyListsAreQueued, Critical

\* m_heavy_nodes and the flags blist::heavy agree: a list that is flagged is
\* queued or is being queued, although several inserts fail in it at once and
\* relabel() resets the queue as a whole.
THEOREM NoHeavyListIsLost ==
  ASSUME ~CanSteal PROVE Spec => []HeavyListsAreQueued
<1>1. QueueInv => HeavyListsAreQueued
  BY DEF QueueInv
<1> QED
  BY <1>1, OwnerAloneIsSafe, QueueHolds, PTL

\* With thieves the same, if no owner begins with the id of a batch that is
\* over.
THEOREM CurrentOwnerLosesNoList ==
  Spec /\ []OwnerIsCurrent => []HeavyListsAreQueued
<1>1. QueueInv => HeavyListsAreQueued
  BY DEF QueueInv
<1> QED
  BY <1>1, CurrentOwnerIsSafe, QueueHolds, PTL

\* slow_path may rely on whoever won the compare-and-swap on blist::heavy: the
\* batch it joins has the list in its queue, or the list has room already.
THEOREM BatchesAnswerAll ==
  ASSUME ~CanSteal PROVE Spec => []BatchCoversFailedInserts
<1> QED
  BY OwnerAloneIsSafe, InvHolds, QueueHolds, QueuesAnswerAll, PTL

\* With thieves the same, if no owner begins with the id of a batch that is
\* over.
THEOREM CurrentOwnerAnswersAll ==
  Spec /\ []OwnerIsCurrent => []BatchCoversFailedInserts
<1> QED
  BY CurrentOwnerIsSafe, InvHolds, QueueHolds, QueuesAnswerAll, PTL

----------------------------------------------------------------------------
(* Relabelling is indivisible                                              *)

\* Every step is a step of OrderLists or leaves it alone.
LEMMA AtomicStep ==
  RelabelExcludesInserts /\ TypeOK /\ QueueInv /\ [Next]_vars
    => [Atomic!Next]_(Atomic!vars)
<1> SUFFICES ASSUME RelabelExcludesInserts, TypeOK, QueueInv, [Next]_vars
             PROVE  Atomic!Next \/ UNCHANGED Atomic!vars
  OBVIOUS
<1> DEFINE busy   == {w \in Workers : pc[w] \in Critical}
           marked == UNION {heavy_nodes[o] : o \in Orders}
<1> USE DEF Goto, lockVars, omVars, frameVars, idVars, askVars, ownVars
<1>1. ASSUME NEW w \in Workers, LockOwn(w) PROVE Atomic!Next
  <2>1. w \notin busy /\ busy' = busy \cup {w} /\ UNCHANGED <<gap, marked>>
    BY <1>1 DEF LockOwn, Critical, TypeOK
  <2> QED
    BY <2>1 DEF Atomic!Next, Atomic!Begin
<1>2. ASSUME NEW w \in Workers, UnlockOwn(w) PROVE Atomic!Next
  <2>1. w \in busy /\ busy' = busy \ {w} /\ UNCHANGED <<gap, marked>>
    BY <1>2 DEF UnlockOwn, Critical, TypeOK
  <2> QED
    BY <2>1 DEF Atomic!Next, Atomic!End
<1>3. ASSUME NEW w \in Workers, InsertFits(w) PROVE Atomic!Next
  <2>1. w \in busy /\ UNCHANGED <<busy, marked>>
    BY <1>3 DEF InsertFits, Critical, TypeOK
  <2>2. /\ target[w] \in Lists /\ gap[w][target[w]] > 0
        /\ gap' = [gap EXCEPT ![w][target[w]] = @ - 1]
    BY <1>3 DEF InsertFits, TypeOK
  <2> QED
    BY <2>1, <2>2 DEF Atomic!Next, Atomic!Insert
<1>4. ASSUME NEW w \in Workers, AddHeavy(w) PROVE Atomic!Next
  <2>1. w \in busy /\ UNCHANGED <<busy, gap>>
    BY <1>4 DEF AddHeavy, AfterMark, Critical, TypeOK
  <2>2. target[w] \in Lists /\ OrderOf(target[w]) \in Orders
    BY DEF TypeOK, OrderOf, Orders
  <2>3. marked' = marked \cup {target[w]}
    BY <1>4, <2>2 DEF AddHeavy, TypeOK
  <2> QED
    BY <2>1, <2>2, <2>3 DEF Atomic!Next, Atomic!Mark
<1>5. ASSUME NEW w \in Workers, NEW o \in Orders, Rebuild(w, o)
      PROVE  Atomic!Next
  <2>1. busy = {} /\ busy' = {}
    BY <1>5 DEF Rebuild, RelabelExcludesInserts, Critical, TypeOK
  <2>2. torn[o] # {} /\ torn[o] = heavy_nodes[o]
    BY <1>5 DEF Rebuild, QueueInv, TornIsQueue
  <2>3. {l \in marked : OrderOf(l) = o} = torn[o]
    BY <2>2 DEF QueueInv, QueuedHere
  <2>4. marked' = marked \ torn[o]
    BY <1>5, <2>2 DEF Rebuild, QueueInv, QueuedHere, TypeOK
  <2>5. gap' = [v \in Workers |->
                 [l \in Lists |-> IF l \in torn[o] THEN MaxGap ELSE gap[v][l]]]
    BY <1>5 DEF Rebuild
  <2>6. Atomic!Relabel(o)
    BY <2>1, <2>2, <2>3, <2>4, <2>5 DEF Atomic!Relabel
  <2> QED
    BY <2>6 DEF Atomic!Next
<1>6. CASE UNCHANGED <<busy, gap, heavy_nodes>>
  BY <1>6 DEF Atomic!vars
<1>7. \/ UNCHANGED <<busy, gap, heavy_nodes>>
      \/ \E w \in Workers :
           \/ LockOwn(w) \/ UnlockOwn(w) \/ InsertFits(w) \/ AddHeavy(w)
           \/ \E o \in Orders : Rebuild(w, o)
  <2>1. ASSUME NEW w \in Workers, NEW l \in Lists, StartInsert(w, l)
        PROVE  UNCHANGED <<busy, gap, heavy_nodes>>
    BY <2>1 DEF StartInsert, Critical, TypeOK
  <2>2. ASSUME NEW w \in Workers, NEW l \in Lists, StartQuery(w, l)
        PROVE  UNCHANGED <<busy, gap, heavy_nodes>>
    BY <2>2 DEF StartQuery, Critical, TypeOK
  <2>3. ASSUME NEW w \in Workers, OwnMutexTaken(w)
        PROVE  UNCHANGED <<busy, gap, heavy_nodes>>
    BY <2>3 DEF OwnMutexTaken, Critical, TypeOK
  <2>4. ASSUME NEW w \in Workers, InsertFails(w)
        PROVE  UNCHANGED <<busy, gap, heavy_nodes>>
    BY <2>4 DEF InsertFails, Critical, TypeOK
  <2>5. ASSUME NEW w \in Workers, MarkHeavy(w)
        PROVE  UNCHANGED <<busy, gap, heavy_nodes>>
    BY <2>5 DEF MarkHeavy, AfterMark, Critical, TypeOK
  <2>6. ASSUME NEW w \in Workers, SetBatchId(w)
        PROVE  UNCHANGED <<busy, gap, heavy_nodes>>
    BY <2>6 DEF SetBatchId, Critical, TypeOK
  <2>7. ASSUME NEW w \in Workers, Batchify(w)
        PROVE  UNCHANGED <<busy, gap, heavy_nodes>>
    BY <2>7 DEF Batchify, Critical, TypeOK
  <2>8. ASSUME NEW w \in Workers, TryStart(w)
        PROVE  UNCHANGED <<busy, gap, heavy_nodes>>
    BY <2>8 DEF TryStart, Critical, TypeOK
  <2>9. ASSUME NEW w \in Workers, LockRelabel(w)
        PROVE  UNCHANGED <<busy, gap, heavy_nodes>>
    BY <2>9 DEF LockRelabel, Critical, TypeOK
  <2>10. ASSUME NEW w \in Workers, RelabelMutexTaken(w)
        PROVE  UNCHANGED <<busy, gap, heavy_nodes>>
    BY <2>10 DEF RelabelMutexTaken, Critical, TypeOK
  <2>11. ASSUME NEW w \in Workers, SetNextBatchOwner(w)
        PROVE  UNCHANGED <<busy, gap, heavy_nodes>>
    BY <2>11 DEF SetNextBatchOwner, Critical, TypeOK
  <2>12. ASSUME NEW w \in Workers, SetOwnerField(w)
        PROVE  UNCHANGED <<busy, gap, heavy_nodes>>
    BY <2>12 DEF SetOwnerField, Critical, TypeOK
  <2>13. ASSUME NEW w \in Workers, LockNext(w)
        PROVE  UNCHANGED <<busy, gap, heavy_nodes>>
    BY <2>13 DEF LockNext, Critical, TypeOK
  <2>14. ASSUME NEW w \in Workers, AllLocked(w)
        PROVE  UNCHANGED <<busy, gap, heavy_nodes>>
    BY <2>14 DEF AllLocked, Critical, TypeOK
  <2>15. ASSUME NEW w \in Workers, HelpId(w)
        PROVE  UNCHANGED <<busy, gap, heavy_nodes>>
    BY <2>15 DEF HelpId, Critical, TypeOK
  <2>16. ASSUME NEW w \in Workers, HelpOwner(w)
        PROVE  UNCHANGED <<busy, gap, heavy_nodes>>
    BY <2>16 DEF HelpOwner, Critical, TypeOK
  <2>17. ASSUME NEW w \in Workers, Steal(w)
        PROVE  UNCHANGED <<busy, gap, heavy_nodes>>
    BY <2>17 DEF Steal, Critical, TypeOK
  <2>18. ASSUME NEW w \in Workers, FindNothing(w)
        PROVE  UNCHANGED <<busy, gap, heavy_nodes>>
    BY <2>18 DEF FindNothing, Critical, TypeOK
  <2>19. ASSUME NEW w \in Workers, Leave(w)
        PROVE  UNCHANGED <<busy, gap, heavy_nodes>>
    BY <2>19 DEF Leave, Critical, TypeOK
  <2>20. ASSUME NEW w \in Workers, UnlockNext(w)
        PROVE  UNCHANGED <<busy, gap, heavy_nodes>>
    BY <2>20 DEF UnlockNext, Critical, TypeOK
  <2>21. ASSUME NEW w \in Workers, UnlockRelabel(w)
        PROVE  UNCHANGED <<busy, gap, heavy_nodes>>
    BY <2>21 DEF UnlockRelabel, Critical, TypeOK
  <2>22. ASSUME NEW w \in Workers, BeginRelabel(w)
        PROVE  UNCHANGED <<busy, gap, heavy_nodes>>
    BY <2>22 DEF BeginRelabel, Critical, TypeOK
  <2>23. ASSUME NEW w \in Workers, NEW o \in Orders, NothingHeavy(w, o)
        PROVE  UNCHANGED <<busy, gap, heavy_nodes>>
    BY <2>23 DEF NothingHeavy, Critical, TypeOK
  <2>24. ASSUME NEW w \in Workers, NEW o \in Orders, SplitHeavy(w, o)
        PROVE  UNCHANGED <<busy, gap, heavy_nodes>>
    BY <2>24 DEF SplitHeavy, Critical, TypeOK
  <2>25. ASSUME NEW w \in Workers, PopContinuation(w)
        PROVE  UNCHANGED <<busy, gap, heavy_nodes>>
    BY <2>25 DEF PopContinuation, Critical, TypeOK
  <2>26. ASSUME NEW w \in Workers, ChildReturns(w)
        PROVE  UNCHANGED <<busy, gap, heavy_nodes>>
    BY <2>26 DEF ChildReturns, Critical, TypeOK
  <2>27. ASSUME NEW w \in Workers, PlainSync(w)
        PROVE  UNCHANGED <<busy, gap, heavy_nodes>>
    BY <2>27 DEF PlainSync, Critical, TypeOK
  <2>28. ASSUME NEW w \in Workers, StolenSync(w)
        PROVE  UNCHANGED <<busy, gap, heavy_nodes>>
    BY <2>28 DEF StolenSync, Critical, TypeOK
  <2>29. ASSUME NEW w \in Workers, ResumeFrame(w)
        PROVE  UNCHANGED <<busy, gap, heavy_nodes>>
    BY <2>29 DEF ResumeFrame, Critical, TypeOK
  <2>30. ASSUME NEW w \in Workers, EndRelabel(w)
        PROVE  UNCHANGED <<busy, gap, heavy_nodes>>
    BY <2>30 DEF EndRelabel, Critical, TypeOK
  <2>31. ASSUME NEW w \in Workers, TerminateId(w)
        PROVE  UNCHANGED <<busy, gap, heavy_nodes>>
    BY <2>31 DEF TerminateId, Critical, TypeOK
  <2>32. ASSUME NEW w \in Workers, TerminateOwner(w)
        PROVE  UNCHANGED <<busy, gap, heavy_nodes>>
    BY <2>32 DEF TerminateOwner, Critical, TypeOK
  <2>33. ASSUME NEW w \in Workers, TerminateLock(w)
        PROVE  UNCHANGED <<busy, gap, heavy_nodes>>
    BY <2>33 DEF TerminateLock, BackToScheduler, Critical, TypeOK
  <2>34. ASSUME NEW w \in Workers, ReadRelabelId(w)
        PROVE  UNCHANGED <<busy, gap, heavy_nodes>>
    BY <2>34 DEF ReadRelabelId, Critical, TypeOK
  <2>35. ASSUME NEW w \in Workers, ReadX(w)
        PROVE  UNCHANGED <<busy, gap, heavy_nodes>>
    BY <2>35 DEF ReadX, Critical, TypeOK
  <2>36. ASSUME NEW w \in Workers, ReadY(w)
        PROVE  UNCHANGED <<busy, gap, heavy_nodes>>
    BY <2>36 DEF ReadY, Critical, TypeOK
  <2>37. ASSUME NEW w \in Workers, EndQuery(w)
        PROVE  UNCHANGED <<busy, gap, heavy_nodes>>
    BY <2>37 DEF EndQuery, Critical, TypeOK
  <2>38. CASE UNCHANGED vars
    BY <2>38 DEF vars
  <2> QED
    BY <2>1, <2>2, <2>3, <2>4, <2>5, <2>6, <2>7, <2>8, <2>9, <2>10, <2>11,
       <2>12, <2>13, <2>14, <2>15, <2>16, <2>17, <2>18, <2>19, <2>20, <2>21,
       <2>22, <2>23, <2>24, <2>25, <2>26, <2>27, <2>28, <2>29, <2>30, <2>31,
       <2>32, <2>33, <2>34, <2>35, <2>36, <2>37, <2>38
    DEF Next, Call, Step, Insert, JoinBatch, Relabel, Query, Finished
<1> QED
  BY <1>1, <1>2, <1>3, <1>4, <1>5, <1>6, <1>7

\* While nobody inserts during a relabel, OMBatch implements OrderLists.
LEMMA ApartIsAtomic ==
  Spec /\ []RelabelExcludesInserts => RelabelIsAtomic
<1>1. Init => Atomic!Init
  <2> SUFFICES ASSUME Init PROVE Atomic!Init
    OBVIOUS
  <2>1. {w \in Workers : pc[w] \in Critical} = {}
    BY DEF Init, Critical
  <2>2. UNION {heavy_nodes[o] : o \in Orders} = {}
    <3>1. \A o \in Orders : heavy_nodes[o] = {}
      BY DEF Init
    <3> QED
      BY <3>1
  <2>3. /\ StartGap \in 0 .. MaxGap
        /\ gap = [w \in Workers |-> [l \in Lists |-> StartGap]]
    BY GapAssumption DEF Init
  <2> QED
    BY <2>1, <2>2, <2>3 DEF Atomic!Init
<1>2. Inv /\ RelabelExcludesInserts /\ QueueInv /\ [Next]_vars
        => [Atomic!Next]_(Atomic!vars)
  BY AtomicStep DEF Inv
<1> QED
  BY <1>1, <1>2, InvHolds, QueueHolds, PTL
  DEF Spec, RelabelIsAtomic, Atomic!Spec

\* The protocol of insert, slow_path, join_batch and batch_relabel makes
\* relabelling indivisible: no insert sees or uses a part of it.
THEOREM RelabelIsIndivisible ==
  ASSUME ~CanSteal PROVE Spec => RelabelIsAtomic
<1> QED
  BY OwnerAloneIsSafe, ApartIsAtomic, PTL

\* With thieves relabelling is indivisible as well, if no owner begins with the
\* id of a batch that is over.
THEOREM CurrentOwnerIsAtomic ==
  Spec /\ []OwnerIsCurrent => RelabelIsAtomic
<1> QED
  BY CurrentOwnerIsSafe, ApartIsAtomic, PTL
=============================================================================
