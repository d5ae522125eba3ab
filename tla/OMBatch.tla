------------------------------ MODULE OMBatch ------------------------------
(***************************************************************************)
(* How PRacer's workers insert into the two order-maintenance (OM)         *)
(* structures and how a full list makes them start, join and leave a batch *)
(* relabel: rdtool/src/omrd.cpp on top of batched-piper/runtime/batcher.c. *)
(*                                                                         *)
(* Every worker inserts under a spin lock of its own.  An insert that      *)
(* finds no label queues its list as heavy and tries to become the owner   *)
(* of a batch: it takes g_relabel_mutex, then batch_lock, then the mutex   *)
(* of every worker, and runs batch_relabel, a fork-join task whose         *)
(* continuation the workers waiting in execute_batch may steal.  A worker  *)
(* that finds its own mutex taken joins the batch the same way, only to    *)
(* help.  Queries take no lock: they re-read g_relabel_id.                 *)
(*                                                                         *)
(* A label is abstracted to the room beside it: gap[w][l] is the number of *)
(* times the interval after worker w's base node in list l can still be    *)
(* halved (log2 of the label distance).                                    *)
(***************************************************************************)
EXTENDS Integers, FiniteSets

CONSTANTS
  P,             \* number of workers, __cilkrts_get_nworkers()
  EnglishLists,  \* the bottom lists of g_english
  HebrewLists,   \* the bottom lists of g_hebrew
  MaxGap,        \* the gap a relabel leaves (log2 NODE_INTERVAL)
  HeavyGap,      \* is_heavy: a smaller gap makes a list heavy
  StartGap,      \* the gap beside every base node at the start
  CanSteal,      \* whether a thief ever gets the continuation of a batch
  MaxInserts,    \* bound: inserts of each worker
  MaxQueries     \* bound: queries of each worker

Workers  == 0 .. P - 1
NoWorker == -1
English  == "english"
Hebrew   == "hebrew"
Orders   == {English, Hebrew}
Lists    == EnglishLists \cup HebrewLists
OrderOf(l) == IF l \in EnglishLists THEN English ELSE Hebrew

ASSUME PAssumption == P \in Nat \ {0}
ASSUME ListAssumption ==
  EnglishLists \cap HebrewLists = {} /\ Lists # {}
ASSUME GapAssumption ==
  /\ MaxGap \in Nat /\ HeavyGap \in Nat /\ StartGap \in Nat
  /\ HeavyGap < MaxGap
  /\ HeavyGap <= StartGap /\ StartGap <= MaxGap
ASSUME BoundAssumption ==
  /\ CanSteal \in BOOLEAN
  /\ MaxInserts \in [Workers -> Nat]
  /\ MaxQueries \in [Workers -> Nat]

VARIABLES
  pc,                \* where each worker's thread is
  target,            \* the list each worker's insert or query is about
  slow,              \* whether the insert is inside slow_path
  insert_failed,     \* __thread int insert_failed
  batch_id,          \* w->l->batch_id, -1 outside a batch
  worker_mutex,      \* holder of g_worker_mutexes[i].mut
  relabel_mutex,     \* owner of g_relabel_mutex
  batch_lock,        \* w->g->batch_lock: its lock word and its owner field
  cursor,            \* i of the loops over g_worker_mutexes
  batch_in_progress, \* g_batch_in_progress
  batch_owner_id,    \* g_batch_owner_id
  pending_id,        \* w->g->pending_batch.id
  relabel_id,        \* g_relabel_id
  gap,               \* room beside each worker's base node, per list
  heavy,             \* blist::heavy
  heavy_nodes,       \* m_heavy_nodes of each order
  torn,              \* lists an om_relabel has split and not yet replaced
  version,           \* relabels finished, per order (names a set of labels)
  cont,              \* the frame of batch_relabel, from its cilk_spawn on
  running,           \* the worker inside relabel(order)
  next_frame,        \* the worker whose l->next_frame_ff holds that frame
  query,             \* relabel_id and labels read by each worker's query
  inserts,           \* inserts started by each worker
  queries            \* queries started by each worker

lockVars  == <<worker_mutex, relabel_mutex, batch_lock, cursor,
               batch_in_progress, batch_owner_id>>
omVars    == <<gap, heavy, heavy_nodes, torn, version>>
frameVars == <<cont, running, next_frame>>
idVars    == <<pending_id, relabel_id>>
askVars   == <<query, queries>>
ownVars   == <<target, slow, insert_failed, batch_id, inserts>>
vars == <<pc, lockVars, omVars, frameVars, idVars, askVars, ownVars>>

----------------------------------------------------------------------------
(* Program counters, grouped by the locks a worker holds there.            *)

\* insert()/slow_path() between acquiring the worker's own mutex and
\* releasing it
Critical == {"try_insert", "mark", "add_heavy", "set_batch_id", "unlock"}

\* cilk_tool_om_try_lock_all after g_relabel_mutex was acquired
Gathering == {"set_owner", "set_owner_field", "lock_all"}

\* a worker inside cilk_batchify, the owner of the batch included
InBatch == {"relabel_begin", "relabel", "relabel_done", "relabel_end",
            "term_id", "term_owner", "term_lock",
            "help_id", "help_owner", "help_work", "leave"}

\* join_batch after the owner found its own id in g_batch_owner_id
Releasing == {"unlock_all"}

Joining == {"batchify", "try_start", "try_relabel_mutex"}
Asking  == {"ask", "read_x", "read_y", "ask_again"}
PCs == {"idle", "acquire"} \cup Critical \cup Joining \cup Gathering
         \cup InBatch \cup Releasing \cup Asking

\* What a query can have read: a labelling, lists in flux, nothing yet.
Torn    == -1
Unread  == -2
Labellings == Nat \cup {Torn, Unread}

TypeOK ==
  /\ pc \in [Workers -> PCs]
  /\ target \in [Workers -> Lists]
  /\ slow \in [Workers -> BOOLEAN]
  /\ insert_failed \in [Workers -> BOOLEAN]
  /\ batch_id \in [Workers -> Int]
  /\ worker_mutex \in [Workers -> Workers \cup {NoWorker}]
  /\ relabel_mutex \in Workers \cup {NoWorker}
  /\ batch_lock \in [lock : BOOLEAN, owner : Workers \cup {NoWorker}]
  /\ cursor \in 0 .. P
  /\ batch_in_progress \in BOOLEAN
  /\ batch_owner_id \in Workers \cup {NoWorker}
  /\ pending_id \in Nat
  /\ relabel_id \in Nat
  /\ gap \in [Workers -> [Lists -> 0 .. MaxGap]]
  /\ heavy \in [Lists -> BOOLEAN]
  /\ heavy_nodes \in [Orders -> SUBSET Lists]
  /\ torn \in [Orders -> SUBSET Lists]
  /\ version \in [Orders -> Nat]
  /\ cont \in {"none", "stealable", "popped", "taken", "at_sync", "synched"}
  /\ running \in [Orders -> Workers \cup {NoWorker}]
  /\ next_frame \in Workers \cup {NoWorker}
  /\ query \in [Workers -> [id : Nat, x : Labellings, y : Labellings]]
  /\ inserts \in [Workers -> Nat]
  /\ queries \in [Workers -> Nat]

Init ==
  /\ pc = [w \in Workers |-> "idle"]
  /\ target = [w \in Workers |-> CHOOSE l \in Lists : TRUE]
  /\ slow = [w \in Workers |-> FALSE]
  /\ insert_failed = [w \in Workers |-> FALSE]
  /\ batch_id = [w \in Workers |-> -1]
  /\ worker_mutex = [w \in Workers |-> NoWorker]
  /\ relabel_mutex = NoWorker
  /\ batch_lock = [lock |-> FALSE, owner |-> NoWorker]
  /\ cursor = 0
  /\ batch_in_progress = FALSE
  /\ batch_owner_id = NoWorker
  /\ pending_id = 0
  /\ relabel_id = 0
  /\ gap = [w \in Workers |-> [l \in Lists |-> StartGap]]
  /\ heavy = [l \in Lists |-> FALSE]
  /\ heavy_nodes = [o \in Orders |-> {}]
  /\ torn = [o \in Orders |-> {}]
  /\ version = [o \in Orders |-> 0]
  /\ cont = "none"
  /\ running = [o \in Orders |-> NoWorker]
  /\ next_frame = NoWorker
  /\ query = [w \in Workers |-> [id |-> 0, x |-> Unread, y |-> Unread]]
  /\ inserts = [w \in Workers |-> 0]
  /\ queries = [w \in Workers |-> 0]

Goto(w, from, to) ==
  /\ pc[w] = from
  /\ pc' = [pc EXCEPT ![w] = to]


----------------------------------------------------------------------------
(* omrd_t::insert and slow_path                                            *)

\* The user strand asks for a node after its base in list l.
StartInsert(w, l) ==
  /\ inserts[w] < MaxInserts[w]
  /\ Goto(w, "idle", "acquire")
  /\ target' = [target EXCEPT ![w] = l]
  /\ slow' = [slow EXCEPT ![w] = FALSE]
  /\ inserts' = [inserts EXCEPT ![w] = @ + 1]
  /\ UNCHANGED <<lockVars, omVars, frameVars, idVars, askVars,
                 insert_failed, batch_id>>

\* Fault: the result of pthread_spin_trylock is not tested.
LockOwnUntested(w) ==
  /\ Goto(w, "acquire", "try_insert")
  /\ worker_mutex' = [worker_mutex EXCEPT ![w] = w]
  /\ UNCHANGED <<relabel_mutex, batch_lock, cursor, batch_in_progress,
                 batch_owner_id, omVars, frameVars, idVars, askVars, ownVars>>

\* pthread_spin_trylock(mut) == 0
LockOwn(w) ==
  /\ worker_mutex[w] = NoWorker
  /\ Goto(w, "acquire", "try_insert")
  /\ worker_mutex' = [worker_mutex EXCEPT ![w] = w]
  /\ UNCHANGED <<relabel_mutex, batch_lock, cursor, batch_in_progress,
                 batch_owner_id, omVars, frameVars, idVars, askVars, ownVars>>

\* pthread_spin_trylock(mut) != 0: join the batch
OwnMutexTaken(w) ==
  /\ worker_mutex[w] # NoWorker
  /\ Goto(w, "acquire", "batchify")
  /\ UNCHANGED <<lockVars, omVars, frameVars, idVars, askVars, ownVars>>

\* try_insert returned a node: the new node and the base share the old gap.
\* The caller marks the list if the node is heavy, else unlocks.
InsertFits(w) ==
  LET l == target[w]
      room == gap[w][l] - 1
  IN /\ gap[w][l] > 0
     /\ Goto(w, "try_insert",
             IF ~heavy[l] /\ room < HeavyGap THEN "mark" ELSE "unlock")
     /\ gap' = [gap EXCEPT ![w][l] = room]
     /\ UNCHANGED <<lockVars, heavy, heavy_nodes, torn, version, frameVars,
                    idVars, askVars, ownVars>>

\* try_insert returned NULL: (another turn of) slow_path's loop
InsertFails(w) ==
  /\ gap[w][target[w]] = 0
  /\ Goto(w, "try_insert", "mark")
  /\ slow' = [slow EXCEPT ![w] = TRUE]
  /\ insert_failed' = [insert_failed EXCEPT ![w] = TRUE]
  /\ UNCHANGED <<lockVars, omVars, frameVars, idVars, askVars,
                 target, batch_id, inserts>>

\* slow_path records the pending batch, insert only unlocks
AfterMark(w) == IF insert_failed[w] THEN "set_batch_id" ELSE "unlock"

\* CAS(&base->list->heavy, 0, 1)
MarkHeavy(w) ==
  LET l == target[w]
  IN /\ Goto(w, "mark", IF heavy[l] THEN AfterMark(w) ELSE "add_heavy")
     /\ heavy' = [heavy EXCEPT ![l] = TRUE]
     /\ UNCHANGED <<lockVars, gap, heavy_nodes, torn, version, frameVars,
                    idVars, askVars, ownVars>>

\* Fault: the list is queued with the other structure.
AddHeavyElsewhere(w) ==
  LET l == target[w]
  IN /\ Goto(w, "add_heavy", AfterMark(w))
     /\ heavy_nodes' =
          [o \in Orders |-> heavy_nodes[o] \cup {k \in {l} : OrderOf(k) # o}]
     /\ UNCHANGED <<lockVars, gap, heavy, torn, version, frameVars,
                    idVars, askVars, ownVars>>

\* m_heavy_nodes.add(om_get_tl(base))
AddHeavy(w) ==
  LET l == target[w]
  IN /\ Goto(w, "add_heavy", AfterMark(w))
     /\ heavy_nodes' = [heavy_nodes EXCEPT ![OrderOf(l)] = @ \cup {l}]
     /\ UNCHANGED <<lockVars, gap, heavy, torn, version, frameVars,
                    idVars, askVars, ownVars>>

\* __cilkrts_set_batch_id(w)
SetBatchId(w) ==
  /\ Goto(w, "set_batch_id", "unlock")
  /\ batch_id' = [batch_id EXCEPT ![w] = pending_id]
  /\ UNCHANGED <<lockVars, omVars, frameVars, idVars, askVars,
                 target, slow, insert_failed, inserts>>

\* pthread_spin_unlock(mut): the insert is over, or has to start a batch
UnlockOwn(w) ==
  /\ Goto(w, "unlock", IF insert_failed[w] THEN "batchify" ELSE "idle")
  /\ worker_mutex' = [worker_mutex EXCEPT ![w] = NoWorker]
  /\ UNCHANGED <<relabel_mutex, batch_lock, cursor, batch_in_progress,
                 batch_owner_id, omVars, frameVars, idVars, askVars, ownVars>>

----------------------------------------------------------------------------
(* join_batch: cilk_batchify and cilk_tool_om_try_lock_all                 *)

\* switch_to_batch_deque, and the batch to wait for
Batchify(w) ==
  /\ Goto(w, "batchify", "try_start")
  /\ batch_id' = [batch_id EXCEPT ![w] = IF @ = -1 THEN pending_id ELSE @]
  /\ UNCHANGED <<lockVars, omVars, frameVars, idVars, askVars,
                 target, slow, insert_failed, inserts>>

\* only a failed insert contends, and only while no relabel runs
TryStart(w) ==
  /\ Goto(w, "try_start",
          IF insert_failed[w] /\ relabel_id % 2 = 0
            THEN "try_relabel_mutex" ELSE "help_id")
  /\ UNCHANGED <<lockVars, omVars, frameVars, idVars, askVars, ownVars>>

LockRelabel(w) ==
  /\ relabel_mutex = NoWorker
  /\ Goto(w, "try_relabel_mutex", "set_owner")
  /\ relabel_mutex' = w
  /\ UNCHANGED <<worker_mutex, batch_lock, cursor, batch_in_progress,
                 batch_owner_id, omVars, frameVars, idVars, askVars, ownVars>>

RelabelMutexTaken(w) ==
  /\ relabel_mutex # NoWorker
  /\ Goto(w, "try_relabel_mutex", "help_id")
  /\ UNCHANGED <<lockVars, omVars, frameVars, idVars, askVars, ownVars>>

\* cilk_set_next_batch_owner.  Where batch_lock is held its CILK_ASSERT ends
\* the program; here w waits, so what other workers do next is seen as well.
SetNextBatchOwner(w) ==
  /\ ~batch_lock.lock
  /\ Goto(w, "set_owner", "set_owner_field")
  /\ batch_lock' = [batch_lock EXCEPT !.lock = TRUE]
  /\ UNCHANGED <<worker_mutex, relabel_mutex, cursor, batch_in_progress,
                 batch_owner_id, omVars, frameVars, idVars, askVars, ownVars>>

SetOwnerField(w) ==
  /\ Goto(w, "set_owner_field", "lock_all")
  /\ batch_lock' = [batch_lock EXCEPT !.owner = w]
  /\ cursor' = 0
  /\ UNCHANGED <<worker_mutex, relabel_mutex, batch_in_progress,
                 batch_owner_id, omVars, frameVars, idVars, askVars, ownVars>>

\* pthread_spin_lock(&g_worker_mutexes[i].mut), its own mutex included
LockNext(w) ==
  /\ pc[w] = "lock_all"
  /\ cursor < P
  /\ worker_mutex[cursor] = NoWorker
  /\ worker_mutex' = [worker_mutex EXCEPT ![cursor] = w]
  /\ cursor' = cursor + 1
  /\ UNCHANGED <<pc, relabel_mutex, batch_lock, batch_in_progress,
                 batch_owner_id, omVars, frameVars, idVars, askVars, ownVars>>

\* Fault: the loop stops one mutex early.
AllButLastLocked(w) ==
  /\ cursor = P - 1
  /\ Goto(w, "lock_all", "relabel_begin")
  /\ batch_in_progress' = TRUE
  /\ batch_owner_id' = w
  /\ UNCHANGED <<worker_mutex, relabel_mutex, batch_lock, cursor, omVars,
                 frameVars, idVars, askVars, ownVars>>

AllLocked(w) ==
  /\ cursor = P
  /\ Goto(w, "lock_all", "relabel_begin")
  /\ batch_in_progress' = TRUE
  /\ batch_owner_id' = w
  /\ UNCHANGED <<worker_mutex, relabel_mutex, batch_lock, cursor, omVars,
                 frameVars, idVars, askVars, ownVars>>

----------------------------------------------------------------------------
(* The batch: batch_relabel as a fork-join task, then terminate_batch      *)

\* g_relabel_id++, and cilk_spawn relabel(g_english): the rest of
\* batch_relabel becomes stealable from this worker's batch deque
BeginRelabel(w) ==
  /\ Goto(w, "relabel_begin", "relabel")
  /\ relabel_id' = relabel_id + 1
  /\ cont' = "stealable"
  /\ running' = [running EXCEPT ![English] = w]
  /\ UNCHANGED <<lockVars, omVars, next_frame, pending_id, askVars, ownVars>>

\* relabel(o) with an empty m_heavy_nodes does nothing
NothingHeavy(w, o) ==
  /\ running[o] = w
  /\ heavy_nodes[o] = {} /\ torn[o] = {}
  /\ Goto(w, "relabel", "relabel_done")
  /\ UNCHANGED <<lockVars, omVars, frameVars, idVars, askVars, ownVars>>

\* om_relabel: split() frees the heavy lists; from here to the rebuilt tree
\* labels and list pointers of this order are in flux
SplitHeavy(w, o) ==
  /\ pc[w] = "relabel"
  /\ running[o] = w
  /\ torn[o] = {} /\ heavy_nodes[o] # {}
  /\ torn' = [torn EXCEPT ![o] = heavy_nodes[o]]
  /\ UNCHANGED <<pc, lockVars, gap, heavy, heavy_nodes, version, frameVars,
                 idVars, askVars, ownVars>>

\* om_relabel ends: the sublists (bl_new: not heavy) have room everywhere;
\* heavy_nodes->reset() forgets everything queued by now
Rebuild(w, o) ==
  /\ running[o] = w
  /\ torn[o] # {}
  /\ Goto(w, "relabel", "relabel_done")
  /\ gap' = [v \in Workers |->
               [l \in Lists |-> IF l \in torn[o] THEN MaxGap ELSE gap[v][l]]]
  /\ heavy' = [l \in Lists |-> heavy[l] /\ l \notin torn[o]]
  /\ heavy_nodes' = [heavy_nodes EXCEPT ![o] = {}]
  /\ torn' = [torn EXCEPT ![o] = {}]
  /\ version' = [version EXCEPT ![o] = @ + 1]
  /\ UNCHANGED <<lockVars, frameVars, idVars, askVars, ownVars>>

\* the spawned child returns and the continuation is still on the deque
PopContinuation(w) ==
  /\ running[English] = w /\ cont = "stealable"
  /\ Goto(w, "relabel_done", "relabel")
  /\ cont' = "popped"
  /\ running' = [running EXCEPT ![English] = NoWorker, ![Hebrew] = w]
  /\ UNCHANGED <<lockVars, omVars, next_frame, idVars, askVars, ownVars>>

\* cilk_sync in a frame nobody stole: nothing to wait for
PlainSync(w) ==
  /\ running[Hebrew] = w /\ cont = "popped"
  /\ Goto(w, "relabel_done", "relabel_end")
  /\ running' = [running EXCEPT ![Hebrew] = NoWorker]
  /\ UNCHANGED <<lockVars, omVars, cont, next_frame, idVars, askVars, ownVars>>

\* Fault: a worker whose share is done does not wait for the batch.
ChildReturnsHome(w) ==
  /\ running[English] = w /\ cont # "stealable"
  /\ Goto(w, "relabel_done", "leave")
  /\ cont' = IF cont = "at_sync" THEN "synched" ELSE cont
  /\ next_frame' = IF cont = "at_sync" THEN w ELSE next_frame
  /\ running' = [running EXCEPT ![English] = NoWorker]
  /\ UNCHANGED <<lockVars, omVars, idVars, askVars, ownVars>>

\* the child returns to a stolen parent: the last to arrive at the sync gets
\* the frame as its next one (provably good steal); either way the worker is
\* back in execute_batch's loop
ChildReturns(w) ==
  /\ running[English] = w /\ cont # "stealable"
  /\ Goto(w, "relabel_done", "help_id")
  /\ cont' = IF cont = "at_sync" THEN "synched" ELSE cont
  /\ next_frame' = IF cont = "at_sync" THEN w ELSE next_frame
  /\ running' = [running EXCEPT ![English] = NoWorker]
  /\ UNCHANGED <<lockVars, omVars, idVars, askVars, ownVars>>

\* cilk_sync in the stolen frame: suspends it, or gets it back as the next
\* frame if the child has returned
StolenSync(w) ==
  /\ running[Hebrew] = w /\ cont = "taken"
  /\ Goto(w, "relabel_done", "help_id")
  /\ cont' = IF running[English] = NoWorker THEN "synched" ELSE "at_sync"
  /\ next_frame' = IF running[English] = NoWorker THEN w ELSE next_frame
  /\ running' = [running EXCEPT ![Hebrew] = NoWorker]
  /\ UNCHANGED <<lockVars, omVars, idVars, askVars, ownVars>>

\* the second g_relabel_id++, by whichever worker passed the sync
EndRelabel(w) ==
  /\ Goto(w, "relabel_end", "term_id")
  /\ relabel_id' = relabel_id + 1
  /\ cont' = "none"
  /\ UNCHANGED <<lockVars, omVars, running, next_frame, pending_id, askVars,
                 ownVars>>

\* terminate_batch: three stores, in this order
TerminateId(w) ==
  /\ Goto(w, "term_id", "term_owner")
  /\ pending_id' = pending_id + 1
  /\ UNCHANGED <<lockVars, omVars, frameVars, relabel_id, askVars, ownVars>>

TerminateOwner(w) ==
  /\ Goto(w, "term_owner", "term_lock")
  /\ batch_lock' = [batch_lock EXCEPT !.owner = NoWorker]
  /\ UNCHANGED <<worker_mutex, relabel_mutex, cursor, batch_in_progress,
                 batch_owner_id, omVars, frameVars, idVars, askVars, ownVars>>

\* invoke_batch goes back to the scheduling fiber: execute_batch's loop, or
\* the core one for a worker that took the frame outside of a batch
BackToScheduler(w) == IF batch_id[w] = -1 THEN "idle" ELSE "help_id"

TerminateLock(w) ==
  /\ Goto(w, "term_lock", BackToScheduler(w))
  /\ batch_lock' = [batch_lock EXCEPT !.lock = FALSE]
  /\ UNCHANGED <<worker_mutex, relabel_mutex, cursor, batch_in_progress,
                 batch_owner_id, omVars, frameVars, idVars, askVars, ownVars>>

----------------------------------------------------------------------------
(* execute_batch: wait for the batch, stealing from it meanwhile           *)

HelpId(w) ==
  /\ Goto(w, "help_id",
          IF pending_id <= batch_id[w] THEN "help_owner" ELSE "leave")
  /\ UNCHANGED <<lockVars, omVars, frameVars, idVars, askVars, ownVars>>

\* Fault: the absence of a batch owner does not end the loop.
HelpOwnerless(w) ==
  /\ Goto(w, "help_owner", "help_work")
  /\ UNCHANGED <<lockVars, omVars, frameVars, idVars, askVars, ownVars>>

\* Fault: the owner does not wait for what thieves run of its batch.
HelpOwnerLeaves(w) ==
  /\ Goto(w, "help_owner",
          IF batch_lock.owner \in {w, NoWorker} THEN "leave" ELSE "help_work")
  /\ UNCHANGED <<lockVars, omVars, frameVars, idVars, askVars, ownVars>>

\* no batch owner: nothing to wait for
HelpOwner(w) ==
  /\ Goto(w, "help_owner",
          IF batch_lock.owner = NoWorker THEN "leave" ELSE "help_work")
  /\ UNCHANGED <<lockVars, omVars, frameVars, idVars, askVars, ownVars>>

\* Fault: next_frame_ff is not cleared.
ResumeKeepsFrame(w) ==
  /\ next_frame = w
  /\ pc[w] \in {"help_work", "idle"}
  /\ Goto(w, pc[w], "relabel_end")
  /\ UNCHANGED <<lockVars, omVars, frameVars, idVars, askVars, ownVars>>

\* pop_next_frame: go on after the cilk_sync of batch_relabel.  A frame left
\* behind in next_frame_ff is found by the core scheduling loop, once the
\* worker's strand has given the worker back to it.
ResumeFrame(w) ==
  /\ next_frame = w
  /\ pc[w] \in {"help_work", "idle"}
  /\ Goto(w, pc[w], "relabel_end")
  /\ next_frame' = NoWorker
  /\ UNCHANGED <<lockVars, omVars, cont, running, idVars, askVars, ownVars>>

\* check_for_work(w, STEAL_BATCH) takes the continuation of batch_relabel,
\* of whatever batch is under way by now
Steal(w) ==
  /\ CanSteal
  /\ next_frame # w
  /\ cont = "stealable"
  /\ Goto(w, "help_work", "relabel")
  /\ cont' = "taken"
  /\ running' = [running EXCEPT ![Hebrew] = w]
  /\ UNCHANGED <<lockVars, omVars, next_frame, idVars, askVars, ownVars>>

\* nothing found: another turn of the loop
FindNothing(w) ==
  /\ next_frame # w
  /\ Goto(w, "help_work", "help_id")
  /\ UNCHANGED <<lockVars, omVars, frameVars, idVars, askVars, ownVars>>

\* switch_to_core_deque, then join_batch's test of g_batch_owner_id: the
\* owner closes the batch and starts to unlock, a helper tries its own
\* mutex again (slow_path has reset insert_failed by then)
Leave(w) ==
  /\ Goto(w, "leave", IF batch_owner_id = w THEN "unlock_all" ELSE "acquire")
  /\ batch_id' = [batch_id EXCEPT ![w] = -1]
  /\ IF batch_owner_id = w
       THEN /\ batch_in_progress' = FALSE
            /\ batch_owner_id' = NoWorker
            /\ cursor' = 0
            /\ UNCHANGED insert_failed
       ELSE /\ insert_failed' = [insert_failed EXCEPT ![w] = FALSE]
            /\ UNCHANGED <<batch_in_progress, batch_owner_id, cursor>>
  /\ UNCHANGED <<worker_mutex, relabel_mutex, batch_lock, omVars, frameVars,
                 idVars, askVars, target, slow, inserts>>

\* Fault: the loop runs one mutex too far.
UnlockNextPastEnd(w) ==
  /\ pc[w] = "unlock_all"
  /\ cursor <= P
  /\ worker_mutex' = [worker_mutex EXCEPT ![cursor] = NoWorker]
  /\ cursor' = cursor + 1
  /\ UNCHANGED <<pc, relabel_mutex, batch_lock, batch_in_progress,
                 batch_owner_id, omVars, frameVars, idVars, askVars, ownVars>>

UnlockNext(w) ==
  /\ pc[w] = "unlock_all"
  /\ cursor < P
  /\ worker_mutex' = [worker_mutex EXCEPT ![cursor] = NoWorker]
  /\ cursor' = cursor + 1
  /\ UNCHANGED <<pc, relabel_mutex, batch_lock, batch_in_progress,
                 batch_owner_id, omVars, frameVars, idVars, askVars, ownVars>>

\* __cilkrts_mutex_unlock(w, &g_relabel_mutex); slow_path resets
\* insert_failed and tries its own mutex
UnlockRelabel(w) ==
  /\ cursor = P
  /\ Goto(w, "unlock_all", "acquire")
  /\ relabel_mutex' = NoWorker
  /\ insert_failed' = [insert_failed EXCEPT ![w] = FALSE]
  /\ UNCHANGED <<worker_mutex, batch_lock, cursor, batch_in_progress,
                 batch_owner_id, omVars, frameVars, idVars, askVars,
                 target, slow, batch_id, inserts>>

----------------------------------------------------------------------------
(* QUERY_START ... QUERY_END: om_precedes without a lock                   *)

\* What reading a label of order o sees now.
LabelsOf(o) == IF torn[o] # {} THEN Torn ELSE version[o]

\* The user strand compares two nodes of list l's order.
StartQuery(w, l) ==
  /\ queries[w] < MaxQueries[w]
  /\ Goto(w, "idle", "ask")
  /\ target' = [target EXCEPT ![w] = l]
  /\ queries' = [queries EXCEPT ![w] = @ + 1]
  /\ UNCHANGED <<lockVars, omVars, frameVars, idVars, query,
                 slow, insert_failed, batch_id, inserts>>

ReadRelabelId(w) ==
  /\ Goto(w, "ask", "read_x")
  /\ query' = [query EXCEPT ![w] = [id |-> relabel_id,
                                    x |-> Unread, y |-> Unread]]
  /\ UNCHANGED <<lockVars, omVars, frameVars, idVars, queries, ownVars>>

ReadX(w) ==
  /\ Goto(w, "read_x", "read_y")
  /\ query' = [query EXCEPT ![w].x = LabelsOf(OrderOf(target[w]))]
  /\ UNCHANGED <<lockVars, omVars, frameVars, idVars, queries, ownVars>>

ReadY(w) ==
  /\ Goto(w, "read_y", "ask_again")
  /\ query' = [query EXCEPT ![w].y = LabelsOf(OrderOf(target[w]))]
  /\ UNCHANGED <<lockVars, omVars, frameVars, idVars, queries, ownVars>>

\* Fault: an odd relabel_id is accepted as well.
AcceptsOdd(w) == query[w].id = relabel_id

\* (relabel_id & 0x1) == 0 && relabel_id == g_relabel_id
Accepts(w) == query[w].id % 2 = 0 /\ query[w].id = relabel_id

EndQuery(w) ==
  /\ Goto(w, "ask_again", IF Accepts(w) THEN "idle" ELSE "ask")
  /\ query' = [query EXCEPT ![w] = [id |-> 0, x |-> Unread, y |-> Unread]]
  /\ UNCHANGED <<lockVars, omVars, frameVars, idVars, queries, ownVars>>

----------------------------------------------------------------------------
Insert(w) ==
  \/ LockOwn(w) \/ OwnMutexTaken(w)
  \/ InsertFits(w) \/ InsertFails(w)
  \/ MarkHeavy(w) \/ AddHeavy(w) \/ SetBatchId(w) \/ UnlockOwn(w)

JoinBatch(w) ==
  \/ Batchify(w) \/ TryStart(w) \/ LockRelabel(w) \/ RelabelMutexTaken(w)
  \/ SetNextBatchOwner(w) \/ SetOwnerField(w) \/ LockNext(w) \/ AllLocked(w)
  \/ HelpId(w) \/ HelpOwner(w) \/ Steal(w) \/ FindNothing(w)
  \/ Leave(w) \/ UnlockNext(w) \/ UnlockRelabel(w)

Relabel(w) ==
  \/ BeginRelabel(w)
  \/ \E o \in Orders : NothingHeavy(w, o) \/ SplitHeavy(w, o) \/ Rebuild(w, o)
  \/ PopContinuation(w) \/ PlainSync(w) \/ ChildReturns(w)
  \/ StolenSync(w) \/ ResumeFrame(w) \/ EndRelabel(w)
  \/ TerminateId(w) \/ TerminateOwner(w) \/ TerminateLock(w)

Query(w) == ReadRelabelId(w) \/ ReadX(w) \/ ReadY(w) \/ EndQuery(w)

\* What worker w does by itself once the user strand has called the tool.
Step(w) == Insert(w) \/ JoinBatch(w) \/ Relabel(w) \/ Query(w)

\* What the user strand makes worker w do.
Call(w) == \E l \in Lists : StartInsert(w, l) \/ StartQuery(w, l)

\* The program is over: no strand has anything left to do.
Finished ==
  /\ \A w \in Workers :
       /\ pc[w] = "idle"
       /\ inserts[w] = MaxInserts[w] /\ queries[w] = MaxQueries[w]
  /\ UNCHANGED vars

Next == (\E w \in Workers : Call(w) \/ Step(w)) \/ Finished

Spec == Init /\ [][Next]_vars

\* Every worker is an OS thread the kernel keeps scheduling.
Fairness == \A w \in Workers : WF_vars(Step(w))
FairSpec == Spec /\ Fairness

----------------------------------------------------------------------------
(* Properties                                                              *)

\* The assertions of try_insert and add_heavy (g_batch_in_progress == 0): no
\* worker is inside an insert while a batch holds the worker mutexes.
NoInsertDuringBatch ==
  batch_in_progress => \A w \in Workers : pc[w] \notin Critical

\* No worker is inside an insert while labels are in flux: between the two
\* increments of g_relabel_id, and while om_relabel has a list split.  This
\* is what locking every worker mutex in cilk_tool_om_try_lock_all is for.
RelabelExcludesInserts ==
  (relabel_id % 2 = 1 \/ \E o \in Orders : torn[o] # {})
    => \A w \in Workers : pc[w] \notin Critical

\* The CILK_ASSERT of cilk_set_next_batch_owner: the worker that got
\* g_relabel_mutex finds batch_lock free.  A thief that ends the batch may still
\* hold it.
NextOwnerGetsBatchLock ==
  \A w \in Workers : pc[w] = "set_owner" => ~batch_lock.lock

\* Whoever begins a relabel, and a thief that takes part in it, waits for that
\* batch.  The code does not see to it: cilk_batchify keeps an id that slow_path
\* has stored, and a batch may end between the two.
OwnerIsCurrent ==
  \A w \in Workers : pc[w] = "relabel_begin" => pending_id <= batch_id[w]
ThiefIsCurrent ==
  \A w \in Workers : running[Hebrew] = w => pending_id <= batch_id[w]

\* What the next owner finds instead: batch_lock held by a worker that has
\* published the end of its batch in terminate_batch, and has nothing left to do
\* but to release it.
LockHeldAtEndOnly ==
  \A w \in Workers : pc[w] = "set_owner" /\ batch_lock.lock =>
    \E v \in Workers : pc[v] \in {"term_owner", "term_lock"}

\* As long as owners wait for their own batch, the id that terminate_batch stores
\* first is the only hole: no owner gives g_relabel_mutex back, whoever ends its
\* batch, before the relabel and the second increment of g_relabel_id are done.
CurrentOwnerOutlastsBatch == []OwnerIsCurrent => []LockHeldAtEndOnly

\* om_insert asserts base->list->above->below == base->list: an insert never
\* looks at a list that split() has taken apart and not yet replaced.
InsertFindsListWhole ==
  \A w \in Workers :
    pc[w] = "try_insert" => target[w] \notin torn[OrderOf(target[w])]

\* A batch answers every insert that failed before it: whoever waits with
\* insert_failed set has room again or its list is queued for this batch,
\* even if another worker won the CAS on blist::heavy.
BatchCoversFailedInserts ==
  batch_in_progress =>
    \A w \in Workers :
      LET l == target[w]
      IN insert_failed[w] => gap[w][l] > 0 \/ l \in heavy_nodes[OrderOf(l)]

\* A list flagged heavy is queued, or the worker that won the CAS is about
\* to queue it: a flag without an entry would never be cleared again.
HeavyListsAreQueued ==
  \A l \in Lists :
    heavy[l] <=> \/ l \in heavy_nodes[OrderOf(l)]
                 \/ \E w \in Workers : pc[w] = "add_heavy" /\ target[w] = l

\* A worker that goes back to user code has no frame of the batch left to run:
\* its next provably good steal asserts that l->next_frame_ff is empty.
NoFrameLeftBehind ==
  \A w \in Workers : pc[w] \notin InBatch => next_frame # w

\* Over any number of batches the frame is taken, as long as owner and thief wait
\* for the batch they run: the loop of execute_batch tests for the end of the batch
\* before pop_next_frame, and the frame was handed over before the test.
CurrentWorkersTakeFrame ==
  []OwnerIsCurrent /\ []ThiefIsCurrent => []NoFrameLeftBehind

\* A query whose g_relabel_id test succeeds has read all its labels from one
\* and the same labelling, and none from a list in flux.
AcceptedQueriesAreConsistent ==
  \A w \in Workers :
    pc[w] = "ask_again" /\ Accepts(w) =>
      query[w].x = query[w].y /\ query[w].x # Torn

\* Every insert returns, whatever batches it starts, joins or waits for.
InsertsReturn == \A w \in Workers : pc[w] = "acquire" ~> pc[w] = "idle"

\* The protocol makes relabelling indivisible: it implements OrderLists.
Atomic == INSTANCE OrderLists WITH
  busy   <- {w \in Workers : pc[w] \in Critical},
  room   <- gap,
  marked <- UNION {heavy_nodes[o] : o \in Orders}

RelabelIsAtomic == Atomic!Spec
=============================================================================
