--------------------------- MODULE AccessHistory ---------------------------
(***************************************************************************)
(* The access history of one 16-byte block (rdtool/src/mem_access.cpp) and *)
(* how it gets into shadow memory (shadow_mem.h, record_mem_helper).       *)
(*                                                                         *)
(* Per 4-byte grain the history keeps three strands: the last writer, the  *)
(* leftmost reader and the rightmost reader.  An access walks through the  *)
(* three arrays, compares itself with what it finds and stores itself.     *)
(* The comparisons take no lock; a store of the two nodes of a strand      *)
(* holds the array's spin lock.                                            *)
(*                                                                         *)
(* Strand s is the s-th in g_english and the place of s in g_hebrew is     *)
(* heb[s]: s precedes t in the dag if it does in both orders.  om_precedes *)
(* is one step here, which OMBatch shows of an accepted query.             *)
(***************************************************************************)
EXTENDS Integers, Sequences, FiniteSets

CONSTANTS
  NumStrands,  \* number of strands of the program
  Programs,    \* what a strand may do: sequences of accesses to the block
  MaxBusy      \* how many accesses can be under way at once (workers)

NumSlots == 4             \* MAX_GRAIN_SIZE / GRAIN_SIZE
Block    == 0 .. 15       \* the bytes of the block
Sizes    == {1, 2, 4, 8, 16}
Strands  == 1 .. NumStrands
NoStrand == 0
Arrays   == {"writer", "lreader", "rreader"}
Grain    == 0 .. NumSlots - 1
Accesses == [kind : {"read", "write"}, addr : Block, size : Sizes]

ASSUME StrandAssumption == NumStrands \in Nat /\ MaxBusy \in Nat \ {0}
\* the compiler's __tsan_read<n> and __tsan_write<n> get aligned addresses
ASSUME ProgramAssumption ==
  /\ Programs \subseteq Seq(Accesses)
  /\ \A p \in Programs : \A k \in DOMAIN p : p[k].addr % p[k].size = 0

VARIABLES
  heb,       \* place of each strand in g_hebrew
  prog,      \* the accesses each strand makes
  made,      \* how many of them it has begun
  pc,        \* where each strand's access is
  array,     \* the array it walks through
  i,         \* the grain it is at
  saw,       \* the english node it has read of that grain's entry
  table,     \* shadow_dir has a table for the block
  list,      \* the table has a MemAccessList_t for the block
  hist,      \* its three arrays: the two nodes of each entry
  lock,      \* holder of writer_lock, lreader_lock, rreader_lock
  racy       \* grains where a race was found

walk == <<array, i, saw>>
vars == <<heb, prog, made, pc, walk, table, list, hist, lock, racy>>

----------------------------------------------------------------------------
Precedes(s, t) == s < t /\ heb[s] < heb[t]
Parallel(s, t) == s # t /\ ~Precedes(s, t) /\ ~Precedes(t, s)

Access(s) == prog[s][made[s]]
Done(s)   == pc[s] = "idle" /\ made[s] = Len(prog[s])
Busy      == {s \in Strands : pc[s] # "idle"}

\* Fault: the offset in the block, not shifted to a grain.
ByteOffset(a) == a.addr

\* ADDR_TO_MEM_INDEX and SIZE_TO_NUM_GRAINS: the grains of an access
First(a)   == a.addr \div 4
Past(a)    == First(a) + a.size \div 4
Covered(a) == First(a) .. Past(a) - 1

Empty == [e |-> NoStrand, h |-> NoStrand]
Own(s) == [e |-> s, h |-> s]

\* Whether an access of this kind stores itself in the array ...
Updates(kind, ar) == (kind = "write") = (ar = "writer")
\* Fault: a write does not look at the rightmost reader.
ChecksLeftOnly(kind, ar) == ar = "writer" \/ (kind = "write" /\ ar = "lreader")

\* ... and whether it looks there for races
Checks(kind, ar) == kind = "write" \/ ar = "writer"

\* Fault: everything that does not precede s races with it.
RacesUnlessBefore(e, h, s) == ~(e < s /\ heb[h] < heb[s])

\* races_with: the entry <<e, h>> and strand s are ordered one way in
\* g_english and the other way in g_hebrew
RacesWith(e, h, s) == (e < s) = ~(heb[h] < heb[s])

\* Fault: a reader after the leftmost one does not replace it.
ReplacesLeftOnly(ar, e, h, s) ==
  CASE ar = "writer"  -> TRUE
    [] ar = "lreader" -> s < e
    [] ar = "rreader" -> e < s

\* the last writer regardless; is_leftmost; is_rightmost
Replaces(ar, e, h, s) ==
  CASE ar = "writer"  -> TRUE
    [] ar = "lreader" -> s < e \/ heb[h] < heb[s]
    [] ar = "rreader" -> e < s

TypeOK ==
  /\ heb \in [Strands -> Strands]
  /\ prog \in [Strands -> Programs]
  /\ made \in [Strands -> Nat]
  /\ \A s \in Strands : made[s] <= Len(prog[s]) /\ (made[s] = 0 => pc[s] = "idle")
  /\ pc \in [Strands -> {"idle", "find", "alloc", "insert", "load", "install",
                         "compare_e", "compare_h", "store_e", "store_h"}]
  /\ array \in [Strands -> Arrays]
  /\ i \in [Strands -> 0 .. NumSlots]
  /\ saw \in [Strands -> Strands \cup {NoStrand}]
  /\ table \in BOOLEAN /\ list \in BOOLEAN
  /\ hist \in [Arrays -> [Grain -> [e : Strands \cup {NoStrand},
                                     h : Strands \cup {NoStrand}]]]
  /\ lock \in [Arrays -> Strands \cup {NoStrand}]
  /\ racy \subseteq Grain

Init ==
  /\ heb \in {f \in [Strands -> Strands] :
                \A s, t \in Strands : f[s] = f[t] => s = t}
  /\ prog \in [Strands -> Programs]
  /\ made = [s \in Strands |-> 0]
  /\ pc = [s \in Strands |-> "idle"]
  /\ array = [s \in Strands |-> "writer"]
  /\ i = [s \in Strands |-> 0]
  /\ saw = [s \in Strands |-> NoStrand]
  /\ table = FALSE /\ list = FALSE
  /\ hist = [ar \in Arrays |-> [g \in Grain |-> Empty]]
  /\ lock = [ar \in Arrays |-> NoStrand]
  /\ racy = {}

Goto(s, from, to) == pc[s] = from /\ pc' = [pc EXCEPT ![s] = to]

----------------------------------------------------------------------------
(* record_mem_helper: find or create the block's history                   *)

\* The strand makes its next access.  The runtime starts a strand when all
\* strands before it have ended.
Begin(s) ==
  /\ made[s] < Len(prog[s])
  /\ Cardinality(Busy) < MaxBusy
  /\ \A t \in Strands : Precedes(t, s) => Done(t)
  /\ Goto(s, "idle", "find")
  /\ made' = [made EXCEPT ![s] = @ + 1]
  /\ UNCHANGED <<heb, prog, walk, table, list, hist, lock, racy>>

\* check_races_and_update_with_read/write begins at the first array
StartWalk(s) ==
  /\ array' = [array EXCEPT ![s] = "writer"]
  /\ i' = [i EXCEPT ![s] = First(Access(s))]
  /\ UNCHANGED saw

\* shadow_mem.find
Find(s) ==
  /\ Goto(s, "find", IF list THEN "load" ELSE "alloc")
  /\ StartWalk(s)
  /\ UNCHANGED <<heb, prog, made, table, list, hist, lock, racy>>

\* find_slot(key, true): a compare-and-swap installs the table once
AllocTable(s) ==
  /\ Goto(s, "alloc", "insert")
  /\ table' = TRUE
  /\ UNCHANGED <<heb, prog, made, walk, list, hist, lock, racy>>

\* the constructor fills the entries of the access, and shadow_mem.insert
\* wins: the access is over
InsertList(s) ==
  /\ ~list
  /\ Goto(s, "insert", "idle")
  /\ list' = TRUE
  /\ hist' = [ar \in Arrays |->
               [g \in Grain |->
                  IF Updates(Access(s).kind, ar) /\ g \in Covered(Access(s))
                    THEN Own(s) ELSE Empty]]
  /\ UNCHANGED <<heb, prog, made, walk, table, lock, racy>>

\* Fault: the loser of shadow_mem.insert takes its access for recorded.
InsertLostForgotten(s) ==
  /\ list
  /\ Goto(s, "insert", "idle")
  /\ UNCHANGED <<heb, prog, made, walk, table, list, hist, lock, racy>>

\* someone got to the slot first: check the access against its list
InsertLost(s) ==
  /\ list
  /\ Goto(s, "insert", "load")
  /\ UNCHANGED <<heb, prog, made, walk, table, list, hist, lock, racy>>

----------------------------------------------------------------------------
(* check_races_and_update_with_read and ..._with_write: the three loops    *)

Entry(s) == hist[array[s]][i[s]]

\* the next grain of the array, at the loop's test
NextGrain(s) == i' = [i EXCEPT ![s] = @ + 1] /\ UNCHANGED <<array, saw>>

\* the pointer in the array is NULL: install an entry, or there is nothing
\* to compare with
LoadNull(s) ==
  /\ pc[s] = "load" /\ i[s] < Past(Access(s)) /\ Entry(s) = Empty
  /\ IF Updates(Access(s).kind, array[s])
       THEN Goto(s, "load", "install") /\ UNCHANGED walk
       ELSE NextGrain(s) /\ UNCHANGED pc
  /\ UNCHANGED <<heb, prog, made, table, list, hist, lock, racy>>

Load(s) ==
  /\ Goto(s, "load", "compare_e")
  /\ i[s] < Past(Access(s)) /\ Entry(s) # Empty
  /\ UNCHANGED <<heb, prog, made, walk, table, list, hist, lock, racy>>

\* under the lock, and tested again: the entry is still missing
Install(s) ==
  /\ Goto(s, "install", "load")
  /\ lock[array[s]] = NoStrand /\ Entry(s) = Empty
  /\ hist' = [hist EXCEPT ![array[s]][i[s]] = Own(s)]
  /\ NextGrain(s)
  /\ UNCHANGED <<heb, prog, made, table, list, lock, racy>>

\* some other strand installed one: go on with that
InstallLost(s) ==
  /\ Goto(s, "install", "compare_e")
  /\ lock[array[s]] = NoStrand /\ Entry(s) # Empty
  /\ UNCHANGED <<heb, prog, made, walk, table, list, hist, lock, racy>>

\* om_precedes of the english nodes
CompareE(s) ==
  /\ Goto(s, "compare_e", "compare_h")
  /\ saw' = [saw EXCEPT ![s] = Entry(s).e]
  /\ UNCHANGED <<heb, prog, made, array, i, table, list, hist, lock, racy>>

\* om_precedes of the hebrew nodes, and what follows from both: a race is
\* reported, the entry is replaced or kept
CompareH(s) ==
  LET h    == Entry(s).h
      kind == Access(s).kind
  IN /\ pc[s] = "compare_h"
     /\ racy' = IF Checks(kind, array[s]) /\ RacesWith(saw[s], h, s)
                  THEN racy \cup {i[s]} ELSE racy
     /\ IF Updates(kind, array[s]) /\ Replaces(array[s], saw[s], h, s)
          THEN Goto(s, "compare_h", "store_e") /\ UNCHANGED walk
          ELSE Goto(s, "compare_h", "load") /\ NextGrain(s)
     /\ UNCHANGED <<heb, prog, made, table, list, hist, lock>>

\* Fault: update_acc_info without the lock.
StoreEUnlocked(s) ==
  /\ Goto(s, "store_e", "store_h")
  /\ lock' = [lock EXCEPT ![array[s]] = s]
  /\ hist' = [hist EXCEPT ![array[s]][i[s]] = [e |-> s, h |-> @.h]]
  /\ UNCHANGED <<heb, prog, made, walk, table, list, racy>>

\* update_acc_info under the array's lock: first the english node ...
StoreE(s) ==
  /\ lock[array[s]] = NoStrand
  /\ Goto(s, "store_e", "store_h")
  /\ lock' = [lock EXCEPT ![array[s]] = s]
  /\ hist' = [hist EXCEPT ![array[s]][i[s]] = [e |-> s, h |-> @.h]]
  /\ UNCHANGED <<heb, prog, made, walk, table, list, racy>>

\* ... then the hebrew one
StoreH(s) ==
  /\ Goto(s, "store_h", "load")
  /\ hist' = [hist EXCEPT ![array[s]][i[s]] = [e |-> @.e, h |-> s]]
  /\ lock' = [lock EXCEPT ![array[s]] = NoStrand]
  /\ NextGrain(s)
  /\ UNCHANGED <<heb, prog, made, table, list, racy>>

After == [writer |-> "lreader", lreader |-> "rreader"]

\* the loop over the grains ends: on to the next array
NextArray(s) ==
  /\ pc[s] = "load" /\ i[s] >= Past(Access(s)) /\ array[s] # "rreader"
  /\ array' = [array EXCEPT ![s] = After[@]]
  /\ i' = [i EXCEPT ![s] = First(Access(s))]
  /\ UNCHANGED <<heb, prog, made, pc, saw, table, list, hist, lock, racy>>

\* ... or the access is over
End(s) ==
  /\ Goto(s, "load", "idle")
  /\ i[s] >= Past(Access(s)) /\ array[s] = "rreader"
  /\ UNCHANGED <<heb, prog, made, walk, table, list, hist, lock, racy>>

----------------------------------------------------------------------------
Record(s) == Find(s) \/ AllocTable(s) \/ InsertList(s) \/ InsertLost(s)

Walk(s) ==
  \/ LoadNull(s) \/ Load(s) \/ Install(s) \/ InstallLost(s)
  \/ CompareE(s) \/ CompareH(s) \/ StoreE(s) \/ StoreH(s)
  \/ NextArray(s) \/ End(s)

Finished == (\A s \in Strands : Done(s)) /\ UNCHANGED vars

Next == (\E s \in Strands : Begin(s) \/ Record(s) \/ Walk(s)) \/ Finished

Spec == Init /\ [][Next]_vars

----------------------------------------------------------------------------
(* Properties                                                              *)

Bytes(a) == a.addr .. a.addr + a.size - 1

\* Two accesses race: parallel strands, a common byte, one of them a write.
Conflict(a, b) == (a.kind = "write" \/ b.kind = "write") /\ Bytes(a) \cap Bytes(b) # {}

Begun(s) == {prog[s][k] : k \in 1 .. made[s]}
Quiet == Busy = {}

\* Strand t has begun an access to grain g that array ar is to keep.
Touched(ar, g, t) ==
  \E a \in Begun(t) : Updates(a.kind, ar) /\ g \in Covered(a)

\* What races_with answers is never a false alarm: when it is about to say
\* "race", the entry's array keeps accesses of some strand that really is
\* parallel and did touch the grain, even if the two nodes it compared with
\* were stored by two different strands.
NoFalseAlarm ==
  \A s \in Strands :
    /\ pc[s] = "compare_h" /\ Checks(Access(s).kind, array[s])
    /\ RacesWith(saw[s], Entry(s).h, s)
    => \E t \in Strands : Parallel(s, t) /\ Touched(array[s], i[s], t)

\* No race goes unnoticed: whenever no access is under way, every byte two
\* accesses so far race on lies in a grain where a race was found.
RacesAreFound ==
  Quiet => \A s, t \in Strands :
    Parallel(s, t) =>
      \A a \in Begun(s), b \in Begun(t) : Conflict(a, b) =>
        \E x \in Bytes(a) \cap Bytes(b) : x \div 4 \in racy

\* The two reader entries bracket all readers so far: none comes after the
\* left one in g_hebrew nor after the right one in g_english.
ReadersAreExtreme ==
  Quiet => \A g \in Grain, t \in Strands :
    Touched("lreader", g, t) =>
      heb[t] <= heb[hist["lreader"][g].h] /\ t <= hist["rreader"][g].e

\* Outside update_acc_info the two nodes of an entry belong to one strand.
EntriesAreWhole ==
  \A ar \in Arrays, g \in Grain :
    lock[ar] = NoStrand => hist[ar][g].e = hist[ar][g].h

\* A recorded access stays represented, whoever installed the history or
\* replaced its entry meanwhile: outside update_acc_info the entry is there
\* and is not one of a strand before the one that made the access.
AccessesAreKept ==
  \A t \in Strands, ar \in Arrays, g \in Grain :
    pc[t] = "idle" /\ Touched(ar, g, t) /\ lock[ar] = NoStrand =>
      hist[ar][g] # Empty /\ ~Precedes(hist[ar][g].e, t)
=============================================================================
