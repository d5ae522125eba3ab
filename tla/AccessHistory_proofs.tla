------------------------ MODULE AccessHistory_proofs ------------------------
(***************************************************************************)
(* Theorems about AccessHistory, for any number of strands, any programs   *)
(* of aligned accesses and any number of workers: the state stays well     *)
(* typed, an unlocked entry belongs to one strand, a race that is reported *)
(* is one, and a recorded access stays represented.  The last two are not  *)
(* obvious: races_with takes no lock, so the two nodes it compares with    *)
(* may come from two strands, and what it decides to keep may be replaced. *)
(***************************************************************************)
EXTENDS AccessHistory, TLAPS

----------------------------------------------------------------------------
(* The inductive invariant                                                 *)

\* Both orders are total, and a strand begins when those before it ended.
DagOrder ==
  /\ \A s, t \in Strands : heb[s] = heb[t] => s = t
  /\ \A s, t \in Strands : Precedes(t, s) /\ made[s] > 0 => Done(t)

\* Nobody is past shadow_mem.insert before there is a list.
Unlisted ==
  ~list => \A s \in Strands : pc[s] \in {"idle", "find", "alloc", "insert"}

AtEntry == {"install", "compare_e", "compare_h", "store_e", "store_h"}

\* A walk stays on the grains of its access, and stores where it may.
OnItsGrains ==
  \A s \in Strands :
    /\ pc[s] \in {"alloc", "insert", "load"} => First(Access(s)) <= i[s]
    /\ pc[s] \in AtEntry => i[s] \in Covered(Access(s))
    /\ pc[s] \in {"install", "store_e", "store_h"} =>
         Updates(Access(s).kind, array[s])

\* The lock of an array is held by the strand that stores into it.
LocksHeld ==
  /\ \A s \in Strands : pc[s] = "store_h" =>
       lock[array[s]] = s /\ Entry(s).e = s
  /\ \A ar \in Arrays : lock[ar] # NoStrand =>
       pc[lock[ar]] = "store_h" /\ array[lock[ar]] = ar

\* Both nodes of an entry come from strands that touched the grain; they
\* differ only in the entry that is being stored.
Kept(ar, g) ==
  /\ hist[ar][g].e = NoStrand <=> hist[ar][g].h = NoStrand
  /\ hist[ar][g].e # NoStrand =>
       Touched(ar, g, hist[ar][g].e) /\ Touched(ar, g, hist[ar][g].h)
  /\ hist[ar][g].e # hist[ar][g].h =>
       /\ lock[ar] # NoStrand
       /\ i[lock[ar]] = g
       /\ hist[ar][g].e = lock[ar]

EntriesTouched == \A ar \in Arrays, g \in Grain : Kept(ar, g)

\* Between its two comparisons a strand remembers the english node of some
\* strand that touched the grain.  If one of the two nodes is its own, the
\* other is its own too or comes from a parallel strand.
Compared(s) ==
  /\ pc[s] \in AtEntry \ {"install"} => Entry(s).e # NoStrand
  /\ pc[s] = "compare_h" =>
       /\ saw[s] # NoStrand
       /\ Touched(array[s], i[s], saw[s])
       /\ saw[s] = s => Entry(s).h = s \/ Parallel(s, Entry(s).h)
       /\ Entry(s).h = s => saw[s] = s \/ Parallel(s, saw[s])

NodesCompared == \A s \in Strands : Compared(s)

Inv ==
  /\ TypeOK
  /\ DagOrder
  /\ Unlisted
  /\ OnItsGrains
  /\ LocksHeld
  /\ EntriesTouched
  /\ NodesCompared

----------------------------------------------------------------------------
(* Accesses and grains                                                     *)

\* The access a strand has begun is one the compiler makes: aligned, inside
\* the block.
LEMMA AccessBegun ==
  ASSUME TypeOK, NEW s \in Strands, made[s] > 0
  PROVE  /\ Access(s) \in Accesses
         /\ Access(s).addr % Access(s).size = 0
         /\ Access(s) \in Begun(s)
<1>1. prog[s] \in Programs /\ made[s] \in 1 .. Len(prog[s])
  BY DEF TypeOK
<1>2. prog[s] \in Seq(Accesses)
  BY <1>1, ProgramAssumption
<1>3. made[s] \in DOMAIN prog[s] /\ made[s] \in 1 .. made[s]
  BY <1>1, <1>2
<1> QED
  BY <1>1, <1>2, <1>3, ProgramAssumption DEF Access, Begun

\* The grains of an aligned access are grains of the block.
LEMMA GrainsInBlock ==
  ASSUME NEW a \in Accesses, a.addr % a.size = 0
  PROVE  First(a) \in Grain /\ Past(a) \in 0 .. NumSlots
<1>1. /\ a.addr \in 0 .. 15
      /\ a.size = 1 \/ a.size = 2 \/ a.size = 4 \/ a.size = 8 \/ a.size = 16
  BY DEF Accesses, Block, Sizes
<1>2. First(a) \in Grain
  BY <1>1 DEF First, Grain, NumSlots
<1>3. CASE a.size = 1 \/ a.size = 2
  <2>1. a.size \div 4 = 0
    BY <1>3
  <2> QED
    BY <1>1, <1>2, <2>1 DEF First, Past, Grain, NumSlots
<1>4. CASE a.size = 4
  BY <1>1, <1>4 DEF First, Past, Grain, NumSlots
<1>5. CASE a.size = 8
  BY <1>1, <1>5 DEF First, Past, Grain, NumSlots
<1>6. CASE a.size = 16
  BY <1>1, <1>6 DEF First, Past, Grain, NumSlots
<1> QED
  BY <1>1, <1>2, <1>3, <1>4, <1>5, <1>6

\* A strand that works on an access has begun it, and covers grains only.
LEMMA Working ==
  ASSUME TypeOK, NEW s \in Strands, pc[s] # "idle"
  PROVE  /\ made[s] > 0
         /\ Access(s) \in Begun(s)
         /\ First(Access(s)) \in Grain
         /\ Past(Access(s)) \in 0 .. NumSlots
         /\ Covered(Access(s)) \subseteq Grain
<1>1. made[s] > 0
  BY DEF TypeOK
<1>2. /\ Access(s) \in Accesses
      /\ Access(s).addr % Access(s).size = 0
      /\ Access(s) \in Begun(s)
  BY <1>1, AccessBegun
<1>3. First(Access(s)) \in Grain /\ Past(Access(s)) \in 0 .. NumSlots
  BY <1>2, GrainsInBlock
<1> QED
  BY <1>1, <1>2, <1>3 DEF Covered, Grain, NumSlots

----------------------------------------------------------------------------
(* Every step keeps the invariant                                          *)

\* A step on the way stays well typed: an index never leaves the block.
LEMMA TypeStep == TypeOK /\ OnItsGrains /\ [Next]_vars => TypeOK'
<1> SUFFICES ASSUME TypeOK, OnItsGrains, [Next]_vars
             PROVE  TypeOK'
  OBVIOUS
<1>1. ASSUME NEW s \in Strands, Begin(s) PROVE TypeOK'
  <2>1. prog[s] \in Seq(Accesses)
    BY ProgramAssumption DEF TypeOK
  <2>2. made[s] + 1 <= Len(prog[s]) /\ made[s] + 1 \in Nat
    BY <1>1, <2>1 DEF Begin, TypeOK
  <2> QED
    BY <1>1, <2>2 DEF Begin, Goto, walk, TypeOK
<1>2. ASSUME NEW s \in Strands, Record(s) PROVE TypeOK'
  <2>1. pc[s] # "idle"
    BY <1>2 DEF Record, Find, AllocTable, InsertList, InsertLost, Goto
  <2>2. First(Access(s)) \in 0 .. NumSlots /\ made[s] # 0
    BY <2>1, Working DEF Grain, NumSlots
  <2>3. CASE Find(s)
    BY <2>2, <2>3 DEF Find, StartWalk, Goto, Arrays, TypeOK
  <2>4. CASE AllocTable(s)
    BY <2>2, <2>4 DEF AllocTable, Goto, walk, TypeOK
  <2>5. CASE InsertList(s)
    BY <2>2, <2>5 DEF InsertList, Goto, walk, Own, Empty, TypeOK
  <2>6. CASE InsertLost(s)
    BY <2>2, <2>6 DEF InsertLost, Goto, walk, TypeOK
  <2> QED
    BY <1>2, <2>3, <2>4, <2>5, <2>6 DEF Record
<1>3. ASSUME NEW s \in Strands, Walk(s) PROVE TypeOK'
  <2>1. pc[s] # "idle"
    BY <1>3 DEF Walk, LoadNull, Load, Install, InstallLost, CompareE,
                CompareH, StoreE, StoreH, NextArray, End, Goto
  <2>2. /\ made[s] # 0
        /\ First(Access(s)) \in 0 .. NumSlots
        /\ Past(Access(s)) \in 0 .. NumSlots
        /\ Covered(Access(s)) \subseteq Grain
    BY <2>1, Working DEF Grain, NumSlots
  <2>3. /\ i \in [Strands -> 0 .. NumSlots]
        /\ i[s] \in 0 .. NumSlots /\ array[s] \in Arrays
    BY DEF TypeOK
  <2>4. CASE LoadNull(s)
    <3>1. i[s] < Past(Access(s)) /\ (walk' = walk \/ NextGrain(s))
      BY <2>4 DEF LoadNull
    <3>2. i[s] + 1 \in 0 .. NumSlots
      BY <2>2, <2>3, <3>1 DEF NumSlots
    <3>3. i' \in [Strands -> 0 .. NumSlots] /\ array' = array /\ saw' = saw
      BY <2>3, <3>1, <3>2 DEF NextGrain, walk
    <3> QED
      BY <2>2, <2>4, <3>3 DEF LoadNull, Goto, TypeOK
  <2>5. CASE Load(s)
    BY <2>2, <2>5 DEF Load, Goto, walk, TypeOK
  <2>6. CASE Install(s)
    <3>1. i[s] \in Grain
      BY <2>2, <2>6 DEF Install, Goto, OnItsGrains, AtEntry
    <3> QED
      BY SMTT(60), <2>2, <2>3, <2>6, <3>1 DEF Install, NextGrain, Goto, Own, Grain, NumSlots, TypeOK
  <2>7. CASE InstallLost(s)
    BY <2>2, <2>7 DEF InstallLost, Goto, walk, TypeOK
  <2>8. CASE CompareE(s)
    <3>1. i[s] \in Grain
      BY <2>2, <2>8 DEF CompareE, Goto, OnItsGrains, AtEntry
    <3> QED
      BY <2>2, <2>3, <2>8, <3>1 DEF CompareE, Goto, Entry, TypeOK
  <2>9. CASE CompareH(s)
    <3>1. i[s] \in Grain
      BY <2>2, <2>9 DEF CompareH, Goto, OnItsGrains, AtEntry
    <3>2. racy' \subseteq Grain
      BY <2>9, <3>1 DEF CompareH, TypeOK
    <3>3. \/ walk' = walk /\ Goto(s, "compare_h", "store_e")
          \/ NextGrain(s) /\ Goto(s, "compare_h", "load")
      BY <2>9 DEF CompareH
    <3>4. UNCHANGED <<heb, prog, made, table, list, hist, lock>>
      BY <2>9 DEF CompareH
    <3>5. i[s] + 1 \in 0 .. NumSlots
      BY <3>1 DEF Grain, NumSlots
    <3>6. /\ i' \in [Strands -> 0 .. NumSlots]
          /\ array' = array /\ saw' = saw
      BY <2>3, <3>3, <3>5 DEF NextGrain, walk
    <3> QED
      BY <2>2, <3>2, <3>3, <3>4, <3>6 DEF Goto, TypeOK
  <2>10. CASE StoreE(s)
    <3>1. i[s] \in Grain
      BY <2>2, <2>10 DEF StoreE, Goto, OnItsGrains, AtEntry
    <3> QED
      BY <2>2, <2>3, <2>10, <3>1 DEF StoreE, Goto, walk, TypeOK
  <2>11. CASE StoreH(s)
    <3>1. i[s] \in Grain
      BY <2>2, <2>11 DEF StoreH, Goto, OnItsGrains, AtEntry
    <3> QED
      BY <2>2, <2>3, <2>11, <3>1, SMTT(60)
      DEF StoreH, NextGrain, Goto, Grain, NumSlots, TypeOK
  <2>12. CASE NextArray(s)
    BY SMTT(60), <2>2, <2>3, <2>12 DEF NextArray, After, Arrays, TypeOK
  <2>13. CASE End(s)
    BY <2>2, <2>13 DEF End, Goto, walk, TypeOK
  <2> QED
    BY <1>3, <2>4, <2>5, <2>6, <2>7, <2>8, <2>9, <2>10, <2>11, <2>12, <2>13
       DEF Walk
<1>4. ASSUME UNCHANGED vars PROVE TypeOK'
  BY <1>4 DEF vars, walk, TypeOK
<1> QED
  BY <1>1, <1>2, <1>3, <1>4 DEF Next, Finished

\* A step other than Begin is one strand's, which is busy, and moves only it.
LEMMA OneMoves ==
  ASSUME TypeOK, NEW s \in Strands, Record(s) \/ Walk(s)
  PROVE  /\ pc[s] # "idle"
         /\ UNCHANGED <<heb, prog, made>>
         /\ \A t \in Strands \ {s} :
              /\ pc'[t] = pc[t] /\ array'[t] = array[t]
              /\ i'[t] = i[t] /\ saw'[t] = saw[t]
<1>1. CASE Record(s)
  BY <1>1 DEF Record, Find, AllocTable, InsertList, InsertLost, StartWalk,
              Goto, walk, TypeOK
<1>2. CASE Walk(s)
  <2>1. CASE LoadNull(s) \/ Load(s) \/ Install(s) \/ InstallLost(s)
    BY <2>1 DEF LoadNull, Load, Install, InstallLost, NextGrain, Goto, walk, TypeOK
  <2>2. CASE CompareE(s) \/ CompareH(s)
    BY <2>2 DEF CompareE, CompareH, NextGrain, Goto, walk, TypeOK
  <2>3. CASE StoreE(s) \/ StoreH(s)
    BY <2>3 DEF StoreE, StoreH, NextGrain, Goto, walk, TypeOK
  <2>4. CASE NextArray(s) \/ End(s)
    BY <2>4 DEF NextArray, End, Goto, walk, TypeOK
  <2> QED
    BY <1>2, <2>1, <2>2, <2>3, <2>4 DEF Walk
<1> QED
  BY <1>1, <1>2

\* Two strands that work on accesses at once are parallel.
LEMMA BusyParallel ==
  ASSUME TypeOK, DagOrder, NEW s \in Strands, NEW t \in Strands, s # t,
         pc[s] # "idle", pc[t] # "idle"
  PROVE  Parallel(s, t)
<1>1. made[s] > 0 /\ made[t] > 0
  BY Working
<1> QED
  BY <1>1 DEF DagOrder, Done, Parallel

\* A strand that begins comes after strands that have ended, and a strand
\* that has ended does not move.
LEMMA DagStep == TypeOK /\ DagOrder /\ [Next]_vars => DagOrder'
<1> SUFFICES ASSUME TypeOK, DagOrder, [Next]_vars
             PROVE  DagOrder'
  OBVIOUS
<1>1. ASSUME NEW s \in Strands, Begin(s) PROVE DagOrder'
  <2>1. /\ heb' = heb /\ prog' = prog
        /\ made[s] < Len(prog[s])
        /\ \A t \in Strands : Precedes(t, s) => Done(t)
        /\ \A t \in Strands \ {s} : pc'[t] = pc[t] /\ made'[t] = made[t]
    BY <1>1 DEF Begin, Goto, TypeOK
  <2>2. ~Done(s)
    BY <2>1 DEF Done, TypeOK
  <2>3. ASSUME NEW t \in Strands, Done(t) PROVE Done(t)'
    BY <2>1, <2>2, <2>3 DEF Done
  <2>4. ASSUME NEW u \in Strands, NEW t \in Strands,
               Precedes(t, u)', made'[u] > 0
        PROVE  Done(t)
    <3>1. Precedes(t, u)
      BY <2>1, <2>4 DEF Precedes
    <3>2. CASE u = s
      BY <2>1, <3>1, <3>2
    <3>3. CASE u # s
      BY <2>1, <2>4, <3>1, <3>3 DEF DagOrder
    <3> QED
      BY <3>2, <3>3
  <2> QED
    BY <2>1, <2>3, <2>4 DEF DagOrder
<1>2. ASSUME NEW s \in Strands, Record(s) \/ Walk(s) PROVE DagOrder'
  <2>1. /\ pc[s] # "idle" /\ UNCHANGED <<heb, prog, made>>
        /\ \A t \in Strands \ {s} : pc'[t] = pc[t]
    BY <1>2, OneMoves
  <2>2. ASSUME NEW t \in Strands, Done(t) PROVE Done(t)'
    BY <2>1, <2>2 DEF Done
  <2> QED
    BY <2>1, <2>2 DEF DagOrder, Precedes
<1>3. ASSUME UNCHANGED vars PROVE DagOrder'
  BY <1>3 DEF vars, DagOrder, Precedes, Done
<1> QED
  BY <1>1, <1>2, <1>3 DEF Next, Finished

\* The list is there before anyone walks through it.
LEMMA UnlistedStep == TypeOK /\ Unlisted /\ [Next]_vars => Unlisted'
<1> SUFFICES ASSUME TypeOK, Unlisted, [Next]_vars
             PROVE  Unlisted'
  OBVIOUS
<1>1. ASSUME NEW s \in Strands, Begin(s) PROVE Unlisted'
  BY <1>1 DEF Begin, Goto, Unlisted, TypeOK
<1>2. ASSUME NEW s \in Strands, Record(s) PROVE Unlisted'
  BY <1>2 DEF Record, Find, AllocTable, InsertList, InsertLost, Goto,
              Unlisted, TypeOK
<1>3. ASSUME NEW s \in Strands, Walk(s) PROVE Unlisted'
  <2>1. list
    BY <1>3 DEF Walk, LoadNull, Load, Install, InstallLost, CompareE,
                CompareH, StoreE, StoreH, NextArray, End, Goto, Unlisted
  <2>2. list' = list
    BY <1>3 DEF Walk, LoadNull, Load, Install, InstallLost, CompareE,
                CompareH, StoreE, StoreH, NextArray, End
  <2> QED
    BY <2>1, <2>2 DEF Unlisted
<1>4. ASSUME UNCHANGED vars PROVE Unlisted'
  BY <1>4 DEF vars, Unlisted
<1> QED
  BY <1>1, <1>2, <1>3, <1>4 DEF Next, Finished

\* A strand enters a loop at its first grain and leaves it after the last.
LEMMA GrainsStep == TypeOK /\ OnItsGrains /\ [Next]_vars => OnItsGrains'
<1> SUFFICES ASSUME TypeOK, OnItsGrains, [Next]_vars
             PROVE  OnItsGrains'
  OBVIOUS
<1>1. ASSUME NEW s \in Strands, Begin(s) PROVE OnItsGrains'
  <2>1. /\ pc'[s] = "find" /\ prog' = prog /\ walk' = walk
        /\ \A t \in Strands \ {s} : pc'[t] = pc[t] /\ made'[t] = made[t]
    BY <1>1 DEF Begin, Goto, TypeOK
  <2> QED
    BY <2>1 DEF OnItsGrains, AtEntry, Access, walk
<1>2. ASSUME NEW s \in Strands, Record(s) \/ Walk(s) PROVE OnItsGrains'
  <2>1. /\ pc[s] # "idle" /\ UNCHANGED <<heb, prog, made>>
        /\ \A t \in Strands \ {s} :
             pc'[t] = pc[t] /\ array'[t] = array[t] /\ i'[t] = i[t]
    BY <1>2, OneMoves
  <2>2. Access(s)' = Access(s)
    BY <2>1 DEF Access
  <2>3. First(Access(s)) \in Nat /\ Past(Access(s)) \in Nat /\ i[s] \in Nat
    <3>1. i[s] \in 0 .. NumSlots
      BY DEF TypeOK
    <3> QED
      BY <2>1, <3>1, Working DEF Grain, NumSlots
  <2> DEFINE P(j) ==
        /\ pc'[s] \in {"alloc", "insert", "load"} => First(Access(s)) <= j
        /\ pc'[s] \in AtEntry => j \in Covered(Access(s))
        /\ pc'[s] \in {"install", "store_e", "store_h"} =>
             Updates(Access(s).kind, array'[s])
  <2>4. P(i'[s])
    <3>1. CASE Find(s)
      BY <2>3, <3>1 DEF Find, StartWalk, Goto, AtEntry, TypeOK
    <3>2. CASE AllocTable(s) \/ InsertLost(s)
      BY <3>2 DEF AllocTable, InsertLost, Goto, walk, AtEntry, OnItsGrains, TypeOK
    <3>3. CASE InsertList(s)
      BY <3>3 DEF InsertList, Goto, AtEntry, TypeOK
    <3>4. CASE LoadNull(s)
      <4>1. /\ pc[s] = "load" /\ i[s] < Past(Access(s))
            /\ First(Access(s)) <= i[s]
        BY <3>4 DEF LoadNull, OnItsGrains
      <4>2. CASE Updates(Access(s).kind, array[s])
        BY <2>3, <3>4, <4>1, <4>2
           DEF LoadNull, Goto, walk, AtEntry, Covered, TypeOK
      <4>3. CASE ~Updates(Access(s).kind, array[s])
        BY <2>3, <3>4, <4>1, <4>3 DEF LoadNull, NextGrain, AtEntry, TypeOK
      <4> QED
        BY <4>2, <4>3
    <3>5. CASE Load(s)
      BY <2>3, <3>5 DEF Load, Goto, walk, AtEntry, Covered, OnItsGrains, TypeOK
    <3>6. CASE Install(s) \/ StoreH(s)
      BY <2>3, <3>6 DEF Install, StoreH, NextGrain, Goto, AtEntry, Covered,
                        OnItsGrains, TypeOK
    <3>7. CASE InstallLost(s)
      BY <3>7 DEF InstallLost, Goto, walk, AtEntry, OnItsGrains, TypeOK
    <3>8. CASE CompareE(s)
      BY <3>8 DEF CompareE, Goto, AtEntry, OnItsGrains, TypeOK
    <3>9. CASE CompareH(s)
      <4>1. i[s] \in Covered(Access(s))
        BY <3>9 DEF CompareH, OnItsGrains, AtEntry
      <4>2. CASE Goto(s, "compare_h", "store_e") /\ walk' = walk
        BY <3>9, <4>1, <4>2 DEF CompareH, Goto, NextGrain, walk, AtEntry, TypeOK
      <4>3. CASE Goto(s, "compare_h", "load") /\ NextGrain(s)
        BY <2>3, <4>1, <4>3 DEF Goto, NextGrain, AtEntry, Covered, TypeOK
      <4> QED
        BY <3>9, <4>2, <4>3 DEF CompareH
    <3>10. CASE StoreE(s)
      BY <3>10 DEF StoreE, Goto, walk, AtEntry, OnItsGrains, TypeOK
    <3>11. CASE NextArray(s)
      BY <2>3, <3>11 DEF NextArray, AtEntry, TypeOK
    <3>12. CASE End(s)
      BY <3>12 DEF End, Goto, AtEntry, TypeOK
    <3> QED
      BY <1>2, <3>1, <3>2, <3>3, <3>4, <3>5, <3>6, <3>7, <3>8, <3>9, <3>10,
         <3>11, <3>12 DEF Record, Walk
  <2> QED
    BY <2>1, <2>2, <2>4 DEF OnItsGrains, Access
<1>3. ASSUME UNCHANGED vars PROVE OnItsGrains'
  BY <1>3 DEF vars, walk, OnItsGrains, Access
<1> QED
  BY <1>1, <1>2, <1>3 DEF Next, Finished

\* Every step leaves alone what belongs to another strand's store: only the
\* holder of a lock stores into the entry it is at, and gives the lock back.
LEMMA LocksStep ==
  TypeOK /\ Unlisted /\ OnItsGrains /\ LocksHeld /\ [Next]_vars => LocksHeld'
<1> SUFFICES ASSUME TypeOK, Unlisted, OnItsGrains, LocksHeld, [Next]_vars
             PROVE  LocksHeld'
  OBVIOUS
<1>1. ASSUME NEW s \in Strands, Begin(s) PROVE LocksHeld'
  <2>1. /\ pc[s] = "idle" /\ pc'[s] = "find"
        /\ UNCHANGED <<array, i, hist, lock>>
        /\ \A t \in Strands \ {s} : pc'[t] = pc[t]
    BY <1>1 DEF Begin, Goto, walk, TypeOK
  <2> QED
    BY <2>1 DEF LocksHeld, Entry, TypeOK
<1>2. ASSUME NEW s \in Strands, Record(s) \/ Walk(s) PROVE LocksHeld'
  <2>1. \A t \in Strands \ {s} :
          pc'[t] = pc[t] /\ array'[t] = array[t] /\ i'[t] = i[t]
    BY <1>2, OneMoves
  <2>2. CASE /\ pc[s] # "store_h" /\ pc'[s] # "store_h"
             /\ UNCHANGED <<lock, hist>>
    <3>1. ASSUME NEW t \in Strands, pc'[t] = "store_h"
          PROVE  lock'[array'[t]] = t /\ Entry(t)'.e = t
      BY <2>1, <2>2, <3>1 DEF LocksHeld, Entry
    <3>2. ASSUME NEW ar \in Arrays, lock'[ar] # NoStrand
          PROVE  pc'[lock'[ar]] = "store_h" /\ array'[lock'[ar]] = ar
      <4>1. /\ lock[ar] \in Strands
            /\ pc[lock[ar]] = "store_h" /\ array[lock[ar]] = ar
        BY <2>2, <3>2 DEF LocksHeld, TypeOK
      <4> QED
        BY <2>1, <2>2, <4>1
    <3> QED
      BY <3>1, <3>2 DEF LocksHeld
  <2>3. CASE InsertList(s)
    <3>1. /\ \A t \in Strands : pc[t] # "store_h" /\ pc'[t] # "store_h"
          /\ lock' = lock
      BY <2>3 DEF InsertList, Goto, Unlisted, TypeOK
    <3> QED
      BY <3>1 DEF LocksHeld, TypeOK
  <2>4. CASE Install(s)
    <3>1. /\ lock[array[s]] = NoStrand /\ lock' = lock
          /\ pc[s] # "store_h" /\ pc'[s] # "store_h"
      BY <2>4 DEF Install, Goto, TypeOK
    <3>2. \A ar \in Arrays : ar # array[s] => hist'[ar] = hist[ar]
      BY <2>4 DEF Install, TypeOK
    <3>3. ASSUME NEW t \in Strands, pc'[t] = "store_h"
          PROVE  lock'[array'[t]] = t /\ Entry(t)'.e = t
      <4>1. t # s /\ pc[t] = "store_h"
        BY <2>1, <3>1, <3>3
      <4>2. lock[array[t]] = t /\ Entry(t).e = t /\ array[t] # array[s]
        BY <3>1, <4>1 DEF LocksHeld, Strands, NoStrand
      <4> QED
        BY <2>1, <3>1, <3>2, <4>1, <4>2 DEF Entry, TypeOK
    <3> QED
      BY <2>1, <3>1, <3>3 DEF LocksHeld, TypeOK
  <2>5. CASE StoreE(s)
    <3>1. /\ lock[array[s]] = NoStrand
          /\ lock' = [lock EXCEPT ![array[s]] = s]
          /\ pc[s] = "store_e" /\ pc'[s] = "store_h"
          /\ array' = array /\ i' = i
      BY <2>5 DEF StoreE, Goto, walk, TypeOK
    <3>2. \A ar \in Arrays : ar # array[s] =>
            hist'[ar] = hist[ar] /\ lock'[ar] = lock[ar]
      BY <2>5 DEF StoreE, TypeOK
    <3>3. array[s] \in Arrays /\ i[s] \in Grain
      BY <3>1, Working DEF OnItsGrains, AtEntry, TypeOK
    <3>4. lock'[array[s]] = s /\ Entry(s)'.e = s
      BY <2>5, <3>1, <3>3 DEF StoreE, Entry, TypeOK
    <3>5. ASSUME NEW t \in Strands, pc'[t] = "store_h", t # s
          PROVE  lock'[array'[t]] = t /\ Entry(t)'.e = t
      <4>1. pc[t] = "store_h"
        BY <2>1, <3>5
      <4>2. lock[array[t]] = t /\ Entry(t).e = t /\ array[t] # array[s]
        BY <3>1, <4>1 DEF LocksHeld, Strands, NoStrand
      <4> QED
        BY <3>1, <3>2, <4>2 DEF Entry, TypeOK
    <3>6. ASSUME NEW ar \in Arrays, lock'[ar] # NoStrand
          PROVE  pc'[lock'[ar]] = "store_h" /\ array'[lock'[ar]] = ar
      <4>1. CASE ar = array[s]
        BY <3>1, <3>4, <4>1
      <4>2. CASE ar # array[s]
        <5>1. lock'[ar] = lock[ar] /\ pc[lock[ar]] = "store_h"
              /\ array[lock[ar]] = ar /\ lock[ar] \in Strands
          BY <3>2, <3>6, <4>2 DEF LocksHeld, TypeOK
        <5> QED
          BY <2>1, <3>1, <5>1
      <4> QED
        BY <4>1, <4>2
    <3> QED
      BY <3>1, <3>4, <3>5, <3>6 DEF LocksHeld
  <2>6. CASE StoreH(s)
    <3>1. /\ pc[s] = "store_h" /\ pc'[s] = "load"
          /\ lock' = [lock EXCEPT ![array[s]] = NoStrand]
          /\ array' = array
      BY <2>6 DEF StoreH, NextGrain, Goto, TypeOK
    <3>2. lock[array[s]] = s /\ lock'[array[s]] = NoStrand
      BY <3>1 DEF LocksHeld, TypeOK
    <3>3. \A ar \in Arrays : ar # array[s] =>
            hist'[ar] = hist[ar] /\ lock'[ar] = lock[ar]
      BY <2>6 DEF StoreH, TypeOK
    <3>4. ASSUME NEW t \in Strands, pc'[t] = "store_h"
          PROVE  lock'[array'[t]] = t /\ Entry(t)'.e = t
      <4>1. t # s /\ pc[t] = "store_h"
        BY <2>1, <3>1, <3>4
      <4>2. lock[array[t]] = t /\ Entry(t).e = t /\ array[t] # array[s]
        BY <3>2, <4>1 DEF LocksHeld
      <4> QED
        BY <2>1, <3>1, <3>3, <4>1, <4>2 DEF Entry, TypeOK
    <3>5. ASSUME NEW ar \in Arrays, lock'[ar] # NoStrand
          PROVE  pc'[lock'[ar]] = "store_h" /\ array'[lock'[ar]] = ar
      <4>1. ar # array[s]
        BY <3>2, <3>5
      <4>2. /\ lock'[ar] = lock[ar] /\ lock[ar] \in Strands
            /\ pc[lock[ar]] = "store_h" /\ array[lock[ar]] = ar
        BY <3>3, <3>5, <4>1 DEF LocksHeld, TypeOK
      <4> QED
        BY <2>1, <3>1, <4>1, <4>2
    <3> QED
      BY <3>4, <3>5 DEF LocksHeld
  <2>7. CASE Find(s) \/ AllocTable(s) \/ InsertLost(s)
    BY <2>2, <2>7 DEF Find, AllocTable, InsertLost, Goto, TypeOK
  <2>8. CASE LoadNull(s) \/ Load(s) \/ InstallLost(s) \/ NextArray(s) \/ End(s)
    BY <2>2, <2>8 DEF LoadNull, Load, InstallLost, NextArray, End, Goto, TypeOK
  <2>9. CASE CompareE(s) \/ CompareH(s)
    BY <2>2, <2>9 DEF CompareE, CompareH, Goto, TypeOK
  <2> QED
    BY <1>2, <2>3, <2>4, <2>5, <2>6, <2>7, <2>8, <2>9 DEF Record, Walk
<1>3. ASSUME UNCHANGED vars PROVE LocksHeld'
  BY <1>3 DEF vars, walk, LocksHeld, Entry
<1> QED
  BY <1>1, <1>2, <1>3 DEF Next, Finished

\* What a strand has touched, it has touched for good.
LEMMA TouchedForGood ==
  ASSUME TypeOK, [Next]_vars, NEW ar, NEW g, NEW t \in Strands, Touched(ar, g, t)
  PROVE  Touched(ar, g, t)'
<1>1. prog' = prog /\ made[t] \in Nat /\ made'[t] \in Nat /\ made[t] <= made'[t]
  <2>1. ASSUME NEW s \in Strands, Begin(s)
        PROVE  prog' = prog /\ made[t] \in Nat /\ made'[t] \in Nat /\ made[t] <= made'[t]
    BY <2>1 DEF Begin, TypeOK
  <2>2. ASSUME NEW s \in Strands, Record(s) \/ Walk(s)
        PROVE  prog' = prog /\ made'[t] = made[t] /\ made[t] \in Nat
    BY <2>2, OneMoves DEF TypeOK
  <2>3. ASSUME UNCHANGED vars
        PROVE  prog' = prog /\ made'[t] = made[t] /\ made[t] \in Nat
    BY <2>3 DEF vars, TypeOK
  <2> QED
    BY <2>1, <2>2, <2>3 DEF Next, Finished
<1>2. Begun(t) \subseteq Begun(t)'
  BY <1>1 DEF Begun
<1> QED
  BY <1>2 DEF Touched

\* A strand that stores itself has touched the grain it is at.
LEMMA OwnGrain ==
  ASSUME TypeOK, OnItsGrains, NEW s \in Strands,
         pc[s] \in {"install", "store_e", "store_h"}
  PROVE  Touched(array[s], i[s], s)
<1>1. Access(s) \in Begun(s)
  BY Working
<1> QED
  BY <1>1 DEF OnItsGrains, AtEntry, Touched

\* An entry that a step leaves alone, with its lock, stays as it was.
LEMMA KeptForGood ==
  ASSUME TypeOK, [Next]_vars, NEW ar \in Arrays, NEW g \in Grain, Kept(ar, g),
         hist'[ar][g] = hist[ar][g],
         hist[ar][g].e # hist[ar][g].h =>
           lock'[ar] = lock[ar] /\ i'[lock[ar]] = i[lock[ar]]
  PROVE  Kept(ar, g)'
<1>1. hist[ar][g] \in [e : Strands \cup {NoStrand}, h : Strands \cup {NoStrand}]
  BY DEF TypeOK
<1>2. ASSUME hist[ar][g].e # NoStrand
      PROVE  /\ Touched(ar, g, hist[ar][g].e)'
             /\ Touched(ar, g, hist[ar][g].h)'
  <2>1. /\ hist[ar][g].e \in Strands /\ hist[ar][g].h \in Strands
        /\ Touched(ar, g, hist[ar][g].e) /\ Touched(ar, g, hist[ar][g].h)
    BY <1>1, <1>2 DEF Kept
  <2>2. PICK x \in Strands, y \in Strands :
          x = hist[ar][g].e /\ y = hist[ar][g].h
    BY <2>1
  <2>3. Touched(ar, g, x)' /\ Touched(ar, g, y)'
    <3>1. Touched(ar, g, x) /\ Touched(ar, g, y)
      BY <2>1, <2>2
    <3> QED
      BY <3>1, TouchedForGood
  <2>4. x = hist'[ar][g].e /\ y = hist'[ar][g].h
    BY <2>2
  <2> QED
    BY <2>3, <2>4 DEF Touched, Begun
<1> QED
  BY <1>1, <1>2 DEF Kept, Touched, Begun

\* An entry changes when an access installs it, and by the two stores of
\* update_acc_info under the array's lock.
LEMMA EntriesStep ==
  /\ TypeOK /\ OnItsGrains /\ LocksHeld /\ EntriesTouched /\ NodesCompared
  /\ [Next]_vars
  => EntriesTouched'
<1> SUFFICES ASSUME TypeOK, OnItsGrains, LocksHeld, EntriesTouched,
                    NodesCompared, [Next]_vars
             PROVE  EntriesTouched'
  OBVIOUS
<1>1. CASE UNCHANGED <<hist, lock, i>>
  BY <1>1, KeptForGood DEF EntriesTouched
<1>2. ASSUME NEW s \in Strands, Record(s) \/ Walk(s) PROVE EntriesTouched'
  <2>1. /\ pc[s] # "idle" /\ UNCHANGED <<heb, prog, made>>
        /\ \A t \in Strands \ {s} : i'[t] = i[t]
    BY <1>2, OneMoves
  <2>2. ASSUME pc[s] # "store_h", NEW ar \in Arrays, lock[ar] # NoStrand
        PROVE  i'[lock[ar]] = i[lock[ar]]
    <3>1. lock[ar] \in Strands /\ lock[ar] # s
      BY <2>2 DEF LocksHeld, TypeOK
    <3> QED
      BY <2>1, <3>1
  <2>3. CASE pc[s] # "store_h" /\ UNCHANGED <<lock, hist>>
    <3>1. ASSUME NEW ar \in Arrays, NEW g \in Grain PROVE Kept(ar, g)'
      <4>1. Kept(ar, g) /\ hist'[ar][g] = hist[ar][g]
        BY <2>3 DEF EntriesTouched
      <4>2. hist[ar][g].e # hist[ar][g].h =>
              lock'[ar] = lock[ar] /\ i'[lock[ar]] = i[lock[ar]]
        BY <2>2, <2>3, <4>1 DEF Kept
      <4> QED
        BY <4>1, <4>2, KeptForGood
    <3> QED
      BY <3>1 DEF EntriesTouched
  <2>4. CASE InsertList(s)
    <3>1. Access(s) \in Begun(s)
      BY <2>1, Working
    <3>2. ASSUME NEW ar \in Arrays, NEW g \in Grain PROVE Kept(ar, g)'
      <4>1. CASE Updates(Access(s).kind, ar) /\ g \in Covered(Access(s))
        <5>1. hist'[ar][g] = Own(s)
          BY <2>4, <4>1 DEF InsertList
        <5>2. Touched(ar, g, s)'
          BY <2>1, <3>1, <4>1 DEF Touched, Begun
        <5> QED
          BY <5>1, <5>2 DEF Kept, Own, Strands, NoStrand, Touched, Begun
      <4>2. CASE ~(Updates(Access(s).kind, ar) /\ g \in Covered(Access(s)))
        <5>1. hist'[ar][g] = Empty
          BY <2>4, <4>2 DEF InsertList
        <5> QED
          BY <5>1 DEF Kept, Empty
      <4> QED
        BY <4>1, <4>2
    <3> QED
      BY <3>2 DEF EntriesTouched
  <2>5. CASE Install(s) \/ StoreE(s) \/ StoreH(s)
    <3>1. array[s] \in Arrays /\ i[s] \in Grain
      <4>1. pc[s] \in AtEntry
        BY <2>5 DEF Install, StoreE, StoreH, Goto, AtEntry
      <4> QED
        BY <2>1, <4>1, Working DEF OnItsGrains, TypeOK
    <3>3. ASSUME NEW ar \in Arrays, NEW g \in Grain, ar # array[s] \/ g # i[s]
          PROVE  Kept(ar, g)'
      <4>1. hist'[ar][g] = hist[ar][g]
        BY <2>5, <3>1, <3>3 DEF Install, StoreE, StoreH, TypeOK
      <4>2. ASSUME hist[ar][g].e # hist[ar][g].h
            PROVE  lock'[ar] = lock[ar] /\ i'[lock[ar]] = i[lock[ar]]
        <5>1. lock[ar] \in Strands /\ i[lock[ar]] = g
          BY <4>2 DEF EntriesTouched, Kept, TypeOK
        <5>2. ar # array[s]
          <6>1. lock[array[s]] = NoStrand \/ lock[array[s]] = s
            BY <2>5 DEF Install, StoreE, StoreH, Goto, LocksHeld
          <6> QED
            BY <3>3, <5>1, <6>1 DEF Strands, NoStrand
        <5>3. lock'[ar] = lock[ar]
          BY <2>5, <5>2 DEF Install, StoreE, StoreH, TypeOK
        <5>4. lock[ar] # s
          BY <5>1, <5>2 DEF LocksHeld, Strands, NoStrand
        <5> QED
          BY <2>1, <5>1, <5>3, <5>4
      <4> QED
        BY <4>1, <4>2, KeptForGood DEF EntriesTouched
    <3>4. ASSUME NEW ar \in Arrays, NEW g \in Grain, ar = array[s], g = i[s]
          PROVE  Kept(ar, g)'
      <4>1. Touched(ar, g, s)'
        <5>1. Touched(ar, g, s)
          BY <2>5, <3>4, OwnGrain DEF Install, StoreE, StoreH, Goto
        <5> QED
          BY <5>1, TouchedForGood
      <4>2. s # NoStrand /\ Kept(ar, g)
        BY DEF EntriesTouched, Strands, NoStrand
      <4>3. CASE hist'[ar][g] = [e |-> s, h |-> s]
        BY <4>1, <4>2, <4>3 DEF Kept, Touched, Begun
      <4>4. CASE Install(s)
        BY <3>4, <4>3, <4>4 DEF Install, Own, TypeOK
      <4>5. CASE StoreH(s)
        <5>1. hist[ar][g].e = s
          BY <3>4, <4>5 DEF StoreH, Goto, LocksHeld, Entry
        <5> QED
          BY <3>4, <4>3, <4>5, <5>1 DEF StoreH, TypeOK
      <4>6. CASE StoreE(s)
        <5>1. hist'[ar][g] = [e |-> s, h |-> hist[ar][g].h]
          BY <3>4, <4>6 DEF StoreE, TypeOK
        <5>2. lock'[ar] = s /\ i'[s] = g
          BY <3>4, <4>6 DEF StoreE, walk, TypeOK
        <5>3. hist[ar][g].e # NoStrand
          BY <3>4, <4>6 DEF StoreE, Goto, NodesCompared, Compared, AtEntry, Entry
        <5>4. /\ hist[ar][g].h \in Strands
              /\ Touched(ar, g, hist[ar][g].h)
          BY <4>2, <5>3 DEF Kept, TypeOK
        <5>5. hist'[ar][g].h \in Strands /\ Touched(ar, g, hist[ar][g].h)'
          <6>1. PICK y \in Strands : y = hist[ar][g].h
            BY <5>4
          <6>2. Touched(ar, g, y)
            BY <5>4, <6>1
          <6>3. Touched(ar, g, y)'
            BY <6>2, TouchedForGood
          <6>4. y = hist'[ar][g].h
            BY <5>1, <6>1
          <6> QED
            BY <6>1, <6>3, <6>4 DEF Touched, Begun
        <5> QED
          BY <4>1, <4>2, <5>1, <5>2, <5>5 DEF Kept, Touched, Begun, Strands, NoStrand
      <4> QED
        BY <2>5, <4>4, <4>5, <4>6
    <3> QED
      BY <3>3, <3>4 DEF EntriesTouched
  <2>6. CASE Find(s) \/ AllocTable(s) \/ InsertLost(s)
    BY <2>3, <2>6 DEF Find, AllocTable, InsertLost, Goto
  <2>7. CASE LoadNull(s) \/ Load(s) \/ InstallLost(s) \/ NextArray(s) \/ End(s)
    BY <2>3, <2>7 DEF LoadNull, Load, InstallLost, NextArray, End, Goto
  <2>8. CASE CompareE(s) \/ CompareH(s)
    BY <2>3, <2>8 DEF CompareE, CompareH, Goto
  <2> QED
    BY <1>2, <2>4, <2>5, <2>6, <2>7, <2>8 DEF Record, Walk
<1>3. ASSUME NEW s \in Strands, Begin(s) PROVE EntriesTouched'
  BY <1>1, <1>3 DEF Begin, walk
<1>4. ASSUME UNCHANGED vars PROVE EntriesTouched'
  BY <1>1, <1>4 DEF vars, walk
<1> QED
  BY <1>2, <1>3, <1>4 DEF Next, Finished

\* A step writes into an entry of the list nothing but its own strand.
LEMMA WritesItself ==
  ASSUME TypeOK, OnItsGrains, list, NEW s \in Strands, Record(s) \/ Walk(s),
         NEW ar \in Arrays, NEW g \in Grain
  PROVE  /\ hist'[ar][g].e \in {hist[ar][g].e, s}
         /\ hist'[ar][g].h \in {hist[ar][g].h, s}
<1>1. CASE hist' = hist
  BY <1>1
<1>2. CASE Install(s)
  BY <1>2 DEF Install, Own, TypeOK
<1>3. CASE StoreE(s)
  BY <1>3 DEF StoreE, TypeOK
<1>4. CASE StoreH(s)
  BY <1>4 DEF StoreH, TypeOK
<1>5. CASE Record(s)
  BY <1>1, <1>5 DEF Record, Find, AllocTable, InsertList, InsertLost
<1>6. CASE LoadNull(s) \/ Load(s) \/ InstallLost(s) \/ CompareE(s) \/ CompareH(s)
             \/ NextArray(s) \/ End(s)
  BY <1>1, <1>6 DEF LoadNull, Load, InstallLost, CompareE, CompareH, NextArray, End
<1> QED
  BY <1>2, <1>3, <1>4, <1>5, <1>6 DEF Walk

\* Whatever other strands store between om_precedes of the english nodes and
\* om_precedes of the hebrew ones, they are busy, so parallel.
LEMMA ComparedStep == Inv /\ [Next]_vars => NodesCompared'
<1> SUFFICES ASSUME Inv, [Next]_vars
             PROVE  NodesCompared'
  OBVIOUS
<1>0. /\ TypeOK /\ DagOrder /\ Unlisted /\ OnItsGrains /\ LocksHeld
      /\ EntriesTouched /\ NodesCompared
  BY DEF Inv
<1>1. ASSUME NEW t \in Strands,
             pc'[t] = pc[t], array'[t] = array[t], i'[t] = i[t],
             saw'[t] = saw[t], heb' = heb,
             pc[t] \in AtEntry \ {"install"} =>
               \/ Entry(t)' = Entry(t)
               \/ \E s \in Strands \ {t} :
                    /\ pc[s] # "idle"
                    /\ Entry(t)'.e \in {Entry(t).e, s}
                    /\ Entry(t)'.h \in {Entry(t).h, s}
      PROVE  Compared(t)'
  <2>1. Compared(t)
    BY <1>0 DEF NodesCompared
  <2>2. pc[t] = "compare_h" => Touched(array[t], i[t], saw[t])'
    <3> SUFFICES ASSUME pc[t] = "compare_h"
                 PROVE  Touched(array[t], i[t], saw[t])'
      OBVIOUS
    <3>1. array[t] \in Arrays /\ i[t] \in 0 .. NumSlots /\ saw[t] \in Strands
      BY <1>0, <2>1 DEF Compared, TypeOK
    <3>2. PICK ar \in Arrays, g \in 0 .. NumSlots, x \in Strands :
            ar = array[t] /\ g = i[t] /\ x = saw[t]
      BY <3>1
    <3>3. Touched(ar, g, x)
      BY <2>1, <3>2 DEF Compared
    <3>4. Touched(ar, g, x)'
      BY <1>0, <3>3, TouchedForGood
    <3> QED
      BY <1>1, <3>2, <3>4 DEF Touched, Begun
  <2>3. CASE pc[t] \notin AtEntry \ {"install"}
    BY <1>1, <2>3 DEF Compared, AtEntry
  <2>4. CASE pc[t] \in AtEntry \ {"install"} /\ Entry(t)' = Entry(t)
    BY <1>1, <2>1, <2>2, <2>4 DEF Compared, Parallel, Precedes
  <2>5. ASSUME pc[t] \in AtEntry \ {"install"},
               NEW s \in Strands \ {t}, pc[s] # "idle",
               Entry(t)'.e \in {Entry(t).e, s},
               Entry(t)'.h \in {Entry(t).h, s}
        PROVE  Compared(t)'
    <3>1. Parallel(t, s)
      BY <1>0, <2>5, BusyParallel DEF AtEntry
    <3>2. s # NoStrand
      BY DEF Strands, NoStrand
    <3> QED
      BY <1>1, <2>1, <2>2, <2>5, <3>1, <3>2 DEF Compared, Parallel, Precedes
  <2> QED
    BY <1>1, <2>3, <2>4, <2>5
<1>2. ASSUME NEW s \in Strands, Begin(s) PROVE NodesCompared'
  <2>1. /\ UNCHANGED <<heb, array, i, saw, hist>> /\ pc'[s] = "find"
        /\ \A t \in Strands \ {s} : pc'[t] = pc[t]
    BY <1>0, <1>2 DEF Begin, Goto, walk, TypeOK
  <2>2. Compared(s)'
    BY <2>1 DEF Compared, AtEntry
  <2>3. ASSUME NEW t \in Strands \ {s} PROVE Compared(t)'
    BY <1>1, <2>1 DEF Entry
  <2> QED
    BY <2>2, <2>3 DEF NodesCompared
<1>3. ASSUME NEW s \in Strands, Record(s) \/ Walk(s) PROVE NodesCompared'
  <2>1. /\ pc[s] # "idle" /\ heb' = heb /\ prog' = prog /\ made' = made
        /\ \A t \in Strands \ {s} :
             /\ pc'[t] = pc[t] /\ array'[t] = array[t]
             /\ i'[t] = i[t] /\ saw'[t] = saw[t]
    BY <1>0, <1>3, OneMoves
  <2>2. ASSUME NEW t \in Strands \ {s} PROVE Compared(t)'
    <3>1. ASSUME pc[t] \in AtEntry \ {"install"}
          PROVE  /\ Entry(t)'.e \in {Entry(t).e, s}
                 /\ Entry(t)'.h \in {Entry(t).h, s}
      <4>1. list
        BY <1>0, <3>1 DEF Unlisted, AtEntry
      <4>2. array[t] \in Arrays /\ i[t] \in Grain
        BY <1>0, <3>1, Working DEF OnItsGrains, AtEntry, TypeOK
      <4>3. /\ hist'[array[t]][i[t]].e \in {hist[array[t]][i[t]].e, s}
            /\ hist'[array[t]][i[t]].h \in {hist[array[t]][i[t]].h, s}
        BY <1>0, <1>3, <4>1, <4>2, WritesItself
      <4> QED
        BY <2>1, <4>3 DEF Entry
    <3> QED
      BY <1>1, <2>1, <3>1
  <2>3. Compared(s)'
    <3>1. CASE pc'[s] \notin AtEntry \ {"install"}
      BY <3>1 DEF Compared, AtEntry
    <3>2. CASE Load(s) \/ InstallLost(s)
      <4>1. /\ pc'[s] = "compare_e" /\ UNCHANGED <<array, i, hist>>
            /\ Entry(s) # Empty
        BY <1>0, <3>2 DEF Load, InstallLost, Goto, walk, TypeOK
      <4>2. array[s] \in Arrays /\ i[s] \in Grain
        BY <1>0, <2>1, <3>2, Working
           DEF Load, InstallLost, Goto, OnItsGrains, AtEntry, Covered, TypeOK
      <4>3. Entry(s).e # NoStrand
        BY <1>0, <4>1, <4>2 DEF EntriesTouched, Kept, Entry, Empty, TypeOK
      <4> QED
        BY <4>1, <4>3 DEF Compared, Entry
    <3>3. CASE CompareE(s)
      <4>1. /\ pc[s] = "compare_e" /\ pc'[s] = "compare_h"
            /\ UNCHANGED <<array, i, hist>>
            /\ saw'[s] = Entry(s).e
            /\ Entry(s).e # NoStrand
        BY <1>0, <3>3 DEF CompareE, Goto, NodesCompared, Compared, AtEntry, TypeOK
      <4>2. array[s] \in Arrays /\ i[s] \in Grain
        BY <1>0, <2>1, <4>1, Working DEF OnItsGrains, AtEntry, TypeOK
      <4>3. Kept(array[s], i[s]) /\ Touched(array[s], i[s], Entry(s).e)
        BY SMTT(60), <1>0, <4>1, <4>2 DEF EntriesTouched, Kept, Entry
      <4>4. CASE Entry(s).e = Entry(s).h
        BY <2>1, <4>1, <4>3, <4>4 DEF Compared, Entry, Touched, Begun, AtEntry
      <4>5. CASE Entry(s).e # Entry(s).h
        <5>1. /\ Entry(s).e \in Strands
              /\ pc[Entry(s).e] = "store_h"
              /\ Entry(s).e # s
          BY <1>0, <4>1, <4>2, <4>3, <4>5 DEF Kept, Entry, LocksHeld, TypeOK
        <5>2. Parallel(s, Entry(s).e)
          BY <1>0, <2>1, <5>1, BusyParallel
        <5> QED
          BY <2>1, <4>1, <4>3, <5>1, <5>2
             DEF Compared, Entry, Touched, Begun, AtEntry, Parallel, Precedes
      <4> QED
        BY <4>4, <4>5
    <3>4. CASE CompareH(s) /\ pc'[s] = "store_e"
      <4>1. /\ pc[s] = "compare_h" /\ UNCHANGED <<array, i, hist>>
        BY <1>0, <3>4 DEF CompareH, Goto, walk, TypeOK
      <4> QED
        BY <1>0, <3>4, <4>1 DEF NodesCompared, Compared, Entry, AtEntry
    <3>5. CASE StoreE(s)
      <4>1. /\ pc'[s] = "store_h" /\ UNCHANGED <<array, i>>
            /\ pc[s] = "store_e"
        BY <1>0, <3>5 DEF StoreE, Goto, walk, TypeOK
      <4>2. array[s] \in Arrays /\ i[s] \in Grain
        BY <1>0, <2>1, <4>1, Working DEF OnItsGrains, AtEntry, TypeOK
      <4>3. Entry(s)'.e = s
        BY <1>0, <3>5, <4>1, <4>2 DEF StoreE, Entry, TypeOK
      <4> QED
        BY <4>1, <4>3 DEF Compared, Strands, NoStrand
    <3>6. CASE Record(s)
      BY <1>0, <3>1, <3>6 DEF Record, Find, AllocTable, InsertList, InsertLost,
                              Goto, AtEntry, TypeOK
    <3>7. CASE LoadNull(s) \/ Install(s) \/ StoreH(s) \/ NextArray(s) \/ End(s)
      BY <1>0, <3>1, <3>7 DEF LoadNull, Install, StoreH, NextArray, End, Goto,
                              AtEntry, TypeOK
    <3>8. CASE CompareH(s) /\ pc'[s] # "store_e"
      BY <1>0, <3>1, <3>8 DEF CompareH, Goto, AtEntry, TypeOK
    <3> QED
      BY <1>3, <3>2, <3>3, <3>4, <3>5, <3>6, <3>7, <3>8 DEF Walk
  <2> QED
    BY <2>2, <2>3 DEF NodesCompared
<1>4. ASSUME UNCHANGED vars PROVE NodesCompared'
  BY <1>0, <1>4 DEF vars, walk, NodesCompared, Compared, Entry, Touched, Begun,
                    Parallel, Precedes
<1> QED
  BY <1>2, <1>3, <1>4 DEF Next, Finished

----------------------------------------------------------------------------
(* The theorems                                                            *)

\* Nothing is recorded yet, and no strand has begun.
LEMMA InitInv == Init => Inv
<1> SUFFICES ASSUME Init PROVE Inv
  OBVIOUS
<1>1. TypeOK
  <2>1. \A s \in Strands : prog[s] \in Seq(Accesses)
    BY ProgramAssumption DEF Init
  <2>2. \A s \in Strands : 0 <= Len(prog[s])
    BY <2>1
  <2>3. "writer" \in Arrays /\ 0 \in 0 .. NumSlots
    BY DEF Arrays, NumSlots
  <2>4. hist \in [Arrays -> [Grain -> [e : Strands \cup {NoStrand},
                                      h : Strands \cup {NoStrand}]]]
    BY DEF Init, Empty
  <2> QED
    BY <2>2, <2>3, <2>4 DEF Init, TypeOK
<1>2. \A s \in Strands : pc[s] = "idle" /\ made[s] = 0
  BY DEF Init
<1>3. DagOrder
  BY <1>2 DEF Init, DagOrder
<1>4. Unlisted /\ OnItsGrains
  BY <1>2 DEF Unlisted, OnItsGrains, AtEntry
<1>5. LocksHeld
  BY <1>2 DEF Init, LocksHeld
<1>6. EntriesTouched
  BY DEF Init, EntriesTouched, Kept, Empty
<1>7. NodesCompared
  BY <1>2 DEF NodesCompared, Compared, AtEntry
<1> QED
  BY <1>1, <1>3, <1>4, <1>5, <1>6, <1>7 DEF Inv

\* Every step of the program keeps the inductive invariant.
LEMMA InvStep == Inv /\ [Next]_vars => Inv'
<1> SUFFICES ASSUME Inv, [Next]_vars PROVE Inv'
  OBVIOUS
<1>1. /\ TypeOK /\ DagOrder /\ Unlisted /\ OnItsGrains /\ LocksHeld
      /\ EntriesTouched /\ NodesCompared
  BY DEF Inv
<1>2. TypeOK' /\ DagOrder' /\ Unlisted'
  BY <1>1, TypeStep, DagStep, UnlistedStep
<1>3. OnItsGrains' /\ LocksHeld'
  BY <1>1, GrainsStep, LocksStep
<1>4. EntriesTouched' /\ NodesCompared'
  BY <1>1, EntriesStep, ComparedStep
<1> QED
  BY <1>2, <1>3, <1>4 DEF Inv

\* The inductive invariant holds all along.
LEMMA InvHolds == Spec => []Inv
<1> QED
  BY InitInv, InvStep, PTL DEF Spec

\* The history stays well typed: no access indexes past its block, and the
\* walks of check_races_and_update_with_read and ..._with_write stay on
\* their grains.
THEOREM TypeCorrect == Spec => []TypeOK
<1>1. Inv => TypeOK
  BY DEF Inv
<1> QED
  BY <1>1, InvHolds, PTL

\* update_acc_info holds the array's lock over both of its stores, so an
\* entry with two owners is never left behind.
THEOREM EntriesStayWhole == Spec => []EntriesAreWhole
<1>1. Inv => EntriesAreWhole
  BY DEF Inv, EntriesTouched, Kept, EntriesAreWhole
<1> QED
  BY <1>1, InvHolds, PTL

\* Who touched a grain has begun.
LEMMA TouchedBegun ==
  ASSUME TypeOK, NEW ar, NEW g, NEW t \in Strands, Touched(ar, g, t)
  PROVE  made[t] > 0
<1>1. PICK k \in 1 .. made[t] : TRUE
  BY DEF Touched, Begun
<1>2. made[t] \in Nat
  BY DEF TypeOK
<1> QED
  BY <1>1, <1>2

\* Whatever two nodes races_with compares a strand with, torn between two
\* strands or not: if they say "race", a parallel strand touched the grain.
THEOREM NoFalseAlarms == Spec => []NoFalseAlarm
<1>1. ASSUME Inv PROVE NoFalseAlarm
  <2>0. /\ TypeOK /\ DagOrder /\ OnItsGrains /\ EntriesTouched /\ NodesCompared
    BY <1>1 DEF Inv
  <2> SUFFICES ASSUME NEW s \in Strands, pc[s] = "compare_h",
                      RacesWith(saw[s], Entry(s).h, s)
               PROVE  \E t \in Strands :
                        Parallel(s, t) /\ Touched(array[s], i[s], t)
    BY DEF NoFalseAlarm
  <2> DEFINE e == saw[s]
             h == Entry(s).h
  <2>1. /\ e \in Strands /\ Touched(array[s], i[s], e)
        /\ e = s => h = s \/ Parallel(s, h)
        /\ h = s => e = s \/ Parallel(s, e)
        /\ Entry(s).e # NoStrand
    BY <2>0 DEF NodesCompared, Compared, AtEntry, TypeOK
  <2>2. h \in Strands /\ Touched(array[s], i[s], h)
    <3>1. array[s] \in Arrays /\ i[s] \in Grain
      BY <2>0, Working DEF OnItsGrains, AtEntry, TypeOK
    <3> QED
      BY <2>0, <2>1, <3>1 DEF EntriesTouched, Kept, Entry, TypeOK
  <2> HIDE DEF e, h
  <2>3. ASSUME NEW t \in Strands, Touched(array[s], i[s], t)
        PROVE  ~Precedes(s, t)
    <3>1. made[t] > 0
      BY <2>0, <2>3, TouchedBegun
    <3> QED
      BY <2>0, <3>1 DEF DagOrder, Done
  <2>4. /\ \A t \in Strands : heb[t] \in Int
        /\ \A t, u \in Strands : heb[t] = heb[u] => t = u
        /\ \A t \in Strands : t \in Int
    BY <2>0 DEF DagOrder, TypeOK, Strands
  <2>5. (e < s) = ~(heb[h] < heb[s])
    BY DEF RacesWith, e, h
  <2>6. CASE e < s
    <3>1. CASE h = s
      BY <2>1, <2>4, <2>6, <3>1 DEF e, h
    <3>2. CASE h # s
      <4>1. ~Precedes(h, s)
        BY <2>5, <2>6 DEF Precedes
      <4> QED
        BY <2>2, <2>3, <3>2, <4>1 DEF Parallel
    <3> QED
      BY <3>1, <3>2
  <2>7. CASE ~(e < s)
    <3>1. CASE e = s
      <4>1. h # s
        BY <2>2, <2>4, <2>5, <2>7
      <4> QED
        BY <2>1, <2>2, <3>1, <4>1 DEF e, h
    <3>2. CASE e # s
      BY <2>1, <2>3, <2>7, <3>2 DEF Parallel, Precedes, e
    <3> QED
      BY <3>1, <3>2
  <2> QED
    BY <2>6, <2>7
<1> QED
  BY <1>1, InvHolds, PTL

----------------------------------------------------------------------------
(* What is recorded stays represented.  This needs more than Inv: whose    *)
(* accesses an entry has to stand for, NotBegun and Represented.           *)

\* A history is empty until a strand has inserted the list, and a walk that
\* has not begun is at its start.
NotBegun ==
  /\ ~list => \A ar \in Arrays, g \in Grain : hist[ar][g].e = NoStrand
  /\ \A s \in Strands : pc[s] \in {"alloc", "insert"} =>
       array[s] = "writer" /\ i[s] = First(Access(s))

\* The arrays a walk comes to after array ar.
Later(ar) == CASE ar = "writer"  -> {"lreader", "rreader"}
               [] ar = "lreader" -> {"rreader"}
               [] ar = "rreader" -> {}

\* Strand t is through with an access that array ar is to keep for grain g:
\* the whole access, or the walk that is under way is past the grain.
Recorded(ar, g, t) ==
  \/ \E k \in 1 .. made[t] :
       /\ k < made[t] \/ pc[t] = "idle"
       /\ Updates(prog[t][k].kind, ar) /\ g \in Covered(prog[t][k])
  \/ /\ pc[t] \in {"load"} \cup AtEntry
     /\ Updates(Access(t).kind, ar) /\ g \in Covered(Access(t))
     /\ array[t] \in Later(ar) \/ (array[t] = ar /\ i[t] > g)

\* The entry stands for the accesses of t.
KeptFor(ar, g, t) ==
  hist[ar][g].e # NoStrand /\ ~Precedes(hist[ar][g].e, t)

\* What is recorded stays represented, and so does what a strand has seen
\* between its two comparisons.
Represented ==
  /\ \A t \in Strands, ar \in Arrays, g \in Grain :
       Recorded(ar, g, t) => KeptFor(ar, g, t)
  /\ \A t \in Strands :
       pc[t] = "compare_h" /\ ~Precedes(saw[t], t) => ~Precedes(Entry(t).e, t)

\* Before there is a list no history is written, and a walk starts at the first
\* grain of the first array.
LEMMA NotBegunStep == Inv /\ NotBegun /\ [Next]_vars => NotBegun'
<1> SUFFICES ASSUME Inv, NotBegun, [Next]_vars PROVE NotBegun'
  OBVIOUS
<1>0. TypeOK /\ Unlisted
  BY DEF Inv
<1> DEFINE Blank == \A ar \in Arrays, g \in Grain : hist[ar][g].e = NoStrand
           Starts(s) == pc[s] \in {"alloc", "insert"} =>
                          array[s] = "writer" /\ i[s] = First(Access(s))
<1>1. (~list => Blank) /\ \A s \in Strands : Starts(s)
  BY DEF NotBegun
<1>2. ASSUME NEW s \in Strands, Begin(s) PROVE NotBegun'
  <2>1. /\ UNCHANGED <<list, hist, array, i, prog>>
        /\ \A t \in Strands \ {s} : pc'[t] = pc[t] /\ made'[t] = made[t]
        /\ pc'[s] = "find"
    BY <1>0, <1>2 DEF Begin, Goto, walk, TypeOK
  <2>2. \A t \in Strands : Starts(t)'
    BY <1>1, <2>1 DEF Access
  <2> QED
    BY <1>1, <2>1, <2>2 DEF NotBegun
<1>3. ASSUME NEW s \in Strands, Record(s) \/ Walk(s) PROVE NotBegun'
  <2>1. /\ UNCHANGED <<prog, made>>
        /\ \A t \in Strands \ {s} :
             pc'[t] = pc[t] /\ array'[t] = array[t] /\ i'[t] = i[t]
    BY <1>0, <1>3, OneMoves
  <2>2. \A t \in Strands \ {s} : Starts(t)'
    BY <1>1, <2>1 DEF Access
  <2>3. Access(s)' = Access(s)
    BY <2>1 DEF Access
  <2>4. CASE Find(s) \/ AllocTable(s) \/ InsertLost(s)
    <3>1. UNCHANGED <<list, hist>>
      BY <2>4 DEF Find, AllocTable, InsertLost
    <3>2. Starts(s)'
      BY <1>0, <1>1, <2>3, <2>4 DEF Find, AllocTable, InsertLost, StartWalk, Goto, walk, TypeOK
    <3> QED
      BY <1>1, <2>2, <3>1, <3>2 DEF NotBegun
  <2>5. CASE InsertList(s)
    <3>1. list' /\ pc'[s] = "idle"
      BY <1>0, <2>5 DEF InsertList, Goto, TypeOK
    <3> QED
      BY <2>2, <3>1 DEF NotBegun
  <2>6. CASE Walk(s)
    <3>1. /\ list /\ list' = list
      BY <1>0, <2>6 DEF Walk, LoadNull, Load, Install, InstallLost, CompareE, CompareH,
         StoreE, StoreH, NextArray, End, Goto, Unlisted
    <3>2. pc'[s] \notin {"alloc", "insert"}
      BY <1>0, <2>6 DEF Walk, LoadNull, Load, Install, InstallLost, CompareE, CompareH,
         StoreE, StoreH, NextArray, End, Goto, TypeOK
    <3> QED
      BY <2>2, <3>1, <3>2 DEF NotBegun
  <2> QED
    BY <1>3, <2>4, <2>5, <2>6 DEF Record
<1>4. ASSUME UNCHANGED vars PROVE NotBegun'
  BY <1>4 DEF vars, walk, NotBegun, Access
<1> QED
  BY <1>2, <1>3, <1>4 DEF Next, Finished

\* A strand that works comes before no strand that has begun.
LEMMA BusyNotBefore ==
  ASSUME Inv, NEW s \in Strands, pc[s] # "idle", NEW t \in Strands, made[t] > 0
  PROVE  ~Precedes(s, t)
  BY DEF Inv, DagOrder, Done

\* Nobody stores into an entry who comes before a strand that has begun.
LEMMA EntryMovesOn ==
  ASSUME Inv, list, NEW s \in Strands, Record(s) \/ Walk(s),
         NEW ar \in Arrays, NEW g \in Grain, NEW t \in Strands, made[t] > 0
  PROVE  /\ hist[ar][g].e # NoStrand => hist'[ar][g].e # NoStrand
         /\ ~Precedes(hist[ar][g].e, t) => ~Precedes(hist[ar][g].e, t)'
<1>1. TypeOK /\ OnItsGrains
  BY DEF Inv
<1>2. hist'[ar][g].e \in {hist[ar][g].e, s}
  BY <1>1, WritesItself
<1>3. pc[s] # "idle" /\ heb' = heb
  BY <1>1, OneMoves
<1>4. ~Precedes(s, t) /\ s # NoStrand
  BY <1>3, BusyNotBefore DEF Strands, NoStrand
<1> QED
  BY <1>2, <1>3, <1>4 DEF Precedes

\* What is recorded belongs to a strand that has begun.
LEMMA RecordedBegun ==
  ASSUME TypeOK, NEW ar, NEW g, NEW t \in Strands, Recorded(ar, g, t)
  PROVE  made[t] > 0
<1>1. made[t] \in Nat /\ (pc[t] # "idle" => made[t] > 0)
  BY DEF TypeOK
<1> QED
  BY <1>1 DEF Recorded, AtEntry

\* Only its own step records an access of a strand.
LEMMA OwnRecord ==
  ASSUME NEW t, UNCHANGED prog, made'[t] = made[t], pc'[t] = pc[t], array'[t] = array[t], i'[t] = i[t],
         NEW ar, NEW g
  PROVE  Recorded(ar, g, t)' <=> Recorded(ar, g, t)
  BY DEF Recorded, Access, AtEntry, Later

\* A step of the walk that records nothing, or what the entry already stands for.
LEMMA WalkRecords ==
  ASSUME Inv, NEW s \in Strands, Walk(s), NEW ar \in Arrays, NEW g \in Grain, Recorded(ar, g, s)'
  PROVE  \/ Recorded(ar, g, s)
         \/ /\ ar = array[s] /\ g = i[s] /\ Updates(Access(s).kind, ar)
            /\ Install(s) \/ StoreH(s) \/ (CompareH(s) /\ ~Replaces(ar, saw[s], Entry(s).h, s))
<1>0. TypeOK /\ OnItsGrains
  BY DEF Inv
<1>1. /\ UNCHANGED <<heb, prog, made>> /\ pc[s] # "idle" /\ pc[s] \in {"load"} \cup AtEntry
  BY <1>0, OneMoves DEF Walk, LoadNull, Load, Install, InstallLost, CompareE, CompareH, StoreE, StoreH, NextArray,
     End, Goto, AtEntry
<1>2. /\ Access(s)' = Access(s) /\ made[s] \in Nat /\ made[s] > 0 /\ array[s] \in Arrays /\ i[s] \in Int
      /\ Access(s) = prog[s][made[s]] /\ First(Access(s)) \in Int /\ Past(Access(s)) \in Int
  BY <1>0, <1>1, Working DEF Access, TypeOK, Grain
<1> DEFINE Mine == Updates(Access(s).kind, ar) /\ g \in Covered(Access(s))
<1>3. Mine' <=> Mine
  BY <1>2
<1>4. g \in Int /\ (Mine => First(Access(s)) <= g /\ g < Past(Access(s)))
  BY <1>2 DEF Grain, Covered
<1> HIDE DEF Mine
<1>5. ASSUME NEW k \in 1 .. made[s], k < made[s], Updates(prog[s][k].kind, ar), g \in Covered(prog[s][k])
      PROVE  Recorded(ar, g, s)
  BY <1>5 DEF Recorded
<1>6. CASE End(s)
  <2>1. array[s] = "rreader" /\ i[s] >= Past(Access(s))
    BY <1>6 DEF End
  <2>2. Mine => Recorded(ar, g, s)
    <3> SUFFICES ASSUME Mine PROVE Recorded(ar, g, s)
      OBVIOUS
    <3>1. array[s] \in Later(ar) \/ (array[s] = ar /\ i[s] > g)
      BY <1>2, <1>4, <2>1 DEF Later, Arrays
    <3> QED
      BY <1>1, <3>1 DEF Recorded, Mine
  <2>3. pc'[s] = "idle"
    BY <1>0, <1>6 DEF End, Goto, TypeOK
  <2>4. PICK k \in 1 .. made[s] : Updates(prog[s][k].kind, ar) /\ g \in Covered(prog[s][k])
    BY <1>1, <2>3 DEF Recorded, AtEntry
  <2>5. CASE k = made[s]
    BY <1>2, <2>2, <2>4, <2>5 DEF Mine
  <2>6. CASE k < made[s]
    BY <1>5, <2>4, <2>6
  <2> QED
    BY <1>2, <2>5, <2>6
<1>7. CASE ~End(s)
  <2>1. pc'[s] # "idle"
    BY <1>0, <1>7 DEF Walk, LoadNull, Load, Install, InstallLost, CompareE, CompareH, StoreE, StoreH, NextArray,
       Goto, TypeOK
  <2>2. ASSUME Mine, array'[s] \in Later(ar) \/ (array'[s] = ar /\ i'[s] > g)
        PROVE  \/ Recorded(ar, g, s)
               \/ /\ ar = array[s] /\ g = i[s]
                  /\ Install(s) \/ StoreH(s) \/ (CompareH(s) /\ ~Replaces(ar, saw[s], Entry(s).h, s))
    <3>1. ASSUME array[s] \in Later(ar) \/ (array[s] = ar /\ i[s] > g) PROVE Recorded(ar, g, s)
      BY <1>1, <2>2, <3>1 DEF Recorded, Mine
    <3>2. CASE UNCHANGED <<array, i>>
      BY <2>2, <3>1, <3>2
    <3>3. CASE NextArray(s)
      <4>1. /\ array'[s] = After[array[s]] /\ i'[s] = First(Access(s)) /\ i[s] >= Past(Access(s))
            /\ array[s] # "rreader"
        BY <1>0, <3>3 DEF NextArray, TypeOK
      <4>2. ar \in Arrays /\ array[s] \in Arrays
        BY <1>2
      <4>3. ~(i'[s] > g)
        BY <1>2, <1>4, <2>2, <4>1
      <4>4. array[s] = ar \/ array[s] \in Later(ar)
        BY <2>2, <4>1, <4>2, <4>3 DEF After, Arrays, Later
      <4> QED
        BY <1>2, <1>4, <2>2, <3>1, <4>1, <4>4
    <3>4. ASSUME NextGrain(s) PROVE Recorded(ar, g, s) \/ (ar = array[s] /\ g = i[s])
      <4>1. array'[s] = array[s] /\ i'[s] = i[s] + 1
        BY <1>0, <3>4 DEF NextGrain, TypeOK
      <4> QED
        BY <1>2, <1>4, <2>2, <3>1, <4>1
    <3>5. CASE LoadNull(s) /\ ~UNCHANGED <<array, i>>
      <4>1. NextGrain(s) /\ ~Updates(Access(s).kind, array[s])
        BY <3>5 DEF LoadNull, walk
      <4> QED
        BY <2>2, <3>4, <4>1 DEF Mine
    <3>6. CASE Install(s) \/ StoreH(s)
      BY <3>4, <3>6 DEF Install, StoreH
    <3>7. CASE CompareH(s) /\ ~UNCHANGED <<array, i>>
      <4>1. NextGrain(s) /\ ~(Updates(Access(s).kind, array[s]) /\ Replaces(array[s], saw[s], Entry(s).h, s))
        BY <3>7 DEF CompareH, walk
      <4> QED
        BY <2>2, <3>4, <3>7, <4>1 DEF Mine
    <3>8. CASE Load(s) \/ InstallLost(s) \/ CompareE(s) \/ StoreE(s)
      BY <3>2, <3>8 DEF Load, InstallLost, CompareE, StoreE, walk
    <3> QED
      BY <1>7, <3>2, <3>3, <3>5, <3>6, <3>7, <3>8 DEF Walk
  <2>3. \/ \E k \in 1 .. made[s] : k < made[s] /\ Updates(prog[s][k].kind, ar) /\ g \in Covered(prog[s][k])
        \/ Mine /\ (array'[s] \in Later(ar) \/ (array'[s] = ar /\ i'[s] > g))
    <3>1. Later(ar)' = Later(ar)
      BY DEF Later
    <3> QED
      BY <1>1, <1>3, <2>1, <3>1 DEF Recorded, Mine
  <2> QED
    BY <1>5, <2>2, <2>3 DEF Mine
<1> QED
  BY <1>6, <1>7

\* An access that a step records is one its entry stands for.
LEMMA RecordsAreKept ==
  ASSUME Inv, NotBegun, Represented, NEW s \in Strands, Record(s) \/ Walk(s),
         NEW ar \in Arrays, NEW g \in Grain, NEW t \in Strands, Recorded(ar, g, t)'
  PROVE  KeptFor(ar, g, t)'
<1>0. TypeOK /\ Unlisted /\ OnItsGrains /\ LocksHeld /\ DagOrder /\ EntriesTouched /\ NodesCompared
  BY DEF Inv
<1>1. /\ UNCHANGED <<heb, prog, made>> /\ pc[s] # "idle"
      /\ \A u \in Strands \ {s} :
           pc'[u] = pc[u] /\ array'[u] = array[u] /\ i'[u] = i[u] /\ saw'[u] = saw[u]
  BY <1>0, OneMoves
<1>2. ASSUME Recorded(ar, g, t) PROVE list /\ made[t] > 0 /\ KeptFor(ar, g, t)
  BY <1>0, <1>2, RecordedBegun DEF Represented, KeptFor, NotBegun
<1>3. ASSUME list, made[t] > 0, KeptFor(ar, g, t) PROVE KeptFor(ar, g, t)'
  BY <1>3, EntryMovesOn DEF KeptFor
<1>4. CASE Recorded(ar, g, t)
  BY <1>2, <1>3, <1>4
<1>5. CASE ~Recorded(ar, g, t)
  <2>1. t = s
    BY <1>1, <1>5, OwnRecord
  <2>2. ASSUME hist'[ar][g].e = s PROVE KeptFor(ar, g, s)'
    BY <2>2 DEF KeptFor, Precedes, Strands, NoStrand
  <2>3. made[s] > 0 /\ made[s] \in Nat /\ First(Access(s)) \in Int
    BY <1>0, <1>1, Working DEF TypeOK, Grain
  <2>4. CASE Find(s) \/ AllocTable(s) \/ InsertLost(s)
    <3>1. \/ pc'[s] \in {"alloc", "insert"}
          \/ pc'[s] = "load" /\ array'[s] = "writer" /\ i'[s] = First(Access(s))
      BY <1>0, <2>4 DEF Find, AllocTable, InsertLost, StartWalk, Goto, NotBegun, walk, TypeOK
    <3>2. Access(s)' = Access(s)
      BY <1>1 DEF Access
    <3>3. ~(array'[s] \in Later(ar)') \/ pc'[s] # "load"
      BY <3>1 DEF Later, Arrays
    <3>4. pc'[s] = "load" => \A x \in Covered(Access(s)) : ~(i'[s] > x)
      BY <2>3, <3>1 DEF Covered
    <3>5. \E k \in 1 .. made[s] : k < made[s] /\ Updates(prog[s][k].kind, ar) /\ g \in Covered(prog[s][k])
      BY <1>1, <2>1, <3>1, <3>2, <3>3, <3>4 DEF Recorded, AtEntry
    <3> QED
      BY <1>5, <2>1, <3>5 DEF Recorded
  <2>5. CASE InsertList(s)
    <3>1. pc'[s] = "idle"
      BY <1>0, <2>5 DEF InsertList, Goto, TypeOK
    <3>2. PICK k \in 1 .. made[s] : Updates(prog[s][k].kind, ar) /\ g \in Covered(prog[s][k])
      BY <1>1, <2>1, <3>1 DEF Recorded, AtEntry
    <3>3. k = made[s]
      BY <1>5, <2>1, <2>3, <3>2 DEF Recorded
    <3>4. Updates(Access(s).kind, ar) /\ g \in Covered(Access(s))
      BY <3>2, <3>3 DEF Access
    <3>5. hist'[ar][g] = Own(s)
      BY <2>5, <3>4 DEF InsertList
    <3> QED
      BY <2>1, <2>2, <3>5 DEF Own
  <2>6. CASE Walk(s)
    <3>1. /\ ar = array[s] /\ g = i[s] /\ Updates(Access(s).kind, ar)
          /\ Install(s) \/ StoreH(s) \/ (CompareH(s) /\ ~Replaces(ar, saw[s], Entry(s).h, s))
      BY <1>5, <2>1, <2>6, WalkRecords
    <3>2. CASE Install(s)
      <4>1. hist'[ar][g] = Own(s)
        BY <1>0, <3>1, <3>2 DEF Install, TypeOK
      <4> QED
        BY <2>1, <2>2, <4>1 DEF Own
    <3>3. CASE StoreH(s)
      <4>1. hist[ar][g].e = s
        BY <1>0, <3>1, <3>3 DEF StoreH, Goto, LocksHeld, Entry
      <4>2. hist'[ar][g].e = s
        BY <1>0, <3>1, <3>3, <4>1 DEF StoreH, TypeOK
      <4> QED
        BY <2>1, <2>2, <4>2
    <3>4. CASE CompareH(s) /\ ~Replaces(ar, saw[s], Entry(s).h, s)
      <4>1. /\ pc[s] = "compare_h" /\ UNCHANGED hist /\ Entry(s) = hist[ar][g]
        BY <3>1, <3>4 DEF CompareH, Entry
      <4>2. /\ Entry(s).e \in Strands /\ Entry(s).h \in Strands /\ saw[s] \in Strands
            /\ Entry(s).e # NoStrand
        <5>1. Entry(s).e # NoStrand /\ saw[s] # NoStrand
          BY <1>0, <4>1 DEF NodesCompared, Compared, AtEntry
        <5>2. Entry(s).h # NoStrand
          BY <1>0, <4>1, <5>1 DEF EntriesTouched, Kept
        <5>3. /\ hist[ar][g].e \in Strands \cup {NoStrand} /\ hist[ar][g].h \in Strands \cup {NoStrand}
              /\ saw[s] \in Strands \cup {NoStrand}
          BY <1>0 DEF TypeOK
        <5>4. Entry(s).e \in Strands \cup {NoStrand} /\ Entry(s).h \in Strands \cup {NoStrand}
          BY <4>1, <5>3
        <5> QED
          BY <5>1, <5>2, <5>3, <5>4
      <4>3. /\ \A u \in Strands : u \in Int
            /\ \A u \in Strands : heb[u] \in Int
        <5>1. \A u \in Strands : u \in Int
          BY DEF Strands
        <5>2. \A u \in Strands : heb[u] \in Strands
          BY <1>0 DEF TypeOK
        <5> QED
          BY <5>1, <5>2
      <4>4. ~Precedes(Entry(s).e, s)
        <5>1. CASE ar = "writer"
          BY <3>4, <5>1 DEF Replaces
        <5>2. CASE ar = "rreader"
          <6>1. ~Precedes(saw[s], s)
            BY <3>4, <4>2, <4>3, <5>2 DEF Replaces, Precedes
          <6> QED
            BY <4>1, <6>1 DEF Represented
        <5>3. CASE ar = "lreader"
          <6>1. ~Precedes(Entry(s).h, s)
            BY <3>4, <4>2, <4>3, <5>3 DEF Replaces, Precedes
          <6>2. CASE Entry(s).e = Entry(s).h
            BY <6>1, <6>2
          <6>3. CASE Entry(s).e # Entry(s).h
            <7>1. lock[ar] # NoStrand /\ Entry(s).e = lock[ar]
              BY <1>0, <4>1, <6>3 DEF EntriesTouched, Kept
            <7>2. pc[Entry(s).e] # "idle"
              BY <1>0, <7>1 DEF LocksHeld
            <7> QED
              BY <2>3, <4>2, <7>2, BusyNotBefore
          <6> QED
            BY <6>2, <6>3
        <5> QED
          BY <5>1, <5>2, <5>3 DEF Arrays
      <4> QED
        BY <1>1, <2>1, <4>1, <4>2, <4>4 DEF KeptFor, Precedes
    <3> QED
      BY <3>1, <3>2, <3>3, <3>4
  <2> QED
    BY <2>4, <2>5, <2>6 DEF Record
<1> QED
  BY <1>4, <1>5

\* What a strand compares with in g_hebrew does not come before it if what it
\* has compared with in g_english did not.
LEMMA SeenIsKept ==
  ASSUME Inv, Represented, NEW s \in Strands, Record(s) \/ Walk(s),
         NEW t \in Strands, (pc[t] = "compare_h" /\ ~Precedes(saw[t], t))'
  PROVE  (~Precedes(Entry(t).e, t))'
<1>0. TypeOK /\ Unlisted /\ OnItsGrains /\ NodesCompared
  BY DEF Inv
<1>1. /\ UNCHANGED <<heb, prog, made>> /\ pc[s] # "idle"
      /\ \A u \in Strands \ {s} :
           pc'[u] = pc[u] /\ array'[u] = array[u] /\ i'[u] = i[u] /\ saw'[u] = saw[u]
  BY <1>0, OneMoves
<1>2. CASE t # s
  <2>1. /\ pc[t] = "compare_h" /\ ~Precedes(saw[t], t) /\ array'[t] = array[t] /\ i'[t] = i[t]
    BY <1>1, <1>2 DEF Precedes
  <2>2. ~Precedes(Entry(t).e, t) /\ list /\ made[t] > 0 /\ array[t] \in Arrays /\ i[t] \in Grain
    BY <1>0, <2>1, Working DEF Represented, Unlisted, OnItsGrains, AtEntry, TypeOK
  <2>3. ~Precedes(hist[array[t]][i[t]].e, t)'
    BY <2>1, <2>2, EntryMovesOn DEF Entry
  <2> QED
    BY <2>1, <2>3 DEF Entry
<1>3. CASE t = s
  <2>1. CompareE(s)
    BY <1>0, <1>3 DEF Record, Find, AllocTable, InsertList, InsertLost, Walk, LoadNull, Load, Install, InstallLost,
       CompareH, StoreE, StoreH, NextArray, End, Goto, TypeOK
  <2>2. saw'[s] = Entry(s).e /\ Entry(s)' = Entry(s)
    BY <1>0, <2>1 DEF CompareE, Entry, TypeOK
  <2> QED
    BY <1>3, <2>2
<1> QED
  BY <1>2, <1>3

\* Every step keeps recorded accesses represented.
LEMMA RepresentedStep == Inv /\ NotBegun /\ Represented /\ [Next]_vars => Represented'
<1> SUFFICES ASSUME Inv, NotBegun, Represented, [Next]_vars PROVE Represented'
  OBVIOUS
<1>0. TypeOK
  BY DEF Inv
<1>1. ASSUME NEW s \in Strands, Begin(s) PROVE Represented'
  <2>1. /\ UNCHANGED <<heb, prog, walk, hist>> /\ pc[s] = "idle" /\ pc'[s] = "find" /\ made'[s] = made[s] + 1
        /\ \A u \in Strands \ {s} : pc'[u] = pc[u] /\ made'[u] = made[u]
        /\ made[s] \in Nat
    BY <1>0, <1>1 DEF Begin, Goto, TypeOK
  <2>2. ASSUME NEW ar \in Arrays, NEW g \in Grain, NEW t \in Strands, Recorded(ar, g, t)'
        PROVE  KeptFor(ar, g, t)'
    <3>1. Recorded(ar, g, t)
      <4>1. CASE t = s
        <5>1. PICK k \in 1 .. made[s] + 1 :
                k < made[s] + 1 /\ Updates(prog[s][k].kind, ar) /\ g \in Covered(prog[s][k])
          BY <2>1, <2>2, <4>1 DEF Recorded, AtEntry
        <5>2. k \in 1 .. made[s]
          BY <2>1, <5>1
        <5> QED
          BY <2>1, <4>1, <5>1, <5>2 DEF Recorded
      <4>2. CASE t # s
        BY <2>1, <2>2, <4>2, OwnRecord DEF walk
      <4> QED
        BY <4>1, <4>2
    <3>2. KeptFor(ar, g, t)
      BY <3>1 DEF Represented
    <3> QED
      BY <2>1, <3>2 DEF KeptFor, Precedes
  <2>3. ASSUME NEW t \in Strands, (pc[t] = "compare_h" /\ ~Precedes(saw[t], t))'
        PROVE  (~Precedes(Entry(t).e, t))'
    BY <2>1, <2>3 DEF Represented, Precedes, Entry, walk
  <2> QED
    BY <2>2, <2>3 DEF Represented
<1>2. ASSUME NEW s \in Strands, Record(s) \/ Walk(s) PROVE Represented'
  <2>1. ASSUME NEW ar \in Arrays, NEW g \in Grain, NEW t \in Strands, Recorded(ar, g, t)'
        PROVE  KeptFor(ar, g, t)'
    BY <1>2, <2>1, RecordsAreKept
  <2>2. ASSUME NEW t \in Strands, (pc[t] = "compare_h" /\ ~Precedes(saw[t], t))'
        PROVE  (~Precedes(Entry(t).e, t))'
    BY <1>2, <2>2, SeenIsKept
  <2> QED
    BY <2>1, <2>2 DEF Represented
<1>3. ASSUME UNCHANGED vars PROVE Represented'
  <2>1. \A ar \in Arrays, g \in Grain, t \in Strands :
          /\ Recorded(ar, g, t)' <=> Recorded(ar, g, t)
          /\ KeptFor(ar, g, t)' <=> KeptFor(ar, g, t)
    BY <1>3, OwnRecord DEF vars, walk, KeptFor, Precedes
  <2> QED
    BY <1>3, <2>1 DEF vars, walk, Represented, Precedes, Entry
<1> QED
  BY <1>1, <1>2, <1>3 DEF Next, Finished

\* However many accesses are under way at once, a recorded access stays
\* represented: whoever replaces its entry later was still at work when its
\* strand had begun, so does not come before it.
THEOREM RecordedIsKept == Spec => []AccessesAreKept
<1>1. Init => NotBegun /\ Represented
  <2> SUFFICES ASSUME Init PROVE NotBegun /\ Represented
    OBVIOUS
  <2>1. \A s \in Strands : pc[s] = "idle" /\ made[s] = 0
    BY DEF Init
  <2>2. \A ar \in Arrays, g \in Grain : hist[ar][g].e = NoStrand
    BY DEF Init, Empty
  <2>3. \A t \in Strands, ar \in Arrays, g \in Grain : ~Recorded(ar, g, t)
    BY <2>1 DEF Recorded, AtEntry
  <2> QED
    BY <2>1, <2>2, <2>3 DEF NotBegun, Represented
<1>2. ASSUME TypeOK, Represented PROVE AccessesAreKept
  <2> SUFFICES ASSUME NEW t \in Strands, NEW ar \in Arrays, NEW g \in Grain,
                      pc[t] = "idle", Touched(ar, g, t)
               PROVE  hist[ar][g] # Empty /\ ~Precedes(hist[ar][g].e, t)
    BY DEF AccessesAreKept
  <2>1. Recorded(ar, g, t)
    BY DEF Touched, Begun, Recorded
  <2> QED
    BY <1>2, <2>1 DEF Represented, KeptFor, Empty
<1>3. Inv /\ NotBegun /\ Represented /\ [Next]_vars => (NotBegun /\ Represented)'
  BY NotBegunStep, RepresentedStep
<1>4. Inv => TypeOK
  BY DEF Inv
<1> QED
  BY <1>1, <1>2, <1>3, <1>4, InvHolds, PTL DEF Spec
=============================================================================
