-------------------- MODULE AccessHistory_serial_proofs ---------------------
(***************************************************************************)
(* What two readers and one writer of each grain are good for: if one      *)
(* access is made at a time, every race between strands is found, for any  *)
(* number of strands, any dag that two orders can describe and any         *)
(* programs of accesses of a grain or more.  With two accesses at once     *)
(* this is false, as the run missed shows.                                 *)
(***************************************************************************)
EXTENDS AccessHistory_proofs, FiniteSetTheorems

\* the granularity the history is made for
WideAccesses == \A p \in Programs : \A k \in DOMAIN p : p[k].size >= 4

----------------------------------------------------------------------------
(* The inductive invariant                                                 *)

\* One access at a time.
OneAtATime ==
  \A s, t \in Strands : pc[s] # "idle" /\ pc[t] # "idle" => s = t

\* Before the walk: nothing is stored yet, or the walk is at its beginning.
Fresh ==
  /\ ~list => racy = {} /\ \A ar \in Arrays, g \in Grain : hist[ar][g] = Empty
  /\ \A s \in Strands : pc[s] \in {"alloc", "insert"} =>
       array[s] = "writer" /\ i[s] = First(Access(s))

\* The comparison is with the entry as it is.
SawEntry == \A s \in Strands : pc[s] = "compare_h" => saw[s] = Entry(s).e

\* The accesses of a strand that are over ...
Ended(t) ==
  {prog[t][k] : k \in 1 .. (IF pc[t] = "idle" THEN made[t] ELSE made[t] - 1)}

\* ... and how far the walk of the one under way has come.
Rank == [writer |-> 0, lreader |-> 1, rreader |-> 2]
Walking == {"load"} \cup AtEntry

Behind(ar, g, t) ==
  /\ pc[t] \in Walking
  /\ Rank[ar] < Rank[array[t]] \/ (ar = array[t] /\ g < i[t])

Hits(a, kind, g) == a.kind = kind /\ g \in Covered(a)

\* Strand t has had its access of this kind to grain g compared and stored
\* in array ar.
Seen(kind, ar, g, t) ==
  \/ \E a \in Ended(t) : Hits(a, kind, g)
  \/ Behind(ar, g, t) /\ Hits(Access(t), kind, g)

Kind(ar) == IF ar = "writer" THEN "write" ELSE "read"

\* Strand s may stand for strand t in array ar.
StandsFor(ar, t, s) ==
  CASE ar = "writer"  -> t = s \/ Precedes(t, s)
    [] ar = "lreader" -> heb[t] <= heb[s]
    [] ar = "rreader" -> t <= s

\* The entry stands for all strands seen so far; that of the writers as long
\* as no race was found.
Storing(ar, g) == \E s \in Strands : pc[s] = "store_h" /\ array[s] = ar /\ i[s] = g

Represents(ar, g, s) ==
  \A t \in Strands : Seen(Kind(ar), ar, g, t) => StandsFor(ar, t, s)

EntryStandsForAll ==
  \A ar \in Arrays, g \in Grain :
    /\ ~Storing(ar, g)
    /\ ar = "writer" => g \notin racy
    /\ \E t \in Strands : Seen(Kind(ar), ar, g, t)
    => hist[ar][g].e \in Strands /\ Represents(ar, g, hist[ar][g].e)

\* A strand that stores itself will stand for all of them.
StorerStandsForAll ==
  \A s \in Strands :
    /\ pc[s] \in {"store_e", "store_h"}
    /\ array[s] = "writer" => i[s] \notin racy
    => Represents(array[s], i[s], s)

\* A write behind the leftmost reader is below all readers.
LeftIsChecked ==
  \A s \in Strands, g \in Grain :
    g \notin racy /\ Behind("lreader", g, s) /\ Hits(Access(s), "write", g) =>
      \A t \in Strands : Seen("read", "writer", g, t) => heb[t] <= heb[s]

\* No two strands race on a grain where no race was found.
WritersInOrder ==
  \A g \in Grain, s, t \in Strands :
    g \notin racy /\ Seen("write", "writer", g, s) /\ Seen("write", "writer", g, t)
      => ~Parallel(s, t)

ReadersInOrder ==
  \A g \in Grain, s, t \in Strands :
    g \notin racy /\ Seen("write", "rreader", g, s) /\ Seen("read", "writer", g, t)
      => ~Parallel(s, t)

Facts ==
  /\ EntryStandsForAll /\ StorerStandsForAll /\ LeftIsChecked
  /\ WritersInOrder /\ ReadersInOrder

OneInv == OneAtATime /\ Fresh /\ SawEntry /\ Facts

\* With what holds of any number of workers.
Alone == Inv /\ OneInv
----------------------------------------------------------------------------
(* Who has been seen                                                       *)

\* The orders are orders.
LEMMA Numbers ==
  ASSUME TypeOK
  PROVE  \A t \in Strands : t \in Int /\ heb[t] \in Int
  BY DEF TypeOK, Strands

\* Where a strand may be.
LEMMA Place ==
  ASSUME TypeOK, NEW s \in Strands
  PROVE  i[s] \in Int /\ array[s] \in Arrays
<1>1. i[s] \in 0 .. NumSlots /\ array[s] \in Arrays
  BY DEF TypeOK
<1> QED
  BY <1>1 DEF NumSlots

\* While one strand works the others rest.
LEMMA OthersIdle ==
  ASSUME OneAtATime, NEW s \in Strands, pc[s] # "idle",
         NEW t \in Strands, t # s
  PROVE  pc[t] = "idle"
  BY DEF OneAtATime

\* For a strand at rest it does not matter which array is asked.
LEMMA SeenAtRest ==
  ASSUME NEW t \in Strands, pc[t] = "idle", NEW kind, NEW g, NEW ar, NEW br
  PROVE  Seen(kind, ar, g, t) <=> Seen(kind, br, g, t)
  BY DEF Seen, Behind, Walking, AtEntry

\* Who was seen has begun.
LEMMA SeenBegun ==
  ASSUME TypeOK, NEW t \in Strands, NEW kind, NEW ar, NEW g,
         Seen(kind, ar, g, t)
  PROVE  made[t] > 0
<1>1. made[t] \in Nat /\ (made[t] = 0 => pc[t] = "idle")
  BY DEF TypeOK
<1>2. CASE Ended(t) # {}
  BY <1>1, <1>2 DEF Ended
<1>3. CASE Behind(ar, g, t)
  BY <1>1, <1>3 DEF Behind, Walking, AtEntry
<1> QED
  BY <1>2, <1>3 DEF Seen

\* The strand at work precedes nobody who has begun.
LEMMA NotBefore ==
  ASSUME TypeOK, DagOrder, NEW s \in Strands, pc[s] # "idle",
         NEW t \in Strands, made[t] > 0
  PROVE  ~Precedes(s, t)
  BY DEF DagOrder, Done

\* What a strand has behind it changes only when it moves.
LEMMA SeenStays ==
  ASSUME NEW t \in Strands, prog' = prog, made'[t] = made[t], pc'[t] = pc[t],
         array'[t] = array[t], i'[t] = i[t],
         NEW kind, NEW ar, NEW g
  PROVE  Seen(kind, ar, g, t)' <=> Seen(kind, ar, g, t)
<1>1. Ended(t)' = Ended(t)
  BY DEF Ended
<1>2. Access(t)' = Access(t)
  BY DEF Access
<1>3. Behind(ar, g, t)' <=> Behind(ar, g, t)
  BY DEF Behind
<1> QED
  BY <1>1, <1>2, <1>3 DEF Seen, Hits

\* A turn of a loop: the grain at which the strand was is behind it.
LEMMA SeenNext ==
  ASSUME TypeOK, NEW s \in Strands, pc[s] \in Walking,
         pc' = [pc EXCEPT ![s] = "load"], NextGrain(s),
         prog' = prog, made' = made, i[s] \in Covered(Access(s)),
         NEW kind, NEW ar \in Arrays, NEW g \in Grain, NEW t \in Strands
  PROVE  Seen(kind, ar, g, t)' <=>
           \/ Seen(kind, ar, g, t)
           \/ t = s /\ ar = array[s] /\ g = i[s] /\ kind = Access(s).kind
<1>1. CASE t # s
  <2>1. pc'[t] = pc[t] /\ array'[t] = array[t] /\ i'[t] = i[t] /\ made'[t] = made[t]
    BY <1>1 DEF NextGrain, TypeOK
  <2> QED
    BY <1>1, <2>1, SeenStays
<1>2. CASE t = s
  <2>1. pc'[s] = "load" /\ pc[s] # "idle" /\ i'[s] = i[s] + 1 /\ array' = array
    BY DEF NextGrain, TypeOK, Walking, AtEntry
  <2>2. Ended(s)' = Ended(s) /\ Access(s)' = Access(s)
    BY <2>1 DEF Ended, Access
  <2>3. i[s] \in Int /\ g \in Int /\ array[s] \in Arrays
    BY DEF TypeOK, Grain, NumSlots
  <2>4. Behind(ar, g, s)' <=> Behind(ar, g, s) \/ (ar = array[s] /\ g = i[s])
    BY <2>1, <2>3 DEF Behind, Walking, Rank, Arrays
  <2> QED
    BY <1>2, <2>2, <2>4 DEF Seen, Hits
<1> QED
  BY <1>1, <1>2

\* Two strands that a comparison finds ordered.
LEMMA Ordered ==
  ASSUME TypeOK, DagOrder, NEW e \in Strands, NEW s \in Strands,
         ~Precedes(s, e), ~RacesWith(e, e, s)
  PROVE  e = s \/ Precedes(e, s)
  BY Numbers DEF DagOrder, RacesWith, Precedes

\* Before somebody before.
LEMMA Earlier ==
  ASSUME TypeOK, NEW t \in Strands, NEW e \in Strands, NEW s \in Strands,
         t = e \/ Precedes(t, e), e = s \/ Precedes(e, s)
  PROVE  t = s \/ Precedes(t, s)
  BY Numbers DEF Precedes

\* Outside a store the two nodes of an entry are one strand's.
LEMMA EntryWhole ==
  ASSUME TypeOK, LocksHeld, EntriesTouched, OneAtATime,
         NEW s \in Strands, pc[s] \notin {"idle", "store_h"},
         NEW ar \in Arrays, NEW g \in Grain
  PROVE  /\ hist[ar][g].e = hist[ar][g].h
         /\ hist[ar][g] = Empty <=> hist[ar][g].e = NoStrand
         /\ hist[ar][g].e # NoStrand =>
              hist[ar][g].e \in Strands /\ made[hist[ar][g].e] > 0
<1>1. hist[ar][g] \in [e : Strands \cup {NoStrand}, h : Strands \cup {NoStrand}]
  BY DEF TypeOK
<1>2. lock[ar] = NoStrand
  <2> SUFFICES ASSUME lock[ar] # NoStrand PROVE FALSE
    OBVIOUS
  <2>1. lock[ar] \in Strands /\ pc[lock[ar]] = "store_h"
    BY DEF TypeOK, LocksHeld
  <2> QED
    BY <2>1 DEF OneAtATime
<1>3. Kept(ar, g)
  BY DEF EntriesTouched
<1>4. hist[ar][g].e = hist[ar][g].h
  BY <1>2, <1>3 DEF Kept
<1>5. ASSUME hist[ar][g].e # NoStrand
      PROVE  hist[ar][g].e \in Strands /\ made[hist[ar][g].e] > 0
  <2>1. hist[ar][g].e \in Strands
    BY <1>1, <1>5
  <2>2. Touched(ar, g, hist[ar][g].e)
    BY <1>3, <1>5 DEF Kept
  <2> QED
    BY <2>1, <2>2, TouchedBegun
<1>6. hist[ar][g] = Empty <=> hist[ar][g].e = NoStrand
  BY <1>1, <1>4 DEF Empty
<1> QED
  BY <1>4, <1>5, <1>6

----------------------------------------------------------------------------
(* Steps that nobody else can tell                                         *)

\* A step that leaves the history alone and puts nothing behind a strand.
LEMMA QuietStep ==
  ASSUME TypeOK, Facts, NEW s \in Strands,
         \A t \in Strands : pc[t] # "store_h",
         \A t \in Strands : pc'[t] \notin {"store_e", "store_h"},
         \A t \in Strands \ {s} : pc'[t] = "idle",
         UNCHANGED <<heb, hist, racy>>,
         \A kind \in {"read", "write"}, ar \in Arrays, g \in Grain, t \in Strands :
           Seen(kind, ar, g, t)' <=> Seen(kind, ar, g, t),
         \A g \in Grain :
           (Behind("lreader", g, s) /\ Hits(Access(s), "write", g))'
             => Behind("lreader", g, s) /\ Hits(Access(s), "write", g)
  PROVE  Facts'
<1>k. \A ar \in Arrays : Kind(ar) \in {"read", "write"}
  BY DEF Kind
<1>a. {"writer", "lreader", "rreader"} = Arrays
  BY DEF Arrays
<1>1. \A ar \in Arrays, g \in Grain, e \in Strands :
        Represents(ar, g, e) => Represents(ar, g, e)'
  BY <1>k, ZenonT(60) DEF Represents, StandsFor, Precedes
<1>2. EntryStandsForAll'
  <2> SUFFICES ASSUME NEW ar \in Arrays, NEW g \in Grain,
                      ar = "writer" => g \notin racy,
                      NEW t \in Strands, Seen(Kind(ar), ar, g, t)'
               PROVE  hist[ar][g].e \in Strands /\ Represents(ar, g, hist[ar][g].e)'
    BY DEF EntryStandsForAll
  <2>1. ~Storing(ar, g) /\ Seen(Kind(ar), ar, g, t)
    BY <1>k DEF Storing
  <2>2. hist[ar][g].e \in Strands /\ Represents(ar, g, hist[ar][g].e)
    BY <2>1 DEF Facts, EntryStandsForAll
  <2>3. PICK e \in Strands : e = hist[ar][g].e
    BY <2>2
  <2>4. Represents(ar, g, e)'
    BY <1>1, <2>2, <2>3
  <2> QED
    BY <2>2, <2>3, <2>4 DEF Represents
<1>3. StorerStandsForAll'
  BY DEF StorerStandsForAll
<1>4. LeftIsChecked'
  <2> SUFFICES ASSUME NEW u \in Strands, NEW g \in Grain, g \notin racy,
                      (Behind("lreader", g, u) /\ Hits(Access(u), "write", g))',
                      NEW t \in Strands, Seen("read", "writer", g, t)'
               PROVE  heb[t] <= heb[u]
    BY DEF LeftIsChecked
  <2>1. u = s
    BY DEF Behind, Walking, AtEntry
  <2>2. Behind("lreader", g, s) /\ Hits(Access(s), "write", g)
    BY <2>1
  <2>3. Seen("read", "writer", g, t)
    BY <1>a
  <2> QED
    BY <2>1, <2>2, <2>3 DEF Facts, LeftIsChecked
<1>5. WritersInOrder' /\ ReadersInOrder'
  BY <1>a DEF Facts, WritersInOrder, ReadersInOrder, Parallel, Precedes
<1> QED
  BY <1>2, <1>3, <1>4, <1>5 DEF Facts

\* A strand begins an access.
LEMMA BeginKeeps ==
  ASSUME Alone, NEW s \in Strands, Begin(s), \A t \in Strands : pc[t] = "idle"
  PROVE  Facts'
<1>1. /\ pc'[s] = "find" /\ pc[s] = "idle" /\ made'[s] = made[s] + 1 /\ prog' = prog
      /\ made[s] \in Nat /\ array' = array /\ i' = i
      /\ \A t \in Strands \ {s} : pc'[t] = pc[t] /\ made'[t] = made[t]
  BY DEF Alone, Inv, OneInv, Begin, Goto, walk, TypeOK
<1>2. Ended(s)' = Ended(s)
  BY <1>1 DEF Ended
<1>3. \A kind, ar, g : Seen(kind, ar, g, s)' <=> Seen(kind, ar, g, s)
  BY <1>1, <1>2 DEF Seen, Behind, Walking, AtEntry
<1>4. \A kind \in {"read", "write"}, ar \in Arrays, g \in Grain, t \in Strands :
        Seen(kind, ar, g, t)' <=> Seen(kind, ar, g, t)
  <2> SUFFICES ASSUME NEW kind \in {"read", "write"}, NEW ar \in Arrays,
                      NEW g \in Grain, NEW t \in Strands
               PROVE  Seen(kind, ar, g, t)' <=> Seen(kind, ar, g, t)
    OBVIOUS
  <2>1. CASE t = s
    BY <1>3, <2>1
  <2>2. CASE t # s
    <3>1. /\ pc'[t] = pc[t] /\ made'[t] = made[t] /\ array'[t] = array[t]
          /\ i'[t] = i[t] /\ prog' = prog
      BY <1>1, <2>2
    <3> QED
      BY <3>1, SeenStays
  <2> QED
    BY <2>1, <2>2
<1>5. \A g : ~ Behind("lreader", g, s)'
  BY <1>1 DEF Behind, Walking, AtEntry
<1>6. UNCHANGED <<heb, hist, racy>>
  BY DEF Begin
<1>7. /\ \A t \in Strands : pc[t] # "store_h"
      /\ \A t \in Strands : pc'[t] \notin {"store_e", "store_h"}
      /\ \A t \in Strands \ {s} : pc'[t] = "idle"
  BY <1>1
<1>8. TypeOK /\ Facts
  BY DEF Alone, Inv, OneInv
<1> QED
  BY <1>4, <1>5, <1>6, <1>7, <1>8, QuietStep

\* Before and after the walk, and between its loops.
LEMMA OutsideKeeps ==
  ASSUME Alone, NEW s \in Strands,
         \/ Find(s) \/ AllocTable(s) \/ InsertLost(s) \/ Load(s) \/ InstallLost(s)
         \/ CompareE(s) \/ NextArray(s) \/ End(s)
         \/ LoadNull(s) /\ pc'[s] = "install"
  PROVE  Facts'
<1>0. TypeOK /\ Facts /\ OneAtATime /\ Fresh /\ OnItsGrains
  BY DEF Alone, Inv, OneInv
<1>1. /\ pc[s] # "idle" /\ UNCHANGED <<heb, prog, made>>
      /\ \A t \in Strands \ {s} :
           pc'[t] = pc[t] /\ array'[t] = array[t] /\ i'[t] = i[t]
  BY <1>0, OneMoves DEF Record, Walk
<1>2. \A t \in Strands \ {s} : pc[t] = "idle"
  BY <1>0, <1>1, OthersIdle
<1>3. UNCHANGED <<hist, racy>>
  BY DEF Find, AllocTable, InsertLost, Load, InstallLost, CompareE, NextArray, End,
         LoadNull
<1>4. pc[s] # "store_h" /\ pc'[s] \notin {"store_e", "store_h"}
  BY <1>0 DEF Find, AllocTable, InsertLost, Load, InstallLost, CompareE, NextArray,
              End, LoadNull, Goto, TypeOK
<1>5. Access(s)' = Access(s)
  BY <1>1 DEF Access
<1>6. /\ First(Access(s)) \in Int /\ Past(Access(s)) \in Int /\ i[s] \in Int
      /\ array[s] \in Arrays
      /\ \A g \in Covered(Access(s)) : First(Access(s)) <= g /\ g < Past(Access(s))
  <2>1. First(Access(s)) \in Int /\ Past(Access(s)) \in Int
    BY <1>0, <1>1, Working DEF Grain, NumSlots
  <2>2. i[s] \in Int /\ array[s] \in Arrays
    BY <1>0, Place
  <2> QED
    BY <2>1, <2>2 DEF Covered
<1>7. \A kind \in {"read", "write"}, ar \in Arrays, g \in Grain :
        /\ Seen(kind, ar, g, s)' <=> Seen(kind, ar, g, s)
        /\ (Behind("lreader", g, s) /\ Hits(Access(s), "write", g))'
             => Behind("lreader", g, s) /\ Hits(Access(s), "write", g)
  <2> SUFFICES ASSUME NEW kind \in {"read", "write"}, NEW ar \in Arrays,
                      NEW g \in Grain
               PROVE  /\ Seen(kind, ar, g, s)' <=> Seen(kind, ar, g, s)
                      /\ (Behind("lreader", g, s) /\ Hits(Access(s), "write", g))'
                           => Behind("lreader", g, s) /\ Hits(Access(s), "write", g)
    OBVIOUS
  <2>1. CASE Find(s) \/ AllocTable(s) \/ InsertLost(s)
    <3>1. /\ pc[s] \notin Walking \cup {"idle"}
          /\ pc'[s] \in {"alloc", "insert", "load"}
          /\ pc'[s] = "load" => array'[s] = "writer" /\ i'[s] = First(Access(s))
      BY <1>0, <2>1 DEF Find, AllocTable, InsertLost, StartWalk, Goto, TypeOK, Fresh,
                        Walking, AtEntry, walk
    <3>2. Ended(s)' = Ended(s)
      BY <1>1, <3>1 DEF Ended, Walking
    <3>3. g \in Covered(Access(s)) => \A br \in Arrays : ~ Behind(br, g, s)'
      BY <1>6, <3>1 DEF Behind, Rank, Arrays, Walking, AtEntry, Grain, NumSlots
    <3>4. \A br \in Arrays : ~ Behind(br, g, s)
      BY <3>1 DEF Behind
    <3>5. "lreader" \in Arrays
      BY DEF Arrays
    <3> QED
      BY <1>5, <3>2, <3>3, <3>4, <3>5 DEF Seen, Hits
  <2>2. CASE \/ Load(s) \/ InstallLost(s) \/ CompareE(s)
             \/ LoadNull(s) /\ pc'[s] = "install"
    <3>1. /\ pc[s] \in Walking /\ pc'[s] \in Walking /\ array'[s] = array[s]
          /\ i'[s] = i[s] /\ pc[s] # "idle" /\ pc'[s] # "idle"
      BY <1>0, <2>2 DEF Load, InstallLost, CompareE, LoadNull, NextGrain, Goto,
                        TypeOK, Walking, AtEntry, walk
    <3>2. Ended(s)' = Ended(s)
      BY <1>1, <3>1 DEF Ended
    <3> QED
      BY <1>5, <3>1, <3>2 DEF Seen, Hits, Behind
  <2>3. CASE NextArray(s)
    <3>1. /\ pc[s] = "load" /\ pc' = pc /\ array[s] # "rreader"
          /\ array'[s] = After[array[s]] /\ i'[s] = First(Access(s))
          /\ i[s] >= Past(Access(s))
      BY <1>0, <2>3 DEF NextArray, TypeOK
    <3>2. Ended(s)' = Ended(s)
      BY <1>1, <3>1 DEF Ended
    <3>3. g \in Covered(Access(s)) =>
            \A br \in Arrays : Behind(br, g, s)' <=> Behind(br, g, s)
      BY <1>6, <3>1 DEF Behind, Rank, Arrays, Walking, After, Grain, NumSlots
    <3>4. "lreader" \in Arrays
      BY DEF Arrays
    <3> QED
      BY <1>5, <3>2, <3>3, <3>4 DEF Seen, Hits
  <2>4. CASE End(s)
    <3>1. /\ pc[s] = "load" /\ pc'[s] = "idle" /\ array[s] = "rreader"
          /\ i[s] >= Past(Access(s)) /\ made[s] \in Nat /\ made[s] > 0
      BY <1>0, <2>4 DEF End, Goto, TypeOK
    <3>2. Ended(s)' = Ended(s) \cup {Access(s)}
      BY <1>1, <3>1 DEF Ended, Access
    <3>3. g \in Covered(Access(s)) => Behind(ar, g, s)
      BY <1>6, <3>1 DEF Behind, Rank, Arrays, Walking, Grain, NumSlots
    <3>4. \A br : ~ Behind(br, g, s)'
      BY <3>1 DEF Behind, Walking, AtEntry
    <3> QED
      BY <3>2, <3>3, <3>4 DEF Seen, Hits
  <2> QED
    BY <2>1, <2>2, <2>3, <2>4
<1>8. \A kind \in {"read", "write"}, ar \in Arrays, g \in Grain, t \in Strands :
        Seen(kind, ar, g, t)' <=> Seen(kind, ar, g, t)
  <2> SUFFICES ASSUME NEW kind \in {"read", "write"}, NEW ar \in Arrays,
                      NEW g \in Grain, NEW t \in Strands, t # s
               PROVE  Seen(kind, ar, g, t)' <=> Seen(kind, ar, g, t)
    BY <1>7
  <2>1. /\ pc'[t] = pc[t] /\ made'[t] = made[t] /\ array'[t] = array[t]
        /\ i'[t] = i[t] /\ prog' = prog
    BY <1>1
  <2> QED
    BY <2>1, SeenStays
<1>9. /\ \A t \in Strands : pc[t] # "store_h"
      /\ \A t \in Strands : pc'[t] \notin {"store_e", "store_h"}
      /\ \A t \in Strands \ {s} : pc'[t] = "idle"
  BY <1>1, <1>2, <1>4
<1>10. \A g \in Grain :
         (Behind("lreader", g, s) /\ Hits(Access(s), "write", g))'
           => Behind("lreader", g, s) /\ Hits(Access(s), "write", g)
  <2>1. "write" \in {"read", "write"} /\ "lreader" \in Arrays
    BY DEF Arrays
  <2> QED
    BY <1>7, <2>1
<1> QED
  BY <1>0, <1>1, <1>3, <1>8, <1>9, <1>10, QuietStep

----------------------------------------------------------------------------
(* The steps of the walk that count                                        *)

\* The strand that walks, and what is at its grain.
LEMMA AtGrain ==
  ASSUME Alone, NEW s \in Strands, pc[s] \in Walking, i[s] < Past(Access(s))
  PROVE  /\ pc[s] # "idle" /\ i[s] \in Covered(Access(s)) /\ i[s] \in Grain
         /\ array[s] \in Arrays /\ Access(s).kind \in {"read", "write"}
         /\ \A t \in Strands \ {s} : pc[t] = "idle"
<1>0. TypeOK /\ OnItsGrains /\ OneAtATime
  BY DEF Alone, Inv, OneInv
<1>1. pc[s] # "idle"
  BY DEF Walking, AtEntry
<1>2. /\ Covered(Access(s)) \subseteq Grain /\ First(Access(s)) \in Grain
      /\ Past(Access(s)) \in 0 .. NumSlots /\ made[s] > 0
  BY <1>0, <1>1, Working
<1>3. i[s] \in Int /\ array[s] \in Arrays
  BY <1>0, Place
<1>4. i[s] \in Covered(Access(s))
  BY <1>0, <1>2, <1>3 DEF OnItsGrains, Walking, Covered, Grain, NumSlots
<1>5. Access(s).kind \in {"read", "write"}
  BY <1>0, <1>2, AccessBegun DEF Accesses
<1> QED
  BY <1>0, <1>1, <1>2, <1>3, <1>4, <1>5, OthersIdle

\* A turn of a loop keeps the facts if the entry at the grain stands for the
\* strand and for all before it, and what the strand was compared with is in
\* order.
LEMMA TurnKeeps ==
  ASSUME Alone, NEW s \in Strands, pc[s] \in Walking, i[s] < Past(Access(s)),
         pc' = [pc EXCEPT ![s] = "load"], NextGrain(s),
         UNCHANGED <<heb, prog, made>>, racy \subseteq racy',
         \A ar \in Arrays, g \in Grain :
           ar # array[s] \/ g # i[s] => hist'[ar][g] = hist[ar][g],
         \* the entry afterwards
         Access(s).kind = Kind(array[s])
           /\ (array[s] = "writer" => i[s] \notin racy')
           => /\ hist'[array[s]][i[s]].e \in Strands
              /\ StandsFor(array[s], s, hist'[array[s]][i[s]].e)
              /\ Represents(array[s], i[s], hist'[array[s]][i[s]].e),
         Access(s).kind # Kind(array[s]) =>
           /\ hist'[array[s]][i[s]] = hist[array[s]][i[s]]
           /\ pc[s] # "store_h",
         \* the comparisons
         Access(s).kind = "write" /\ array[s] = "writer" /\ i[s] \notin racy' =>
           \A t \in Strands : Seen("write", "writer", i[s], t) => ~Parallel(s, t),
         Access(s).kind = "write" /\ array[s] = "lreader" /\ i[s] \notin racy' =>
           \A t \in Strands : Seen("read", "writer", i[s], t) => heb[t] <= heb[s],
         Access(s).kind = "write" /\ array[s] = "rreader" /\ i[s] \notin racy' =>
           \A t \in Strands : Seen("read", "writer", i[s], t) => ~Parallel(s, t),
         Access(s).kind = "read" /\ array[s] = "writer" /\ i[s] \notin racy' =>
           \A t \in Strands : Seen("write", "rreader", i[s], t) => ~Parallel(s, t)
  PROVE  Facts'
<1>0. /\ TypeOK /\ EntryStandsForAll /\ StorerStandsForAll /\ LeftIsChecked
      /\ WritersInOrder /\ ReadersInOrder
  BY DEF Alone, Inv, OneInv, Facts
<1>1. /\ pc[s] # "idle" /\ i[s] \in Covered(Access(s)) /\ i[s] \in Grain
      /\ array[s] \in Arrays /\ Access(s).kind \in {"read", "write"}
      /\ \A t \in Strands \ {s} : pc[t] = "idle"
  BY AtGrain
<1>2. \A kind \in {"read", "write"}, ar \in Arrays, g \in Grain, t \in Strands :
        Seen(kind, ar, g, t)' <=>
          \/ Seen(kind, ar, g, t)
          \/ t = s /\ ar = array[s] /\ g = i[s] /\ kind = Access(s).kind
  BY <1>0, <1>1, SeenNext
<1>3. pc'[s] = "load" /\ \A t \in Strands \ {s} : pc'[t] = "idle"
  BY <1>0, <1>1 DEF TypeOK
<1>4. heb' = heb /\ Access(s)' = Access(s) /\ array' = array /\ i'[s] = i[s] + 1
  BY <1>0 DEF Access, NextGrain, TypeOK
<1>k. \A ar \in Arrays : Kind(ar) \in {"read", "write"}
  BY DEF Kind
<1>a. {"writer", "lreader", "rreader"} = Arrays
  BY DEF Arrays
<1>p. \A t, u \in Strands : Parallel(t, u)' <=> Parallel(t, u)
  BY <1>4 DEF Parallel, Precedes
<1>q. \A t, u \in Strands : Parallel(t, u) <=> Parallel(u, t)
  BY DEF Parallel
<1>r. \A t \in Strands : ~Parallel(t, t)
  BY DEF Parallel
<1>5. EntryStandsForAll'
  <2> SUFFICES ASSUME NEW ar \in Arrays, NEW g \in Grain,
                      ar = "writer" => g \notin racy',
                      NEW t \in Strands, Seen(Kind(ar), ar, g, t)'
               PROVE  hist'[ar][g].e \in Strands /\ Represents(ar, g, hist[ar][g].e)'
    BY DEF EntryStandsForAll
  <2>e. \A e \in Strands, u \in Strands :
          StandsFor(ar, u, e)' <=> StandsFor(ar, u, e)
    BY <1>4 DEF StandsFor, Precedes
  <2>1. CASE ar = array[s] /\ g = i[s] /\ Access(s).kind = Kind(array[s])
    <3>1. /\ hist'[ar][g].e \in Strands
          /\ StandsFor(ar, s, hist'[ar][g].e)
          /\ Represents(ar, g, hist'[ar][g].e)
      BY <2>1
    <3>2. PICK e \in Strands : e = hist'[ar][g].e
      BY <3>1
    <3>3. \A u \in Strands : Seen(Kind(ar), ar, g, u)' => StandsFor(ar, u, e)
      BY <1>2, <1>k, <3>1, <3>2 DEF Represents
    <3>4. Represents(ar, g, e)'
      BY <2>e, <3>3 DEF Represents
    <3> QED
      BY <3>2, <3>4 DEF Represents
  <2>2. CASE ~(ar = array[s] /\ g = i[s] /\ Access(s).kind = Kind(array[s]))
    <3>1. \A u \in Strands : Seen(Kind(ar), ar, g, u)' <=> Seen(Kind(ar), ar, g, u)
      BY <1>2, <1>k, <2>2
    <3>2. hist'[ar][g] = hist[ar][g]
      BY <2>2
    <3>3. ~Storing(ar, g)
      BY <1>1, <2>2 DEF Storing
    <3>4. hist[ar][g].e \in Strands /\ Represents(ar, g, hist[ar][g].e)
      BY <1>0, <3>1, <3>3 DEF EntryStandsForAll
    <3>5. PICK e \in Strands : e = hist[ar][g].e
      BY <3>4
    <3>6. Represents(ar, g, e)'
      BY <2>e, <3>1, <3>4, <3>5 DEF Represents
    <3> QED
      BY <3>2, <3>5, <3>6 DEF Represents
  <2> QED
    BY <2>1, <2>2
<1>6. StorerStandsForAll'
  BY <1>3 DEF StorerStandsForAll
<1>7. LeftIsChecked'
  <2> SUFFICES ASSUME NEW u \in Strands, NEW g \in Grain, g \notin racy',
                      Behind("lreader", g, u)', Hits(Access(u), "write", g)',
                      NEW t \in Strands, Seen("read", "writer", g, t)'
               PROVE  heb[t] <= heb[u]
    BY <1>4 DEF LeftIsChecked
  <2>1. u = s
    BY <1>3 DEF Behind, Walking, AtEntry
  <2>2. Access(s).kind = "write" /\ g \in Covered(Access(s))
    BY <1>4, <2>1 DEF Hits
  <2>3. Seen("read", "writer", g, t)
    BY <1>2, <1>a, <2>2
  <2>4. CASE Behind("lreader", g, s)
    BY <1>0, <2>1, <2>2, <2>3, <2>4 DEF LeftIsChecked, Hits
  <2>5. CASE ~Behind("lreader", g, s)
    <3>1. i[s] \in Int /\ g \in Int
      BY <1>1 DEF Grain, NumSlots
    <3>2. array[s] = "lreader" /\ g = i[s]
      BY <1>1, <1>4, <2>1, <2>5, <3>1 DEF Behind, Rank, Arrays
    <3> QED
      BY <2>1, <2>2, <2>3, <3>2
  <2> QED
    BY <2>4, <2>5
<1>8. WritersInOrder'
  <2> SUFFICES ASSUME NEW g \in Grain, NEW t \in Strands, NEW u \in Strands,
                      g \notin racy', Seen("write", "writer", g, t)',
                      Seen("write", "writer", g, u)'
               PROVE  ~Parallel(t, u)
    BY <1>p DEF WritersInOrder
  <2>1. \A v \in Strands : Seen("write", "writer", g, v)' =>
          \/ Seen("write", "writer", g, v)
          \/ v = s /\ array[s] = "writer" /\ g = i[s] /\ Access(s).kind = "write"
    BY <1>2, <1>a
  <2>2. CASE Seen("write", "writer", g, t) /\ Seen("write", "writer", g, u)
    BY <1>0, <2>2 DEF WritersInOrder
  <2> QED
    BY <1>q, <1>r, <2>1, <2>2
<1>9. ReadersInOrder'
  <2> SUFFICES ASSUME NEW g \in Grain, NEW t \in Strands, NEW u \in Strands,
                      g \notin racy', Seen("write", "rreader", g, t)',
                      Seen("read", "writer", g, u)'
               PROVE  ~Parallel(t, u)
    BY <1>p DEF ReadersInOrder
  <2>1. /\ \A v \in Strands : Seen("write", "rreader", g, v)' =>
             \/ Seen("write", "rreader", g, v)
             \/ v = s /\ array[s] = "rreader" /\ g = i[s] /\ Access(s).kind = "write"
        /\ \A v \in Strands : Seen("read", "writer", g, v)' =>
             \/ Seen("read", "writer", g, v)
             \/ v = s /\ array[s] = "writer" /\ g = i[s] /\ Access(s).kind = "read"
    BY <1>2, <1>a
  <2>2. CASE Seen("write", "rreader", g, t) /\ Seen("read", "writer", g, u)
    <3>1. g \notin racy
      OBVIOUS
    <3> QED
      BY <1>0, <2>2, <3>1 DEF ReadersInOrder
  <2> QED
    BY <1>q, <1>r, <2>1, <2>2
<1> QED
  BY <1>5, <1>6, <1>7, <1>8, <1>9 DEF Facts

\* Who updates an array is of the kind the array keeps.
LEMMA KindUpdates ==
  ASSUME NEW kind \in {"read", "write"}, NEW ar \in Arrays
  PROVE  Updates(kind, ar) <=> kind = Kind(ar)
  BY DEF Updates, Kind, Arrays

\* At an empty entry nobody was before.
LEMMA NobodySeen ==
  ASSUME Alone, NEW s \in Strands, pc[s] \in Walking, pc[s] # "store_h",
         i[s] < Past(Access(s)), Entry(s) = Empty,
         array[s] = "writer" => i[s] \notin racy
  PROVE  \A t \in Strands : ~Seen(Kind(array[s]), array[s], i[s], t)
<1>1. /\ i[s] \in Grain /\ array[s] \in Arrays
      /\ \A t \in Strands \ {s} : pc[t] = "idle"
  BY AtGrain
<1>2. ~Storing(array[s], i[s])
  BY <1>1 DEF Storing
<1>3. hist[array[s]][i[s]].e \notin Strands
  BY DEF Entry, Empty, NoStrand, Strands
<1>4. EntryStandsForAll
  BY DEF Alone, Inv, OneInv, Facts
<1> QED
  BY <1>1, <1>2, <1>3, <1>4 DEF EntryStandsForAll

\* For the others it does not matter which array is asked.
LEMMA SeenElsewhere ==
  ASSUME Alone, NEW s \in Strands, pc[s] # "idle", NEW t \in Strands, t # s,
         NEW kind, NEW g, NEW ar, NEW br, Seen(kind, ar, g, t)
  PROVE  Seen(kind, br, g, t)
<1>1. pc[t] = "idle"
  BY OthersIdle DEF Alone, Inv, OneInv
<1> QED
  BY <1>1, SeenAtRest

\* A strand stands for itself.
LEMMA StandsForItself ==
  ASSUME TypeOK, NEW ar \in Arrays, NEW s \in Strands
  PROVE  StandsFor(ar, s, s)
<1>1. s \in Int /\ heb[s] \in Int
  BY Numbers
<1>2. CASE ar = "writer"
  BY <1>2 DEF StandsFor
<1>3. CASE ar = "lreader"
  BY <1>1, <1>3 DEF StandsFor
<1>4. CASE ar = "rreader"
  BY <1>1, <1>4 DEF StandsFor
<1> QED
  BY <1>2, <1>3, <1>4 DEF Arrays

\* Nothing to compare with.
LEMMA NullKeeps ==
  ASSUME Alone, NEW s \in Strands, LoadNull(s), pc'[s] # "install"
  PROVE  Facts'
<1>1. /\ pc[s] = "load" /\ i[s] < Past(Access(s)) /\ Entry(s) = Empty
      /\ UNCHANGED <<heb, prog, made, hist, racy>>
      /\ pc[s] \in Walking /\ pc[s] # "store_h"
  BY DEF LoadNull, Walking
<1>2. ~Updates(Access(s).kind, array[s]) /\ NextGrain(s) /\ pc' = pc
  BY DEF LoadNull, Goto, Alone, Inv, TypeOK
<1>3. pc' = [pc EXCEPT ![s] = "load"]
  BY <1>1, <1>2 DEF Alone, Inv, OneInv, TypeOK
<1>4. /\ pc[s] # "idle" /\ array[s] \in Arrays
      /\ Access(s).kind \in {"read", "write"} /\ TypeOK
  BY <1>1, AtGrain DEF Alone, Inv, OneInv
<1>5. Access(s).kind # Kind(array[s])
  BY <1>2, <1>4, KindUpdates
<1>6. array[s] = "writer" /\ i[s] \notin racy =>
        \A t \in Strands : ~Seen("write", "writer", i[s], t)
  BY <1>1, NobodySeen DEF Kind
<1>7. array[s] = "lreader" \/ array[s] = "rreader" =>
        \A t \in Strands : ~Seen("read", array[s], i[s], t)
  BY <1>1, NobodySeen DEF Kind
<1>8. \A t \in Strands : t # s => \A kind, ar, br :
        Seen(kind, ar, i[s], t) => Seen(kind, br, i[s], t)
  BY <1>4, SeenElsewhere
<1>9. heb[s] <= heb[s] /\ ~Parallel(s, s)
  BY <1>4, Numbers DEF Parallel
<1>10. Access(s).kind = "write" => array[s] # "writer"
  BY <1>5 DEF Kind
<1>11. array[s] = "lreader" =>
         \A t \in Strands : Seen("read", "writer", i[s], t) => heb[t] <= heb[s]
  BY <1>7, <1>8, <1>9
<1>12. array[s] = "rreader" =>
         \A t \in Strands : Seen("read", "writer", i[s], t) => ~Parallel(s, t)
  BY <1>7, <1>8, <1>9
<1>13. array[s] = "writer" /\ i[s] \notin racy =>
         \A t \in Strands : Seen("write", "rreader", i[s], t) => ~Parallel(s, t)
  BY <1>6, <1>8, <1>9
<1> QED
  BY <1>1, <1>2, <1>3, <1>5, <1>10, <1>11, <1>12, <1>13, TurnKeeps

\* The first of its kind at the grain.
LEMMA InstallKeeps ==
  ASSUME Alone, NEW s \in Strands, Install(s)
  PROVE  Facts'
<1>0. TypeOK /\ OnItsGrains
  BY DEF Alone, Inv, OneInv
<1>1. /\ pc[s] = "install" /\ pc' = [pc EXCEPT ![s] = "load"] /\ Entry(s) = Empty
      /\ UNCHANGED <<heb, prog, made, racy>> /\ NextGrain(s)
      /\ pc[s] \in Walking /\ pc[s] # "store_h"
  BY DEF Install, Goto, Walking, AtEntry
<1>2. i[s] \in Covered(Access(s)) /\ Updates(Access(s).kind, array[s])
  BY <1>0, <1>1 DEF OnItsGrains, AtEntry
<1>w. Past(Access(s)) \in Int /\ First(Access(s)) \in Int
  BY <1>0, <1>1, Working DEF Grain, NumSlots
<1>3. i[s] < Past(Access(s))
  BY <1>2, <1>w DEF Covered
<1>4. /\ i[s] \in Grain /\ array[s] \in Arrays
      /\ Access(s).kind \in {"read", "write"}
  BY <1>1, <1>3, AtGrain
<1>5. Access(s).kind = Kind(array[s])
  BY <1>2, <1>4, KindUpdates
<1>6. hist' = [hist EXCEPT ![array[s]][i[s]] = Own(s)]
  BY DEF Install
<1>7. /\ hist'[array[s]][i[s]] = Own(s)
      /\ \A ar \in Arrays, g \in Grain :
           ar # array[s] \/ g # i[s] => hist'[ar][g] = hist[ar][g]
  BY <1>0, <1>4, <1>6 DEF TypeOK
<1>8. hist'[array[s]][i[s]].e = s
  BY <1>7 DEF Own
<1>9. (array[s] = "writer" => i[s] \notin racy) =>
        \A t \in Strands : ~Seen(Kind(array[s]), array[s], i[s], t)
  BY <1>1, <1>3, NobodySeen
<1>10. (array[s] = "writer" => i[s] \notin racy) => Represents(array[s], i[s], s)
  BY <1>9 DEF Represents
<1>11. StandsFor(array[s], s, s)
  BY <1>0, <1>4, StandsForItself
<1>12. Access(s).kind = "write" => array[s] = "writer"
  BY <1>4, <1>5 DEF Kind, Arrays
<1>13. Access(s).kind = "read" => array[s] # "writer"
  BY <1>5 DEF Kind
<1>14. Access(s).kind = "write" /\ array[s] = "writer" /\ i[s] \notin racy =>
         \A t \in Strands : Seen("write", "writer", i[s], t) => ~Parallel(s, t)
  BY <1>9 DEF Kind
<1>15. Access(s).kind = Kind(array[s]) /\ (array[s] = "writer" => i[s] \notin racy')
         => /\ hist'[array[s]][i[s]].e \in Strands
            /\ StandsFor(array[s], s, hist'[array[s]][i[s]].e)
            /\ Represents(array[s], i[s], hist'[array[s]][i[s]].e)
  BY <1>1, <1>8, <1>10, <1>11
<1> QED
  BY <1>1, <1>3, <1>5, <1>7, <1>12, <1>13, <1>14, <1>15, TurnKeeps

\* What a strand that is about to decide knows of the entry.
LEMMA AtCompareH ==
  ASSUME Alone, NEW s \in Strands, CompareH(s)
  PROVE  /\ pc[s] = "compare_h" /\ pc[s] \in Walking
         /\ i[s] < Past(Access(s)) /\ i[s] \in Grain /\ array[s] \in Arrays
         /\ Access(s).kind \in {"read", "write"}
         /\ \A t \in Strands \ {s} : pc[t] = "idle"
         /\ saw[s] = Entry(s).h /\ Entry(s).e = saw[s]
         /\ saw[s] \in Strands /\ ~Precedes(s, saw[s])
         /\ UNCHANGED <<heb, prog, made, hist>> /\ racy \subseteq racy'
         /\ i[s] \notin racy' /\ Checks(Access(s).kind, array[s]) =>
              saw[s] = s \/ Precedes(saw[s], s)
         /\ (array[s] = "writer" => i[s] \notin racy) =>
              Represents(array[s], i[s], saw[s])
<1>0. /\ TypeOK /\ DagOrder /\ OnItsGrains /\ LocksHeld /\ EntriesTouched
      /\ OneAtATime /\ SawEntry /\ EntryStandsForAll
  BY DEF Alone, Inv, OneInv, Facts
<1>1. /\ pc[s] = "compare_h" /\ pc[s] \in Walking
      /\ UNCHANGED <<heb, prog, made, hist>> /\ racy \subseteq racy'
  BY DEF CompareH, Walking, AtEntry
<1>2. i[s] \in Covered(Access(s))
  BY <1>0, <1>1 DEF OnItsGrains, AtEntry
<1>w. Past(Access(s)) \in Int /\ First(Access(s)) \in Int
  BY <1>0, <1>1, Working DEF Grain, NumSlots
<1>3. i[s] < Past(Access(s))
  BY <1>2, <1>w DEF Covered
<1>4. /\ i[s] \in Grain /\ array[s] \in Arrays
      /\ Access(s).kind \in {"read", "write"}
      /\ \A t \in Strands \ {s} : pc[t] = "idle"
  BY <1>1, <1>3, AtGrain
<1>5. saw[s] = Entry(s).e
  BY <1>0, <1>1 DEF SawEntry
<1>6. /\ Entry(s).e = Entry(s).h
      /\ Entry(s) = Empty <=> Entry(s).e = NoStrand
      /\ Entry(s).e # NoStrand => Entry(s).e \in Strands /\ made[Entry(s).e] > 0
  BY <1>0, <1>1, <1>4, EntryWhole DEF Entry
<1>7. saw[s] # NoStrand
  BY <1>1, <1>5 DEF Alone, Inv, OneInv, NodesCompared, Compared, AtEntry
<1>8. saw[s] \in Strands /\ ~Precedes(s, saw[s])
  BY <1>0, <1>1, <1>5, <1>6, <1>7, NotBefore
<1>9. i[s] \notin racy' /\ Checks(Access(s).kind, array[s]) =>
        saw[s] = s \/ Precedes(saw[s], s)
  <2> SUFFICES ASSUME i[s] \notin racy', Checks(Access(s).kind, array[s])
               PROVE  saw[s] = s \/ Precedes(saw[s], s)
    OBVIOUS
  <2>1. ~RacesWith(saw[s], Entry(s).h, s)
    BY DEF CompareH
  <2>2. ~RacesWith(saw[s], saw[s], s)
    BY <1>5, <1>6, <2>1
  <2> QED
    BY <1>0, <1>8, <2>2, Ordered
<1>10. (array[s] = "writer" => i[s] \notin racy) =>
         Represents(array[s], i[s], saw[s])
  <2>1. ~Storing(array[s], i[s])
    BY <1>1, <1>4 DEF Storing
  <2>2. CASE \E t \in Strands : Seen(Kind(array[s]), array[s], i[s], t)
    BY <1>0, <1>4, <1>5, <2>1, <2>2 DEF EntryStandsForAll, Entry
  <2>3. CASE ~ \E t \in Strands : Seen(Kind(array[s]), array[s], i[s], t)
    BY <2>3 DEF Represents
  <2> QED
    BY <2>2, <2>3
<1> QED
  BY <1>1, <1>3, <1>4, <1>5, <1>6, <1>8, <1>9, <1>10

\* Between readers: who a reader entry stands for.
LEMMA ReadersBefore ==
  ASSUME Alone, NEW s \in Strands, pc[s] # "idle", NEW e \in Strands,
         NEW g, NEW ar \in {"lreader", "rreader"}, Represents(ar, g, e),
         NEW t \in Strands, t # s, Seen("read", "writer", g, t)
  PROVE  IF ar = "lreader" THEN heb[t] <= heb[e] ELSE t <= e
<1>1. Seen("read", ar, g, t)
  BY SeenElsewhere
<1>2. StandsFor(ar, t, e)
  BY <1>1 DEF Represents, Kind
<1>3. CASE ar = "lreader"
  BY <1>2, <1>3 DEF StandsFor
<1>4. CASE ar = "rreader"
  BY <1>2, <1>4 DEF StandsFor
<1> QED
  BY <1>3, <1>4

\* The entry is kept.
LEMMA KeepKeeps ==
  ASSUME Alone, NEW s \in Strands, CompareH(s), pc'[s] # "store_e"
  PROVE  Facts'
<1> DEFINE e == saw[s]
           kind == Access(s).kind
<1>0. TypeOK /\ DagOrder /\ LeftIsChecked
  BY DEF Alone, Inv, OneInv, Facts
<1>1. /\ pc[s] = "compare_h" /\ pc[s] \in Walking
      /\ i[s] < Past(Access(s)) /\ i[s] \in Grain /\ array[s] \in Arrays
      /\ kind \in {"read", "write"}
      /\ Entry(s).h = e /\ Entry(s).e = e
      /\ e \in Strands /\ ~Precedes(s, e)
      /\ UNCHANGED <<heb, prog, made, hist>> /\ racy \subseteq racy'
      /\ i[s] \notin racy' /\ Checks(kind, array[s]) => e = s \/ Precedes(e, s)
      /\ (array[s] = "writer" => i[s] \notin racy) => Represents(array[s], i[s], e)
  BY AtCompareH
<1>2. /\ ~(Updates(kind, array[s]) /\ Replaces(array[s], e, e, s))
      /\ pc' = [pc EXCEPT ![s] = "load"] /\ NextGrain(s)
  BY <1>0, <1>1 DEF CompareH, Goto, TypeOK
<1>n. \A t \in Strands : t \in Int /\ heb[t] \in Int
  BY <1>0, Numbers
<1>o. \A t, u \in Strands : heb[t] = heb[u] => t = u
  BY <1>0 DEF DagOrder
<1>b. pc[s] # "idle"
  BY <1>1
<1>e. hist'[array[s]][i[s]].e = e
  BY <1>1 DEF Entry
<1> HIDE DEF e, kind
<1>u. Updates(kind, array[s]) <=> kind = Kind(array[s])
  BY <1>1, KindUpdates
<1>3. kind = Kind(array[s]) => array[s] # "writer"
  BY <1>2, <1>u DEF Replaces
<1>4. kind = Kind(array[s]) => StandsFor(array[s], s, e)
  <2> SUFFICES ASSUME kind = Kind(array[s]) PROVE StandsFor(array[s], s, e)
    OBVIOUS
  <2>1. ~Replaces(array[s], e, e, s)
    BY <1>2, <1>u
  <2>2. CASE array[s] = "lreader"
    <3>1. ~(heb[e] < heb[s])
      BY <2>1, <2>2 DEF Replaces
    <3> QED
      BY <1>1, <1>n, <2>2, <3>1 DEF StandsFor
  <2>3. CASE array[s] = "rreader"
    <3>1. ~(e < s)
      BY <2>1, <2>3 DEF Replaces
    <3> QED
      BY <1>1, <1>n, <2>3, <3>1 DEF StandsFor
  <2> QED
    BY <1>1, <1>3, <2>2, <2>3 DEF Arrays
<1>5. kind = Kind(array[s]) /\ (array[s] = "writer" => i[s] \notin racy')
        => /\ hist'[array[s]][i[s]].e \in Strands
           /\ StandsFor(array[s], s, hist'[array[s]][i[s]].e)
           /\ Represents(array[s], i[s], hist'[array[s]][i[s]].e)
  BY <1>1, <1>3, <1>4, <1>e
<1>6. kind = "write" => array[s] # "writer"
  BY <1>3 DEF Kind
<1>7. kind = "write" /\ array[s] = "lreader" /\ i[s] \notin racy' =>
        \A t \in Strands : Seen("read", "writer", i[s], t) => heb[t] <= heb[s]
  <2> SUFFICES ASSUME kind = "write", array[s] = "lreader", i[s] \notin racy',
                      NEW t \in Strands, Seen("read", "writer", i[s], t), t # s
               PROVE  heb[t] <= heb[s]
    BY <1>n
  <2>1. e = s \/ Precedes(e, s)
    BY <1>1 DEF Checks
  <2>2. Represents("lreader", i[s], e)
    BY <1>1
  <2>3. heb[t] <= heb[e]
    BY <1>1, <1>b, <2>2, ReadersBefore
  <2> QED
    BY <1>1, <1>n, <2>1, <2>3 DEF Precedes
<1>8. kind = "write" /\ array[s] = "rreader" /\ i[s] \notin racy' =>
        \A t \in Strands : Seen("read", "writer", i[s], t) => ~Parallel(s, t)
  <2> SUFFICES ASSUME kind = "write", array[s] = "rreader", i[s] \notin racy',
                      NEW t \in Strands, Seen("read", "writer", i[s], t), t # s
               PROVE  ~Parallel(s, t)
    BY DEF Parallel
  <2>1. e = s \/ Precedes(e, s)
    BY <1>1 DEF Checks
  <2>2. Represents("rreader", i[s], e)
    BY <1>1
  <2>3. t <= e
    BY <1>1, <1>b, <2>2, ReadersBefore
  <2>4. Behind("lreader", i[s], s)
    BY <1>1 DEF Behind, Rank
  <2>5. i[s] \in Covered(Access(s))
    BY <1>1, AtGrain
  <2>6. heb[t] <= heb[s]
    BY <1>0, <1>1, <2>4, <2>5 DEF LeftIsChecked, Hits, kind
  <2> QED
    BY <1>1, <1>n, <1>o, <2>1, <2>3, <2>6 DEF Precedes, Parallel
<1>9. kind = "read" /\ array[s] = "writer" /\ i[s] \notin racy' =>
        \A t \in Strands : Seen("write", "rreader", i[s], t) => ~Parallel(s, t)
  <2> SUFFICES ASSUME kind = "read", array[s] = "writer", i[s] \notin racy',
                      NEW t \in Strands, Seen("write", "rreader", i[s], t), t # s
               PROVE  ~Parallel(s, t)
    BY DEF Parallel
  <2>1. e = s \/ Precedes(e, s)
    BY <1>1 DEF Checks
  <2>2. Represents("writer", i[s], e)
    BY <1>1
  <2>3. Seen("write", "writer", i[s], t)
    BY <1>b, SeenElsewhere
  <2>4. t = e \/ Precedes(t, e)
    BY <2>2, <2>3 DEF Represents, Kind, StandsFor
  <2>5. Precedes(t, s)
    BY <1>0, <1>1, <2>1, <2>4, Earlier
  <2> QED
    BY <2>5 DEF Parallel
<1>10. pc[s] # "store_h" /\ hist' = hist
  BY <1>1
<1> QED
  BY <1>1, <1>2, <1>5, <1>6, <1>7, <1>8, <1>9, <1>10, TurnKeeps DEF kind

\* The entry is to be replaced.
LEMMA ReplaceKeeps ==
  ASSUME Alone, NEW s \in Strands, CompareH(s), pc'[s] = "store_e"
  PROVE  Facts'
<1> DEFINE e == saw[s]
           kind == Access(s).kind
<1>0. TypeOK /\ DagOrder /\ Facts
  BY DEF Alone, Inv, OneInv
<1>1. /\ pc[s] = "compare_h" /\ i[s] \in Grain /\ array[s] \in Arrays
      /\ kind \in {"read", "write"}
      /\ \A t \in Strands \ {s} : pc[t] = "idle"
      /\ Entry(s).h = e /\ e \in Strands /\ ~Precedes(s, e)
      /\ UNCHANGED <<heb, prog, made, hist>> /\ racy \subseteq racy'
      /\ i[s] \notin racy' /\ Checks(kind, array[s]) => e = s \/ Precedes(e, s)
      /\ (array[s] = "writer" => i[s] \notin racy) => Represents(array[s], i[s], e)
  BY AtCompareH
<1>2. /\ Updates(kind, array[s]) /\ Replaces(array[s], e, e, s)
      /\ pc' = [pc EXCEPT ![s] = "store_e"] /\ UNCHANGED <<array, i, saw>>
  BY <1>0, <1>1 DEF CompareH, Goto, TypeOK, walk
<1>n. \A t \in Strands : t \in Int /\ heb[t] \in Int
  BY <1>0, Numbers
<1> HIDE DEF e, kind
<1>3. \A k, ar, g : \A t \in Strands : Seen(k, ar, g, t)' <=> Seen(k, ar, g, t)
  <2> SUFFICES ASSUME NEW k, NEW ar, NEW g, NEW t \in Strands
               PROVE  Seen(k, ar, g, t)' <=> Seen(k, ar, g, t)
    OBVIOUS
  <2>1. /\ pc'[t] = pc[t] \/ (t = s /\ pc[t] = "compare_h" /\ pc'[t] = "store_e")
    BY <1>0, <1>1, <1>2 DEF TypeOK
  <2>2. Ended(t)' = Ended(t) /\ Access(t)' = Access(t)
    BY <1>1, <2>1 DEF Ended, Access
  <2>3. Behind(ar, g, t)' <=> Behind(ar, g, t)
    BY <1>2, <2>1 DEF Behind, Walking, AtEntry
  <2> QED
    BY <2>2, <2>3 DEF Seen, Hits
<1>4. \A ar, g : \A u \in Strands : Represents(ar, g, u)' <=> Represents(ar, g, u)
  BY <1>1, <1>3, ZenonT(60) DEF Represents, StandsFor, Precedes
<1>5. \A t \in Strands : pc[t] # "store_h" /\ pc'[t] # "store_h"
  BY <1>0, <1>1, <1>2 DEF TypeOK
<1>6. EntryStandsForAll'
  <2> SUFFICES ASSUME NEW ar \in Arrays, NEW g \in Grain,
                      ar = "writer" => g \notin racy',
                      NEW t \in Strands, Seen(Kind(ar), ar, g, t)'
               PROVE  hist[ar][g].e \in Strands /\ Represents(ar, g, hist[ar][g].e)'
    BY <1>1 DEF EntryStandsForAll
  <2>1. hist[ar][g].e \in Strands /\ Represents(ar, g, hist[ar][g].e)
    BY <1>0, <1>1, <1>3, <1>5 DEF Facts, EntryStandsForAll, Storing
  <2>2. PICK u \in Strands : u = hist[ar][g].e
    BY <2>1
  <2>3. Represents(ar, g, u)'
    BY <1>4, <2>1, <2>2
  <2> QED
    BY <1>1, <2>2, <2>3 DEF Represents
<1>7. StorerStandsForAll'
  <2> SUFFICES ASSUME array[s] = "writer" => i[s] \notin racy'
               PROVE  Represents(array[s], i[s], s)
    <3>1. \A t \in Strands \ {s} : pc'[t] \notin {"store_e", "store_h"}
      BY <1>1, <1>2
    <3> QED
      BY <1>2, <1>4, <3>1 DEF StorerStandsForAll
  <2>1. Represents(array[s], i[s], e)
    BY <1>1
  <2> SUFFICES ASSUME NEW t \in Strands, StandsFor(array[s], t, e)
               PROVE  StandsFor(array[s], t, s)
    BY <2>1 DEF Represents
  <2>2. CASE array[s] = "writer"
    <3>1. Checks(kind, array[s])
      BY <2>2 DEF Checks
    <3>2. e = s \/ Precedes(e, s)
      BY <1>1, <2>2, <3>1
    <3>3. t = e \/ Precedes(t, e)
      BY <2>2 DEF StandsFor
    <3>4. t = s \/ Precedes(t, s)
      BY <1>0, <1>1, <3>2, <3>3, Earlier
    <3> QED
      BY <2>2, <3>4 DEF StandsFor
  <2>3. CASE array[s] = "lreader"
    <3>1. s < e \/ heb[e] < heb[s]
      BY <1>2, <2>3 DEF Replaces
    <3>2. heb[t] <= heb[e]
      BY <2>3 DEF StandsFor
    <3>3. heb[t] <= heb[s]
      BY <1>1, <1>n, <3>1, <3>2 DEF Precedes
    <3> QED
      BY <2>3, <3>3 DEF StandsFor
  <2>4. CASE array[s] = "rreader"
    <3>1. e < s
      BY <1>2, <2>4 DEF Replaces
    <3>2. t <= e
      BY <2>4 DEF StandsFor
    <3>3. t <= s
      BY <1>1, <1>n, <3>1, <3>2
    <3> QED
      BY <2>4, <3>3 DEF StandsFor
  <2> QED
    BY <1>1, <2>2, <2>3, <2>4 DEF Arrays
<1>8. LeftIsChecked'
  <2>1. \A t \in Strands, g \in Grain :
          /\ Behind("lreader", g, t)' => Behind("lreader", g, t)
          /\ Access(t)' = Access(t)
    BY <1>1, <1>2 DEF Behind, Walking, AtEntry, Access, TypeOK
  <2> QED
    BY <1>0, <1>1, <1>3, <2>1 DEF Facts, LeftIsChecked, Hits
<1>9. WritersInOrder' /\ ReadersInOrder'
  <2>1. \A t, u \in Strands : Parallel(t, u)' <=> Parallel(t, u)
    BY <1>1 DEF Parallel, Precedes
  <2> QED
    BY <1>0, <1>1, <1>3, <2>1 DEF Facts, WritersInOrder, ReadersInOrder
<1> QED
  BY <1>6, <1>7, <1>8, <1>9 DEF Facts

\* The first half of a store.
LEMMA StoreEKeeps ==
  ASSUME Alone, NEW s \in Strands, StoreE(s)
  PROVE  Facts'
<1>0. TypeOK /\ OnItsGrains /\ OneAtATime /\ Facts
  BY DEF Alone, Inv, OneInv
<1>1. /\ pc[s] = "store_e" /\ pc' = [pc EXCEPT ![s] = "store_h"]
      /\ UNCHANGED <<heb, prog, made, array, i, racy>>
      /\ hist' = [hist EXCEPT ![array[s]][i[s]] = [e |-> s, h |-> @.h]]
  BY DEF StoreE, Goto, walk
<1>2. i[s] \in Grain /\ array[s] \in Arrays
  BY <1>0, <1>1, Working, Place DEF OnItsGrains, AtEntry
<1>3. \A t \in Strands \ {s} : pc[t] = "idle"
  BY <1>0, <1>1, OthersIdle
<1>4. \A k, ar, g : \A t \in Strands : Seen(k, ar, g, t)' <=> Seen(k, ar, g, t)
  <2> SUFFICES ASSUME NEW k, NEW ar, NEW g, NEW t \in Strands
               PROVE  Seen(k, ar, g, t)' <=> Seen(k, ar, g, t)
    OBVIOUS
  <2>1. pc'[t] = pc[t] \/ (t = s /\ pc[t] = "store_e" /\ pc'[t] = "store_h")
    BY <1>0, <1>1 DEF TypeOK
  <2>2. Ended(t)' = Ended(t) /\ Access(t)' = Access(t)
    BY <1>1, <2>1 DEF Ended, Access
  <2>3. Behind(ar, g, t)' <=> Behind(ar, g, t)
    BY <1>1, <2>1 DEF Behind, Walking, AtEntry
  <2> QED
    BY <2>2, <2>3 DEF Seen, Hits
<1>5. \A ar, g : \A u \in Strands : Represents(ar, g, u)' <=> Represents(ar, g, u)
  BY <1>1, <1>4, ZenonT(60) DEF Represents, StandsFor, Precedes
<1>6. EntryStandsForAll'
  <2> SUFFICES ASSUME NEW ar \in Arrays, NEW g \in Grain, ~Storing(ar, g)',
                      ar = "writer" => g \notin racy,
                      NEW t \in Strands, Seen(Kind(ar), ar, g, t)'
               PROVE  hist'[ar][g].e \in Strands /\ Represents(ar, g, hist[ar][g].e)'
    BY <1>1 DEF EntryStandsForAll
  <2>1. ar # array[s] \/ g # i[s]
    BY <1>0, <1>1 DEF Storing, TypeOK
  <2>2. hist'[ar][g] = hist[ar][g]
    BY <1>0, <1>1, <1>2, <2>1 DEF TypeOK
  <2>3. ~Storing(ar, g)
    BY <1>1, <1>3 DEF Storing
  <2>4. hist[ar][g].e \in Strands /\ Represents(ar, g, hist[ar][g].e)
    BY <1>0, <1>4, <2>3 DEF Facts, EntryStandsForAll
  <2>5. PICK u \in Strands : u = hist[ar][g].e
    BY <2>4
  <2>6. Represents(ar, g, u)'
    BY <1>5, <2>4, <2>5
  <2> QED
    BY <2>2, <2>5, <2>6 DEF Represents
<1>7. StorerStandsForAll'
  <2> SUFFICES ASSUME array[s] = "writer" => i[s] \notin racy
               PROVE  Represents(array[s], i[s], s)
    <3>1. \A t \in Strands \ {s} : pc'[t] \notin {"store_e", "store_h"}
      BY <1>1, <1>3
    <3> QED
      BY <1>1, <1>5, <3>1 DEF StorerStandsForAll
  <2> QED
    BY <1>0, <1>1 DEF Facts, StorerStandsForAll
<1>8. LeftIsChecked'
  <2>1. \A t \in Strands, g \in Grain :
          /\ Behind("lreader", g, t)' => Behind("lreader", g, t)
          /\ Access(t)' = Access(t)
    BY <1>0, <1>1 DEF Behind, Walking, AtEntry, Access, TypeOK
  <2> QED
    BY <1>0, <1>1, <1>4, <2>1 DEF Facts, LeftIsChecked, Hits
<1>9. WritersInOrder' /\ ReadersInOrder'
  <2>1. \A t, u \in Strands : Parallel(t, u)' <=> Parallel(t, u)
    BY <1>1 DEF Parallel, Precedes
  <2> QED
    BY <1>0, <1>1, <1>4, <2>1 DEF Facts, WritersInOrder, ReadersInOrder
<1> QED
  BY <1>6, <1>7, <1>8, <1>9 DEF Facts

\* The second half: the entry is the strand's own.
LEMMA StoreHKeeps ==
  ASSUME Alone, NEW s \in Strands, StoreH(s)
  PROVE  Facts'
<1>0. TypeOK /\ OnItsGrains /\ LocksHeld /\ StorerStandsForAll
  BY DEF Alone, Inv, OneInv, Facts
<1>1. /\ pc[s] = "store_h" /\ pc' = [pc EXCEPT ![s] = "load"]
      /\ UNCHANGED <<heb, prog, made, racy>> /\ NextGrain(s) /\ pc[s] \in Walking
      /\ hist' = [hist EXCEPT ![array[s]][i[s]] = [e |-> @.e, h |-> s]]
  BY DEF StoreH, Goto, Walking, AtEntry
<1>2. i[s] \in Covered(Access(s)) /\ Updates(Access(s).kind, array[s])
  BY <1>0, <1>1 DEF OnItsGrains, AtEntry
<1>w. Past(Access(s)) \in Int /\ First(Access(s)) \in Int
  BY <1>0, <1>1, Working DEF Grain, NumSlots
<1>3. i[s] < Past(Access(s))
  BY <1>2, <1>w DEF Covered
<1>4. /\ i[s] \in Grain /\ array[s] \in Arrays
      /\ Access(s).kind \in {"read", "write"}
  BY <1>1, <1>3, AtGrain
<1>5. Access(s).kind = Kind(array[s])
  BY <1>2, <1>4, KindUpdates
<1>6. Entry(s).e = s
  BY <1>0, <1>1 DEF LocksHeld
<1>7. /\ hist'[array[s]][i[s]].e = s
      /\ \A ar \in Arrays, g \in Grain :
           ar # array[s] \/ g # i[s] => hist'[ar][g] = hist[ar][g]
  BY <1>0, <1>1, <1>4, <1>6 DEF TypeOK, Entry
<1>8. (array[s] = "writer" => i[s] \notin racy) => Represents(array[s], i[s], s)
  BY <1>0, <1>1 DEF StorerStandsForAll
<1>9. StandsFor(array[s], s, s)
  BY <1>0, <1>4, StandsForItself
<1>10. Access(s).kind = Kind(array[s]) /\ (array[s] = "writer" => i[s] \notin racy')
         => /\ hist'[array[s]][i[s]].e \in Strands
            /\ StandsFor(array[s], s, hist'[array[s]][i[s]].e)
            /\ Represents(array[s], i[s], hist'[array[s]][i[s]].e)
  BY <1>1, <1>7, <1>8, <1>9
<1>11. Access(s).kind = "write" => array[s] = "writer"
  BY <1>4, <1>5 DEF Kind, Arrays
<1>12. Access(s).kind = "read" => array[s] # "writer"
  BY <1>5 DEF Kind
<1>13. array[s] = "writer" /\ i[s] \notin racy =>
         \A t \in Strands : Seen("write", "writer", i[s], t) => ~Parallel(s, t)
  BY <1>8 DEF Represents, Kind, StandsFor, Parallel
<1> QED
  BY <1>1, <1>3, <1>5, <1>7, <1>10, <1>11, <1>12, <1>13, TurnKeeps

\* The first access of all.
LEMMA InsertKeeps ==
  ASSUME Alone, NEW s \in Strands, InsertList(s)
  PROVE  Facts'
<1>0. TypeOK /\ OneAtATime /\ Fresh /\ EntryStandsForAll
  BY DEF Alone, Inv, OneInv, Facts
<1>1. /\ ~list /\ pc[s] = "insert" /\ pc' = [pc EXCEPT ![s] = "idle"]
      /\ UNCHANGED <<heb, prog, made, array, i, racy>>
      /\ \A ar \in Arrays, g \in Grain :
           Updates(Access(s).kind, ar) /\ g \in Covered(Access(s)) =>
             hist'[ar][g] = Own(s)
  BY DEF InsertList, Goto, walk
<1>2. \A t \in Strands \ {s} : pc[t] = "idle"
  BY <1>0, <1>1, OthersIdle
<1>3. racy = {} /\ \A ar \in Arrays, g \in Grain : hist[ar][g].e \notin Strands
  BY <1>0, <1>1 DEF Fresh, Empty, NoStrand, Strands
<1>4. \A t \in Strands, ar \in Arrays, g \in Grain : ~Behind(ar, g, t)
  BY <1>1, <1>2 DEF Behind, Walking, AtEntry
<1>5. \A t \in Strands, ar \in Arrays, g \in Grain : ~Seen(Kind(ar), ar, g, t)
  BY <1>0, <1>1, <1>2, <1>3 DEF EntryStandsForAll, Storing
<1>6. \A t \in Strands, g \in Grain, kind \in {"read", "write"} :
        \A a \in Ended(t) : ~Hits(a, kind, g)
  <2>1. \A t \in Strands, g \in Grain :
          ~Seen("write", "writer", g, t) /\ ~Seen("read", "lreader", g, t)
    BY <1>5 DEF Kind, Arrays
  <2> QED
    BY <2>1 DEF Seen
<1>7. made[s] \in Nat /\ made[s] > 0
  BY <1>0, <1>1 DEF TypeOK
<1>8. /\ Ended(s)' = Ended(s) \cup {Access(s)}
      /\ \A t \in Strands \ {s} : Ended(t)' = Ended(t)
  <2>1. /\ pc'[s] = "idle" /\ \A t \in Strands \ {s} : pc'[t] = pc[t]
    BY <1>0, <1>1 DEF TypeOK
  <2> QED
    BY <1>1, <1>7, <2>1 DEF Ended, Access
<1>9. \A t \in Strands, ar \in Arrays, g \in Grain : ~Behind(ar, g, t)'
  BY <1>0, <1>1, <1>2 DEF Behind, Walking, AtEntry, TypeOK
<1>10. \A t \in Strands, ar \in Arrays, g \in Grain, kind \in {"read", "write"} :
         Seen(kind, ar, g, t)' => t = s /\ Hits(Access(s), kind, g)
  <2> SUFFICES ASSUME NEW t \in Strands, NEW ar \in Arrays, NEW g \in Grain,
                      NEW kind \in {"read", "write"}, Seen(kind, ar, g, t)'
               PROVE  t = s /\ Hits(Access(s), kind, g)
    OBVIOUS
  <2>1. PICK a \in Ended(t)' : Hits(a, kind, g)
    BY <1>9 DEF Seen, Hits
  <2> QED
    BY <1>6, <1>8, <2>1
<1>11. EntryStandsForAll'
  <2> SUFFICES ASSUME NEW ar \in Arrays, NEW g \in Grain,
                      NEW t \in Strands, Seen(Kind(ar), ar, g, t)'
               PROVE  hist'[ar][g].e \in Strands /\ Represents(ar, g, hist[ar][g].e)'
    BY DEF EntryStandsForAll
  <2>1. Kind(ar) \in {"read", "write"}
    BY DEF Kind
  <2>2. Access(s).kind = Kind(ar) /\ g \in Covered(Access(s))
    BY <1>10, <2>1 DEF Hits
  <2>3. hist'[ar][g].e = s
    BY <1>1, <2>1, <2>2, KindUpdates DEF Own
  <2>4. StandsFor(ar, s, s)'
    <3>1. StandsFor(ar, s, s)
      BY <1>0, StandsForItself
    <3> QED
      BY <1>1, <3>1 DEF StandsFor, Precedes
  <2>5. Represents(ar, g, s)'
    BY <1>10, <2>1, <2>4 DEF Represents
  <2> QED
    BY <2>3, <2>5 DEF Represents
<1>12. StorerStandsForAll'
  BY <1>0, <1>1, <1>2 DEF StorerStandsForAll, TypeOK
<1>a. {"writer", "lreader", "rreader"} = Arrays
  BY DEF Arrays
<1>13. LeftIsChecked'
  BY <1>9, <1>a DEF LeftIsChecked
<1>14. WritersInOrder' /\ ReadersInOrder'
  <2>1. \A t, u \in Strands : Parallel(t, u)' => t # u
    BY DEF Parallel
  <2>2. WritersInOrder'
    BY <1>10, <1>a, <2>1 DEF WritersInOrder
  <2>3. ReadersInOrder'
    BY <1>10, <1>a, <2>1 DEF ReadersInOrder
  <2> QED
    BY <2>2, <2>3
<1> QED
  BY <1>11, <1>12, <1>13, <1>14 DEF Facts

----------------------------------------------------------------------------
(* Every step keeps the invariant                                          *)

\* The limit on accesses under way: a strand begins when all others rest.
LEMMA BeginsAlone ==
  ASSUME MaxBusy = 1, NEW s \in Strands, Begin(s)
  PROVE  \A t \in Strands : pc[t] = "idle"
<1>1. IsFiniteSet(Busy)
  <2>1. IsFiniteSet(Strands)
    BY FS_Interval, StrandAssumption DEF Strands
  <2> QED
    BY <2>1, FS_Subset DEF Busy
<1>2. Cardinality(Busy) \in Nat /\ Cardinality(Busy) < 1
  BY <1>1, FS_CardinalityType DEF Begin
<1>3. Busy = {}
  BY <1>1, <1>2, FS_EmptySet
<1> QED
  BY <1>3 DEF Busy

\* Each action by its own lemma.
LEMMA FactsStep ==
  ASSUME MaxBusy = 1, Alone, [Next]_vars
  PROVE  Facts'
<1>1. ASSUME NEW s \in Strands, Begin(s) PROVE Facts'
  BY <1>1, BeginsAlone, BeginKeeps
<1>2. ASSUME NEW s \in Strands, Record(s) PROVE Facts'
  BY <1>2, OutsideKeeps, InsertKeeps DEF Record
<1>3. ASSUME NEW s \in Strands, Walk(s) PROVE Facts'
  <2>1. CASE LoadNull(s)
    BY <2>1, OutsideKeeps, NullKeeps
  <2>2. CASE Install(s)
    BY <2>2, InstallKeeps
  <2>3. CASE CompareH(s)
    BY <2>3, KeepKeeps, ReplaceKeeps
  <2>4. CASE StoreE(s)
    BY <2>4, StoreEKeeps
  <2>5. CASE StoreH(s)
    BY <2>5, StoreHKeeps
  <2>6. CASE Load(s) \/ InstallLost(s) \/ CompareE(s) \/ NextArray(s) \/ End(s)
    BY <2>6, OutsideKeeps
  <2> QED
    BY <1>3, <2>1, <2>2, <2>3, <2>4, <2>5, <2>6 DEF Walk
<1>4. CASE UNCHANGED vars
  <2>1. /\ heb' = heb /\ prog' = prog /\ made' = made /\ pc' = pc /\ array' = array
        /\ i' = i /\ hist' = hist /\ racy' = racy
    BY <1>4 DEF vars, walk
  <2>2. \A kind, ar, g : \A t \in Strands :
          Seen(kind, ar, g, t)' <=> Seen(kind, ar, g, t)
    BY <2>1, SeenStays
  <2>3. /\ \A ar, g : \A u : Represents(ar, g, u)' <=> Represents(ar, g, u)
        /\ \A ar, g : Storing(ar, g)' <=> Storing(ar, g)
        /\ \A t, u : Parallel(t, u)' <=> Parallel(t, u)
        /\ \A ar, g, t : Behind(ar, g, t)' <=> Behind(ar, g, t)
        /\ \A t : Access(t)' = Access(t)
    BY <2>1, <2>2, ZenonT(60)
    DEF Represents, StandsFor, Storing, Parallel, Precedes, Behind, Access
  <2>4. Facts
    BY DEF Alone, OneInv
  <2>5. EntryStandsForAll' /\ StorerStandsForAll'
    BY <2>1, <2>2, <2>3, <2>4 DEF Facts, EntryStandsForAll, StorerStandsForAll
  <2>6. LeftIsChecked' /\ WritersInOrder' /\ ReadersInOrder'
    BY <2>1, <2>2, <2>3, <2>4 DEF Facts, LeftIsChecked, WritersInOrder,
                                  ReadersInOrder, Hits
  <2> QED
    BY <2>5, <2>6 DEF Facts
<1> QED
  BY <1>1, <1>2, <1>3, <1>4 DEF Next, Finished

\* The walk stays the only one, and finds the entry it compared with.
LEMMA AloneStep ==
  ASSUME MaxBusy = 1, Alone, [Next]_vars
  PROVE  OneAtATime' /\ Fresh' /\ SawEntry'
<1>0. TypeOK /\ Unlisted /\ OneAtATime /\ Fresh /\ SawEntry
  BY DEF Alone, Inv, OneInv
<1>1. ASSUME NEW s \in Strands, Begin(s)
      PROVE  OneAtATime' /\ Fresh' /\ SawEntry'
  <2>1. \A t \in Strands : pc[t] = "idle"
    BY <1>1, BeginsAlone
  <2>2. /\ pc'[s] = "find" /\ \A t \in Strands \ {s} : pc'[t] = "idle"
        /\ UNCHANGED <<list, racy, hist>>
    BY <1>0, <1>1, <2>1 DEF Begin, Goto, TypeOK
  <2> QED
    BY <1>0, <2>2 DEF OneAtATime, Fresh, SawEntry
<1>2. ASSUME NEW s \in Strands, Record(s) \/ Walk(s)
      PROVE  OneAtATime' /\ Fresh' /\ SawEntry'
  <2>1. /\ pc[s] # "idle" /\ UNCHANGED <<heb, prog, made>>
        /\ \A t \in Strands \ {s} : pc'[t] = pc[t]
    BY <1>0, <1>2, OneMoves
  <2>2. \A t \in Strands \ {s} : pc'[t] = "idle"
    BY <1>0, <2>1, OthersIdle
  <2>3. OneAtATime'
    BY <2>2 DEF OneAtATime
  <2>4. ~list' => racy' = {} /\ \A ar \in Arrays, g \in Grain : hist'[ar][g] = Empty
    <3>1. CASE Record(s)
      BY <1>0, <3>1 DEF Record, Find, AllocTable, InsertList, InsertLost, Fresh
    <3>2. CASE Walk(s)
      <4>1. list
        BY <1>0, <3>2 DEF Unlisted, Walk, LoadNull, Load, Install, InstallLost,
             CompareE, CompareH, StoreE, StoreH, NextArray, End, Goto
      <4>2. list' = list
        BY <3>2 DEF Walk, LoadNull, Load, Install, InstallLost,
             CompareE, CompareH, StoreE, StoreH, NextArray, End
      <4> QED
        BY <4>1, <4>2
    <3> QED
      BY <1>2, <3>1, <3>2
  <2>5. pc'[s] \in {"alloc", "insert"} =>
          array'[s] = "writer" /\ i'[s] = First(Access(s))
    <3>1. CASE Record(s)
      BY <1>0, <3>1 DEF Record, Find, AllocTable, InsertList, InsertLost, StartWalk,
           Fresh, Goto, TypeOK, walk
    <3>2. CASE Walk(s)
      BY <1>0, <3>2 DEF Walk, LoadNull, Load, Install, InstallLost,
           CompareE, CompareH, StoreE, StoreH, NextArray, End, Goto, TypeOK
    <3> QED
      BY <1>2, <3>1, <3>2
  <2>6. pc'[s] = "compare_h" => saw'[s] = Entry(s)'.e
    <3> SUFFICES ASSUME pc'[s] = "compare_h" PROVE saw'[s] = Entry(s)'.e
      OBVIOUS
    <3>1. CompareE(s)
      BY <1>0, <1>2 DEF Record, Find, AllocTable, InsertList, InsertLost, Walk,
           LoadNull, Load, Install, InstallLost, CompareH, StoreE, StoreH,
           NextArray, End, Goto, TypeOK
    <3> QED
      BY <1>0, <3>1 DEF CompareE, Entry, TypeOK
  <2>7. Access(s)' = Access(s)
    BY <2>1 DEF Access
  <2>8. Fresh'
    BY <2>2, <2>4, <2>5, <2>7 DEF Fresh
  <2>9. SawEntry'
    BY <2>2, <2>6 DEF SawEntry
  <2> QED
    BY <2>3, <2>8, <2>9
<1>3. CASE UNCHANGED vars
  BY <1>0, <1>3 DEF vars, walk, OneAtATime, Fresh, SawEntry, Entry, Access
<1> QED
  BY <1>1, <1>2, <1>3 DEF Next, Finished

\* Nothing was seen yet.
LEMMA InitAlone == Init => Alone
<1> SUFFICES ASSUME Init PROVE Alone
  OBVIOUS
<1>1. Inv
  BY InitInv
<1>2. \A t \in Strands : pc[t] = "idle" /\ made[t] = 0
  BY DEF Init
<1>3. \A kind, ar, g : \A t \in Strands : ~Seen(kind, ar, g, t)
  <2> SUFFICES ASSUME NEW kind, NEW ar, NEW g, NEW t \in Strands
               PROVE  ~Seen(kind, ar, g, t)
    OBVIOUS
  <2>1. Ended(t) = {}
    BY <1>2 DEF Ended
  <2>2. ~Behind(ar, g, t)
    BY <1>2 DEF Behind, Walking, AtEntry
  <2> QED
    BY <2>1, <2>2 DEF Seen
<1>4. Facts
  <2>1. EntryStandsForAll /\ StorerStandsForAll
    BY <1>2, <1>3 DEF EntryStandsForAll, StorerStandsForAll
  <2>2. LeftIsChecked /\ WritersInOrder /\ ReadersInOrder
    BY <1>3 DEF LeftIsChecked, WritersInOrder, ReadersInOrder
  <2> QED
    BY <2>1, <2>2 DEF Facts
<1>5. OneAtATime /\ Fresh /\ SawEntry
  <2>1. racy = {} /\ \A ar \in Arrays, g \in Grain : hist[ar][g] = Empty
    BY DEF Init
  <2> QED
    BY <1>2, <2>1 DEF OneAtATime, Fresh, SawEntry
<1> QED
  BY <1>1, <1>4, <1>5 DEF Alone, OneInv

\* The induction.
LEMMA AloneHolds == ASSUME MaxBusy = 1 PROVE Spec => []Alone
<1>1. Alone /\ [Next]_vars => Alone'
  <2> SUFFICES ASSUME Alone, [Next]_vars PROVE Alone'
    OBVIOUS
  <2>1. Inv'
    BY InvStep DEF Alone
  <2> QED
    BY <2>1, FactsStep, AloneStep DEF Alone, OneInv
<1> QED
  BY <1>1, InitAlone, PTL DEF Spec

----------------------------------------------------------------------------
(* The theorems                                                            *)

\* With no access under way everything begun has been seen.
LEMMA BegunIsSeen ==
  ASSUME TypeOK, Quiet, NEW t \in Strands, NEW a \in Begun(t), NEW g \in Covered(a),
         NEW ar
  PROVE  a \in Accesses /\ Seen(a.kind, ar, g, t)
<1>1. pc[t] = "idle"
  BY DEF Quiet, Busy
<1>2. a \in Ended(t)
  BY <1>1 DEF Begun, Ended
<1>3. a \in Accesses
  <2>1. prog[t] \in Seq(Accesses) /\ made[t] \in Nat /\ made[t] <= Len(prog[t])
    BY ProgramAssumption DEF TypeOK
  <2> QED
    BY <2>1 DEF Begun
<1> QED
  BY <1>2, <1>3 DEF Seen, Hits

\* The two reader entries bracket all readers so far, when accesses are made
\* one at a time: nothing is lost between a comparison and the store.
THEOREM ReadersStandForAll ==
  ASSUME MaxBusy = 1 PROVE Spec => []ReadersAreExtreme
<1>1. ASSUME Alone PROVE ReadersAreExtreme
  <2>0. TypeOK /\ LocksHeld /\ EntriesTouched /\ EntryStandsForAll
    BY <1>1 DEF Alone, Inv, OneInv, Facts
  <2> SUFFICES ASSUME Quiet, NEW g \in Grain, NEW t \in Strands,
                      Touched("lreader", g, t)
               PROVE  /\ heb[t] <= heb[hist["lreader"][g].h]
                      /\ t <= hist["rreader"][g].e
    BY DEF ReadersAreExtreme
  <2>1. PICK a \in Begun(t) : Updates(a.kind, "lreader") /\ g \in Covered(a)
    BY DEF Touched
  <2>2. a \in Accesses /\ \A ar : Seen(a.kind, ar, g, t)
    BY <2>0, <2>1, BegunIsSeen
  <2>3. a.kind = "read"
    BY <2>1, <2>2 DEF Updates, Accesses
  <2>4. \A ar : ~Storing(ar, g)
    BY DEF Storing, Quiet, Busy
  <2>5. /\ "lreader" \in Arrays /\ "rreader" \in Arrays
        /\ Kind("lreader") = "read" /\ Kind("rreader") = "read"
    BY DEF Arrays, Kind
  <2>6. StandsFor("lreader", t, hist["lreader"][g].e)
    BY <2>0, <2>2, <2>3, <2>4, <2>5 DEF EntryStandsForAll, Represents
  <2>7. StandsFor("rreader", t, hist["rreader"][g].e)
    BY <2>0, <2>2, <2>3, <2>4, <2>5 DEF EntryStandsForAll, Represents
  <2>8. lock["lreader"] = NoStrand
    <3>1. lock["lreader"] \in Strands \cup {NoStrand}
      BY <2>0, <2>5 DEF TypeOK
    <3> QED
      BY <2>0, <2>5, <3>1 DEF LocksHeld, Quiet, Busy
  <2>9. hist["lreader"][g].e = hist["lreader"][g].h
    BY <2>0, <2>5, <2>8 DEF EntriesTouched, Kept
  <2> QED
    BY <2>6, <2>7, <2>9 DEF StandsFor
<1> QED
  BY <1>1, AloneHolds, PTL

\* A byte of a wide, aligned access lies in a grain of the access.
LEMMA ByteInGrain ==
  ASSUME NEW a \in Accesses, a.addr % a.size = 0, a.size >= 4, NEW x \in Bytes(a)
  PROVE  x \div 4 \in Covered(a) /\ x \div 4 \in Grain
<1>1. /\ a.addr \in 0 .. 15
      /\ a.size = 4 \/ a.size = 8 \/ a.size = 16
      /\ x \in Int /\ a.addr <= x /\ x < a.addr + a.size
  BY DEF Accesses, Block, Sizes, Bytes
<1>2. CASE a.size = 4
  BY <1>1, <1>2 DEF Covered, First, Past, Grain, NumSlots
<1>3. CASE a.size = 8
  BY <1>1, <1>3 DEF Covered, First, Past, Grain, NumSlots
<1>4. CASE a.size = 16
  BY <1>1, <1>4 DEF Covered, First, Past, Grain, NumSlots
<1> QED
  BY <1>1, <1>2, <1>3, <1>4

\* Every race is found, when accesses are made one at a time and none is
\* smaller than a grain.
THEOREM OneAtATimeFindsRaces ==
  ASSUME MaxBusy = 1, WideAccesses PROVE Spec => []RacesAreFound
<1>1. ASSUME Alone PROVE RacesAreFound
  <2>0. TypeOK /\ WritersInOrder /\ ReadersInOrder
    BY <1>1 DEF Alone, Inv, OneInv, Facts
  <2> SUFFICES ASSUME Quiet, NEW s \in Strands, NEW t \in Strands, Parallel(s, t),
                      NEW a \in Begun(s), NEW b \in Begun(t), Conflict(a, b),
                      NEW x \in Bytes(a) \cap Bytes(b), x \div 4 \notin racy
               PROVE  FALSE
    BY DEF RacesAreFound, Conflict
  <2>1. ASSUME NEW u \in Strands, NEW c \in Begun(u), x \in Bytes(c)
        PROVE  /\ c.kind \in {"read", "write"} /\ x \div 4 \in Grain
               /\ \A ar : Seen(c.kind, ar, x \div 4, u)
    <3>1. PICK k \in 1 .. made[u] : c = prog[u][k]
      BY <2>1 DEF Begun
    <3>2. prog[u] \in Programs /\ made[u] \in Nat /\ made[u] <= Len(prog[u])
      BY <2>0 DEF TypeOK
    <3>3. prog[u] \in Seq(Accesses)
      BY <3>2, ProgramAssumption
    <3>4. k \in DOMAIN prog[u] /\ c \in Accesses
      BY <3>1, <3>2, <3>3
    <3>5. c.addr % c.size = 0 /\ c.size >= 4
      BY <3>1, <3>2, <3>4, ProgramAssumption DEF WideAccesses
    <3>6. x \div 4 \in Covered(c) /\ x \div 4 \in Grain
      BY <2>1, <3>4, <3>5, ByteInGrain
    <3> QED
      BY <2>0, <2>1, <3>4, <3>6, BegunIsSeen DEF Accesses
  <2>2. /\ a.kind \in {"read", "write"} /\ x \div 4 \in Grain
        /\ \A ar : Seen(a.kind, ar, x \div 4, s)
    BY <2>1
  <2>3. b.kind \in {"read", "write"} /\ \A ar : Seen(b.kind, ar, x \div 4, t)
    BY <2>1
  <2>4. Parallel(t, s)
    BY DEF Parallel
  <2>5. CASE a.kind = "write" /\ b.kind = "write"
    BY <2>0, <2>2, <2>3, <2>5 DEF WritersInOrder
  <2>6. CASE a.kind = "write" /\ b.kind = "read"
    BY <2>0, <2>2, <2>3, <2>6 DEF ReadersInOrder
  <2>7. CASE a.kind = "read" /\ b.kind = "write"
    BY <2>0, <2>2, <2>3, <2>4, <2>7 DEF ReadersInOrder
  <2> QED
    BY <2>2, <2>3, <2>5, <2>6, <2>7 DEF Conflict
<1> QED
  BY <1>1, AloneHolds, PTL
=============================================================================
