----------------------------- MODULE PipeOrders -----------------------------
(***************************************************************************)
(* How the race detector turns a pipe_while loop into the two orders of    *)
(* its strands (PiperRDControl and Iterations in rdtool/include/piper_rd.h, *)
(* List in rdtool/src/list.cpp, called from the macros of rdtool/piper.h). *)
(*                                                                         *)
(* The loop itself is Pipeline, which PiperPipe shows to be what the       *)
(* scheduler does.  At every stage an iteration inserts two nodes into     *)
(* each order and appends a frame to a list of its own; at a stage wait it *)
(* looks through the list of the iteration before it, which may be growing *)
(* meanwhile, for the stage it depends on.  A strand is <<i, s>>, stage s  *)
(* of iteration i.  An order is the sequence of its nodes: inserting is    *)
(* one step, which OMBatch and OMTree are about.                           *)
(***************************************************************************)
EXTENDS Integers, Sequences, SequencesExt

CONSTANTS
  throttleLimit,  \* of the loop and of the detector
  MaxIter,        \* bound: iterations with a body
  MaxStage,       \* bound: the largest user stage; a list holds 100 frames
  Moves(_)        \* bound: the stages an iteration may enter, with or without wait

ASSUME PipeOrdersAssumption ==
  /\ throttleLimit \in Nat \ {0, 1}
  /\ MaxIter \in Nat
  /\ MaxStage \in 0 .. 99
  /\ \A i \in 1 .. MaxIter : Moves(i) \subseteq (1 .. MaxStage) \X BOOLEAN

VARIABLES
  stage, waiting, more,  \* the loop, see Pipeline
  pc,       \* where each iteration is, in its body or in the detector
  begun,    \* strands that have begun
  before,   \* the strands each one has to wait for: the dag
  english,  \* g_english, nodes in order
  hebrew,   \* g_hebrew
  node,     \* curDown and curRight of each strand
  slot,     \* p: the iteration whose list is in each slot, 0 for none
  head, tail,
  elems,    \* stages of the frames stored in each iteration's list
  length,   \* top + 1 of each list
  scan,     \* index, iPre, ret of getLeftDependency, and the length it reads
  halfRead  \* history: a frame was read that was not stored yet

loop  == <<stage, waiting, more>>
dag   == <<begun, before>>
order == <<english, hebrew, node>>
table == <<slot, head, tail>>
list  == <<elems, length>>
look  == <<scan, halfRead>>
vars  == <<loop, pc, dag, order, table, list, look>>

Iters   == 1 .. MaxIter + 1
Strands == (1 .. MaxIter + 1) \X (0 .. MaxStage)
Base    == <<0, 0, "base">>
Down(i, s)  == <<i, s, "down">>    \* the nodes a frame adds to each order
Right(i, s) == <<i, s, "right">>
NumSlots == throttleLimit + 1

Loop == INSTANCE Pipeline WITH Window <- throttleLimit - 1

Init ==
  /\ Loop!Init
  /\ pc = [i \in Iters |-> "unborn"]
  /\ begun = {}
  /\ before = [f \in Strands |-> {}]
  /\ english = <<Base>>
  /\ hebrew = <<Base>>
  /\ node = [f \in Strands |-> [down |-> Base, right |-> Base]]
  /\ slot = [x \in 0 .. NumSlots - 1 |-> 0]
  /\ head = -1
  /\ tail = -1
  /\ elems = [i \in Iters |-> <<>>]
  /\ length = [i \in Iters |-> 0]
  /\ scan = [i \in Iters |-> [index |-> 1, iPre |-> 0, ret |-> 0, len |-> 0]]
  /\ halfRead = FALSE

Goto(i, from, to) == pc[i] = from /\ pc' = [pc EXCEPT ![i] = to]

----------------------------------------------------------------------------
\* The dag.  A strand follows those of its own iteration; stage 0 and a stage
\* wait also follow the strands of the iteration before it up to that stage.
Begin(i, s, wait) ==
  LET direct == {f \in begun : f[1] = i \/ (wait /\ f[1] = i - 1 /\ f[2] <= s)}
  IN /\ begun' = begun \cup {<<i, s>>}
     /\ before' = [before EXCEPT ![<<i, s>>] =
                     direct \cup UNION {before[f] : f \in direct}]

----------------------------------------------------------------------------
\* Iterations: lists by slot.
getIndex(i) == IF i % NumSlots = 0 THEN throttleLimit ELSE (i % NumSlots) - 1

ListOf(i) == slot[getIndex(i)]   \* getStageFrameList

\* Variant: the last slot is left out.
insertWithoutLast(i) ==
  LET room  == tail <= head /\ head + 1 < NumSlots - 1
      wraps == ~room /\ tail < head
  IN /\ head' = IF wraps THEN 0 ELSE head + 1
     /\ tail' = IF room THEN tail ELSE IF wraps THEN 1 ELSE (tail + 1) % NumSlots
     /\ slot' = [slot EXCEPT ![head'] = i]

insertStageFrameList(i) ==
  LET room  == tail <= head /\ head + 1 < NumSlots
      wraps == ~room /\ tail < head
  IN /\ head' = IF wraps THEN 0 ELSE head + 1
     /\ tail' = IF room THEN tail ELSE IF wraps THEN 1 ELSE (tail + 1) % NumSlots
     /\ slot' = [slot EXCEPT ![head'] = i]

----------------------------------------------------------------------------
\* The two nodes that go into an order behind the one a frame starts from.
InsertTwo(o, base, first, second) ==
  LET k == SelectInSeq(o, LAMBDA n : n = base)
  IN SubSeq(o, 1, k) \o <<first, second>> \o SubSeq(o, k + 1, Len(o))

createOrder(i, s, down, right) ==
  /\ english' = InsertTwo(english, down, Down(i, s), Right(i, s))
  /\ hebrew' = InsertTwo(hebrew, right, Right(i, s), Down(i, s))
  /\ node' = [node EXCEPT ![<<i, s>>] = [down |-> down, right |-> right]]

\* The loop begins the iteration, which then evaluates the loop condition.
Start(i) ==
  /\ Loop!Start(i)
  /\ Goto(i, "unborn", "test")
  /\ UNCHANGED <<dag, order, table, list, look>>

ConditionFalse(i) ==
  /\ Loop!LastIteration(i)
  /\ Goto(i, "test", "over")
  /\ UNCHANGED <<dag, order, table, list, look>>

\* Nobody looks at the new list before the iteration leaves stage 0, so the
\* call is one step.
cilkStageFirst(i) ==
  /\ i <= MaxIter
  /\ Goto(i, "test", "user")
  /\ Begin(i, 0, TRUE)
  /\ LET sibling == IF i = 1 THEN Base ELSE Right(ListOf(i - 1), 0)
     IN createOrder(i, 0, sibling, sibling)
  /\ insertStageFrameList(i)
  /\ elems' = [elems EXCEPT ![i] = <<0>>]
  /\ length' = [length EXCEPT ![i] = 1]
  /\ UNCHANGED <<loop, look>>

\* CILK_STAGE: the stage counter goes up, then the detector is told.
CilkStage(i, s) ==
  /\ <<s, FALSE>> \in Moves(i)
  /\ Loop!Enter(i, s, FALSE)
  /\ Goto(i, "user", "order")
  /\ Begin(i, s, FALSE)
  /\ UNCHANGED <<order, table, list, look>>

CilkStageWait(i, s) ==
  /\ <<s, TRUE>> \in Moves(i)
  /\ Loop!Enter(i, s, TRUE)
  /\ Goto(i, "user", "wait")
  /\ UNCHANGED <<dag, order, table, list, look>>

PassStageWait(i) ==
  /\ Loop!Pass(i)
  /\ Goto(i, "wait", IF i > 1 THEN "length" ELSE "order")
  /\ Begin(i, stage[i], TRUE)
  /\ UNCHANGED <<order, table, list, look>>

----------------------------------------------------------------------------
\* getLeftDependency.
ReadLength(i) ==
  /\ Goto(i, "length", "look")
  /\ scan' = [scan EXCEPT ![i].len = length[ListOf(i - 1)]]
  /\ UNCHANGED <<loop, dag, order, table, list, halfRead>>

Stored(j, k) == k < Len(elems[j])

\* The stage of entry k of list j.  An entry whose frame is not stored yet
\* shows what the memory held before, or the frame as it arrives.
Read(j, k) == IF Stored(j, k) THEN {elems[j][k + 1]} ELSE 0 .. MaxStage

Look(i) ==
  LET c   == scan[i]
      s   == stage[i]
      pre == ListOf(i - 1)
  IN /\ c.index < c.len
     /\ \E equal, less, greater \in Read(pre, c.index) :
          \/ /\ equal = s
             /\ Goto(i, "look", "order")
             /\ scan' = [scan EXCEPT ![i].ret = c.index, ![i].index = c.index + 1]
          \/ /\ equal # s /\ less < s
             /\ Goto(i, "look", "look")
             /\ scan' = [scan EXCEPT ![i].iPre = c.index, ![i].index = c.index + 1]
          \/ /\ equal # s /\ less >= s /\ greater > s
             /\ Goto(i, "look", "order")
             /\ scan' = [scan EXCEPT ![i].ret = c.iPre]
     /\ halfRead' = (halfRead \/ ~Stored(pre, c.index))
     /\ UNCHANGED <<loop, dag, order, table, list>>

LookNoFurther(i) ==
  /\ scan[i].index >= scan[i].len
  /\ Goto(i, "look", "order")
  /\ UNCHANGED <<loop, dag, order, table, list, look>>

\* Variant: without a frame of that very stage there is no dependency.
LeftIndexExact(i) == scan[i].ret

LeftIndex(i) == IF scan[i].ret > scan[i].iPre THEN scan[i].ret ELSE scan[i].iPre

\* The rest of cilkStage and cilkStageWait up to the append.  A frame without
\* nodes would stop the program.
CreateOrder(i) ==
  LET parent == Down(i, elems[ListOf(i)][length[ListOf(i)]])
      left   == LeftIndex(i)
      pre    == ListOf(i - 1)
  IN /\ Goto(i, "order", "append")
     /\ left # 0 => left < Len(elems[pre])
     /\ createOrder(i, stage[i], parent,
          IF left = 0 THEN parent ELSE Right(pre, elems[pre][left + 1]))
     /\ scan' = [scan EXCEPT ![i].iPre = 0, ![i].ret = 0, ![i].len = 0]
     /\ UNCHANGED <<loop, dag, table, list, halfRead>>

\* append: p[++top] = element.  Nothing orders the two stores.
RaiseTop(i) ==
  /\ pc[i] = "append"
  /\ length[i] <= Len(elems[i])
  /\ length' = [length EXCEPT ![i] = @ + 1]
  /\ pc' = [pc EXCEPT ![i] = IF length[i] < Len(elems[i]) THEN "user" ELSE @]
  /\ UNCHANGED <<loop, dag, order, table, elems, look>>

StoreElement(i) ==
  /\ pc[i] = "append"
  /\ Len(elems[i]) <= length[i]
  /\ elems' = [elems EXCEPT ![i] = Append(@, stage[i])]
  /\ pc' = [pc EXCEPT ![i] = IF Len(elems[i]) < length[i] THEN "user" ELSE @]
  /\ UNCHANGED <<loop, dag, order, table, length, look>>

\* The final stage wait and the end of the iteration: nothing is told to the
\* detector's orders.
EndBody(i) ==
  /\ pc[i] \in {"user", "over"}
  /\ Loop!Enter(i, MaxStage + 1, TRUE)
  /\ pc' = [pc EXCEPT ![i] = "over"]
  /\ UNCHANGED <<dag, order, table, list, look>>

Leave(i) ==
  /\ Goto(i, "over", "over")
  /\ Loop!Pass(i) \/ Loop!Finish(i)
  /\ UNCHANGED <<dag, order, table, list, look>>

Next == \E i \in Iters :
  \/ Start(i) \/ ConditionFalse(i) \/ cilkStageFirst(i)
  \/ \E s \in 1 .. MaxStage : CilkStage(i, s) \/ CilkStageWait(i, s)
  \/ PassStageWait(i)
  \/ ReadLength(i) \/ Look(i) \/ LookNoFurther(i)
  \/ CreateOrder(i) \/ RaiseTop(i) \/ StoreElement(i)
  \/ EndBody(i) \/ Leave(i)

Spec == Init /\ [][Next]_vars

----------------------------------------------------------------------------
Precedes(o, m, n) ==
  SelectInSeq(o, LAMBDA x : x = m) < SelectInSeq(o, LAMBDA x : x = n)

\* User code runs in stage s of iteration i, or has run there.
Placed == {f \in begun : f[2] < stage[f[1]] \/ pc[f[1]] = "user"}

\* A strand comes before another in both orders exactly when the pipeline
\* makes the other wait for it: everything the detector reports rests on what
\* cilkStageFirst, cilkStage and cilkStageWait insert where.  It holds for as
\* long as no frame is read that is not stored yet.
OrdersMatchDag ==
  ~halfRead => \A f, g \in Placed : f # g =>
    (f \in before[g] <=> /\ Precedes(english, node[f].down, node[g].down)
                         /\ Precedes(hebrew, node[f].right, node[g].right))

\* An iteration in its body or in the detector finds its own list, and while it
\* looks for its left stage that of the iteration before it: insertStageFrameList
\* has not deleted them for a later iteration, and it counts slots as getIndex.
ListsStay ==
  \A i \in Iters :
    /\ pc[i] \in {"user", "wait", "length", "look", "order", "append"} => ListOf(i) = i
    /\ i > 1 /\ pc[i] \in {"length", "look", "order"} => ListOf(i - 1) = i - 1
=============================================================================
