-------------------------- MODULE PipeOrders_proofs --------------------------
(***************************************************************************)
(* Proofs about PipeOrders, for every throttle limit and every number of   *)
(* iterations and stages: the lists an iteration looks into are there, and *)
(* the two orders it builds are the dag of the pipeline.                   *)
(*                                                                         *)
(* The detector goes along with the loop (Places), so what Pipeline_proofs *)
(* knows of the window holds of the iterations in the detector; the lists  *)
(* come into being in the order of the iterations (Lists) and take the     *)
(* slots in turn (Turn).                                                   *)
(*                                                                         *)
(* For the orders, every step is first brought into one of a few kinds     *)
(* (Steps) that no longer speak of slots.  A strand that gets its nodes    *)
(* joins both orders behind the node of another (Joins, Where); two new    *)
(* nodes move the later ones up by two places (TwoInserted, JoinAt); and   *)
(* the place is one that fits (FitsEnglish, FitsHebrew), because of what   *)
(* getLeftDependency has found out about the dag (Scans).                  *)
(***************************************************************************)
EXTENDS PipeOrders, TLAPS

\* The theorems about the loop.
P == INSTANCE Pipeline_proofs WITH Window <- throttleLimit - 1

----------------------------------------------------------------------------
(* The inductive invariant                                                 *)

\* In the body of the iteration or in the detector.
Body == {"user", "wait", "length", "look", "order", "append"}

\* What the variables hold that the slots depend on.
Types ==
  /\ pc \in [Iters -> Body \cup {"unborn", "test", "over"}]
  /\ elems \in [Iters -> Seq(0 .. MaxStage)]
  /\ slot \in [0 .. NumSlots - 1 -> Int]

\* Where an iteration is in the detector and where it is in the loop.
Places ==
  \A i \in Iters :
    /\ pc[i] = "unborn" <=> stage[i] = -1
    /\ pc[i] = "test" => stage[i] = 0
    /\ pc[i] \in Body => stage[i] \in 0 .. MaxStage

\* An iteration has a list from its stage 0 on, after all those before it.
HasList(i) == elems[i] # <<>>

Lists ==
  /\ \A i \in Iters :
       /\ pc[i] \in {"unborn", "test"} => ~HasList(i)
       /\ pc[i] \in Body => HasList(i)
       /\ pc[i] = "over" /\ ~HasList(i) => ~more
  /\ \A i, j \in Iters : j < i /\ pc[i] # "unborn" => HasList(j)

\* The lists are in the slots in turn, the one of iteration c last.
Turn(c) ==
  /\ \A i \in Iters : HasList(i) <=> i <= c
  /\ head = IF c = 0 THEN -1 ELSE getIndex(c)
  /\ tail = IF c <= NumSlots THEN -1 ELSE IF head = NumSlots - 1 THEN 0 ELSE head + 1
  /\ \A i \in Iters : i <= c /\ i > c - NumSlots => ListOf(i) = i

Slots == \E c \in 0 .. MaxIter : Turn(c)

\* No part is inductive alone, nor is Inv without the invariant of the loop.
Inv == Types /\ Places /\ Lists /\ Slots
IInv == P!Inv /\ Inv

----------------------------------------------------------------------------
(* The loop                                                                *)

\* The loop starts in a state of Pipeline.
LEMMA LoopInit == Init => P!Inv
<1>1. P!PipelineAssumption
  BY PipeOrdersAssumption DEF P!PipelineAssumption
<1>2. P!Init => P!Inv
  BY <1>1, P!InitInv
<1>3. Loop!Init => P!Init
  BY DEF Loop!Init, P!Init, Loop!FinishStage, P!FinishStage, Loop!Unborn, P!Unborn
<1> QED
  BY <1>2, <1>3 DEF Init

\* Every step of the detector is a step of the loop or leaves it alone.
LEMMA LoopStep == ASSUME P!Inv, Next PROVE P!Inv'
<1>0. P!PipelineAssumption
  BY PipeOrdersAssumption DEF P!PipelineAssumption
<1>1. ASSUME NEW i \in Iters,
             \/ Loop!Start(i) \/ Loop!LastIteration(i) \/ Loop!Pass(i) \/ Loop!Finish(i)
             \/ \E s \in 1 .. MaxStage + 1, wait \in BOOLEAN : Loop!Enter(i, s, wait)
      PROVE  P!Inv'
  <2>1. /\ Loop!Start(i) => P!Start(i)
        /\ Loop!LastIteration(i) => P!LastIteration(i)
        /\ Loop!Pass(i) => P!Pass(i)
        /\ Loop!Finish(i) => P!Finish(i)
    BY DEF Loop!Start, P!Start, Loop!LastIteration, P!LastIteration, Loop!Pass, P!Pass, Loop!Finish, P!Finish,
       Loop!Unborn, P!Unborn, Loop!FinalStage, P!FinalStage, Loop!PostStage, P!PostStage
  <2>2. \A s, wait : Loop!Enter(i, s, wait) => P!Enter(i, s, wait)
    BY DEF Loop!Enter, P!Enter, Loop!FinalStage, P!FinalStage
  <2>3. P!Next
    BY <1>1, <2>1, <2>2 DEF P!Next, P!Iters, Iters, P!FinalStage
  <2> QED
    BY <1>0, <2>3, P!StepInv
<1>2. ASSUME UNCHANGED loop PROVE P!Inv'
  BY <1>2 DEF loop, P!Inv, P!TypeOK, P!StageZeroInOrder, P!FinishInOrder, P!BehindLeft, P!WindowOver,
     P!WaitsInUserStage
<1>3. ASSUME NEW i \in Iters, Start(i) \/ ConditionFalse(i) \/ PassStageWait(i) \/ EndBody(i) \/ Leave(i)
      PROVE  P!Inv'
  <2>1. MaxStage + 1 \in 1 .. MaxStage + 1 /\ TRUE \in BOOLEAN
    BY PipeOrdersAssumption
  <2> QED
    BY <1>1, <1>3, <2>1 DEF Start, ConditionFalse, PassStageWait, EndBody, Leave
<1>4. ASSUME NEW i \in Iters, NEW s \in 1 .. MaxStage, CilkStage(i, s) \/ CilkStageWait(i, s)
      PROVE  P!Inv'
  <2>1. s \in 1 .. MaxStage + 1 /\ TRUE \in BOOLEAN /\ FALSE \in BOOLEAN
    BY PipeOrdersAssumption
  <2> QED
    BY <1>1, <1>4, <2>1 DEF CilkStage, CilkStageWait
<1>5. ASSUME NEW i \in Iters, \/ cilkStageFirst(i) \/ ReadLength(i) \/ Look(i) \/ LookNoFurther(i)
                              \/ CreateOrder(i) \/ RaiseTop(i) \/ StoreElement(i)
      PROVE  P!Inv'
  BY <1>2, <1>5 DEF cilkStageFirst, ReadLength, Look, LookNoFurther, CreateOrder, RaiseTop, StoreElement
<1> QED
  BY <1>3, <1>4, <1>5 DEF Next

----------------------------------------------------------------------------
(* Slots                                                                   *)

\* The sizes are numbers.
LEMMA SlotNumbers ==
  /\ NumSlots \in Int /\ NumSlots >= 3 /\ NumSlots = throttleLimit + 1
  /\ MaxIter \in Nat /\ MaxStage \in Nat /\ throttleLimit \in Nat
  BY PipeOrdersAssumption DEF NumSlots

\* Division by the number of slots.
LEMMA DivMod ==
  ASSUME NEW i \in Int
  PROVE  /\ i \div NumSlots \in Int /\ i % NumSlots \in 0 .. NumSlots - 1
         /\ i = (i \div NumSlots) * NumSlots + (i % NumSlots)
<1> DEFINE N == NumSlots
<1>1. N \in Int /\ N > 0
  BY SlotNumbers
<1> HIDE DEF N
<1>2. i \div N \in Int /\ i % N \in 0 .. N - 1
  BY <1>1
<1>3. i = (i \div N) * N + (i % N)
  BY <1>1, Z3
<1> QED
  BY <1>2, <1>3 DEF N

\* A remainder is known by its range.
LEMMA ModIs ==
  ASSUME NEW q \in Int, NEW r \in 0 .. NumSlots - 1
  PROVE  (q * NumSlots + r) % NumSlots = r
<1> DEFINE N == NumSlots
           i == q * N + r
           p == i \div N
           s == i % N
<1>0. N \in Int /\ N >= 3 /\ r \in Int /\ r >= 0 /\ r <= N - 1
  BY SlotNumbers
<1>1. i \in Int /\ p \in Int /\ s \in 0 .. N - 1 /\ i = p * N + s
  <2>1. i \in Int
    BY <1>0
  <2> QED
    BY <2>1, DivMod
<1>a. q * N + r = p * N + s
  BY <1>1
<1> HIDE DEF p, s, N, i
<1>2. CASE p = q
  <2>1. q * N \in Int /\ p * N = q * N
    BY <1>0, <1>2
  <2>2. \A x \in Int : x + r = x + s => r = s
    BY <1>0, <1>1
  <2>3. q * N + r = q * N + s
    BY <1>a, <2>1
  <2>4. r = s
    BY <2>1, <2>2, <2>3
  <2> QED
    BY <2>4 DEF s, N, i
<1>3. CASE p > q
  <2>1. (p - q) * N >= N /\ (p - q) * N = r - s
    BY <1>0, <1>1, <1>a, <1>3
  <2> QED
    BY <1>0, <1>1, <2>1
<1>4. CASE q > p
  <2>1. (q - p) * N >= N /\ (q - p) * N = s - r
    BY <1>0, <1>1, <1>a, <1>4
  <2> QED
    BY <1>0, <1>1, <2>1
<1> QED
  BY <1>0, <1>1, <1>2, <1>3, <1>4 DEF s, N, i

\* The iterations take the slots in turn.
LEMMA NextSlot ==
  ASSUME NEW i \in Int
  PROVE  /\ getIndex(i) \in 0 .. NumSlots - 1
         /\ getIndex(1) = 0
         /\ getIndex(i + 1) = IF getIndex(i) = NumSlots - 1 THEN 0 ELSE getIndex(i) + 1
<1> DEFINE N == NumSlots
           q == i \div N
           r == i % N
<1>0. /\ N \in Int /\ N >= 3 /\ N - 1 = throttleLimit
      /\ q \in Int /\ r \in 0 .. N - 1 /\ i = q * N + r
  <2>1. N \in Int /\ N >= 3 /\ N - 1 = throttleLimit
    BY SlotNumbers
  <2>2. q \in Int /\ r \in 0 .. N - 1 /\ i = q * N + r
    BY DivMod
  <2> QED
    BY <2>1, <2>2
<1>1. 1 % N = 1
  <2>1. 0 * N + 1 = 1
    BY <1>0
  <2> QED
    BY <1>0, <2>1, ModIs
<1>2. (i + 1) % N = IF r = N - 1 THEN 0 ELSE r + 1
  <2>1. CASE r = N - 1
    <3>1. i + 1 = (q + 1) * N + 0 /\ q + 1 \in Int /\ 0 \in 0 .. N - 1
      <4> HIDE DEF N, q, r
      <4> QED
        BY <1>0, <2>1
    <3> QED
      BY <2>1, <3>1, ModIs
  <2>2. CASE r # N - 1
    <3>1. i + 1 = q * N + (r + 1) /\ r + 1 \in 0 .. N - 1
      <4> HIDE DEF N, q, r
      <4> QED
        BY <1>0, <2>2
    <3> QED
      BY <1>0, <2>2, <3>1, ModIs
  <2> QED
    BY <2>1, <2>2
<1>3. getIndex(i) = IF r = 0 THEN N - 1 ELSE r - 1
  BY <1>0 DEF getIndex
<1>4. getIndex(1) = 0
  BY <1>1 DEF getIndex
<1>5. getIndex(i + 1) = IF r = N - 1 THEN N - 1 ELSE r
  <2> HIDE DEF r
  <2>1. CASE r = N - 1
    BY <1>0, <1>2, <2>1 DEF getIndex
  <2>2. CASE r # N - 1
    BY <1>0, <1>2, <2>2 DEF getIndex
  <2> QED
    BY <2>1, <2>2
<1> HIDE DEF N, q, r
<1>6. QED
  BY <1>0, <1>3, <1>4, <1>5 DEF N

\* Two iterations less than NumSlots apart have different slots.
LEMMA SlotsApart ==
  ASSUME NEW i \in Int, NEW j \in Int, i < j, j < i + NumSlots
  PROVE  getIndex(i) # getIndex(j)
<1> DEFINE N == NumSlots
           p == i \div N
           q == j \div N
           r == i % N
           s == j % N
<1>0. /\ N \in Int /\ N >= 3 /\ N - 1 = throttleLimit /\ i < j /\ j < i + N
      /\ p \in Int /\ r \in 0 .. N - 1 /\ i = p * N + r
      /\ q \in Int /\ s \in 0 .. N - 1 /\ j = q * N + s
  <2>1. N \in Int /\ N >= 3 /\ N - 1 = throttleLimit
    BY SlotNumbers
  <2>2. p \in Int /\ r \in 0 .. N - 1 /\ i = p * N + r
    BY DivMod
  <2>3. q \in Int /\ s \in 0 .. N - 1 /\ j = q * N + s
    BY DivMod
  <2> QED
    BY <2>1, <2>2, <2>3
<1>1. /\ getIndex(i) = IF r = 0 THEN N - 1 ELSE r - 1
      /\ getIndex(j) = IF s = 0 THEN N - 1 ELSE s - 1
  BY <1>0 DEF getIndex
<1> HIDE DEF N, p, q, r, s
<1>2. CASE r = s
  <2>1. (q - p) * N > 0 /\ (q - p) * N < N
    BY <1>0, <1>2
  <2>2. CASE q - p <= 0
    BY <1>0, <2>1, <2>2
  <2>3. CASE q - p >= 1
    BY <1>0, <2>1, <2>3
  <2> QED
    BY <1>0, <2>2, <2>3
<1>3. CASE r # s
  BY <1>0, <1>1, <1>3
<1> QED
  BY <1>2, <1>3

\* The first lists go to the slots from the first on.
LEMMA FirstSlots ==
  /\ \A x \in 0 .. NumSlots - 1 : x % NumSlots = x
  /\ NumSlots % NumSlots = 0
  /\ \A i \in 1 .. NumSlots : getIndex(i) = i - 1
<1> DEFINE N == NumSlots
<1>0. N \in Int /\ N >= 3 /\ N - 1 = throttleLimit
  BY SlotNumbers
<1>1. ASSUME NEW x \in 0 .. N - 1 PROVE x % N = x
  <2>1. 0 * N + x = x
    BY <1>0
  <2> QED
    BY <1>0, <2>1, ModIs
<1>2. N % N = 0
  <2>1. 1 * N + 0 = N /\ 0 \in 0 .. N - 1
    BY <1>0
  <2> QED
    BY <2>1, ModIs
<1>3. ASSUME NEW i \in 1 .. N PROVE getIndex(i) = i - 1
  <2>1. CASE i = N
    BY <1>0, <1>2, <2>1 DEF getIndex
  <2>2. CASE i # N
    <3>1. i % N = i
      BY <1>0, <1>1, <2>2
    <3>2. i # 0
      BY <1>0
    <3> QED
      BY <3>1, <3>2 DEF getIndex
  <2> QED
    BY <2>1, <2>2
<1> QED
  BY <1>1, <1>2, <1>3

----------------------------------------------------------------------------
(* The steps                                                               *)

\* What the invariant of the loop says of the stages.
LEMMA Stages ==
  ASSUME P!Inv
  PROVE  /\ \A i \in Iters : stage[i] \in Int /\ stage[i] >= -1
         /\ stage \in [0 .. MaxIter + 1 -> -1 .. MaxStage + 3]
         /\ \A i \in Iters : i \in 0 .. MaxIter + 1 /\ i \in Int /\ i >= 1
<1>1. stage \in [0 .. MaxIter + 1 -> -1 .. MaxStage + 3]
  BY DEF P!Inv, P!TypeOK, P!Unborn, P!FinishStage
<1> QED
  BY <1>1, SlotNumbers DEF Iters

\* At the start there is no list.
LEMMA StartInv == Init => IInv
<1> SUFFICES ASSUME Init PROVE IInv
  OBVIOUS
<1>1. P!Inv
  BY LoopInit
<1>2. \A i \in Iters : pc[i] = "unborn" /\ elems[i] = <<>> /\ stage[i] = -1
  BY SlotNumbers DEF Init, Iters, Loop!Init, Loop!Unborn
<1>3. Types
  BY DEF Init, Types
<1>4. Places /\ Lists
  BY <1>2 DEF Places, Lists, HasList, Body
<1>5. Slots
  <2>1. Turn(0)
    BY <1>2, SlotNumbers DEF Turn, Init, HasList, Iters
  <2> QED
    BY <2>1, SlotNumbers DEF Slots
<1> QED
  BY <1>1, <1>3, <1>4, <1>5 DEF IInv, Inv

\* Every step keeps the types.
LEMMA TypesStep == ASSUME Types, Places, Next PROVE Types'
<1> USE DEF Types, Body
<1>1. ASSUME NEW i \in Iters, cilkStageFirst(i) PROVE Types'
  <2>1. <<0>> \in Seq(0 .. MaxStage) /\ i \in Int
    BY SlotNumbers DEF Iters
  <2> QED
    BY <1>1, <2>1 DEF cilkStageFirst, insertStageFrameList, Goto
<1>2. ASSUME NEW i \in Iters, StoreElement(i) PROVE Types'
  <2>1. stage[i] \in 0 .. MaxStage
    BY <1>2 DEF StoreElement, Places
  <2> QED
    BY <1>2, <2>1 DEF StoreElement, table
<1>3. ASSUME NEW i \in Iters, \/ Start(i) \/ ConditionFalse(i) \/ PassStageWait(i)
                              \/ ReadLength(i) \/ Look(i) \/ LookNoFurther(i)
                              \/ CreateOrder(i) \/ RaiseTop(i) \/ EndBody(i) \/ Leave(i)
      PROVE Types'
  BY <1>3 DEF Start, ConditionFalse, PassStageWait, ReadLength, Look, LookNoFurther, CreateOrder, RaiseTop,
     EndBody, Leave, Goto, table, list
<1>4. ASSUME NEW i \in Iters, NEW s \in 1 .. MaxStage, CilkStage(i, s) \/ CilkStageWait(i, s) PROVE Types'
  BY <1>4 DEF CilkStage, CilkStageWait, Goto, table, list
<1> QED
  BY <1>1, <1>2, <1>3, <1>4 DEF Next

\* The detector goes along with the loop.
LEMMA PlacesStep == ASSUME P!Inv, Types, Places, Next PROVE Places'
<1>0. /\ \A i \in Iters : stage[i] \in Int /\ stage[i] >= -1
      /\ stage \in [0 .. MaxIter + 1 -> -1 .. MaxStage + 3]
      /\ \A i \in Iters : i \in 0 .. MaxIter + 1
      /\ MaxStage \in Nat
  BY Stages, SlotNumbers
<1>1. ASSUME NEW i \in Iters, \A j \in Iters \ {i} : pc'[j] = pc[j] /\ stage'[j] = stage[j],
             /\ pc'[i] = "unborn" <=> stage'[i] = -1
             /\ pc'[i] = "test" => stage'[i] = 0
             /\ pc'[i] \in Body => stage'[i] \in 0 .. MaxStage
      PROVE  Places'
  BY <1>1 DEF Places, Body
<1>2. ASSUME NEW i \in Iters, Start(i) PROVE Places'
  <2>1. /\ pc' = [pc EXCEPT ![i] = "test"] /\ stage' = [stage EXCEPT ![i] = 0]
    BY <1>2 DEF Start, Goto, Loop!Start
  <2> QED
    BY <1>0, <1>1, <2>1 DEF Types, Body
<1>3. ASSUME NEW i \in Iters, \/ ConditionFalse(i) \/ PassStageWait(i) \/ cilkStageFirst(i)
                              \/ ReadLength(i) \/ Look(i) \/ LookNoFurther(i)
                              \/ CreateOrder(i) \/ RaiseTop(i) \/ StoreElement(i)
      PROVE  Places'
  <2>1. /\ stage' = stage /\ \E p \in Body \cup {"over"} : pc' = [pc EXCEPT ![i] = p]
        /\ pc[i] \in Body \cup {"test"}
    <3>1. CASE ConditionFalse(i) \/ PassStageWait(i) \/ cilkStageFirst(i)
      BY <3>1 DEF ConditionFalse, PassStageWait, cilkStageFirst, Goto, loop, Loop!LastIteration, Loop!Pass, Body
    <3>2. CASE ReadLength(i) \/ LookNoFurther(i) \/ CreateOrder(i)
      BY <3>2 DEF ReadLength, LookNoFurther, CreateOrder, Goto, loop, Body
    <3>3. CASE Look(i)
      BY <3>3 DEF Look, Goto, loop, Body
    <3>4. CASE RaiseTop(i) \/ StoreElement(i)
      BY <3>4 DEF RaiseTop, StoreElement, loop, Body
    <3> QED
      BY <1>3, <3>1, <3>2, <3>3, <3>4
  <2>2. stage[i] \in 0 .. MaxStage
    BY <1>0, <2>1 DEF Places
  <2> QED
    BY <1>0, <1>1, <2>1, <2>2 DEF Types, Body
<1>4. ASSUME NEW i \in Iters, NEW s \in 1 .. MaxStage, CilkStage(i, s) \/ CilkStageWait(i, s) PROVE Places'
  <2>1. stage' = [stage EXCEPT ![i] = s] /\ \E p \in {"order", "wait"} : pc' = [pc EXCEPT ![i] = p]
    BY <1>4 DEF CilkStage, CilkStageWait, Goto, Loop!Enter
  <2> QED
    BY <1>0, <1>1, <2>1 DEF Types, Body
<1>5. ASSUME NEW i \in Iters, EndBody(i) PROVE Places'
  <2>1. stage' = [stage EXCEPT ![i] = MaxStage + 1] /\ pc' = [pc EXCEPT ![i] = "over"]
    BY <1>5 DEF EndBody, Loop!Enter
  <2> QED
    BY <1>0, <1>1, <2>1 DEF Types, Body
<1>6. ASSUME NEW i \in Iters, Leave(i) PROVE Places'
  <2>1. /\ pc[i] = "over" /\ pc' = [pc EXCEPT ![i] = "over"]
        /\ \/ stage' = stage
           \/ stage[i] >= 0 /\ stage' = [stage EXCEPT ![i] = stage[i] + 1]
    BY <1>0, <1>6 DEF Leave, Goto, Loop!Pass, Loop!Finish, Loop!FinalStage, Loop!PostStage
  <2>2. stage[i] # -1
    BY <2>1 DEF Places
  <2>3. stage'[i] # -1
    <3>1. CASE stage' = stage
      BY <2>2, <3>1
    <3>2. CASE stage[i] >= 0 /\ stage' = [stage EXCEPT ![i] = stage[i] + 1]
      <4>1. stage'[i] = stage[i] + 1 /\ stage[i] \in Int
        BY <1>0, <3>2
      <4> QED
        BY <3>2, <4>1
    <3> QED
      BY <2>1, <3>1, <3>2
  <2>4. /\ \A j \in Iters \ {i} : pc'[j] = pc[j] /\ stage'[j] = stage[j]
        /\ pc'[i] = "over"
    BY <1>0, <2>1 DEF Types
  <2> QED
    BY <1>1, <2>3, <2>4 DEF Body
<1> QED
  BY <1>2, <1>3, <1>4, <1>5, <1>6 DEF Next

\* A list that something was appended to is not empty.
LEMMA StoredSomething == ASSUME Types, NEW i \in Iters, NEW x PROVE Append(elems[i], x) # <<>>
<1>1. elems[i] \in Seq(0 .. MaxStage)
  BY DEF Types
<1>2. Len(Append(elems[i], x)) = Len(elems[i]) + 1 /\ Len(elems[i]) >= 0 /\ Len(elems[i]) \in Int
  BY <1>1
<1> QED
  BY <1>2

\* Lists come into being in the order of the iterations.
LEMMA ListsStep == ASSUME P!Inv, Types, Places, Lists, Next PROVE Lists'
<1>0. /\ \A i \in Iters : stage[i] \in Int /\ stage[i] >= -1 /\ i \in Int /\ i >= 1
      /\ \A i \in Iters : i \in 1 .. MaxIter + 1 /\ (i > 1 => i - 1 \in Iters)
      /\ MaxIter \in Nat
  BY Stages, SlotNumbers DEF Iters
\* no list comes into being, and no iteration enters its body
<1>a. ASSUME NEW i \in Iters, UNCHANGED more \/ ~more',
             \A j \in Iters \ {i} : pc'[j] = pc[j],
             \A j \in Iters : HasList(j)' <=> HasList(j),
             pc[i] # "unborn", pc'[i] \notin {"unborn", "test"},
             pc'[i] \in Body => HasList(i),
             pc'[i] = "over" => HasList(i) \/ ~more'
      PROVE  Lists'
  BY <1>a DEF Lists, Body
<1>1. ASSUME NEW i \in Iters, Start(i) PROVE Lists'
  <2>1. /\ pc' = [pc EXCEPT ![i] = "test"] /\ pc[i] = "unborn" /\ more /\ stage[i - 1] > 0
        /\ UNCHANGED <<more, elems>>
    BY <1>1 DEF Start, Goto, Loop!Start, list
  <2>2. \A j \in Iters : HasList(j)' <=> HasList(j)
    BY <2>1 DEF HasList
  <2>3. ASSUME NEW j \in Iters, j < i PROVE HasList(j)
    <3>1. i - 1 \in Iters /\ i - 1 \in Int
      BY <1>0, <2>3
    <3>2. pc[i - 1] \in Body \cup {"over"}
      BY <1>0, <2>1, <3>1 DEF Places, Types
    <3>3. CASE j = i - 1
      BY <2>1, <3>1, <3>2, <3>3 DEF Lists
    <3>4. CASE j < i - 1
      BY <3>1, <3>2, <3>4 DEF Lists, Body
    <3> QED
      BY <1>0, <2>3, <3>3, <3>4
  <2>4. ~HasList(i)
    BY <2>1 DEF Lists
  <2>5. pc'[i] = "test" /\ \A j \in Iters \ {i} : pc'[j] = pc[j]
    BY <2>1 DEF Types
  <2> QED
    BY <2>1, <2>2, <2>3, <2>4, <2>5 DEF Lists, Body
<1>2. ASSUME NEW i \in Iters, ConditionFalse(i) PROVE Lists'
  <2>1. /\ pc[i] = "test" /\ pc' = [pc EXCEPT ![i] = "over"] /\ ~more' /\ UNCHANGED elems
    BY <1>2 DEF ConditionFalse, Goto, Loop!LastIteration, list
  <2> QED
    BY <1>a, <2>1 DEF Types, HasList, Body
<1>3. ASSUME NEW i \in Iters, cilkStageFirst(i) PROVE Lists'
  <2>1. /\ pc[i] = "test" /\ pc' = [pc EXCEPT ![i] = "user"] /\ elems' = [elems EXCEPT ![i] = <<0>>]
        /\ UNCHANGED more
    BY <1>3 DEF cilkStageFirst, Goto, loop
  <2>2. /\ HasList(i)' /\ \A j \in Iters \ {i} : HasList(j)' <=> HasList(j)
    BY <2>1 DEF HasList, Types
  <2>3. pc'[i] = "user" /\ \A j \in Iters \ {i} : pc'[j] = pc[j]
    BY <2>1 DEF Types
  <2> QED
    BY <2>1, <2>2, <2>3 DEF Lists, Body
<1>4. ASSUME NEW i \in Iters, StoreElement(i) PROVE Lists'
  <2>1. /\ pc[i] = "append" /\ \E p \in {"user", "append"} : pc' = [pc EXCEPT ![i] = p]
        /\ elems' = [elems EXCEPT ![i] = Append(elems[i], stage[i])] /\ UNCHANGED more
    BY <1>4 DEF StoreElement, loop, Types
  <2>2. Append(elems[i], stage[i]) # <<>>
    BY StoredSomething
  <2>3. HasList(i)' /\ HasList(i)
    BY <2>1, <2>2 DEF HasList, Types, Lists, Body
  <2>4. \A j \in Iters : HasList(j)' <=> HasList(j)
    BY <2>1, <2>3 DEF HasList, Types
  <2>5. pc'[i] \in Body /\ \A j \in Iters \ {i} : pc'[j] = pc[j]
    BY <2>1 DEF Types, Body
  <2> QED
    BY <1>a, <2>1, <2>3, <2>4, <2>5 DEF Body
<1>5. ASSUME NEW i \in Iters, \/ PassStageWait(i) \/ ReadLength(i) \/ Look(i) \/ LookNoFurther(i)
                              \/ CreateOrder(i) \/ RaiseTop(i)
      PROVE  Lists'
  <2>1. /\ pc[i] \in Body /\ \E p \in Body : pc' = [pc EXCEPT ![i] = p]
        /\ UNCHANGED <<more, elems>>
    <3>1. CASE PassStageWait(i)
      BY <3>1 DEF PassStageWait, Goto, Loop!Pass, Body, list
    <3>2. CASE ReadLength(i) \/ LookNoFurther(i) \/ CreateOrder(i)
      BY <3>2 DEF ReadLength, LookNoFurther, CreateOrder, Goto, loop, Body, list
    <3>3. CASE Look(i)
      BY <3>3 DEF Look, Goto, loop, Body, list
    <3>4. CASE RaiseTop(i)
      BY <3>4 DEF RaiseTop, loop, Body
    <3> QED
      BY <1>5, <3>1, <3>2, <3>3, <3>4
  <2>2. \A j \in Iters : HasList(j)' <=> HasList(j)
    BY <2>1 DEF HasList
  <2>3. HasList(i) /\ pc'[i] \in Body /\ \A j \in Iters \ {i} : pc'[j] = pc[j]
    BY <2>1 DEF Lists, Types
  <2> QED
    BY <1>a, <2>1, <2>2, <2>3 DEF Body
<1>6. ASSUME NEW i \in Iters, NEW s \in 1 .. MaxStage, CilkStage(i, s) \/ CilkStageWait(i, s) PROVE Lists'
  <2>1. /\ pc[i] = "user" /\ \E p \in {"order", "wait"} : pc' = [pc EXCEPT ![i] = p]
        /\ UNCHANGED <<more, elems>>
    BY <1>6 DEF CilkStage, CilkStageWait, Goto, Loop!Enter, list
  <2>2. \A j \in Iters : HasList(j)' <=> HasList(j)
    BY <2>1 DEF HasList
  <2>3. HasList(i) /\ pc'[i] \in Body /\ \A j \in Iters \ {i} : pc'[j] = pc[j]
    BY <2>1 DEF Lists, Types, Body
  <2> QED
    BY <1>a, <2>1, <2>2, <2>3 DEF Body
<1>7. ASSUME NEW i \in Iters, EndBody(i) \/ Leave(i) PROVE Lists'
  <2>1. /\ pc[i] \in {"user", "over"} /\ pc' = [pc EXCEPT ![i] = "over"] /\ UNCHANGED <<more, elems>>
    BY <1>7 DEF EndBody, Leave, Goto, Loop!Enter, Loop!Pass, Loop!Finish, list
  <2>2. \A j \in Iters : HasList(j)' <=> HasList(j)
    BY <2>1 DEF HasList
  <2>3. pc'[i] = "over" /\ (HasList(i) \/ ~more') /\ \A j \in Iters \ {i} : pc'[j] = pc[j]
    BY <2>1 DEF Lists, Types, Body
  <2> QED
    BY <1>a, <2>1, <2>2, <2>3 DEF Body
<1> QED
  BY <1>1, <1>2, <1>3, <1>4, <1>5, <1>6, <1>7 DEF Next

\* The next list goes to the next slot.
LEMMA NextTurn ==
  ASSUME P!Inv, Types, Lists, NEW c \in 0 .. MaxIter, Turn(c), NEW i \in Iters, cilkStageFirst(i)
  PROVE  i = c + 1 /\ Turn(i)'
<1>0. /\ NumSlots \in Int /\ NumSlots >= 3 /\ MaxIter \in Nat /\ c \in Int /\ c >= 0
      /\ \A j \in Iters : j \in Int /\ j >= 1
      /\ i > 1 => i - 1 \in Iters
  BY SlotNumbers DEF Iters
<1>1. /\ pc[i] = "test" /\ elems' = [elems EXCEPT ![i] = <<0>>] /\ insertStageFrameList(i)
  BY DEF cilkStageFirst, Goto
<1>2. i = c + 1
  <2>1. ~(i <= c)
    BY <1>1 DEF Lists, Turn
  <2>2. i > 1 => i - 1 <= c
    BY <1>0, <1>1 DEF Lists, Turn
  <2> QED
    BY <1>0, <2>1, <2>2
<1>3. \A j \in Iters : HasList(j)' <=> j <= i
  <2>1. /\ HasList(i)' /\ \A j \in Iters \ {i} : HasList(j)' <=> HasList(j)
    BY <1>1 DEF HasList, Types
  <2> QED
    BY <1>0, <1>2, <2>1 DEF Turn
<1>4. /\ getIndex(i) \in 0 .. NumSlots - 1
      /\ c = 0 => getIndex(i) = 0
      /\ getIndex(i) = IF getIndex(c) = NumSlots - 1 THEN 0 ELSE getIndex(c) + 1
      /\ getIndex(c) \in 0 .. NumSlots - 1
  BY <1>0, <1>2, NextSlot
<1>5. /\ head = IF c = 0 THEN -1 ELSE getIndex(c)
      /\ tail = IF c <= NumSlots THEN -1 ELSE IF head = NumSlots - 1 THEN 0 ELSE head + 1
  BY DEF Turn
<1>6. /\ head' = getIndex(i)
      /\ tail' = IF i <= NumSlots THEN -1 ELSE IF head' = NumSlots - 1 THEN 0 ELSE head' + 1
  <2>1. CASE c = 0
    <3>1. head = -1 /\ tail = -1
      BY <1>0, <1>5, <2>1
    <3>2. head' = 0 /\ tail' = -1
      BY <1>0, <1>1, <3>1 DEF insertStageFrameList
    <3> QED
      BY <1>0, <1>2, <1>4, <2>1, <3>2
  <2>2. CASE c # 0 /\ c <= NumSlots
    <3>1. head = c - 1 /\ tail = -1 /\ getIndex(c) = c - 1
      BY <1>0, <1>5, <2>2, FirstSlots
    <3>2. CASE c < NumSlots
      <4>1. head' = c /\ tail' = -1
        BY <1>0, <1>1, <2>2, <3>1, <3>2 DEF insertStageFrameList
      <4> QED
        BY <1>0, <1>2, <1>4, <3>1, <3>2, <4>1
    <3>3. CASE c = NumSlots
      <4>1. head' = 0 /\ tail' = 1
        BY <1>0, <1>1, <3>1, <3>3 DEF insertStageFrameList
      <4> QED
        BY <1>0, <1>2, <1>4, <3>1, <3>3, <4>1
    <3> QED
      BY <1>0, <2>2, <3>2, <3>3
  <2>3. CASE c > NumSlots
    <3>1. head = getIndex(c)
      BY <1>0, <1>5, <2>3
    <3>2. CASE head = NumSlots - 1
      <4>1. tail = 0
        BY <1>0, <1>5, <2>3, <3>2
      <4>2. head' = 0 /\ tail' = 1
        BY <1>0, <1>1, <3>2, <4>1 DEF insertStageFrameList
      <4> QED
        BY <1>0, <1>2, <1>4, <2>3, <3>1, <3>2, <4>2
    <3>3. CASE head # NumSlots - 1
      <4>1. tail = head + 1 /\ head \in 0 .. NumSlots - 2
        BY <1>0, <1>4, <1>5, <2>3, <3>1, <3>3
      <4>2. head' = head + 1 /\ tail' = (tail + 1) % NumSlots
        BY <1>0, <1>1, <4>1 DEF insertStageFrameList
      <4>3. (tail + 1) % NumSlots = IF tail + 1 = NumSlots THEN 0 ELSE tail + 1
        BY <1>0, <4>1, FirstSlots
      <4> QED
        BY <1>0, <1>2, <1>4, <2>3, <3>1, <3>3, <4>1, <4>2, <4>3
    <3> QED
      BY <3>2, <3>3
  <2> QED
    BY <1>0, <2>1, <2>2, <2>3
<1>7. slot' = [slot EXCEPT ![getIndex(i)] = i]
  BY <1>1, <1>6 DEF insertStageFrameList
<1>8. ASSUME NEW j \in Iters, j <= i, j > i - NumSlots PROVE ListOf(j)' = j
  <2>1. CASE j = i
    BY <1>4, <1>7, <2>1 DEF ListOf, Types
  <2>2. CASE j # i
    <3>1. j < i /\ i < j + NumSlots /\ j <= c /\ j > c - NumSlots
      BY <1>0, <1>2, <1>8, <2>2
    <3>2. getIndex(j) # getIndex(i) /\ getIndex(j) \in 0 .. NumSlots - 1
      BY <1>0, <3>1, SlotsApart, NextSlot
    <3>3. slot[getIndex(j)] = j
      BY <3>1 DEF Turn, ListOf
    <3> QED
      BY <1>7, <3>2, <3>3 DEF ListOf, Types
  <2> QED
    BY <2>1, <2>2
<1>9. i # 0 /\ getIndex(i)' = getIndex(i)
  BY <1>0
<1> QED
  BY <1>2, <1>3, <1>6, <1>8, <1>9 DEF Turn

\* Every step but an insert leaves the slots alone.
LEMMA SlotsStep == ASSUME P!Inv, Types, Lists, Slots, Next PROVE Slots'
<1>0. PICK c \in 0 .. MaxIter : Turn(c)
  BY DEF Slots
<1>1. ASSUME NEW i \in Iters, cilkStageFirst(i) PROVE Slots'
  <2>1. i = c + 1 /\ Turn(i)' /\ i <= MaxIter
    BY <1>0, <1>1, NextTurn DEF cilkStageFirst
  <2>2. i \in 0 .. MaxIter
    BY <2>1
  <2> QED
    BY <2>1, <2>2 DEF Slots
<1>2. ASSUME UNCHANGED table, \A j \in Iters : HasList(j)' <=> HasList(j) PROVE Slots'
  <2>1. Turn(c)'
    BY <1>0, <1>2 DEF Turn, table, ListOf
  <2> QED
    BY <2>1 DEF Slots
<1>3. ASSUME UNCHANGED <<table, elems>> PROVE Slots'
  BY <1>2, <1>3 DEF HasList
<1>4. ASSUME NEW i \in Iters, StoreElement(i) PROVE Slots'
  <2>1. /\ pc[i] = "append" /\ elems' = [elems EXCEPT ![i] = Append(elems[i], stage[i])]
        /\ UNCHANGED table
    BY <1>4 DEF StoreElement, Types
  <2>2. Append(elems[i], stage[i]) # <<>> /\ HasList(i)
    BY <2>1, StoredSomething DEF Lists, Body
  <2>3. \A j \in Iters : HasList(j)' <=> HasList(j)
    BY <2>1, <2>2 DEF HasList, Types
  <2> QED
    BY <1>2, <2>1, <2>3
<1>5. ASSUME NEW i \in Iters, \/ Start(i) \/ ConditionFalse(i) \/ PassStageWait(i)
                              \/ ReadLength(i) \/ Look(i) \/ LookNoFurther(i)
                              \/ CreateOrder(i) \/ RaiseTop(i) \/ EndBody(i) \/ Leave(i)
      PROVE Slots'
  BY <1>3, <1>5 DEF Start, ConditionFalse, PassStageWait, ReadLength, Look, LookNoFurther, CreateOrder, RaiseTop,
     EndBody, Leave, list
<1>6. ASSUME NEW i \in Iters, NEW s \in 1 .. MaxStage, CilkStage(i, s) \/ CilkStageWait(i, s) PROVE Slots'
  BY <1>3, <1>6 DEF CilkStage, CilkStageWait, list
<1> QED
  BY <1>1, <1>4, <1>5, <1>6 DEF Next

\* The inductive invariant holds in every reachable state.
LEMMA Inductive == Spec => []IInv
<1>1. IInv /\ Next => IInv'
  BY LoopStep, TypesStep, PlacesStep, ListsStep, SlotsStep DEF IInv, Inv
<1>2. IInv /\ UNCHANGED vars => IInv'
  BY DEF vars, loop, list, table, IInv, Inv, Types, Places, Lists, HasList, Slots, Turn, ListOf,
     P!Inv, P!TypeOK, P!StageZeroInOrder, P!FinishInOrder, P!BehindLeft, P!WindowOver, P!WaitsInUserStage
<1> QED
  BY <1>1, <1>2, StartInv, PTL DEF Spec

\* Lists are where the iterations look for them.
LEMMA ListsThere ==
  ASSUME IInv
  PROVE  /\ \A i \in Iters : pc[i] \in Body => ListOf(i) = i
         /\ \A i \in Iters : i > 1 /\ pc[i] \in Body \cup {"test"} =>
              ListOf(i - 1) = i - 1 /\ i - 1 \in Iters /\ HasList(i - 1)
<1>0. /\ P!Inv /\ Places /\ Lists /\ Slots
  BY DEF IInv, Inv
<1>1. PICK c \in 0 .. MaxIter : Turn(c)
  BY <1>0 DEF Slots
<1>2. ASSUME NEW i \in Iters, pc[i] \in Body
      PROVE  i <= c /\ i > c - (throttleLimit - 1)
  <2>1. stage[i] \in 0 .. MaxStage /\ HasList(i)
    BY <1>0, <1>2 DEF Places, Lists
  <2>2. i <= c /\ c \in Iters /\ i \in Int
    BY <1>1, <2>1, SlotNumbers DEF Turn, Iters
  <2>3. HasList(c)
    BY <1>1, <2>2 DEF Turn
  <2>4. stage[c] # -1
    BY <1>0, <2>2, <2>3 DEF Places, Lists
  <2>5. ~(i <= c - (throttleLimit - 1))
    <3>1. i <= c - (throttleLimit - 1) => stage[i] >= MaxStage + 2
      BY <1>0, <2>2, <2>4 DEF P!Inv, P!WindowOver, P!Iters, Iters, P!Unborn, P!PostStage
    <3> QED
      BY <2>1, <3>1, SlotNumbers
  <2> QED
    BY <2>2, <2>5, SlotNumbers
<1>3. ASSUME NEW i \in Iters, pc[i] \in Body PROVE ListOf(i) = i
  <2>1. i <= c /\ i > c - NumSlots
    BY <1>2, <1>3, SlotNumbers DEF Iters
  <2> QED
    BY <1>1, <2>1 DEF Turn
<1>4. ASSUME NEW i \in Iters, i > 1, pc[i] \in Body \cup {"test"}
      PROVE  ListOf(i - 1) = i - 1 /\ i - 1 \in Iters /\ HasList(i - 1)
  <2>0. i - 1 \in Iters /\ i \in Int /\ c \in Int /\ i - 1 < i
    BY <1>4, SlotNumbers DEF Iters
  <2>1. HasList(i - 1)
    BY <1>0, <1>4, <2>0 DEF Lists, Body
  <2>2. i - 1 <= c /\ i - 1 > c - NumSlots
    <3>1. i - 1 <= c
      BY <1>1, <2>0, <2>1 DEF Turn
    <3>2. CASE pc[i] \in Body
      BY <1>2, <2>0, <3>1, <3>2, SlotNumbers
    <3>3. CASE pc[i] = "test"
      <4>1. ~HasList(i)
        BY <1>0, <3>3 DEF Lists
      <4>2. ~(i <= c)
        BY <1>1, <4>1 DEF Turn
      <4> QED
        BY <2>0, <3>1, <4>2, SlotNumbers
    <3> QED
      BY <1>4, <3>2, <3>3
  <2> QED
    BY <1>1, <2>0, <2>1, <2>2 DEF Turn
<1> QED
  BY <1>3, <1>4

\* Whatever the throttle limit, the lists an iteration needs, its own and that
\* of the iteration before it, are in their slots for as long as it needs them.
THEOREM ListsAreKept == Spec => []ListsStay
<1>1. IInv => ListsStay
  BY ListsThere DEF ListsStay, Body
<1> QED
  BY <1>1, Inductive, PTL

----------------------------------------------------------------------------
(* The two orders: the inductive invariant                                 *)

\* The strands that have their nodes: the others that have begun are still in
\* the detector.
Created == {f \in begun : f[2] < stage[f[1]] \/ pc[f[1]] \in {"user", "append"}}

\* The strand iteration i is at, and where it waits for its nodes.
Current(i) == <<i, stage[i]>>
Pending == {"length", "look", "order"}

\* The last stage of iteration i that has nodes.
LastStage(i) == IF pc[i] = "append" THEN stage[i] ELSE elems[i][Len(elems[i])]
LastStrand(i) == <<i, LastStage(i)>>

\* A strand and all it waits for.
Cone(f) == before[f] \cup {f}

----------------------------------------------------------------------------
\* Strands begin once, and the loop is where they are.
Begun ==
  /\ begun \subseteq Strands
  /\ before \in [Strands -> SUBSET begun]
  /\ \A f \in begun :
       /\ pc[f[1]] \notin {"unborn", "test"}
       /\ f[2] <= stage[f[1]]
       /\ pc[f[1]] \in {"wait", "over"} => f[2] < stage[f[1]]
  /\ \A i \in Iters : pc[i] \in Body \ {"wait"} => Current(i) \in begun

\* The dag: waiting is transitive, goes to the same or an earlier iteration, and
\* the stage of an earlier iteration is over.
Dag ==
  \A f, g \in begun :
    /\ f \in before[g] => /\ f[1] <= g[1]
                          /\ f[1] = g[1] => f[2] < g[2]
                          /\ f[1] < g[1] => f[2] < stage[f[1]]
                          /\ before[f] \subseteq before[g]
    /\ f[1] = g[1] /\ f[2] < g[2] => f \in before[g]

\* The lists hold the stages of the strands in order, all but the one that is
\* being appended.
FramesOf(i) ==
  /\ \A k, l \in 1 .. Len(elems[i]) : k < l => elems[i][k] < elems[i][l]
  /\ HasList(i) => elems[i][1] = 0
  /\ \A k \in 1 .. Len(elems[i]) : <<i, elems[i][k]>> \in Created
  /\ \A f \in Created : f[1] = i =>
       \/ \E k \in 1 .. Len(elems[i]) : elems[i][k] = f[2]
       \/ pc[i] = "append" /\ f[2] = stage[i] /\ Len(elems[i]) <= length[i]
  /\ pc[i] # "append" => length[i] = Len(elems[i])
  /\ pc[i] = "append" =>
       \/ /\ length[i] \in {Len(elems[i]), Len(elems[i]) + 1}
          /\ \A k \in 1 .. Len(elems[i]) : elems[i][k] < stage[i]
       \/ /\ length[i] = Len(elems[i]) - 1
          /\ elems[i][Len(elems[i])] = stage[i]

Frames == \A i \in Iters : FramesOf(i)

\* The frame with index k in the list of the iteration before i.
Frame(i, k) == <<i - 1, elems[i - 1][k + 1]>>
Indices(i) == 0 .. Len(elems[i - 1]) - 1

\* What strand x waits for is what is before index.
Covered(i, x, index) == \A k \in Indices(i) : k < index <=> Frame(i, k) \in before[x]

\* The strand that begins waits for its left neighbours.
Waits(i) ==
  /\ i > 1
  /\ stage[i - 1] > stage[i]
  /\ \A f \in begun :
       f \in before[Current(i)] <=>
         \/ f \in Cone(LastStrand(i))
         \/ \E x \in begun : x[1] = i - 1 /\ x[2] <= stage[i] /\ f \in Cone(x)

\* getLeftDependency of iteration i: the frames before index are exactly those
\* its last strand waits for; what it finds is the last frame that the strand
\* that begins has to wait for, if the one before it does not wait for that
\* already.
ScansOf(i) ==
    LET c == scan[i] IN
    /\ c.index >= 1
    /\ ~HasList(i) => c.index = 1
    /\ pc[i] \notin {"look", "order"} => c.iPre = 0 /\ c.ret = 0
    /\ i > 1 /\ HasList(i) => c.index <= Len(elems[i - 1])
    /\ i > 1 /\ HasList(i) /\ pc[i] \notin {"look", "order"} => Covered(i, LastStrand(i), c.index)
    /\ pc[i] \in {"length", "look"} => Waits(i)
    /\ pc[i] = "look" =>
         /\ c.ret = 0
         /\ \A k \in Indices(i) : k >= c.len => elems[i - 1][k + 1] > stage[i]
         /\ c.iPre = 0 => Covered(i, LastStrand(i), c.index)
         /\ c.iPre # 0 =>
              /\ c.iPre = c.index - 1
              /\ elems[i - 1][c.iPre + 1] < stage[i]
              /\ Frame(i, c.iPre) \notin before[LastStrand(i)]
    /\ pc[i] = "order" =>
         /\ i > 1 => Covered(i, Current(i), c.index)
         /\ LeftIndex(i) = 0 => before[Current(i)] = Cone(LastStrand(i))
         /\ LeftIndex(i) # 0 =>
              /\ i > 1 /\ LeftIndex(i) \in Indices(i)
              /\ Frame(i, LeftIndex(i)) \notin before[LastStrand(i)]
              /\ before[Current(i)] = Cone(LastStrand(i)) \cup Cone(Frame(i, LeftIndex(i)))

Scans == \A i \in Iters : ScansOf(i)

----------------------------------------------------------------------------
\* The place of a node.
Pos(o, n) == SelectInSeq(o, LAMBDA x : x = n)

DownOf(f)  == Down(f[1], f[2])
RightOf(f) == Right(f[1], f[2])
NodesOf(S) == {Base} \cup {DownOf(f) : f \in S} \cup {RightOf(f) : f \in S}

\* An order holds each node once.
Arranges(o, S) ==
  /\ o \in Seq(S)
  /\ \A n \in S : \E k \in 1 .. Len(o) : o[k] = n
  /\ \A k, l \in 1 .. Len(o) : o[k] = o[l] => k = l

\* Where strand f starts from in either order, and where its own nodes are.
AtE(f) == Pos(english, node[f].down)
AtH(f) == Pos(hebrew, node[f].right)
EDown(f) == Pos(english, DownOf(f))
HDown(f) == Pos(hebrew, DownOf(f))
HRight(f) == Pos(hebrew, RightOf(f))

\* A strand goes in behind a node of its own iteration or of a left neighbour it
\* waits for, and no two behind the same in the hebrew order.
Nodes ==
  /\ Arranges(english, NodesOf(Created))
  /\ Arranges(hebrew, NodesOf(Created))
  /\ \A f \in Created : node[f].down \in NodesOf(Created)
  /\ \A f \in Created :
       \/ f[1] = 1 /\ f[2] = 0 /\ node[f].right = Base
       \/ \E x \in Created : x[1] = f[1] /\ x[2] < f[2] /\ node[f].right = DownOf(x)
       \/ \E x \in before[f] : x[1] = f[1] - 1 /\ node[f].right = RightOf(x)
  /\ \A f, g \in Created : node[f].right = node[g].right => f = g

\* The english order is by iteration, then by stage.  The next strand of each
\* iteration goes in before all later iterations, and so does the next iteration.
English ==
  /\ \A f, g \in Created :
       f[1] < g[1] \/ (f[1] = g[1] /\ f[2] < g[2]) => AtE(f) < AtE(g)
  /\ \A i \in Iters : HasList(i) =>
       \A f \in Created : IF f[1] <= i THEN AtE(f) < EDown(LastStrand(i))
                                       ELSE EDown(LastStrand(i)) < AtE(f)
  /\ \A i \in Iters : HasList(i) /\ (\A j \in Iters : HasList(j) => j <= i) =>
       LET r == Pos(english, Right(i, 0)) IN
       /\ \A f \in Created : AtE(f) < r
       /\ \A j \in Iters : HasList(j) => EDown(LastStrand(j)) < r

\* The hebrew order has the later iterations first where they do not wait: a strand
\* and its nodes are a bracket, and inside it are strands of later iterations only.
Hebrew ==
  /\ \A f, g \in Created : f # g /\ f[1] <= g[1] => (f \in before[g] <=> AtH(f) < AtH(g))
  /\ \A f \in Created : HRight(f) = AtH(f) + 1 /\ HDown(f) > HRight(f)
  /\ \A f, x \in Created :
       /\ AtH(f) < HDown(x) /\ HDown(x) < HDown(f) => x[1] > f[1]
       /\ AtH(f) < HRight(x) /\ HRight(x) < HDown(f) => x = f \/ x[1] > f[1]
  /\ \A i, j \in Iters : i < j /\ HasList(i) /\ HasList(j) => HDown(LastStrand(j)) < HDown(LastStrand(i))
  /\ \A i \in Iters, f \in Created : HasList(i) /\ f[1] > i => AtH(f) < HDown(LastStrand(i))
  /\ \A f \in Created : Pos(hebrew, Base) <= AtH(f)

\* No part is inductive alone.
Facts == Begun /\ Dag /\ Frames /\ Scans /\ Nodes /\ English /\ Hebrew

----------------------------------------------------------------------------
(* Places of nodes                                                         *)

\* A node that is in an order has its place there.
LEMMA PosIs ==
  ASSUME NEW S, NEW o, Arranges(o, S), NEW n \in S
  PROVE  Pos(o, n) \in 1 .. Len(o) /\ o[Pos(o, n)] = n /\ Len(o) \in Nat
<1> DEFINE I == {k \in 1 .. Len(o) : o[k] = n}
<1>1. PICK k \in I : I = {k}
  BY DEF Arranges
<1>2. k \in I /\ k \in Int /\ Len(o) \in Nat
  BY DEF Arranges
<1>3. Min(I) = k
  BY <1>1, <1>2 DEF Min
<1>4. Pos(o, n) = k
  BY <1>1, <1>3 DEF Pos, SelectInSeq
<1> QED
  BY <1>2, <1>4

\* There is no other node at that place.
LEMMA PosOf ==
  ASSUME NEW S, NEW o, Arranges(o, S), NEW k \in 1 .. Len(o)
  PROVE  o[k] \in S /\ Pos(o, o[k]) = k
<1>1. o[k] \in S
  BY DEF Arranges
<1>2. /\ Pos(o, o[k]) \in 1 .. Len(o) /\ o[Pos(o, o[k])] = o[k]
  BY <1>1, PosIs
<1> QED
  BY <1>1, <1>2 DEF Arranges

\* An element of a sequence.
LEMMA Element == ASSUME NEW T, NEW s \in Seq(T), NEW k \in 1 .. Len(s) PROVE s[k] \in T
  OBVIOUS

\* What a concatenation is.
LEMMA Concat ==
  ASSUME NEW S, NEW s \in Seq(S), NEW t \in Seq(S)
  PROVE  /\ s \o t \in Seq(S) /\ Len(s \o t) = Len(s) + Len(t)
         /\ \A j \in 1 .. Len(s) + Len(t) : (s \o t)[j] = IF j <= Len(s) THEN s[j] ELSE t[j - Len(s)]
  OBVIOUS

\* Two nodes go directly behind the one they are inserted after; the others
\* keep their order.
LEMMA TwoInserted ==
  ASSUME NEW S, NEW o, Arranges(o, S), NEW b \in S, NEW x, NEW y, x \notin S, y \notin S, x # y,
         NEW t, t = InsertTwo(o, b, x, y)
  PROVE  /\ Arranges(t, S \cup {x, y})
         /\ \A n \in S : Pos(t, n) = IF Pos(o, n) <= Pos(o, b) THEN Pos(o, n) ELSE Pos(o, n) + 2
         /\ Pos(t, x) = Pos(o, b) + 1 /\ Pos(t, y) = Pos(o, b) + 2
<1> DEFINE k == Pos(o, b)
           T == S \cup {x, y}
           u == SubSeq(o, 1, k)
           v == <<x, y>>
           w == SubSeq(o, k + 1, Len(o))
<1>1. k \in 1 .. Len(o) /\ o[k] = b /\ Len(o) \in Nat
  BY PosIs
<1>2. t = u \o v \o w
  BY DEF InsertTwo, Pos
<1> HIDE DEF k
<1>3. /\ u \in Seq(T) /\ Len(u) = k /\ \A j \in 1 .. k : u[j] = o[j]
      /\ w \in Seq(T) /\ Len(w) = Len(o) - k /\ \A j \in 1 .. Len(o) - k : w[j] = o[j + k]
  <2>1. o \in Seq(T)
    BY DEF Arranges
  <2> QED
    BY <1>1, <2>1
<1>4. v \in Seq(T) /\ Len(v) = 2 /\ v[1] = x /\ v[2] = y
  OBVIOUS
<1> HIDE DEF u, v, w
<1>5. /\ u \o v \in Seq(T) /\ Len(u \o v) = k + 2
      /\ \A j \in 1 .. k + 2 : (u \o v)[j] = IF j <= k THEN u[j] ELSE v[j - k]
  <2>1. u \in Seq(T) /\ v \in Seq(T) /\ k \in Int
    BY <1>1, <1>3, <1>4
  <2>2. /\ u \o v \in Seq(T) /\ Len(u \o v) = Len(u) + Len(v)
        /\ \A j \in 1 .. Len(u) + Len(v) : (u \o v)[j] = IF j <= Len(u) THEN u[j] ELSE v[j - Len(u)]
    BY <2>1, Concat
  <2> QED
    BY <1>3, <1>4, <2>1, <2>2
<1>6. /\ t \in Seq(T) /\ Len(t) = Len(o) + 2
      /\ \A j \in 1 .. Len(o) + 2 : t[j] = IF j <= k + 2 THEN (u \o v)[j] ELSE w[j - k - 2]
  <2> DEFINE z == u \o v
  <2>0. t = z \o w /\ z \in Seq(T) /\ Len(z) = k + 2
    BY <1>2, <1>5
  <2> HIDE DEF z
  <2>1. /\ z \o w \in Seq(T) /\ Len(z \o w) = Len(z) + Len(w)
        /\ \A j \in 1 .. Len(z) + Len(w) : (z \o w)[j] = IF j <= Len(z) THEN z[j] ELSE w[j - Len(z)]
    <3>1. z \in Seq(T) /\ w \in Seq(T)
      BY <1>3, <2>0
    <3> QED
      BY <3>1, Concat
  <2>2. Len(z) + Len(w) = Len(o) + 2
    BY <1>1, <1>3, <2>0
  <2>3. ASSUME NEW j \in 1 .. Len(o) + 2
        PROVE  t[j] = IF j <= k + 2 THEN z[j] ELSE w[j - k - 2]
    <3>1. t[j] = IF j <= Len(z) THEN z[j] ELSE w[j - Len(z)]
      BY <2>0, <2>1, <2>2, <2>3
    <3>2. j - Len(z) = j - k - 2 /\ j \in Int
      BY <1>1, <2>0, <2>3
    <3> QED
      BY <2>0, <3>1, <3>2
  <2> QED
    BY <2>0, <2>1, <2>2, <2>3 DEF z
<1>7. /\ \A j \in 1 .. k : t[j] = o[j]
      /\ t[k + 1] = x /\ t[k + 2] = y
      /\ \A j \in k + 3 .. Len(o) + 2 : t[j] = o[j - 2]
  <2>1. \A j \in 1 .. k : t[j] = o[j]
    BY <1>1, <1>3, <1>5, <1>6
  <2>2. t[k + 1] = x /\ t[k + 2] = y
    <3>1. k + 1 \in 1 .. k + 2 /\ k + 2 \in 1 .. k + 2 /\ ~(k + 1 <= k) /\ ~(k + 2 <= k)
          /\ (k + 1) - k = 1 /\ (k + 2) - k = 2 /\ k + 1 <= k + 2 /\ k + 2 <= k + 2
          /\ k + 1 \in 1 .. Len(o) + 2 /\ k + 2 \in 1 .. Len(o) + 2
      BY <1>1
    <3>2. (u \o v)[k + 1] = v[1] /\ (u \o v)[k + 2] = v[2]
      BY <1>5, <3>1
    <3> QED
      BY <1>4, <1>6, <3>1, <3>2
  <2>3. ASSUME NEW j \in k + 3 .. Len(o) + 2 PROVE t[j] = o[j - 2]
    <3>1. j \in 1 .. Len(o) + 2 /\ ~(j <= k + 2) /\ j - k - 2 \in 1 .. Len(o) - k /\ j - k - 2 + k = j - 2
      BY <1>1
    <3> QED
      BY <1>3, <1>6, <3>1
  <2> QED
    BY <2>1, <2>2, <2>3
<1>8. \A j \in 1 .. Len(o) : o[j] \in S
  BY PosOf
<1>9. ASSUME NEW n \in S
      PROVE  LET j == Pos(o, n) IN
             /\ (IF j <= k THEN j ELSE j + 2) \in 1 .. Len(t)
             /\ t[IF j <= k THEN j ELSE j + 2] = n
  <2> DEFINE j == Pos(o, n)
  <2>1. j \in 1 .. Len(o) /\ o[j] = n
    BY PosIs
  <2> HIDE DEF j
  <2>2. CASE j <= k
    BY <1>1, <1>6, <1>7, <2>1, <2>2 DEF j
  <2>3. CASE ~(j <= k)
    <3>1. j + 2 \in k + 3 .. Len(o) + 2 /\ j + 2 - 2 = j /\ j + 2 \in 1 .. Len(t)
      BY <1>1, <1>6, <2>1, <2>3
    <3>2. t[j + 2] = n
      BY <1>7, <2>1, <3>1
    <3> QED
      BY <2>3, <3>1, <3>2 DEF j
  <2> QED
    BY <2>2, <2>3
<1>10. Arranges(t, T)
  <2>1. \A n \in T : \E j \in 1 .. Len(t) : t[j] = n
    <3>1. k + 1 \in 1 .. Len(t) /\ k + 2 \in 1 .. Len(t)
      BY <1>1, <1>6
    <3> QED
      BY <1>7, <1>9, <3>1
  <2>2. ASSUME NEW i \in 1 .. Len(t), NEW j \in 1 .. Len(t), t[i] = t[j], i < j PROVE FALSE
    <3>0. /\ i \in Int /\ j \in Int /\ \A l, m \in 1 .. Len(o) : o[l] = o[m] => l = m
          /\ 1 <= i /\ j <= Len(o) + 2
      BY <1>1, <1>6 DEF Arranges
    <3>1. CASE j <= k
      BY <1>1, <1>7, <2>2, <3>0, <3>1
    <3>2. CASE i <= k /\ j \in {k + 1, k + 2}
      BY <1>1, <1>7, <1>8, <2>2, <3>0, <3>2
    <3>3. CASE i <= k /\ j > k + 2
      BY <1>1, <1>7, <2>2, <3>0, <3>3
    <3>4. CASE i = k + 1 /\ j = k + 2
      BY <1>7, <2>2, <3>4
    <3>5. CASE i \in {k + 1, k + 2} /\ j > k + 2
      <4>1. j \in k + 3 .. Len(o) + 2 /\ j - 2 \in 1 .. Len(o)
        BY <1>1, <3>0, <3>5
      <4> QED
        BY <1>7, <1>8, <2>2, <3>5, <4>1
    <3>6. CASE i > k + 2
      <4>1. /\ j \in k + 3 .. Len(o) + 2 /\ j - 2 \in 1 .. Len(o)
            /\ i \in k + 3 .. Len(o) + 2 /\ i - 2 \in 1 .. Len(o) /\ i - 2 # j - 2
        BY <1>1, <2>2, <3>0, <3>6
      <4> QED
        BY <1>7, <2>2, <3>0, <4>1
    <3> QED
      BY <1>1, <2>2, <3>0, <3>1, <3>2, <3>3, <3>4, <3>5, <3>6
  <2>3. \A i, j \in 1 .. Len(t) : t[i] = t[j] => i = j
    BY <1>6, <2>2
  <2> QED
    BY <1>6, <2>1, <2>3 DEF Arranges
<1> HIDE DEF T
<1>11. \A j \in 1 .. Len(t) : Pos(t, t[j]) = j
  BY <1>10, PosOf
<1>12. \A n \in S : Pos(t, n) = IF Pos(o, n) <= k THEN Pos(o, n) ELSE Pos(o, n) + 2
  BY <1>9, <1>11, Zenon
<1>13. k + 1 \in 1 .. Len(t) /\ k + 2 \in 1 .. Len(t)
  BY <1>1, <1>6
<1>14. Pos(t, x) = k + 1 /\ Pos(t, y) = k + 2
  BY <1>7, <1>11, <1>13
<1> QED
  BY <1>10, <1>12, <1>14 DEF k, T

----------------------------------------------------------------------------
(* The steps                                                               *)

\* The shapes of the variables, as long as no frame was read too early
Shapes ==
  /\ begun \subseteq Strands
  /\ before \in [Strands -> SUBSET Strands]
  /\ length \in [Iters -> Int]
  /\ scan \in [Iters -> [index : Nat, iPre : Nat, ret : Nat, len : Int]]
  /\ node = [f \in Strands |-> node[f]]
  /\ halfRead = FALSE

\* A step of iteration i leaves the others alone.
Elsewhere(i) ==
  \A j \in Iters \ {i} :
    /\ pc'[j] = pc[j] /\ stage'[j] = stage[j]
    /\ elems'[j] = elems[j] /\ length'[j] = length[j] /\ scan'[j] = scan[j]

\* The loop goes on in iteration i and the detector does nothing.
Quiet(i) ==
  /\ Elsewhere(i) /\ UNCHANGED <<begun, before, english, hebrew, node, elems, length, scan, halfRead>>
  /\ \/ pc[i] = "unborn" /\ pc'[i] = "test" /\ stage[i] = -1 /\ stage'[i] = 0
     \/ pc[i] = "test" /\ pc'[i] = "over" /\ stage'[i] = stage[i]
     \/ pc[i] = "user" /\ pc'[i] \in {"wait", "over"} /\ stage[i] < stage'[i]
     \/ pc[i] = "over" /\ pc'[i] = "over" /\ stage[i] <= stage'[i]

\* One iteration moves on.
LEMMA Moved ==
  ASSUME IInv, Shapes, NEW i \in Iters, NEW p, NEW s, pc' = [pc EXCEPT ![i] = p],
         stage' = stage \/ stage' = [stage EXCEPT ![i] = s]
  PROVE  /\ \A j \in Iters \ {i} : pc'[j] = pc[j] /\ stage'[j] = stage[j]
         /\ pc'[i] = p
         /\ stage'[i] = stage[i] \/ stage'[i] = s
         /\ stage' # stage => stage'[i] = s
<1>1. /\ stage \in [0 .. MaxIter + 1 -> -1 .. MaxStage + 3]
      /\ \A j \in Iters : j \in 0 .. MaxIter + 1
      /\ pc \in [Iters -> Body \cup {"unborn", "test", "over"}]
  BY Stages, SlotNumbers DEF IInv, Inv, Types
<1> QED
  BY <1>1

\* The steps of the loop that the detector takes no part in.
LEMMA QuietSteps ==
  ASSUME IInv, Shapes, NEW i \in Iters,
         \/ Start(i) \/ ConditionFalse(i) \/ EndBody(i) \/ Leave(i)
         \/ \E s \in 1 .. MaxStage : CilkStageWait(i, s)
  PROVE  Quiet(i)
<1>0. MaxStage \in Nat /\ stage[i] \in Int /\ stage \in [0 .. MaxIter + 1 -> -1 .. MaxStage + 3] /\ i \in 0 .. MaxIter + 1
  BY Stages, SlotNumbers DEF IInv
<1>1. ASSUME Start(i) PROVE Quiet(i)
  <2>1. /\ pc[i] = "unborn" /\ pc' = [pc EXCEPT ![i] = "test"]
        /\ stage[i] = -1 /\ stage' = [stage EXCEPT ![i] = 0]
        /\ UNCHANGED <<begun, before, english, hebrew, node, elems, length, scan, halfRead>>
    BY <1>1 DEF Start, Goto, Loop!Start, Loop!Unborn, dag, order, list, look
  <2>2. /\ \A j \in Iters \ {i} : pc'[j] = pc[j] /\ stage'[j] = stage[j]
        /\ pc'[i] = "test"
    BY <2>1, Moved
  <2>3. stage'[i] = 0
    BY <1>0, <2>1
  <2> QED
    BY <2>1, <2>2, <2>3 DEF Quiet, Elsewhere
<1>2. ASSUME ConditionFalse(i) PROVE Quiet(i)
  <2>1. /\ pc[i] = "test" /\ pc' = [pc EXCEPT ![i] = "over"] /\ stage' = stage
        /\ UNCHANGED <<begun, before, english, hebrew, node, elems, length, scan, halfRead>>
    BY <1>2 DEF ConditionFalse, Goto, Loop!LastIteration, dag, order, list, look
  <2>2. /\ \A j \in Iters \ {i} : pc'[j] = pc[j] /\ stage'[j] = stage[j]
        /\ pc'[i] = "over"
    BY <2>1, Moved
  <2> QED
    BY <2>1, <2>2 DEF Quiet, Elsewhere
<1>3. ASSUME NEW s \in 1 .. MaxStage, CilkStageWait(i, s) PROVE Quiet(i)
  <2>1. /\ pc[i] = "user" /\ pc' = [pc EXCEPT ![i] = "wait"] /\ stage' = [stage EXCEPT ![i] = s] /\ stage[i] < s
        /\ UNCHANGED <<begun, before, english, hebrew, node, elems, length, scan, halfRead>>
    BY <1>0, <1>3 DEF CilkStageWait, Goto, Loop!Enter, dag, order, list, look
  <2>2. /\ \A j \in Iters \ {i} : pc'[j] = pc[j] /\ stage'[j] = stage[j]
        /\ pc'[i] = "wait"
    BY <2>1, Moved
  <2>3. stage'[i] = s
    BY <1>0, <2>1
  <2> QED
    BY <2>1, <2>2, <2>3 DEF Quiet, Elsewhere
<1>4. ASSUME EndBody(i) PROVE Quiet(i)
  <2>1. /\ pc[i] \in {"user", "over"} /\ pc' = [pc EXCEPT ![i] = "over"]
        /\ stage' = [stage EXCEPT ![i] = MaxStage + 1] /\ stage[i] < MaxStage + 1
        /\ UNCHANGED <<begun, before, english, hebrew, node, elems, length, scan, halfRead>>
    BY <1>0, <1>4 DEF EndBody, Loop!Enter, dag, order, list, look
  <2>2. /\ \A j \in Iters \ {i} : pc'[j] = pc[j] /\ stage'[j] = stage[j]
        /\ pc'[i] = "over"
    BY <2>1, Moved
  <2>3. stage'[i] = MaxStage + 1
    BY <1>0, <2>1
  <2> QED
    BY <1>0, <2>1, <2>2, <2>3 DEF Quiet, Elsewhere
<1>5. ASSUME Leave(i) PROVE Quiet(i)
  <2>1. /\ pc[i] = "over" /\ pc' = [pc EXCEPT ![i] = "over"]
        /\ stage' = stage \/ stage' = [stage EXCEPT ![i] = stage[i] + 1]
        /\ UNCHANGED <<begun, before, english, hebrew, node, elems, length, scan, halfRead>>
    BY <1>5 DEF Leave, Goto, Loop!Pass, Loop!Finish, dag, order, list, look
  <2>2. /\ \A j \in Iters \ {i} : pc'[j] = pc[j] /\ stage'[j] = stage[j]
        /\ pc'[i] = "over" /\ (stage'[i] = stage[i] \/ stage'[i] = stage[i] + 1)
    BY <2>1, Moved
  <2> QED
    BY <1>0, <2>1, <2>2 DEF Quiet, Elsewhere
<1> QED
  BY <1>1, <1>2, <1>3, <1>4, <1>5

\* Strand g begins: it waits for those of its own iteration, at a wait also for
\* those of the iteration before up to its stage, and for all these wait for.
Begins(i, s, wait) ==
  /\ begun' = begun \cup {<<i, s>>}
  /\ \A f \in Strands : f # <<i, s>> => before'[f] = before[f]
  /\ \A f : f \in before'[<<i, s>>] <=>
       \E x \in begun : (x[1] = i \/ (wait /\ x[1] = i - 1 /\ x[2] <= s)) /\ f \in Cone(x)

\* A strand begins that is not the first of its iteration.
Opens(i, s, wait) ==
  /\ Elsewhere(i) /\ UNCHANGED <<english, hebrew, node, elems, length, scan, halfRead>>
  /\ Begins(i, s, wait) /\ s \in 0 .. MaxStage /\ stage'[i] = s
  /\ IF wait THEN /\ pc[i] = "wait" /\ pc'[i] = (IF i > 1 THEN "length" ELSE "order")
                  /\ stage[i] = s /\ (i > 1 => stage[i - 1] > s)
             ELSE pc[i] = "user" /\ pc'[i] = "order" /\ stage[i] < s

\* What Begin makes of the dag, strand by strand.
LEMMA BeginIs ==
  ASSUME Shapes, NEW i \in Iters, NEW s \in 0 .. MaxStage, NEW wait \in BOOLEAN, Begin(i, s, wait)
  PROVE  Begins(i, s, wait)
<1>1. <<i, s>> \in Strands /\ before \in [Strands -> SUBSET Strands]
  BY DEF Shapes, Strands, Iters
<1>2. PICK direct : /\ direct = {f \in begun : f[1] = i \/ (wait /\ f[1] = i - 1 /\ f[2] <= s)}
                    /\ begun' = begun \cup {<<i, s>>}
                    /\ before' = [before EXCEPT ![<<i, s>>] = direct \cup UNION {before[f] : f \in direct}]
  BY DEF Begin
<1>3. before'[<<i, s>>] = direct \cup UNION {before[f] : f \in direct}
  BY <1>1, <1>2
<1>4. \A f \in Strands : f # <<i, s>> => before'[f] = before[f]
  BY <1>1, <1>2
<1>5. ASSUME NEW f
      PROVE  f \in before'[<<i, s>>] <=>
               \E x \in begun : (x[1] = i \/ (wait /\ x[1] = i - 1 /\ x[2] <= s)) /\ f \in Cone(x)
  <2>1. f \in before'[<<i, s>>] <=> \E x \in direct : f \in Cone(x)
    BY <1>3 DEF Cone
  <2> QED
    BY <1>2, <2>1
<1> QED
  BY <1>2, <1>4, <1>5 DEF Begins

\* Stages other than the first begin.
LEMMA OpenSteps ==
  ASSUME IInv, Shapes, NEW i \in Iters
  PROVE  /\ \A s \in 1 .. MaxStage : CilkStage(i, s) => Opens(i, s, FALSE)
         /\ PassStageWait(i) => Opens(i, stage[i], TRUE)
<1>0. /\ MaxStage \in Nat /\ stage[i] \in Int /\ stage \in [0 .. MaxIter + 1 -> -1 .. MaxStage + 3]
      /\ i \in 0 .. MaxIter + 1
  BY Stages, SlotNumbers DEF IInv
<1>1. ASSUME NEW s \in 1 .. MaxStage, CilkStage(i, s) PROVE Opens(i, s, FALSE)
  <2>1. /\ pc[i] = "user" /\ pc' = [pc EXCEPT ![i] = "order"] /\ stage' = [stage EXCEPT ![i] = s] /\ stage[i] < s
        /\ UNCHANGED <<english, hebrew, node, elems, length, scan, halfRead>>
        /\ Begin(i, s, FALSE)
    BY <1>0, <1>1 DEF CilkStage, Goto, Loop!Enter, order, list, look
  <2>2. /\ \A j \in Iters \ {i} : pc'[j] = pc[j] /\ stage'[j] = stage[j]
        /\ pc'[i] = "order"
    BY <2>1, Moved
  <2>3. stage'[i] = s
    BY <1>0, <2>1
  <2>4. s \in 0 .. MaxStage
    BY <1>0
  <2>5. Begins(i, s, FALSE)
    BY <2>1, <2>4, BeginIs
  <2> QED
    BY <2>1, <2>2, <2>3, <2>4, <2>5 DEF Opens, Elsewhere
<1>2. ASSUME PassStageWait(i) PROVE Opens(i, stage[i], TRUE)
  <2> DEFINE to == IF i > 1 THEN "length" ELSE "order"
  <2>1. /\ pc[i] = "wait" /\ pc' = [pc EXCEPT ![i] = to] /\ stage' = stage /\ stage[i - 1] > stage[i]
        /\ UNCHANGED <<english, hebrew, node, elems, length, scan, halfRead>>
        /\ Begin(i, stage[i], TRUE)
    BY <1>2 DEF PassStageWait, Goto, Loop!Pass, order, list, look
  <2> HIDE DEF to
  <2>2. /\ \A j \in Iters \ {i} : pc'[j] = pc[j] /\ stage'[j] = stage[j]
        /\ pc'[i] = to
    BY <2>1, Moved
  <2>4. stage[i] \in 0 .. MaxStage
    BY <2>1 DEF IInv, Inv, Places, Body
  <2>5. Begins(i, stage[i], TRUE)
    BY <2>1, <2>4, BeginIs
  <2> QED
    BY <2>1, <2>2, <2>4, <2>5 DEF Opens, Elsewhere, to
<1> QED
  BY <1>1, <1>2

\* Iteration i looks for its left neighbour.
Alone(i) ==
  /\ Elsewhere(i)
  /\ UNCHANGED <<stage, begun, before, english, hebrew, node, elems, length, halfRead>>

Reads(i) ==
  /\ Alone(i) /\ i > 1 /\ pc[i] = "length" /\ pc'[i] = "look"
  /\ scan'[i] = [scan[i] EXCEPT !.len = length[i - 1]]

LooksOn(i) ==
  LET c == scan[i]
      e == elems[i - 1][c.index + 1]
  IN /\ Alone(i) /\ i > 1 /\ pc[i] = "look"
     /\ c.index < c.len /\ c.index \in Indices(i)
     /\ \/ e = stage[i] /\ pc'[i] = "order" /\ scan'[i] = [c EXCEPT !.ret = c.index, !.index = c.index + 1]
        \/ e < stage[i] /\ pc'[i] = "look" /\ scan'[i] = [c EXCEPT !.iPre = c.index, !.index = c.index + 1]
        \/ e > stage[i] /\ pc'[i] = "order" /\ scan'[i] = [c EXCEPT !.ret = c.iPre]

Ends(i) ==
  /\ Alone(i) /\ i > 1 /\ pc[i] = "look" /\ pc'[i] = "order"
  /\ scan[i].index >= scan[i].len /\ scan'[i] = scan[i]

\* The steps of getLeftDependency, where the lists are and no frame is missing.
LEMMA LookSteps ==
  ASSUME IInv, Shapes, Scans, NEW i \in Iters, halfRead' = FALSE
  PROVE  /\ ReadLength(i) => Reads(i)
         /\ Look(i) => LooksOn(i)
         /\ LookNoFurther(i) => Ends(i)
<1>0. /\ scan \in [Iters -> [index : Nat, iPre : Nat, ret : Nat, len : Int]]
      /\ elems \in [Iters -> Seq(0 .. MaxStage)]
  BY DEF Shapes, IInv, Inv, Types
<1>1. ASSUME pc[i] \in {"length", "look"} PROVE i > 1 /\ ListOf(i - 1) = i - 1 /\ i - 1 \in Iters
  <2>1. i > 1
    BY <1>1 DEF Scans, ScansOf, Waits
  <2> QED
    BY <1>1, <2>1, ListsThere DEF Body
<1>2. ASSUME NEW p, pc' = [pc EXCEPT ![i] = p], NEW c, scan' = [scan EXCEPT ![i] = c],
             UNCHANGED <<stage, begun, before, english, hebrew, node, elems, length, halfRead>>
      PROVE  Alone(i) /\ pc'[i] = p /\ scan'[i] = c
  <2>1. \A j \in Iters \ {i} : pc'[j] = pc[j] /\ stage'[j] = stage[j]
    BY <1>2, Moved
  <2>2. pc'[i] = p
    BY <1>2, Moved
  <2>3. scan'[i] = c /\ \A j \in Iters \ {i} : scan'[j] = scan[j]
    BY <1>0, <1>2
  <2> QED
    BY <1>2, <2>1, <2>2, <2>3 DEF Alone, Elsewhere
<1>3. ASSUME ReadLength(i) PROVE Reads(i)
  <2>1. /\ pc[i] = "length" /\ pc' = [pc EXCEPT ![i] = "look"]
        /\ scan' = [scan EXCEPT ![i].len = length[ListOf(i - 1)]]
        /\ UNCHANGED <<stage, begun, before, english, hebrew, node, elems, length, halfRead>>
    BY <1>3 DEF ReadLength, Goto, loop, dag, order, list
  <2>2. scan' = [scan EXCEPT ![i] = [scan[i] EXCEPT !.len = length[i - 1]]]
    BY <1>1, <2>1
  <2> QED
    BY <1>1, <1>2, <2>1, <2>2 DEF Reads
<1>4. ASSUME Look(i) PROVE LooksOn(i)
  <2> DEFINE c == scan[i]
             e == elems[i - 1][c.index + 1]
  <2>0. c.index \in Nat /\ c.len \in Int /\ elems[i - 1] \in Seq(0 .. MaxStage) /\ stage[i] \in Int /\ pc[i] = "look"
        /\ i > 1 /\ ListOf(i - 1) = i - 1
    <3>1. pc[i] = "look"
      BY <1>4 DEF Look, Goto
    <3> QED
      BY <1>0, <1>1, <3>1, Stages DEF IInv
  <2>1. PICK equal, less, greater \in Read(ListOf(i - 1), c.index) :
          \/ /\ equal = stage[i]
             /\ Goto(i, "look", "order")
             /\ scan' = [scan EXCEPT ![i].ret = c.index, ![i].index = c.index + 1]
          \/ /\ equal # stage[i] /\ less < stage[i]
             /\ Goto(i, "look", "look")
             /\ scan' = [scan EXCEPT ![i].iPre = c.index, ![i].index = c.index + 1]
          \/ /\ equal # stage[i] /\ less >= stage[i] /\ greater > stage[i]
             /\ Goto(i, "look", "order")
             /\ scan' = [scan EXCEPT ![i].ret = c.iPre]
    BY <1>4 DEF Look
  <2>2. /\ c.index < c.len /\ Stored(i - 1, c.index)
        /\ UNCHANGED <<stage, begun, before, english, hebrew, node, elems, length, halfRead>>
    <3>1. /\ c.index < c.len /\ halfRead' = (halfRead \/ ~Stored(ListOf(i - 1), c.index))
          /\ UNCHANGED <<stage, begun, before, english, hebrew, node, elems, length>>
      BY <1>4 DEF Look, loop, dag, order, list
    <3> QED
      BY <2>0, <3>1 DEF Shapes
  <2>3. equal = e /\ less = e /\ greater = e
    BY <2>0, <2>2 DEF Read
  <2>4. c.index \in Indices(i) /\ e \in Int
    <3>1. c.index + 1 \in 1 .. Len(elems[i - 1]) /\ c.index \in 0 .. Len(elems[i - 1]) - 1
      BY <2>0, <2>2 DEF Stored
    <3>2. e \in 0 .. MaxStage
      <4>1. \A w \in Seq(0 .. MaxStage) : \A k \in 1 .. Len(w) : w[k] \in 0 .. MaxStage
        BY Element
      <4>2. elems[i - 1] \in Seq(0 .. MaxStage) /\ c.index + 1 \in 1 .. Len(elems[i - 1])
        BY <2>0, <3>1
      <4> QED
        BY <4>1, <4>2, Zenon
    <3> QED
      BY <3>1, <3>2, SlotNumbers DEF Indices
  <2>5. CASE e = stage[i] /\ Goto(i, "look", "order") /\ scan' = [scan EXCEPT ![i].ret = c.index, ![i].index = c.index + 1]
    <3>1. scan' = [scan EXCEPT ![i] = [c EXCEPT !.ret = c.index, !.index = c.index + 1]]
      BY <1>0, <2>5
    <3>2. Alone(i) /\ pc'[i] = "order" /\ scan'[i] = [c EXCEPT !.ret = c.index, !.index = c.index + 1]
      BY <1>2, <2>2, <2>5, <3>1 DEF Goto
    <3> QED
      BY <2>0, <2>2, <2>4, <2>5, <3>2 DEF LooksOn
  <2>6. CASE e < stage[i] /\ Goto(i, "look", "look") /\ scan' = [scan EXCEPT ![i].iPre = c.index, ![i].index = c.index + 1]
    <3>1. scan' = [scan EXCEPT ![i] = [c EXCEPT !.iPre = c.index, !.index = c.index + 1]]
      BY <1>0, <2>6
    <3>2. Alone(i) /\ pc'[i] = "look" /\ scan'[i] = [c EXCEPT !.iPre = c.index, !.index = c.index + 1]
      BY <1>2, <2>2, <2>6, <3>1 DEF Goto
    <3> QED
      BY <2>0, <2>2, <2>4, <2>6, <3>2 DEF LooksOn
  <2>7. CASE e > stage[i] /\ Goto(i, "look", "order") /\ scan' = [scan EXCEPT ![i].ret = c.iPre]
    <3>1. scan' = [scan EXCEPT ![i] = [c EXCEPT !.ret = c.iPre]]
      BY <1>0, <2>7
    <3>2. Alone(i) /\ pc'[i] = "order" /\ scan'[i] = [c EXCEPT !.ret = c.iPre]
      BY <1>2, <2>2, <2>7, <3>1 DEF Goto
    <3> QED
      BY <2>0, <2>2, <2>4, <2>7, <3>2 DEF LooksOn
  <2> QED
    BY <2>1, <2>3, <2>4, <2>5, <2>6, <2>7
<1>5. ASSUME LookNoFurther(i) PROVE Ends(i)
  <2>1. /\ pc[i] = "look" /\ pc' = [pc EXCEPT ![i] = "order"]
        /\ scan' = scan /\ scan[i].index >= scan[i].len
        /\ UNCHANGED <<stage, begun, before, english, hebrew, node, elems, length, halfRead>>
    BY <1>5 DEF LookNoFurther, Goto, loop, dag, order, list, look
  <2>2. scan' = [scan EXCEPT ![i] = scan[i]]
    BY <1>0, <2>1
  <2> QED
    BY <1>1, <1>2, <2>1, <2>2 DEF Ends
<1> QED
  BY <1>3, <1>4, <1>5

\* A strand gets its nodes.
Inserts(g, d, r) ==
  /\ english' = InsertTwo(english, d, DownOf(g), RightOf(g))
  /\ hebrew' = InsertTwo(hebrew, r, RightOf(g), DownOf(g))
  /\ node'[g] = [down |-> d, right |-> r]
  /\ \A f \in Strands : f # g => node'[f] = node[f]

Creates(i) ==
  LET d == DownOf(LastStrand(i))
      k == LeftIndex(i)
  IN /\ Elsewhere(i) /\ UNCHANGED <<stage, begun, before, elems, length, halfRead>>
     /\ pc[i] = "order" /\ pc'[i] = "append"
     /\ scan'[i] = [scan[i] EXCEPT !.iPre = 0, !.ret = 0, !.len = 0]
     /\ Inserts(Current(i), d, IF k = 0 THEN d ELSE RightOf(Frame(i, k)))

Opening(i) ==
  LET b == IF i = 1 THEN Base ELSE Right(i - 1, 0)
  IN /\ \A j \in Iters \ {i} : pc'[j] = pc[j] /\ elems'[j] = elems[j] /\ length'[j] = length[j]
     /\ UNCHANGED <<stage, scan, halfRead>>
     /\ pc[i] = "test" /\ pc'[i] = "user" /\ stage[i] = 0
     /\ elems'[i] = <<0>> /\ length'[i] = 1
     /\ Begins(i, 0, TRUE)
     /\ Inserts(<<i, 0>>, b, b)

\* A frame is appended in two steps.
Appends(i) ==
  /\ Elsewhere(i) /\ UNCHANGED <<stage, begun, before, english, hebrew, node, scan, halfRead>>
  /\ pc[i] = "append"
  /\ \/ /\ length[i] <= Len(elems[i]) /\ length'[i] = length[i] + 1 /\ elems'[i] = elems[i]
        /\ pc'[i] = IF length[i] < Len(elems[i]) THEN "user" ELSE "append"
     \/ /\ Len(elems[i]) <= length[i] /\ elems'[i] = Append(elems[i], stage[i]) /\ length'[i] = length[i]
        /\ pc'[i] = IF Len(elems[i]) < length[i] THEN "user" ELSE "append"

\* The two stores of append.
LEMMA AppendSteps ==
  ASSUME IInv, Shapes, NEW i \in Iters, RaiseTop(i) \/ StoreElement(i)
  PROVE  Appends(i)
<1>0. /\ elems \in [Iters -> Seq(0 .. MaxStage)] /\ length \in [Iters -> Int]
      /\ pc \in [Iters -> Body \cup {"unborn", "test", "over"}]
  BY DEF Shapes, IInv, Inv, Types
<1>1. CASE RaiseTop(i)
  <2>1. /\ pc[i] = "append" /\ length[i] <= Len(elems[i])
        /\ length' = [length EXCEPT ![i] = length[i] + 1]
        /\ pc' = [pc EXCEPT ![i] = IF length[i] < Len(elems[i]) THEN "user" ELSE "append"]
        /\ UNCHANGED <<stage, begun, before, english, hebrew, node, elems, scan, halfRead>>
    BY <1>1 DEF RaiseTop, loop, dag, order, look
  <2>2. /\ length'[i] = length[i] + 1 /\ \A j \in Iters \ {i} : length'[j] = length[j] /\ pc'[j] = pc[j]
        /\ pc'[i] = IF length[i] < Len(elems[i]) THEN "user" ELSE "append"
    BY <1>0, <2>1
  <2> QED
    BY <2>1, <2>2 DEF Appends, Elsewhere
<1>2. CASE StoreElement(i)
  <2>1. /\ pc[i] = "append" /\ Len(elems[i]) <= length[i]
        /\ elems' = [elems EXCEPT ![i] = Append(elems[i], stage[i])]
        /\ pc' = [pc EXCEPT ![i] = IF Len(elems[i]) < length[i] THEN "user" ELSE "append"]
        /\ UNCHANGED <<stage, begun, before, english, hebrew, node, length, scan, halfRead>>
    BY <1>2 DEF StoreElement, loop, dag, order, look
  <2>2. /\ elems'[i] = Append(elems[i], stage[i])
        /\ \A j \in Iters \ {i} : elems'[j] = elems[j] /\ pc'[j] = pc[j]
        /\ pc'[i] = IF Len(elems[i]) < length[i] THEN "user" ELSE "append"
    BY <1>0, <2>1
  <2> QED
    BY <2>1, <2>2 DEF Appends, Elsewhere
<1> QED
  BY <1>1, <1>2

\* A strand is the pair of its iteration and its stage.
LEMMA StrandIs ==
  ASSUME NEW f \in Strands
  PROVE  /\ f = <<f[1], f[2]>> /\ f[1] \in Iters /\ f[2] \in 0 .. MaxStage /\ f[1] \in Int /\ f[2] \in Int
         /\ DownOf(f) = <<f[1], f[2], "down">> /\ RightOf(f) = <<f[1], f[2], "right">>
  BY SlotNumbers DEF Strands, Iters, DownOf, RightOf, Down, Right

\* What createOrder does, with the strand at hand.
LEMMA InsertSteps ==
  ASSUME IInv, Shapes, NEW i \in Iters, NEW s \in 0 .. MaxStage, NEW d, NEW r, createOrder(i, s, d, r)
  PROVE  Inserts(<<i, s>>, d, r)
<1>1. <<i, s>> \in Strands
  BY DEF Strands, Iters
<1>2. DownOf(<<i, s>>) = Down(i, s) /\ RightOf(<<i, s>>) = Right(i, s)
  BY DEF DownOf, RightOf
<1>3. /\ english' = InsertTwo(english, d, Down(i, s), Right(i, s))
      /\ hebrew' = InsertTwo(hebrew, r, Right(i, s), Down(i, s))
      /\ node' = [node EXCEPT ![<<i, s>>] = [down |-> d, right |-> r]]
  BY DEF createOrder
<1>4. node = [f \in Strands |-> node[f]]
  BY DEF Shapes
<1>5. node'[<<i, s>>] = [down |-> d, right |-> r] /\ \A f \in Strands : f # <<i, s>> => node'[f] = node[f]
  BY <1>1, <1>3, <1>4
<1> QED
  BY <1>2, <1>3, <1>5 DEF Inserts

\* cilkStage and cilkStageWait put the strand into the orders.
LEMMA CreateSteps ==
  ASSUME IInv, Shapes, Frames, Scans, NEW i \in Iters, CreateOrder(i)
  PROVE  Creates(i)
<1>0. /\ scan \in [Iters -> [index : Nat, iPre : Nat, ret : Nat, len : Int]]
      /\ pc \in [Iters -> Body \cup {"unborn", "test", "over"}]
  BY DEF Shapes, IInv, Inv, Types
<1> DEFINE parent == Down(i, elems[ListOf(i)][length[ListOf(i)]])
           left == LeftIndex(i)
           pre == ListOf(i - 1)
           right == IF left = 0 THEN parent ELSE Right(pre, elems[pre][left + 1])
<1>1. /\ pc[i] = "order" /\ pc' = [pc EXCEPT ![i] = "append"]
      /\ createOrder(i, stage[i], parent, right)
      /\ scan' = [scan EXCEPT ![i].iPre = 0, ![i].ret = 0, ![i].len = 0]
      /\ UNCHANGED <<stage, begun, before, elems, length, halfRead>>
  BY DEF CreateOrder, Goto, loop, dag, list
<1>2. parent = DownOf(LastStrand(i))
  <2>1. ListOf(i) = i
    BY <1>1, ListsThere DEF Body
  <2>2. length[i] = Len(elems[i]) /\ LastStage(i) = elems[i][Len(elems[i])]
    BY <1>1 DEF Frames, FramesOf, LastStage
  <2> QED
    BY <2>1, <2>2 DEF DownOf, LastStrand
<1>3. right = IF left = 0 THEN DownOf(LastStrand(i)) ELSE RightOf(Frame(i, left))
  <2>1. CASE left = 0
    BY <1>2, <2>1
  <2>2. CASE left # 0
    <3>1. i > 1
      BY <1>1, <2>2 DEF Scans, ScansOf
    <3>2. pre = i - 1
      BY <1>1, <3>1, ListsThere DEF Body
    <3> QED
      BY <2>2, <3>2 DEF RightOf, Frame
  <2> QED
    BY <2>1, <2>2
<1>4. stage[i] \in 0 .. MaxStage
  BY <1>1 DEF IInv, Inv, Places, Body
<1> HIDE DEF parent, left, pre, right
<1>5. Inserts(Current(i), parent, right)
  BY <1>1, <1>4, InsertSteps DEF Current
<1>6. scan'[i] = [scan[i] EXCEPT !.iPre = 0, !.ret = 0, !.len = 0] /\ \A j \in Iters \ {i} : scan'[j] = scan[j]
  <2>1. scan' = [scan EXCEPT ![i] = [scan[i] EXCEPT !.iPre = 0, !.ret = 0, !.len = 0]]
    BY <1>0, <1>1
  <2> QED
    BY <1>0, <2>1
<1>7. pc'[i] = "append" /\ \A j \in Iters \ {i} : pc'[j] = pc[j]
  BY <1>0, <1>1
<1>8. Elsewhere(i)
  BY <1>1, <1>6, <1>7 DEF Elsewhere
<1> QED
  BY <1>1, <1>2, <1>3, <1>5, <1>6, <1>7, <1>8 DEF Creates, left

\* cilkStageFirst, with the list of the iteration before where it looks.
LEMMA OpeningSteps ==
  ASSUME IInv, Shapes, NEW i \in Iters, cilkStageFirst(i)
  PROVE  Opening(i)
<1> DEFINE sibling == IF i = 1 THEN Base ELSE Right(ListOf(i - 1), 0)
<1>0. /\ elems \in [Iters -> Seq(0 .. MaxStage)] /\ length \in [Iters -> Int]
      /\ pc \in [Iters -> Body \cup {"unborn", "test", "over"}]
  BY DEF Shapes, IInv, Inv, Types
<1>1. /\ pc[i] = "test" /\ pc' = [pc EXCEPT ![i] = "user"]
      /\ Begin(i, 0, TRUE) /\ createOrder(i, 0, sibling, sibling)
      /\ elems' = [elems EXCEPT ![i] = <<0>>] /\ length' = [length EXCEPT ![i] = 1]
      /\ UNCHANGED <<stage, scan, halfRead>>
  BY DEF cilkStageFirst, Goto, loop, look
<1>2. sibling = IF i = 1 THEN Base ELSE Right(i - 1, 0)
  <2>1. ASSUME i # 1 PROVE ListOf(i - 1) = i - 1
    <3>1. i > 1
      BY <2>1, SlotNumbers DEF Iters
    <3> QED
      BY <1>1, <3>1, ListsThere
  <2> QED
    BY <2>1
<1>3. 0 \in 0 .. MaxStage
  BY SlotNumbers
<1> HIDE DEF sibling
<1>4. Inserts(<<i, 0>>, sibling, sibling)
  BY <1>1, <1>3, InsertSteps
<1>5. Begins(i, 0, TRUE)
  BY <1>1, <1>3, BeginIs
<1>6. stage[i] = 0
  BY <1>1 DEF IInv, Inv, Places
<1>7. /\ pc'[i] = "user" /\ \A j \in Iters \ {i} : pc'[j] = pc[j] /\ elems'[j] = elems[j] /\ length'[j] = length[j]
      /\ elems'[i] = <<0>> /\ length'[i] = 1
  BY <1>0, <1>1
<1> QED
  BY <1>1, <1>2, <1>4, <1>5, <1>6, <1>7 DEF Opening

\* The steps of the program are steps of these kinds.
LEMMA Steps ==
  ASSUME IInv, Shapes, Frames, Scans, Next, halfRead' = FALSE
  PROVE  \E i \in Iters :
           \/ Quiet(i) \/ Opening(i) \/ Reads(i) \/ LooksOn(i) \/ Ends(i) \/ Creates(i) \/ Appends(i)
           \/ \E s \in 0 .. MaxStage, wait \in BOOLEAN : Opens(i, s, wait)
<1>1. PICK i \in Iters :
        \/ Start(i) \/ ConditionFalse(i) \/ cilkStageFirst(i)
        \/ \E s \in 1 .. MaxStage : CilkStage(i, s) \/ CilkStageWait(i, s)
        \/ PassStageWait(i)
        \/ ReadLength(i) \/ Look(i) \/ LookNoFurther(i)
        \/ CreateOrder(i) \/ RaiseTop(i) \/ StoreElement(i)
        \/ EndBody(i) \/ Leave(i)
  BY DEF Next
<1>2. CASE Start(i) \/ ConditionFalse(i) \/ EndBody(i) \/ Leave(i) \/ \E s \in 1 .. MaxStage : CilkStageWait(i, s)
  BY <1>2, QuietSteps
<1>3. CASE cilkStageFirst(i)
  BY <1>3, OpeningSteps
<1>4. CASE PassStageWait(i) \/ \E s \in 1 .. MaxStage : CilkStage(i, s)
  <2>1. \E s, wait : wait \in BOOLEAN /\ Opens(i, s, wait)
    BY <1>4, OpenSteps
  <2> QED
    BY <2>1 DEF Opens
<1>5. CASE ReadLength(i) \/ Look(i) \/ LookNoFurther(i)
  BY <1>5, LookSteps
<1>6. CASE CreateOrder(i)
  BY <1>6, CreateSteps
<1>7. CASE RaiseTop(i) \/ StoreElement(i)
  BY <1>7, AppendSteps
<1> QED
  BY <1>1, <1>2, <1>3, <1>4, <1>5, <1>6, <1>7

\* The shapes are kept by every step that reads no missing frame.
LEMMA ShapesStep ==
  ASSUME IInv, Shapes, Scans, Next, halfRead' = FALSE
  PROVE  Shapes'
<1>0. MaxStage \in Nat
  BY SlotNumbers
<1>a. PICK i \in Iters :
        \/ Start(i) \/ ConditionFalse(i) \/ cilkStageFirst(i)
        \/ \E s \in 1 .. MaxStage : CilkStage(i, s)
        \/ \E s \in 1 .. MaxStage : CilkStageWait(i, s)
        \/ PassStageWait(i)
        \/ ReadLength(i) \/ Look(i) \/ LookNoFurther(i)
        \/ CreateOrder(i) \/ RaiseTop(i) \/ StoreElement(i)
        \/ EndBody(i) \/ Leave(i)
  BY DEF Next
<1>1. ASSUME NEW s \in 0 .. MaxStage, NEW wait \in BOOLEAN, Begin(i, s, wait)
      PROVE  begun' \subseteq Strands /\ before' \in [Strands -> SUBSET Strands]
  <2>1. PICK direct : /\ direct = {f \in begun : f[1] = i \/ (wait /\ f[1] = i - 1 /\ f[2] <= s)}
                      /\ begun' = begun \cup {<<i, s>>}
                      /\ before' = [before EXCEPT ![<<i, s>>] = direct \cup UNION {before[f] : f \in direct}]
    BY <1>1 DEF Begin
  <2>2. <<i, s>> \in Strands /\ begun \subseteq Strands /\ before \in [Strands -> SUBSET Strands]
    BY DEF Strands, Iters, Shapes
  <2>3. direct \cup UNION {before[f] : f \in direct} \subseteq Strands
    BY <2>1, <2>2
  <2> QED
    BY <2>1, <2>2, <2>3
<1>2. begun' \subseteq Strands /\ before' \in [Strands -> SUBSET Strands]
  <2>1. ASSUME cilkStageFirst(i) PROVE begun' \subseteq Strands /\ before' \in [Strands -> SUBSET Strands]
    <3>1. Begin(i, 0, TRUE)
      BY <2>1 DEF cilkStageFirst
    <3>2. 0 \in 0 .. MaxStage /\ TRUE \in BOOLEAN
      BY <1>0
    <3> QED
      BY <1>1, <3>1, <3>2, Zenon
  <2>2. ASSUME NEW s \in 1 .. MaxStage, CilkStage(i, s)
        PROVE begun' \subseteq Strands /\ before' \in [Strands -> SUBSET Strands]
    <3>1. Begin(i, s, FALSE)
      BY <2>2 DEF CilkStage
    <3>2. s \in 0 .. MaxStage /\ FALSE \in BOOLEAN
      BY <1>0
    <3> QED
      BY <1>1, <3>1, <3>2, Zenon
  <2>3. ASSUME PassStageWait(i) PROVE begun' \subseteq Strands /\ before' \in [Strands -> SUBSET Strands]
    <3>1. stage[i] \in 0 .. MaxStage /\ TRUE \in BOOLEAN /\ Begin(i, stage[i], TRUE)
      <4>1. pc[i] = "wait" /\ Begin(i, stage[i], TRUE)
        BY <2>3 DEF PassStageWait, Goto
      <4> QED
        BY <4>1 DEF IInv, Inv, Places, Body
    <3> QED
      BY <1>1, <3>1
  <2>4. ASSUME UNCHANGED dag PROVE begun' \subseteq Strands /\ before' \in [Strands -> SUBSET Strands]
    BY <2>4 DEF dag, Shapes
  <2> QED
    BY <1>a, <2>1, <2>2, <2>3, <2>4 DEF Start, ConditionFalse, CilkStageWait, ReadLength, Look, LookNoFurther,
       CreateOrder, RaiseTop, StoreElement, EndBody, Leave
<1>3. length' \in [Iters -> Int]
  <2>1. ASSUME cilkStageFirst(i) \/ RaiseTop(i) PROVE length' \in [Iters -> Int]
    <3>1. length' = [length EXCEPT ![i] = 1] \/ length' = [length EXCEPT ![i] = length[i] + 1]
      BY <2>1 DEF cilkStageFirst, RaiseTop
    <3>2. length \in [Iters -> Int]
      BY DEF Shapes
    <3> QED
      BY <3>1, <3>2
  <2>2. ASSUME UNCHANGED length PROVE length' \in [Iters -> Int]
    BY <2>2 DEF Shapes
  <2> QED
    BY <1>a, <2>1, <2>2 DEF Start, ConditionFalse, CilkStage, CilkStageWait, PassStageWait, ReadLength, Look,
       LookNoFurther, CreateOrder, StoreElement, EndBody, Leave, list
<1>4. scan' \in [Iters -> [index : Nat, iPre : Nat, ret : Nat, len : Int]]
  <2>0. scan \in [Iters -> [index : Nat, iPre : Nat, ret : Nat, len : Int]]
    BY DEF Shapes
  <2>1. ASSUME ReadLength(i) PROVE scan' \in [Iters -> [index : Nat, iPre : Nat, ret : Nat, len : Int]]
    <3>1. pc[i] = "length" /\ i > 1
      BY <2>1 DEF ReadLength, Goto, Scans, ScansOf, Waits
    <3>2. ListOf(i - 1) \in Iters
      BY <3>1, ListsThere DEF Body
    <3>3. length[ListOf(i - 1)] \in Int
      BY <3>2 DEF Shapes
    <3> QED
      BY <2>0, <2>1, <3>3 DEF ReadLength
  <2>2. ASSUME Look(i) PROVE scan' \in [Iters -> [index : Nat, iPre : Nat, ret : Nat, len : Int]]
    <3>1. scan[i].index \in Nat /\ scan[i].iPre \in Nat /\ scan[i].index + 1 \in Nat
      BY <2>0
    <3>2. \/ scan' = [scan EXCEPT ![i].ret = scan[i].index, ![i].index = scan[i].index + 1]
          \/ scan' = [scan EXCEPT ![i].iPre = scan[i].index, ![i].index = scan[i].index + 1]
          \/ scan' = [scan EXCEPT ![i].ret = scan[i].iPre]
      BY <2>2 DEF Look
    <3> QED
      BY <2>0, <3>1, <3>2
  <2>3. ASSUME CreateOrder(i) PROVE scan' \in [Iters -> [index : Nat, iPre : Nat, ret : Nat, len : Int]]
    <3>1. scan' = [scan EXCEPT ![i].iPre = 0, ![i].ret = 0, ![i].len = 0]
      BY <2>3 DEF CreateOrder
    <3> DEFINE R == [index : Nat, iPre : Nat, ret : Nat, len : Int]
               u == [scan[i] EXCEPT !.iPre = 0]
               v == [u EXCEPT !.ret = 0]
               w == [v EXCEPT !.len = 0]
    <3>2. scan[i] \in R /\ 0 \in Nat /\ 0 \in Int
      BY <2>0
    <3>3. u \in R
      BY <3>2
    <3>4. v \in R
      BY <3>3
    <3>5. w \in R
      <4> HIDE DEF v
      <4> QED
        BY <3>2, <3>4
    <3> DEFINE x == [scan[i] EXCEPT !.iPre = 0, !.ret = 0, !.len = 0]
    <3>a. scan' = [scan EXCEPT ![i] = x]
      BY <2>0, <3>1
    <3>b. x = w
      OBVIOUS
    <3> HIDE DEF R, w, x
    <3>6. scan' = [scan EXCEPT ![i] = w]
      BY <3>a, <3>b
    <3>7. scan' \in [Iters -> R]
      BY <2>0, <3>5, <3>6 DEF R
    <3> QED
      BY <3>7 DEF R
  <2>4. ASSUME UNCHANGED scan PROVE scan' \in [Iters -> [index : Nat, iPre : Nat, ret : Nat, len : Int]]
    BY <2>0, <2>4
  <2> QED
    BY <1>a, <2>1, <2>2, <2>3, <2>4 DEF Start, ConditionFalse, cilkStageFirst, CilkStage, CilkStageWait, PassStageWait,
       LookNoFurther, RaiseTop, StoreElement, EndBody, Leave, look
<1>5. node' = [f \in Strands |-> node'[f]]
  <2>1. ASSUME UNCHANGED node PROVE node' = [f \in Strands |-> node'[f]]
    BY <2>1 DEF Shapes
  <2>2. ASSUME NEW x, NEW y, node' = [node EXCEPT ![x] = y] PROVE node' = [f \in Strands |-> node'[f]]
    BY <2>2 DEF Shapes
  <2>3. ASSUME cilkStageFirst(i) \/ CreateOrder(i) PROVE node' = [f \in Strands |-> node'[f]]
    <3>1. \E x, y : node' = [node EXCEPT ![x] = y]
      BY <2>3 DEF cilkStageFirst, CreateOrder, createOrder
    <3> QED
      BY <2>2, <3>1
  <2> QED
    BY <1>a, <2>1, <2>3 DEF Start, ConditionFalse, CilkStage, CilkStageWait, PassStageWait, ReadLength, Look,
       LookNoFurther, RaiseTop, StoreElement, EndBody, Leave, order
<1> QED
  BY <1>2, <1>3, <1>4, <1>5 DEF Shapes

----------------------------------------------------------------------------
(* The strands that have begun                                             *)

\* The strands that have begun either have their nodes or are about to get them.
LEMMA StrandsOf ==
  ASSUME IInv, Shapes, Begun, Frames
  PROVE  /\ begun \subseteq Strands /\ Created \subseteq begun
         /\ \A f \in begun : f \in Created \/ (pc[f[1]] \in Pending /\ f = Current(f[1]))
         /\ \A f \in begun : pc[f[1]] \in Pending /\ f = Current(f[1]) => f \notin Created
         /\ \A f \in Created : HasList(f[1])
         /\ \A f \in begun : f[1] \in Iters /\ f[1] \in Int /\ f[2] \in Int /\ stage[f[1]] \in Int
<1>1. begun \subseteq Strands /\ Created \subseteq begun
  BY DEF Shapes, Created
<1>2. \A f \in begun : /\ f = <<f[1], f[2]>> /\ f[1] \in Iters /\ f[1] \in Int /\ f[2] \in Int
                       /\ stage[f[1]] \in Int /\ f[2] <= stage[f[1]]
  BY <1>1, StrandIs, Stages DEF Begun, IInv
<1>3. ASSUME NEW f \in begun, f \notin Created PROVE pc[f[1]] \in Pending /\ f = Current(f[1])
  <2>1. ~(f[2] < stage[f[1]]) /\ pc[f[1]] \notin {"user", "append"}
    BY <1>3 DEF Created
  <2>2. f[2] = stage[f[1]]
    BY <1>2, <2>1
  <2>3. pc[f[1]] \in Pending
    <3>1. pc[f[1]] \in Body \cup {"unborn", "test", "over"}
      BY <1>2 DEF IInv, Inv, Types
    <3>2. pc[f[1]] \notin {"unborn", "test", "wait", "over"}
      BY <2>1 DEF Begun, Created
    <3> QED
      BY <2>1, <3>1, <3>2 DEF Body, Pending
  <2> QED
    BY <1>2, <2>2, <2>3 DEF Current
<1>4. ASSUME NEW f \in begun, pc[f[1]] \in Pending, f = Current(f[1]) PROVE f \notin Created
  <2>1. f[2] = stage[f[1]]
    BY <1>4 DEF Current
  <2> QED
    BY <1>2, <1>4, <2>1 DEF Created, Pending
<1>5. ASSUME NEW f \in Created PROVE HasList(f[1])
  <2>1. f[1] \in Iters
    BY <1>1, <1>2
  <2>2. CASE pc[f[1]] \in Body
    BY <2>1, <2>2 DEF IInv, Inv, Lists
  <2>3. CASE pc[f[1]] \notin Body
    <3>1. \E k \in 1 .. Len(elems[f[1]]) : elems[f[1]][k] = f[2]
      BY <2>1, <2>3 DEF Frames, FramesOf, Body
    <3>2. Len(<<>>) = 0
      OBVIOUS
    <3> QED
      BY <3>1, <3>2 DEF HasList
  <2> QED
    BY <2>2, <2>3
<1> QED
  BY <1>1, <1>2, <1>3, <1>4, <1>5

\* An iteration with a list has a last strand with nodes.
LEMMA LastIs ==
  ASSUME IInv, Shapes, Begun, Frames, NEW i \in Iters, HasList(i)
  PROVE  /\ LastStrand(i) \in Created /\ LastStage(i) \in 0 .. MaxStage /\ LastStage(i) \in Int
         /\ LastStrand(i)[1] = i /\ LastStrand(i)[2] = LastStage(i)
         /\ \A f \in Created : f[1] = i => f[2] <= LastStage(i)
         /\ elems[i] \in Seq(0 .. MaxStage) /\ Len(elems[i]) \in Nat /\ Len(elems[i]) >= 1
         /\ \A k \in 1 .. Len(elems[i]) : elems[i][k] \in Int /\ elems[i][k] <= LastStage(i)
<1>1. elems[i] \in Seq(0 .. MaxStage) /\ Len(elems[i]) \in Nat /\ Len(elems[i]) >= 1
  BY DEF IInv, Inv, Types, HasList
<1>2. \A k \in 1 .. Len(elems[i]) : elems[i][k] \in 0 .. MaxStage /\ elems[i][k] \in Int
  BY <1>1, Element, SlotNumbers
<1>3. \A f \in Created : f \in begun /\ f[2] \in Int /\ stage[f[1]] \in Int
  BY StrandsOf
<1>4. LastStrand(i)[1] = i /\ LastStrand(i)[2] = LastStage(i)
  BY DEF LastStrand
<1>5. CASE pc[i] = "append"
  <2>1. LastStage(i) = stage[i] /\ stage[i] \in 0 .. MaxStage /\ stage[i] \in Int
    BY <1>5, SlotNumbers DEF LastStage, IInv, Inv, Places, Body
  <2>2. Current(i) \in begun /\ LastStrand(i) = Current(i)
    BY <1>5, <2>1 DEF Begun, Body, LastStrand, Current
  <2>3. LastStrand(i) \in Created
    BY <1>5, <1>4, <2>2 DEF Created
  <2>4. \A f \in Created : f[1] = i => f[2] <= LastStage(i)
    BY <1>3, <2>1 DEF Begun
  <2>5. \A k \in 1 .. Len(elems[i]) : elems[i][k] <= LastStage(i)
    <3>1. \A k \in 1 .. Len(elems[i]) : <<i, elems[i][k]>> \in Created
      BY DEF Frames, FramesOf
    <3> QED
      BY <2>4, <3>1
  <2> QED
    BY <1>1, <1>2, <1>4, <2>1, <2>3, <2>4, <2>5
<1>6. CASE pc[i] # "append"
  <2>1. LastStage(i) = elems[i][Len(elems[i])] /\ Len(elems[i]) \in 1 .. Len(elems[i])
    BY <1>1, <1>6 DEF LastStage
  <2>2. LastStrand(i) \in Created
    BY <2>1 DEF Frames, FramesOf, LastStrand
  <2>3. \A k \in 1 .. Len(elems[i]) : elems[i][k] <= LastStage(i)
    <3>1. \A k, l \in 1 .. Len(elems[i]) : k < l => elems[i][k] < elems[i][l]
      BY DEF Frames, FramesOf
    <3>2. \A k \in 1 .. Len(elems[i]) : k = Len(elems[i]) \/ k < Len(elems[i])
      BY <1>1
    <3> QED
      BY <1>2, <2>1, <3>1, <3>2
  <2>4. \A f \in Created : f[1] = i => f[2] <= LastStage(i)
    <3>1. \A f \in Created : f[1] = i => \E k \in 1 .. Len(elems[i]) : elems[i][k] = f[2]
      BY <1>6 DEF Frames, FramesOf
    <3> QED
      BY <2>3, <3>1
  <2> QED
    BY <1>1, <1>2, <1>4, <2>1, <2>2, <2>3, <2>4
<1> QED
  BY <1>5, <1>6

\* Iteration i goes on in the detector and no strand begins.
Goes(i) ==
  /\ \A j \in Iters \ {i} : pc'[j] = pc[j]
  /\ UNCHANGED <<stage, begun, before>>
  /\ pc[i] \in {"length", "look", "order", "append"} /\ pc'[i] \in {"look", "order", "append", "user"}

\* In the detector nothing changes about the loop or the dag.
LEMMA GoesOn ==
  ASSUME NEW i \in Iters, Reads(i) \/ LooksOn(i) \/ Ends(i) \/ Creates(i) \/ Appends(i)
  PROVE  Goes(i)
  BY DEF Reads, LooksOn, Ends, Creates, Appends, Alone, Elsewhere, Goes

\* A strand that begins is the latest of its iteration.
LEMMA OpensLater ==
  ASSUME IInv, Shapes, Begun, NEW i \in Iters, NEW s \in 0 .. MaxStage, NEW wait \in BOOLEAN, Opens(i, s, wait)
  PROVE  \A f \in begun : f[1] = i => f[2] < s
<1>0. s \in Int /\ stage[i] \in Int
  BY Stages, SlotNumbers DEF IInv
<1>1. \A f \in begun : f[2] \in Int
  BY StrandIs DEF Shapes
<1>2. CASE wait
  BY <1>0, <1>1, <1>2 DEF Opens, Begun
<1>3. CASE ~wait
  <2>1. stage[i] < s
    BY <1>3 DEF Opens
  <2> QED
    BY <1>0, <1>1, <2>1 DEF Begun
<1> QED
  BY <1>2, <1>3

\* The strand that begins is new, and iteration i is where it is.
LEMMA NewStrand ==
  ASSUME IInv, Shapes, Begun, NEW i \in Iters, NEW s \in 0 .. MaxStage, NEW wait \in BOOLEAN,
         Opens(i, s, wait) \/ (s = 0 /\ wait /\ Opening(i))
  PROVE  /\ <<i, s>> \in Strands /\ <<i, s>> \notin begun /\ stage'[i] = s /\ stage[i] <= s
         /\ Begins(i, s, wait)
         /\ \A j \in Iters \ {i} : pc'[j] = pc[j] /\ stage'[j] = stage[j]
         /\ pc'[i] \in {"length", "order", "user"}
         /\ \A f \in begun : f[1] = i => f[2] < s
         /\ \A f \in begun : wait /\ f[1] = i - 1 /\ f[2] <= s => f[2] < stage[f[1]]
<1>0. s \in Int /\ stage[i] \in Int /\ <<i, s>> \in Strands
  BY Stages, SlotNumbers DEF IInv, Strands, Iters
<1>1. \A f \in begun : f[1] \in Iters /\ f[1] \in Int /\ f[2] \in Int /\ stage[f[1]] \in Int
  BY StrandIs, Stages DEF IInv, Shapes
<1>2. CASE Opens(i, s, wait)
  <2>1. /\ stage'[i] = s /\ Begins(i, s, wait) /\ stage[i] <= s
        /\ \A j \in Iters \ {i} : pc'[j] = pc[j] /\ stage'[j] = stage[j]
        /\ pc'[i] \in {"length", "order", "user"}
    BY <1>0, <1>2 DEF Opens, Elsewhere
  <2>2. \A f \in begun : f[1] = i => f[2] < s
    BY <1>2, OpensLater
  <2>3. \A f \in begun : wait /\ f[1] = i - 1 /\ f[2] <= s => f[2] < stage[f[1]]
    <3>1. ASSUME NEW f \in begun, wait, f[1] = i - 1, f[2] <= s PROVE f[2] < stage[f[1]]
      <4>1. i > 1 /\ i \in Int
        BY <1>1, <3>1, SlotNumbers DEF Iters
      <4>2. stage[i - 1] > s
        BY <1>2, <3>1, <4>1 DEF Opens
      <4> QED
        BY <1>0, <1>1, <3>1, <4>2
    <3> QED
      BY <3>1
  <2> QED
    BY <1>0, <2>1, <2>2, <2>3
<1>3. CASE s = 0 /\ wait /\ Opening(i)
  <2>0. Begins(i, s, wait)
    <3>1. Begins(i, 0, TRUE)
      BY <1>3, Zenon DEF Opening
    <3>2. s = 0 /\ wait
      BY <1>3
    <3>3. wait = TRUE
      BY <3>2, Zenon
    <3> QED
      BY <3>1, <3>2, <3>3, Zenon
  <2>1. /\ stage'[i] = s /\ stage[i] <= s /\ pc[i] = "test"
        /\ \A j \in Iters \ {i} : pc'[j] = pc[j] /\ stage'[j] = stage[j]
        /\ pc'[i] \in {"length", "order", "user"}
    <3>1. Opening(i) /\ s = 0
      BY <1>3
    <3>2. stage' = stage /\ stage[i] = 0 /\ pc[i] = "test" /\ pc'[i] = "user" /\ \A j \in Iters \ {i} : pc'[j] = pc[j]
      BY <3>1 DEF Opening
    <3> QED
      BY <1>0, <3>1, <3>2
  <2>2. \A f \in begun : f[1] # i
    BY <2>1 DEF Begun
  <2>3. \A f \in begun : f[1] = i - 1 /\ f[2] <= 0 => f[2] < stage[f[1]]
    <3>1. ASSUME NEW f \in begun, f[1] = i - 1, f[2] <= 0 PROVE f[2] < stage[f[1]]
      <4>1. i - 1 \in Iters /\ i \in Int /\ i - 1 < i
        BY <1>1, <3>1, SlotNumbers DEF Iters
      <4>2. stage[i] = 0
        BY <1>3 DEF Opening
      <4>3. stage[i - 1] > 0
        BY <4>1, <4>2 DEF IInv, P!Inv, P!StageZeroInOrder, P!Iters, Iters, P!Unborn
      <4> QED
        BY <1>1, <3>1, <4>3
    <3> QED
      BY <3>1
  <2> QED
    BY <1>0, <1>3, <2>0, <2>1, <2>2, <2>3
<1> QED
  BY <1>2, <1>3

\* Stages are numbers after the step, too.
LEMMA StagesNext == ASSUME IInv' PROVE \A i \in Iters : stage'[i] \in Int
<1>1. stage' \in [0 .. MaxIter + 1 -> -1 .. MaxStage + 3]
  BY DEF IInv, P!Inv, P!TypeOK, P!Unborn, P!FinishStage
<1> QED
  BY <1>1, SlotNumbers DEF Iters

\* Begun is kept where no strand begins.
LEMMA BegunQuiet ==
  ASSUME IInv, IInv', Shapes, Begun, NEW i \in Iters, Quiet(i) \/ Goes(i)
  PROVE  Begun'
<1>0. begun' = begun /\ before' = before /\ \A j \in Iters \ {i} : pc'[j] = pc[j] /\ stage'[j] = stage[j]
  BY DEF Quiet, Elsewhere, Goes
<1>1. \A f \in begun : f \in Strands /\ f[1] \in Iters /\ f[2] \in Int
  BY StrandIs DEF Shapes
<1>2. \A j \in Iters : stage[j] \in Int
  BY Stages DEF IInv
<1>3. ASSUME NEW f \in begun
      PROVE  /\ pc'[f[1]] \notin {"unborn", "test"}
             /\ f[2] <= stage'[f[1]]
             /\ pc'[f[1]] \in {"wait", "over"} => f[2] < stage'[f[1]]
  <2>0. /\ pc[f[1]] \notin {"unborn", "test"}
        /\ f[2] <= stage[f[1]]
        /\ pc[f[1]] \in {"wait", "over"} => f[2] < stage[f[1]]
    BY DEF Begun
  <2>1. CASE f[1] # i
    BY <1>0, <1>1, <2>0, <2>1
  <2>2. CASE f[1] = i /\ Goes(i)
    BY <2>0, <2>2 DEF Goes
  <2>3. CASE f[1] = i /\ Quiet(i)
    <3>1. \/ pc[i] = "user" /\ pc'[i] \in {"wait", "over"} /\ stage[i] < stage'[i]
          \/ pc[i] = "over" /\ pc'[i] = "over" /\ stage[i] <= stage'[i]
      BY <2>0, <2>3 DEF Quiet
    <3>2. stage'[i] \in Int
      BY <2>3, StagesNext
    <3> QED
      BY <1>1, <1>2, <2>0, <2>3, <3>1, <3>2
  <2> QED
    BY <2>1, <2>2, <2>3
<1>4. ASSUME NEW j \in Iters, pc'[j] \in Body \ {"wait"} PROVE (Current(j))' \in begun'
  <2>1. CASE j # i
    BY <1>0, <1>4, <2>1 DEF Begun, Current
  <2>2. CASE j = i /\ Goes(i)
    BY <2>2 DEF Goes, Begun, Current, Body
  <2>3. CASE j = i /\ Quiet(i)
    BY <1>4, <2>3 DEF Quiet, Body
  <2> QED
    BY <2>1, <2>2, <2>3
<1> QED
  BY <1>0, <1>3, <1>4 DEF Begun

\* Begun is kept where one does.
LEMMA BegunNew ==
  ASSUME IInv, IInv', Shapes, Shapes', Begun, NEW i \in Iters, NEW s \in 0 .. MaxStage, NEW wait \in BOOLEAN,
         Opens(i, s, wait) \/ (s = 0 /\ wait /\ Opening(i))
  PROVE  Begun'
<1> DEFINE g == <<i, s>>
<1>0. /\ g \in Strands /\ g \notin begun /\ stage'[i] = s /\ stage[i] <= s
      /\ Begins(i, s, wait)
      /\ \A j \in Iters \ {i} : pc'[j] = pc[j] /\ stage'[j] = stage[j]
      /\ pc'[i] \in {"length", "order", "user"}
      /\ \A f \in begun : f[1] = i => f[2] < s
  BY NewStrand
<1>1. \A f \in begun : f \in Strands /\ f[1] \in Iters /\ f[2] \in Int
  BY StrandIs DEF Shapes
<1>2. s \in Int /\ g[1] = i /\ g[2] = s
  BY SlotNumbers
<1> HIDE DEF g
<1>3. begun' = begun \cup {g} /\ \A f \in Strands : f # g => before'[f] = before[f]
  BY <1>0 DEF Begins, g
<1>4. before' \in [Strands -> SUBSET begun']
  <2>1. before'[g] \subseteq begun
    <3>1. \A f : f \in before'[g] => \E x \in begun : f \in Cone(x)
      BY <1>0 DEF Begins, g
    <3>2. \A x \in begun : Cone(x) \subseteq begun
      BY <1>1 DEF Begun, Cone
    <3> QED
      BY <3>1, <3>2
  <2>2. \A f \in Strands : before'[f] \subseteq begun
    BY <1>3, <2>1 DEF Begun
  <2> QED
    BY <1>3, <2>2 DEF Shapes
<1>5. ASSUME NEW f \in begun'
      PROVE  /\ pc'[f[1]] \notin {"unborn", "test"}
             /\ f[2] <= stage'[f[1]]
             /\ pc'[f[1]] \in {"wait", "over"} => f[2] < stage'[f[1]]
  <2>1. CASE f = g
    BY <1>0, <1>2, <2>1
  <2>2. CASE f \in begun /\ f[1] # i
    BY <1>0, <1>1, <2>2 DEF Begun
  <2>3. CASE f \in begun /\ f[1] = i
    BY <1>0, <1>1, <1>2, <2>3
  <2> QED
    BY <1>3, <2>1, <2>2, <2>3
<1>6. ASSUME NEW j \in Iters, pc'[j] \in Body \ {"wait"} PROVE (Current(j))' \in begun'
  <2>1. CASE j = i
    BY <1>0, <1>3, <2>1 DEF Current, g
  <2>2. CASE j # i
    BY <1>0, <1>3, <1>6, <2>2 DEF Current, Begun
  <2> QED
    BY <2>1, <2>2
<1> QED
  BY <1>4, <1>5, <1>6 DEF Begun, Shapes

\* What a strand waits for, those wait for too.
LEMMA ConeIn ==
  ASSUME Dag, NEW f \in begun, NEW g \in begun, f \in Cone(g)
  PROVE  Cone(f) \subseteq Cone(g) /\ (f # g => f \in before[g] /\ Cone(f) \subseteq before[g])
  BY DEF Dag, Cone

\* Dag is kept where no strand begins.
LEMMA DagKept ==
  ASSUME IInv, IInv', Shapes, Begun, Dag, NEW i \in Iters, Quiet(i) \/ Goes(i)
  PROVE  Dag'
<1>0. begun' = begun /\ before' = before /\ \A j \in Iters \ {i} : stage'[j] = stage[j]
  BY DEF Quiet, Elsewhere, Goes
<1>1. \A f \in begun : f[1] \in Iters /\ f[2] \in Int
  BY StrandIs DEF Shapes
<1>2. \A j \in Iters : stage[j] \in Int /\ stage'[j] \in Int
  BY Stages, StagesNext DEF IInv
<1>3. stage[i] <= stage'[i]
  BY <1>2 DEF Quiet, Goes
<1>4. \A j \in Iters : stage[j] <= stage'[j]
  BY <1>0, <1>2, <1>3
<1>5. \A f \in begun : f[2] < stage[f[1]] => f[2] < stage'[f[1]]
  BY <1>1, <1>2, <1>4
<1> QED
  BY <1>0, <1>5 DEF Dag

\* Dag is kept where one does.
LEMMA DagNew ==
  ASSUME IInv, IInv', Shapes, Shapes', Begun, Dag, NEW i \in Iters, NEW s \in 0 .. MaxStage, NEW wait \in BOOLEAN,
         Opens(i, s, wait) \/ (s = 0 /\ wait /\ Opening(i))
  PROVE  Dag'
<1> DEFINE g == <<i, s>>
           D(x) == x[1] = i \/ (wait /\ x[1] = i - 1 /\ x[2] <= s)
<1>0. /\ g \in Strands /\ g \notin begun /\ stage'[i] = s /\ stage[i] <= s
      /\ Begins(i, s, wait)
      /\ \A j \in Iters \ {i} : stage'[j] = stage[j]
      /\ \A f \in begun : f[1] = i => f[2] < s
      /\ \A f \in begun : wait /\ f[1] = i - 1 /\ f[2] <= s => f[2] < stage[f[1]]
  BY NewStrand
<1>1. \A f \in begun : f \in Strands /\ f[1] \in Iters /\ f[1] \in Int /\ f[2] \in Int
  BY StrandIs DEF Shapes
<1>2. s \in Int /\ i \in Int /\ g[1] = i /\ g[2] = s /\ i - 1 <= i
  BY SlotNumbers DEF Iters
<1>3. \A j \in Iters : stage[j] \in Int /\ stage'[j] \in Int /\ stage[j] <= stage'[j]
  BY <1>0, Stages, StagesNext DEF IInv
<1> HIDE DEF g, D
<1>4. /\ begun' = begun \cup {g} /\ \A f \in Strands : f # g => before'[f] = before[f]
      /\ \A f : f \in before'[g] <=> \E x \in begun : D(x) /\ f \in Cone(x)
  BY <1>0 DEF Begins, g, D
<1>5. \A f \in begun : before[f] \subseteq begun /\ before'[f] = before[f] /\ g \notin before[f]
  BY <1>0, <1>1, <1>4 DEF Begun
<1>6. \A x \in begun : D(x) => /\ x[1] <= i /\ (x[1] = i => x[2] < s) /\ (x[1] < i => x[2] < stage[x[1]])
  BY <1>0, <1>1, <1>2 DEF D
<1>7. ASSUME NEW f \in before'[g]
      PROVE  /\ f \in begun /\ f[1] <= i /\ (f[1] = i => f[2] < s)
             /\ f[1] < i => f[2] < stage[f[1]]
             /\ before[f] \subseteq before'[g]
  <2>1. PICK x \in begun : D(x) /\ f \in Cone(x)
    BY <1>4
  <2>2. CASE f = x
    BY <1>4, <1>6, <2>1, <2>2 DEF Cone
  <2>3. CASE f \in before[x]
    <3>1. /\ f \in begun /\ f[1] <= x[1] /\ (f[1] = x[1] => f[2] < x[2]) /\ (f[1] < x[1] => f[2] < stage[f[1]])
          /\ before[f] \subseteq before[x]
      BY <1>5, <2>3 DEF Dag
    <3>2. x[1] <= i /\ (x[1] = i => x[2] < s) /\ (x[1] < i => x[2] < stage[x[1]])
      BY <1>6, <2>1
    <3>3. before[f] \subseteq before'[g]
      BY <1>4, <2>1, <3>1 DEF Cone
    <3>4. /\ f[1] \in Int /\ f[2] \in Int /\ x[1] \in Int /\ x[2] \in Int /\ stage[f[1]] \in Int
      BY <1>1, <1>3, <3>1
    <3>5. CASE f[1] = x[1]
      BY <1>2, <3>1, <3>2, <3>3, <3>4, <3>5
    <3>6. CASE f[1] < x[1]
      BY <1>2, <3>1, <3>2, <3>3, <3>4, <3>6
    <3> QED
      BY <3>1, <3>4, <3>5, <3>6
  <2> QED
    BY <2>1, <2>2, <2>3 DEF Cone
<1>8. ASSUME NEW f \in begun', NEW h \in begun', f \in before'[h]
      PROVE  /\ f[1] <= h[1]
             /\ f[1] = h[1] => f[2] < h[2]
             /\ f[1] < h[1] => f[2] < stage'[f[1]]
             /\ before'[f] \subseteq before'[h]
  <2>1. CASE h = g
    <3>1. /\ f \in begun /\ f[1] <= i /\ (f[1] = i => f[2] < s)
          /\ f[1] < i => f[2] < stage[f[1]]
          /\ before[f] \subseteq before'[g]
      BY <1>7, <1>8, <2>1
    <3> QED
      BY <1>1, <1>2, <1>3, <1>5, <2>1, <3>1
  <2>2. CASE h \in begun
    <3>1. f \in before[h] /\ f \in begun
      BY <1>5, <1>8, <2>2
    <3>2. /\ f[1] <= h[1] /\ (f[1] = h[1] => f[2] < h[2]) /\ (f[1] < h[1] => f[2] < stage[f[1]])
          /\ before[f] \subseteq before[h]
      BY <2>2, <3>1 DEF Dag
    <3> QED
      BY <1>1, <1>3, <1>5, <2>2, <3>1, <3>2
  <2> QED
    BY <1>4, <2>1, <2>2
<1>9. ASSUME NEW f \in begun', NEW h \in begun', f[1] = h[1], f[2] < h[2] PROVE f \in before'[h]
  <2>1. CASE h = g
    <3>1. f # g
      BY <1>2, <1>9, <2>1
    <3>2. f \in begun /\ D(f) /\ f \in Cone(f)
      BY <1>2, <1>4, <1>9, <2>1, <3>1 DEF D, Cone
    <3> QED
      BY <1>4, <2>1, <3>2
  <2>2. CASE h \in begun /\ f = g
    <3>1. h[2] < s /\ s < h[2] /\ h[2] \in Int
      BY <1>0, <1>1, <1>2, <1>9, <2>2
    <3> QED
      BY <1>2, <3>1
  <2>3. CASE h \in begun /\ f \in begun
    BY <1>5, <1>9, <2>3 DEF Dag
  <2> QED
    BY <1>4, <2>1, <2>2, <2>3
<1> QED
  BY <1>8, <1>9 DEF Dag

----------------------------------------------------------------------------
(* The strands that have nodes                                             *)

\* Nothing is put into the orders.
Stays ==
  /\ Created' = Created /\ UNCHANGED <<english, hebrew, node>>
  /\ \A j \in Iters : (HasList(j))' <=> HasList(j)
  /\ \A j \in Iters : HasList(j) => (LastStrand(j))' = LastStrand(j)
  /\ \A f \in Created : before'[f] = before[f]

\* The steps that touch neither the orders nor the lists.
LEMMA Unplaced ==
  ASSUME IInv, IInv', Shapes, Begun, Frames, NEW i \in Iters,
         Quiet(i) \/ Reads(i) \/ LooksOn(i) \/ Ends(i) \/ \E s \in 0 .. MaxStage, wait \in BOOLEAN : Opens(i, s, wait)
  PROVE  Stays /\ elems' = elems /\ length' = length /\ pc[i] # "append" /\ pc'[i] # "append"
         /\ \A j \in Iters \ {i} : pc'[j] = pc[j] /\ stage'[j] = stage[j]
<1>0. /\ UNCHANGED <<english, hebrew, node, elems, length>>
      /\ \A j \in Iters \ {i} : pc'[j] = pc[j] /\ stage'[j] = stage[j]
  BY DEF Quiet, Reads, LooksOn, Ends, Opens, Alone, Elsewhere
<1>1. \A f \in begun : f \in Strands /\ f[1] \in Iters /\ f[1] \in Int /\ f[2] \in Int /\ stage[f[1]] \in Int
  BY StrandIs, Stages DEF Shapes, IInv
<1>2. pc[i] # "append" /\ pc'[i] # "append"
  BY DEF Quiet, Reads, LooksOn, Ends, Opens
<1>3. \A j \in Iters : HasList(j) => (LastStrand(j))' = LastStrand(j)
  BY <1>0, <1>2 DEF LastStrand, LastStage
<1>4. \A j \in Iters : (HasList(j))' <=> HasList(j)
  BY <1>0 DEF HasList
<1>5. ASSUME NEW f \in begun
      PROVE  f \in Created <=> (f[2] < stage'[f[1]] \/ pc'[f[1]] \in {"user", "append"})
  <2>1. CASE f[1] # i
    BY <1>0, <1>1, <2>1 DEF Created
  <2>2. CASE f[1] = i /\ Quiet(i)
    <3>1. /\ \/ pc[i] = "user" /\ pc'[i] \in {"wait", "over"} /\ stage[i] < stage'[i]
             \/ pc[i] = "over" /\ pc'[i] = "over" /\ stage[i] <= stage'[i]
          /\ f[2] <= stage[f[1]]
          /\ pc[f[1]] = "over" => f[2] < stage[f[1]]
      BY <2>2 DEF Quiet, Begun
    <3>2. stage'[i] \in Int
      BY StagesNext
    <3> QED
      BY <1>1, <2>2, <3>1, <3>2 DEF Created
  <2>3. CASE f[1] = i /\ (Reads(i) \/ LooksOn(i) \/ Ends(i))
    BY <2>3 DEF Reads, LooksOn, Ends, Alone, Created
  <2>4. CASE f[1] = i /\ \E s \in 0 .. MaxStage, wait \in BOOLEAN : Opens(i, s, wait)
    <3>1. PICK s \in 0 .. MaxStage, wait \in BOOLEAN : Opens(i, s, wait)
      BY <2>4
    <3>a. stage'[i] = s /\ \A x \in begun : x[1] = i => x[2] < s
      <4>1. \A x \in begun : x[1] = i => x[2] < s
        BY <3>1, OpensLater
      <4>2. stage'[i] = s
        BY <3>1 DEF Opens
      <4> QED
        BY <4>1, <4>2
    <3>2. f[2] < s /\ stage'[i] = s
      BY <2>4, <3>a
    <3>3. pc[i] = "user" \/ pc[i] = "wait"
      BY <3>1 DEF Opens
    <3>4. f \in Created
      BY <2>4, <3>3 DEF Created, Begun
    <3> QED
      BY <2>4, <3>2, <3>4
  <2> QED
    BY <2>1, <2>2, <2>3, <2>4
<1>6. CASE Quiet(i) \/ Reads(i) \/ LooksOn(i) \/ Ends(i)
  <2>1. begun' = begun /\ before' = before
    BY <1>6 DEF Quiet, Reads, LooksOn, Ends, Alone
  <2>2. Created' = Created
    BY <1>5, <2>1 DEF Created
  <2> QED
    BY <1>0, <1>2, <1>3, <1>4, <2>1, <2>2 DEF Stays
<1>7. CASE \E s \in 0 .. MaxStage, wait \in BOOLEAN : Opens(i, s, wait)
  <2>1. PICK s \in 0 .. MaxStage, wait \in BOOLEAN : Opens(i, s, wait)
    BY <1>7
  <2> DEFINE g == <<i, s>>
  <2>2. begun' = begun \cup {g} /\ g \notin begun /\ \A f \in Strands : f # g => before'[f] = before[f]
    BY <2>1, NewStrand DEF Begins
  <2>3. ~(g[2] < stage'[g[1]] \/ pc'[g[1]] \in {"user", "append"})
    <3>1. g[1] = i /\ g[2] = s /\ s \in Int /\ stage'[i] = s /\ pc'[i] \in {"length", "order"}
      BY <2>1, SlotNumbers DEF Opens
    <3> QED
      BY <3>1
  <2> HIDE DEF g
  <2>4. Created' = Created
    <3>1. Created' = {f \in begun' : f[2] < stage'[f[1]] \/ pc'[f[1]] \in {"user", "append"}}
      BY DEF Created
    <3>2. Created \subseteq begun
      BY DEF Created
    <3> QED
      BY <1>5, <2>2, <2>3, <3>1, <3>2
  <2>5. \A f \in Created : before'[f] = before[f]
    BY <1>1, <2>2 DEF Created
  <2> QED
    BY <1>0, <1>2, <1>3, <1>4, <2>4, <2>5 DEF Stays
<1> QED
  BY <1>6, <1>7

\* An append leaves the orders and the last strands as they are.
LEMMA AppendPlaces ==
  ASSUME IInv, Shapes, Begun, Frames, NEW i \in Iters, Appends(i)
  PROVE  Stays
<1>0. /\ UNCHANGED <<stage, begun, before, english, hebrew, node>> /\ pc[i] = "append" /\ pc'[i] \in {"append", "user"}
      /\ \A j \in Iters \ {i} : pc'[j] = pc[j] /\ elems'[j] = elems[j]
  BY DEF Appends, Elsewhere
<1>1. Created' = Created
  BY <1>0, StrandsOf DEF Created
<1>2. HasList(i) /\ elems[i] \in Seq(0 .. MaxStage) /\ stage[i] \in 0 .. MaxStage
  BY <1>0 DEF IInv, Inv, Types, Lists, Places, Body
<1>3. /\ Len(Append(elems[i], stage[i])) = Len(elems[i]) + 1 /\ Len(elems[i]) \in Nat
      /\ Append(elems[i], stage[i])[Len(elems[i]) + 1] = stage[i]
      /\ Append(elems[i], stage[i]) # <<>>
  BY <1>2
<1>4. (HasList(i))'
  BY <1>2, <1>3 DEF Appends, HasList
<1>5. (LastStage(i))' = stage[i]
  <2>1. CASE pc'[i] = "append"
    BY <1>0, <2>1 DEF LastStage
  <2>2. CASE pc'[i] = "user" /\ elems'[i] = elems[i]
    <3>1. length[i] < Len(elems[i])
      BY <1>2, <1>3, <2>2 DEF Appends
    <3>2. elems[i][Len(elems[i])] = stage[i]
      BY <1>0, <1>3, <3>1 DEF Frames, FramesOf
    <3> QED
      BY <2>2, <3>2 DEF LastStage
  <2>3. CASE pc'[i] = "user" /\ elems'[i] = Append(elems[i], stage[i])
    BY <1>3, <2>3 DEF LastStage
  <2> QED
    BY <1>0, <2>1, <2>2, <2>3 DEF Appends
<1>6. \A j \in Iters : HasList(j) => (LastStrand(j))' = LastStrand(j)
  <2>1. LastStage(i) = stage[i]
    BY <1>0 DEF LastStage
  <2>2. \A j \in Iters \ {i} : (LastStage(j))' = LastStage(j)
    BY <1>0 DEF LastStage
  <2> QED
    BY <1>5, <2>1, <2>2 DEF LastStrand
<1>7. \A j \in Iters : (HasList(j))' <=> HasList(j)
  BY <1>0, <1>2, <1>4 DEF HasList
<1> QED
  BY <1>0, <1>1, <1>6, <1>7 DEF Stays

\* Strand g of iteration i gets nodes behind the nodes d and r.
Joins(i, g, d, r) ==
  /\ g \in Strands /\ g \notin Created /\ g[1] = i /\ Created' = Created \cup {g} /\ Inserts(g, d, r)
  /\ g \in begun' /\ begun \subseteq begun'
  /\ \A f \in Created : before'[f] = before[f]
  /\ \A f \in Created : f[1] = i => f[2] < g[2]
  /\ \A j \in Iters \ {i} : (HasList(j))' <=> HasList(j)
  /\ \A j \in Iters \ {i} : HasList(j) => (LastStrand(j))' = LastStrand(j)
  /\ (HasList(i))' /\ (LastStrand(i))' = g

\* A stage joins the orders.
LEMMA CreatePlaces ==
  ASSUME IInv, Shapes, Begun, Frames, NEW i \in Iters, Creates(i)
  PROVE  /\ Joins(i, Current(i), DownOf(LastStrand(i)),
                  IF LeftIndex(i) = 0 THEN DownOf(LastStrand(i)) ELSE RightOf(Frame(i, LeftIndex(i))))
         /\ HasList(i) /\ Current(i) \in begun /\ before' = before /\ begun' = begun
<1>0. /\ UNCHANGED <<stage, begun, before, elems>> /\ pc[i] = "order" /\ pc'[i] = "append"
      /\ \A j \in Iters \ {i} : pc'[j] = pc[j]
      /\ Inserts(Current(i), DownOf(LastStrand(i)),
                 IF LeftIndex(i) = 0 THEN DownOf(LastStrand(i)) ELSE RightOf(Frame(i, LeftIndex(i))))
  BY DEF Creates, Elsewhere
<1>1. Current(i) \in begun /\ Current(i) \in Strands /\ Current(i) \notin Created /\ Current(i)[1] = i /\ Current(i)[2] = stage[i]
  <2>1. Current(i) \in begun /\ Current(i)[1] = i /\ Current(i)[2] = stage[i]
    BY <1>0 DEF Begun, Body, Current
  <2>2. Current(i) \notin Created /\ Current(i) \in Strands
    BY <1>0, <2>1, StrandsOf DEF Pending
  <2> QED
    BY <2>1, <2>2
<1>2. Created' = Created \cup {Current(i)}
  <2>1. Created' = {f \in begun : f[2] < stage[f[1]] \/ pc'[f[1]] \in {"user", "append"}}
    BY <1>0 DEF Created
  <2>2. ASSUME NEW f \in begun
        PROVE  f[2] < stage[f[1]] \/ pc'[f[1]] \in {"user", "append"} <=> f \in Created \/ f = Current(i)
    <3>1. f[1] \in Iters /\ (f \in Created \/ f = Current(f[1]))
      BY StrandsOf
    <3>2. CASE f[1] = i
      BY <1>0, <1>1, <3>1, <3>2
    <3>3. CASE f[1] # i
      BY <1>0, <1>1, <3>1, <3>3 DEF Created
    <3> QED
      BY <3>2, <3>3
  <2> QED
    BY <1>1, <2>1, <2>2 DEF Created
<1>3. \A f \in Created : f[1] = i => f[2] < Current(i)[2]
  <2>1. ASSUME NEW f \in Created, f[1] = i PROVE f[2] < stage[i]
    <3>1. f \in begun /\ pc[f[1]] \notin {"user", "append"}
      BY <1>0, <2>1 DEF Created
    <3> QED
      BY <2>1, <3>1 DEF Created
  <2> QED
    BY <1>1, <2>1
<1>4. HasList(i)
  BY <1>0 DEF IInv, Inv, Lists, Body
<1>5. \A j \in Iters : (HasList(j))' <=> HasList(j)
  BY <1>0 DEF HasList
<1>6. (LastStrand(i))' = Current(i) /\ \A j \in Iters \ {i} : (LastStrand(j))' = LastStrand(j)
  BY <1>0 DEF LastStrand, LastStage, Current
<1> QED
  BY <1>0, <1>1, <1>2, <1>3, <1>4, <1>5, <1>6 DEF Joins, Created

\* Stage 0 joins the orders.
LEMMA OpeningPlaces ==
  ASSUME IInv, Shapes, Begun, Frames, NEW i \in Iters, Opening(i)
  PROVE  /\ Joins(i, <<i, 0>>, IF i = 1 THEN Base ELSE Right(i - 1, 0), IF i = 1 THEN Base ELSE Right(i - 1, 0))
         /\ ~HasList(i) /\ \A f \in Created : f[1] # i
<1> DEFINE g == <<i, 0>>
<1>0. /\ stage' = stage /\ pc[i] = "test" /\ pc'[i] = "user" /\ elems'[i] = <<0>>
      /\ \A j \in Iters \ {i} : pc'[j] = pc[j] /\ elems'[j] = elems[j]
      /\ Inserts(g, IF i = 1 THEN Base ELSE Right(i - 1, 0), IF i = 1 THEN Base ELSE Right(i - 1, 0))
  BY DEF Opening
<1>1. g \in Strands /\ g \notin begun /\ begun' = begun \cup {g} /\ \A f \in Strands : f # g => before'[f] = before[f]
  <2>1. 0 \in 0 .. MaxStage /\ TRUE \in BOOLEAN
    BY SlotNumbers
  <2>2. <<i, 0>> \in Strands /\ <<i, 0>> \notin begun
    BY <2>1, NewStrand
  <2>3. Begins(i, 0, TRUE)
    BY Zenon DEF Opening
  <2> QED
    BY <2>2, <2>3 DEF Begins
<1>2. \A f \in begun : f[1] # i
  BY <1>0 DEF Begun
<1>3. g[1] = i /\ g[2] = 0
  OBVIOUS
<1> HIDE DEF g
<1>4. Created' = Created \cup {g}
  <2>1. Created' = {f \in begun' : f[2] < stage[f[1]] \/ pc'[f[1]] \in {"user", "append"}}
    BY <1>0 DEF Created
  <2>2. \A f \in begun : f[1] \in Iters
    BY StrandsOf
  <2>3. \A f \in begun : pc'[f[1]] = pc[f[1]]
    BY <1>0, <1>2, <2>2
  <2> QED
    BY <1>0, <1>1, <1>3, <2>1, <2>3 DEF Created
<1>5. ~HasList(i) /\ (HasList(i))' /\ \A j \in Iters \ {i} : (HasList(j))' <=> HasList(j)
  <2>1. <<0>> # <<>>
    OBVIOUS
  <2> QED
    BY <1>0, <2>1 DEF HasList, IInv, Inv, Lists
<1>6. (LastStrand(i))' = g /\ \A j \in Iters \ {i} : (LastStrand(j))' = LastStrand(j)
  <2>1. Len(<<0>>) = 1 /\ <<0>>[1] = 0
    OBVIOUS
  <2>2. (LastStage(i))' = 0
    BY <1>0, <2>1 DEF LastStage
  <2>3. \A j \in Iters \ {i} : (LastStage(j))' = LastStage(j)
    BY <1>0 DEF LastStage
  <2> QED
    BY <2>2, <2>3 DEF LastStrand, g
<1>7. Created \subseteq begun /\ begun \subseteq Strands
  BY StrandsOf
<1> QED
  BY <1>0, <1>1, <1>2, <1>3, <1>4, <1>5, <1>6, <1>7 DEF Joins, g

----------------------------------------------------------------------------
(* The lists                                                               *)

\* Frames is kept where neither a list nor an order changes.
LEMMA FramesUnplaced ==
  ASSUME Frames, Stays, elems' = elems, length' = length, NEW i \in Iters,
         pc[i] # "append", pc'[i] # "append", \A j \in Iters \ {i} : pc'[j] = pc[j] /\ stage'[j] = stage[j]
  PROVE  Frames'
<1>1. ASSUME NEW j \in Iters PROVE (FramesOf(j))'
  <2>0. FramesOf(j) /\ Created' = Created
    BY DEF Frames, FramesOf, Stays
  <2>1. CASE j = i
    BY <2>0, <2>1 DEF FramesOf, HasList
  <2>2. CASE j # i
    BY <2>0, <2>2 DEF FramesOf, HasList
  <2> QED
    BY <2>1, <2>2
<1> QED
  BY <1>1 DEF Frames, FramesOf

\* Frames is kept when a strand gets its nodes.
LEMMA FramesCreate ==
  ASSUME IInv, Shapes, Begun, Frames, NEW i \in Iters, Creates(i)
  PROVE  Frames'
<1>0. /\ UNCHANGED <<stage, elems, length>> /\ pc[i] = "order" /\ pc'[i] = "append"
      /\ \A j \in Iters \ {i} : pc'[j] = pc[j]
  BY DEF Creates, Elsewhere
<1>1. /\ Current(i) \notin Created /\ Created' = Created \cup {Current(i)} /\ Current(i)[1] = i /\ Current(i)[2] = stage[i]
      /\ \A f \in Created : f[1] = i => f[2] < stage[i]
  BY CreatePlaces DEF Joins, Current
<1>2. \A j \in Iters : FramesOf(j)
  BY DEF Frames, FramesOf
<1>3. ASSUME NEW j \in Iters PROVE (FramesOf(j))'
  <2>1. CASE j # i
    BY <1>0, <1>1, <1>2, <2>1 DEF FramesOf, HasList
  <2>2. CASE j = i
    <3>1. length[i] = Len(elems[i]) /\ Len(elems[i]) \in Int
      BY <1>0, <1>2 DEF FramesOf, Shapes, IInv, Inv, Types
    <3>2. \A k \in 1 .. Len(elems[i]) : elems[i][k] < stage[i]
      <4>1. \A k \in 1 .. Len(elems[i]) : <<i, elems[i][k]>> \in Created
        BY <1>2 DEF FramesOf
      <4> QED
        BY <1>1, <4>1
    <3>3. \A f \in Created' : f[1] = i =>
             \/ \E k \in 1 .. Len(elems[i]) : elems[i][k] = f[2]
             \/ f[2] = stage[i]
      BY <1>0, <1>1, <1>2 DEF FramesOf
    <3>4. /\ \A k, l \in 1 .. Len(elems[i]) : k < l => elems[i][k] < elems[i][l]
          /\ HasList(i) => elems[i][1] = 0
          /\ \A k \in 1 .. Len(elems[i]) : <<i, elems[i][k]>> \in Created'
      BY <1>1, <1>2 DEF FramesOf
    <3> QED
      BY <1>0, <2>2, <3>1, <3>2, <3>3, <3>4 DEF FramesOf, HasList
  <2> QED
    BY <2>1, <2>2
<1> QED
  BY <1>3 DEF Frames, FramesOf

\* Frames is kept by both stores of an append.
LEMMA FramesAppend ==
  ASSUME IInv, Shapes, Begun, Frames, NEW i \in Iters, Appends(i)
  PROVE  Frames'
<1>0. /\ stage' = stage /\ pc[i] = "append" /\ pc'[i] \in {"append", "user"} /\ Created' = Created
      /\ \A j \in Iters \ {i} : pc'[j] = pc[j] /\ elems'[j] = elems[j] /\ length'[j] = length[j]
  BY AppendPlaces DEF Appends, Elsewhere, Stays
<1>1. \A j \in Iters : FramesOf(j)
  BY DEF Frames, FramesOf
<1>2. /\ HasList(i) /\ elems[i] \in Seq(0 .. MaxStage) /\ stage[i] \in 0 .. MaxStage /\ stage[i] \in Int
      /\ Len(elems[i]) \in Nat /\ length[i] \in Int /\ Current(i) \in Created
  <2>1. /\ HasList(i) /\ elems[i] \in Seq(0 .. MaxStage) /\ stage[i] \in 0 .. MaxStage /\ Current(i) \in begun
        /\ length[i] \in Int
    BY <1>0 DEF IInv, Inv, Types, Lists, Places, Body, Shapes, Begun
  <2> QED
    BY <1>0, <2>1, SlotNumbers DEF Created, Current
<1>3. Len(elems[i]) >= 1
  BY <1>2 DEF HasList
<1>4. ASSUME NEW j \in Iters, j # i PROVE (FramesOf(j))'
  BY <1>0, <1>1, <1>4 DEF FramesOf, HasList
<1>5. CASE /\ length[i] <= Len(elems[i]) /\ length'[i] = length[i] + 1 /\ elems'[i] = elems[i]
           /\ pc'[i] = IF length[i] < Len(elems[i]) THEN "user" ELSE "append"
  <2>1. CASE length[i] < Len(elems[i])
    <3>1. length[i] = Len(elems[i]) - 1 /\ elems[i][Len(elems[i])] = stage[i]
      BY <1>0, <1>1, <1>2, <2>1 DEF FramesOf
    <3>2. \A f \in Created : f[1] = i => \E k \in 1 .. Len(elems[i]) : elems[i][k] = f[2]
      BY <1>1, <1>2, <2>1 DEF FramesOf
    <3>3. length'[i] = Len(elems[i]) /\ pc'[i] = "user"
      BY <1>2, <1>5, <2>1, <3>1
    <3>4. /\ \A k, l \in 1 .. Len(elems[i]) : k < l => elems[i][k] < elems[i][l]
          /\ HasList(i) => elems[i][1] = 0
          /\ \A k \in 1 .. Len(elems[i]) : <<i, elems[i][k]>> \in Created'
      BY <1>0, <1>1 DEF FramesOf
    <3>5. (FramesOf(i))'
      BY <1>0, <1>5, <3>2, <3>3, <3>4 DEF FramesOf, HasList
    <3> QED
      BY <1>4, <3>5 DEF Frames, FramesOf
  <2>2. CASE ~(length[i] < Len(elems[i]))
    <3>1. length[i] = Len(elems[i]) /\ \A k \in 1 .. Len(elems[i]) : elems[i][k] < stage[i]
      BY <1>0, <1>1, <1>2, <1>5, <2>2 DEF FramesOf
    <3>2. length'[i] = Len(elems[i]) + 1 /\ pc'[i] = "append" /\ Len(elems[i]) <= length'[i]
      BY <1>2, <1>5, <2>2, <3>1
    <3>3. /\ \A k, l \in 1 .. Len(elems[i]) : k < l => elems[i][k] < elems[i][l]
          /\ HasList(i) => elems[i][1] = 0
          /\ \A k \in 1 .. Len(elems[i]) : <<i, elems[i][k]>> \in Created'
          /\ \A f \in Created' : f[1] = i => \/ \E k \in 1 .. Len(elems[i]) : elems[i][k] = f[2]
                                             \/ f[2] = stage[i]
      BY <1>0, <1>1 DEF FramesOf
    <3>4. (FramesOf(i))'
      BY <1>0, <1>5, <3>1, <3>2, <3>3 DEF FramesOf, HasList
    <3> QED
      BY <1>4, <3>4 DEF Frames, FramesOf
  <2> QED
    BY <2>1, <2>2
<1>6. CASE /\ Len(elems[i]) <= length[i] /\ elems'[i] = Append(elems[i], stage[i]) /\ length'[i] = length[i]
           /\ pc'[i] = IF Len(elems[i]) < length[i] THEN "user" ELSE "append"
  <2> DEFINE e == elems[i]
             a == Append(elems[i], stage[i])
             n == Len(elems[i])
  <2>1. /\ Len(a) = n + 1 /\ a[n + 1] = stage[i] /\ \A k \in 1 .. n : a[k] = e[k]
        /\ \A k \in 1 .. n : e[k] \in 0 .. MaxStage /\ e[k] \in Int
        /\ a # <<>>
    BY <1>2, Element, SlotNumbers
  <2>2. length[i] \in {n, n + 1} /\ \A k \in 1 .. n : e[k] < stage[i]
    BY <1>0, <1>1, <1>2, <1>6 DEF FramesOf
  <2>3. /\ \A k, l \in 1 .. n : k < l => e[k] < e[l]
        /\ e[1] = 0
        /\ \A k \in 1 .. n : <<i, e[k]>> \in Created
        /\ \A f \in Created : f[1] = i => (\E k \in 1 .. n : e[k] = f[2]) \/ f[2] = stage[i]
    BY <1>1, <1>2 DEF FramesOf
  <2>4. n \in Nat /\ n >= 1 /\ n + 1 - 1 = n
    BY <1>2, <1>3
  <2>5. elems'[i] = a /\ length'[i] = length[i] /\ pc'[i] = IF n < length[i] THEN "user" ELSE "append"
    BY <1>6
  <2> HIDE DEF a, e, n
  <2>6. \A k \in 1 .. n + 1 : k = n + 1 \/ k \in 1 .. n
    BY <2>4
  <2>7. /\ \A k, l \in 1 .. Len(a) : k < l => a[k] < a[l]
        /\ a[1] = 0
        /\ \A k \in 1 .. Len(a) : <<i, a[k]>> \in Created
        /\ \A f \in Created : f[1] = i => \E k \in 1 .. Len(a) : a[k] = f[2]
    <3>1. ASSUME NEW k \in 1 .. n + 1, NEW l \in 1 .. n + 1, k < l PROVE a[k] < a[l]
      <4>1. k \in 1 .. n
        BY <2>4, <3>1
      <4> QED
        BY <2>1, <2>2, <2>3, <2>6, <3>1, <4>1
    <3>2. a[1] = 0
      BY <2>1, <2>3, <2>4
    <3>3. \A k \in 1 .. n + 1 : <<i, a[k]>> \in Created
      BY <1>2, <2>1, <2>3, <2>6 DEF Current
    <3>4. ASSUME NEW f \in Created, f[1] = i PROVE \E k \in 1 .. n + 1 : a[k] = f[2]
      <4>1. n + 1 \in 1 .. n + 1 /\ \A k \in 1 .. n : k \in 1 .. n + 1
        BY <2>4
      <4> QED
        BY <2>1, <2>3, <3>4, <4>1
    <3> QED
      BY <2>1, <3>1, <3>2, <3>3, <3>4
  <2>8. CASE n < length[i]
    <3>1. length'[i] = Len(a) /\ pc'[i] = "user"
      BY <2>1, <2>2, <2>4, <2>5, <2>8
    <3>2. (FramesOf(i))'
      BY <1>0, <2>5, <2>7, <3>1 DEF FramesOf, HasList
    <3> QED
      BY <1>4, <3>2 DEF Frames, FramesOf
  <2>9. CASE ~(n < length[i])
    <3>1. length'[i] = Len(a) - 1 /\ pc'[i] = "append" /\ a[Len(a)] = stage[i]
      BY <2>1, <2>2, <2>4, <2>5, <2>9
    <3>2. (FramesOf(i))'
      BY <1>0, <2>5, <2>7, <3>1 DEF FramesOf, HasList
    <3> QED
      BY <1>4, <3>2 DEF Frames, FramesOf
  <2> QED
    BY <2>8, <2>9
<1> QED
  BY <1>5, <1>6 DEF Appends

\* Frames is kept when a list comes into being.
LEMMA FramesOpening ==
  ASSUME IInv, Shapes, Begun, Frames, NEW i \in Iters, Opening(i)
  PROVE  Frames'
<1>0. /\ stage' = stage /\ pc[i] = "test" /\ pc'[i] = "user" /\ elems'[i] = <<0>> /\ length'[i] = 1
      /\ \A j \in Iters \ {i} : pc'[j] = pc[j] /\ elems'[j] = elems[j] /\ length'[j] = length[j]
  <2>1. \A j \in Iters \ {i} : pc'[j] = pc[j] /\ elems'[j] = elems[j] /\ length'[j] = length[j]
    BY DEF Opening
  <2>2. stage' = stage
    BY DEF Opening
  <2>3. pc[i] = "test" /\ pc'[i] = "user" /\ elems'[i] = <<0>> /\ length'[i] = 1
    BY DEF Opening
  <2> QED
    BY <2>1, <2>2, <2>3
<1>1. /\ Created' = Created \cup {<<i, 0>>} /\ \A f \in Created : f[1] # i
  BY OpeningPlaces DEF Joins
<1>2. \A j \in Iters : FramesOf(j)
  BY DEF Frames, FramesOf
<1>3. /\ <<i, 0>>[1] = i /\ <<i, 0>>[2] = 0 /\ Len(<<0>>) = 1 /\ <<0>>[1] = 0
      /\ 1 \in 1 .. 1 /\ \A k \in 1 .. 1 : k = 1
  OBVIOUS
<1>4. ASSUME NEW j \in Iters, j # i PROVE (FramesOf(j))'
  <2>1. FramesOf(j) /\ pc'[j] = pc[j] /\ elems'[j] = elems[j] /\ length'[j] = length[j] /\ stage' = stage
    BY <1>0, <1>2, <1>4
  <2>2. \A f \in Created' : f[1] = j => f \in Created
    BY <1>1, <1>3, <1>4
  <2>3. Created \subseteq Created'
    BY <1>1
  <2> QED
    BY <2>1, <2>2, <2>3 DEF FramesOf, HasList
<1>5. (FramesOf(i))'
  <2>1. \A k, l \in 1 .. Len(<<0>>) : ~(k < l) /\ k = 1
    BY <1>3
  <2>2. \A f \in Created' : f[1] = i => f[2] = 0
    BY <1>1, <1>3
  <2> QED
    BY <1>0, <1>1, <1>3, <2>1, <2>2 DEF FramesOf
<1> QED
  BY <1>4, <1>5 DEF Frames, FramesOf

----------------------------------------------------------------------------
(* The left neighbour                                                      *)

\* The frames of the iteration before.
LEMMA FramesIn ==
  ASSUME IInv, Shapes, Begun, Dag, Frames, NEW i \in Iters, i > 1, HasList(i)
  PROVE  /\ i - 1 \in Iters /\ HasList(i - 1) /\ Len(elems[i - 1]) \in Nat /\ Len(elems[i - 1]) >= 1
         /\ \A k \in Indices(i) :
              /\ k \in Int /\ k >= 0 /\ k + 1 \in 1 .. Len(elems[i - 1])
              /\ Frame(i, k) \in Created /\ Frame(i, k) \in begun
              /\ Frame(i, k)[1] = i - 1 /\ Frame(i, k)[2] = elems[i - 1][k + 1] /\ elems[i - 1][k + 1] \in Int
         /\ \A k, l \in Indices(i) : k < l => /\ Frame(i, k) \in before[Frame(i, l)]
                                              /\ elems[i - 1][k + 1] < elems[i - 1][l + 1]
<1>1. i - 1 \in Iters /\ HasList(i - 1)
  <2>1. i - 1 \in Iters /\ i - 1 < i
    BY SlotNumbers DEF Iters
  <2>2. pc[i] # "unborn"
    BY DEF IInv, Inv, Lists
  <2> QED
    BY <2>1, <2>2 DEF IInv, Inv, Lists
<1>2. Len(elems[i - 1]) \in Nat /\ Len(elems[i - 1]) >= 1 /\ \A k \in 1 .. Len(elems[i - 1]) : elems[i - 1][k] \in Int
  BY <1>1, LastIs
<1>3. \A k \in Indices(i) : k \in Int /\ k >= 0 /\ k + 1 \in 1 .. Len(elems[i - 1])
  BY <1>2 DEF Indices
<1>4. FramesOf(i - 1)
  BY <1>1 DEF Frames, FramesOf
<1>5. \A k \in Indices(i) : /\ Frame(i, k) \in Created /\ Frame(i, k) \in begun
                            /\ Frame(i, k)[1] = i - 1 /\ Frame(i, k)[2] = elems[i - 1][k + 1]
  BY <1>3, <1>4 DEF FramesOf, Frame, Created
<1>6. ASSUME NEW k \in Indices(i), NEW l \in Indices(i), k < l
      PROVE  Frame(i, k) \in before[Frame(i, l)] /\ elems[i - 1][k + 1] < elems[i - 1][l + 1]
  <2>1. k + 1 < l + 1
    BY <1>3, <1>6
  <2>2. elems[i - 1][k + 1] < elems[i - 1][l + 1]
    BY <1>3, <1>4, <2>1 DEF FramesOf
  <2> QED
    BY <1>5, <2>2 DEF Dag
<1> QED
  BY <1>1, <1>2, <1>3, <1>5, <1>6

\* What is before the strand that begins.
LEMMA ConeOfIteration ==
  ASSUME IInv, Shapes, Begun, Dag, Frames, NEW i \in Iters, pc[i] \in {"user", "wait"}, NEW f
  PROVE  HasList(i) /\ LastStrand(i) \in begun /\
         ((\E x \in begun : x[1] = i /\ f \in Cone(x)) <=> f \in Cone(LastStrand(i)))
<1>1. HasList(i)
  BY DEF IInv, Inv, Lists, Body
<1>2. LastStrand(i) \in begun /\ LastStrand(i)[1] = i /\ LastStrand(i)[2] = LastStage(i) /\ LastStage(i) \in Int
      /\ \A x \in Created : x[1] = i => x[2] <= LastStage(i)
  BY <1>1, LastIs DEF Created
<1>3. ASSUME NEW x \in begun, x[1] = i, f \in Cone(x) PROVE f \in Cone(LastStrand(i))
  <2>1. x \in Created
    BY <1>3, StrandsOf DEF Pending
  <2>2. x[2] <= LastStage(i) /\ x[2] \in Int
    BY <1>2, <1>3, <2>1, StrandsOf
  <2>3. CASE x[2] < LastStage(i)
    <3>1. x \in before[LastStrand(i)]
      BY <1>2, <1>3, <2>3 DEF Dag
    <3>2. before[x] \subseteq before[LastStrand(i)]
      BY <1>2, <3>1 DEF Dag
    <3> QED
      BY <1>3, <3>1, <3>2 DEF Cone
  <2>4. CASE x[2] = LastStage(i)
    <3>1. x = <<x[1], x[2]>>
      BY StrandIs DEF Shapes
    <3>2. x = LastStrand(i)
      BY <1>3, <2>4, <3>1 DEF LastStrand
    <3> QED
      BY <1>3, <3>2
  <2> QED
    BY <1>2, <2>2, <2>3, <2>4
<1> QED
  BY <1>1, <1>2, <1>3

\* What a strand that begins waits for, by its two neighbours.
LEMMA ConeOfOpened ==
  ASSUME IInv, Shapes, Begun, Dag, Frames, NEW i \in Iters, NEW s \in 0 .. MaxStage
  PROVE  /\ Opens(i, s, FALSE) => before'[<<i, s>>] = Cone(LastStrand(i))
         /\ Opens(i, s, TRUE) =>
              \A f : f \in before'[<<i, s>>] <=>
                \/ f \in Cone(LastStrand(i))
                \/ \E x \in begun : x[1] = i - 1 /\ x[2] <= s /\ f \in Cone(x)
<1>1. ASSUME Opens(i, s, FALSE), NEW f PROVE f \in before'[<<i, s>>] <=> f \in Cone(LastStrand(i))
  <2>1. f \in before'[<<i, s>>] <=> \E x \in begun : x[1] = i /\ f \in Cone(x)
    BY <1>1 DEF Opens, Begins
  <2>2. pc[i] = "user"
    BY <1>1 DEF Opens
  <2> QED
    BY <2>1, <2>2, ConeOfIteration
<1>2. ASSUME Opens(i, s, TRUE), NEW f
      PROVE  f \in before'[<<i, s>>] <=>
                \/ f \in Cone(LastStrand(i))
                \/ \E x \in begun : x[1] = i - 1 /\ x[2] <= s /\ f \in Cone(x)
  <2>1. f \in before'[<<i, s>>] <=> \E x \in begun : (x[1] = i \/ (x[1] = i - 1 /\ x[2] <= s)) /\ f \in Cone(x)
    BY <1>2 DEF Opens, Begins
  <2>2. pc[i] = "wait"
    BY <1>2 DEF Opens
  <2>3. (\E x \in begun : x[1] = i /\ f \in Cone(x)) <=> f \in Cone(LastStrand(i))
    BY <2>2, ConeOfIteration
  <2> QED
    BY <2>1, <2>3
<1> QED
  BY <1>1, <1>2

\* What an iteration knows while it looks.
LEMMA Looking ==
  ASSUME IInv, Shapes, Begun, Dag, Frames, NEW i \in Iters, ScansOf(i), i > 1, pc[i] = "look"
  PROVE  LET m == IF scan[i].iPre = 0 THEN scan[i].index ELSE scan[i].iPre IN
         /\ HasList(i) /\ LastStrand(i) \in begun /\ Current(i) \in begun /\ stage[i] \in Int
         /\ scan[i].index \in Int /\ scan[i].iPre \in Int /\ scan[i].index >= 1 /\ scan[i].iPre >= 0
         /\ \A k \in Indices(i) : k >= m => Frame(i, k) \notin before[LastStrand(i)]
         /\ \A k \in Indices(i) : scan[i].iPre = 0 /\ k < m => Frame(i, k) \in before[LastStrand(i)]
         /\ \A k \in Indices(i) : scan[i].iPre # 0 /\ k <= m => elems[i - 1][k + 1] < stage[i]
         /\ scan[i].iPre # 0 => scan[i].iPre \in Indices(i) /\ scan[i].iPre = scan[i].index - 1
         /\ \A k \in Indices(i) : Frame(i, k) \in before[Current(i)] <=>
              Frame(i, k) \in before[LastStrand(i)] \/ elems[i - 1][k + 1] <= stage[i]
         /\ \A f : f \in before[Current(i)] <=>
              \/ f \in Cone(LastStrand(i))
              \/ \E k \in Indices(i) : elems[i - 1][k + 1] <= stage[i] /\ f \in Cone(Frame(i, k))
<1> DEFINE c == scan[i]
           m == IF c.iPre = 0 THEN c.index ELSE c.iPre
           L == LastStrand(i)
           C == Current(i)
<1>1. HasList(i) /\ C \in begun
  BY DEF IInv, Inv, Lists, Body, Begun
<1>2. L \in begun /\ L[1] = i /\ C[1] = i
  BY <1>1, LastIs DEF Created, Current
<1>3. c.index \in Int /\ c.iPre \in Int /\ c.index >= 1 /\ c.iPre >= 0 /\ i \in Int /\ stage[i] \in Int /\ stage[i - 1] \in Int
  <2>1. i - 1 \in Iters /\ i \in Int
    BY <1>1, FramesIn, SlotNumbers DEF Iters
  <2> QED
    BY <2>1, Stages DEF ScansOf, Shapes, IInv
<1>4. /\ i - 1 \in Iters /\ HasList(i - 1) /\ Len(elems[i - 1]) \in Nat
      /\ \A k \in Indices(i) :
           /\ k \in Int /\ k >= 0
           /\ Frame(i, k) \in Created /\ Frame(i, k) \in begun
           /\ Frame(i, k)[1] = i - 1 /\ Frame(i, k)[2] = elems[i - 1][k + 1] /\ elems[i - 1][k + 1] \in Int
      /\ \A k, l \in Indices(i) : k < l => /\ Frame(i, k) \in before[Frame(i, l)]
                                           /\ elems[i - 1][k + 1] < elems[i - 1][l + 1]
  BY <1>1, FramesIn
<1>5. /\ c.iPre = 0 => Covered(i, L, c.index)
      /\ c.iPre # 0 => /\ c.iPre = c.index - 1
                       /\ elems[i - 1][c.iPre + 1] < stage[i]
                       /\ Frame(i, c.iPre) \notin before[L]
      /\ c.index <= Len(elems[i - 1])
      /\ Waits(i)
  BY <1>1 DEF ScansOf
<1> HIDE DEF c, L, C
<1>6. c.iPre # 0 => c.iPre \in Indices(i)
  BY <1>3, <1>4, <1>5 DEF Indices
<1>7. ASSUME NEW k \in Indices(i), k >= m PROVE Frame(i, k) \notin before[L]
  <2>1. CASE c.iPre = 0
    BY <1>3, <1>4, <1>5, <1>7, <2>1 DEF Covered
  <2>2. CASE c.iPre # 0 /\ k # c.iPre
    <3>1. c.iPre < k
      BY <1>3, <1>4, <1>7, <2>2
    <3>2. Frame(i, c.iPre) \in before[Frame(i, k)]
      BY <1>4, <1>6, <2>2, <3>1
    <3>3. Frame(i, k) \in before[L] => before[Frame(i, k)] \subseteq before[L]
      BY <1>2, <1>4 DEF Dag
    <3> QED
      BY <1>5, <2>2, <3>2, <3>3
  <2> QED
    BY <1>5, <2>1, <2>2
<1>8. ASSUME NEW k \in Indices(i), c.iPre = 0, k < m PROVE Frame(i, k) \in before[L]
  BY <1>5, <1>8 DEF Covered
<1>9. ASSUME NEW k \in Indices(i), c.iPre # 0, k <= m PROVE elems[i - 1][k + 1] < stage[i]
  <2>1. k = c.iPre \/ k < c.iPre
    BY <1>3, <1>4, <1>9
  <2>2. elems[i - 1][c.iPre + 1] < stage[i] /\ elems[i - 1][c.iPre + 1] \in Int
    BY <1>4, <1>5, <1>6, <1>9
  <2>3. CASE k < c.iPre
    <3>1. elems[i - 1][k + 1] < elems[i - 1][c.iPre + 1] /\ elems[i - 1][k + 1] \in Int /\ stage[i] \in Int
      BY <1>3, <1>4, <1>6, <1>9, <2>3
    <3> QED
      BY <2>2, <3>1
  <2> QED
    BY <2>1, <2>2, <2>3
<1>10. ASSUME NEW x \in begun, x[1] = i - 1, x[2] <= stage[i] PROVE \E k \in Indices(i) : x = Frame(i, k)
  <2>1. stage[i - 1] > stage[i] /\ x[2] \in Int /\ x = <<i - 1, x[2]>>
    BY <1>5, <1>10, StrandsOf, StrandIs DEF Waits, Shapes
  <2>2. x[2] < stage[i - 1]
    BY <1>3, <1>10, <2>1
  <2>3. x \in Created
    BY <1>10, <2>2 DEF Created
  <2>4. \E k \in 1 .. Len(elems[i - 1]) : elems[i - 1][k] = x[2]
    <3>1. x[2] # stage[i - 1]
      BY <1>3, <2>1, <2>2
    <3> QED
      BY <1>4, <1>10, <2>3, <3>1 DEF Frames, FramesOf
  <2>5. PICK k \in 1 .. Len(elems[i - 1]) : elems[i - 1][k] = x[2]
    BY <2>4
  <2>6. k - 1 \in Indices(i) /\ (k - 1) + 1 = k
    BY <1>4 DEF Indices
  <2> QED
    BY <2>1, <2>5, <2>6 DEF Frame
<1>11. ASSUME NEW f \in begun
       PROVE  f \in before[C] <=> \/ f \in Cone(L)
                                  \/ \E k \in Indices(i) : elems[i - 1][k + 1] <= stage[i] /\ f \in Cone(Frame(i, k))
  <2>1. f \in before[C] <=> \/ f \in Cone(L)
                            \/ \E x \in begun : x[1] = i - 1 /\ x[2] <= stage[i] /\ f \in Cone(x)
    BY <1>5 DEF Waits, L, C
  <2> QED
    BY <1>4, <1>10, <2>1
<1>12. \A f : f \in before[C] => f \in begun
  BY <1>1 DEF Begun, Shapes
<1>13. \A x \in begun : \A f \in Cone(x) : f \in begun
  BY DEF Begun, Shapes, Cone
<1>14. \A f : f \in before[C] <=>
               \/ f \in Cone(L)
               \/ \E k \in Indices(i) : elems[i - 1][k + 1] <= stage[i] /\ f \in Cone(Frame(i, k))
  BY <1>2, <1>4, <1>11, <1>12, <1>13
<1>15. ASSUME NEW k \in Indices(i)
       PROVE  Frame(i, k) \in before[C] <=> Frame(i, k) \in before[L] \/ elems[i - 1][k + 1] <= stage[i]
  <2>1. Frame(i, k) # L
    BY <1>2, <1>3, <1>4
  <2>2. Frame(i, k) \in Cone(L) <=> Frame(i, k) \in before[L]
    BY <2>1 DEF Cone
  <2>3. ASSUME NEW l \in Indices(i), elems[i - 1][l + 1] <= stage[i], Frame(i, k) \in Cone(Frame(i, l))
        PROVE  elems[i - 1][k + 1] <= stage[i]
    <3>1. k = l \/ k < l \/ l < k
      BY <1>4
    <3>2. ~(l < k)
      <4>1. l < k => elems[i - 1][l + 1] < elems[i - 1][k + 1]
        BY <1>4
      <4>2. Frame(i, k) \in before[Frame(i, l)] => elems[i - 1][k + 1] < elems[i - 1][l + 1]
        BY <1>4 DEF Dag
      <4> QED
        BY <1>4, <2>3, <4>1, <4>2 DEF Cone
    <3> QED
      BY <1>3, <1>4, <2>3, <3>1, <3>2
  <2>4. Frame(i, k) \in Cone(Frame(i, k))
    BY DEF Cone
  <2> QED
    BY <1>14, <2>2, <2>3, <2>4
<1> QED
  BY <1>1, <1>2, <1>3, <1>5, <1>6, <1>7, <1>8, <1>9, <1>14, <1>15 DEF c, L, C

\* A step of another iteration: at most the list it looks into gets longer.
LEMMA ScansElsewhere ==
  ASSUME IInv, Shapes, Begun, Dag, Frames, NEW j \in Iters, ScansOf(j),
         pc'[j] = pc[j], stage'[j] = stage[j], scan'[j] = scan[j], elems'[j] = elems[j],
         HasList(j) => (LastStrand(j))' = LastStrand(j),
         \A f \in begun : before'[f] = before[f],
         begun \subseteq begun',
         \A x \in begun' : x \in begun \/ (x[1] # j /\ x[2] \in Int /\ (x[1] = j - 1 => x[2] >= stage[x[1]])),
         j > 1 => stage'[j - 1] \in Int /\ stage[j - 1] <= stage'[j - 1],
         j > 1 /\ HasList(j) => elems'[j - 1] = elems[j - 1] \/ elems'[j - 1] = Append(elems[j - 1], stage[j - 1])
  PROVE  (ScansOf(j))'
<1> DEFINE c == scan[j]
           L == LastStrand(j)
           C == Current(j)
<1>1. (HasList(j))' <=> HasList(j)
  BY DEF HasList
<1>2. c.index \in Int /\ c.len \in Int /\ c.iPre \in Int /\ c.ret \in Int /\ j \in Int /\ stage[j] \in Int
  BY Stages DEF Shapes, IInv
<1>3. CASE ~HasList(j)
  <2>1. pc[j] \notin Body
    BY <1>3 DEF IInv, Inv, Lists
  <2> QED
    BY <1>1, <1>3, <2>1 DEF ScansOf, Body
<1>4. CASE HasList(j) /\ ~(j > 1)
  <2>1. (LeftIndex(j))' = LeftIndex(j)
    BY DEF LeftIndex
  <2>2. L \in begun /\ (pc[j] = "order" => C \in begun)
    BY <1>4, LastIs DEF Created, Begun, Body
  <2>3. (Current(j))' = C /\ (LastStrand(j))' = L
    BY <1>4 DEF Current
  <2>4. (Cone(L))' = Cone(L)
    BY <1>4, <2>2 DEF Cone
  <2>a. (Cone(LastStrand(j)))' = Cone(L)
    BY <1>4, <2>2 DEF Cone
  <2>b. pc[j] = "order" => before'[C] = before[C]
    BY <2>2
  <2> HIDE DEF L, C
  <2>5. pc[j] \notin {"length", "look"}
    BY <1>4 DEF ScansOf, Waits
  <2>6. /\ c.index >= 1
        /\ pc[j] \notin {"look", "order"} => c.iPre = 0 /\ c.ret = 0
        /\ pc[j] = "order" => LeftIndex(j) = 0 /\ before[C] = Cone(L)
    BY <1>4 DEF ScansOf, C, L
  <2> QED
    BY <1>1, <1>4, <2>1, <2>3, <2>a, <2>b, <2>5, <2>6 DEF ScansOf
<1>5. CASE HasList(j) /\ j > 1
  <2> DEFINE e == elems[j - 1]
             n == Len(e)
  <2>1. /\ j - 1 \in Iters /\ HasList(j - 1) /\ n \in Nat /\ n >= 1 /\ e \in Seq(0 .. MaxStage)
        /\ \A k \in Indices(j) : /\ k \in Int /\ k >= 0 /\ k + 1 \in 1 .. n /\ Frame(j, k) \in begun
                                 /\ e[k + 1] \in Int
    BY <1>5, FramesIn DEF IInv, Inv, Types
  <2>2. stage[j - 1] \in Int /\ stage[j - 1] <= stage'[j - 1] /\ stage'[j - 1] \in Int
    BY <1>5, <2>1, Stages DEF IInv
  <2>3. L \in begun /\ L[1] = j /\ (pc[j] \in {"length", "look", "order"} => C \in begun) /\ C[1] = j
    BY <1>5, LastIs DEF Created, Begun, Body, Current
  <2>4. (Current(j))' = C /\ (LastStrand(j))' = L /\ before'[L] = before[L]
        /\ (pc[j] \in {"length", "look", "order"} => before'[C] = before[C])
    BY <1>5, <2>3 DEF Current
  <2>5. /\ Indices(j) = 0 .. n - 1
        /\ Indices(j)' = 0 .. Len(elems'[j - 1]) - 1
        /\ \A k : (Frame(j, k))' = <<j - 1, elems'[j - 1][k + 1]>>
        /\ \A k : Frame(j, k) = <<j - 1, e[k + 1]>>
    BY DEF Indices, Frame
  <2>6. /\ n <= Len(elems'[j - 1]) /\ Len(elems'[j - 1]) \in Int
        /\ \A k \in Indices(j) : k \in Indices(j)' /\ elems'[j - 1][k + 1] = e[k + 1] /\ (Frame(j, k))' = Frame(j, k)
        /\ \A k \in Indices(j)' : k \in Indices(j) \/ (k = n /\ elems'[j - 1][k + 1] = stage[j - 1])
    <3>1. CASE elems'[j - 1] = e
      BY <2>1, <2>5, <3>1
    <3>2. CASE elems'[j - 1] = Append(e, stage[j - 1])
      <4>1. /\ Len(Append(e, stage[j - 1])) = n + 1 /\ Append(e, stage[j - 1])[n + 1] = stage[j - 1]
            /\ \A k \in 1 .. n : Append(e, stage[j - 1])[k] = e[k]
        BY <2>1
      <4>2. \A k \in 0 .. n : k \in 0 .. n - 1 \/ k = n
        BY <2>1
      <4> HIDE DEF e, n
      <4>3. Indices(j)' = 0 .. n
        BY <2>1, <2>5, <3>2, <4>1
      <4> QED
        BY <2>1, <2>5, <3>2, <4>1, <4>2, <4>3
    <3> QED
      BY <1>5, <3>1, <3>2
  <2>7. ASSUME NEW x \in begun, x[1] = j PROVE <<j - 1, stage[j - 1]>> \notin before[x]
    <3>1. SUFFICES ASSUME <<j - 1, stage[j - 1]>> \in before[x] PROVE FALSE
      OBVIOUS
    <3>2. <<j - 1, stage[j - 1]>> \in begun
      BY <2>7, <3>1 DEF Begun, Shapes
    <3> QED
      BY <1>2, <2>2, <2>7, <3>1, <3>2 DEF Dag
  <2> HIDE DEF e, n, C, L
  <2>8. ASSUME NEW x \in begun, x[1] = j, Covered(j, x, c.index), c.index <= n, before'[x] = before[x]
        PROVE  \A k \in Indices(j)' : k < c.index <=> (Frame(j, k))' \in before'[x]
    <3>1. ASSUME NEW k \in Indices(j)' PROVE k < c.index <=> (Frame(j, k))' \in before'[x]
      <4>1. CASE k \in Indices(j)
        BY <2>6, <2>8, <4>1 DEF Covered
      <4>2. CASE k = n /\ elems'[j - 1][k + 1] = stage[j - 1]
        <5>1. (Frame(j, k))' = <<j - 1, stage[j - 1]>>
          BY <2>5, <4>2
        <5>2. ~(k < c.index)
          BY <1>2, <2>1, <2>8, <4>2
        <5> QED
          BY <2>7, <2>8, <5>1, <5>2
      <4> QED
        BY <2>6, <3>1, <4>1, <4>2
    <3> QED
      BY <3>1
  <2>9. /\ c.index >= 1 /\ c.index <= n
        /\ pc[j] \notin {"look", "order"} => c.iPre = 0 /\ c.ret = 0
        /\ pc[j] \notin {"look", "order"} => Covered(j, L, c.index)
        /\ pc[j] \in {"length", "look"} => Waits(j)
    BY <1>5 DEF ScansOf, L, e, n
  <2>10. c.index <= Len(elems'[j - 1])
    BY <1>2, <2>1, <2>6, <2>9
  <2>11. pc[j] \notin {"look", "order"} => (Covered(j, LastStrand(j), scan[j].index))'
    BY <2>3, <2>4, <2>8, <2>9 DEF Covered, c
  <2>12. ASSUME pc[j] \in {"length", "look"} PROVE (Waits(j))'
    <3>1. /\ stage[j - 1] > stage[j]
          /\ \A f \in begun :
               f \in before[C] <=>
                 \/ f \in Cone(L)
                 \/ \E x \in begun : x[1] = j - 1 /\ x[2] <= stage[j] /\ f \in Cone(x)
      BY <2>9, <2>12 DEF Waits, C, L
    <3>2. stage'[j - 1] > stage[j]
      BY <1>2, <2>2, <3>1
    <3>3. \A x \in begun' : x[1] = j - 1 /\ x[2] <= stage[j] => x \in begun
      BY <1>2, <2>2, <3>1
    <3>4. \A x \in begun : (Cone(x))' = Cone(x) /\ Cone(x) \subseteq begun
      BY DEF Cone, Begun, Shapes
    <3>5. ASSUME NEW f \in begun'
          PROVE  f \in before[C] <=>
                   \/ f \in (Cone(LastStrand(j)))'
                   \/ \E x \in begun' : x[1] = j - 1 /\ x[2] <= stage[j] /\ f \in (Cone(x))'
      <4>1. (Cone(LastStrand(j)))' = Cone(L)
        BY <2>4 DEF Cone
      <4>2. CASE f \in begun
        BY <2>12, <3>1, <3>3, <3>4, <4>1, <4>2
      <4>3. CASE f \notin begun
        <5>1. f \notin before[C] /\ f \notin Cone(L)
          BY <2>3, <2>12, <3>4, <4>3 DEF Begun, Shapes
        <5> QED
          BY <3>3, <3>4, <4>1, <4>3, <5>1
      <4> QED
        BY <4>2, <4>3
    <3> QED
      BY <1>5, <2>4, <2>12, <3>2, <3>5 DEF Waits
  <2>13. ASSUME pc[j] = "look"
         PROVE  /\ c.ret = 0
                /\ \A k \in Indices(j)' : k >= c.len => elems'[j - 1][k + 1] > stage'[j]
                /\ c.iPre = 0 => (Covered(j, LastStrand(j), scan[j].index))'
                /\ c.iPre # 0 =>
                     /\ c.iPre = c.index - 1
                     /\ elems'[j - 1][c.iPre + 1] < stage'[j]
                     /\ (Frame(j, scan[j].iPre))' \notin before'[(LastStrand(j))']
    <3>0. /\ c.ret = 0
          /\ \A k \in Indices(j) : k >= c.len => e[k + 1] > stage[j]
          /\ c.iPre = 0 => Covered(j, L, c.index)
          /\ c.iPre # 0 =>
               /\ c.iPre = c.index - 1
               /\ e[c.iPre + 1] < stage[j]
               /\ Frame(j, c.iPre) \notin before[L]
      BY <2>13 DEF ScansOf, c, L, e
    <3>1. \A k \in Indices(j)' : k >= c.len => elems'[j - 1][k + 1] > stage'[j]
      <4>1. stage[j - 1] > stage[j]
        BY <2>9, <2>13 DEF Waits
      <4> QED
        BY <2>6, <3>0, <4>1
    <3>2. c.iPre = 0 => (Covered(j, LastStrand(j), scan[j].index))'
      BY <2>3, <2>4, <2>8, <2>9, <3>0 DEF Covered, c
    <3>3. c.iPre # 0 => c.iPre \in Indices(j)
      <4>1. c.iPre # 0 => c.iPre \in 0 .. n - 1
        BY <1>2, <2>1, <2>9, <3>0
      <4> QED
        BY <2>5, <4>1
    <3>4. scan'[j].iPre = c.iPre
      BY DEF c
    <3> QED
      BY <2>4, <2>6, <3>0, <3>1, <3>2, <3>3, <3>4
  <2>14. ASSUME pc[j] = "order"
         PROVE  /\ (Covered(j, Current(j), scan[j].index))'
                /\ (LeftIndex(j))' = LeftIndex(j)
                /\ LeftIndex(j) = 0 => before'[(Current(j))'] = (Cone(LastStrand(j)))'
                /\ LeftIndex(j) # 0 =>
                     /\ LeftIndex(j) \in Indices(j)'
                     /\ (Frame(j, LeftIndex(j)))' \notin before'[(LastStrand(j))']
                     /\ before'[(Current(j))'] = (Cone(LastStrand(j)))' \cup (Cone(Frame(j, LeftIndex(j))))'
    <3>0. /\ Covered(j, C, c.index)
          /\ LeftIndex(j) = 0 => before[C] = Cone(L)
          /\ LeftIndex(j) # 0 =>
               /\ LeftIndex(j) \in Indices(j)
               /\ Frame(j, LeftIndex(j)) \notin before[L]
               /\ before[C] = Cone(L) \cup Cone(Frame(j, LeftIndex(j)))
      BY <1>5, <2>14 DEF ScansOf, c, C, L
    <3>1. (LeftIndex(j))' = LeftIndex(j)
      BY DEF LeftIndex
    <3>2. C \in begun /\ C[1] = j /\ before'[C] = before[C]
      BY <2>3, <2>4, <2>14
    <3>3. (Covered(j, Current(j), scan[j].index))'
      BY <2>4, <2>8, <2>9, <3>0, <3>2 DEF Covered, c
    <3>4. (Cone(LastStrand(j)))' = Cone(L)
      BY <2>4 DEF Cone
    <3>5. ASSUME NEW l \in Indices(j), l = LeftIndex(j)
          PROVE  (Frame(j, LeftIndex(j)))' = Frame(j, l) /\ (Cone(Frame(j, LeftIndex(j))))' = Cone(Frame(j, l))
      <4>1. (Frame(j, l))' = Frame(j, l) /\ Frame(j, l) \in begun
        BY <2>1, <2>6, <3>5
      <4>2. (Frame(j, LeftIndex(j)))' = (Frame(j, l))'
        BY <3>1, <3>5 DEF Frame
      <4> QED
        BY <4>1, <4>2 DEF Cone
    <3>6. ASSUME LeftIndex(j) # 0
          PROVE  /\ LeftIndex(j) \in Indices(j)'
                 /\ (Frame(j, LeftIndex(j)))' = Frame(j, LeftIndex(j))
                 /\ (Cone(Frame(j, LeftIndex(j))))' = Cone(Frame(j, LeftIndex(j)))
      BY <2>6, <3>0, <3>5, <3>6
    <3>7. before'[(Current(j))'] = before[C] /\ before'[(LastStrand(j))'] = before[L]
      BY <2>4, <2>14
    <3> QED
      BY <3>0, <3>1, <3>3, <3>4, <3>6, <3>7
  <2>15. /\ scan'[j] = c /\ (Current(j))' = C /\ (LastStrand(j))' = L
         /\ (LeftIndex(j))' = LeftIndex(j)
    BY <2>4 DEF LeftIndex, c
  <2> QED
    BY <1>1, <1>5, <2>9, <2>10, <2>11, <2>12, <2>13, <2>14, <2>15 DEF ScansOf, c
<1> QED
  BY <1>3, <1>4, <1>5

\* The iteration before.
LEMMA Before1 == ASSUME NEW i \in Iters, i > 1 PROVE i - 1 \in Iters \ {i} /\ i \in Int
  BY SlotNumbers DEF Iters

\* The scan of an iteration that the loop moves on, or that appends.
LEMMA ScansQuiet ==
  ASSUME IInv, Shapes, Begun, Frames, Stays, NEW i \in Iters, ScansOf(i), Quiet(i) \/ Appends(i)
  PROVE  (ScansOf(i))'
<1>0. /\ scan'[i] = scan[i] /\ before' = before
      /\ \A j \in Iters \ {i} : elems'[j] = elems[j]
      /\ pc[i] \notin {"length", "look", "order"} /\ pc'[i] \notin {"length", "look", "order"}
  BY DEF Quiet, Appends, Elsewhere
<1>1. ((HasList(i))' <=> HasList(i)) /\ (HasList(i) => (LastStrand(i))' = LastStrand(i))
  BY DEF Stays
<1>2. i > 1 => elems'[i - 1] = elems[i - 1]
  BY <1>0, Before1
<1>3. i > 1 /\ HasList(i) => (Covered(i, LastStrand(i), scan[i].index))' = Covered(i, LastStrand(i), scan[i].index)
  BY <1>0, <1>1, <1>2 DEF Covered, Indices, Frame
<1> QED
  BY <1>0, <1>1, <1>2, <1>3 DEF ScansOf

\* The scan of an iteration that begins.
LEMMA ScansOpening ==
  ASSUME IInv, IInv', Shapes, Begun, Begun', Dag, Dag', Frames, NEW i \in Iters, ScansOf(i), Opening(i)
  PROVE  (ScansOf(i))'
<1> DEFINE g == <<i, 0>>
<1>0. /\ scan' = scan /\ pc[i] = "test" /\ pc'[i] = "user" /\ \A j \in Iters \ {i} : elems'[j] = elems[j]
      /\ \A f : f \in before'[g] <=> \E x \in begun : (x[1] = i \/ (x[1] = i - 1 /\ x[2] <= 0)) /\ f \in Cone(x)
      /\ begun' = begun \cup {g}
  BY DEF Opening, Begins
<1>1. ~HasList(i) /\ (HasList(i))' /\ (LastStrand(i))' = g /\ \A f \in Created : f[1] # i
  BY OpeningPlaces DEF Joins
<1>2. /\ scan[i].index = 1 /\ scan[i].iPre = 0 /\ scan[i].ret = 0
  BY <1>0, <1>1 DEF ScansOf
<1>3. ASSUME i > 1 PROVE 1 <= Len(elems'[i - 1]) /\ (Covered(i, LastStrand(i), scan[i].index))'
  <2>1. i - 1 \in Iters \ {i} /\ i \in Int
    BY <1>3, Before1
  <2>2. HasList(i - 1)
    <3>1. i - 1 < i
      BY <2>1
    <3> QED
      BY <1>0, <2>1, <3>1 DEF IInv, Inv, Lists
  <2>3. /\ Len(elems[i - 1]) \in Nat /\ Len(elems[i - 1]) >= 1
        /\ \A k \in 1 .. Len(elems[i - 1]) : elems[i - 1][k] \in Int
    BY <2>1, <2>2, LastIs
  <2>4. /\ elems[i - 1][1] = 0
        /\ \A k, l \in 1 .. Len(elems[i - 1]) : k < l => elems[i - 1][k] < elems[i - 1][l]
        /\ \A k \in 1 .. Len(elems[i - 1]) : <<i - 1, elems[i - 1][k]>> \in Created
    BY <2>1, <2>2 DEF Frames, FramesOf
  <2>5. elems'[i - 1] = elems[i - 1]
    BY <1>0, <2>1
  <2>6. ASSUME NEW k \in Indices(i)' PROVE k < 1 <=> (Frame(i, k))' \in before'[g]
    <3>1. k \in Int /\ k >= 0 /\ k + 1 \in 1 .. Len(elems[i - 1]) /\ 1 \in 1 .. Len(elems[i - 1])
      BY <2>3, <2>5, <2>6 DEF Indices
    <3>2. (Frame(i, k))' = <<i - 1, elems[i - 1][k + 1]>>
      BY <2>5 DEF Frame
    <3>3. CASE k = 0
      <4>1. (Frame(i, k))' = <<i - 1, 0>> /\ <<i - 1, 0>> \in begun
        BY <2>4, <3>1, <3>2, <3>3 DEF Created
      <4>2. <<i - 1, 0>>[1] = i - 1 /\ <<i - 1, 0>>[2] <= 0 /\ <<i - 1, 0>> \in Cone(<<i - 1, 0>>)
        BY DEF Cone
      <4> QED
        BY <1>0, <3>3, <4>1, <4>2
    <3>4. CASE k > 0
      <4> DEFINE y == <<i - 1, elems[i - 1][k + 1]>>
      <4>1. elems[i - 1][k + 1] > 0 /\ elems[i - 1][k + 1] \in Int
        BY <2>3, <2>4, <3>1, <3>4
      <4>2. y \in begun /\ y[1] = i - 1 /\ y[2] > 0 /\ y[2] \in Int
        BY <2>4, <3>1, <4>1 DEF Created
      <4> HIDE DEF y
      <4>3. ASSUME NEW x \in begun, x[1] = i \/ (x[1] = i - 1 /\ x[2] <= 0), y \in Cone(x) PROVE FALSE
        <5>1. x[1] # i
          <6>1. x \in begun /\ pc[x[1]] \notin {"unborn", "test"}
            BY DEF Begun
          <6> QED
            BY <1>0, <6>1
        <5>2. x[1] = i - 1 /\ x[2] <= 0 /\ x[2] \in Int
          BY <4>3, <5>1, StrandsOf
        <5>3. y # x
          BY <4>2, <5>2
        <5>4. y \in before[x]
          BY <4>3, <5>3 DEF Cone
        <5>5. y[2] < x[2]
          BY <4>2, <5>2, <5>4 DEF Dag
        <5> QED
          BY <4>2, <5>2, <5>5
      <4>4. y \notin before'[g]
        BY <1>0, <4>3
      <4> QED
        BY <3>1, <3>2, <3>4, <4>4 DEF y
    <3> QED
      BY <3>1, <3>3, <3>4
  <2> QED
    BY <1>0, <1>1, <1>2, <2>3, <2>5, <2>6 DEF Covered
<1> QED
  BY <1>0, <1>1, <1>2, <1>3 DEF ScansOf

\* The scan of an iteration whose stage begins.
LEMMA ScansOpens ==
  ASSUME IInv, IInv', Shapes, Begun, Dag, Frames, Stays, NEW i \in Iters, ScansOf(i), elems' = elems,
         NEW s \in 0 .. MaxStage, NEW wait \in BOOLEAN, Opens(i, s, wait)
  PROVE  (ScansOf(i))'
<1> DEFINE g == <<i, s>>
           L == LastStrand(i)
<1>0. /\ scan'[i] = scan[i] /\ stage'[i] = s /\ begun' = begun \cup {g}
      /\ \A f \in Strands : f # g => before'[f] = before[f]
      /\ pc[i] \in {"user", "wait"} /\ pc'[i] \in {"length", "order"}
      /\ \A j \in Iters \ {i} : stage'[j] = stage[j]
  BY DEF Opens, Begins, Elsewhere
<1>1. /\ HasList(i) /\ (HasList(i))' /\ L \in begun /\ (LastStrand(i))' = L /\ (Current(i))' = g /\ L \in Created /\ L[1] = i
  <2>1. HasList(i)
    BY <1>0 DEF IInv, Inv, Lists, Body
  <2> QED
    BY <1>0, <2>1, LastIs DEF Stays, Created, Current
<1>2. /\ scan[i].index >= 1 /\ scan[i].iPre = 0 /\ scan[i].ret = 0
      /\ i > 1 => scan[i].index <= Len(elems[i - 1]) /\ Covered(i, L, scan[i].index)
  BY <1>0, <1>1 DEF ScansOf
<1>3. g \notin begun /\ begun \subseteq Strands
  BY NewStrand DEF Shapes
<1>4. \A f \in begun : before'[f] = before[f] /\ (Cone(f))' = Cone(f) /\ Cone(f) \subseteq begun
  BY <1>0, <1>3 DEF Cone, Begun
<1>5. (Cone(LastStrand(i)))' = Cone(L)
  BY <1>1, <1>4 DEF Cone
<1>6. (LeftIndex(i))' = 0
  BY <1>0, <1>2 DEF LeftIndex
<1>7. i > 1 => (Covered(i, LastStrand(i), scan[i].index))'
  BY <1>0, <1>1, <1>2, <1>4 DEF Covered, Indices, Frame
<1>8. CASE pc'[i] = "length"
  <2>1. i > 1 /\ stage[i - 1] > s /\ Opens(i, s, TRUE)
    <3>1. wait
      BY <1>8 DEF Opens
    <3>2. Opens(i, s, TRUE)
      <4>1. wait = TRUE
        BY <3>1, Zenon
      <4> QED
        BY <4>1, Zenon
    <3>3. i > 1
      BY <1>8, <3>2 DEF Opens
    <3> QED
      BY <3>2, <3>3 DEF Opens
  <2>2. \A f : f \in before'[g] <=>
                \/ f \in Cone(L)
                \/ \E x \in begun : x[1] = i - 1 /\ x[2] <= s /\ f \in Cone(x)
    BY <2>1, ConeOfOpened
  <2>3. stage'[i - 1] > s
    BY <1>0, <2>1, Before1
  <2>4. g[1] = i /\ i - 1 # i
    BY <2>1, Before1
  <2> HIDE DEF g, L
  <2>5. ASSUME NEW f \in begun'
        PROVE  f \in before'[g] <=>
                \/ f \in Cone(L)
                \/ \E x \in begun' : x[1] = i - 1 /\ x[2] <= s /\ f \in (Cone(x))'
    <3>1. \A x \in begun' : x[1] = i - 1 => x \in begun
      BY <1>0, <2>4
    <3> QED
      BY <1>0, <1>4, <2>2, <3>1
  <2>6. (Waits(i))'
    BY <1>0, <1>1, <1>5, <2>1, <2>3, <2>5 DEF Waits
  <2> QED
    BY <1>0, <1>1, <1>2, <1>7, <1>8, <2>6 DEF ScansOf
<1>9. CASE pc'[i] = "order"
  <2>1. before'[g] = Cone(L)
    <3>1. CASE wait
      <4>0. Opens(i, s, TRUE)
        <5>1. wait = TRUE
          BY <3>1, Zenon
        <5> QED
          BY <5>1, Zenon
      <4>1. ~(i > 1)
        BY <1>9, <4>0 DEF Opens
      <4>2. \A x \in begun : x[1] # i - 1
        BY <4>1, StrandsOf, SlotNumbers DEF Iters
      <4>3. \A f : f \in before'[g] <=> f \in Cone(L)
        BY <4>0, <4>2, ConeOfOpened
      <4> QED
        BY <4>3
    <3>2. CASE ~wait
      <4>0. Opens(i, s, FALSE)
        <5>1. wait = FALSE
          BY <3>2, Zenon
        <5> QED
          BY <5>1, Zenon
      <4> QED
        BY <4>0, ConeOfOpened
    <3> QED
      BY <3>1, <3>2
  <2>2. ASSUME i > 1 PROVE (Covered(i, Current(i), scan[i].index))'
    <3>1. \A k \in Indices(i) : Frame(i, k)[1] = i - 1 /\ i - 1 # i
      BY <1>1, <2>2, FramesIn, Before1
    <3>2. \A k \in Indices(i) : Frame(i, k) \in before[L] <=> Frame(i, k) \in Cone(L)
      BY <1>1, <3>1 DEF Cone
    <3>3. Indices(i)' = Indices(i) /\ \A k : (Frame(i, k))' = Frame(i, k)
      BY DEF Indices, Frame
    <3> HIDE DEF g, L
    <3> QED
      BY <1>0, <1>1, <1>2, <2>1, <2>2, <3>2, <3>3 DEF Covered
  <2> HIDE DEF g, L
  <2> QED
    BY <1>0, <1>1, <1>2, <1>5, <1>6, <1>7, <1>9, <2>1, <2>2 DEF ScansOf
<1> QED
  BY <1>0, <1>8, <1>9

\* While iteration i alone moves, it sees the same frames.
LEMMA Alike ==
  ASSUME Stays, NEW i \in Iters, HasList(i), Alone(i)
  PROVE  /\ (HasList(i))' /\ (LastStrand(i))' = LastStrand(i) /\ (Current(i))' = Current(i)
         /\ \A x, y : (Covered(i, x, y))' = Covered(i, x, y)
         /\ Indices(i)' = Indices(i) /\ \A k : (Frame(i, k))' = Frame(i, k)
         /\ \A x : (Cone(x))' = Cone(x)
         /\ (Cone(LastStrand(i)))' = Cone(LastStrand(i))
         /\ (Waits(i))' = Waits(i)
<1>1. /\ (HasList(i))' /\ (LastStrand(i))' = LastStrand(i) /\ (Current(i))' = Current(i)
      /\ elems' = elems /\ before' = before /\ begun' = begun /\ stage' = stage
  BY DEF Stays, Alone, Current
<1>2. \A x : (Cone(x))' = Cone(x)
  BY <1>1 DEF Cone
<1>3. (Cone(LastStrand(i)))' = Cone(LastStrand(i))
  BY <1>1 DEF Cone
<1>4. Indices(i)' = Indices(i) /\ \A k : (Frame(i, k))' = Frame(i, k)
  BY <1>1 DEF Indices, Frame
<1>5. \A x, y : (Covered(i, x, y))' = Covered(i, x, y)
  BY <1>1, <1>4 DEF Covered
<1>6. (Waits(i))' = Waits(i)
  BY <1>1, <1>2, <1>3 DEF Waits
<1> QED
  BY <1>1, <1>2, <1>3, <1>4, <1>5, <1>6

\* The scan once the length is read.
LEMMA ScansReads ==
  ASSUME IInv, Shapes, Begun, Dag, Frames, Stays, NEW i \in Iters, ScansOf(i), Reads(i)
  PROVE  (ScansOf(i))'
<1> DEFINE c == scan[i]
<1>0. /\ Alone(i) /\ i > 1 /\ pc[i] = "length" /\ pc'[i] = "look" /\ stage' = stage /\ elems' = elems /\ before' = before
      /\ scan'[i].index = c.index /\ scan'[i].iPre = c.iPre /\ scan'[i].ret = c.ret /\ scan'[i].len = length[i - 1]
  BY DEF Reads, Alone, Shapes
<1>1. HasList(i)
  BY <1>0 DEF IInv, Inv, Lists, Body
<1>2. /\ c.index >= 1 /\ c.iPre = 0 /\ c.ret = 0 /\ c.index <= Len(elems[i - 1]) /\ Covered(i, LastStrand(i), c.index)
      /\ Waits(i)
  BY <1>0, <1>1 DEF ScansOf
<1>3. \A k \in Indices(i) : k >= length[i - 1] => elems[i - 1][k + 1] > stage[i]
  <2>1. /\ i - 1 \in Iters /\ Len(elems[i - 1]) \in Nat
        /\ \A k \in Indices(i) : k \in Int /\ k + 1 \in 1 .. Len(elems[i - 1])
    BY <1>0, <1>1, FramesIn
  <2>2. stage[i - 1] > stage[i]
    BY <1>2 DEF Waits
  <2>3. CASE length[i - 1] >= Len(elems[i - 1])
    <3>1. length[i - 1] \in Int
      BY <2>1 DEF Shapes
    <3>2. \A k \in Indices(i) : ~(k >= length[i - 1])
      BY <2>1, <2>3, <3>1
    <3> QED
      BY <3>2
  <2>4. CASE length[i - 1] < Len(elems[i - 1])
    <3>1. length[i - 1] = Len(elems[i - 1]) - 1 /\ elems[i - 1][Len(elems[i - 1])] = stage[i - 1]
      <4>1. length[i - 1] \notin {Len(elems[i - 1]), Len(elems[i - 1]) + 1}
        BY <2>1, <2>4
      <4> QED
        BY <2>1, <4>1 DEF Frames, FramesOf
    <3>2. \A k \in Indices(i) : k >= length[i - 1] => k + 1 = Len(elems[i - 1])
      BY <2>1, <3>1
    <3> QED
      BY <2>2, <3>1, <3>2
  <2>5. length[i - 1] \in Int
    BY <2>1 DEF Shapes
  <2> QED
    BY <2>1, <2>3, <2>4, <2>5
<1>4. /\ (HasList(i))' /\ (LastStrand(i))' = LastStrand(i)
      /\ (Covered(i, LastStrand(i), scan[i].index))' = Covered(i, LastStrand(i), c.index)
      /\ Indices(i)' = Indices(i) /\ (Waits(i))' = Waits(i)
  <2>1. /\ (HasList(i))' /\ (LastStrand(i))' = LastStrand(i)
        /\ Indices(i)' = Indices(i) /\ \A k : (Frame(i, k))' = Frame(i, k) /\ (Waits(i))' = Waits(i)
    BY <1>0, <1>1, Alike
  <2>2. (Covered(i, LastStrand(i), scan[i].index))' = Covered(i, LastStrand(i), c.index)
    BY <1>0, <2>1 DEF Covered
  <2> QED
    BY <2>1, <2>2
<1> QED
  BY <1>0, <1>1, <1>2, <1>3, <1>4 DEF ScansOf

\* What holds of an iteration that has found its left neighbour l.
Found(i, index, l) ==
  /\ index >= 1 /\ index <= Len(elems[i - 1])
  /\ Covered(i, Current(i), index)
  /\ l = 0 => before[Current(i)] = Cone(LastStrand(i))
  /\ l # 0 => /\ l \in Indices(i)
              /\ Frame(i, l) \notin before[LastStrand(i)]
              /\ before[Current(i)] = Cone(LastStrand(i)) \cup Cone(Frame(i, l))

\* Then its scan is right where createOrder uses it.
LEMMA FoundIs ==
  ASSUME IInv, Shapes, Begun, Dag, Frames, Stays, NEW i \in Iters, i > 1, HasList(i), Alone(i), pc'[i] = "order",
         Found(i, scan'[i].index, (LeftIndex(i))')
  PROVE  (ScansOf(i))'
<1>1. /\ (HasList(i))' /\ (LastStrand(i))' = LastStrand(i) /\ (Current(i))' = Current(i)
      /\ Indices(i)' = Indices(i) /\ \A k : (Frame(i, k))' = Frame(i, k)
      /\ \A x : (Cone(x))' = Cone(x)
      /\ (Cone(LastStrand(i)))' = Cone(LastStrand(i))
      /\ elems' = elems /\ before' = before
  BY Alike DEF Alone
<1>2. (Frame(i, LeftIndex(i)))' = Frame(i, (LeftIndex(i))') /\ (Cone(Frame(i, LeftIndex(i))))' = Cone(Frame(i, (LeftIndex(i))'))
  BY <1>1 DEF Frame, Cone
<1>3. (Covered(i, Current(i), scan[i].index))' = Covered(i, Current(i), scan'[i].index)
  BY <1>1 DEF Covered
<1> QED
  BY <1>1, <1>2, <1>3 DEF ScansOf, Found

\* The scan ends at a frame of a later stage or at the end of the list.
LEMMA LookingEnds ==
  ASSUME IInv, Shapes, Begun, Dag, Frames, NEW i \in Iters, ScansOf(i), i > 1, pc[i] = "look",
         \A k \in Indices(i) : k >= scan[i].index => elems[i - 1][k + 1] > stage[i]
  PROVE  Found(i, scan[i].index, scan[i].iPre)
<1> DEFINE c == scan[i]
           m == IF c.iPre = 0 THEN c.index ELSE c.iPre
           L == LastStrand(i)
           C == Current(i)
<1>1. /\ HasList(i) /\ L \in begun /\ C \in begun /\ stage[i] \in Int
      /\ c.index \in Int /\ c.iPre \in Int /\ c.index >= 1 /\ c.iPre >= 0
      /\ \A k \in Indices(i) : k >= m => Frame(i, k) \notin before[L]
      /\ \A k \in Indices(i) : c.iPre = 0 /\ k < m => Frame(i, k) \in before[L]
      /\ \A k \in Indices(i) : c.iPre # 0 /\ k <= m => elems[i - 1][k + 1] < stage[i]
      /\ c.iPre # 0 => c.iPre \in Indices(i) /\ c.iPre = c.index - 1
      /\ \A k \in Indices(i) : Frame(i, k) \in before[C] <=> Frame(i, k) \in before[L] \/ elems[i - 1][k + 1] <= stage[i]
      /\ \A f : f \in before[C] <=>
           \/ f \in Cone(L)
           \/ \E k \in Indices(i) : elems[i - 1][k + 1] <= stage[i] /\ f \in Cone(Frame(i, k))
  BY Looking
<1>2. /\ \A k \in Indices(i) : k \in Int /\ k >= 0 /\ Frame(i, k) \in begun /\ elems[i - 1][k + 1] \in Int
      /\ \A k, l \in Indices(i) : k < l => Frame(i, k) \in before[Frame(i, l)]
  BY <1>1, FramesIn
<1>3. c.index <= Len(elems[i - 1])
  BY <1>1 DEF ScansOf
<1>4. \A k \in Indices(i) : k >= c.index => elems[i - 1][k + 1] > stage[i]
  OBVIOUS
<1> HIDE DEF c, L, C
<1>5. ASSUME NEW k \in Indices(i) PROVE k < c.index <=> Frame(i, k) \in before[C]
  <2>1. CASE k >= c.index
    <3>1. k >= m
      BY <1>1, <1>2, <2>1
    <3> QED
      BY <1>1, <1>2, <1>4, <2>1, <3>1
  <2>2. CASE k < c.index /\ c.iPre = 0
    BY <1>1, <2>2
  <2>3. CASE k < c.index /\ c.iPre # 0
    <3>1. k <= m
      BY <1>1, <1>2, <2>3
    <3>2. elems[i - 1][k + 1] < stage[i]
      BY <1>1, <2>3, <3>1
    <3> QED
      BY <1>1, <1>2, <2>3, <3>2
  <2> QED
    BY <1>1, <1>2, <2>1, <2>2, <2>3
<1>6. ASSUME NEW x \in begun, NEW y \in begun, x \in before[y] PROVE Cone(x) \subseteq before[y]
  BY <1>6, ConeIn DEF Cone, Dag
<1>7. CASE c.iPre = 0
  <2>1. ASSUME NEW k \in Indices(i), elems[i - 1][k + 1] <= stage[i] PROVE Cone(Frame(i, k)) \subseteq before[L]
    <3>1. ~(k >= c.index)
      BY <1>1, <1>2, <1>4, <2>1
    <3>2. Frame(i, k) \in before[L]
      BY <1>1, <1>2, <1>7, <3>1
    <3> QED
      BY <1>1, <1>2, <1>6, <3>2
  <2>2. before[C] = Cone(L)
    BY <1>1, <2>1 DEF Cone
  <2> QED
    BY <1>1, <1>3, <1>5, <1>7, <2>2 DEF Found, Covered, c, L, C
<1>8. CASE c.iPre # 0
  <2> DEFINE l == c.iPre
  <2>0. l \in Indices(i) /\ l = c.index - 1 /\ elems[i - 1][l + 1] < stage[i] /\ Frame(i, l) \notin before[L]
    BY <1>1, <1>8
  <2> HIDE DEF l
  <2>1. ASSUME NEW k \in Indices(i), elems[i - 1][k + 1] <= stage[i] PROVE Cone(Frame(i, k)) \subseteq Cone(Frame(i, l))
    <3>1. ~(k >= c.index)
      BY <1>1, <1>2, <1>4, <2>1
    <3>2. k = l \/ k < l
      BY <1>1, <1>2, <2>0, <3>1
    <3>3. CASE k < l
      <4>1. Frame(i, k) \in before[Frame(i, l)]
        BY <1>2, <2>0, <3>3
      <4> QED
        BY <1>2, <1>6, <2>0, <4>1 DEF Cone
    <3> QED
      BY <3>2, <3>3
  <2>2. before[C] = Cone(L) \cup Cone(Frame(i, l))
    <3>1. elems[i - 1][l + 1] <= stage[i]
      BY <1>1, <1>2, <2>0
    <3> QED
      BY <1>1, <2>0, <2>1, <3>1
  <2> QED
    BY <1>1, <1>3, <1>5, <1>8, <2>0, <2>2 DEF Found, Covered, c, L, C, l
<1> QED
  BY <1>7, <1>8

\* The scan ends at the frame of that very stage.
LEMMA LookingEqual ==
  ASSUME IInv, Shapes, Begun, Dag, Frames, NEW i \in Iters, ScansOf(i), i > 1, pc[i] = "look",
         scan[i].index \in Indices(i), elems[i - 1][scan[i].index + 1] = stage[i]
  PROVE  Found(i, scan[i].index + 1, scan[i].index)
<1> DEFINE c == scan[i]
           m == IF c.iPre = 0 THEN c.index ELSE c.iPre
           L == LastStrand(i)
           C == Current(i)
           l == c.index
<1>1. /\ HasList(i) /\ L \in begun /\ C \in begun /\ stage[i] \in Int
      /\ c.index \in Int /\ c.iPre \in Int /\ c.index >= 1 /\ c.iPre >= 0
      /\ \A k \in Indices(i) : k >= m => Frame(i, k) \notin before[L]
      /\ c.iPre # 0 => c.iPre \in Indices(i) /\ c.iPre = c.index - 1
      /\ \A k \in Indices(i) : Frame(i, k) \in before[C] <=> Frame(i, k) \in before[L] \/ elems[i - 1][k + 1] <= stage[i]
      /\ \A f : f \in before[C] <=>
           \/ f \in Cone(L)
           \/ \E k \in Indices(i) : elems[i - 1][k + 1] <= stage[i] /\ f \in Cone(Frame(i, k))
  BY Looking
<1>2. /\ \A k \in Indices(i) : k \in Int /\ k >= 0 /\ Frame(i, k) \in begun /\ elems[i - 1][k + 1] \in Int
                               /\ k + 1 \in 1 .. Len(elems[i - 1])
      /\ \A k, n \in Indices(i) : k < n => Frame(i, k) \in before[Frame(i, n)] /\ elems[i - 1][k + 1] < elems[i - 1][n + 1]
      /\ Len(elems[i - 1]) \in Nat
  BY <1>1, FramesIn
<1>3. l \in Indices(i) /\ elems[i - 1][l + 1] = stage[i] /\ l >= m /\ l \in Int /\ l >= 1 /\ l + 1 <= Len(elems[i - 1])
  BY <1>1, <1>2
<1> HIDE DEF c, L, C, l
<1>4. Frame(i, l) \notin before[L]
  BY <1>1, <1>3
<1>5. ASSUME NEW k \in Indices(i) PROVE k < l + 1 <=> Frame(i, k) \in before[C]
  <2>1. CASE k < l + 1
    <3>1. k = l \/ k < l
      BY <1>2, <1>3, <2>1
    <3>2. elems[i - 1][k + 1] <= stage[i]
      BY <1>1, <1>2, <1>3, <3>1
    <3> QED
      BY <1>1, <2>1, <3>2
  <2>2. CASE ~(k < l + 1)
    <3>1. l < k /\ k >= m
      BY <1>1, <1>2, <1>3, <2>2
    <3>2. elems[i - 1][k + 1] > stage[i]
      BY <1>1, <1>2, <1>3, <3>1
    <3>3. ~(elems[i - 1][k + 1] <= stage[i])
      BY <1>1, <1>2, <3>2
    <3>4. Frame(i, k) \notin before[C]
      BY <1>1, <3>1, <3>3
    <3> QED
      BY <2>2, <3>4
  <2> QED
    BY <2>1, <2>2
<1>6. ASSUME NEW x \in begun, NEW y \in begun, x \in before[y] PROVE Cone(x) \subseteq before[y]
  BY <1>6, ConeIn DEF Cone, Dag
<1>7. ASSUME NEW k \in Indices(i), elems[i - 1][k + 1] <= stage[i] PROVE Cone(Frame(i, k)) \subseteq Cone(Frame(i, l))
  <2>1. k = l \/ k < l
    <3>1. l < k => elems[i - 1][k + 1] > stage[i]
      BY <1>1, <1>2, <1>3
    <3> QED
      BY <1>1, <1>2, <1>3, <1>7, <3>1
  <2>2. CASE k < l
    <3>1. Frame(i, k) \in before[Frame(i, l)]
      BY <1>2, <1>3, <2>2
    <3> QED
      BY <1>2, <1>3, <1>6, <3>1 DEF Cone
  <2> QED
    BY <2>1, <2>2
<1>8. before[C] = Cone(L) \cup Cone(Frame(i, l))
  <2>1. elems[i - 1][l + 1] <= stage[i]
    BY <1>1, <1>2, <1>3
  <2> QED
    BY <1>1, <1>3, <1>7, <2>1
<1>9. l + 1 >= 1 /\ l # 0
  BY <1>3
<1> QED
  BY <1>3, <1>4, <1>5, <1>8, <1>9 DEF Found, Covered, c, L, C, l

\* The scan after a look at the next frame.
LEMMA ScansLooks ==
  ASSUME IInv, Shapes, Begun, Dag, Frames, Stays, NEW i \in Iters, ScansOf(i), LooksOn(i) \/ Ends(i)
  PROVE  (ScansOf(i))'
<1> DEFINE c == scan[i]
           e == elems[i - 1][c.index + 1]
<1>0. Alone(i) /\ i > 1 /\ pc[i] = "look" /\ stage' = stage /\ elems' = elems /\ before' = before
  BY DEF LooksOn, Ends, Alone
<1>1. /\ HasList(i) /\ LastStrand(i) \in begun /\ stage[i] \in Int
      /\ c.index \in Int /\ c.iPre \in Int /\ c.index >= 1 /\ c.iPre >= 0
      /\ c.iPre # 0 => c.iPre \in Indices(i) /\ c.iPre = c.index - 1
  BY <1>0, Looking
<1>2. /\ \A k \in Indices(i) : k \in Int /\ k >= 0 /\ Frame(i, k) \in begun /\ elems[i - 1][k + 1] \in Int
                               /\ k + 1 \in 1 .. Len(elems[i - 1])
      /\ \A k, n \in Indices(i) : k < n => Frame(i, k) \in before[Frame(i, n)] /\ elems[i - 1][k + 1] < elems[i - 1][n + 1]
  BY <1>0, <1>1, FramesIn
<1>3. /\ c.ret = 0 /\ c.len \in Int /\ c \in [index : Nat, iPre : Nat, ret : Nat, len : Int]
      /\ \A k \in Indices(i) : k >= c.len => elems[i - 1][k + 1] > stage[i]
  BY <1>0 DEF ScansOf, Shapes
<1>4. ASSUME Ends(i) PROVE (ScansOf(i))'
  <2>1. pc'[i] = "order" /\ c.index >= c.len /\ scan'[i] = c
    BY <1>4 DEF Ends
  <2>2. \A k \in Indices(i) : k >= c.index => elems[i - 1][k + 1] > stage[i]
    <3>1. \A k \in Indices(i) : k >= c.index => k >= c.len
      BY <1>1, <1>2, <1>3, <2>1
    <3> QED
      BY <1>3, <3>1
  <2>3. Found(i, c.index, c.iPre)
    BY <1>0, <2>2, LookingEnds
  <2>4. (LeftIndex(i))' = c.iPre /\ scan'[i].index = c.index
    BY <1>1, <1>3, <2>1 DEF LeftIndex
  <2> QED
    BY <1>0, <1>1, <2>1, <2>3, <2>4, FoundIs
<1>5. ASSUME LooksOn(i), e = stage[i], pc'[i] = "order", scan'[i] = [c EXCEPT !.ret = c.index, !.index = c.index + 1]
      PROVE  (ScansOf(i))'
  <2>1. c.index \in Indices(i)
    BY <1>5 DEF LooksOn
  <2>2. Found(i, c.index + 1, c.index)
    BY <1>0, <1>5, <2>1, LookingEqual
  <2>3. scan'[i].index = c.index + 1 /\ scan'[i].iPre = c.iPre /\ scan'[i].ret = c.index
    BY <1>3, <1>5
  <2>4. (LeftIndex(i))' = c.index
    <3>1. c.index \in Int /\ c.iPre \in Int /\ c.index >= 1 /\ (c.iPre = 0 \/ c.iPre = c.index - 1)
      BY <1>1, <1>3
    <3>2. c.index > c.iPre
      BY <3>1
    <3> QED
      BY <2>3, <3>2 DEF LeftIndex
  <2> QED
    BY <1>0, <1>1, <1>5, <2>2, <2>3, <2>4, FoundIs
<1>6. ASSUME LooksOn(i), e > stage[i], pc'[i] = "order", scan'[i] = [c EXCEPT !.ret = c.iPre] PROVE (ScansOf(i))'
  <2>1. c.index \in Indices(i) /\ e \in Int
    BY <1>2, <1>6 DEF LooksOn
  <2>2. \A k \in Indices(i) : k >= c.index => elems[i - 1][k + 1] > stage[i]
    <3>1. ASSUME NEW k \in Indices(i), k > c.index PROVE elems[i - 1][k + 1] > stage[i]
      <4>1. e < elems[i - 1][k + 1] /\ elems[i - 1][k + 1] \in Int
        BY <1>2, <2>1, <3>1
      <4>2. e > stage[i] /\ stage[i] \in Int
        BY <1>1, <1>6
      <4> QED
        BY <2>1, <4>1, <4>2
    <3>2. \A k \in Indices(i) : k >= c.index => k = c.index \/ k > c.index
      BY <1>1, <1>2
    <3> QED
      BY <1>6, <3>1, <3>2
  <2>3. Found(i, c.index, c.iPre)
    BY <1>0, <2>2, LookingEnds
  <2>4. scan'[i].index = c.index /\ scan'[i].iPre = c.iPre /\ scan'[i].ret = c.iPre
    BY <1>3, <1>6
  <2>5. (LeftIndex(i))' = c.iPre
    BY <1>1, <2>4 DEF LeftIndex
  <2> QED
    BY <1>0, <1>1, <1>6, <2>3, <2>4, <2>5, FoundIs
<1>7. ASSUME LooksOn(i), e < stage[i], pc'[i] = "look", scan'[i] = [c EXCEPT !.iPre = c.index, !.index = c.index + 1]
      PROVE  (ScansOf(i))'
  <2>1. c.index \in Indices(i) /\ e \in Int
    BY <1>2, <1>7 DEF LooksOn
  <2>2. scan'[i].index = c.index + 1 /\ scan'[i].iPre = c.index /\ scan'[i].ret = 0 /\ scan'[i].len = c.len
    BY <1>3, <1>7
  <2>3. Frame(i, c.index) \notin before[LastStrand(i)]
    <3>1. \A k \in Indices(i) : k >= (IF c.iPre = 0 THEN c.index ELSE c.iPre) => Frame(i, k) \notin before[LastStrand(i)]
      BY <1>0, Looking
    <3>2. c.index >= (IF c.iPre = 0 THEN c.index ELSE c.iPre)
      BY <1>1
    <3> QED
      BY <2>1, <3>1, <3>2
  <2>4. c.index + 1 <= Len(elems[i - 1]) /\ c.index + 1 >= 1 /\ c.index # 0 /\ c.index = (c.index + 1) - 1
    BY <1>1, <1>2, <2>1
  <2>5. Waits(i)
    BY <1>0 DEF ScansOf
  <2>6. /\ (HasList(i))' /\ (LastStrand(i))' = LastStrand(i)
        /\ Indices(i)' = Indices(i) /\ (Waits(i))' = Waits(i) /\ \A k : (Frame(i, k))' = Frame(i, k)
    BY <1>0, <1>1, Alike
  <2>7. (Frame(i, scan[i].iPre))' = Frame(i, c.index)
    BY <1>0, <2>2 DEF Frame
  <2> HIDE DEF c
  <2> QED
    BY <1>0, <1>1, <1>3, <1>7, <2>2, <2>3, <2>4, <2>5, <2>6, <2>7 DEF ScansOf
<1>8. CASE LooksOn(i)
  <2>1. \/ e = stage[i] /\ pc'[i] = "order" /\ scan'[i] = [c EXCEPT !.ret = c.index, !.index = c.index + 1]
        \/ e < stage[i] /\ pc'[i] = "look" /\ scan'[i] = [c EXCEPT !.iPre = c.index, !.index = c.index + 1]
        \/ e > stage[i] /\ pc'[i] = "order" /\ scan'[i] = [c EXCEPT !.ret = c.iPre]
    BY <1>8 DEF LooksOn
  <2> QED
    BY <1>5, <1>6, <1>7, <1>8, <2>1
<1> QED
  BY <1>4, <1>8

\* The scan once the nodes are in.
LEMMA ScansCreates ==
  ASSUME IInv, Shapes, Begun, Dag, Frames, NEW i \in Iters, ScansOf(i), Creates(i)
  PROVE  (ScansOf(i))'
<1>0. /\ pc[i] = "order" /\ pc'[i] = "append" /\ elems' = elems /\ before' = before
      /\ scan'[i].index = scan[i].index /\ scan'[i].iPre = 0 /\ scan'[i].ret = 0
  <2>1. scan[i] \in [index : Nat, iPre : Nat, ret : Nat, len : Int]
    BY DEF Shapes
  <2>2. scan'[i] = [scan[i] EXCEPT !.iPre = 0, !.ret = 0, !.len = 0]
    BY DEF Creates
  <2>3. scan'[i].index = scan[i].index /\ scan'[i].iPre = 0 /\ scan'[i].ret = 0
    BY <2>1, <2>2
  <2> QED
    BY <2>3 DEF Creates
<1>1. HasList(i) /\ (HasList(i))' /\ (LastStrand(i))' = Current(i)
  BY CreatePlaces DEF Joins
<1>2. i > 1 => (Covered(i, LastStrand(i), scan[i].index))'
  <2>1. i > 1 => Covered(i, Current(i), scan[i].index)
    BY <1>0 DEF ScansOf
  <2> QED
    BY <1>0, <1>1, <2>1 DEF Covered, Indices, Frame
<1> QED
  BY <1>0, <1>1, <1>2 DEF ScansOf

\* Scans is kept by every step, of the iteration itself and of the others.
LEMMA ScansStep ==
  ASSUME IInv, IInv', Shapes, Shapes', Begun, Begun', Dag, Dag', Frames, Scans, NEW i \in Iters,
         \/ Quiet(i) \/ Opening(i) \/ Reads(i) \/ LooksOn(i) \/ Ends(i) \/ Creates(i) \/ Appends(i)
         \/ \E s \in 0 .. MaxStage, wait \in BOOLEAN : Opens(i, s, wait)
  PROVE  Scans'
<1>0. \A j \in Iters : ScansOf(j) /\ stage[j] \in Int /\ stage'[j] \in Int
  BY Stages, StagesNext DEF Scans, IInv
<1>1. ASSUME NEW j \in Iters, j # i,
             pc'[j] = pc[j], stage'[j] = stage[j], scan'[j] = scan[j], elems'[j] = elems[j],
             HasList(j) => (LastStrand(j))' = LastStrand(j),
             \A f \in begun : before'[f] = before[f],
             begun \subseteq begun',
             \A x \in begun' : x \in begun \/ (x[1] = i /\ x[2] \in Int /\ x[2] >= stage[i]),
             \A k \in Iters : stage[k] <= stage'[k],
             HasList(i) => \A k \in Iters : elems'[k] = elems[k] \/ elems'[k] = Append(elems[k], stage[k])
      PROVE  (ScansOf(j))'
  <2>1. j > 1 => j - 1 \in Iters
    BY Before1
  <2>2. j > 1 => stage'[j - 1] \in Int /\ stage[j - 1] <= stage'[j - 1]
    BY <1>0, <1>1, <2>1
  <2>3. \A x \in begun' : x \in begun \/ (x[1] # j /\ x[2] \in Int /\ (x[1] = j - 1 => x[2] >= stage[x[1]]))
    BY <1>1
  <2>4. CASE HasList(i)
    <3>1. j > 1 /\ HasList(j) => elems'[j - 1] = elems[j - 1] \/ elems'[j - 1] = Append(elems[j - 1], stage[j - 1])
      BY <1>1, <2>1, <2>4
    <3> QED
      BY <1>0, <1>1, <2>2, <2>3, <3>1, ScansElsewhere
  <2>5. CASE ~HasList(j)
    BY <1>0, <1>1, <2>2, <2>3, <2>5, ScansElsewhere
  <2>6. CASE ~HasList(i) /\ HasList(j)
    <3>1. Opening(i) => \A k \in Iters \ {i} : elems'[k] = elems[k]
      BY DEF Opening
    <3>2. ~Opening(i) => elems' = elems
      <4>1. Appends(i) => HasList(i)
        BY DEF Appends, IInv, Inv, Lists, Body
      <4> QED
        BY <2>6, <4>1 DEF Quiet, Reads, LooksOn, Ends, Creates, Opens, Alone
    <3>3. j > 1 => j - 1 # i
      <4>1. ASSUME j > 1, j - 1 = i PROVE FALSE
        <5>1. i < j
          BY <4>1, Before1
        <5>2. pc[j] # "unborn"
          BY <2>6 DEF IInv, Inv, Lists
        <5> QED
          BY <2>6, <5>1, <5>2 DEF IInv, Inv, Lists
      <4> QED
        BY <4>1
    <3>4. j > 1 => elems'[j - 1] = elems[j - 1]
      BY <2>1, <3>1, <3>2, <3>3
    <3> QED
      BY <1>0, <1>1, <2>2, <2>3, <3>4, ScansElsewhere
  <2> QED
    BY <2>4, <2>5, <2>6
<1>2. CASE Quiet(i) \/ Reads(i) \/ LooksOn(i) \/ Ends(i) \/ \E s \in 0 .. MaxStage, wait \in BOOLEAN : Opens(i, s, wait)
  <2>1. Stays /\ elems' = elems /\ \A j \in Iters \ {i} : pc'[j] = pc[j] /\ stage'[j] = stage[j]
    BY <1>2, Unplaced
  <2>2. \A j \in Iters \ {i} : scan'[j] = scan[j]
    BY <1>2 DEF Quiet, Reads, LooksOn, Ends, Opens, Alone, Elsewhere
  <2>3. /\ \A f \in begun : before'[f] = before[f]
        /\ begun \subseteq begun'
        /\ \A x \in begun' : x \in begun \/ (x[1] = i /\ x[2] \in Int /\ x[2] >= stage[i])
        /\ stage[i] <= stage'[i]
    <3>1. CASE Quiet(i) \/ Reads(i) \/ LooksOn(i) \/ Ends(i)
      <4>1. begun' = begun /\ before' = before
        BY <3>1 DEF Quiet, Reads, LooksOn, Ends, Alone
      <4>2. stage[i] <= stage'[i]
        BY <1>0, <3>1 DEF Quiet, Reads, LooksOn, Ends, Alone
      <4> QED
        BY <4>1, <4>2
    <3>2. CASE \E s \in 0 .. MaxStage, wait \in BOOLEAN : Opens(i, s, wait)
      <4>1. PICK s \in 0 .. MaxStage, wait \in BOOLEAN : Opens(i, s, wait)
        BY <3>2
      <4>2. /\ begun' = begun \cup {<<i, s>>} /\ \A f \in Strands : f # <<i, s>> => before'[f] = before[f]
            /\ <<i, s>> \notin begun /\ stage[i] <= s /\ stage'[i] = s
        BY <4>1, NewStrand DEF Begins
      <4>3. <<i, s>>[1] = i /\ <<i, s>>[2] = s /\ s \in Int
        BY SlotNumbers
      <4> QED
        BY <4>2, <4>3 DEF Shapes
    <3> QED
      BY <1>2, <3>1, <3>2
  <2>4. \A k \in Iters : stage[k] <= stage'[k]
    BY <1>0, <2>1, <2>3
  <2>5. ASSUME NEW j \in Iters, j # i PROVE (ScansOf(j))'
    BY <1>1, <2>1, <2>2, <2>3, <2>4, <2>5 DEF Stays
  <2>6. (ScansOf(i))'
    BY <1>0, <1>2, <2>1, ScansQuiet, ScansReads, ScansLooks, ScansOpens
  <2> QED
    BY <2>5, <2>6 DEF Scans
<1>3. CASE Opening(i)
  <2>1. /\ UNCHANGED <<stage, scan>> /\ \A j \in Iters \ {i} : pc'[j] = pc[j] /\ elems'[j] = elems[j]
        /\ stage[i] = 0
    BY <1>3 DEF Opening
  <2>2. /\ ~HasList(i) /\ \A j \in Iters \ {i} : HasList(j) => (LastStrand(j))' = LastStrand(j)
    BY <1>3, OpeningPlaces DEF Joins
  <2>3. /\ begun' = begun \cup {<<i, 0>>} /\ \A f \in Strands : f # <<i, 0>> => before'[f] = before[f]
        /\ <<i, 0>> \notin begun
    <3>1. 0 \in 0 .. MaxStage /\ TRUE \in BOOLEAN
      BY SlotNumbers
    <3>2. Begins(i, 0, TRUE)
      BY <1>3, Zenon DEF Opening
    <3>3. <<i, 0>> \notin begun
      BY <1>3, <3>1, NewStrand
    <3> QED
      BY <3>2, <3>3 DEF Begins
  <2>4. <<i, 0>>[1] = i /\ <<i, 0>>[2] = 0
    OBVIOUS
  <2>5. \A k \in Iters : stage[k] <= stage'[k]
    BY <1>0, <2>1
  <2>6. /\ \A f \in begun : before'[f] = before[f]
        /\ begun \subseteq begun'
        /\ \A x \in begun' : x \in begun \/ (x[1] = i /\ x[2] \in Int /\ x[2] >= stage[i])
    <3>1. \A g : g[1] = i /\ g[2] = 0 /\ g \notin begun /\ begun' = begun \cup {g}
                 /\ (\A f \in Strands : f # g => before'[f] = before[f])
               => /\ \A f \in begun : before'[f] = before[f]
                  /\ begun \subseteq begun'
                  /\ \A x \in begun' : x \in begun \/ (x[1] = i /\ x[2] \in Int /\ x[2] >= stage[i])
      BY <2>1 DEF Shapes
    <3> QED
      BY <2>3, <2>4, <3>1
  <2>7. ASSUME NEW j \in Iters, j # i PROVE (ScansOf(j))'
    BY <1>1, <2>1, <2>2, <2>5, <2>6, <2>7
  <2>8. (ScansOf(i))'
    BY <1>0, <1>3, ScansOpening
  <2> QED
    BY <2>7, <2>8 DEF Scans
<1>4. CASE Creates(i)
  <2>1. /\ UNCHANGED <<stage, begun, before, elems>> /\ \A j \in Iters \ {i} : pc'[j] = pc[j] /\ scan'[j] = scan[j]
    BY <1>4 DEF Creates, Elsewhere
  <2>2. \A j \in Iters \ {i} : HasList(j) => (LastStrand(j))' = LastStrand(j)
    BY <1>4, CreatePlaces DEF Joins
  <2>3. \A k \in Iters : stage[k] <= stage'[k]
    BY <1>0, <2>1
  <2>4. ASSUME NEW j \in Iters, j # i PROVE (ScansOf(j))'
    BY <1>1, <2>1, <2>2, <2>3, <2>4
  <2>5. (ScansOf(i))'
    BY <1>0, <1>4, ScansCreates
  <2> QED
    BY <2>4, <2>5 DEF Scans
<1>5. CASE Appends(i)
  <2>1. /\ UNCHANGED <<stage, begun, before, scan>> /\ \A j \in Iters \ {i} : pc'[j] = pc[j] /\ elems'[j] = elems[j]
        /\ elems'[i] = elems[i] \/ elems'[i] = Append(elems[i], stage[i])
    BY <1>5 DEF Appends, Elsewhere
  <2>2. Stays
    BY <1>5, AppendPlaces
  <2>3. \A k \in Iters : stage[k] <= stage'[k]
    BY <1>0, <2>1
  <2>4. ASSUME NEW j \in Iters, j # i PROVE (ScansOf(j))'
    BY <1>1, <2>1, <2>2, <2>3, <2>4 DEF Stays
  <2>5. (ScansOf(i))'
    BY <1>0, <1>5, <2>2, ScansQuiet
  <2> QED
    BY <2>4, <2>5 DEF Scans
<1> QED
  BY <1>2, <1>3, <1>4, <1>5

----------------------------------------------------------------------------
(* The orders                                                              *)

\* Nodes are told apart by their names.
LEMMA NodeNames ==
  /\ \A f, x \in Strands : /\ DownOf(f) = DownOf(x) => f = x
                           /\ RightOf(f) = RightOf(x) => f = x
                           /\ DownOf(f) # RightOf(x)
                           /\ DownOf(f) # Base /\ RightOf(f) # Base
  /\ \A S : Base \in NodesOf(S) /\ \A f \in S : DownOf(f) \in NodesOf(S) /\ RightOf(f) \in NodesOf(S)
<1>1. ASSUME NEW f \in Strands, NEW x \in Strands
      PROVE  /\ DownOf(f) = DownOf(x) => f = x
             /\ RightOf(f) = RightOf(x) => f = x
             /\ DownOf(f) # RightOf(x)
             /\ DownOf(f) # Base /\ RightOf(f) # Base
  <2>1. /\ DownOf(f) = <<f[1], f[2], "down">> /\ RightOf(f) = <<f[1], f[2], "right">> /\ f = <<f[1], f[2]>>
        /\ DownOf(x) = <<x[1], x[2], "down">> /\ RightOf(x) = <<x[1], x[2], "right">> /\ x = <<x[1], x[2]>>
    BY StrandIs
  <2> QED
    BY <2>1 DEF Base
<1>2. \A S : Base \in NodesOf(S) /\ \A f \in S : DownOf(f) \in NodesOf(S) /\ RightOf(f) \in NodesOf(S)
  BY DEF NodesOf
<1> QED
  BY <1>1, <1>2

\* A new strand's nodes are new.
LEMMA NewNodes ==
  ASSUME NEW S, S \subseteq Strands, NEW g \in Strands, g \notin S
  PROVE  /\ DownOf(g) \notin NodesOf(S) /\ RightOf(g) \notin NodesOf(S) /\ DownOf(g) # RightOf(g)
         /\ NodesOf(S \cup {g}) = NodesOf(S) \cup {DownOf(g), RightOf(g)}
<1>1. \A f \in S : DownOf(f) # DownOf(g) /\ RightOf(f) # RightOf(g) /\ DownOf(f) # RightOf(g) /\ RightOf(f) # DownOf(g)
  BY NodeNames
<1>2. DownOf(g) # Base /\ RightOf(g) # Base /\ DownOf(g) # RightOf(g)
  BY NodeNames
<1>3. NodesOf(S \cup {g}) = NodesOf(S) \cup {DownOf(g), RightOf(g)}
  BY DEF NodesOf
<1> QED
  BY <1>1, <1>2, <1>3 DEF NodesOf

\* The place a node is moved to when two go in behind place k.
Shift(p, k) == IF p <= k THEN p ELSE p + 2

\* What the insertion of a strand's nodes does to the places.
LEMMA JoinPlaces ==
  ASSUME IInv, Shapes, Begun, Frames, Nodes, NEW i \in Iters, NEW g, NEW d, NEW r, Joins(i, g, d, r),
         d \in NodesOf(Created), r \in NodesOf(Created)
  PROVE  /\ Arranges(english', NodesOf(Created')) /\ Arranges(hebrew', NodesOf(Created'))
         /\ \A n \in NodesOf(Created) : /\ Pos(english', n) = Shift(Pos(english, n), Pos(english, d))
                                        /\ Pos(hebrew', n) = Shift(Pos(hebrew, n), Pos(hebrew, r))
                                        /\ Pos(english, n) \in Int /\ Pos(hebrew, n) \in Int
         /\ Pos(english', DownOf(g)) = Pos(english, d) + 1 /\ Pos(english', RightOf(g)) = Pos(english, d) + 2
         /\ Pos(hebrew', RightOf(g)) = Pos(hebrew, r) + 1 /\ Pos(hebrew', DownOf(g)) = Pos(hebrew, r) + 2
         /\ \A m, n \in NodesOf(Created) : Pos(hebrew, m) = Pos(hebrew, n) => m = n
<1> DEFINE S == NodesOf(Created)
<1>1. g \in Strands /\ g \notin Created /\ Created' = Created \cup {g} /\ Created \subseteq Strands
  BY StrandsOf DEF Joins
<1>2. /\ DownOf(g) \notin S /\ RightOf(g) \notin S /\ DownOf(g) # RightOf(g)
      /\ NodesOf(Created') = S \cup {DownOf(g), RightOf(g)}
      /\ NodesOf(Created') = S \cup {RightOf(g), DownOf(g)}
  <2>1. \A x, y : S \cup {x, y} = S \cup {y, x}
    OBVIOUS
  <2> QED
    BY <1>1, <2>1, NewNodes
<1>3. /\ english' = InsertTwo(english, d, DownOf(g), RightOf(g))
      /\ hebrew' = InsertTwo(hebrew, r, RightOf(g), DownOf(g))
  BY DEF Joins, Inserts
<1>4. Arranges(english, S) /\ Arranges(hebrew, S)
  BY DEF Nodes
<1> HIDE DEF S
<1>5. /\ Arranges(english', S \cup {DownOf(g), RightOf(g)})
      /\ \A n \in S : Pos(english', n) = Shift(Pos(english, n), Pos(english, d))
      /\ Pos(english', DownOf(g)) = Pos(english, d) + 1 /\ Pos(english', RightOf(g)) = Pos(english, d) + 2
  BY <1>2, <1>3, <1>4, TwoInserted DEF S, Shift
<1>6. /\ Arranges(hebrew', S \cup {RightOf(g), DownOf(g)})
      /\ \A n \in S : Pos(hebrew', n) = Shift(Pos(hebrew, n), Pos(hebrew, r))
      /\ Pos(hebrew', RightOf(g)) = Pos(hebrew, r) + 1 /\ Pos(hebrew', DownOf(g)) = Pos(hebrew, r) + 2
  BY <1>2, <1>3, <1>4, TwoInserted DEF S, Shift
<1>7. \A n \in S : /\ Pos(english, n) \in 1 .. Len(english) /\ Len(english) \in Nat
                   /\ Pos(hebrew, n) \in 1 .. Len(hebrew) /\ Len(hebrew) \in Nat /\ hebrew[Pos(hebrew, n)] = n
  BY <1>4, PosIs
<1>8. \A m, n \in S : Pos(hebrew, m) = Pos(hebrew, n) => m = n
  BY <1>7
<1>9. \A n \in S : Pos(english, n) \in Int /\ Pos(hebrew, n) \in Int
  BY <1>7
<1>10. Arranges(english', NodesOf(Created')) /\ Arranges(hebrew', NodesOf(Created'))
  BY <1>2, <1>5, <1>6
<1> QED
  BY <1>5, <1>6, <1>8, <1>9, <1>10 DEF S

\* The nodes a strand's own nodes go behind.
RightIs(f, n) ==
  \/ f[1] = 1 /\ f[2] = 0 /\ n = Base
  \/ \E x \in Created : x[1] = f[1] /\ x[2] < f[2] /\ n = DownOf(x)
  \/ \E x \in before[f] : x[1] = f[1] - 1 /\ n = RightOf(x)

\* The nodes that strands start from and add are in the orders.
LEMMA KnownNodes ==
  ASSUME IInv, Shapes, Begun, Dag, Frames, Nodes
  PROVE  /\ \A f \in Created : \A x \in before[f] : x[1] = f[1] - 1 => x \in Created
         /\ \A f \in Created : /\ node[f].down \in NodesOf(Created) /\ node[f].right \in NodesOf(Created)
                               /\ DownOf(f) \in NodesOf(Created) /\ RightOf(f) \in NodesOf(Created)
                               /\ f \in Strands /\ f \in begun
         /\ Base \in NodesOf(Created)
         /\ \A n \in NodesOf(Created) : Pos(english, n) \in Int /\ Pos(hebrew, n) \in Int
         /\ \A m, n \in NodesOf(Created) : Pos(hebrew, m) = Pos(hebrew, n) => m = n
<1>1. Created \subseteq begun /\ begun \subseteq Strands
  BY StrandsOf
<1>2. ASSUME NEW f \in Created, NEW x \in before[f], x[1] = f[1] - 1 PROVE x \in Created
  <2>1. f \in begun /\ x \in begun /\ f[1] \in Int
    BY <1>1, StrandsOf DEF Begun
  <2>2. x[2] < stage[x[1]]
    BY <1>2, <2>1 DEF Dag
  <2> QED
    BY <2>1, <2>2 DEF Created
<1>3. \A f \in Created : DownOf(f) \in NodesOf(Created) /\ RightOf(f) \in NodesOf(Created)
  BY NodeNames
<1>4. \A f \in Created : node[f].down \in NodesOf(Created) /\ node[f].right \in NodesOf(Created)
  <2>1. \A f \in Created : node[f].down \in NodesOf(Created)
    BY DEF Nodes
  <2>2. \A f \in Created : RightIs(f, node[f].right)
    BY DEF Nodes, RightIs
  <2> QED
    BY <1>2, <1>3, <2>1, <2>2, NodeNames DEF RightIs
<1>5. /\ \A n \in NodesOf(Created) : Pos(english, n) \in Int /\ Pos(hebrew, n) \in Int
      /\ \A m, n \in NodesOf(Created) : Pos(hebrew, m) = Pos(hebrew, n) => m = n
  <2>1. \A n \in NodesOf(Created) :
              /\ Pos(english, n) \in 1 .. Len(english) /\ Len(english) \in Nat
              /\ Pos(hebrew, n) \in 1 .. Len(hebrew) /\ Len(hebrew) \in Nat /\ hebrew[Pos(hebrew, n)] = n
    BY PosIs DEF Nodes
  <2> QED
    BY <2>1
<1> QED
  BY <1>1, <1>2, <1>3, <1>4, <1>5, NodeNames

\* Where a strand is put.
Where(i, g, r) ==
  \/ \* behind the down node of the last one of the iteration
     /\ HasList(i) /\ r = DownOf(LastStrand(i)) /\ before'[g] = Cone(LastStrand(i))
  \/ \* behind the right node of its left neighbour
     \E l \in Created :
       /\ l[1] = i - 1 /\ r = RightOf(l)
       /\ HasList(i) => l \notin before[LastStrand(i)]
       /\ before'[g] = Cone(l) \cup (IF HasList(i) THEN Cone(LastStrand(i)) ELSE {})
       /\ ~HasList(i) => i > 1
  \/ \* at the very start
     /\ i = 1 /\ ~HasList(i) /\ g = <<1, 0>> /\ r = Base /\ before'[g] = {}

\* A stage goes in behind the last strand of its iteration or its left neighbour.
LEMMA CreateWhere ==
  ASSUME IInv, Shapes, Begun, Dag, Frames, Scans, NEW i \in Iters, Creates(i)
  PROVE  Where(i, Current(i), IF LeftIndex(i) = 0 THEN DownOf(LastStrand(i)) ELSE RightOf(Frame(i, LeftIndex(i))))
<1>1. HasList(i) /\ before' = before /\ pc[i] = "order"
  BY CreatePlaces DEF Creates
<1>2. /\ LeftIndex(i) = 0 => before[Current(i)] = Cone(LastStrand(i))
      /\ LeftIndex(i) # 0 =>
           /\ i > 1 /\ LeftIndex(i) \in Indices(i)
           /\ Frame(i, LeftIndex(i)) \notin before[LastStrand(i)]
           /\ before[Current(i)] = Cone(LastStrand(i)) \cup Cone(Frame(i, LeftIndex(i)))
  BY <1>1 DEF Scans, ScansOf
<1>3. CASE LeftIndex(i) = 0
  BY <1>1, <1>2, <1>3 DEF Where
<1>4. CASE LeftIndex(i) # 0
  <2>1. Frame(i, LeftIndex(i)) \in Created /\ Frame(i, LeftIndex(i))[1] = i - 1
    BY <1>1, <1>2, <1>4, FramesIn
  <2> QED
    BY <1>1, <1>2, <1>4, <2>1 DEF Where
<1> QED
  BY <1>3, <1>4

\* Stage 0 goes in behind that of the iteration before.
LEMMA OpeningWhere ==
  ASSUME IInv, Shapes, Begun, Dag, Frames, NEW i \in Iters, Opening(i)
  PROVE  /\ Where(i, <<i, 0>>, IF i = 1 THEN Base ELSE Right(i - 1, 0))
         /\ i > 1 => <<i - 1, 0>> \in Created /\ HasList(i - 1)
         /\ \A j \in Iters : j > i => ~HasList(j)
<1> DEFINE g == <<i, 0>>
           l == <<i - 1, 0>>
<1>1. ~HasList(i) /\ pc[i] = "test" /\ i \in Int /\ i >= 1
  <2>1. ~HasList(i)
    BY OpeningPlaces
  <2>2. pc[i] = "test"
    BY DEF Opening
  <2> QED
    BY <2>1, <2>2, SlotNumbers DEF Iters
<1>2. \A f : f \in before'[g] <=> \E x \in begun : (x[1] = i \/ (x[1] = i - 1 /\ x[2] <= 0)) /\ f \in Cone(x)
  BY DEF Opening, Begins
<1>3. \A x \in begun : /\ x[1] # i /\ x[1] \in Int /\ x[2] \in Int /\ x = <<x[1], x[2]>> /\ x[2] >= 0 /\ x[1] >= 1
  <2>1. \A x \in begun : x[1] # i
    BY <1>1 DEF Begun
  <2> QED
    BY <2>1, StrandIs, SlotNumbers DEF Shapes, Iters
<1>4. ASSUME NEW j \in Iters, j > i PROVE ~HasList(j)
  <2>1. i < j
    BY <1>4, SlotNumbers DEF Iters
  <2> QED
    BY <1>1, <2>1 DEF IInv, Inv, Lists
<1>5. CASE i = 1
  <2>1. before'[g] = {}
    BY <1>2, <1>3, <1>5
  <2>2. Where(i, g, Base)
    BY <1>1, <1>5, <2>1 DEF Where
  <2> QED
    BY <1>1, <1>4, <1>5, <2>2
<1>6. CASE i > 1
  <2>1. i - 1 \in Iters /\ i - 1 < i
    BY <1>6, Before1
  <2>2. HasList(i - 1)
    BY <1>1, <2>1 DEF IInv, Inv, Lists
  <2>3. l \in Created /\ l \in begun
    <3>1. 1 \in 1 .. Len(elems[i - 1]) /\ elems[i - 1][1] = 0
      BY <2>1, <2>2, LastIs DEF Frames, FramesOf
    <3> QED
      BY <2>1, <3>1 DEF Frames, FramesOf, Created
  <2>4. l[1] = i - 1 /\ l[2] <= 0
    OBVIOUS
  <2>5. \A x \in begun : x[1] = i - 1 /\ x[2] <= 0 => x = l
    <3>1. ASSUME NEW x \in begun, x[1] = i - 1, x[2] <= 0 PROVE x = l
      <4>1. x[2] = 0 /\ x = <<x[1], x[2]>>
        BY <1>3, <3>1
      <4> QED
        BY <3>1, <4>1
    <3> QED
      BY <3>1
  <2> HIDE DEF l
  <2>6. before'[g] = Cone(l)
    <3>1. \A f : f \in before'[g] <=> f \in Cone(l)
      BY <1>2, <1>3, <2>3, <2>4, <2>5
    <3> QED
      BY <3>1
  <2>7. Right(i - 1, 0) = RightOf(l)
    BY DEF RightOf, l
  <2>8. i # 1
    BY <1>6
  <2>9. Where(i, g, Right(i - 1, 0))
    BY <1>1, <1>6, <2>3, <2>4, <2>6, <2>7 DEF Where
  <2> QED
    BY <1>4, <2>2, <2>3, <2>8, <2>9 DEF l
<1> QED
  BY <1>1, <1>5, <1>6

\* Nodes is kept where the orders stay.
LEMMA NodesStay == ASSUME Stays, Nodes PROVE Nodes'
  BY DEF Stays, Nodes

\* English is kept where the orders stay.
LEMMA EnglishStays ==
  ASSUME IInv, Shapes, Begun, Frames, Stays, English
  PROVE  English'
<1>1. /\ \A f \in Created : (AtE(f))' = AtE(f)
      /\ \A f : (EDown(f))' = EDown(f)
  BY DEF Stays, AtE, EDown
<1>2. \A j \in Iters : HasList(j) => (EDown(LastStrand(j)))' = EDown(LastStrand(j))
  <2>1. ASSUME NEW j \in Iters, HasList(j) PROVE (EDown(LastStrand(j)))' = EDown(LastStrand(j))
    BY <2>1 DEF Stays, EDown
  <2> QED
    BY <2>1
<1>3. Created' = Created /\ english' = english /\ \A j \in Iters : (HasList(j))' <=> HasList(j)
  BY DEF Stays
<1>4. /\ \A f, g \in Created' : f[1] < g[1] \/ (f[1] = g[1] /\ f[2] < g[2]) => (AtE(f))' < (AtE(g))'
  BY <1>1, <1>3 DEF English
<1>5. \A i \in Iters : (HasList(i))' =>
        \A f \in Created' : IF f[1] <= i THEN (AtE(f))' < (EDown(LastStrand(i)))'
                                         ELSE (EDown(LastStrand(i)))' < (AtE(f))'
  BY <1>1, <1>2, <1>3 DEF English
<1>6. \A i \in Iters : (HasList(i))' /\ (\A j \in Iters : (HasList(j))' => j <= i) =>
        /\ \A f \in Created' : (AtE(f))' < Pos(english', Right(i, 0))
        /\ \A j \in Iters : (HasList(j))' => (EDown(LastStrand(j)))' < Pos(english', Right(i, 0))
  BY <1>1, <1>2, <1>3 DEF English
<1> QED
  BY <1>4, <1>5, <1>6 DEF English

\* Hebrew is kept where the orders stay.
LEMMA HebrewStays ==
  ASSUME IInv, Shapes, Begun, Frames, Stays, Hebrew
  PROVE  Hebrew'
<1>1. /\ \A f \in Created : (AtH(f))' = AtH(f)
      /\ \A f : (HDown(f))' = HDown(f) /\ (HRight(f))' = HRight(f)
  BY DEF Stays, AtH, HDown, HRight
<1>2. \A j \in Iters : HasList(j) => (HDown(LastStrand(j)))' = HDown(LastStrand(j))
  <2>1. ASSUME NEW j \in Iters, HasList(j) PROVE (HDown(LastStrand(j)))' = HDown(LastStrand(j))
    BY <2>1 DEF Stays, HDown
  <2> QED
    BY <2>1
<1>3. /\ Created' = Created /\ hebrew' = hebrew /\ \A j \in Iters : (HasList(j))' <=> HasList(j)
      /\ \A f \in Created : before'[f] = before[f]
  BY DEF Stays
<1>4. \A f, g \in Created' : f # g /\ f[1] <= g[1] => (f \in before'[g] <=> (AtH(f))' < (AtH(g))')
  BY <1>1, <1>3 DEF Hebrew
<1>5. \A f \in Created' : (HRight(f))' = (AtH(f))' + 1 /\ (HDown(f))' > (HRight(f))'
  BY <1>1, <1>3 DEF Hebrew
<1>6. \A f, x \in Created' :
        /\ (AtH(f))' < (HDown(x))' /\ (HDown(x))' < (HDown(f))' => x[1] > f[1]
        /\ (AtH(f))' < (HRight(x))' /\ (HRight(x))' < (HDown(f))' => x = f \/ x[1] > f[1]
  BY <1>1, <1>3 DEF Hebrew
<1>7. \A i, j \in Iters : i < j /\ (HasList(i))' /\ (HasList(j))' => (HDown(LastStrand(j)))' < (HDown(LastStrand(i)))'
  BY <1>2, <1>3 DEF Hebrew
<1>8. \A i \in Iters, f \in Created' : (HasList(i))' /\ f[1] > i => (AtH(f))' < (HDown(LastStrand(i)))'
  BY <1>1, <1>2, <1>3 DEF Hebrew
<1>9. \A f \in Created' : Pos(hebrew', Base) <= (AtH(f))'
  BY <1>1, <1>3 DEF Hebrew
<1> QED
  BY <1>4, <1>5, <1>6, <1>7, <1>8, <1>9 DEF Hebrew

----------------------------------------------------------------------------
\* Before the first iteration has its list there are no strands.
LEMMA NoneYet ==
  ASSUME IInv, Shapes, Begun, Frames, NEW i \in Iters, i = 1, ~HasList(i)
  PROVE  Created = {} /\ \A j \in Iters : ~HasList(j)
<1>1. \A j \in Iters : j \in Int /\ j >= 1
  BY SlotNumbers DEF Iters
<1>2. ASSUME NEW f \in Created PROVE FALSE
  <2>1. f \in begun /\ f[1] \in Iters /\ HasList(f[1])
    BY StrandsOf
  <2>2. pc[f[1]] # "unborn"
    BY <2>1 DEF Begun
  <2>3. f[1] # i
    BY <2>1
  <2>4. i < f[1]
    <3>1. f[1] \in Int /\ f[1] >= 1
      BY <1>1, <2>1
    <3> QED
      BY <2>3, <3>1
  <2> QED
    BY <2>1, <2>2, <2>4 DEF IInv, Inv, Lists
<1>3. ASSUME NEW j \in Iters, HasList(j) PROVE FALSE
  <2>1. LastStrand(j) \in Created
    BY <1>3, LastIs
  <2> QED
    BY <1>2, <2>1
<1> QED
  BY <1>2, <1>3

\* Nobody else went in behind that node.
LEMMA FreshRight ==
  ASSUME IInv, Shapes, Begun, Dag, Frames, Nodes, NEW i \in Iters, NEW g, NEW r, Where(i, g, r)
  PROVE  r \in NodesOf(Created) /\ \A f \in Created : node[f].right # r
<1>1. /\ begun \subseteq Strands /\ Created \subseteq begun
      /\ \A f \in begun : f[1] \in Iters /\ f[1] \in Int /\ f[2] \in Int
      /\ \A f \in Created : HasList(f[1])
  BY StrandsOf
<1>2. /\ \A f \in Created : \A x \in before[f] : x[1] = f[1] - 1 => x \in Created
      /\ \A f \in Created : DownOf(f) \in NodesOf(Created) /\ RightOf(f) \in NodesOf(Created)
      /\ Base \in NodesOf(Created)
  BY KnownNodes
<1>3. \A f \in Created : RightIs(f, node[f].right)
  BY DEF Nodes, RightIs
<1>4. CASE HasList(i) /\ r = DownOf(LastStrand(i))
  <2> DEFINE p == LastStrand(i)
  <2>1. p \in Created /\ p[1] = i /\ p[2] \in Int /\ \A f \in Created : f[1] = i => f[2] <= p[2]
    BY <1>4, LastIs
  <2>2. r = DownOf(p)
    BY <1>4
  <2> HIDE DEF p
  <2>3. ASSUME NEW f \in Created, node[f].right = r PROVE FALSE
    <3>1. RightIs(f, DownOf(p))
      BY <1>3, <2>2, <2>3
    <3>2. \A x \in Created : DownOf(x) = DownOf(p) => x = p
      BY <1>1, <2>1, NodeNames
    <3>3. DownOf(p) # Base /\ \A x \in Created : DownOf(p) # RightOf(x)
      BY <1>1, <2>1, NodeNames
    <3>4. \A x \in before[f] : x[1] = f[1] - 1 => DownOf(p) # RightOf(x)
      BY <1>2, <3>3
    <3>5. p[1] = f[1] /\ p[2] < f[2]
      BY <3>1, <3>2, <3>3, <3>4 DEF RightIs
    <3> QED
      BY <1>1, <2>1, <3>5
  <2> QED
    BY <1>2, <2>1, <2>2, <2>3
<1>5. ASSUME NEW l \in Created, l[1] = i - 1, r = RightOf(l), HasList(i) => l \notin before[LastStrand(i)]
      PROVE  r \in NodesOf(Created) /\ \A f \in Created : node[f].right # r
  <2>1. ASSUME NEW f \in Created, node[f].right = r PROVE FALSE
    <3>1. RightIs(f, RightOf(l))
      BY <1>3, <1>5, <2>1
    <3>2. \A x \in Created : RightOf(x) = RightOf(l) => x = l
      BY <1>1, <1>5, NodeNames
    <3>3. RightOf(l) # Base /\ \A x \in Created : RightOf(l) # DownOf(x)
      BY <1>1, <1>5, NodeNames
    <3>4. l[1] = f[1] - 1 /\ l \in before[f]
      BY <1>2, <3>1, <3>2, <3>3 DEF RightIs
    <3>5. f[1] = i /\ f \in begun /\ HasList(i)
      BY <1>1, <1>5, <3>4, SlotNumbers DEF Iters
    <3> DEFINE p == LastStrand(i)
    <3>6. p \in Created /\ p[1] = i /\ p[2] \in Int /\ f[2] <= p[2] /\ p \in Strands /\ f \in Strands
      BY <1>1, <3>5, LastIs
    <3>7. l \notin before[p]
      BY <1>5, <3>5
    <3> HIDE DEF p
    <3>8. f = p \/ f[2] < p[2]
      <4>1. f = <<f[1], f[2]>> /\ p = <<p[1], p[2]>>
        BY <3>6, StrandIs
      <4>2. CASE f[2] = p[2]
        BY <3>5, <3>6, <4>1, <4>2
      <4> QED
        BY <1>1, <3>5, <3>6, <4>2
    <3>9. f = p \/ before[f] \subseteq before[p]
      BY <1>1, <3>5, <3>6, <3>8 DEF Dag
    <3> QED
      BY <3>4, <3>7, <3>9
  <2> QED
    BY <1>2, <1>5, <2>1
<1>6. CASE i = 1 /\ ~HasList(i) /\ r = Base
  BY <1>2, <1>6, NoneYet
<1> QED
  BY <1>4, <1>5, <1>6 DEF Where

\* Nodes is kept when a strand joins.
LEMMA NodesJoin ==
  ASSUME IInv, Shapes, Begun, Dag, Frames, Nodes, NEW i \in Iters, NEW g, NEW d, NEW r,
         Joins(i, g, d, r), Where(i, g, r), d \in NodesOf(Created)
  PROVE  Nodes'
<1>1. r \in NodesOf(Created) /\ \A f \in Created : node[f].right # r
  BY FreshRight
<1>2. Arranges(english', NodesOf(Created')) /\ Arranges(hebrew', NodesOf(Created'))
  BY <1>1, JoinPlaces
<1>3. /\ g \in Strands /\ g \notin Created /\ g[1] = i /\ Created' = Created \cup {g}
      /\ node'[g] = [down |-> d, right |-> r] /\ \A f \in Created : node'[f] = node[f] /\ before'[f] = before[f]
      /\ \A f \in Created : f[1] = i => f[2] < g[2]
  <2>1. \A f \in Created : f \in Strands
    BY StrandsOf
  <2> QED
    BY <2>1 DEF Joins, Inserts
<1>4. NodesOf(Created) \subseteq NodesOf(Created')
  BY <1>3 DEF NodesOf
<1>5. \A f \in Created' : node'[f].down \in NodesOf(Created')
  <2>1. \A f \in Created : node'[f].down \in NodesOf(Created)
    BY <1>3 DEF Nodes
  <2>2. node'[g].down \in NodesOf(Created)
    BY <1>3
  <2> QED
    BY <1>3, <1>4, <2>1, <2>2
<1>6. \A f \in Created' :
        \/ f[1] = 1 /\ f[2] = 0 /\ node'[f].right = Base
        \/ \E x \in Created' : x[1] = f[1] /\ x[2] < f[2] /\ node'[f].right = DownOf(x)
        \/ \E x \in before'[f] : x[1] = f[1] - 1 /\ node'[f].right = RightOf(x)
  <2>1. ASSUME NEW f \in Created
        PROVE  \/ f[1] = 1 /\ f[2] = 0 /\ node'[f].right = Base
               \/ \E x \in Created' : x[1] = f[1] /\ x[2] < f[2] /\ node'[f].right = DownOf(x)
               \/ \E x \in before'[f] : x[1] = f[1] - 1 /\ node'[f].right = RightOf(x)
    BY <1>3 DEF Nodes
  <2>2. node'[g].right = r
    BY <1>3
  <2>3. CASE HasList(i) /\ r = DownOf(LastStrand(i))
    <3>1. LastStrand(i) \in Created /\ LastStrand(i)[1] = i
      BY <2>3, LastIs
    <3> QED
      BY <1>3, <2>1, <2>2, <2>3, <3>1
  <2>4. ASSUME NEW l \in Created, l[1] = i - 1, r = RightOf(l),
               before'[g] = Cone(l) \cup (IF HasList(i) THEN Cone(LastStrand(i)) ELSE {})
        PROVE  \E x \in before'[g] : x[1] = g[1] - 1 /\ node'[g].right = RightOf(x)
    BY <1>3, <2>2, <2>4 DEF Cone
  <2>5. CASE g = <<1, 0>> /\ r = Base
    BY <1>3, <2>1, <2>2, <2>5
  <2> QED
    BY <1>3, <2>1, <2>3, <2>4, <2>5 DEF Where
<1>7. \A f, h \in Created' : node'[f].right = node'[h].right => f = h
  BY <1>1, <1>3 DEF Nodes
<1> QED
  BY <1>2, <1>5, <1>6, <1>7 DEF Nodes

\* A strand's places once its nodes are in.
LEMMA JoinAt ==
  ASSUME IInv, Shapes, Begun, Dag, Frames, Nodes, NEW i \in Iters, NEW g, NEW d, NEW r,
         Joins(i, g, d, r), Where(i, g, r), d \in NodesOf(Created),
         NEW k, k = Pos(english, d), NEW m, m = Pos(hebrew, r)
  PROVE  /\ k \in Int /\ m \in Int /\ r \in NodesOf(Created) /\ Base \in NodesOf(Created)
         /\ \A f \in Created : /\ (AtE(f))' = Shift(AtE(f), k) /\ AtE(f) \in Int
                               /\ (EDown(f))' = Shift(EDown(f), k) /\ EDown(f) \in Int
                               /\ (AtH(f))' = Shift(AtH(f), m) /\ AtH(f) \in Int /\ AtH(f) # m
                               /\ (HRight(f))' = Shift(HRight(f), m) /\ HRight(f) \in Int
                               /\ (HDown(f))' = Shift(HDown(f), m) /\ HDown(f) \in Int
         /\ \A n \in NodesOf(Created) : /\ Pos(english', n) = Shift(Pos(english, n), k) /\ Pos(english, n) \in Int
                                        /\ Pos(hebrew', n) = Shift(Pos(hebrew, n), m) /\ Pos(hebrew, n) \in Int
         /\ (AtE(g))' = k /\ (EDown(g))' = k + 1 /\ Pos(english', RightOf(g)) = k + 2
         /\ (AtH(g))' = m /\ (HRight(g))' = m + 1 /\ (HDown(g))' = m + 2
<1>1. r \in NodesOf(Created) /\ \A f \in Created : node[f].right # r
  BY FreshRight
<1>2. /\ \A n \in NodesOf(Created) : /\ Pos(english', n) = Shift(Pos(english, n), Pos(english, d))
                                     /\ Pos(hebrew', n) = Shift(Pos(hebrew, n), Pos(hebrew, r))
                                     /\ Pos(english, n) \in Int /\ Pos(hebrew, n) \in Int
      /\ Pos(english', DownOf(g)) = Pos(english, d) + 1 /\ Pos(english', RightOf(g)) = Pos(english, d) + 2
      /\ Pos(hebrew', RightOf(g)) = Pos(hebrew, r) + 1 /\ Pos(hebrew', DownOf(g)) = Pos(hebrew, r) + 2
      /\ \A x, n \in NodesOf(Created) : Pos(hebrew, x) = Pos(hebrew, n) => x = n
  BY <1>1, JoinPlaces
<1>3. /\ \A f \in Created : /\ node[f].down \in NodesOf(Created) /\ node[f].right \in NodesOf(Created)
                            /\ DownOf(f) \in NodesOf(Created) /\ RightOf(f) \in NodesOf(Created)
                            /\ f \in Strands
      /\ Base \in NodesOf(Created)
  BY KnownNodes
<1>4. /\ node'[g] = [down |-> d, right |-> r] /\ \A f \in Created : node'[f] = node[f]
  BY <1>3 DEF Joins, Inserts
<1>5. /\ node'[g].down = d /\ node'[g].right = r
  BY <1>4
<1>6. \A f \in Created : /\ (AtE(f))' = Pos(english', node[f].down) /\ AtE(f) = Pos(english, node[f].down)
                         /\ (AtH(f))' = Pos(hebrew', node[f].right) /\ AtH(f) = Pos(hebrew, node[f].right)
  BY <1>4 DEF AtE, AtH
<1>7. \A f : /\ (EDown(f))' = Pos(english', DownOf(f)) /\ EDown(f) = Pos(english, DownOf(f))
             /\ (HDown(f))' = Pos(hebrew', DownOf(f)) /\ HDown(f) = Pos(hebrew, DownOf(f))
             /\ (HRight(f))' = Pos(hebrew', RightOf(f)) /\ HRight(f) = Pos(hebrew, RightOf(f))
  BY DEF EDown, HDown, HRight
<1>8. (AtE(g))' = Pos(english', d) /\ (AtH(g))' = Pos(hebrew', r)
  BY <1>5 DEF AtE, AtH
<1>9. k \in Int /\ m \in Int /\ Pos(english', d) = k /\ Pos(hebrew', r) = m
  BY <1>1, <1>2 DEF Shift
<1>10. ASSUME NEW f \in Created
       PROVE  /\ (AtE(f))' = Shift(AtE(f), k) /\ AtE(f) \in Int
              /\ (EDown(f))' = Shift(EDown(f), k) /\ EDown(f) \in Int
              /\ (AtH(f))' = Shift(AtH(f), m) /\ AtH(f) \in Int /\ AtH(f) # m
              /\ (HRight(f))' = Shift(HRight(f), m) /\ HRight(f) \in Int
              /\ (HDown(f))' = Shift(HDown(f), m) /\ HDown(f) \in Int
  BY <1>1, <1>2, <1>3, <1>6, <1>7
<1>11. /\ (AtE(g))' = k /\ (EDown(g))' = k + 1 /\ Pos(english', RightOf(g)) = k + 2
       /\ (AtH(g))' = m /\ (HRight(g))' = m + 1 /\ (HDown(g))' = m + 2
  BY <1>2, <1>7, <1>8, <1>9
<1> QED
  BY <1>1, <1>2, <1>3, <1>9, <1>10, <1>11

\* The places keep their order.
LEMMA ShiftOrder ==
  ASSUME NEW k \in Int
  PROVE  /\ \A p, q \in Int : p < q <=> Shift(p, k) < Shift(q, k)
         /\ \A p \in Int : /\ Shift(p, k) \in Int
                           /\ p <= k => Shift(p, k) = p
                           /\ p > k => Shift(p, k) = p + 2
  BY DEF Shift

\* A strand comes into the english order after all strands of the iterations up
\* to its own and before those of the later ones.
FitsEnglish(i, k) ==
  /\ \A f \in Created : IF f[1] <= i THEN AtE(f) < k ELSE k < AtE(f)
  /\ \A j \in Iters \ {i} : HasList(j) => IF j < i THEN EDown(LastStrand(j)) < k ELSE k < EDown(LastStrand(j))
  /\ \/ /\ HasList(i)
        /\ \A n \in Iters : HasList(n) /\ (\A j \in Iters : HasList(j) => j <= n) => k < Pos(english, Right(n, 0))
     \/ ~HasList(i) /\ \A j \in Iters : j > i => ~HasList(j)

\* English is kept when a strand joins at a place that fits.
LEMMA EnglishJoins ==
  ASSUME IInv, Shapes, Begun, Dag, Frames, Nodes, English, NEW i \in Iters, NEW g, NEW d, NEW r,
         Joins(i, g, d, r), Where(i, g, r), d \in NodesOf(Created), FitsEnglish(i, Pos(english, d)),
         HasList(i) \/ g = <<i, 0>>
  PROVE  English'
<1> DEFINE k == Pos(english, d)
<1>1. /\ k \in Int
      /\ \A f \in Created : /\ (AtE(f))' = Shift(AtE(f), k) /\ AtE(f) \in Int
                            /\ (EDown(f))' = Shift(EDown(f), k) /\ EDown(f) \in Int
      /\ \A n \in NodesOf(Created) : Pos(english', n) = Shift(Pos(english, n), k) /\ Pos(english, n) \in Int
      /\ (AtE(g))' = k /\ (EDown(g))' = k + 1 /\ Pos(english', RightOf(g)) = k + 2
  BY JoinAt
<1>2. FitsEnglish(i, k)
  OBVIOUS
<1> HIDE DEF k
<1>3. /\ \A p, q \in Int : p < q <=> Shift(p, k) < Shift(q, k)
      /\ \A p \in Int : /\ Shift(p, k) \in Int
                        /\ p <= k => Shift(p, k) = p
                        /\ p > k => Shift(p, k) = p + 2
  BY <1>1, ShiftOrder
<1>4. /\ g[1] = i /\ Created' = Created \cup {g} /\ \A f \in Created : f[1] = i => f[2] < g[2]
      /\ \A j \in Iters \ {i} : (HasList(j))' <=> HasList(j)
      /\ \A j \in Iters \ {i} : HasList(j) => (LastStrand(j))' = LastStrand(j)
      /\ (HasList(i))' /\ (LastStrand(i))' = g
      /\ g \in Strands
  BY DEF Joins
<1>5. /\ \A j \in Iters : j \in Int
      /\ \A f \in Created : f[1] \in Int /\ f[2] \in Int /\ f[1] \in Iters /\ HasList(f[1])
      /\ g[2] \in Int
  BY <1>4, StrandsOf, StrandIs, SlotNumbers DEF Iters
<1>6. /\ (EDown(LastStrand(i)))' = k + 1
      /\ \A j \in Iters \ {i} : HasList(j) => /\ (EDown(LastStrand(j)))' = Shift(EDown(LastStrand(j)), k)
                                              /\ EDown(LastStrand(j)) \in Int /\ LastStrand(j) \in Created
  <2>1. (EDown(LastStrand(i)))' = k + 1
    <3>1. (EDown(LastStrand(i)))' = (EDown(g))'
      BY <1>4 DEF EDown
    <3> QED
      BY <1>1, <3>1
  <2>2. ASSUME NEW j \in Iters \ {i}, HasList(j)
        PROVE  /\ (EDown(LastStrand(j)))' = Shift(EDown(LastStrand(j)), k)
               /\ EDown(LastStrand(j)) \in Int /\ LastStrand(j) \in Created
    <3>1. LastStrand(j) \in Created
      BY <2>2, LastIs
    <3>2. \A f : f = LastStrand(j) => (EDown(LastStrand(j)))' = (EDown(f))'
      BY <1>4, <2>2 DEF EDown
    <3> QED
      BY <1>1, <3>1, <3>2
  <2> QED
    BY <2>1, <2>2
<1>7. ASSUME NEW f \in Created', NEW h \in Created', f[1] < h[1] \/ (f[1] = h[1] /\ f[2] < h[2])
      PROVE  (AtE(f))' < (AtE(h))'
  <2>1. CASE f \in Created /\ h \in Created
    BY <1>1, <1>3, <1>7, <2>1 DEF English
  <2>2. CASE f \in Created /\ h = g
    <3>1. f[1] <= i
      BY <1>4, <1>5, <1>7, <2>2
    <3>2. AtE(f) < k
      BY <1>2, <2>2, <3>1 DEF FitsEnglish
    <3> QED
      BY <1>1, <1>3, <2>2, <3>2
  <2>3. CASE f = g /\ h \in Created
    <3>1. ~(h[1] <= i)
      BY <1>4, <1>5, <1>7, <2>3
    <3>2. k < AtE(h)
      BY <1>2, <2>3, <3>1 DEF FitsEnglish
    <3> QED
      BY <1>1, <1>3, <2>3, <3>2
  <2>4. CASE f = g /\ h = g
    BY <1>4, <1>5, <1>7, <2>4
  <2> QED
    BY <1>4, <2>1, <2>2, <2>3, <2>4
<1>8. ASSUME NEW j \in Iters, (HasList(j))', NEW f \in Created'
      PROVE  IF f[1] <= j THEN (AtE(f))' < (EDown(LastStrand(j)))' ELSE (EDown(LastStrand(j)))' < (AtE(f))'
  <2>1. CASE j = i /\ f = g
    BY <1>1, <1>4, <1>5, <1>6, <2>1
  <2>2. CASE j = i /\ f \in Created
    <3>1. IF f[1] <= i THEN AtE(f) < k ELSE k < AtE(f)
      BY <1>2, <2>2 DEF FitsEnglish
    <3>2. (AtE(f))' = Shift(AtE(f), k) /\ AtE(f) \in Int
      BY <1>1, <2>2
    <3>3. IF f[1] <= i THEN (AtE(f))' < k + 1 ELSE k + 1 < (AtE(f))'
      BY <1>1, <1>3, <3>1, <3>2
    <3> QED
      BY <1>6, <2>2, <3>3
  <2>3. CASE j # i /\ f = g
    <3>1. j \in Iters \ {i} /\ HasList(j)
      BY <1>4, <1>8, <2>3
    <3> DEFINE e == EDown(LastStrand(j))
    <3>2. e \in Int /\ (EDown(LastStrand(j)))' = Shift(e, k) /\ IF j < i THEN e < k ELSE k < e
      BY <1>2, <1>6, <3>1 DEF FitsEnglish
    <3> HIDE DEF e
    <3>3. IF j < i THEN Shift(e, k) < k ELSE k < Shift(e, k)
      BY <1>1, <1>3, <3>2
    <3>4. f[1] <= j <=> ~(j < i)
      BY <1>4, <1>5, <2>3
    <3> QED
      BY <1>1, <2>3, <3>2, <3>3, <3>4
  <2>4. CASE j # i /\ f \in Created
    <3>1. j \in Iters \ {i} /\ HasList(j)
      BY <1>4, <1>8, <2>4
    <3> DEFINE e == EDown(LastStrand(j))
    <3>2. e \in Int /\ (EDown(LastStrand(j)))' = Shift(e, k)
      BY <1>6, <3>1
    <3>3. IF f[1] <= j THEN AtE(f) < e ELSE e < AtE(f)
      BY <2>4, <3>1 DEF English
    <3> HIDE DEF e
    <3>4. (AtE(f))' = Shift(AtE(f), k) /\ AtE(f) \in Int
      BY <1>1, <2>4
    <3> QED
      BY <1>3, <3>2, <3>3, <3>4
  <2> QED
    BY <1>4, <2>1, <2>2, <2>3, <2>4
<1>9. ASSUME NEW n \in Iters, (HasList(n))', \A j \in Iters : (HasList(j))' => j <= n
      PROVE  LET t == Pos(english', Right(n, 0)) IN
             /\ \A f \in Created' : (AtE(f))' < t
             /\ \A j \in Iters : (HasList(j))' => (EDown(LastStrand(j)))' < t
  <2> DEFINE t == Pos(english', Right(n, 0))
             q == Pos(english, Right(n, 0))
  <2>1. CASE HasList(i)
    <3>1. HasList(n) /\ \A j \in Iters : HasList(j) => j <= n
      BY <1>4, <1>9, <2>1
    <3>2. <<n, 0>> \in Created
      <4>1. 1 \in 1 .. Len(elems[n]) /\ elems[n][1] = 0
        BY <3>1, LastIs DEF Frames, FramesOf
      <4> QED
        BY <4>1 DEF Frames, FramesOf
    <3>3. Right(n, 0) \in NodesOf(Created)
      <4>1. Right(n, 0) = RightOf(<<n, 0>>)
        BY DEF RightOf
      <4> QED
        BY <3>2, <4>1, NodeNames
    <3>4. q \in Int /\ t = Shift(q, k)
      BY <1>1, <3>3
    <3>5. /\ k < q /\ \A f \in Created : AtE(f) < q
          /\ \A j \in Iters : HasList(j) => EDown(LastStrand(j)) < q
      BY <1>2, <2>1, <3>1 DEF FitsEnglish, English
    <3> HIDE DEF t, q
    <3>6. t = q + 2
      BY <1>3, <3>4, <3>5
    <3>7. \A f \in Created' : (AtE(f))' < t
      BY <1>1, <1>3, <1>4, <3>4, <3>5, <3>6
    <3>8. ASSUME NEW j \in Iters, (HasList(j))' PROVE (EDown(LastStrand(j)))' < t
      <4>1. CASE j = i
        BY <1>1, <1>6, <3>4, <3>5, <3>6, <4>1
      <4>2. CASE j # i
        <5>1. HasList(j) /\ EDown(LastStrand(j)) < q
          BY <1>4, <3>5, <3>8, <4>2
        <5> QED
          BY <1>3, <1>6, <3>4, <4>2, <5>1
      <4> QED
        BY <4>1, <4>2
    <3> QED
      BY <3>7, <3>8 DEF t
  <2>2. CASE ~HasList(i)
    <3>1. \A j \in Iters : j > i => ~HasList(j)
      BY <1>2, <2>2 DEF FitsEnglish
    <3>2. n = i
      BY <1>4, <1>5, <1>9, <3>1
    <3>3. t = k + 2
      <4>1. Right(n, 0) = RightOf(g)
        BY <2>2, <3>2 DEF RightOf
      <4> QED
        BY <1>1, <4>1
    <3> HIDE DEF t
    <3>4. \A f \in Created : f[1] <= i
      BY <1>5, <3>1
    <3>5. \A f \in Created : AtE(f) < k
      BY <1>2, <3>4 DEF FitsEnglish
    <3>6. \A f \in Created' : (AtE(f))' < t
      BY <1>1, <1>3, <1>4, <3>3, <3>5
    <3>7. ASSUME NEW j \in Iters, (HasList(j))' PROVE (EDown(LastStrand(j)))' < t
      <4>1. CASE j = i
        BY <1>1, <1>6, <3>3, <4>1
      <4>2. CASE j # i
        <5>1. HasList(j) /\ j < i
          BY <1>4, <1>5, <3>1, <3>7, <4>2
        <5>2. EDown(LastStrand(j)) < k
          BY <1>2, <4>2, <5>1 DEF FitsEnglish
        <5> QED
          BY <1>1, <1>3, <1>6, <3>3, <4>2, <5>1, <5>2
      <4> QED
        BY <4>1, <4>2
    <3> QED
      BY <3>6, <3>7 DEF t
  <2> QED
    BY <2>1, <2>2
<1> QED
  BY <1>7, <1>8, <1>9 DEF English

\* Directly before the last down node of the iteration is such a place.
LEMMA FitsEnglishCreate ==
  ASSUME IInv, Shapes, Begun, Dag, Frames, Nodes, English, NEW i \in Iters, HasList(i)
  PROVE  FitsEnglish(i, EDown(LastStrand(i)))
<1> DEFINE k == EDown(LastStrand(i))
<1>1. \A f \in Created : IF f[1] <= i THEN AtE(f) < k ELSE k < AtE(f)
  BY DEF English
<1>2. \A f \in Created : AtE(f) \in Int /\ EDown(f) \in Int
  BY KnownNodes DEF AtE, EDown
<1>3. LastStrand(i) \in Created /\ LastStrand(i)[1] = i
  BY LastIs
<1>4. k \in Int
  BY <1>2, <1>3
<1> HIDE DEF k
<1>5. ASSUME NEW j \in Iters \ {i}, HasList(j)
      PROVE  IF j < i THEN EDown(LastStrand(j)) < k ELSE k < EDown(LastStrand(j))
  <2> DEFINE p == LastStrand(i)
             q == LastStrand(j)
  <2>1. q \in Created /\ q[1] = j
    BY <1>5, LastIs
  <2>2. AtE(p) < k /\ p \in Created /\ p[1] = i
    BY <1>1, <1>3, SlotNumbers DEF Iters
  <2>3. AtE(q) < EDown(q) /\ (j < i => EDown(q) < AtE(p))
    <3>1. \A f \in Created : IF f[1] <= j THEN AtE(f) < EDown(q) ELSE EDown(q) < AtE(f)
      BY <1>5 DEF English
    <3> QED
      BY <2>1, <2>2, <3>1, SlotNumbers DEF Iters
  <2>4. AtE(p) \in Int /\ AtE(q) \in Int /\ EDown(q) \in Int /\ i \in Int /\ j \in Int /\ i # j
    BY <1>2, <2>1, <2>2, SlotNumbers DEF Iters
  <2>5. j > i => k < AtE(q)
    BY <1>1, <2>1, <2>4
  <2> HIDE DEF p, q
  <2>6. IF j < i THEN EDown(q) < k ELSE k < EDown(q)
    BY <1>4, <2>2, <2>3, <2>4, <2>5
  <2> QED
    BY <2>6 DEF q
<1>6. ASSUME NEW n \in Iters, HasList(n), \A j \in Iters : HasList(j) => j <= n
      PROVE  k < Pos(english, Right(n, 0))
  <2>1. \A j \in Iters : HasList(j) => EDown(LastStrand(j)) < Pos(english, Right(n, 0))
    BY <1>6 DEF English
  <2> QED
    BY <2>1 DEF k
<1> QED
  BY <1>1, <1>5, <1>6 DEF FitsEnglish, k

\* So is the right node of the iteration before, for stage 0.
LEMMA FitsEnglishOpening ==
  ASSUME IInv, Shapes, Begun, Dag, Frames, Nodes, English, NEW i \in Iters, Opening(i)
  PROVE  FitsEnglish(i, Pos(english, IF i = 1 THEN Base ELSE Right(i - 1, 0)))
<1>1. ~HasList(i) /\ \A f \in Created : f[1] # i
  BY OpeningPlaces
<1>2. (i > 1 => HasList(i - 1)) /\ \A j \in Iters : j > i => ~HasList(j)
  BY OpeningWhere
<1>3. CASE i = 1
  BY <1>1, <1>2, <1>3, NoneYet DEF FitsEnglish
<1>4. CASE i # 1
  <2> DEFINE k == Pos(english, Right(i - 1, 0))
  <2>0. \A j \in Iters : j \in Int /\ j >= 1
    BY SlotNumbers DEF Iters
  <2>1. i > 1
    BY <1>4, <2>0
  <2>2. i - 1 \in Iters /\ HasList(i - 1) /\ i \in Int
    BY <1>2, <2>1, Before1
  <2>3. \A j \in Iters : HasList(j) => j <= i - 1
    BY <1>1, <1>2, <2>0
  <2>4. (\A f \in Created : AtE(f) < k) /\ (\A j \in Iters : HasList(j) => EDown(LastStrand(j)) < k)
    BY <2>2, <2>3 DEF English
  <2>5. \A f \in Created : f[1] <= i
    <3>1. \A f \in Created : f[1] \in Iters /\ HasList(f[1])
      BY StrandsOf
    <3> QED
      BY <2>0, <2>3, <3>1
  <2> HIDE DEF k
  <2>6. \A j \in Iters \ {i} : HasList(j) => j < i
    BY <2>0, <2>3
  <2>7. FitsEnglish(i, k)
    BY <1>1, <1>2, <2>4, <2>5, <2>6 DEF FitsEnglish
  <2> QED
    BY <1>4, <2>7 DEF k
<1> QED
  BY <1>3, <1>4

----------------------------------------------------------------------------
\* A strand's place in the hebrew order is behind all it waits for, before
\* those of the later iterations, and inside the strands of earlier ones only.
FitsHebrew(i, g, m) ==
  /\ \A f \in Created : f[1] <= i => (f \in before'[g] <=> AtH(f) < m)
  /\ \A f \in Created : f[1] > i => AtH(f) < m
  /\ \A f \in Created : AtH(f) < m /\ m < HDown(f) => f[1] < i
  /\ \A j \in Iters \ {i} : HasList(j) => IF j < i THEN m < HDown(LastStrand(j)) ELSE HDown(LastStrand(j)) <= m
  /\ Pos(hebrew, Base) <= m

\* Hebrew is kept when a strand joins at a place that fits.
LEMMA HebrewJoins ==
  ASSUME IInv, Shapes, Begun, Dag, Dag', Frames, Nodes, Hebrew, NEW i \in Iters, NEW g, NEW d, NEW r,
         Joins(i, g, d, r), Where(i, g, r), d \in NodesOf(Created), FitsHebrew(i, g, Pos(hebrew, r)),
         \A f \in Created : g \notin before'[f]
  PROVE  Hebrew'
<1> DEFINE m == Pos(hebrew, r)
<1>1. /\ m \in Int /\ Base \in NodesOf(Created)
      /\ \A f \in Created : /\ (AtH(f))' = Shift(AtH(f), m) /\ AtH(f) \in Int /\ AtH(f) # m
                            /\ (HRight(f))' = Shift(HRight(f), m) /\ HRight(f) \in Int
                            /\ (HDown(f))' = Shift(HDown(f), m) /\ HDown(f) \in Int
      /\ (AtH(g))' = m /\ (HRight(g))' = m + 1 /\ (HDown(g))' = m + 2
      /\ \A n \in NodesOf(Created) : Pos(hebrew', n) = Shift(Pos(hebrew, n), m) /\ Pos(hebrew, n) \in Int
  BY JoinAt
<1>2. FitsHebrew(i, g, m)
  OBVIOUS
<1> HIDE DEF m
<1>3. /\ \A p, q \in Int : p < q <=> Shift(p, m) < Shift(q, m)
      /\ \A p \in Int : /\ Shift(p, m) \in Int
                        /\ p <= m => Shift(p, m) = p
                        /\ p > m => Shift(p, m) = p + 2
  BY <1>1, ShiftOrder
<1>4. /\ g[1] = i /\ g \notin Created /\ Created' = Created \cup {g} /\ \A f \in Created : f[1] = i => f[2] < g[2]
      /\ \A j \in Iters \ {i} : (HasList(j))' <=> HasList(j)
      /\ \A j \in Iters \ {i} : HasList(j) => (LastStrand(j))' = LastStrand(j)
      /\ (HasList(i))' /\ (LastStrand(i))' = g
      /\ g \in Strands /\ g \in begun' /\ begun \subseteq begun' /\ \A f \in Created : before'[f] = before[f]
  BY DEF Joins
<1>5. /\ \A j \in Iters : j \in Int
      /\ \A f \in Created : f[1] \in Int /\ f[2] \in Int /\ f[1] \in Iters /\ HasList(f[1]) /\ f \in begun'
  BY <1>4, StrandsOf, SlotNumbers DEF Iters
<1>6. /\ (HDown(LastStrand(i)))' = m + 2
      /\ \A j \in Iters \ {i} : HasList(j) => /\ (HDown(LastStrand(j)))' = Shift(HDown(LastStrand(j)), m)
                                              /\ HDown(LastStrand(j)) \in Int /\ LastStrand(j) \in Created
  <2>1. (HDown(LastStrand(i)))' = m + 2
    <3>1. (HDown(LastStrand(i)))' = (HDown(g))'
      BY <1>4 DEF HDown
    <3> QED
      BY <1>1, <3>1
  <2>2. ASSUME NEW j \in Iters \ {i}, HasList(j)
        PROVE  /\ (HDown(LastStrand(j)))' = Shift(HDown(LastStrand(j)), m)
               /\ HDown(LastStrand(j)) \in Int /\ LastStrand(j) \in Created
    <3>1. LastStrand(j) \in Created
      BY <2>2, LastIs
    <3>2. \A f : f = LastStrand(j) => (HDown(LastStrand(j)))' = (HDown(f))'
      BY <1>4, <2>2 DEF HDown
    <3> QED
      BY <1>1, <3>1, <3>2
  <2> QED
    BY <2>1, <2>2
<1>7. ASSUME NEW f \in Created', NEW h \in Created', f # h, f[1] <= h[1]
      PROVE  f \in before'[h] <=> (AtH(f))' < (AtH(h))'
  <2>1. CASE f \in Created /\ h \in Created
    <3>1. f \in before[h] <=> AtH(f) < AtH(h)
      BY <1>7, <2>1 DEF Hebrew
    <3> QED
      BY <1>1, <1>3, <1>4, <2>1, <3>1
  <2>2. CASE f \in Created /\ h = g
    <3>1. f \in before'[g] <=> AtH(f) < m
      BY <1>2, <1>4, <1>7, <2>2 DEF FitsHebrew
    <3> QED
      BY <1>1, <1>3, <2>2, <3>1
  <2>3. CASE f = g /\ h \in Created
    <3>1. g \notin before'[h]
      BY <2>3
    <3>2. AtH(h) < m
      <4>1. CASE h[1] > i
        BY <1>2, <2>3, <4>1 DEF FitsHebrew
      <4>2. CASE h[1] = i
        <5>1. h \in before'[g]
          BY <1>4, <1>5, <2>3, <4>2 DEF Dag
        <5> QED
          BY <1>2, <1>5, <2>3, <4>2, <5>1 DEF FitsHebrew
      <4> QED
        BY <1>4, <1>5, <1>7, <2>3, <4>1, <4>2
    <3> QED
      BY <1>1, <1>3, <2>3, <3>1, <3>2
  <2> QED
    BY <1>4, <1>7, <2>1, <2>2, <2>3
<1>8. ASSUME NEW f \in Created' PROVE (HRight(f))' = (AtH(f))' + 1 /\ (HDown(f))' > (HRight(f))'
  <2>1. CASE f \in Created
    <3>1. HRight(f) = AtH(f) + 1 /\ HDown(f) > HRight(f)
      BY <2>1 DEF Hebrew
    <3>2. CASE AtH(f) < m
      BY <1>1, <1>3, <2>1, <3>1, <3>2
    <3>3. CASE AtH(f) > m
      BY <1>1, <1>3, <2>1, <3>1, <3>3
    <3> QED
      BY <1>1, <2>1, <3>2, <3>3
  <2>2. CASE f = g
    BY <1>1, <2>2
  <2> QED
    BY <1>4, <2>1, <2>2
<1>9. ASSUME NEW f \in Created', NEW x \in Created'
      PROVE  /\ (AtH(f))' < (HDown(x))' /\ (HDown(x))' < (HDown(f))' => x[1] > f[1]
             /\ (AtH(f))' < (HRight(x))' /\ (HRight(x))' < (HDown(f))' => x = f \/ x[1] > f[1]
  <2>1. CASE f \in Created /\ x \in Created
    <3>1. /\ AtH(f) < HDown(x) /\ HDown(x) < HDown(f) => x[1] > f[1]
          /\ AtH(f) < HRight(x) /\ HRight(x) < HDown(f) => x = f \/ x[1] > f[1]
      BY <2>1 DEF Hebrew
    <3> QED
      BY <1>1, <1>3, <2>1, <3>1
  <2>2. CASE f \in Created /\ x = g
    <3>1. AtH(f) < m /\ m < HDown(f) => f[1] < i
      BY <1>2, <2>2 DEF FitsHebrew
    <3>2. /\ (AtH(f))' < m + 2 => AtH(f) < m
          /\ m + 1 < (HDown(f))' => m < HDown(f)
      BY <1>1, <1>3, <2>2
    <3> QED
      BY <1>1, <1>3, <1>4, <1>5, <2>2, <3>1, <3>2
  <2>3. CASE f = g /\ x \in Created
    <3>1. /\ ~(m < (HDown(x))' /\ (HDown(x))' < m + 2)
          /\ ~(m < (HRight(x))' /\ (HRight(x))' < m + 2)
      BY <1>1, <1>3, <2>3
    <3> QED
      BY <1>1, <2>3, <3>1
  <2>4. CASE f = g /\ x = g
    BY <1>1, <2>4
  <2> QED
    BY <1>4, <2>1, <2>2, <2>3, <2>4
<1>10. ASSUME NEW a \in Iters, NEW b \in Iters, a < b, (HasList(a))', (HasList(b))'
       PROVE  (HDown(LastStrand(b)))' < (HDown(LastStrand(a)))'
  <2>1. CASE a # i /\ b # i
    <3>1. HasList(a) /\ HasList(b)
      BY <1>4, <1>10, <2>1
    <3>2. HDown(LastStrand(b)) < HDown(LastStrand(a))
      BY <1>10, <3>1 DEF Hebrew
    <3> QED
      BY <1>3, <1>6, <2>1, <3>1, <3>2
  <2>2. CASE a = i
    <3>1. b # i /\ HasList(b) /\ ~(b < i)
      BY <1>4, <1>5, <1>10, <2>2
    <3>2. HDown(LastStrand(b)) <= m
      BY <1>2, <3>1 DEF FitsHebrew
    <3> QED
      BY <1>1, <1>3, <1>6, <2>2, <3>1, <3>2
  <2>3. CASE b = i
    <3>1. a # i /\ HasList(a) /\ a < i
      BY <1>4, <1>5, <1>10, <2>3
    <3>2. m < HDown(LastStrand(a))
      BY <1>2, <3>1 DEF FitsHebrew
    <3> QED
      BY <1>1, <1>3, <1>6, <2>3, <3>1, <3>2
  <2> QED
    BY <2>1, <2>2, <2>3
<1>11. ASSUME NEW j \in Iters, NEW f \in Created', (HasList(j))', f[1] > j
       PROVE  (AtH(f))' < (HDown(LastStrand(j)))'
  <2>1. CASE j = i
    <3>1. f \in Created
      BY <1>4, <1>5, <1>11, <2>1
    <3>2. AtH(f) < m
      BY <1>2, <1>11, <2>1, <3>1 DEF FitsHebrew
    <3> QED
      BY <1>1, <1>3, <1>6, <2>1, <3>1, <3>2
  <2>2. CASE j # i /\ f \in Created
    <3>1. HasList(j)
      BY <1>4, <1>11, <2>2
    <3>2. AtH(f) < HDown(LastStrand(j))
      BY <1>11, <2>2, <3>1 DEF Hebrew
    <3> QED
      BY <1>1, <1>3, <1>6, <2>2, <3>1, <3>2
  <2>3. CASE j # i /\ f = g
    <3>1. HasList(j) /\ j < i
      BY <1>4, <1>5, <1>11, <2>3
    <3>2. m < HDown(LastStrand(j))
      BY <1>2, <2>3, <3>1 DEF FitsHebrew
    <3> QED
      BY <1>1, <1>3, <1>6, <2>3, <3>1, <3>2
  <2> QED
    BY <1>4, <2>1, <2>2, <2>3
<1>12. ASSUME NEW f \in Created' PROVE Pos(hebrew', Base) <= (AtH(f))'
  <2> DEFINE o == Pos(hebrew, Base)
  <2>1. Pos(hebrew', Base) = Shift(o, m) /\ o \in Int
    BY <1>1
  <2>2. o <= m /\ \A x \in Created : o <= AtH(x)
    BY <1>2 DEF FitsHebrew, Hebrew
  <2>3. Pos(hebrew', Base) = o
    BY <1>1, <1>3, <2>1, <2>2
  <2> HIDE DEF o
  <2>4. CASE f = g
    BY <1>1, <2>2, <2>3, <2>4
  <2>5. CASE f \in Created
    BY <1>1, <1>3, <2>1, <2>2, <2>3, <2>5
  <2> QED
    BY <1>4, <2>4, <2>5
<1> QED
  BY <1>7, <1>8, <1>9, <1>10, <1>11, <1>12 DEF Hebrew

\* The places in the hebrew order are numbers, one for each strand.
LEMMA HebrewPlaces ==
  ASSUME IInv, Shapes, Begun, Dag, Frames, Nodes, Hebrew
  PROVE  /\ \A f \in Created : /\ AtH(f) \in Int /\ HDown(f) \in Int /\ HRight(f) \in Int
                               /\ HRight(f) = AtH(f) + 1 /\ HDown(f) > HRight(f)
                               /\ f[1] \in Int /\ f[2] \in Int /\ f[1] \in Iters /\ HasList(f[1]) /\ f \in begun /\ f \in Strands
         /\ \A f, x \in Created : AtH(f) = AtH(x) => f = x
<1>1. /\ \A f \in Created : /\ node[f].right \in NodesOf(Created)
                            /\ DownOf(f) \in NodesOf(Created) /\ RightOf(f) \in NodesOf(Created)
                            /\ f \in Strands /\ f \in begun
      /\ \A n \in NodesOf(Created) : Pos(hebrew, n) \in Int
      /\ \A m, n \in NodesOf(Created) : Pos(hebrew, m) = Pos(hebrew, n) => m = n
  BY KnownNodes
<1>2. \A f \in Created : AtH(f) \in Int /\ HDown(f) \in Int /\ HRight(f) \in Int
  BY <1>1 DEF AtH, HDown, HRight
<1>3. \A f, x \in Created : node[f].right = node[x].right => f = x
  BY DEF Nodes
<1>4. \A f, x \in Created : AtH(f) = AtH(x) => f = x
  BY <1>1, <1>3 DEF AtH
<1>5. \A f \in Created : HRight(f) = AtH(f) + 1 /\ HDown(f) > HRight(f)
  BY DEF Hebrew
<1>6. \A f \in Created : f[1] \in Int /\ f[2] \in Int /\ f[1] \in Iters /\ HasList(f[1])
  BY StrandsOf
<1> QED
  BY <1>1, <1>2, <1>4, <1>5, <1>6

\* What a strand waits for lies before its down node, nothing else of the
\* iterations up to its own does.
LEMMA Nesting ==
  ASSUME IInv, Shapes, Begun, Dag, Frames, Nodes, Hebrew, NEW p \in Created, NEW f \in Created, f[1] <= p[1]
  PROVE  f \in Cone(p) <=> AtH(f) < HDown(p)
<1>1. /\ \A x \in Created : /\ AtH(x) \in Int /\ HDown(x) \in Int /\ HRight(x) \in Int
                            /\ HRight(x) = AtH(x) + 1 /\ HDown(x) > HRight(x)
                            /\ x[1] \in Int
      /\ \A x, y \in Created : AtH(x) = AtH(y) => x = y
  BY HebrewPlaces
<1>2. f # p => (f \in before[p] <=> AtH(f) < AtH(p))
  BY DEF Hebrew
<1>3. ASSUME AtH(p) < AtH(f), AtH(f) < HDown(p) PROVE FALSE
  <2>1. RightIs(f, node[f].right)
    BY DEF Nodes, RightIs
  <2>2. CASE node[f].right = Base
    <3>1. AtH(f) = Pos(hebrew, Base)
      BY <2>2 DEF AtH
    <3> QED
      BY <1>1, <1>3, <3>1 DEF Hebrew
  <2>3. ASSUME NEW x \in Created, x[1] = f[1], node[f].right = DownOf(x) PROVE FALSE
    <3>1. AtH(f) = HDown(x)
      BY <2>3 DEF AtH, HDown
    <3>2. x[1] > p[1]
      BY <1>3, <3>1 DEF Hebrew
    <3> QED
      BY <1>1, <2>3, <3>2
  <2>4. ASSUME NEW x \in before[f], x[1] = f[1] - 1, node[f].right = RightOf(x) PROVE FALSE
    <3>1. AtH(f) = HRight(x)
      BY <2>4 DEF AtH, HRight
    <3>2. x \in Created
      BY <2>4, KnownNodes
    <3>3. x = p \/ x[1] > p[1]
      BY <1>3, <3>1, <3>2 DEF Hebrew
    <3> QED
      BY <1>1, <2>4, <3>2, <3>3
  <2> QED
    BY <2>1, <2>2, <2>3, <2>4 DEF RightIs
<1>4. AtH(p) < HDown(p)
  BY <1>1
<1>5. CASE f = p
  BY <1>4, <1>5 DEF Cone
<1>6. CASE f # p
  <2>1. AtH(f) < AtH(p) \/ AtH(p) < AtH(f)
    BY <1>1, <1>6
  <2>2. f \in Cone(p) <=> AtH(f) < AtH(p)
    BY <1>2, <1>6 DEF Cone
  <2> QED
    BY <1>1, <1>3, <1>4, <2>1, <2>2
<1> QED
  BY <1>5, <1>6

\* The last strand waits for all others of its iteration.
LEMMA LastCone ==
  ASSUME IInv, Shapes, Begun, Dag, Frames, Nodes, Hebrew, NEW i \in Iters, HasList(i), NEW f \in Created, f[1] = i
  PROVE  f \in Cone(LastStrand(i)) /\ AtH(f) <= AtH(LastStrand(i))
<1> DEFINE p == LastStrand(i)
<1>1. /\ p \in Created /\ p[1] = i /\ p[2] \in Int /\ f[2] <= p[2]
  BY LastIs
<1> HIDE DEF p
<1>2. /\ f \in begun /\ p \in begun /\ f[2] \in Int /\ AtH(f) \in Int /\ AtH(p) \in Int
      /\ p \in Strands /\ f \in Strands /\ f[1] \in Int
  BY <1>1, HebrewPlaces
<1>3. CASE f[2] = p[2]
  <2>1. f = p
    <3>1. f = <<f[1], f[2]>> /\ p = <<p[1], p[2]>>
      BY <1>2, StrandIs
    <3> QED
      BY <1>1, <1>3, <3>1
  <2> QED
    BY <1>2, <2>1 DEF Cone, p
<1>4. CASE f[2] # p[2]
  <2>1. f[2] < p[2] /\ f # p
    BY <1>1, <1>2, <1>4
  <2>2. f \in before[p]
    BY <1>1, <1>2, <2>1 DEF Dag
  <2>3. AtH(f) < AtH(p)
    BY <1>1, <1>2, <2>1, <2>2 DEF Hebrew
  <2> QED
    BY <1>2, <2>2, <2>3 DEF Cone, p
<1> QED
  BY <1>3, <1>4

\* Behind the last strand of the iteration.
LEMMA FitsHebrewDown ==
  ASSUME IInv, Shapes, Begun, Dag, Frames, Nodes, Hebrew, NEW i \in Iters, NEW g,
         HasList(i), before'[g] = Cone(LastStrand(i))
  PROVE  FitsHebrew(i, g, HDown(LastStrand(i)))
<1> DEFINE p == LastStrand(i)
<1>1. p \in Created /\ p[1] = i /\ \A j \in Iters : j \in Int
  BY LastIs, SlotNumbers DEF Iters
<1>2. /\ \A x \in Created : /\ AtH(x) \in Int /\ HDown(x) \in Int /\ HRight(x) \in Int
                            /\ HRight(x) = AtH(x) + 1 /\ HDown(x) > HRight(x) /\ x[1] \in Int
  BY HebrewPlaces
<1>3. \A f \in Created : f[1] > i => AtH(f) < HDown(p)
  BY DEF Hebrew
<1>4. \A j \in Iters \ {i} : HasList(j) => IF j < i THEN HDown(p) < HDown(LastStrand(j))
                                                    ELSE HDown(LastStrand(j)) <= HDown(p)
  <2>1. ASSUME NEW j \in Iters \ {i}, HasList(j)
        PROVE  IF j < i THEN HDown(p) < HDown(LastStrand(j)) ELSE HDown(LastStrand(j)) <= HDown(p)
    <3>1. CASE j < i
      BY <2>1, <3>1 DEF Hebrew
    <3>2. CASE ~(j < i)
      <4>1. i < j
        BY <1>1, <3>2
      <4>2. HDown(LastStrand(j)) < HDown(p)
        BY <2>1, <4>1 DEF Hebrew
      <4>3. LastStrand(j) \in Created
        BY <2>1, LastIs
      <4> QED
        BY <1>1, <1>2, <3>2, <4>2, <4>3
    <3> QED
      BY <3>1, <3>2
  <2> QED
    BY <2>1
<1>5. before'[g] = Cone(p)
  OBVIOUS
<1> HIDE DEF p
<1>6. \A f \in Created : f[1] <= i => (f \in before'[g] <=> AtH(f) < HDown(p))
  BY <1>1, <1>5, Nesting
<1>7. \A f \in Created : AtH(f) < HDown(p) /\ HDown(p) < HDown(f) => f[1] < i
  BY <1>1, <1>2 DEF Hebrew
<1>8. Pos(hebrew, Base) <= HDown(p)
  <2>1. Pos(hebrew, Base) <= AtH(p) /\ Pos(hebrew, Base) \in Int
    BY <1>1, KnownNodes DEF Hebrew
  <2> QED
    BY <1>1, <1>2, <2>1
<1> QED
  BY <1>3, <1>4, <1>6, <1>7, <1>8 DEF FitsHebrew, p

\* Behind its left neighbour.
LEMMA FitsHebrewRight ==
  ASSUME IInv, Shapes, Begun, Dag, Frames, Nodes, Hebrew, NEW i \in Iters, NEW g, NEW l \in Created,
         l[1] = i - 1, HasList(i) => l \notin before[LastStrand(i)],
         before'[g] = Cone(l) \cup (IF HasList(i) THEN Cone(LastStrand(i)) ELSE {}),
         HasList(i) \/ \A j \in Iters : j > i => ~HasList(j)
  PROVE  FitsHebrew(i, g, HRight(l))
<1> DEFINE m == HRight(l)
<1>1. /\ \A x \in Created : /\ AtH(x) \in Int /\ HDown(x) \in Int /\ HRight(x) \in Int
                            /\ HRight(x) = AtH(x) + 1 /\ HDown(x) > HRight(x) /\ x[1] \in Int
                            /\ x[1] \in Iters /\ HasList(x[1])
      /\ \A x, y \in Created : AtH(x) = AtH(y) => x = y
  BY HebrewPlaces
<1>2. \A j \in Iters : j \in Int
  BY SlotNumbers DEF Iters
<1>3. m = AtH(l) + 1 /\ AtH(l) \in Int /\ m < HDown(l) /\ HDown(l) \in Int /\ m \in Int
  BY <1>1
<1>4. ASSUME NEW p, p = LastStrand(i), HasList(i)
      PROVE  /\ p \in Created /\ p[1] = i /\ AtH(p) < AtH(l) /\ HDown(p) <= AtH(l)
             /\ AtH(p) \in Int /\ HDown(p) \in Int /\ l \notin Cone(p)
  <2>1. p \in Created /\ p[1] = i
    BY <1>4, LastIs
  <2>2. l \notin Cone(p)
    BY <1>2, <1>4, <2>1 DEF Cone
  <2>3. ~(AtH(l) < HDown(p))
    BY <1>2, <2>1, <2>2, Nesting
  <2> QED
    BY <1>1, <1>3, <2>1, <2>2, <2>3
<1> HIDE DEF m
<1>5. ASSUME NEW f \in Created, f[1] <= i PROVE f \in before'[g] <=> AtH(f) < m
  <2>0. AtH(f) \in Int /\ f[1] \in Int /\ i \in Int /\ (AtH(f) < m <=> AtH(f) <= AtH(l))
    BY <1>1, <1>2, <1>3
  <2>1. CASE f[1] = i
    <3>1. HasList(i)
      BY <1>1, <2>1
    <3>2. f \in Cone(LastStrand(i)) /\ AtH(f) <= AtH(LastStrand(i))
      BY <2>1, <3>1, LastCone
    <3>3. f \in before'[g]
      BY <3>1, <3>2
    <3>4. AtH(LastStrand(i)) < AtH(l) /\ AtH(LastStrand(i)) \in Int
      BY <1>4, <3>1
    <3> QED
      BY <1>3, <2>0, <3>2, <3>3, <3>4
  <2>2. CASE f[1] # i
    <3>1. f[1] <= l[1]
      BY <1>5, <2>0, <2>2
    <3>2. f \in Cone(l) <=> AtH(f) <= AtH(l)
      <4>1. CASE f = l
        BY <1>3, <4>1 DEF Cone
      <4>2. CASE f # l
        <5>1. f \in before[l] <=> AtH(f) < AtH(l)
          BY <3>1, <4>2 DEF Hebrew
        <5>2. AtH(f) # AtH(l)
          BY <1>1, <4>2
        <5> QED
          BY <1>3, <2>0, <4>2, <5>1, <5>2 DEF Cone
      <4> QED
        BY <4>1, <4>2
    <3>3. ASSUME HasList(i), f \in Cone(LastStrand(i)) PROVE AtH(f) <= AtH(l)
      <4> DEFINE p == LastStrand(i)
      <4>1. p \in Created /\ p[1] = i /\ HDown(p) <= AtH(l) /\ HDown(p) \in Int
        BY <1>4, <3>3
      <4>2. AtH(f) < HDown(p)
        BY <1>5, <3>3, <4>1, Nesting
      <4> QED
        BY <1>3, <2>0, <4>1, <4>2
    <3> QED
      BY <2>0, <3>2, <3>3
  <2> QED
    BY <2>1, <2>2
<1>6. ASSUME NEW f \in Created, f[1] > i PROVE AtH(f) < m
  <2>1. HasList(i)
    BY <1>1, <1>6
  <2> DEFINE p == LastStrand(i)
  <2>2. HDown(p) <= AtH(l) /\ HDown(p) \in Int
    BY <1>4, <2>1
  <2>3. AtH(f) < HDown(p)
    BY <1>6, <2>1 DEF Hebrew
  <2> HIDE DEF p
  <2> QED
    BY <1>1, <1>3, <2>2, <2>3
<1>7. ASSUME NEW f \in Created, AtH(f) < m, m < HDown(f) PROVE f[1] < i
  <2>1. l = f \/ l[1] > f[1]
    BY <1>7 DEF Hebrew, m
  <2> QED
    BY <1>1, <1>2, <2>1
<1>8. ASSUME NEW j \in Iters \ {i}, HasList(j)
      PROVE  IF j < i THEN m < HDown(LastStrand(j)) ELSE HDown(LastStrand(j)) <= m
  <2>0. j \in Int /\ i \in Int /\ LastStrand(j) \in Created /\ HDown(LastStrand(j)) \in Int
    BY <1>1, <1>2, <1>8, LastIs
  <2>1. CASE j > i
    <3>1. HasList(i)
      BY <1>8, <2>1
    <3> DEFINE p == LastStrand(i)
    <3>2. HDown(p) <= AtH(l) /\ HDown(p) \in Int
      BY <1>4, <3>1
    <3>3. HDown(LastStrand(j)) < HDown(p)
      BY <1>8, <2>1, <3>1 DEF Hebrew
    <3> HIDE DEF p
    <3> QED
      BY <1>3, <2>0, <2>1, <3>2, <3>3
  <2>2. CASE j < i
    <3> DEFINE q == LastStrand(i - 1)
    <3>1. i - 1 \in Iters /\ HasList(i - 1)
      BY <1>1
    <3>2. q \in Created /\ AtH(l) <= AtH(q)
      BY <3>1, LastIs, LastCone
    <3>3. j = i - 1 \/ HDown(q) < HDown(LastStrand(j))
      <4>1. j < i - 1 => HDown(q) < HDown(LastStrand(j))
        BY <1>8, <3>1 DEF Hebrew
      <4> QED
        BY <2>0, <2>2, <4>1
    <3>4. j = i - 1 => HDown(LastStrand(j)) = HDown(q)
      OBVIOUS
    <3> HIDE DEF q
    <3>5. m < HDown(q) /\ HDown(q) \in Int
      BY <1>1, <1>3, <3>2
    <3> QED
      BY <1>3, <2>0, <2>2, <3>3, <3>4, <3>5
  <2> QED
    BY <2>0, <2>1, <2>2
<1>9. Pos(hebrew, Base) <= m
  <2>1. Pos(hebrew, Base) <= AtH(l) /\ Pos(hebrew, Base) \in Int
    BY KnownNodes DEF Hebrew
  <2> QED
    BY <1>3, <2>1
<1> QED
  BY <1>5, <1>6, <1>7, <1>8, <1>9 DEF FitsHebrew, m

\* The detector chooses such a place.
LEMMA FitsHebrewWhere ==
  ASSUME IInv, Shapes, Begun, Dag, Frames, Nodes, Hebrew, NEW i \in Iters, NEW g, NEW r, Where(i, g, r),
         HasList(i) \/ \A j \in Iters : j > i => ~HasList(j)
  PROVE  FitsHebrew(i, g, Pos(hebrew, r))
<1>1. CASE HasList(i) /\ r = DownOf(LastStrand(i)) /\ before'[g] = Cone(LastStrand(i))
  BY <1>1, FitsHebrewDown DEF HDown
<1>2. ASSUME NEW l \in Created, l[1] = i - 1, r = RightOf(l), HasList(i) => l \notin before[LastStrand(i)],
             before'[g] = Cone(l) \cup (IF HasList(i) THEN Cone(LastStrand(i)) ELSE {})
      PROVE  FitsHebrew(i, g, Pos(hebrew, r))
  <2>1. FitsHebrew(i, g, HRight(l))
    BY <1>2, FitsHebrewRight
  <2> QED
    BY <1>2, <2>1 DEF HRight
<1>3. CASE i = 1 /\ ~HasList(i) /\ r = Base
  <2>1. Created = {} /\ \A j \in Iters : ~HasList(j)
    BY <1>3, NoneYet
  <2>2. Pos(hebrew, Base) \in Int
    BY KnownNodes
  <2>3. FitsHebrew(i, g, Pos(hebrew, Base))
    BY <2>1, <2>2 DEF FitsHebrew
  <2> QED
    BY <1>3, <2>3
<1> QED
  BY <1>1, <1>2, <1>3 DEF Where

\* The orders are kept right by every step.
LEMMA OrdersStep ==
  ASSUME IInv, IInv', Shapes, Begun, Dag, Dag', Frames, Scans, Nodes, English, Hebrew, NEW i \in Iters,
         \/ Quiet(i) \/ Opening(i) \/ Reads(i) \/ LooksOn(i) \/ Ends(i) \/ Creates(i) \/ Appends(i)
         \/ \E s \in 0 .. MaxStage, wait \in BOOLEAN : Opens(i, s, wait)
  PROVE  Nodes' /\ English' /\ Hebrew'
<1>1. CASE Stays
  BY <1>1, NodesStay, EnglishStays, HebrewStays
<1>2. CASE Appends(i)
  BY <1>1, <1>2, AppendPlaces
<1>3. CASE Quiet(i) \/ Reads(i) \/ LooksOn(i) \/ Ends(i) \/ \E s \in 0 .. MaxStage, wait \in BOOLEAN : Opens(i, s, wait)
  BY <1>1, <1>3, Unplaced
<1>4. ASSUME NEW g, NEW d, NEW r, Joins(i, g, d, r), Where(i, g, r), d \in NodesOf(Created),
             FitsEnglish(i, Pos(english, d)), HasList(i) \/ g = <<i, 0>>, \A f \in Created : g \notin before'[f],
             HasList(i) \/ \A j \in Iters : j > i => ~HasList(j)
      PROVE  Nodes' /\ English' /\ Hebrew'
  <2>1. Nodes'
    BY <1>4, NodesJoin
  <2>2. English'
    BY <1>4, EnglishJoins
  <2>3. FitsHebrew(i, g, Pos(hebrew, r))
    BY <1>4, FitsHebrewWhere
  <2>4. Hebrew'
    BY <1>4, <2>3, HebrewJoins
  <2> QED
    BY <2>1, <2>2, <2>4
<1>5. CASE Creates(i)
  <2> DEFINE g == Current(i)
             d == DownOf(LastStrand(i))
             r == IF LeftIndex(i) = 0 THEN DownOf(LastStrand(i)) ELSE RightOf(Frame(i, LeftIndex(i)))
  <2>1. Joins(i, g, d, r) /\ HasList(i) /\ g \in begun /\ before' = before
    BY <1>5, CreatePlaces
  <2>2. Where(i, g, r)
    BY <1>5, CreateWhere
  <2>3. d \in NodesOf(Created)
    BY <2>1, LastIs, NodeNames
  <2>4. FitsEnglish(i, Pos(english, d))
    <3>1. FitsEnglish(i, EDown(LastStrand(i)))
      BY <2>1, FitsEnglishCreate
    <3> QED
      BY <3>1 DEF EDown
  <2>5. ASSUME NEW f \in Created, g \in before'[f] PROVE FALSE
    <3>1. g \in before[f] /\ g[1] = i /\ (f[1] = i => f[2] < g[2]) /\ f \in begun
      BY <2>1, <2>5, StrandsOf DEF Joins
    <3>2. f[1] \in Int /\ f[2] \in Int /\ stage[i] \in Int /\ g[2] = stage[i] /\ i \in Int
      BY <3>1, StrandsOf, Stages, SlotNumbers DEF Current, IInv, Iters
    <3> HIDE DEF g
    <3>3. i <= f[1] /\ (i = f[1] => g[2] < f[2]) /\ (i < f[1] => g[2] < stage[i])
      BY <2>1, <3>1 DEF Dag
    <3> QED
      BY <3>1, <3>2, <3>3
  <2> HIDE DEF g, d, r
  <2> QED
    BY <1>4, <2>1, <2>2, <2>3, <2>4, <2>5
<1>6. CASE Opening(i)
  <2> DEFINE g == <<i, 0>>
             r == IF i = 1 THEN Base ELSE Right(i - 1, 0)
  <2>1. Joins(i, g, r, r)
    BY <1>6, OpeningPlaces
  <2>2. Where(i, g, r) /\ \A j \in Iters : j > i => ~HasList(j)
    BY <1>6, OpeningWhere
  <2>3. FitsEnglish(i, Pos(english, r))
    BY <1>6, FitsEnglishOpening
  <2>4. \A f \in Created : g \notin before'[f]
    <3>1. 0 \in 0 .. MaxStage /\ TRUE \in BOOLEAN
      BY SlotNumbers
    <3>2. g \notin begun
      BY <1>6, <3>1, NewStrand
    <3>3. \A f \in Created : before'[f] = before[f] /\ f \in Strands
      BY <2>1, StrandsOf DEF Joins
    <3> QED
      BY <3>2, <3>3 DEF Begun
  <2>5. g = <<i, 0>>
    OBVIOUS
  <2> HIDE DEF g, r
  <2>6. r \in NodesOf(Created)
    BY <2>2, FreshRight
  <2> QED
    BY <1>4, <2>1, <2>2, <2>3, <2>4, <2>5, <2>6
<1> QED
  BY <1>2, <1>3, <1>5, <1>6

\* The whole invariant is kept by every step that reads no missing frame.
LEMMA FactsStep ==
  ASSUME IInv, IInv', Shapes, Facts, Next, halfRead' = FALSE
  PROVE  Shapes' /\ Facts'
<1>0. Begun /\ Dag /\ Frames /\ Scans /\ Nodes /\ English /\ Hebrew
  BY DEF Facts
<1>1. Shapes'
  BY <1>0, ShapesStep
<1>2. PICK i \in Iters :
        \/ Quiet(i) \/ Opening(i) \/ Reads(i) \/ LooksOn(i) \/ Ends(i) \/ Creates(i) \/ Appends(i)
        \/ \E s \in 0 .. MaxStage, wait \in BOOLEAN : Opens(i, s, wait)
  BY <1>0, Steps
<1>3. ASSUME Quiet(i) \/ Reads(i) \/ LooksOn(i) \/ Ends(i) \/ Creates(i) \/ Appends(i)
      PROVE  Begun' /\ Dag' /\ Frames'
  <2>1. Quiet(i) \/ Goes(i)
    BY <1>3, GoesOn
  <2>2. Begun' /\ Dag'
    BY <1>0, <2>1, BegunQuiet, DagKept
  <2>3. ASSUME Quiet(i) \/ Reads(i) \/ LooksOn(i) \/ Ends(i) PROVE Frames'
    BY <1>0, <2>3, Unplaced, FramesUnplaced
  <2>4. Frames'
    BY <1>0, <1>3, <2>3, FramesCreate, FramesAppend
  <2> QED
    BY <2>2, <2>4
<1>4. ASSUME NEW s \in 0 .. MaxStage, NEW wait \in BOOLEAN, Opens(i, s, wait) \/ (s = 0 /\ wait /\ Opening(i))
      PROVE  Begun' /\ Dag'
  BY <1>0, <1>1, <1>4, BegunNew, DagNew
<1>5. ASSUME Opening(i) PROVE Begun' /\ Dag' /\ Frames'
  <2>1. 0 \in 0 .. MaxStage /\ TRUE \in BOOLEAN
    BY SlotNumbers
  <2>2. Begun' /\ Dag'
    BY <1>4, <1>5, <2>1, Zenon
  <2>3. Frames'
    BY <1>0, <1>5, FramesOpening
  <2> QED
    BY <2>2, <2>3
<1>6. ASSUME \E s \in 0 .. MaxStage, wait \in BOOLEAN : Opens(i, s, wait) PROVE Begun' /\ Dag' /\ Frames'
  <2>1. Begun' /\ Dag'
    BY <1>4, <1>6, Zenon
  <2>2. Frames'
    BY <1>0, <1>6, Unplaced, FramesUnplaced
  <2> QED
    BY <2>1, <2>2
<1>7. Begun' /\ Dag' /\ Frames'
  BY <1>2, <1>3, <1>5, <1>6
<1>8. Scans'
  BY <1>0, <1>1, <1>2, <1>7, ScansStep
<1>9. Nodes' /\ English' /\ Hebrew'
  BY <1>0, <1>2, <1>7, OrdersStep
<1> QED
  BY <1>1, <1>7, <1>8, <1>9 DEF Facts

\* It holds at the start.
LEMMA FactsStart == Init => Shapes /\ Facts
<1> SUFFICES ASSUME Init PROVE Shapes /\ Facts
  OBVIOUS
<1>1. /\ begun = {} /\ before = [f \in Strands |-> {}] /\ english = <<Base>> /\ hebrew = <<Base>>
      /\ node = [f \in Strands |-> [down |-> Base, right |-> Base]]
      /\ elems = [i \in Iters |-> <<>>] /\ length = [i \in Iters |-> 0]
      /\ scan = [i \in Iters |-> [index |-> 1, iPre |-> 0, ret |-> 0, len |-> 0]]
      /\ halfRead = FALSE /\ pc = [i \in Iters |-> "unborn"]
  BY DEF Init
<1>2. Created = {} /\ \A i \in Iters : ~HasList(i) /\ pc[i] = "unborn" /\ elems[i] = <<>> /\ length[i] = 0
  BY <1>1 DEF Created, HasList
<1>3. Shapes
  <2>1. scan \in [Iters -> [index : Nat, iPre : Nat, ret : Nat, len : Int]] /\ length \in [Iters -> Int]
    BY <1>1
  <2>2. begun \subseteq Strands /\ before \in [Strands -> SUBSET Strands]
    BY <1>1
  <2>3. node = [f \in Strands |-> node[f]]
    BY <1>1
  <2> QED
    BY <1>1, <2>1, <2>2, <2>3 DEF Shapes
<1>4. Begun /\ Dag
  BY <1>1, <1>2 DEF Begun, Dag, Body
<1>5. Frames
  <2>1. Len(<<>>) = 0 /\ 1 .. 0 = {}
    OBVIOUS
  <2> QED
    BY <1>2, <2>1 DEF Frames, FramesOf
<1>6. Scans
  <2>1. \A i \in Iters : scan[i].index = 1 /\ scan[i].iPre = 0 /\ scan[i].ret = 0
    BY <1>1
  <2> QED
    BY <1>2, <2>1 DEF Scans, ScansOf
<1>7. Nodes
  <2>1. NodesOf({}) = {Base}
    BY DEF NodesOf
  <2>2. \A b : Arranges(<<b>>, {b})
    BY DEF Arranges
  <2> QED
    BY <1>1, <1>2, <2>1, <2>2 DEF Nodes
<1>8. English /\ Hebrew
  BY <1>2 DEF English, Hebrew
<1> QED
  BY <1>3, <1>4, <1>5, <1>6, <1>7, <1>8 DEF Facts

\* The detector's orders, until a frame is read that is not stored yet.
OrdersInv == halfRead = TRUE \/ (Shapes /\ Facts)

\* A frame read too early is never forgotten.
LEMMA HalfReadStays == ASSUME Next, halfRead \in BOOLEAN PROVE halfRead' \in BOOLEAN /\ (halfRead = TRUE => halfRead' = TRUE)
<1>1. PICK i \in Iters :
        \/ Start(i) \/ ConditionFalse(i) \/ cilkStageFirst(i)
        \/ \E s \in 1 .. MaxStage : CilkStage(i, s) \/ CilkStageWait(i, s)
        \/ PassStageWait(i)
        \/ ReadLength(i) \/ Look(i) \/ LookNoFurther(i)
        \/ CreateOrder(i) \/ RaiseTop(i) \/ StoreElement(i)
        \/ EndBody(i) \/ Leave(i)
  BY DEF Next
<1>2. CASE Look(i)
  <2>1. halfRead' = (halfRead \/ ~Stored(ListOf(i - 1), scan[i].index))
    BY <1>2 DEF Look
  <2> QED
    BY <2>1
<1>3. CASE ~Look(i)
  <2>1. halfRead' = halfRead
    BY <1>1, <1>3 DEF Start, ConditionFalse, cilkStageFirst, CilkStage, CilkStageWait, PassStageWait, ReadLength,
       LookNoFurther, CreateOrder, RaiseTop, StoreElement, EndBody, Leave, look
  <2> QED
    BY <2>1
<1> QED
  BY <1>2, <1>3

\* The invariant is one of the variables of the specification.
LEMMA OrdersUnchanged == ASSUME Shapes, Facts, UNCHANGED vars PROVE Shapes' /\ Facts'
<1>0. UNCHANGED <<stage, waiting, more, pc, begun, before, english, hebrew, node, slot, head, tail, elems, length,
                  scan, halfRead>>
  BY DEF vars, loop, dag, order, table, list, look
<1>1. Created' = Created
  BY <1>0 DEF Created
<1>2. Shapes'
  BY <1>0 DEF Shapes
<1>3. Begun' /\ Dag'
  BY <1>0 DEF Facts, Begun, Dag, Current
<1>4. Frames'
  BY <1>0, <1>1 DEF Facts, Frames, FramesOf, HasList
<1>5. Scans'
  <2>1. \A i, x, c : (Covered(i, x, c))' <=> Covered(i, x, c)
    BY <1>0 DEF Covered, Frame, Indices
  <2>2. \A i : /\ (LastStrand(i))' = LastStrand(i) /\ (LeftIndex(i))' = LeftIndex(i) /\ (Current(i))' = Current(i)
               /\ (Indices(i))' = Indices(i)
    BY <1>0 DEF LastStrand, LastStage, LeftIndex, Current, Indices
  <2>3. \A i, k : (Frame(i, k))' = Frame(i, k)
    BY <1>0 DEF Frame
  <2>4. \A f : (Cone(f))' = Cone(f)
    BY <1>0 DEF Cone
  <2>5. \A i : (Waits(i))' <=> Waits(i)
    <3>1. \A i : (Cone(LastStrand(i)))' = Cone(LastStrand(i)) /\ (Current(i))' = Current(i)
      BY <1>0, <2>2 DEF Cone
    <3> QED
      BY <1>0, <2>4, <3>1 DEF Waits
  <2>6. ASSUME NEW i \in Iters PROVE (ScansOf(i))'
    BY <1>0, <2>1, <2>2, <2>3, <2>4, <2>5 DEF Facts, Scans, ScansOf, HasList
  <2> QED
    BY <2>6 DEF Scans
<1>6. Stays
  BY <1>0, <1>1 DEF Stays, HasList, LastStrand, LastStage
<1>7. Nodes' /\ English' /\ Hebrew'
  <2>1. /\ \A f : (AtE(f))' = AtE(f) /\ (AtH(f))' = AtH(f) /\ (EDown(f))' = EDown(f)
               /\ (HDown(f))' = HDown(f) /\ (HRight(f))' = HRight(f)
    BY <1>0 DEF AtE, AtH, EDown, HDown, HRight
  <2>2. \A j : /\ (EDown(LastStrand(j)))' = EDown(LastStrand(j)) /\ (HDown(LastStrand(j)))' = HDown(LastStrand(j))
               /\ (HasList(j))' <=> HasList(j)
    BY <1>0 DEF EDown, HDown, LastStrand, LastStage, HasList
  <2>3. Nodes'
    BY <1>6, NodesStay DEF Facts
  <2>4. English'
    BY <1>0, <1>1, <2>1, <2>2 DEF Facts, English
  <2>5. Hebrew'
    BY <1>0, <1>1, <2>1, <2>2 DEF Facts, Hebrew
  <2> QED
    BY <2>3, <2>4, <2>5
<1> QED
  BY <1>2, <1>3, <1>4, <1>5, <1>7 DEF Facts

\* The orders are right for as long as no frame is read too early.
LEMMA OrdersInductive == Spec => []OrdersInv
<1>1. Init => OrdersInv
  BY FactsStart DEF OrdersInv
<1>2. ASSUME IInv, IInv', OrdersInv, [Next]_vars PROVE OrdersInv'
  <2>1. CASE halfRead = TRUE
    <3>1. CASE Next
      BY <2>1, <3>1, HalfReadStays DEF OrdersInv
    <3>2. CASE UNCHANGED vars
      BY <2>1, <3>2 DEF vars, look, OrdersInv
    <3> QED
      BY <1>2, <3>1, <3>2
  <2>2. CASE Shapes /\ Facts
    <3>1. CASE Next
      <4>1. halfRead' \in BOOLEAN
        BY <2>2, <3>1, HalfReadStays DEF Shapes
      <4>2. CASE halfRead' = TRUE
        BY <4>2 DEF OrdersInv
      <4>3. CASE halfRead' = FALSE
        BY <1>2, <2>2, <3>1, <4>3, FactsStep DEF OrdersInv
      <4> QED
        BY <4>1, <4>2, <4>3
    <3>2. CASE UNCHANGED vars
      BY <2>2, <3>2, OrdersUnchanged DEF OrdersInv
    <3> QED
      BY <1>2, <3>1, <3>2
  <2> QED
    BY <1>2, <2>1, <2>2 DEF OrdersInv
<1> QED
  BY <1>1, <1>2, Inductive, PTL DEF Spec

\* Whatever the throttle limit, the number of iterations and the stages they
\* enter, the english and the hebrew order that cilkStageFirst, cilkStage and
\* cilkStageWait build agree on two strands exactly when the pipeline makes one
\* wait for the other, as long as getLeftDependency reads no missing frame.
THEOREM OrdersAreDag == Spec => []OrdersMatchDag
<1>1. ASSUME IInv, OrdersInv PROVE OrdersMatchDag
  <2>0. CASE halfRead = TRUE
    BY <2>0 DEF OrdersMatchDag
  <2>1. CASE Shapes /\ Facts
    <3>0. Begun /\ Dag /\ Frames /\ English /\ Hebrew /\ Nodes
      BY <2>1 DEF Facts
    <3>1. Placed \subseteq Created
      BY DEF Placed, Created
    <3>2. ASSUME NEW f \in Created, NEW g \in Created, f # g
          PROVE  f \in before[g] <=> AtE(f) < AtE(g) /\ AtH(f) < AtH(g)
      <4>1. /\ f \in begun /\ g \in begun /\ f[1] \in Int /\ f[2] \in Int /\ g[1] \in Int /\ g[2] \in Int
            /\ f \in Strands /\ g \in Strands
        BY <1>1, <2>1, <3>0, StrandsOf
      <4>2. AtE(f) \in Int /\ AtE(g) \in Int
        <5>1. node[f].down \in NodesOf(Created) /\ node[g].down \in NodesOf(Created)
          BY <3>0 DEF Nodes
        <5> QED
          BY <1>1, <2>1, <3>0, <5>1, KnownNodes DEF AtE
      <4>3. f[1] # g[1] \/ f[2] # g[2]
        <5>1. f = <<f[1], f[2]>> /\ g = <<g[1], g[2]>>
          BY <4>1, StrandIs
        <5> QED
          BY <3>2, <5>1
      <4>4. f \in before[g] => f[1] <= g[1] /\ (f[1] = g[1] => f[2] < g[2])
        BY <3>0, <4>1 DEF Dag
      <4>5. CASE f[1] < g[1] \/ (f[1] = g[1] /\ f[2] < g[2])
        <5>1. AtE(f) < AtE(g)
          BY <3>0, <4>5 DEF English
        <5>2. f \in before[g] <=> AtH(f) < AtH(g)
          BY <3>0, <3>2, <4>1, <4>5 DEF Hebrew
        <5> QED
          BY <5>1, <5>2
      <4>6. CASE g[1] < f[1] \/ (f[1] = g[1] /\ g[2] < f[2])
        <5>1. AtE(g) < AtE(f)
          BY <3>0, <4>6 DEF English
        <5> QED
          BY <4>1, <4>2, <4>4, <4>6, <5>1
      <4> QED
        BY <4>1, <4>3, <4>5, <4>6
    <3> QED
      BY <3>1, <3>2 DEF OrdersMatchDag, Precedes, AtE, AtH, Pos
  <2> QED
    BY <1>1, <2>0, <2>1 DEF OrdersInv
<1> QED
  BY <1>1, Inductive, OrdersInductive, PTL
==============================================================================
