------------------------- MODULE PiperPipe_proofs --------------------------
(***************************************************************************)
(* Proofs about PiperPipe, for every set of workers, ring size, number of  *)
(* iterations and number of stages.                                        *)
(*                                                                         *)
(* The properties follow from one inductive invariant, IInv.  Its parts    *)
(* are: what the ring holds (Numbers, Counters, BlockStatuses,             *)
(* IdleStages), where the code of each iteration is (Places, IterStatuses, *)
(* InUse, PlaceStages), who holds which frame (OneHolder, Holdings, Held,  *)
(* ControlOnce, ControlPlace, Joins, FullFrame), and what a worker owes to *)
(* the others (BehindLeft, CachedStageIsOld, ThrottleFlag,                 *)
(* SuspendTakesOwnControl, NoLostWakeUp).  No part is inductive alone.     *)
(* That no ring of block locks closes takes a second one beside it,        *)
(* RingInv, about the iteration that ends with the control frame's lock.   *)
(***************************************************************************)
EXTENDS PiperPipe, FiniteSetTheorems, TLAPS

----------------------------------------------------------------------------
(* The inductive invariant                                                 *)

ControlPCs == {"loop", "body", "throttle", "slow", "setup", "sync", "cleanup", "done"}
AtThrottle == {"throttle", "slow", "setup"}
NotStarted == {"loop", "sync", "cleanup", "done"}  \* the current block waits for its iteration
Ended      == {"cleanup", "done"}

Statuses    == {"standard", "promoted", "suspended", "finished"}
ResumeFlags == {"normal", "suspended", "resuming"}
ParentFlags == {"none", "self", "throttle"}

AttachedPCs == {"test", "user", "last", "wait", "stall", "promote", "final",
                "leave", "attached_done", "attached_left", "attached_own"}
AlivePCs    == {"user", "last", "wait", "stall", "promote", "suspend",
                "suspending", "asleep", "final", "leave", "return"}
RunningPCs  == (AlivePCs \cup Finishing) \ {"asleep"}

\* The iteration on top of the control frame.
Attached(b) == cpc = "body" /\ b = Current

\* The iterations whose full frames are children of the control frame.
Alive == {b \in Blocks : pc[b] \in AlivePCs /\ ~Attached(b)}

AllIdle == \A b \in Blocks : pc[b] = "idle"

\* The types of the variables, without their bounds.
Types ==
  /\ iter_num \in [Blocks -> Int]
  /\ stage \in [Blocks -> 0 .. FinishStage]
  /\ cached_left_stage \in [Blocks -> 0 .. FinishStage]
  /\ cleanup_counter \in [Blocks -> Int]
  /\ iter_status \in [Blocks -> Statuses]
  /\ block_status \in [Blocks -> {"available", "in_use"}]
  /\ in_use \in [Blocks -> BOOLEAN]
  /\ current_iter \in Int /\ current_iter >= 1
  /\ join_counter \in Int
  /\ cpc \in ControlPCs
  /\ resume_flags \in [Frames -> ResumeFlags]
  /\ pc \in [Blocks -> PCs]
  /\ frame_ff \in [Workers -> Frames \cup {NoFrame}]
  /\ next_frame_ff \in [Workers -> Frames \cup {NoFrame}]
  /\ parent_resume \in [Workers -> ParentFlags]
  /\ iter_ff_on_top \in [Workers -> BOOLEAN]

Flags == test_condition \in BOOLEAN /\ control_ff \in BOOLEAN /\ detached \in BOOLEAN

\* A block holds the iteration it is reserved for, except the current block
\* before that iteration has started.
Numbers ==
  \A b \in Blocks :
    IF b = Current /\ cpc \in NotStarted
      THEN iter_num[b] >= -1 /\ iter_num[b] < Reserved(b)
      ELSE iter_num[b] = (IF Reserved(b) >= 0 THEN Reserved(b) ELSE -1)

\* Where the code of the iterations is, and that the next block is not needed
\* as a left neighbour any more.
Places ==
  /\ cpc = "body" => pc[Current] \in AttachedPCs
  /\ detached => cpc = "body" /\ pc[Current] \in AlivePCs
  /\ cpc \in NotStarted => pc[Current] = "idle"
  /\ \A b \in Blocks : ~Attached(b) => pc[b] \in AlivePCs \cup Finishing \cup {"idle"}
  /\ \A b \in Blocks : pc[b] # "idle" => Reserved(b) >= 1
  /\ DoneWithLeft(NextBlock)

\* The cleanup counters, until the last iteration has sent the control frame
\* to its end.
Counted(b) ==
  cleanup_counter[b] = (IF OwnPending(b) THEN FinishVal ELSE 0)
                     + (IF RightPending(b) THEN FinishVal ELSE 0)
                     + (IF ThrottlePending(b) THEN ThrottleVal ELSE 0)

Counters ==
  /\ \A b \in Blocks : cleanup_counter[b] \in 0 .. InitialVal
  /\ (cpc \in Ended /\ AllIdle) \/ (\A b \in Blocks : Counted(b))

BlockStatuses ==
  \A b \in Blocks :
    /\ block_status[b] = "available" <=> cleanup_counter[b] <= ThrottleVal
    /\ cleanup_counter[b] <= ThrottleVal => iter_status[b] = "finished"
    /\ b = Current /\ cpc = "loop" => iter_status[b] = "finished"

IterStatuses ==
  \A b \in Blocks :
    /\ Attached(b) => iter_status[b] = "standard"
    /\ ~Attached(b) /\ pc[b] \in RunningPCs \ {"suspending"} => iter_status[b] = "promoted"
    /\ pc[b] = "suspending" => iter_status[b] = "suspended"
    /\ pc[b] = "asleep" => iter_status[b] \in {"promoted", "suspended"}
    /\ iter_status[b] = "suspended" => pc[b] \in {"suspending", "asleep"}

InUse ==
  cpc \notin Ended =>
    \A b \in Blocks : pc[b] = "idle" \/ Attached(b) => ~in_use[b]

\* No frame is held by two workers.
OneHolder ==
  \A w, v \in Workers :
    /\ frame_ff[w] # NoFrame /\ frame_ff[w] = frame_ff[v] => w = v
    /\ next_frame_ff[w] # NoFrame /\ next_frame_ff[w] = next_frame_ff[v] => w = v
    /\ frame_ff[w] # NoFrame => frame_ff[w] # next_frame_ff[v]

\* What a worker holds
Holdings ==
  \A w \in Workers :
    /\ frame_ff[w] \in Blocks =>
         /\ pc[frame_ff[w]] \in RunningPCs /\ ~Attached(frame_ff[w])
         /\ iter_ff_on_top[w]
         /\ next_frame_ff[w] # NoFrame =>
              /\ pc[frame_ff[w]] = "free_own"
              /\ next_frame_ff[w] = Right(frame_ff[w])
    /\ next_frame_ff[w] \in Blocks =>
         pc[next_frame_ff[w]] = "asleep" /\ iter_status[next_frame_ff[w]] = "promoted"
    /\ frame_ff[w] = Control =>
         ~iter_ff_on_top[w] /\ parent_resume[w] = "none" /\ next_frame_ff[w] = NoFrame
    /\ parent_resume[w] # "none" /\ frame_ff[w] = NoFrame => next_frame_ff[w] \in Blocks

\* Every iteration that runs or is to be resumed is held by a worker.
Held ==
  \A b \in Blocks :
    /\ pc[b] \in RunningPCs /\ ~Attached(b) => \E w \in Workers : frame_ff[w] = b
    /\ pc[b] = "asleep" /\ iter_status[b] # "suspended" =>
         \E w \in Workers : next_frame_ff[w] = b

\* Where the control frame is
HasControl(w) ==
  frame_ff[w] = Control \/ next_frame_ff[w] = Control \/ parent_resume[w] # "none"

ControlOnce ==
  /\ \A w, v \in Workers : HasControl(w) /\ HasControl(v) => w = v
  /\ \A w \in Workers :
       /\ frame_ff[w] = Control => next_frame_ff[w] # Control /\ parent_resume[w] = "none"
       /\ next_frame_ff[w] = Control => parent_resume[w] = "none"

ControlPlace ==
  /\ cpc \in {"loop", "body", "slow", "sync", "done"} =>
       \E w \in Workers : frame_ff[w] = Control
  /\ cpc = "throttle" => \E w \in Workers : HasControl(w)
  /\ \A w \in Workers :
       /\ parent_resume[w] = "self" => cpc = "throttle"
       /\ parent_resume[w] = "throttle" =>
            /\ cpc = "setup"
            /\ resume_flags[Control] = "suspended"
            /\ cleanup_counter[NextBlock] = 0
       /\ frame_ff[w] = Control => resume_flags[Control] = "normal"
       /\ next_frame_ff[w] = Control => resume_flags[Control] # "suspended"
  /\ resume_flags[Control] = "suspended" =>
       /\ cpc = "setup"
       /\ cleanup_counter[NextBlock] = 0 => \E w \in Workers : parent_resume[w] = "throttle"
  /\ cpc = "setup" /\ resume_flags[Control] # "suspended" =>
       /\ cleanup_counter[NextBlock] = 0
       /\ \E w \in Workers : HasControl(w)
  /\ resume_flags[Control] = "resuming" => \E w \in Workers : next_frame_ff[w] = Control

\* The join counter of the control frame counts it and its children, and what
\* it means that the control frame has no full frame yet.
Joins ==
  /\ join_counter >= 1
  /\ cpc \notin Ended => join_counter = 1 + Cardinality(Alive)
  /\ cpc \in Ended /\ (\E w \in Workers : HasControl(w)) => join_counter = 1 /\ AllIdle
  /\ cpc \in Ended /\ ~(\E w \in Workers : HasControl(w)) => join_counter = Cardinality(Alive)

FullFrame ==
  /\ ~control_ff => \A b \in Blocks : pc[b] # "idle" => Attached(b)
  /\ cpc \in {"slow", "sync"} => control_ff
  /\ \A b \in Blocks : pc[b] = "promote" => control_ff

\* The stage an iteration is in at each place of its code
PlaceStages ==
  \A b \in Blocks :
    /\ pc[b] = "test" => stage[b] = 0
    /\ pc[b] \in {"user", "last"} => stage[b] <= MaxStage
    /\ pc[b] \in {"wait", "stall", "promote", "suspend", "suspending", "asleep"} =>
         stage[b] \in 1 .. FinalStage
    /\ pc[b] = "final" => stage[b] = FinalStage
    /\ pc[b] \in {"leave", "return", "free_left", "stage_done", "attached_done"} =>
         stage[b] = PostStage
    /\ pc[b] \in {"check_right", "free_own", "attached_left", "attached_own"} =>
         stage[b] = FinishStage
    /\ pc[b] # "idle" /\ ~Attached(b) => stage[b] >= 1
    /\ detached /\ Attached(b) => stage[b] >= 1

\* A block that is not in use holds a finished iteration.
IdleStages ==
  (cpc \in Ended /\ AllIdle) \/
    (\A b \in Blocks : pc[b] = "idle" /\ Started(b) /\ Reserved(b) >= 0 => stage[b] = FinishStage)

\* An iteration is behind its last wait only behind its left neighbour.
BehindLeft ==
  \A b \in Blocks :
    pc[b] \in {"final", "leave", "return", "free_left", "attached_done", "attached_left"} =>
      stage[Left(b)] >= PostStage

\* A worker that has to resume the throttled control frame has an iteration
\* that needs not wait for its left neighbour.
ThrottleFlag ==
  \A w \in Workers, b \in Blocks :
    parent_resume[w] = "throttle" /\ (frame_ff[w] = b \/ next_frame_ff[w] = b) =>
      pc[b] \in {"stage_done", "check_right", "free_own"} \/ stage[Left(b)] = FinishStage

\* The bounds of the model
Bounds ==
  /\ current_iter <= MaxIter + 2
  /\ cpc \in {"body"} \cup AtThrottle => current_iter <= MaxIter + 1
  /\ cpc = "loop" /\ test_condition => current_iter <= MaxIter + 1
  /\ cpc \in AtThrottle /\ test_condition => current_iter <= MaxIter
  /\ cpc = "body" /\ pc[Current] # "test" /\ test_condition => current_iter <= MaxIter
  /\ pc[Current] = "test" => test_condition

IInv ==
  /\ Types /\ Flags /\ Numbers /\ Places /\ Counters
  /\ BlockStatuses /\ IterStatuses /\ InUse
  /\ OneHolder /\ Holdings /\ Held /\ ControlOnce /\ ControlPlace
  /\ Joins /\ FullFrame
  /\ PlaceStages /\ IdleStages /\ BehindLeft /\ CachedStageIsOld
  /\ ThrottleFlag /\ SuspendTakesOwnControl /\ NoLostWakeUp /\ Bounds

----------------------------------------------------------------------------
(* The ring                                                                *)

\* Division by the size of the ring.
LEMMA DivMod ==
  ASSUME NEW i \in Int
  PROVE  i \div K \in Int /\ i % K \in 0 .. K - 1 /\ i = (i \div K) * K + (i % K)
<1>1. i = (i \div K) * K + (i % K)
  BY RingAssumption, Z3
<1> QED
  BY <1>1, RingAssumption

\* A remainder is known by its range.
LEMMA ModIs ==
  ASSUME NEW q \in Int, NEW r \in 0 .. K - 1
  PROVE  (q * K + r) % K = r
<1> DEFINE i == q * K + r
           p == i \div K
           s == i % K
<1>1. i \in Int /\ p \in Int /\ s \in 0 .. K - 1 /\ i = p * K + s
  <2>1. i \in Int
    BY RingAssumption
  <2> QED
    BY <2>1, DivMod
<1> HIDE DEF p, s
<1>2. CASE p = q
  BY <1>1, <1>2, RingAssumption
<1>3. CASE p > q
  <2>1. (p - q) * K >= K /\ (p - q) * K = r - s
    BY <1>1, <1>3, RingAssumption
  <2> QED
    BY <1>1, <2>1, RingAssumption
<1>4. CASE q > p
  <2>1. (q - p) * K >= K /\ (q - p) * K = s - r
    BY <1>1, <1>4, RingAssumption
  <2> QED
    BY <1>1, <2>1, RingAssumption
<1> QED
  BY <1>1, <1>2, <1>3, <1>4 DEF s

\* The remainders of the numbers around a number.
LEMMA ModSuffix ==
  ASSUME NEW i \in Int
  PROVE  /\ (i + 1) % K = IF i % K = K - 1 THEN 0 ELSE (i % K) + 1
         /\ (i - 1) % K = IF i % K = 0 THEN K - 1 ELSE (i % K) - 1
         /\ (i + K) % K = i % K
         /\ (i - K) % K = i % K
<1> DEFINE q == i \div K
           r == i % K
<1>1. q \in Int /\ r \in 0 .. K - 1 /\ i = q * K + r
  BY DivMod
<1> HIDE DEF q, r
<1>2. (i + 1) % K = IF r = K - 1 THEN 0 ELSE r + 1
  <2>1. CASE r = K - 1
    <3>1. i + 1 = (q + 1) * K + 0
      BY <1>1, <2>1, RingAssumption
    <3> QED
      BY <1>1, <2>1, <3>1, ModIs, RingAssumption
  <2>2. CASE r # K - 1
    <3>1. i + 1 = q * K + (r + 1) /\ r + 1 \in 0 .. K - 1
      BY <1>1, <2>2, RingAssumption
    <3> QED
      BY <1>1, <2>2, <3>1, ModIs
  <2> QED
    BY <2>1, <2>2
<1>3. (i - 1) % K = IF r = 0 THEN K - 1 ELSE r - 1
  <2>1. CASE r = 0
    <3>1. i - 1 = (q - 1) * K + (K - 1)
      BY <1>1, <2>1, RingAssumption
    <3> QED
      BY <1>1, <2>1, <3>1, ModIs, RingAssumption
  <2>2. CASE r # 0
    <3>1. i - 1 = q * K + (r - 1) /\ r - 1 \in 0 .. K - 1
      BY <1>1, <2>2, RingAssumption
    <3> QED
      BY <1>1, <2>2, <3>1, ModIs
  <2> QED
    BY <2>1, <2>2
<1>4. (i + K) % K = r /\ (i - K) % K = r
  <2>1. i + K = (q + 1) * K + r /\ i - K = (q - 1) * K + r
    BY <1>1, RingAssumption
  <2> QED
    BY <1>1, <2>1, ModIs
<1> QED
  BY <1>2, <1>3, <1>4 DEF r

\* Blocks and their neighbours.
LEMMA Neighbours ==
  ASSUME NEW b \in Blocks
  PROVE  /\ Left(b) \in Blocks /\ Left(b) # b
         /\ Right(b) \in Blocks /\ Right(b) # b
         /\ Left(Right(b)) = b /\ Right(Left(b)) = b
<1>1. b \in Int /\ b % K = b /\ b + K - 1 \in Int /\ b - 1 \in Int
  <2>1. b \in Int /\ b = 0 * K + b
    BY RingAssumption DEF Blocks
  <2> QED
    BY <2>1, ModIs, RingAssumption DEF Blocks
<1>2. Right(b) = IF b = K - 1 THEN 0 ELSE b + 1
  BY <1>1, ModSuffix DEF Right
<1>3. \A c \in Blocks : Left(c) = IF c = 0 THEN K - 1 ELSE c - 1
  <2> TAKE c \in Blocks
  <2>1. c \in Int /\ c % K = c
    <3>1. c \in Int /\ c = 0 * K + c
      BY RingAssumption DEF Blocks
    <3> QED
      BY <3>1, ModIs, RingAssumption DEF Blocks
  <2>2. (c - 1) % K = IF c = 0 THEN K - 1 ELSE c - 1
    <3>1. (c - 1) % K = IF c % K = 0 THEN K - 1 ELSE (c % K) - 1
      BY <2>1, ModSuffix
    <3> QED
      BY <2>1, <3>1
  <2>3. ((c - 1) + K) % K = (c - 1) % K
    <3>1. c - 1 \in Int
      BY <2>1
    <3> QED
      BY <3>1, ModSuffix
  <2>4. c + K - 1 = (c - 1) + K
    BY <2>1, RingAssumption
  <2> QED
    BY <2>2, <2>3, <2>4 DEF Left
<1>4. \A c \in Blocks : Right(c) = IF c = K - 1 THEN 0 ELSE c + 1
  <2> TAKE c \in Blocks
  <2>1. c \in Int /\ c % K = c
    <3>1. c \in Int /\ c = 0 * K + c
      BY RingAssumption DEF Blocks
    <3> QED
      BY <3>1, ModIs, RingAssumption DEF Blocks
  <2> QED
    BY <2>1, ModSuffix DEF Right
<1>5. Left(b) \in Blocks /\ Right(b) \in Blocks
  BY <1>3, <1>4, RingAssumption DEF Blocks
<1> QED
  BY <1>3, <1>4, <1>5, RingAssumption DEF Blocks

\* The block of an iteration, and the iteration a block is reserved for.
LEMMA NextBlockOf ==
  ASSUME NEW i \in Int
  PROVE  Idx(i) \in Blocks /\ Idx(i + 1) = Right(Idx(i))
<1> DEFINE r == i % K
<1>1. r \in Int /\ r \in 0 .. K - 1
  BY DivMod
<1>2. r % K = r
  <2>1. 0 * K + r = r
    BY <1>1, RingAssumption
  <2>2. (0 * K + r) % K = r
    BY <1>1, ModIs
  <2> QED
    BY <2>1, <2>2
<1>3. (r + 1) % K = IF r % K = K - 1 THEN 0 ELSE (r % K) + 1
  <2> HIDE DEF r
  <2> QED
    BY <1>1, ModSuffix
<1>4. (i + 1) % K = IF r = K - 1 THEN 0 ELSE r + 1
  BY ModSuffix
<1>5. Idx(i) = r /\ Idx(i + 1) = (i + 1) % K /\ Right(Idx(i)) = (r + 1) % K
  BY DEF Idx, Right
<1> HIDE DEF r
<1> QED
  BY <1>1, <1>2, <1>3, <1>4, <1>5 DEF Blocks

\* The blocks of an iteration and of its neighbours.
LEMMA BlockOf ==
  ASSUME NEW i \in Int
  PROVE  Idx(i) \in Blocks /\ Idx(i + 1) = Right(Idx(i)) /\ Idx(i - 1) = Left(Idx(i))
<1>1. i - 1 \in Int /\ (i - 1) + 1 = i
  OBVIOUS
<1>2. Idx(i - 1) \in Blocks /\ Idx((i - 1) + 1) = Right(Idx(i - 1))
  BY <1>1, NextBlockOf
<1>3. Idx(i - 1) = Left(Idx(i))
  BY <1>1, <1>2, Neighbours
<1> QED
  BY <1>3, NextBlockOf

\* Each block is reserved for one of the last K iterations.
LEMMA Reservations ==
  ASSUME NEW i \in Int, NEW b \in Blocks
  PROVE  /\ Reservation(i, b) \in Int
         /\ Reservation(i, b) <= i /\ Reservation(i, b) > i - K
         /\ Idx(Reservation(i, b)) = b
<1>1. b \in Int /\ b % K = b /\ b \in 0 .. K - 1
  <2>1. b \in Int /\ b = 0 * K + b
    BY RingAssumption DEF Blocks
  <2> QED
    BY <2>1, ModIs, RingAssumption DEF Blocks
<1>2. i - b \in Int
  BY <1>1
<1> DEFINE q == (i - b) \div K
           r == (i - b) % K
<1>3. q \in Int /\ r \in 0 .. K - 1 /\ i - b = q * K + r
  BY <1>2, DivMod
<1> HIDE DEF q, r
<1>4. i - r = q * K + b
  BY <1>1, <1>3, RingAssumption
<1>5. (i - r) % K = b
  BY <1>1, <1>3, <1>4, ModIs
<1>6. Reservation(i, b) = i - r
  BY DEF Reservation, r
<1> QED
  BY <1>3, <1>5, <1>6, RingAssumption DEF Idx

\* Of K iterations in a row one has the block.
LEMMA ReservedBy ==
  ASSUME NEW i \in Int, NEW j \in Int, j <= i, j > i - K
  PROVE  Reservation(i, Idx(j)) = j
<1> DEFINE k == i - j
           q == j \div K
           r == j % K
<1>1. q \in Int /\ r \in 0 .. K - 1 /\ j = q * K + r
  BY DivMod
<1> HIDE DEF q, r
<1>2. k \in 0 .. K - 1
  BY RingAssumption
<1>3. i - r = q * K + k
  BY <1>1, RingAssumption
<1>4. (i - r) % K = k
  BY <1>1, <1>2, <1>3, ModIs
<1> QED
  BY <1>1, <1>4 DEF Reservation, Idx, r

\* What is reserved when the next iteration comes.
LEMMA NextReservation ==
  ASSUME NEW i \in Int, NEW b \in Blocks
  PROVE  /\ Reservation(i, Idx(i)) = i
         /\ Reservation(i, b) = i => b = Idx(i)
         /\ Reservation(i, Right(Idx(i))) = i + 1 - K
         /\ Reservation(i + 1, Right(Idx(i))) = i + 1
         /\ b # Right(Idx(i)) => /\ Reservation(i + 1, b) = Reservation(i, b)
                                 /\ Reservation(i, Left(b)) = Reservation(i, b) - 1
<1> DEFINE j == Reservation(i, b)
<1>1. j \in Int /\ j <= i /\ j > i - K /\ Idx(j) = b
  BY Reservations
<1> HIDE DEF j
<1>0. Idx(i + 1 - K) = Idx(i + 1)
  <2>1. i + 1 \in Int
    OBVIOUS
  <2>2. ((i + 1) - K) % K = (i + 1) % K
    BY <2>1, ModSuffix
  <2>3. (i + 1) - K = i + 1 - K
    BY RingAssumption
  <2>4. (i + 1 - K) % K = (i + 1) % K
    BY <2>2, <2>3
  <2> QED
    BY <2>4 DEF Idx
<1>2. Reservation(i, Idx(i)) = i
  BY ReservedBy, RingAssumption
<1>3. j = i => b = Idx(i)
  BY <1>1
<1>4. Idx(i + 1) = Right(Idx(i))
  BY BlockOf
<1>5. Reservation(i + 1, Right(Idx(i))) = i + 1
  BY <1>4, ReservedBy, RingAssumption
<1>6. Reservation(i, Right(Idx(i))) = i + 1 - K
  <2>1. i + 1 - K \in Int /\ i + 1 - K <= i /\ i + 1 - K > i - K
    BY RingAssumption
  <2>2. Reservation(i, Idx(i + 1 - K)) = i + 1 - K
    BY <2>1, ReservedBy
  <2> QED
    BY <1>0, <1>4, <2>2
<1>7. ASSUME b # Right(Idx(i))
      PROVE  Reservation(i + 1, b) = j /\ Reservation(i, Left(b)) = j - 1
  <2>1. j # i + 1 - K
    <3>1. Idx(i + 1 - K) = Idx(i + 1)
      BY <1>0 
    <3> QED
      BY <1>1, <1>4, <1>7, <3>1
  <2>2. j > i + 1 - K /\ j - 1 > i - K
    BY <1>1, <2>1, RingAssumption
  <2>3. Reservation(i + 1, b) = j
    <3>1. i + 1 \in Int /\ j <= i + 1 /\ j > (i + 1) - K
      BY <1>1, <2>2, RingAssumption
    <3>2. Reservation(i + 1, Idx(j)) = j
      BY <1>1, <3>1, ReservedBy
    <3> QED
      BY <1>1, <3>2
  <2>4. Idx(j - 1) = Left(b)
    BY <1>1, BlockOf
  <2>5. Reservation(i, Left(b)) = j - 1
    <3>1. j - 1 \in Int /\ j - 1 <= i /\ j - 1 > i - K
      BY <1>1, <2>2, RingAssumption
    <3>2. Reservation(i, Idx(j - 1)) = j - 1
      BY <3>1, ReservedBy
    <3> QED
      BY <2>4, <3>2
  <2> QED
    BY <2>3, <2>5
<1> QED
  BY <1>2, <1>3, <1>5, <1>6, <1>7 DEF j

----------------------------------------------------------------------------
\* The frames are the blocks and the control frame, and no frame is none.
LEMMA Names ==
  /\ Control \notin Blocks /\ NoFrame \notin Blocks /\ Control # NoFrame
  /\ Control \in Frames /\ NoFrame \notin Frames /\ Blocks \subseteq Frames
  /\ \A f \in Frames : f # Control => f \in Blocks
BY RingAssumption DEF Control, NoFrame, Blocks, Frames

\* The three system stages follow the user stages.
LEMMA StageOrder ==
  /\ MaxStage \in Nat /\ FinalStage \in Nat /\ PostStage \in Nat /\ FinishStage \in Nat
  /\ FinalStage = MaxStage + 1 /\ PostStage = MaxStage + 2 /\ FinishStage = MaxStage + 3
BY BoundAssumption DEF FinalStage, PostStage, FinishStage

\* The blocks around the current one.
LEMMA CurrentBlocks ==
  ASSUME current_iter \in Int
  PROVE  Current \in Blocks /\ NextBlock \in Blocks /\ Left(Current) \in Blocks
         /\ Current # NextBlock /\ Left(NextBlock) = Current
BY BlockOf, Neighbours DEF Current, NextBlock

----------------------------------------------------------------------------
\* The Boolean variables are Booleans at the start.
LEMMA FlagsInit == Init => Flags
BY DEF Init, Flags

\* The Boolean variables are Booleans, after every step.
LEMMA FlagsStep == Flags /\ [Next]_vars => Flags'
<1> SUFFICES ASSUME Flags, [Next]_vars PROVE Flags'
  OBVIOUS
<1> USE DEF Flags
<1>1. ASSUME NEW w \in Workers, ControlStep(w) PROVE Flags'
  BY <1>1 DEF ControlStep, InitIterFrame, EndLoop, ThrottleFast, ThrottleSlow, SuspendControl,
     SetupNext, SyncControl, CleanUp, ring, code
<1>2. ASSUME NEW w \in Workers, ResumeFrame(w) PROVE Flags'
  BY <1>2 DEF ResumeFrame, control
<1>3. ASSUME NEW w \in Workers, NEW b \in Blocks, UserStep(w, b) PROVE Flags'
  BY <1>3 DEF UserStep, TestCondition, Stage, StageWait, Advance, control
<1>4. ASSUME NEW w \in Workers, NEW b \in Blocks, WaitStep(w, b) PROVE Flags'
  BY <1>4 DEF WaitStep, CachedEnough, ReadLeft, Stall, Promote, AlreadyPromoted, SuspendFails,
     Suspend, SuspendNext, InstallIteration, control
<1>5. ASSUME NEW w \in Workers, NEW b \in Blocks, LeaveStep(w, b) PROVE Flags'
  BY <1>5 DEF LeaveStep, FinishFinalStage, LeaveFrame, AttachedDone, AttachedFreeLeft,
     AttachedFreeOwn, ReturnLast, ReturnOther, FreeLeft, StageDone, CheckRight, FreeOwn, control
<1>6. ASSUME NEW v \in Workers, NEW w \in Workers, StealControl(v, w) PROVE Flags'
  BY <1>6 DEF StealControl, InstallIteration
<1>7. ASSUME NEW v \in Workers, NEW w \in Workers, StealImplicitly(v, w) PROVE Flags'
  BY <1>7 DEF StealImplicitly, control, code
<1>8. CASE UNCHANGED vars
  BY <1>8 DEF vars, control, code
<1> HIDE DEF Flags
<1> QED
  BY <1>1, <1>2, <1>3, <1>4, <1>5, <1>6, <1>7, <1>8 DEF Next, Step, Steals, Over

\* The types hold at the start.
LEMMA TypesInit == Init => Types
<1> SUFFICES ASSUME Init PROVE Types
  OBVIOUS
<1> USE RingAssumption, StageOrder, Names DEF Init, FinishVal, ThrottleVal, InitialVal
<1>1. iter_num \in [Blocks -> Int] /\ stage \in [Blocks -> 0 .. FinishStage]
      /\ cached_left_stage \in [Blocks -> 0 .. FinishStage] /\ cleanup_counter \in [Blocks -> Int]
  OBVIOUS
<1>2. /\ iter_status \in [Blocks -> Statuses] /\ block_status \in [Blocks -> {"available", "in_use"}]
      /\ in_use \in [Blocks -> BOOLEAN] /\ pc \in [Blocks -> PCs]
      /\ resume_flags \in [Frames -> ResumeFlags]
  BY DEF Statuses, PCs, ResumeFlags
<1>3. /\ frame_ff \in [Workers -> Frames \cup {NoFrame}]
      /\ next_frame_ff \in [Workers -> Frames \cup {NoFrame}]
      /\ parent_resume \in [Workers -> ParentFlags] /\ iter_ff_on_top \in [Workers -> BOOLEAN]
  BY DEF ParentFlags
<1>4. /\ current_iter \in Int /\ current_iter >= 1 /\ join_counter \in Int
      /\ cpc \in ControlPCs
  BY DEF ControlPCs
<1> HIDE DEF Init
<1> QED
  BY <1>1, <1>2, <1>3, <1>4 DEF Types

\* The types hold, after every step.
LEMMA TypesStep == Types /\ [Next]_vars => Types'
<1> SUFFICES ASSUME Types, [Next]_vars PROVE Types'
  OBVIOUS
<1> USE Names, StageOrder DEF Types
<1>0. Current \in Blocks /\ NextBlock \in Blocks
  BY CurrentBlocks
<1>1. ASSUME NEW w \in Workers, ControlStep(w) PROVE Types'
  <2>1. CASE InitIterFrame(w)
    BY <1>0, <2>1 DEF InitIterFrame, worker, Goto, ControlPCs, PCs, Statuses
  <2>2. CASE EndLoop(w)
    BY <2>2 DEF EndLoop, ring, code, worker, ControlPCs
  <2>3. CASE ThrottleFast(w)
    BY <1>0, <2>3 DEF ThrottleFast, code, worker, ControlPCs, ThrottleVal
  <2>4. CASE ThrottleSlow(w)
    BY <2>4 DEF ThrottleSlow, ring, code, worker, ControlPCs
  <2>5. CASE SuspendControl(w)
    BY <1>0, <2>5 DEF SuspendControl, code, ControlPCs, ThrottleVal, ResumeFlags
  <2>6. CASE SetupNext(w)
    BY <1>0, <2>6 DEF SetupNext, code, worker, ControlPCs, InitialVal, FinishVal, ThrottleVal
  <2>7. CASE SyncControl(w)
    BY <2>7, WorkersAssumption DEF SyncControl, ring, code, ControlPCs
  <2>8. CASE CleanUp(w)
    BY <2>8 DEF CleanUp, ring, code, worker, ControlPCs
  <2> QED
    BY <1>1, <2>1, <2>2, <2>3, <2>4, <2>5, <2>6, <2>7, <2>8 DEF ControlStep
<1>2. ASSUME NEW w \in Workers, ResumeFrame(w) PROVE Types'
  BY <1>2 DEF ResumeFrame, ring, control, PCs, ResumeFlags
<1>3. ASSUME NEW w \in Workers, NEW b \in Blocks, UserStep(w, b) PROVE Types'
  <2>1. ASSUME NEW t \in BOOLEAN, TestCondition(w, b, t) PROVE Types'
    BY <2>1 DEF TestCondition, ring, worker, Goto, PCs
  <2>2. ASSUME NEW s \in 1 .. MaxStage, Stage(w, b, s) PROVE Types'
    BY <2>2 DEF Stage, Advance, control, worker
  <2>3. ASSUME NEW s \in 1 .. FinalStage, StageWait(w, b, s) PROVE Types'
    BY <2>3 DEF StageWait, Advance, control, worker, Goto, PCs
  <2> QED
    BY <1>3, <2>1, <2>2, <2>3 DEF UserStep
<1>4. ASSUME NEW w \in Workers, NEW b \in Blocks, WaitStep(w, b) PROVE Types'
  <2> USE Neighbours DEF Goto, PCs, ring, control
  <2>1. CASE CachedEnough(w, b)
    BY <2>1 DEF CachedEnough, AfterWait, worker
  <2>2. CASE ReadLeft(w, b)
    BY <2>2 DEF ReadLeft, AfterWait, worker
  <2>3. CASE Stall(w, b)
    BY <2>3 DEF Stall, worker
  <2>4. CASE Promote(w, b)
    BY <1>0, <2>4 DEF Promote, InstallIteration, ControlPCs, Statuses, ParentFlags
  <2>5. CASE AlreadyPromoted(w, b)
    BY <2>5 DEF AlreadyPromoted, worker
  <2>6. CASE SuspendFails(w, b)
    BY <2>6 DEF SuspendFails, ResumeFlags
  <2>7. CASE Suspend(w, b)
    BY <2>7 DEF Suspend, worker, Statuses, ResumeFlags
  <2>8. CASE SuspendNext(w, b)
    BY <2>8 DEF SuspendNext, ResumeRight, Statuses, ResumeFlags, ParentFlags
  <2> QED
    BY <1>4, <2>1, <2>2, <2>3, <2>4, <2>5, <2>6, <2>7, <2>8 DEF WaitStep
<1>5. ASSUME NEW w \in Workers, NEW b \in Blocks, LeaveStep(w, b) PROVE Types'
  <2> USE Neighbours DEF Goto, PCs, Finishing, ring, control
  <2>1. CASE FinishFinalStage(w, b)
    BY <2>1 DEF FinishFinalStage, worker
  <2>2. CASE LeaveFrame(w, b)
    BY <2>2 DEF LeaveFrame, worker
  <2>3. CASE AttachedDone(w, b)
    BY <2>3 DEF AttachedDone, worker
  <2>4. CASE AttachedFreeLeft(w, b)
    BY <2>4 DEF AttachedFreeLeft, FreeBlock, CountFinish, FinishVal, worker, Statuses
  <2>5. CASE AttachedFreeOwn(w, b)
    BY <2>5 DEF AttachedFreeOwn, FreeBlock, CountFinish, FinishVal, worker, Statuses, ControlPCs
  <2>6. CASE ReturnLast(w, b)
    BY <2>6, WorkersAssumption DEF ReturnLast
  <2>7. CASE ReturnOther(w, b)
    BY <2>7 DEF ReturnOther, worker
  <2>8. CASE FreeLeft(w, b)
    BY <2>8 DEF FreeLeft, FreeBlock, CountFinish, FinishVal, FlagAfterFree, Statuses, ParentFlags
  <2>9. CASE StageDone(w, b)
    BY <2>9 DEF StageDone, worker
  <2>10. CASE CheckRight(w, b)
    BY <2>10 DEF CheckRight, ResumeRight, NothingToResume, Statuses, ResumeFlags
  <2>11. CASE FreeOwn(w, b)
    BY <2>11 DEF FreeOwn, FreeBlock, CountFinish, FinishVal, FlagAfterFree, TakeParent,
                 Statuses, ResumeFlags, ParentFlags
  <2> QED
    BY <1>5, <2>1, <2>2, <2>3, <2>4, <2>5, <2>6, <2>7, <2>8, <2>9, <2>10, <2>11 DEF LeaveStep
<1>6. ASSUME NEW v \in Workers, NEW w \in Workers, StealControl(v, w) PROVE Types'
  BY <1>0, <1>6 DEF StealControl, InstallIteration, Statuses, ControlPCs
<1>7. ASSUME NEW v \in Workers, NEW w \in Workers, StealImplicitly(v, w) PROVE Types'
  BY <1>7, Neighbours DEF StealImplicitly, TakeParent, ResumeRight, NothingToResume, control, code,
       Statuses, ResumeFlags, ParentFlags
<1>8. CASE UNCHANGED vars
  BY <1>8 DEF vars, ring, control, code, worker
<1> HIDE DEF Types
<1> QED
  BY <1>1, <1>2, <1>3, <1>4, <1>5, <1>6, <1>7, <1>8 DEF Next, Step, Steals, Over

----------------------------------------------------------------------------
\* What current_iter says about the blocks.
LEMMA ReservedBlocks ==
  ASSUME current_iter \in Int, NEW b \in Blocks
  PROVE  /\ Reserved(b) \in Int /\ Reserved(b) <= current_iter
         /\ Reserved(Current) = current_iter
         /\ Reserved(b) = current_iter => b = Current
         /\ Reserved(NextBlock) = (current_iter + 1) - K
         /\ b # NextBlock => Reserved(Left(b)) = Reserved(b) - 1
<1>1. (current_iter + 1) - K = current_iter + 1 - K
  BY RingAssumption
<1> QED
  BY <1>1, Reservations, NextReservation DEF Reserved, Current, NextBlock

\* Nothing moves in the ring while the current iteration stays.
LEMMA SameIter ==
  ASSUME current_iter' = current_iter
  PROVE  /\ Current' = Current /\ NextBlock' = NextBlock
         /\ \A b \in Blocks : Reserved(b)' = Reserved(b)
BY DEF Current, NextBlock, Reserved

\* The ring turns by one block when the next iteration is set up.
LEMMA NextIter ==
  ASSUME current_iter \in Int, current_iter' = current_iter + 1
  PROVE  /\ Current' = NextBlock /\ NextBlock' = Right(NextBlock)
         /\ \A b \in Blocks : Reserved(b)' = IF b = NextBlock THEN current_iter + 1 ELSE Reserved(b)
<1>1. Idx(current_iter + 1) = NextBlock
  BY BlockOf DEF NextBlock, Current
<1>2. Reservation(current_iter + 1, NextBlock) = current_iter + 1
  BY NextReservation, BlockOf DEF NextBlock, Current
<1>3. \A b \in Blocks : b # NextBlock =>
        Reservation(current_iter + 1, b) = Reservation(current_iter, b)
  BY NextReservation DEF NextBlock, Current
<1> QED
  BY <1>1, <1>2, <1>3 DEF Current, NextBlock, Reserved

\* Who executes an iteration, and where its code is.
LEMMA Executor ==
  ASSUME Types, Places, Holdings, NEW w \in Workers, NEW b \in Blocks, Executes(w, b)
  PROVE  \/ /\ frame_ff[w] = b /\ ~Attached(b)
            /\ pc[b] \in RunningPCs /\ iter_ff_on_top[w]
            /\ pc[b] # "free_own" => next_frame_ff[w] = NoFrame
         \/ /\ frame_ff[w] = Control /\ Attached(b) /\ b = Current /\ cpc = "body"
            /\ pc[b] \in AttachedPCs
            /\ next_frame_ff[w] = NoFrame /\ parent_resume[w] = "none"
<1>1. CASE frame_ff[w] = b
  BY <1>1 DEF Holdings
<1>2. CASE frame_ff[w] = Control /\ cpc = "body" /\ b = Current
  BY <1>2 DEF Places, Attached, Holdings
<1> QED
  BY <1>1, <1>2 DEF Executes

\* Only the iteration on top of the control frame promotes itself.
LEMMA PromotesAttached ==
  ASSUME Types, Places, Holdings, IterStatuses, NEW w \in Workers, NEW b \in Blocks, Promote(w, b)
  PROVE  /\ frame_ff[w] = Control /\ b = Current /\ cpc = "body" /\ Attached(b)
         /\ next_frame_ff[w] = NoFrame /\ parent_resume[w] = "none"
<1>1. Executes(w, b) /\ pc[b] = "promote" /\ iter_status[b] # "promoted"
  BY DEF Promote
<1>2. ~Attached(b) => iter_status[b] = "promoted"
  BY <1>1 DEF IterStatuses, RunningPCs, AlivePCs
<1> QED
  BY <1>1, <1>2, Executor

\* The condition and the attached end run on top of the control frame.
LEMMA EndsAttached ==
  ASSUME Types, Places, Holdings, NEW w \in Workers, NEW b \in Blocks, Executes(w, b),
         pc[b] \in {"test", "attached_done", "attached_left", "attached_own"}
  PROVE  /\ frame_ff[w] = Control /\ b = Current /\ cpc = "body" /\ Attached(b)
         /\ next_frame_ff[w] = NoFrame /\ parent_resume[w] = "none"
BY Executor DEF RunningPCs, AlivePCs, Finishing

\* Suspending, returning and finishing are done in a full frame of its own.
LEMMA RunsPromoted ==
  ASSUME Types, Places, Holdings, NEW w \in Workers, NEW b \in Blocks, Executes(w, b),
         pc[b] \in {"suspend", "suspending", "return"} \cup Finishing
  PROVE  /\ frame_ff[w] = b /\ ~Attached(b) /\ iter_ff_on_top[w]
         /\ pc[b] # "free_own" => next_frame_ff[w] = NoFrame
BY Executor DEF AttachedPCs, Finishing

----------------------------------------------------------------------------
\* Blocks hold the iterations they are reserved for at the start.
LEMMA NumbersInit == Init => Numbers
<1> SUFFICES ASSUME Init, NEW b \in Blocks
             PROVE  IF b = Current /\ cpc \in NotStarted
                      THEN iter_num[b] >= -1 /\ iter_num[b] < Reserved(b)
                      ELSE iter_num[b] = (IF Reserved(b) >= 0 THEN Reserved(b) ELSE -1)
  BY DEF Numbers
<1>1. current_iter = 1 /\ cpc = "loop" /\ iter_num = [c \in Blocks |-> IF c = 0 THEN 0 ELSE -1]
  BY DEF Init
<1>2. Current = Idx(1) /\ Reserved(b) = Reservation(1, b)
  BY <1>1 DEF Current, Reserved
<1>3. Idx(1) = 1 /\ Idx(0) = 0
  <2>1. 1 = 0 * K + 1 /\ 0 = 0 * K + 0 /\ 1 \in 0 .. K - 1 /\ 0 \in 0 .. K - 1
    BY RingAssumption
  <2> QED
    BY <2>1, ModIs DEF Idx
<1>4. Reservation(1, Idx(1)) = 1 /\ Reservation(1, Idx(0)) = 0
  BY ReservedBy, RingAssumption
<1>5. b \notin {0, 1} => Reservation(1, b) < 0
  BY <1>3, Reservations
<1>6. iter_num[b] = (IF b = 0 THEN 0 ELSE -1) /\ Current = 1
  BY <1>1, <1>2, <1>3
<1>7. CASE b = 1
  BY <1>1, <1>2, <1>3, <1>4, <1>6, <1>7 DEF NotStarted
<1>8. CASE b = 0
  BY <1>2, <1>3, <1>4, <1>6, <1>8
<1>9. CASE b \notin {0, 1}
  BY <1>2, <1>5, <1>6, <1>9, Reservations
<1> QED
  BY <1>7, <1>8, <1>9

\* Blocks hold the iterations they are reserved for, after every step.
LEMMA NumbersStep ==
  ASSUME Types, Numbers, Places, Holdings, IterStatuses, [Next]_vars
  PROVE  Numbers'
<1>0. Current \in Blocks /\ NextBlock \in Blocks /\ current_iter \in Int
      /\ \A b \in Blocks : Reserved(b) \in Int
  BY CurrentBlocks, ReservedBlocks DEF Types
<1>a. ASSUME UNCHANGED <<iter_num, current_iter>>, cpc \in NotStarted <=> cpc' \in NotStarted
      PROVE  Numbers'
  BY <1>a, SameIter DEF Numbers
<1>1. ASSUME NEW w \in Workers, ControlStep(w) PROVE Numbers'
  <2>1. CASE InitIterFrame(w)
    <3>1. current_iter' = current_iter /\ Reserved(Current) = current_iter /\ current_iter >= 1
      BY <1>0, <2>1, ReservedBlocks DEF InitIterFrame, Types
    <3>2. cpc \in NotStarted /\ cpc' \notin NotStarted
      BY <2>1 DEF InitIterFrame, RunsControl, NotStarted
    <3>3. iter_num' = [iter_num EXCEPT ![Current] = current_iter]
      BY <2>1 DEF InitIterFrame
    <3> QED
      BY <1>0, <3>1, <3>2, <3>3, SameIter DEF Numbers, Types
  <2>2. CASE SetupNext(w)
    <3>1. current_iter' = current_iter + 1 /\ iter_num' = iter_num
          /\ cpc \notin NotStarted /\ cpc' \in NotStarted
      BY <2>2 DEF SetupNext, RunsControl, NotStarted
    <3>2. Reserved(NextBlock) = (current_iter + 1) - K
      BY <1>0, ReservedBlocks
    <3> QED
      BY <1>0, <3>1, <3>2, NextIter, RingAssumption DEF Numbers, Types
  <2>3. CASE EndLoop(w) \/ SyncControl(w) \/ CleanUp(w) \/ ThrottleFast(w) \/ ThrottleSlow(w)
             \/ SuspendControl(w)
    BY <1>a, <2>3 DEF EndLoop, SyncControl, CleanUp, ThrottleFast, ThrottleSlow, SuspendControl,
       RunsControl, ring, NotStarted
  <2> QED
    BY <1>1, <2>1, <2>2, <2>3 DEF ControlStep
<1>2. ASSUME NEW w \in Workers, ResumeFrame(w) PROVE Numbers'
  BY <1>a, <1>2 DEF ResumeFrame, ring, control
<1>3. ASSUME NEW w \in Workers, NEW b \in Blocks, UserStep(w, b) PROVE Numbers'
  BY <1>a, <1>3 DEF UserStep, TestCondition, Stage, StageWait, ring, control
<1>4. ASSUME NEW w \in Workers, NEW b \in Blocks, WaitStep(w, b) PROVE Numbers'
  <2>1. CASE Promote(w, b)
    BY <1>a, <2>1, PromotesAttached DEF Promote, InstallIteration, NotStarted
  <2>2. CASE ~Promote(w, b)
    BY <1>a, <1>4, <2>2 DEF WaitStep, CachedEnough, ReadLeft, Stall, AlreadyPromoted, SuspendFails,
       Suspend, SuspendNext, ring, control
  <2> QED
    BY <2>1, <2>2
<1>5. ASSUME NEW w \in Workers, NEW b \in Blocks, LeaveStep(w, b) PROVE Numbers'
  <2>1. CASE AttachedFreeOwn(w, b)
    BY <1>a, <2>1, EndsAttached DEF AttachedFreeOwn, NotStarted
  <2>2. CASE ~AttachedFreeOwn(w, b)
    BY <1>a, <1>5, <2>2 DEF LeaveStep, FinishFinalStage, LeaveFrame, AttachedDone, AttachedFreeLeft,
       ReturnLast, ReturnOther, FreeLeft, StageDone, CheckRight, FreeOwn, ring, control
  <2> QED
    BY <2>1, <2>2
<1>6. ASSUME NEW v \in Workers, NEW w \in Workers, StealControl(v, w) PROVE Numbers'
  BY <1>a, <1>6 DEF StealControl, Stealable, RunsControl, InstallIteration, NotStarted
<1>7. ASSUME NEW v \in Workers, NEW w \in Workers, StealImplicitly(v, w) PROVE Numbers'
  BY <1>a, <1>7 DEF StealImplicitly, control
<1>8. CASE UNCHANGED vars
  BY <1>a, <1>8 DEF vars, ring, control
<1> QED
  BY <1>1, <1>2, <1>3, <1>4, <1>5, <1>6, <1>7, <1>8 DEF Next, Step, Steals, Over

----------------------------------------------------------------------------
\* At its setup the next block is not in use, and the block after it does not
\* need it as a left neighbour.
LEMMA SetupFacts ==
  ASSUME Types, Numbers, Places, Counters, BlockStatuses, ControlPlace,
         NEW w \in Workers, RunsControl(w, "setup")
  PROVE  /\ cleanup_counter[NextBlock] = 0
         /\ pc[NextBlock] = "idle" /\ DoneWithLeft(Right(NextBlock))
         /\ block_status[NextBlock] = "available" /\ iter_status[NextBlock] = "finished"
<1>0. /\ NextBlock \in Blocks /\ Right(NextBlock) \in Blocks /\ Left(NextBlock) = Current
      /\ Right(NextBlock) # NextBlock /\ Left(Right(NextBlock)) = NextBlock /\ Current # NextBlock
  BY CurrentBlocks, Neighbours DEF Types
<1>1. frame_ff[w] = Control /\ cpc = "setup"
  BY DEF RunsControl
<1>2. resume_flags[Control] # "suspended"
  BY <1>1 DEF ControlPlace
<1>3. cleanup_counter[NextBlock] = 0
  BY <1>1, <1>2 DEF ControlPlace
<1>4. Counted(NextBlock)
  BY <1>0, <1>1 DEF Counters, Ended
<1>5. ~OwnPending(NextBlock) /\ ~RightPending(NextBlock)
  BY <1>3, <1>4 DEF Counted, FinishVal, ThrottleVal
<1>6. Started(NextBlock) \/ Reserved(NextBlock) < 1
  BY <1>0, <1>1, ReservedBlocks DEF Numbers, NotStarted, Started, Types
<1>7. pc[NextBlock] = "idle"
  BY <1>0, <1>5, <1>6, ReservedBlocks DEF OwnPending, Places, Types
<1>8. Reserved(Right(NextBlock)) = Reserved(NextBlock) + 1
  BY <1>0, ReservedBlocks DEF Types
<1>9. DoneWithLeft(Right(NextBlock))
  <2>1. CASE Reserved(NextBlock) >= 0
    BY <1>5, <2>1 DEF RightPending
  <2>2. CASE Reserved(NextBlock) < 0
    <3>1. ~(Reserved(Right(NextBlock)) >= 1)
      BY <1>0, <1>8, <2>2, ReservedBlocks DEF Types
    <3> QED
      BY <1>0, <3>1 DEF Places, DoneWithLeft
  <2> QED
    BY <1>0, <2>1, <2>2, ReservedBlocks DEF Types
<1> QED
  BY <1>0, <1>3, <1>7, <1>9 DEF BlockStatuses, ThrottleVal, Types

\* The code of the iterations is where the control frame left it at the start.
LEMMA PlacesInit == Init => Places
<1> SUFFICES ASSUME Init PROVE Places
  OBVIOUS
<1>1. cpc = "loop" /\ detached = FALSE /\ pc = [b \in Blocks |-> "idle"] /\ current_iter = 1
  BY DEF Init
<1>2. Current \in Blocks /\ NextBlock \in Blocks
  BY <1>1, CurrentBlocks
<1> QED
  BY <1>1, <1>2 DEF Places, NotStarted, DoneWithLeft

\* The code of the iterations is where the control frame left it, after every step.
LEMMA PlacesStep ==
  ASSUME Types, Numbers, Places, Counters, BlockStatuses, IterStatuses, Holdings, ControlPlace,
         PlaceStages, [Next]_vars
  PROVE  Places'
<1>0. Current \in Blocks /\ NextBlock \in Blocks /\ Current # NextBlock
  BY CurrentBlocks DEF Types
<1>1. ASSUME NEW w \in Workers, ControlStep(w) PROVE Places'
  <2>1. CASE InitIterFrame(w)
    <3>1. current_iter' = current_iter /\ Reserved(Current) >= 1
      BY <1>0, <2>1, ReservedBlocks DEF InitIterFrame, Types
    <3>2. cpc = "loop" /\ cpc' = "body" /\ detached' = FALSE /\ pc' = [pc EXCEPT ![Current] = "test"]
      BY <2>1 DEF InitIterFrame, RunsControl, Goto
    <3> QED
      BY <1>0, <3>1, <3>2, SameIter
         DEF Places, Types, Attached, AttachedPCs, NotStarted, DoneWithLeft
  <2>2. CASE SetupNext(w)
    <3>1. /\ current_iter' = current_iter + 1 /\ pc' = pc /\ detached' = detached
          /\ cpc = "setup" /\ cpc' = "loop" /\ RunsControl(w, "setup")
      BY <2>2 DEF SetupNext, RunsControl, code
    <3>2. pc[NextBlock] = "idle" /\ DoneWithLeft(Right(NextBlock))
      BY <3>1, SetupFacts
    <3>3. /\ Current' = NextBlock /\ NextBlock' = Right(NextBlock)
          /\ \A b \in Blocks : Reserved(b)' = IF b = NextBlock THEN current_iter + 1 ELSE Reserved(b)
      BY <3>1, NextIter DEF Types
    <3> QED
      BY <1>0, <3>1, <3>2, <3>3 DEF Places, Types, Attached, NotStarted, DoneWithLeft
  <2>3. CASE EndLoop(w) \/ SyncControl(w) \/ CleanUp(w) \/ ThrottleFast(w) \/ ThrottleSlow(w)
             \/ SuspendControl(w)
    <3>1. /\ UNCHANGED <<current_iter, pc, detached>> /\ cpc # "body" /\ cpc' # "body"
          /\ cpc' \in NotStarted => cpc \in NotStarted
      BY <2>3 DEF EndLoop, SyncControl, CleanUp, ThrottleFast, ThrottleSlow, SuspendControl,
         RunsControl, ring, code, NotStarted
    <3> QED
      BY <3>1, SameIter DEF Places, Attached, DoneWithLeft
  <2> QED
    BY <1>1, <2>1, <2>2, <2>3 DEF ControlStep
<1> DEFINE Move(b, p) ==
      /\ current_iter' = current_iter /\ pc' = [pc EXCEPT ![b] = p]
      /\ pc[b] # "idle"
      /\ DoneWithLeft(b) => p \in {"idle", "stage_done", "check_right", "free_own", "attached_own"}
\* a step of an iteration that stays attached or promoted
<1>m. ASSUME NEW b \in Blocks, NEW p, Move(b, p), cpc' = cpc,
             Attached(b) => p \in AttachedPCs,
             ~Attached(b) => p \in AlivePCs \cup Finishing \cup {"idle"},
             detached' => (detached \/ Attached(b)) /\ (Attached(b) => p \in AlivePCs)
      PROVE  Places'
  BY <1>0, <1>m, SameIter DEF Places, Types, Attached, NotStarted, DoneWithLeft
\* an iteration that comes off the control frame
<1>n. ASSUME NEW p, Move(Current, p), cpc = "body", cpc' = "throttle", ~detached',
             p \in AlivePCs \cup Finishing \cup {"idle"}
      PROVE  Places'
  BY <1>0, <1>n, SameIter DEF Places, Types, Attached, NotStarted, DoneWithLeft
<1> HIDE DEF Move
<1>2. ASSUME NEW w \in Workers, ResumeFrame(w) PROVE Places'
  <2>1. CASE next_frame_ff[w] \in Blocks
    <3> DEFINE b == next_frame_ff[w]
    <3>1. pc[b] = "asleep"
      BY <2>1 DEF Holdings
    <3>2. ~Attached(b)
      BY <3>1 DEF Places, Attached, AttachedPCs
    <3>3. pc' = [pc EXCEPT ![b] = "stall"] /\ UNCHANGED <<control, detached>>
      BY <1>2, <2>1 DEF ResumeFrame, Types
    <3> HIDE DEF b
    <3>4. b \in Blocks
      BY <2>1 DEF b
    <3> QED
      BY <3>1, <3>2, <3>3, <3>4, <1>m DEF Move, control, AlivePCs, DoneWithLeft
  <2>2. CASE next_frame_ff[w] \notin Blocks
    <3>1. pc' = pc /\ UNCHANGED <<control, detached>>
      BY <1>2, <2>2 DEF ResumeFrame, Types
    <3> QED
      BY <3>1, SameIter DEF Places, Attached, DoneWithLeft, control
  <2> QED
    BY <2>1, <2>2
<1>3. ASSUME NEW w \in Workers, NEW b \in Blocks, UserStep(w, b) PROVE Places'
  <2>1. ASSUME NEW t \in BOOLEAN, TestCondition(w, b, t) PROVE Places'
    <3>1. Attached(b) /\ ~detached
      BY <2>1, EndsAttached DEF TestCondition, Places, AlivePCs
    <3> QED
      BY <2>1, <3>1, <1>m DEF TestCondition, Goto, Move, AttachedPCs, AlivePCs, DoneWithLeft
  <2>2. ASSUME NEW s \in 1 .. MaxStage, Stage(w, b, s) PROVE Places'
    <3>1. pc[b] = "user" /\ (stage[b] = 0 => Attached(b)) /\ pc' = pc /\ UNCHANGED control
          /\ detached' = (detached \/ stage[b] = 0)
      BY <2>2 DEF Stage, UserStages, Advance, PlaceStages, Types
    <3>2. detached' => cpc = "body" /\ pc[Current] \in AlivePCs
      BY <3>1 DEF Attached, AlivePCs, Places
    <3> QED
      BY <3>1, <3>2, SameIter DEF Places, Attached, DoneWithLeft, control
  <2>3. ASSUME NEW s \in 1 .. FinalStage, StageWait(w, b, s) PROVE Places'
    <3>1. pc[b] \in {"user", "last"} /\ (stage[b] = 0 => Attached(b))
          /\ Goto(b, "wait") /\ UNCHANGED control
          /\ detached' = (detached \/ stage[b] = 0)
      BY <2>3 DEF StageWait, Advance, PlaceStages, Types
    <3> QED
      BY <3>1, <1>m DEF Goto, Move, control, AttachedPCs, AlivePCs, DoneWithLeft
  <2> QED
    BY <1>3, <2>1, <2>2, <2>3 DEF UserStep
<1>4. ASSUME NEW w \in Workers, NEW b \in Blocks, WaitStep(w, b) PROVE Places'
  <2> USE DEF Goto, Move, control, AttachedPCs, AlivePCs, Finishing, DoneWithLeft
  <2>1. CASE CachedEnough(w, b)
    BY <2>1, <1>m DEF CachedEnough, AfterWait
  <2>2. CASE ReadLeft(w, b)
    BY <2>2, <1>m DEF ReadLeft, AfterWait
  <2>3. CASE Stall(w, b)
    BY <2>3, <1>m DEF Stall, IterStatuses
  <2>4. CASE Promote(w, b)
    BY <2>4, <1>n, PromotesAttached DEF Promote, InstallIteration
  <2>5. CASE AlreadyPromoted(w, b)
    BY <2>5, <1>m DEF AlreadyPromoted, IterStatuses
  <2>6. CASE SuspendFails(w, b)
    BY <2>6, <1>m, RunsPromoted DEF SuspendFails
  <2>7. CASE Suspend(w, b)
    BY <2>7, <1>m, RunsPromoted DEF Suspend
  <2>8. CASE SuspendNext(w, b)
    BY <2>8, <1>m, RunsPromoted DEF SuspendNext
  <2> HIDE DEF Goto, Move, control, AttachedPCs, AlivePCs, Finishing, DoneWithLeft
  <2> QED
    BY <1>4, <2>1, <2>2, <2>3, <2>4, <2>5, <2>6, <2>7, <2>8 DEF WaitStep
<1>5. ASSUME NEW w \in Workers, NEW b \in Blocks, LeaveStep(w, b) PROVE Places'
  <2> USE DEF Goto, Move, control, AttachedPCs, AlivePCs, DoneWithLeft, Finishing
  <2>1. CASE FinishFinalStage(w, b)
    BY <2>1, <1>m DEF FinishFinalStage
  <2>2. CASE LeaveFrame(w, b)
    <3>1. detached' => detached /\ frame_ff[w] # Control
      BY <2>2, Zenon DEF LeaveFrame
    <3>2. /\ pc[b] = "leave" /\ UNCHANGED control
          /\ frame_ff[w] = Control => Attached(b) /\ pc' = [pc EXCEPT ![b] = "attached_done"]
          /\ frame_ff[w] # Control => ~Attached(b) /\ pc' = [pc EXCEPT ![b] = "return"]
      BY <2>2, Executor, Names DEF LeaveFrame
    <3> QED
      BY <3>1, <3>2, <1>m
  <2>3. CASE AttachedDone(w, b)
    BY <2>3, <1>m, EndsAttached DEF AttachedDone, Places
  <2>4. CASE AttachedFreeLeft(w, b)
    BY <2>4, <1>m, EndsAttached DEF AttachedFreeLeft, Places
  <2>5. CASE AttachedFreeOwn(w, b)
    BY <2>5, <1>n, EndsAttached DEF AttachedFreeOwn, Places
  <2>6. CASE ReturnLast(w, b)
    BY <2>6, <1>m, RunsPromoted DEF ReturnLast
  <2>7. CASE ReturnOther(w, b)
    BY <2>7, <1>m, RunsPromoted DEF ReturnOther
  <2>8. CASE FreeLeft(w, b)
    BY <2>8, <1>m, RunsPromoted DEF FreeLeft
  <2>9. CASE StageDone(w, b)
    BY <2>9, <1>m, RunsPromoted DEF StageDone
  <2>10. CASE CheckRight(w, b)
    BY <2>10, <1>m, RunsPromoted DEF CheckRight
  <2>11. CASE FreeOwn(w, b)
    BY <2>11, <1>m, RunsPromoted DEF FreeOwn
  <2> HIDE DEF Goto, Move, control, AttachedPCs, AlivePCs, DoneWithLeft, Finishing
  <2> QED
    BY <1>5, <2>1, <2>2, <2>3, <2>4, <2>5, <2>6, <2>7, <2>8, <2>9, <2>10, <2>11 DEF LeaveStep
<1>6. ASSUME NEW v \in Workers, NEW w \in Workers, StealControl(v, w) PROVE Places'
  <2>1. cpc = "body" /\ cpc' = "throttle" /\ detached /\ ~detached' /\ pc' = pc /\ current_iter' = current_iter
    BY <1>6 DEF StealControl, Stealable, RunsControl, InstallIteration
  <2> QED
    BY <1>0, <2>1, SameIter DEF Places, Attached, NotStarted, DoneWithLeft
<1>7. ASSUME NEW v \in Workers, NEW w \in Workers, StealImplicitly(v, w) PROVE Places'
  BY <1>7, SameIter DEF StealImplicitly, control, code, Places, Attached, DoneWithLeft
<1>8. CASE UNCHANGED vars
  BY <1>8, SameIter DEF vars, code, control, Places, Attached, DoneWithLeft
<1> QED
  BY <1>1, <1>2, <1>3, <1>4, <1>5, <1>6, <1>7, <1>8 DEF Next, Step, Steals, Over

----------------------------------------------------------------------------
\* An iteration that is not over is the one its block is reserved for.
LEMMA Active ==
  ASSUME Types, Numbers, Places, NEW b \in Blocks, pc[b] # "idle"
  PROVE  Started(b) /\ Reserved(b) >= 1 /\ ~(b = Current /\ cpc \in NotStarted)
BY ReservedBlocks DEF Numbers, Places, Started, Types

\* The block to the left of an iteration that still needs it.
LEMMA LeftInUse ==
  ASSUME Types, Numbers, Places, NEW b \in Blocks, ~DoneWithLeft(b)
  PROVE  /\ Left(b) \in Blocks /\ Left(b) # b /\ Left(b) # Current /\ Right(Left(b)) = b
         /\ b # NextBlock /\ RightPending(Left(b))
         /\ Reserved(Left(b)) = Reserved(b) - 1 /\ Reserved(b) >= 1
<1>1. Left(b) \in Blocks /\ Left(b) # b /\ Right(Left(b)) = b
  BY Neighbours
<1>2. b # NextBlock
  BY DEF Places
<1>3. Left(b) # Current
  BY <1>1, <1>2 DEF NextBlock
<1>4. Reserved(Left(b)) = Reserved(b) - 1
  BY <1>2, ReservedBlocks DEF Types
<1>5. Reserved(b) >= 1
  BY Active DEF DoneWithLeft
<1>6. Reserved(Left(b)) >= 0
  BY <1>4, <1>5, ReservedBlocks DEF Types
<1> QED
  BY <1>1, <1>2, <1>3, <1>4, <1>5, <1>6 DEF RightPending

\* The frames of the iterations are finitely many.
LEMMA AliveFinite == IsFiniteSet(Alive) /\ IsFiniteSet(Blocks) /\ Cardinality(Blocks) = K
<1>1. IsFiniteSet(Blocks) /\ Cardinality(Blocks) = K
  BY FS_Interval, RingAssumption DEF Blocks
<1>2. Alive \subseteq Blocks
  BY DEF Alive
<1> QED
  BY <1>1, <1>2, FS_Subset

\* No iteration is alive when the last child returns or none is left at the sync.
LEMMA LastReturn ==
  ASSUME Types, Places, Holdings, ControlPlace, Joins, NEW w \in Workers, NEW b \in Blocks,
         ReturnLast(w, b)
  PROVE  /\ cpc = "cleanup" /\ \A v \in Workers : ~HasControl(v)
         /\ Alive = {b} /\ \A c \in Blocks \ {b} : pc[c] = "idle"
<1>1. /\ Executes(w, b) /\ pc[b] = "return" /\ join_counter = 1
      /\ \A c \in Blocks : pc[c] \notin Finishing
  BY DEF ReturnLast, ControlLocked
<1>2. b \in Alive
  BY <1>1, RunsPromoted DEF Alive, AlivePCs
<1>3. Cardinality(Alive) \in Nat /\ Cardinality(Alive) >= 1
  <2>1. Cardinality(Alive) # 0
    BY <1>2, AliveFinite, FS_EmptySet
  <2> QED
    BY <2>1, AliveFinite, FS_CardinalityType
<1>4. cpc \in Ended
  BY <1>1, <1>3 DEF Joins
<1>5. (\A v \in Workers : ~HasControl(v)) /\ Cardinality(Alive) = 1
  BY <1>1, <1>4 DEF Joins, AllIdle
<1>6. cpc = "cleanup"
  BY <1>4, <1>5 DEF Ended, ControlPlace, HasControl
<1>7. Alive = {b}
  BY <1>2, <1>5, AliveFinite, FS_Singleton
<1>8. \A c \in Blocks \ {b} : pc[c] = "idle"
  <2> SUFFICES ASSUME NEW c \in Blocks, c # b PROVE pc[c] = "idle"
    OBVIOUS
  <2>1. ~Attached(c)
    BY <1>6 DEF Attached
  <2>2. c \notin Alive
    BY <1>7
  <2> QED
    BY <1>1, <2>1, <2>2 DEF Alive, Places
<1> QED
  BY <1>5, <1>6, <1>7, <1>8

\* A sync with join counter 1 finds all iterations over.
LEMMA NoChildrenAtSync ==
  ASSUME Types, Places, Joins, NEW w \in Workers, SyncControl(w), join_counter = 1
  PROVE  AllIdle
<1>1. cpc = "sync" /\ \A c \in Blocks : pc[c] \notin Finishing
  BY DEF SyncControl, RunsControl, ControlLocked
<1>2. Cardinality(Alive) = 0
  BY <1>1, AliveFinite, FS_CardinalityType DEF Joins, Ended
<1>3. Alive = {}
  BY <1>2, AliveFinite, FS_EmptySet
<1> QED
  BY <1>1, <1>3 DEF Alive, Attached, Places, AllIdle

----------------------------------------------------------------------------
\* The cleanup counters tell what is still to come at the start.
LEMMA CountersInit == Init => Counters
<1> SUFFICES ASSUME Init, NEW b \in Blocks
             PROVE  cleanup_counter[b] \in 0 .. InitialVal /\ Counted(b)
  BY DEF Counters
<1>1. /\ current_iter = 1 /\ cpc = "loop" /\ pc[b] = "idle"
      /\ iter_num = [c \in Blocks |-> IF c = 0 THEN 0 ELSE -1]
      /\ cleanup_counter[b] = (IF b = 0 THEN 17 ELSE IF b = 1 THEN 33 ELSE 1)
  BY DEF Init, FinishVal, ThrottleVal, InitialVal
<1>2. Current = Idx(1) /\ Reserved(b) = Reservation(1, b)
  BY <1>1 DEF Current, Reserved
<1>3. Idx(1) = 1 /\ Idx(0) = 0 /\ 0 \in Blocks /\ 1 \in Blocks
  <2>1. 1 = 0 * K + 1 /\ 0 = 0 * K + 0 /\ 1 \in 0 .. K - 1 /\ 0 \in 0 .. K - 1
    BY RingAssumption
  <2> QED
    BY <2>1, ModIs DEF Idx, Blocks
<1>4. Reservation(1, Idx(1)) = 1 /\ Reservation(1, Idx(0)) = 0
  BY ReservedBy, RingAssumption
<1>5. b \notin {0, 1} => Reservation(1, b) < 0
  BY <1>3, Reservations
<1>6. Right(0) = 1
  BY <1>3, BlockOf
<1>7. ThrottlePending(b)
  BY <1>1 DEF ThrottlePending
<1>8. Numbers
  BY NumbersInit
<1>9. CASE b = 0
  <2>1. ~OwnPending(b)
    BY <1>2, <1>3, <1>4, <1>9 DEF OwnPending
  <2>2. ~Started(1)
    BY <1>1, <1>3, <1>4 DEF Started, Reserved
  <2>3. RightPending(b)
    BY <1>2, <1>3, <1>4, <1>6, <1>9, <2>2 DEF RightPending
  <2> QED
    BY <1>1, <1>7, <1>9, <2>1, <2>3 DEF Counted, FinishVal, ThrottleVal, InitialVal
<1>10. CASE b = 1
  <2>1. ~Started(b) /\ Reserved(b) = 1
    BY <1>1, <1>2, <1>3, <1>4, <1>10 DEF Started
  <2>2. OwnPending(b) /\ RightPending(b)
    BY <1>2, <1>3, <1>10, <2>1 DEF OwnPending, RightPending
  <2> QED
    BY <1>1, <1>7, <1>10, <2>2 DEF Counted, FinishVal, ThrottleVal, InitialVal
<1>11. CASE b \notin {0, 1}
  <2>1. ~OwnPending(b) /\ ~RightPending(b)
    BY <1>2, <1>3, <1>5, <1>11, Reservations DEF OwnPending, RightPending
  <2> QED
    BY <1>1, <1>7, <1>11, <2>1 DEF Counted, FinishVal, ThrottleVal, InitialVal
<1> QED
  BY <1>9, <1>10, <1>11

\* The sum has one of six values.
LEMMA CountedRange ==
  ASSUME NEW b \in Blocks, Counted(b)
  PROVE  /\ cleanup_counter[b] \in {0, 1, 16, 17, 32, 33}
         /\ cleanup_counter[b] \in 0 .. InitialVal
BY DEF Counted, FinishVal, ThrottleVal, InitialVal

\* The cleanup counters tell what is still to come, after every step.
LEMMA CountersStep ==
  ASSUME Types, Numbers, Places, Counters, BlockStatuses, IterStatuses, Holdings, ControlPlace,
         Joins, [Next]_vars, Types'
  PROVE  Counters'
<1>0. Current \in Blocks /\ NextBlock \in Blocks /\ Current # NextBlock /\ Right(Current) = NextBlock
      /\ Left(NextBlock) = Current /\ Left(Current) \in Blocks
  BY CurrentBlocks DEF Types, NextBlock
<1>c. ASSUME \A b \in Blocks : Counted(b)' PROVE Counters'
  <2>1. \A b \in Blocks : (cleanup_counter[b] \in 0 .. InitialVal)'
    BY <1>c DEF Counted, FinishVal, ThrottleVal, InitialVal
  <2> QED
    BY <1>c, <2>1 DEF Counters
\* a step that counts nothing
<1>s. ASSUME UNCHANGED <<cleanup_counter, iter_num, current_iter>>,
             cpc = "setup" <=> cpc' = "setup", cpc \in Ended => cpc' \in Ended,
             \A b \in Blocks : (pc'[b] = "idle" <=> pc[b] = "idle")
                               /\ (DoneWithLeft(b) <=> DoneWithLeft(b)')
      PROVE  Counters'
  <2>1. /\ NextBlock' = NextBlock /\ Current' = Current
        /\ \A b \in Blocks : Reserved(b)' = Reserved(b) /\ Started(b)' = Started(b)
    BY <1>s, SameIter DEF Started
  <2>2. CASE cpc \in Ended /\ AllIdle
    BY <1>s, <2>2 DEF Counters, AllIdle
  <2>3. CASE \A b \in Blocks : Counted(b)
    <3> SUFFICES ASSUME NEW b \in Blocks PROVE Counted(b)'
      BY <1>c
    <3>1. OwnPending(b)' = OwnPending(b)
      BY <1>s, <2>1 DEF OwnPending
    <3>2. RightPending(b)' = RightPending(b)
      BY <1>s, <2>1, Neighbours DEF RightPending
    <3>3. ThrottlePending(b)' = ThrottlePending(b)
      BY <1>s, <2>1 DEF ThrottlePending
    <3> QED
      BY <1>s, <2>3, <3>1, <3>2, <3>3 DEF Counted
  <2> QED
    BY <2>2, <2>3 DEF Counters
\* the throttle point of the next iteration
<1>t. ASSUME UNCHANGED <<iter_num, current_iter, pc>>, cpc \in AtThrottle \ {"setup"}, cpc' = "setup",
             cleanup_counter' = [cleanup_counter EXCEPT ![NextBlock] = @ - ThrottleVal]
      PROVE  Counters'
  <2>1. /\ NextBlock' = NextBlock /\ Current' = Current
        /\ \A b \in Blocks : Reserved(b)' = Reserved(b) /\ Started(b)' = Started(b)
                             /\ DoneWithLeft(b)' = DoneWithLeft(b)
    BY <1>t, SameIter DEF Started, DoneWithLeft
  <2>2. \A b \in Blocks : Counted(b)
    BY <1>t DEF Counters, Ended, AtThrottle
  <2> SUFFICES ASSUME NEW b \in Blocks PROVE Counted(b)'
    BY <1>c
  <2>3. OwnPending(b)' = OwnPending(b)
    BY <1>t, <2>1 DEF OwnPending
  <2>4. RightPending(b)' = RightPending(b)
    BY <1>t, <2>1, Neighbours DEF RightPending
  <2>5. ThrottlePending(b) /\ (ThrottlePending(b)' <=> b # NextBlock)
    BY <1>t, <2>1 DEF ThrottlePending
  <2>6. cleanup_counter'[b] = IF b = NextBlock THEN cleanup_counter[b] - ThrottleVal ELSE cleanup_counter[b]
    BY <1>t DEF Types
  <2>7. Counted(b)
    BY <2>2
  <2> QED
    BY <2>3, <2>4, <2>5, <2>6, <2>7 DEF Counted, FinishVal, ThrottleVal
\* the end of an iteration, counted on its left block
<1>l. ASSUME NEW b \in Blocks, NEW p, UNCHANGED <<iter_num, current_iter, cpc>>, ~DoneWithLeft(b),
             p \in {"stage_done", "attached_own"}, pc' = [pc EXCEPT ![b] = p],
             cleanup_counter' = [cleanup_counter EXCEPT ![Left(b)] = @ - FinishVal]
      PROVE  Counters'
  <2>1. /\ NextBlock' = NextBlock /\ Current' = Current
        /\ \A c \in Blocks : Reserved(c)' = Reserved(c) /\ Started(c)' = Started(c)
    BY <1>l, SameIter DEF Started
  <2>2. \A c \in Blocks : Counted(c)
    BY <1>l DEF Counters, AllIdle, DoneWithLeft
  <2>3. pc[b] # "idle" /\ pc'[b] # "idle" /\ Started(b) /\ DoneWithLeft(b)'
    BY <1>l, Active DEF DoneWithLeft, Types
  <2>4. RightPending(Left(b)) /\ Left(b) \in Blocks /\ Left(b) # Current /\ Right(Left(b)) = b
        /\ Left(b) # b
    BY <1>l, LeftInUse
  <2> SUFFICES ASSUME NEW c \in Blocks PROVE Counted(c)'
    BY <1>c
  <2>5. OwnPending(c)' = OwnPending(c)
    BY <1>l, <2>1, <2>3 DEF OwnPending, Types
  <2>6. RightPending(c)' <=> RightPending(c) /\ c # Left(b)
    <3>1. CASE c = Left(b)
      <4>1. ~RightPending(c)'
        BY <2>1, <2>3, <2>4, <3>1 DEF RightPending
      <4> QED
        BY <3>1, <4>1
    <3>2. CASE c # Left(b)
      <4>1. Right(c) # b /\ Right(c) \in Blocks
        BY <3>2, Neighbours
      <4>2. DoneWithLeft(Right(c))' = DoneWithLeft(Right(c))
        BY <1>l, <4>1 DEF DoneWithLeft, Types
      <4> QED
        BY <2>1, <3>2, <4>1, <4>2 DEF RightPending
    <3> QED
      BY <3>1, <3>2
  <2>7. ThrottlePending(c)' = ThrottlePending(c)
    BY <1>l, <2>1 DEF ThrottlePending
  <2>8. cleanup_counter'[c] = IF c = Left(b) THEN cleanup_counter[c] - FinishVal ELSE cleanup_counter[c]
    BY <1>l DEF Types
  <2>9. Counted(c)
    BY <2>2
  <2>10. CASE c = Left(b)
    <3>1. RightPending(c) /\ ~RightPending(c)'
      BY <2>4, <2>6, <2>10
    <3> QED
      BY <2>5, <3>1, <2>7, <2>8, <2>9, <2>10 DEF Counted, FinishVal, ThrottleVal
  <2>11. CASE c # Left(b)
    BY <2>5, <2>6, <2>7, <2>8, <2>9, <2>11 DEF Counted
  <2> QED
    BY <2>10, <2>11
\* the end of an iteration, counted on its own block
<1>o. ASSUME NEW b \in Blocks, UNCHANGED <<iter_num, current_iter>>, cpc = "setup" <=> cpc' = "setup",
             pc[b] \in {"free_own", "attached_own"}, pc' = [pc EXCEPT ![b] = "idle"],
             cleanup_counter' = [cleanup_counter EXCEPT ![b] = @ - FinishVal]
      PROVE  Counters'
  <2>1. /\ NextBlock' = NextBlock /\ Current' = Current
        /\ \A c \in Blocks : Reserved(c)' = Reserved(c) /\ Started(c)' = Started(c)
    BY <1>o, SameIter DEF Started
  <2>2. \A c \in Blocks : Counted(c)
    BY <1>o DEF Counters, AllIdle
  <2>3. pc[b] # "idle" /\ Started(b) /\ Reserved(b) >= 1 /\ pc'[b] = "idle"
    BY <1>o, Active DEF Types
  <2>a. \A c \in Blocks : DoneWithLeft(c)' = DoneWithLeft(c)
    BY <1>o DEF DoneWithLeft, Types
  <2> SUFFICES ASSUME NEW c \in Blocks PROVE Counted(c)'
    BY <1>c
  <2>4. RightPending(c)' = RightPending(c)
    BY <1>o, <2>1, <2>a, Neighbours DEF RightPending
  <2>5. ThrottlePending(c)' = ThrottlePending(c)
    BY <1>o, <2>1 DEF ThrottlePending
  <2>6. Counted(c)
    BY <2>2
  <2>7. CASE c = b
    <3>1. OwnPending(c) /\ ~OwnPending(c)'
      BY <2>1, <2>3, <2>7 DEF OwnPending
    <3>2. cleanup_counter'[c] = cleanup_counter[c] - FinishVal
      BY <1>o, <2>7 DEF Types
    <3> QED
      BY <2>4, <2>5, <2>6, <3>1, <3>2 DEF Counted, FinishVal, ThrottleVal
  <2>8. CASE c # b
    <3>1. OwnPending(c)' = OwnPending(c)
      BY <1>o, <2>1, <2>8 DEF OwnPending, Types
    <3>2. cleanup_counter'[c] = cleanup_counter[c]
      BY <1>o, <2>8 DEF Types
    <3> QED
      BY <2>4, <2>5, <2>6, <3>1, <3>2 DEF Counted
  <2> QED
    BY <2>7, <2>8
<1>1. ASSUME NEW w \in Workers, ControlStep(w) PROVE Counters'
  <2>1. CASE InitIterFrame(w)
    <3>1. /\ current_iter' = current_iter /\ cpc = "loop" /\ cpc' = "body"
          /\ iter_num' = [iter_num EXCEPT ![Current] = current_iter]
          /\ pc' = [pc EXCEPT ![Current] = "test"] /\ cleanup_counter' = cleanup_counter
      BY <2>1 DEF InitIterFrame, RunsControl, Goto
    <3>2. /\ NextBlock' = NextBlock /\ Current' = Current
          /\ \A c \in Blocks : Reserved(c)' = Reserved(c)
      BY <3>1, SameIter
    <3>3. Reserved(Current) = current_iter /\ Reserved(Current) >= 1 /\ ~Started(Current)
      BY <1>0, <3>1, ReservedBlocks DEF Numbers, NotStarted, Started, Types
    <3>4. \A c \in Blocks : Counted(c)
      BY <3>1 DEF Counters, Ended
    <3>5. pc'[Current] = "test" /\ Started(Current)'
      BY <1>0, <3>1, <3>2, <3>3 DEF Started, Types
    <3>6. Reserved(Left(Current)) >= 0
      BY <1>0, <3>3, ReservedBlocks DEF Types
    <3> SUFFICES ASSUME NEW c \in Blocks PROVE Counted(c)'
      BY <1>c
    <3>7. Counted(c)
      BY <3>4
    <3>8. OwnPending(c)' = OwnPending(c)
      <4>1. CASE c = Current
        <5>1. OwnPending(c)
          BY <3>3, <4>1 DEF OwnPending
        <5>2. OwnPending(c)'
          BY <3>1, <3>2, <3>3, <3>5, <4>1 DEF OwnPending
        <5> QED
          BY <5>1, <5>2
      <4>2. CASE c # Current
        BY <3>1, <3>2, <4>2 DEF OwnPending, Started, Types
      <4> QED
        BY <4>1, <4>2
    <3>9. RightPending(c)' = RightPending(c)
      <4>1. CASE Right(c) = Current
        <5>1. c = Left(Current)
          BY <4>1, Neighbours
        <5>2. RightPending(c)
          BY <3>3, <3>6, <4>1, <5>1 DEF RightPending
        <5>3. RightPending(c)'
          BY <3>2, <3>5, <3>6, <4>1, <5>1 DEF RightPending, DoneWithLeft
        <5> QED
          BY <5>2, <5>3
      <4>2. CASE Right(c) # Current
        <5>1. Right(c) \in Blocks
          BY Neighbours
        <5>2. DoneWithLeft(Right(c))' = DoneWithLeft(Right(c)) /\ Started(Right(c))' = Started(Right(c))
          BY <3>1, <3>2, <4>2, <5>1 DEF DoneWithLeft, Started, Types
        <5> QED
          BY <3>2, <5>2 DEF RightPending
      <4> QED
        BY <4>1, <4>2
    <3>10. ThrottlePending(c)' = ThrottlePending(c)
      BY <3>1 DEF ThrottlePending
    <3> QED
      BY <3>1, <3>7, <3>8, <3>9, <3>10 DEF Counted
  <2>2. CASE SetupNext(w)
    <3>1. /\ current_iter' = current_iter + 1 /\ cpc = "setup" /\ cpc' = "loop"
          /\ iter_num' = iter_num /\ pc' = pc
          /\ cleanup_counter' = [cleanup_counter EXCEPT ![NextBlock] = InitialVal]
      BY <2>2 DEF SetupNext, RunsControl, code
    <3>2. /\ Current' = NextBlock /\ NextBlock' = Right(NextBlock)
          /\ \A c \in Blocks : Reserved(c)' = IF c = NextBlock THEN current_iter + 1 ELSE Reserved(c)
      BY <3>1, NextIter DEF Types
    <3>3. \A c \in Blocks : Counted(c)
      BY <3>1 DEF Counters, Ended
    <3>4. iter_num[NextBlock] < current_iter + 1
      BY <1>0, <3>1, ReservedBlocks, RingAssumption DEF Numbers, NotStarted, Types
    <3>5. \A c \in Blocks : Started(c)' <=> c # NextBlock /\ Started(c)
      BY <1>0, <3>1, <3>2, <3>4 DEF Started, Types
    <3> SUFFICES ASSUME NEW c \in Blocks PROVE Counted(c)'
      BY <1>c
    <3>6. ThrottlePending(c)'
      BY <3>1 DEF ThrottlePending
    <3>7. CASE c = NextBlock
      <4>1. Reserved(c)' >= 1 /\ ~Started(c)'
        BY <3>2, <3>5, <3>7 DEF Types
      <4>2. OwnPending(c)'
        BY <4>1 DEF OwnPending
      <4>3. RightPending(c)'
        BY <3>2, <3>7 DEF RightPending
      <4>4. cleanup_counter'[c] = InitialVal
        BY <3>1, <3>7 DEF Types
      <4> QED
        BY <3>6, <4>2, <4>3, <4>4 DEF Counted, InitialVal, FinishVal, ThrottleVal
    <3>8. CASE c # NextBlock
      <4>1. Reserved(c)' = Reserved(c) /\ (Started(c)' <=> Started(c))
        BY <3>2, <3>5, <3>8
      <4>2. OwnPending(c)' = OwnPending(c)
        BY <3>1, <4>1 DEF OwnPending
      <4>3. RightPending(c)' = RightPending(c)
        <5>1. CASE c = Current
          <6>1. RightPending(c)
            BY <5>1 DEF RightPending
          <6>2. Right(c) = NextBlock /\ Reserved(c)' >= 0 /\ ~Started(Right(c))'
            BY <1>0, <3>5, <4>1, <5>1, ReservedBlocks DEF Types
          <6>3. RightPending(c)'
            BY <6>2 DEF RightPending
          <6> QED
            BY <6>1, <6>3
        <5>2. CASE c # Current
          <6>1. Right(c) \in Blocks /\ Right(c) # NextBlock
            BY <1>0, <5>2, Neighbours
          <6>2. (Started(Right(c))' <=> Started(Right(c)))
                /\ (DoneWithLeft(Right(c))' <=> DoneWithLeft(Right(c)))
            BY <3>1, <3>5, <6>1 DEF DoneWithLeft
          <6> QED
            BY <3>2, <3>8, <4>1, <5>2, <6>2 DEF RightPending
        <5> QED
          BY <5>1, <5>2
      <4>4. ThrottlePending(c) /\ Counted(c)
        BY <3>3, <3>8 DEF ThrottlePending
      <4>5. cleanup_counter'[c] = cleanup_counter[c]
        BY <3>1, <3>8 DEF Types
      <4> QED
        BY <3>6, <4>2, <4>3, <4>4, <4>5 DEF Counted
    <3> QED
      BY <3>7, <3>8
  <2>3. CASE EndLoop(w) \/ SyncControl(w) \/ CleanUp(w) \/ ThrottleSlow(w)
    <3>1. /\ UNCHANGED <<cleanup_counter, iter_num, current_iter, pc>>
          /\ cpc # "setup" /\ cpc' # "setup"
          /\ cpc \in Ended => cpc' \in Ended
      BY <2>3 DEF EndLoop, SyncControl, CleanUp, ThrottleSlow, RunsControl, ring, code, Ended
    <3> QED
      BY <1>s, <3>1 DEF DoneWithLeft
  <2>4. CASE ThrottleFast(w) \/ SuspendControl(w)
    BY <1>t, <2>4 DEF ThrottleFast, SuspendControl, RunsControl, code, AtThrottle
  <2> QED
    BY <1>1, <2>1, <2>2, <2>3, <2>4 DEF ControlStep
\* a step of an iteration that stays where it is for its neighbours
<1>m. ASSUME NEW b \in Blocks, NEW p, UNCHANGED <<cleanup_counter, iter_num, current_iter>>,
             cpc = "setup" <=> cpc' = "setup", cpc \in Ended => cpc' \in Ended,
             pc' = [pc EXCEPT ![b] = p], pc[b] # "idle", p # "idle",
             DoneWithLeft(b) <=> p \in {"idle", "stage_done", "check_right", "free_own", "attached_own"}
      PROVE  Counters'
  <2>1. \A c \in Blocks : pc'[c] = IF c = b THEN p ELSE pc[c]
    BY <1>m DEF Types
  <2>2. \A c \in Blocks : DoneWithLeft(c) <=> DoneWithLeft(c)'
    BY <1>m, <2>1 DEF DoneWithLeft
  <2> QED
    BY <1>m, <1>s, <2>1, <2>2
<1>2. ASSUME NEW w \in Workers, ResumeFrame(w) PROVE Counters'
  <2>1. CASE next_frame_ff[w] \in Blocks
    <3> DEFINE b == next_frame_ff[w]
    <3>1. pc[b] = "asleep"
      BY <2>1 DEF Holdings
    <3>2. pc' = [pc EXCEPT ![b] = "stall"] /\ UNCHANGED <<ring, control>>
      BY <1>2, <2>1 DEF ResumeFrame, Types
    <3> HIDE DEF b
    <3>3. b \in Blocks
      BY <2>1 DEF b
    <3> QED
      BY <3>1, <3>2, <3>3, <1>m DEF ring, control, DoneWithLeft
  <2>2. CASE next_frame_ff[w] \notin Blocks
    <3>1. pc' = pc /\ UNCHANGED <<ring, control>>
      BY <1>2, <2>2 DEF ResumeFrame, Types
    <3> QED
      BY <3>1, <1>s DEF ring, control, DoneWithLeft
  <2> QED
    BY <2>1, <2>2
<1>3. ASSUME NEW w \in Workers, NEW b \in Blocks, UserStep(w, b) PROVE Counters'
  <2>1. ASSUME NEW t \in BOOLEAN, TestCondition(w, b, t) PROVE Counters'
    BY <2>1, <1>m DEF TestCondition, Goto, ring, DoneWithLeft
  <2>2. ASSUME NEW s \in 1 .. MaxStage, Stage(w, b, s) PROVE Counters'
    BY <2>2, <1>s DEF Stage, control, DoneWithLeft
  <2>3. ASSUME NEW s \in 1 .. FinalStage, StageWait(w, b, s) PROVE Counters'
    BY <2>3, <1>m DEF StageWait, Goto, control, DoneWithLeft
  <2> QED
    BY <1>3, <2>1, <2>2, <2>3 DEF UserStep
<1>4. ASSUME NEW w \in Workers, NEW b \in Blocks, WaitStep(w, b) PROVE Counters'
  <2> USE DEF Goto, ring, control, DoneWithLeft
  <2>1. CASE CachedEnough(w, b)
    BY <2>1, <1>m DEF CachedEnough, AfterWait
  <2>2. CASE ReadLeft(w, b)
    BY <2>2, <1>m DEF ReadLeft, AfterWait
  <2>3. CASE Stall(w, b)
    BY <2>3, <1>m DEF Stall
  <2>4. CASE Promote(w, b)
    BY <2>4, <1>m, PromotesAttached DEF Promote, InstallIteration, Ended
  <2>5. CASE AlreadyPromoted(w, b)
    BY <2>5, <1>m DEF AlreadyPromoted
  <2>6. CASE SuspendFails(w, b)
    BY <2>6, <1>m DEF SuspendFails
  <2>7. CASE Suspend(w, b)
    BY <2>7, <1>m DEF Suspend
  <2>8. CASE SuspendNext(w, b)
    BY <2>8, <1>m DEF SuspendNext
  <2> HIDE DEF Goto, ring, control, DoneWithLeft
  <2> QED
    BY <1>4, <2>1, <2>2, <2>3, <2>4, <2>5, <2>6, <2>7, <2>8 DEF WaitStep
<1>5. ASSUME NEW w \in Workers, NEW b \in Blocks, LeaveStep(w, b) PROVE Counters'
  <2> USE DEF Goto, ring, control, DoneWithLeft
  <2>1. CASE FinishFinalStage(w, b)
    BY <2>1, <1>m DEF FinishFinalStage
  <2>2. CASE LeaveFrame(w, b)
    BY <2>2, <1>m DEF LeaveFrame
  <2>3. CASE AttachedDone(w, b)
    BY <2>3, <1>m DEF AttachedDone
  <2>4. CASE AttachedFreeLeft(w, b)
    BY <2>4, <1>l DEF AttachedFreeLeft, FreeBlock, CountFinish
  <2>5. CASE AttachedFreeOwn(w, b)
    BY <2>5, <1>o, EndsAttached DEF AttachedFreeOwn, FreeBlock, CountFinish
  <2>6. CASE ReturnLast(w, b)
    <3>1. cpc = "cleanup" /\ \A c \in Blocks \ {b} : pc[c] = "idle"
      BY <2>6, LastReturn
    <3>2. AllIdle' /\ cpc' = "cleanup" /\ cleanup_counter' = cleanup_counter
      BY <2>6, <3>1 DEF ReturnLast, AllIdle, Types
    <3> QED
      BY <3>2 DEF Counters, Ended
  <2>7. CASE ReturnOther(w, b)
    BY <2>7, <1>m DEF ReturnOther
  <2>8. CASE FreeLeft(w, b)
    BY <2>8, <1>l DEF FreeLeft, FreeBlock, CountFinish
  <2>9. CASE StageDone(w, b)
    BY <2>9, <1>m DEF StageDone
  <2>10. CASE CheckRight(w, b)
    BY <2>10, <1>m DEF CheckRight
  <2>11. CASE FreeOwn(w, b)
    BY <2>11, <1>o DEF FreeOwn, FreeBlock, CountFinish
  <2> HIDE DEF Goto, ring, control, DoneWithLeft
  <2> QED
    BY <1>5, <2>1, <2>2, <2>3, <2>4, <2>5, <2>6, <2>7, <2>8, <2>9, <2>10, <2>11 DEF LeaveStep
<1>6. ASSUME NEW v \in Workers, NEW w \in Workers, StealControl(v, w) PROVE Counters'
  <2>1. /\ cpc = "body" /\ cpc' = "throttle"
        /\ UNCHANGED <<cleanup_counter, iter_num, current_iter, pc>>
    BY <1>6 DEF StealControl, Stealable, RunsControl, InstallIteration
  <2> QED
    BY <2>1, <1>s DEF DoneWithLeft, Ended
<1>7. ASSUME NEW v \in Workers, NEW w \in Workers, StealImplicitly(v, w) PROVE Counters'
  BY <1>7, <1>s DEF StealImplicitly, control, code, DoneWithLeft
<1>8. CASE UNCHANGED vars
  BY <1>8, <1>s DEF vars, ring, control, code, DoneWithLeft
<1> QED
  BY <1>1, <1>2, <1>3, <1>4, <1>5, <1>6, <1>7, <1>8 DEF Next, Step, Steals, Over

----------------------------------------------------------------------------
\* A block whose left-over is counted out to the throttle point has no running
\* iteration.
LEMMA ReadyMeansIdle ==
  ASSUME Types, Numbers, Places, Counters, NEW b \in Blocks, ~DoneWithLeft(b),
         ReadyForReuse(CountFinish(Left(b)))
  PROVE  pc[Left(b)] = "idle"
<1>1. Left(b) \in Blocks /\ RightPending(Left(b))
  BY LeftInUse
<1>2. Counted(Left(b))
  BY <1>1 DEF Counters, AllIdle, DoneWithLeft
<1>3. ~OwnPending(Left(b))
  BY <1>1, <1>2 DEF Counted, ReadyForReuse, CountFinish, FinishVal, ThrottleVal
<1> QED
  BY <1>1, <1>3, Active DEF OwnPending

\* The current block while its iteration is still to start or attached.
LEMMA CurrentCount ==
  ASSUME Types, Numbers, Places, Counters, cpc \in {"loop", "body"}
  PROVE  cleanup_counter[Current] = InitialVal
<1>1. Current \in Blocks /\ Current # NextBlock /\ Counted(Current)
  BY CurrentBlocks DEF Counters, Ended, Types
<1>2. Reserved(Current) >= 1
  BY <1>1, ReservedBlocks DEF Types
<1>3. OwnPending(Current)
  <2>1. CASE cpc = "loop"
    BY <1>1, <1>2, <2>1 DEF OwnPending, Numbers, NotStarted, Started, Types
  <2>2. CASE cpc = "body"
    BY <1>2, <2>2 DEF OwnPending, Places, AttachedPCs
  <2> QED
    BY <2>1, <2>2
<1>4. RightPending(Current) /\ ThrottlePending(Current)
  BY <1>1 DEF RightPending, ThrottlePending
<1> QED
  BY <1>1, <1>3, <1>4 DEF Counted, InitialVal, FinishVal, ThrottleVal

\* Block statuses follow the cleanup counters at the start.
LEMMA BlockStatusesInit == Init => BlockStatuses
<1> SUFFICES ASSUME Init, NEW b \in Blocks
             PROVE  /\ block_status[b] = "available" <=> cleanup_counter[b] <= ThrottleVal
                    /\ cleanup_counter[b] <= ThrottleVal => iter_status[b] = "finished"
                    /\ b = Current /\ cpc = "loop" => iter_status[b] = "finished"
  BY DEF BlockStatuses
<1>1. /\ cleanup_counter[b] = (IF b = 0 THEN 17 ELSE IF b = 1 THEN 33 ELSE 1)
      /\ block_status[b] = (IF b \in {0, 1} THEN "in_use" ELSE "available")
      /\ iter_status[b] = (IF b = 0 THEN "standard" ELSE "finished") /\ current_iter = 1
  BY DEF Init, FinishVal, ThrottleVal, InitialVal
<1>2. Current = 1
  <2>1. 1 = 0 * K + 1 /\ 1 \in 0 .. K - 1
    BY RingAssumption
  <2> QED
    BY <1>1, <2>1, ModIs DEF Idx, Current
<1> QED
  BY <1>1, <1>2 DEF ThrottleVal

\* Block statuses follow the cleanup counters, after every step.
LEMMA BlockStatusesStep ==
  ASSUME Types, Numbers, Places, Counters, BlockStatuses, IterStatuses, Holdings, ControlPlace,
         [Next]_vars
  PROVE  BlockStatuses'
<1>0. Current \in Blocks /\ NextBlock \in Blocks /\ Current # NextBlock
  BY CurrentBlocks DEF Types
<1>u. ASSUME UNCHANGED <<cleanup_counter, block_status, current_iter>>, cpc' = "loop" => cpc = "loop",
             \A b \in Blocks : iter_status[b] = "finished" => iter_status'[b] = "finished"
      PROVE  BlockStatuses'
  BY <1>u, SameIter DEF BlockStatuses
<1>f. ASSUME NEW b \in Blocks, FreeBlock(b), UNCHANGED current_iter, cpc' = "loop" => cpc = "loop"
      PROVE  BlockStatuses'
  BY <1>f, SameIter DEF BlockStatuses, FreeBlock, CountFinish, ReadyForReuse, FinishVal, ThrottleVal, Types
<1>r. ASSUME NEW b \in Blocks, NEW v, UNCHANGED <<cleanup_counter, block_status, current_iter>>,
             cpc' = "loop" => cpc = "loop",
             (RightResumable(b) /\ ResumeRight(b, v)) \/ UNCHANGED iter_status
      PROVE  BlockStatuses'
  <2>1. \A c \in Blocks : iter_status[c] = "finished" => iter_status'[c] = "finished"
    BY <1>r, Neighbours DEF RightResumable, ResumeRight, Types
  <2> QED
    BY <1>r, <1>u, <2>1
<1>1. ASSUME NEW w \in Workers, ControlStep(w) PROVE BlockStatuses'
  <2>1. CASE InitIterFrame(w)
    <3>1. /\ UNCHANGED <<cleanup_counter, block_status, current_iter>> /\ cpc = "loop" /\ cpc' = "body"
          /\ iter_status' = [iter_status EXCEPT ![Current] = "standard"]
      BY <2>1 DEF InitIterFrame, RunsControl
    <3>2. cleanup_counter[Current] = InitialVal
      BY <3>1, CurrentCount
    <3> QED
      BY <1>0, <3>1, <3>2, SameIter DEF BlockStatuses, InitialVal, FinishVal, ThrottleVal, Types
  <2>2. CASE SetupNext(w)
    <3>1. /\ current_iter' = current_iter + 1 /\ iter_status' = iter_status
          /\ cleanup_counter' = [cleanup_counter EXCEPT ![NextBlock] = InitialVal]
          /\ block_status' = [block_status EXCEPT ![NextBlock] = "in_use"]
          /\ RunsControl(w, "setup")
      BY <2>2 DEF SetupNext
    <3>2. iter_status[NextBlock] = "finished" /\ Current' = NextBlock
      BY <3>1, SetupFacts, NextIter DEF Types
    <3> QED
      BY <1>0, <3>1, <3>2 DEF BlockStatuses, InitialVal, FinishVal, ThrottleVal, Types
  <2>3. CASE EndLoop(w) \/ SyncControl(w) \/ CleanUp(w) \/ ThrottleSlow(w)
    BY <1>u, <2>3 DEF EndLoop, SyncControl, CleanUp, ThrottleSlow, RunsControl, ring
  <2>4. CASE ThrottleFast(w) \/ SuspendControl(w)
    <3>1. /\ UNCHANGED <<block_status, iter_status, current_iter>> /\ cpc' = "setup"
          /\ cpc \in {"throttle", "slow"}
          /\ cleanup_counter' = [cleanup_counter EXCEPT ![NextBlock] = @ - ThrottleVal]
      BY <2>4 DEF ThrottleFast, SuspendControl, RunsControl
    <3>2. Counted(NextBlock)
      BY <1>0, <3>1 DEF Counters, Ended
    <3>3. cleanup_counter[NextBlock] - ThrottleVal <= ThrottleVal <=> cleanup_counter[NextBlock] <= ThrottleVal
      BY <1>0, <3>2, CountedRange DEF ThrottleVal
    <3> QED
      BY <1>0, <3>1, <3>3, SameIter DEF BlockStatuses, Types
  <2> QED
    BY <1>1, <2>1, <2>2, <2>3, <2>4 DEF ControlStep
<1>2. ASSUME NEW w \in Workers, ResumeFrame(w) PROVE BlockStatuses'
  BY <1>2, <1>u DEF ResumeFrame, ring, control
<1>3. ASSUME NEW w \in Workers, NEW b \in Blocks, UserStep(w, b) PROVE BlockStatuses'
  <2>1. UNCHANGED <<cleanup_counter, block_status, current_iter, iter_status, cpc>>
    BY <1>3 DEF UserStep, TestCondition, Stage, StageWait, ring, control
  <2> QED
    BY <1>u, <2>1
<1>4. ASSUME NEW w \in Workers, NEW b \in Blocks, WaitStep(w, b) PROVE BlockStatuses'
  <2>1. CASE CachedEnough(w, b) \/ ReadLeft(w, b) \/ Stall(w, b) \/ AlreadyPromoted(w, b) \/ SuspendFails(w, b)
    <3>1. UNCHANGED <<cleanup_counter, block_status, current_iter, iter_status, cpc>>
      BY <2>1 DEF CachedEnough, ReadLeft, Stall, AlreadyPromoted, SuspendFails, ring, control
    <3> QED
      BY <1>u, <3>1
  <2>2. CASE Promote(w, b)
    <3>1. /\ UNCHANGED <<cleanup_counter, block_status, current_iter>> /\ cpc' = "throttle"
          /\ iter_status' = [iter_status EXCEPT ![Current] = "promoted"]
          /\ iter_status[Current] = "standard"
      BY <2>2, PromotesAttached DEF Promote, InstallIteration, IterStatuses
    <3> QED
      BY <1>0, <1>u, <3>1 DEF Types
  <2>3. CASE Suspend(w, b)
    <3>1. iter_status[b] = "promoted"
      BY <2>3, RunsPromoted DEF Suspend, IterStatuses, RunningPCs, AlivePCs
    <3> QED
      BY <1>u, <2>3, <3>1 DEF Suspend, control, Types
  <2>4. CASE SuspendNext(w, b)
    BY <1>r, <2>4 DEF SuspendNext, control
  <2> QED
    BY <1>4, <2>1, <2>2, <2>3, <2>4 DEF WaitStep
<1>5. ASSUME NEW w \in Workers, NEW b \in Blocks, LeaveStep(w, b) PROVE BlockStatuses'
  <2>1. CASE FinishFinalStage(w, b) \/ LeaveFrame(w, b) \/ AttachedDone(w, b) \/ ReturnLast(w, b)
             \/ ReturnOther(w, b) \/ StageDone(w, b)
    <3>1. UNCHANGED <<cleanup_counter, block_status, current_iter, iter_status, cpc>>
      BY <2>1 DEF FinishFinalStage, LeaveFrame, AttachedDone, ReturnLast, ReturnOther, StageDone, ring, control
    <3> QED
      BY <1>u, <3>1
  <2>2. CASE AttachedFreeLeft(w, b) \/ FreeLeft(w, b)
    BY <1>f, <2>2, Neighbours DEF AttachedFreeLeft, FreeLeft, control
  <2>3. CASE AttachedFreeOwn(w, b) \/ FreeOwn(w, b)
    BY <1>f, <2>3 DEF AttachedFreeOwn, FreeOwn, control
  <2>4. CASE CheckRight(w, b)
    BY <1>r, <2>4 DEF CheckRight, NothingToResume, control
  <2> QED
    BY <1>5, <2>1, <2>2, <2>3, <2>4 DEF LeaveStep
<1>6. ASSUME NEW v \in Workers, NEW w \in Workers, StealControl(v, w) PROVE BlockStatuses'
  <2>1. /\ UNCHANGED <<cleanup_counter, block_status, current_iter>> /\ cpc' = "throttle"
        /\ iter_status' = [iter_status EXCEPT ![Current] = "promoted"]
        /\ iter_status[Current] = "standard"
    BY <1>0, <1>6 DEF StealControl, InstallIteration, Stealable, RunsControl, IterStatuses, Attached
  <2> QED
    BY <1>0, <1>u, <2>1 DEF Types
<1>7. ASSUME NEW v \in Workers, NEW w \in Workers, StealImplicitly(v, w) PROVE BlockStatuses'
  BY <1>r, <1>7 DEF StealImplicitly, NothingToResume, control
<1>8. CASE UNCHANGED vars
  BY <1>u, <1>8 DEF vars, ring, control
<1> QED
  BY <1>1, <1>2, <1>3, <1>4, <1>5, <1>6, <1>7, <1>8 DEF Next, Step, Steals, Over

----------------------------------------------------------------------------
\* Iteration statuses follow the places at the start.
LEMMA IterStatusesInit == Init => IterStatuses
<1> SUFFICES ASSUME Init PROVE IterStatuses
  OBVIOUS
<1>1. cpc = "loop" /\ \A b \in Blocks : pc[b] = "idle" /\ iter_status[b] \in {"standard", "finished"}
  BY DEF Init
<1> QED
  BY <1>1 DEF IterStatuses, Attached, RunningPCs, AlivePCs, Finishing

\* Iteration statuses follow the places, after every step.
LEMMA IterStatusesStep ==
  ASSUME Types, Numbers, Places, Counters, BlockStatuses, IterStatuses, Holdings, [Next]_vars
  PROVE  IterStatuses'
<1>0. Current \in Blocks
  BY CurrentBlocks DEF Types
<1> DEFINE Kept(c) == iter_status'[c] = iter_status[c] /\ pc'[c] = pc[c] /\ (Attached(c)' <=> Attached(c))
           Good(c, p, st, a) ==
             /\ a => st = "standard"
             /\ ~a /\ p \in RunningPCs \ {"suspending"} => st = "promoted"
             /\ p = "suspending" => st = "suspended"
             /\ p = "asleep" => st \in {"promoted", "suspended"}
             /\ st = "suspended" => p \in {"suspending", "asleep"}
<1>g. ASSUME \A c \in Blocks : Kept(c) \/ Good(c, pc'[c], iter_status'[c], Attached(c)')
      PROVE  IterStatuses'
  BY <1>g DEF IterStatuses
<1>h. \A c \in Blocks : Good(c, pc[c], iter_status[c], Attached(c))
  BY DEF IterStatuses
<1>a. ASSUME UNCHANGED <<cpc, current_iter>> PROVE \A c \in Blocks : Attached(c)' <=> Attached(c)
  BY <1>a, SameIter DEF Attached
\* a step of one iteration
<1>m. ASSUME NEW b \in Blocks, NEW p, UNCHANGED <<cpc, current_iter, iter_status>>,
             pc' = [pc EXCEPT ![b] = p], Good(b, p, iter_status[b], Attached(b))
      PROVE  IterStatuses'
  <2>1. \A c \in Blocks : pc'[c] = IF c = b THEN p ELSE pc[c]
    BY <1>m DEF Types
  <2> HIDE DEF Good
  <2>2. \A c \in Blocks : c # b => Kept(c)
    BY <1>a, <1>m, <2>1
  <2>3. Good(b, pc'[b], iter_status'[b], Attached(b)')
    BY <1>a, <1>m, <2>1 DEF Good
  <2> QED
    BY <1>g, <2>2, <2>3
\* the right neighbour is resumed
<1>r. ASSUME NEW b \in Blocks, NEW v, NEW p, UNCHANGED <<cpc, current_iter>>,
             ~BlockLocked(Right(b)), RightResumable(b), ResumeRight(b, v),
             pc' = [pc EXCEPT ![b] = p], Good(b, p, iter_status[b], Attached(b))
      PROVE  IterStatuses'
  <2>a. Right(b) # b /\ \A c \in Blocks : pc'[c] = IF c = b THEN p ELSE pc[c]
    BY <1>r, Neighbours DEF Types
  <2>1. Right(b) \in Blocks /\ iter_status[Right(b)] = "suspended" /\ pc[Right(b)] # "suspending"
    BY <1>r, Neighbours DEF RightResumable, BlockLocked
  <2>2. pc[Right(b)] = "asleep"
    BY <1>h, <2>1
  <2>3. \A c \in Blocks : iter_status'[c] = IF c = Right(b) THEN "promoted" ELSE iter_status[c]
    BY <1>r DEF ResumeRight, Types
  <2>4. ~Attached(Right(b))
    BY <2>1, <1>h
  <2>5. \A c \in Blocks : Attached(c)' <=> Attached(c)
    BY <1>a, <1>r
  <2>6. \A c \in Blocks : c = Right(b) => Good(c, pc'[c], iter_status'[c], Attached(c)')
    BY <2>a, <2>2, <2>3, <2>4, <2>5 DEF RunningPCs
  <2>7. Good(b, pc'[b], iter_status'[b], Attached(b)')
    BY <1>r, <2>a, <2>3, <2>5
  <2>8. \A c \in Blocks : c # b /\ c # Right(b) => Kept(c)
    BY <2>a, <2>3, <2>5
  <2> HIDE DEF Good, Kept
  <2> QED
    BY <1>g, <2>6, <2>7, <2>8
\* a block is freed
<1>f. ASSUME NEW b \in Blocks, NEW c \in Blocks, NEW p, UNCHANGED <<cpc, current_iter>>,
             FreeBlock(c), pc' = [pc EXCEPT ![b] = p],
             c = b \/ Good(b, p, iter_status[b], Attached(b)), c = b => p = "idle" /\ ~Attached(b)
                                             /\ iter_status[b] # "suspended",
             c # b /\ ReadyForReuse(CountFinish(c)) => pc[c] = "idle" /\ ~Attached(c)
      PROVE  IterStatuses'
  <2>1. \A d \in Blocks : iter_status'[d] = IF d = c /\ ReadyForReuse(CountFinish(c)) THEN "finished" ELSE iter_status[d]
    BY <1>f DEF FreeBlock, Types
  <2>2. \A d \in Blocks : pc'[d] = IF d = b THEN p ELSE pc[d]
    BY <1>f DEF Types
  <2>3. \A d \in Blocks : d # c /\ d # b => Kept(d)
    BY <1>a, <1>f, <2>1, <2>2
  <2>4. CASE c = b
    <3>1. pc'[b] = "idle" /\ ~Attached(b)' /\ iter_status'[b] # "suspended"
      BY <1>a, <1>f, <2>1, <2>2, <2>4
    <3>2. Good(b, pc'[b], iter_status'[b], Attached(b)')
      BY <3>1 DEF RunningPCs, AlivePCs, Finishing
    <3> HIDE DEF Good
    <3> QED
      BY <1>g, <2>3, <2>4, <3>2
  <2>5. CASE c # b
    <3>1. pc'[b] = p /\ iter_status'[b] = iter_status[b] /\ (Attached(b)' <=> Attached(b))
      BY <1>a, <1>f, <2>1, <2>2, <2>5
    <3>2. Good(b, pc'[b], iter_status'[b], Attached(b)')
      BY <1>f, <2>5, <3>1
    <3>3. Kept(c) \/ (pc'[c] = "idle" /\ ~Attached(c)' /\ iter_status'[c] = "finished")
      BY <1>a, <1>f, <2>1, <2>2, <2>5
    <3>4. Kept(c) \/ Good(c, pc'[c], iter_status'[c], Attached(c)')
      BY <3>3 DEF RunningPCs, AlivePCs, Finishing
    <3> HIDE DEF Good, Kept
    <3> QED
      BY <1>g, <2>3, <3>2, <3>4
  <2> QED
    BY <2>4, <2>5
\* the iteration comes off the control frame
<1>i. ASSUME NEW p, cpc = "body", cpc' = "throttle", UNCHANGED current_iter,
             pc' = [pc EXCEPT ![Current] = p], p \in RunningPCs \ {"suspending"},
             iter_status' = [iter_status EXCEPT ![Current] = "promoted"]
      PROVE  IterStatuses'
  <2>1. \A c \in Blocks : ~Attached(c)' /\ (c # Current => Kept(c))
    BY <1>0, <1>i, SameIter DEF Attached, Types
  <2>2. pc'[Current] = p /\ iter_status'[Current] = "promoted"
    BY <1>0, <1>i DEF Types
  <2>3. Good(Current, pc'[Current], iter_status'[Current], Attached(Current)')
    BY <1>0, <1>i, <2>1, <2>2, SameIter DEF RunningPCs
  <2>4. \A c \in Blocks : c # Current => Kept(c)
    BY <2>1
  <2>5. Attached(Current)' => FALSE
    BY <1>i DEF Attached
  <2>6. \A c \in Blocks : c = Current => Good(c, pc'[c], iter_status'[c], Attached(c)')
    BY <1>i, <2>1, <2>2 DEF RunningPCs
  <2> HIDE DEF Good, Kept
  <2> QED
    BY <1>g, <2>4, <2>6
<1>1. ASSUME NEW w \in Workers, ControlStep(w) PROVE IterStatuses'
  <2>1. CASE InitIterFrame(w)
    <3>1. /\ UNCHANGED current_iter /\ cpc = "loop" /\ cpc' = "body"
          /\ iter_status' = [iter_status EXCEPT ![Current] = "standard"]
          /\ pc' = [pc EXCEPT ![Current] = "test"]
      BY <2>1 DEF InitIterFrame, RunsControl, Goto
    <3>2. \A c \in Blocks : c # Current => Kept(c)
      BY <1>0, <3>1, SameIter DEF Attached, Types
    <3>3. \A c \in Blocks : c = Current => iter_status'[c] = "standard" /\ pc'[c] = "test" /\ Attached(c)'
      BY <1>0, <3>1, SameIter DEF Attached, Types
    <3>4. \A c \in Blocks : c = Current => Good(c, pc'[c], iter_status'[c], Attached(c)')
      BY <3>3 DEF RunningPCs, AlivePCs, Finishing
    <3> HIDE DEF Good, Kept
    <3> QED
      BY <1>g, <3>2, <3>4
  <2>2. CASE ~InitIterFrame(w)
    <3>1. UNCHANGED <<iter_status, pc>> /\ cpc # "body" /\ cpc' # "body"
      BY <1>1, <2>2 DEF ControlStep, EndLoop, SyncControl, CleanUp, ThrottleSlow, ThrottleFast,
         SuspendControl, SetupNext, RunsControl, ring, code
    <3> QED
      BY <1>g, <3>1 DEF Attached
  <2> QED
    BY <2>1, <2>2
<1>2. ASSUME NEW w \in Workers, ResumeFrame(w) PROVE IterStatuses'
  <2>1. CASE next_frame_ff[w] \in Blocks
    <3> DEFINE b == next_frame_ff[w]
    <3>1. pc[b] = "asleep" /\ iter_status[b] = "promoted"
      BY <2>1 DEF Holdings
    <3>2. pc' = [pc EXCEPT ![b] = "stall"] /\ UNCHANGED <<ring, control>>
      BY <1>2, <2>1 DEF ResumeFrame, Types
    <3> HIDE DEF b
    <3>3. b \in Blocks
      BY <2>1 DEF b
    <3>4. Good(b, "stall", iter_status[b], Attached(b))
      BY <3>1, <3>3, <1>h
    <3> HIDE DEF Good
    <3> QED
      BY <3>2, <3>3, <3>4, <1>m DEF ring, control
  <2>2. CASE next_frame_ff[w] \notin Blocks
    <3>1. (\A b \in Blocks : pc'[b] = pc[b]) /\ UNCHANGED <<ring, control>>
      BY <1>2, <2>2 DEF ResumeFrame, Types
    <3> HIDE DEF Good
    <3> QED
      BY <3>1, <1>a, <1>g DEF ring, control
  <2> QED
    BY <2>1, <2>2
<1>3. ASSUME NEW w \in Workers, NEW b \in Blocks, UserStep(w, b) PROVE IterStatuses'
  <2> USE DEF RunningPCs, AlivePCs, Finishing
  <2>1. ASSUME NEW t \in BOOLEAN, TestCondition(w, b, t) PROVE IterStatuses'
    <3>1. Attached(b)
      BY <2>1, EndsAttached DEF TestCondition
    <3> QED
      BY <1>h, <2>1, <3>1, <1>m DEF TestCondition, Goto, ring
  <2>2. ASSUME NEW s \in 1 .. MaxStage, Stage(w, b, s) PROVE IterStatuses'
    <3>1. UNCHANGED <<iter_status, pc, cpc, current_iter>>
      BY <2>2 DEF Stage, control
    <3> HIDE DEF Good
    <3> QED
      BY <1>a, <1>g, <3>1
  <2>3. ASSUME NEW s \in 1 .. FinalStage, StageWait(w, b, s) PROVE IterStatuses'
    <3>1. Good(b, "wait", iter_status[b], Attached(b))
      BY <1>h, <2>3, Executor DEF StageWait
    <3> HIDE DEF Good
    <3> QED
      BY <2>3, <3>1, <1>m DEF StageWait, Goto, control
  <2> QED
    BY <1>3, <2>1, <2>2, <2>3 DEF UserStep
<1>4. ASSUME NEW w \in Workers, NEW b \in Blocks, WaitStep(w, b) PROVE IterStatuses'
  <2> USE DEF Goto, ring, control, RunningPCs, AlivePCs, Finishing
  <2>1. CASE CachedEnough(w, b)
    BY <1>h, <2>1, <1>m DEF CachedEnough, AfterWait
  <2>2. CASE ReadLeft(w, b)
    BY <1>h, <2>2, <1>m DEF ReadLeft, AfterWait
  <2>3. CASE Stall(w, b)
    BY <1>h, <2>3, <1>m DEF Stall
  <2>4. CASE Promote(w, b)
    BY <2>4, <1>i, PromotesAttached DEF Promote, InstallIteration
  <2>5. CASE AlreadyPromoted(w, b)
    BY <1>h, <2>5, <1>m DEF AlreadyPromoted
  <2>6. CASE SuspendFails(w, b)
    BY <1>h, <2>6, <1>m, RunsPromoted DEF SuspendFails
  <2>7. CASE Suspend(w, b)
    <3>1. ~Attached(b) /\ UNCHANGED <<cpc, current_iter>>
      BY <2>7, RunsPromoted DEF Suspend
    <3>2. /\ iter_status' = [iter_status EXCEPT ![b] = "suspended"]
          /\ pc' = [pc EXCEPT ![b] = "suspending"]
      BY <2>7 DEF Suspend
    <3>3. \A c \in Blocks : c # b => Kept(c)
      BY <3>1, <3>2, <1>a DEF Types
    <3>4. iter_status'[b] = "suspended" /\ pc'[b] = "suspending" /\ ~Attached(b)'
      BY <3>1, <3>2, <1>a DEF Types
    <3>5. Good(b, pc'[b], iter_status'[b], Attached(b)')
      BY <3>4
    <3> HIDE DEF Good, Kept
    <3> QED
      BY <1>g, <3>3, <3>5
  <2>8. CASE SuspendNext(w, b)
    <3>1. Good(b, "asleep", iter_status[b], Attached(b)) /\ Right(b) # b
      BY <1>h, <2>8, RunsPromoted, Neighbours DEF SuspendNext
    <3>3. CASE RightResumable(b)
      <4>1. /\ UNCHANGED <<cpc, current_iter>> /\ ~BlockLocked(Right(b)) /\ ResumeRight(b, w)
            /\ pc' = [pc EXCEPT ![b] = "asleep"]
        BY <2>8, <3>3 DEF SuspendNext
      <4> HIDE DEF Good
      <4> QED
        BY <1>r, <3>1, <3>3, <4>1
    <3>4. CASE ~RightResumable(b)
      <4> HIDE DEF Good
      <4> QED
        BY <1>m, <2>8, <3>1, <3>4 DEF SuspendNext
    <3> QED
      BY <3>3, <3>4
  <2> HIDE DEF Goto, ring, control, RunningPCs, AlivePCs, Finishing
  <2> QED
    BY <1>4, <2>1, <2>2, <2>3, <2>4, <2>5, <2>6, <2>7, <2>8 DEF WaitStep
<1>5. ASSUME NEW w \in Workers, NEW b \in Blocks, LeaveStep(w, b) PROVE IterStatuses'
  <2> USE DEF Goto, ring, control, RunningPCs, AlivePCs, Finishing
  <2>1. CASE FinishFinalStage(w, b)
    BY <1>h, <2>1, <1>m DEF FinishFinalStage
  <2>2. CASE LeaveFrame(w, b)
    <3>2. frame_ff[w] = Control => Attached(b)
      BY <2>2, Executor, Names DEF LeaveFrame
    <3>3. pc[b] = "leave" /\ UNCHANGED <<cpc, current_iter, iter_status>>
      BY <2>2 DEF LeaveFrame
    <3>4. CASE frame_ff[w] = Control
      <4>1. Good(b, "attached_done", iter_status[b], Attached(b)) /\ pc' = [pc EXCEPT ![b] = "attached_done"]
        BY <1>h, <2>2, <3>2, <3>3, <3>4 DEF LeaveFrame
      <4> HIDE DEF Good
      <4> QED
        BY <3>3, <4>1, <1>m
    <3>5. CASE frame_ff[w] # Control
      <4>1. Good(b, "return", iter_status[b], Attached(b)) /\ pc' = [pc EXCEPT ![b] = "return"]
        BY <1>h, <2>2, <3>3, <3>5 DEF LeaveFrame
      <4> HIDE DEF Good
      <4> QED
        BY <3>3, <4>1, <1>m
    <3> QED
      BY <3>4, <3>5
  <2>3. CASE AttachedDone(w, b)
    BY <1>h, <2>3, <1>m, EndsAttached DEF AttachedDone
  <2>4. CASE AttachedFreeLeft(w, b) \/ FreeLeft(w, b)
    <3> DEFINE p == IF pc[b] = "free_left" THEN "stage_done" ELSE "attached_own"
    <3>1. /\ UNCHANGED <<cpc, current_iter>> /\ FreeBlock(Left(b)) /\ pc' = [pc EXCEPT ![b] = p]
          /\ pc[b] \in {"free_left", "attached_left"}
      BY <2>4 DEF AttachedFreeLeft, FreeLeft
    <3>2. pc[b] = "attached_left" => Attached(b)
      BY <2>4, EndsAttached DEF AttachedFreeLeft, FreeLeft
    <3>3. Good(b, p, iter_status[b], Attached(b))
      BY <1>h, <3>1, <3>2
    <3>4. ~DoneWithLeft(b)
      BY <3>1 DEF DoneWithLeft
    <3>5. Left(b) # b /\ Left(b) \in Blocks /\ Left(b) # Current
      BY <3>4, LeftInUse
    <3>6. ReadyForReuse(CountFinish(Left(b))) => pc[Left(b)] = "idle" /\ ~Attached(Left(b))
      BY <3>4, <3>5, ReadyMeansIdle DEF Attached
    <3> HIDE DEF Good, p
    <3> QED
      BY <1>f, <3>1, <3>3, <3>5, <3>6
  <2>5. CASE AttachedFreeOwn(w, b)
    <3>1. b = Current /\ cpc = "body" /\ cpc' = "throttle" /\ UNCHANGED current_iter
          /\ pc' = [pc EXCEPT ![b] = "idle"] /\ FreeBlock(b) /\ iter_status[b] = "standard"
      BY <1>h, <2>5, EndsAttached DEF AttachedFreeOwn
    <3>2. \A c \in Blocks : ~Attached(c)' /\ (c # b => Kept(c))
      BY <3>1, SameIter DEF Attached, FreeBlock, Types
    <3>3. pc'[b] = "idle" /\ iter_status'[b] # "suspended"
      BY <3>1 DEF FreeBlock, Types
    <3>4. \A c \in Blocks : c = b => Good(c, pc'[c], iter_status'[c], Attached(c)')
      BY <3>2, <3>3
    <3> HIDE DEF Good, Kept
    <3> QED
      BY <1>g, <3>2, <3>4
  <2>6. CASE ReturnLast(w, b)
    BY <1>h, <2>6, <1>m, RunsPromoted DEF ReturnLast
  <2>7. CASE ReturnOther(w, b)
    BY <1>h, <2>7, <1>m, RunsPromoted DEF ReturnOther
  <2>9. CASE StageDone(w, b)
    BY <1>h, <2>9, <1>m, RunsPromoted DEF StageDone
  <2>10. CASE CheckRight(w, b)
    <3>1. Good(b, "free_own", iter_status[b], Attached(b)) /\ Right(b) # b
      BY <1>h, <2>10, RunsPromoted, Neighbours DEF CheckRight
    <3>3. CASE RightResumable(b)
      <4>1. /\ UNCHANGED <<cpc, current_iter>> /\ ~BlockLocked(Right(b)) /\ ResumeRight(b, w)
            /\ pc' = [pc EXCEPT ![b] = "free_own"]
        BY <2>10, <3>3 DEF CheckRight
      <4> HIDE DEF Good
      <4> QED
        BY <1>r, <3>1, <3>3, <4>1
    <3>4. CASE ~RightResumable(b)
      <4> HIDE DEF Good
      <4> QED
        BY <1>m, <2>10, <3>1, <3>4 DEF CheckRight, NothingToResume
    <3> QED
      BY <3>3, <3>4
  <2>11. CASE FreeOwn(w, b)
    <3>1. ~Attached(b) /\ pc[b] = "free_own" /\ iter_status[b] # "suspended"
      BY <1>h, <2>11, RunsPromoted DEF FreeOwn
    <3> HIDE DEF Good
    <3> QED
      BY <1>f, <2>11, <3>1 DEF FreeOwn
  <2> HIDE DEF Goto, ring, control, RunningPCs, AlivePCs, Finishing
  <2> QED
    BY <1>5, <2>1, <2>2, <2>3, <2>4, <2>5, <2>6, <2>7, <2>9, <2>10, <2>11 DEF LeaveStep
<1>6. ASSUME NEW v \in Workers, NEW w \in Workers, StealControl(v, w) PROVE IterStatuses'
  <2>1. /\ cpc = "body" /\ cpc' = "throttle" /\ UNCHANGED <<current_iter, pc>> /\ pc[Current] \in AlivePCs
        /\ iter_status' = [iter_status EXCEPT ![Current] = "promoted"]
    BY <1>6 DEF StealControl, InstallIteration, Stealable, RunsControl, Places
  <2>2. pc[Current] \in RunningPCs \ {"suspending"}
    BY <2>1 DEF Places, AttachedPCs, RunningPCs, AlivePCs
  <2>3. pc' = [pc EXCEPT ![Current] = pc[Current]]
    BY <1>0, <2>1 DEF Types
  <2> QED
    BY <1>i, <2>1, <2>2, <2>3
<1>7. ASSUME NEW v \in Workers, NEW w \in Workers, StealImplicitly(v, w) PROVE IterStatuses'
  <2>1. UNCHANGED <<cpc, current_iter, pc>> /\ frame_ff[w] \in Blocks
    BY <1>7 DEF StealImplicitly, control, code
  <2>2. CASE UNCHANGED iter_status
    <3> HIDE DEF Good
    <3> QED
      BY <1>a, <1>g, <2>1, <2>2
  <2>3. CASE ~UNCHANGED iter_status
    <3>1. ~BlockLocked(Right(frame_ff[w])) /\ RightResumable(frame_ff[w]) /\ ResumeRight(frame_ff[w], v)
      BY <1>7, <2>3 DEF StealImplicitly, NothingToResume
    <3> DEFINE b == frame_ff[w]
    <3>2. pc' = [pc EXCEPT ![b] = pc[b]] /\ Good(b, pc[b], iter_status[b], Attached(b))
      BY <1>h, <2>1 DEF Types
    <3> HIDE DEF Good, b
    <3>3. b \in Blocks /\ ~BlockLocked(Right(b)) /\ RightResumable(b) /\ ResumeRight(b, v)
      BY <2>1, <3>1 DEF b
    <3> QED
      BY <1>r, <2>1, <3>2, <3>3
  <2> QED
    BY <2>2, <2>3
<1>8. CASE UNCHANGED vars
  <2>1. UNCHANGED <<cpc, current_iter, pc, iter_status>>
    BY <1>8 DEF vars, ring, control, code
  <2> HIDE DEF Good
  <2> QED
    BY <1>a, <1>g, <2>1
<1> QED
  BY <1>1, <1>2, <1>3, <1>4, <1>5, <1>6, <1>7, <1>8 DEF Next, Step, Steals, Over

----------------------------------------------------------------------------
\* A block in use has a full frame at the start.
LEMMA InUseInit == Init => InUse
BY DEF Init, InUse

\* A block in use has a full frame, after every step.
LEMMA InUseStep ==
  ASSUME Types, Places, Holdings, IterStatuses, ControlPlace, Joins, InUse, [Next]_vars
  PROVE  InUse'
<1>0. Current \in Blocks
  BY CurrentBlocks DEF Types
<1>m. ASSUME UNCHANGED in_use, cpc \in Ended => cpc' \in Ended,
             \A b \in Blocks : pc'[b] = "idle" \/ Attached(b)' => pc[b] = "idle" \/ Attached(b)
      PROVE  InUse'
  BY <1>m DEF InUse
<1>a. ASSUME UNCHANGED <<cpc, current_iter>> PROVE \A c \in Blocks : Attached(c)' <=> Attached(c)
  BY <1>a, SameIter DEF Attached
<1>p. ASSUME NEW b \in Blocks, NEW p, UNCHANGED <<cpc, current_iter, in_use>>,
             pc' = [pc EXCEPT ![b] = p], p # "idle"
      PROVE  InUse'
  <2>1. \A c \in Blocks : pc'[c] = IF c = b THEN p ELSE pc[c]
    BY <1>p DEF Types
  <2>2. \A c \in Blocks : pc'[c] = "idle" \/ Attached(c)' => pc[c] = "idle" \/ Attached(c)
    BY <1>a, <1>p, <2>1
  <2> QED
    BY <1>m, <1>p, <2>2
<1>i. ASSUME NEW p, cpc = "body", cpc' = "throttle", UNCHANGED current_iter,
             pc' = [pc EXCEPT ![Current] = p], p # "idle",
             in_use' = [in_use EXCEPT ![Current] = TRUE]
      PROVE  InUse'
  <2>1. \A c \in Blocks : ~Attached(c)' /\ pc'[c] = IF c = Current THEN p ELSE pc[c]
    BY <1>i DEF Attached, Types
  <2>2. \A c \in Blocks : c # Current => in_use'[c] = in_use[c]
    BY <1>i DEF Types
  <2> QED
    BY <1>i, <2>1, <2>2 DEF InUse, Ended
<1>1. ASSUME NEW w \in Workers, ControlStep(w) PROVE InUse'
  <2>1. CASE InitIterFrame(w)
    <3>1. /\ UNCHANGED <<current_iter, in_use>> /\ cpc = "loop" /\ cpc' = "body"
          /\ pc' = [pc EXCEPT ![Current] = "test"]
      BY <2>1 DEF InitIterFrame, RunsControl, Goto
    <3>2. \A c \in Blocks : Attached(c)' => pc[c] = "idle"
      BY <3>1, SameIter DEF Attached, Places, NotStarted
    <3>3. \A c \in Blocks : pc'[c] = "idle" => pc[c] = "idle"
      BY <3>1 DEF Types
    <3> QED
      BY <1>m, <3>1, <3>2, <3>3 DEF Ended
  <2>2. CASE ~InitIterFrame(w)
    <3>1. UNCHANGED <<in_use, pc>> /\ cpc # "body" /\ cpc' # "body" /\ (cpc \in Ended => cpc' \in Ended)
      BY <1>1, <2>2 DEF ControlStep, EndLoop, SyncControl, CleanUp, ThrottleSlow, ThrottleFast,
         SuspendControl, SetupNext, RunsControl, ring, code, Ended
    <3> QED
      BY <1>m, <3>1 DEF Attached
  <2> QED
    BY <2>1, <2>2
<1>2. ASSUME NEW w \in Workers, ResumeFrame(w) PROVE InUse'
  <2>1. UNCHANGED <<in_use, cpc, current_iter>> /\ \A b \in Blocks : pc'[b] = "idle" => pc[b] = "idle"
    BY <1>2 DEF ResumeFrame, ring, control
  <2> QED
    BY <1>a, <1>m, <2>1
<1>3. ASSUME NEW w \in Workers, NEW b \in Blocks, UserStep(w, b) PROVE InUse'
  <2>1. UNCHANGED <<in_use, cpc, current_iter>> /\ \A c \in Blocks : pc'[c] = "idle" => pc[c] = "idle"
    BY <1>3 DEF UserStep, TestCondition, Stage, StageWait, Goto, ring, control, Types
  <2> QED
    BY <1>a, <1>m, <2>1
<1>4. ASSUME NEW w \in Workers, NEW b \in Blocks, WaitStep(w, b) PROVE InUse'
  <2>1. CASE Promote(w, b)
    BY <2>1, <1>i, PromotesAttached DEF Promote, InstallIteration, Goto
  <2>2. CASE ~Promote(w, b)
    <3>1. /\ UNCHANGED <<in_use, cpc, current_iter>>
          /\ \E p \in {"wait", "user", "final", "stall", "promote", "suspend", "suspending", "asleep"} :
               pc' = [pc EXCEPT ![b] = p]
      BY <1>4, <2>2 DEF WaitStep, CachedEnough, AfterWait, ReadLeft, Stall, AlreadyPromoted,
         SuspendFails, Suspend, SuspendNext, Goto, ring, control
    <3> QED
      BY <1>p, <3>1
  <2> QED
    BY <2>1, <2>2
<1>5. ASSUME NEW w \in Workers, NEW b \in Blocks, LeaveStep(w, b) PROVE InUse'
  <2>1. CASE AttachedFreeOwn(w, b)
    <3>1. /\ b = Current /\ cpc = "body" /\ cpc' = "throttle" /\ UNCHANGED <<current_iter, in_use>>
          /\ pc' = [pc EXCEPT ![b] = "idle"]
      BY <2>1, EndsAttached DEF AttachedFreeOwn, Goto
    <3>2. \A c \in Blocks : pc'[c] = "idle" \/ Attached(c)' => pc[c] = "idle" \/ Attached(c)
      BY <3>1 DEF Attached, Types
    <3> QED
      BY <1>m, <3>1, <3>2 DEF Ended
  <2>2. CASE ReturnLast(w, b)
    BY <2>2, LastReturn DEF InUse, ReturnLast, Ended
  <2>3. CASE FreeOwn(w, b)
    <3>1. UNCHANGED <<cpc, current_iter>> /\ \A c \in Blocks :
            IF c = b THEN in_use'[c] = FALSE ELSE pc'[c] = pc[c] /\ in_use'[c] = in_use[c]
      BY <2>3 DEF FreeOwn, Goto, control, Types
    <3> QED
      BY <1>a, <3>1 DEF InUse
  <2>4. CASE FinishFinalStage(w, b) \/ LeaveFrame(w, b) \/ AttachedDone(w, b) \/ AttachedFreeLeft(w, b)
             \/ ReturnOther(w, b) \/ FreeLeft(w, b) \/ StageDone(w, b) \/ CheckRight(w, b)
    <3>1. /\ UNCHANGED <<in_use, cpc, current_iter>>
          /\ \E p \in {"leave", "attached_done", "return", "attached_left", "attached_own", "free_left",
                       "stage_done", "check_right", "free_own"} : pc' = [pc EXCEPT ![b] = p]
      BY <2>4 DEF FinishFinalStage, LeaveFrame, AttachedDone, AttachedFreeLeft, ReturnOther, FreeLeft,
         StageDone, CheckRight, Goto, ring, control
    <3> QED
      BY <1>p, <3>1
  <2> QED
    BY <1>5, <2>1, <2>2, <2>3, <2>4 DEF LeaveStep
<1>6. ASSUME NEW v \in Workers, NEW w \in Workers, StealControl(v, w) PROVE InUse'
  <2>1. /\ cpc = "body" /\ cpc' = "throttle" /\ UNCHANGED <<current_iter, pc>>
        /\ pc[Current] \in AttachedPCs /\ in_use' = [in_use EXCEPT ![Current] = TRUE]
    BY <1>6 DEF StealControl, InstallIteration, Stealable, RunsControl, Places
  <2>2. pc' = [pc EXCEPT ![Current] = pc[Current]] /\ pc[Current] # "idle"
    BY <1>0, <2>1 DEF Types, AttachedPCs
  <2> QED
    BY <1>i, <2>1, <2>2
<1>7. ASSUME NEW v \in Workers, NEW w \in Workers, StealImplicitly(v, w) PROVE InUse'
  BY <1>7, <1>a, <1>m DEF StealImplicitly, control, code
<1>8. CASE UNCHANGED vars
  BY <1>8, <1>a, <1>m DEF vars, ring, control, code
<1> QED
  BY <1>1, <1>2, <1>3, <1>4, <1>5, <1>6, <1>7, <1>8 DEF Next, Step, Steals, Over

----------------------------------------------------------------------------
\* A suspended right neighbour whose lock is free sleeps and is held by nobody.
LEMMA SleepsAlone ==
  ASSUME Types, IterStatuses, Holdings, NEW b \in Blocks, RightResumable(b), ~BlockLocked(Right(b))
  PROVE  /\ Right(b) \in Blocks /\ pc[Right(b)] = "asleep" /\ iter_status[Right(b)] = "suspended"
         /\ \A u \in Workers : frame_ff[u] # Right(b) /\ next_frame_ff[u] # Right(b)
<1>1. Right(b) \in Blocks /\ iter_status[Right(b)] = "suspended"
  BY Neighbours DEF RightResumable
<1>2. pc[Right(b)] = "asleep"
  BY <1>1 DEF IterStatuses, BlockLocked
<1> QED
  BY <1>1, <1>2 DEF Holdings, RunningPCs

\* The control frame waits for the block that is counted out, and nobody has it.
LEMMA ThrottleRelease ==
  ASSUME Types, Counters, ControlPlace, NEW b \in Blocks, Counted(b), OwnPending(b) \/ RightPending(b),
         PastThrottle(CountFinish(b))
  PROVE  /\ b = NextBlock /\ cpc = "setup" /\ resume_flags[Control] = "suspended"
         /\ CountFinish(b) = 0 /\ \A u \in Workers : ~HasControl(u)
<1>1. ~ThrottlePending(b) /\ CountFinish(b) = 0 /\ cleanup_counter[b] = FinishVal
  BY DEF Counted, PastThrottle, CountFinish, FinishVal, ThrottleVal
<1>2. b = NextBlock /\ cpc = "setup"
  BY <1>1 DEF ThrottlePending
<1>3. resume_flags[Control] = "suspended"
  BY <1>1, <1>2 DEF ControlPlace, FinishVal
<1>4. \A u \in Workers : ~HasControl(u)
  BY <1>1, <1>2, <1>3 DEF ControlPlace, HasControl, Types, ParentFlags, FinishVal
<1> QED
  BY <1>1, <1>2, <1>3, <1>4

\* No frame is held twice at the start.
LEMMA OneHolderInit == Init => OneHolder
BY Names DEF Init, OneHolder

\* No frame is held twice, after every step.
LEMMA OneHolderStep ==
  ASSUME Types, Numbers, Places, Counters, IterStatuses, Holdings, OneHolder, ControlOnce,
         ControlPlace, Joins, [Next]_vars
  PROVE  OneHolder'
<1>0. Current \in Blocks /\ Control \notin Blocks /\ NoFrame \notin Blocks /\ Control # NoFrame
  BY CurrentBlocks, Names DEF Types
<1>u. ASSUME UNCHANGED <<frame_ff, next_frame_ff>> PROVE OneHolder'
  BY <1>u DEF OneHolder
\* a worker gives its frame up and a worker gets one that nobody has
<1>g. ASSUME NEW w \in Workers, NEW v \in Workers, NEW f,
             frame_ff' = [frame_ff EXCEPT ![w] = NoFrame] \/ UNCHANGED frame_ff,
             next_frame_ff' = [next_frame_ff EXCEPT ![v] = f] \/ UNCHANGED next_frame_ff,
             \A u \in Workers : frame_ff'[u] # f /\ next_frame_ff[u] # f
      PROVE  OneHolder'
  <2>1. \A u \in Workers : frame_ff'[u] \in {frame_ff[u], NoFrame} /\ next_frame_ff'[u] \in {next_frame_ff[u], f}
                           /\ (next_frame_ff'[u] = f => u = v)
    BY <1>g DEF Types
  <2> QED
    BY <1>g, <2>1 DEF OneHolder
<1>d. ASSUME NEW w \in Workers, frame_ff' = [frame_ff EXCEPT ![w] = NoFrame], UNCHANGED next_frame_ff
      PROVE  OneHolder'
  BY <1>d DEF OneHolder, Types
\* the iteration on top of the control frame gets a frame
<1>i. ASSUME NEW w \in Workers, frame_ff[w] = Control, cpc = "body",
             frame_ff' = [frame_ff EXCEPT ![w] = Current]
      PROVE  \A u \in Workers : /\ frame_ff'[u] # Control /\ next_frame_ff[u] # Control
                                /\ frame_ff'[u] = Current => u = w
                                /\ next_frame_ff[u] # Current
                                /\ u # w => frame_ff'[u] = frame_ff[u]
  <2>1. \A u \in Workers : frame_ff[u] # Current /\ next_frame_ff[u] # Current
    BY <1>0, <1>i DEF Holdings, Attached, Places, AttachedPCs
  <2> QED
    BY <1>0, <1>i, <2>1 DEF OneHolder, Types
<1>1. ASSUME NEW w \in Workers, ControlStep(w) PROVE OneHolder'
  <2>1. CASE InitIterFrame(w) \/ EndLoop(w) \/ ThrottleFast(w) \/ ThrottleSlow(w) \/ SetupNext(w) \/ CleanUp(w)
    BY <1>u, <2>1 DEF InitIterFrame, EndLoop, ThrottleFast, ThrottleSlow, SetupNext, CleanUp, worker
  <2>2. CASE SuspendControl(w) \/ SyncControl(w)
    <3>1. frame_ff[w] = Control /\ frame_ff' = [frame_ff EXCEPT ![w] = NoFrame]
          /\ \E v \in Workers : next_frame_ff' = [next_frame_ff EXCEPT ![v] = Control] \/ UNCHANGED next_frame_ff
      BY <2>2, WorkersAssumption DEF SuspendControl, SyncControl, RunsControl, Types
    <3>2. \A u \in Workers : frame_ff'[u] # Control /\ next_frame_ff[u] # Control
      BY <1>0, <3>1 DEF OneHolder, Types
    <3> QED
      BY <1>g, <3>1, <3>2
  <2> QED
    BY <1>1, <2>1, <2>2 DEF ControlStep
<1>2. ASSUME NEW w \in Workers, ResumeFrame(w) PROVE OneHolder'
  BY <1>2 DEF ResumeFrame, OneHolder, Types
<1>3. ASSUME NEW w \in Workers, NEW b \in Blocks, UserStep(w, b) PROVE OneHolder'
  BY <1>3, <1>u DEF UserStep, TestCondition, Stage, StageWait, worker
<1>4. ASSUME NEW w \in Workers, NEW b \in Blocks, WaitStep(w, b) PROVE OneHolder'
  <2>1. CASE CachedEnough(w, b) \/ ReadLeft(w, b) \/ Stall(w, b) \/ AlreadyPromoted(w, b) \/ Suspend(w, b)
    BY <2>1, <1>u DEF CachedEnough, ReadLeft, Stall, AlreadyPromoted, Suspend, worker
  <2>2. CASE Promote(w, b)
    <3>1. /\ frame_ff[w] = Control /\ cpc = "body" /\ frame_ff' = [frame_ff EXCEPT ![w] = Current]
          /\ UNCHANGED next_frame_ff
      BY <2>2, PromotesAttached DEF Promote, InstallIteration
    <3>2. \A u \in Workers : /\ frame_ff'[u] = Current => u = w
                             /\ next_frame_ff[u] # Current
                             /\ u # w => frame_ff'[u] = frame_ff[u]
      BY <3>1, <1>i
    <3>3. frame_ff'[w] = Current
      BY <3>1 DEF Types
    <3> QED
      BY <3>1, <3>2, <3>3 DEF OneHolder
  <2>3. CASE SuspendFails(w, b)
    <3>1. frame_ff[w] = b /\ frame_ff' = [frame_ff EXCEPT ![w] = NoFrame]
          /\ next_frame_ff' = [next_frame_ff EXCEPT ![w] = b]
      BY <2>3, RunsPromoted DEF SuspendFails
    <3>2. \A u \in Workers : frame_ff'[u] # b /\ next_frame_ff[u] # b
      BY <1>0, <3>1 DEF OneHolder, Types
    <3> QED
      BY <1>g, <3>1, <3>2
  <2>4. CASE SuspendNext(w, b)
    <3>1. frame_ff[w] = b /\ frame_ff' = [frame_ff EXCEPT ![w] = NoFrame]
      BY <2>4, RunsPromoted DEF SuspendNext
    <3>2. \A u \in Workers : frame_ff'[u] \in {frame_ff[u], NoFrame}
      BY <3>1 DEF Types
    <3>3. CASE RightResumable(b)
      <4>1. \A u \in Workers : frame_ff'[u] # Right(b) /\ next_frame_ff[u] # Right(b)
        BY <1>0, <2>4, <3>2, <3>3, SleepsAlone DEF SuspendNext
      <4>2. next_frame_ff' = [next_frame_ff EXCEPT ![w] = Right(b)]
        BY <2>4, <3>3 DEF SuspendNext, ResumeRight
      <4> QED
        BY <1>g, <3>1, <4>1, <4>2
    <3>4. CASE ~RightResumable(b) /\ parent_resume[w] # "none"
      <4>1. \A u \in Workers : frame_ff'[u] # Control /\ next_frame_ff[u] # Control
        BY <1>0, <3>2, <3>4 DEF ControlOnce, HasControl
      <4> QED
        BY <1>g, <2>4, <3>1, <3>4, <4>1 DEF SuspendNext
    <3>5. CASE ~RightResumable(b) /\ parent_resume[w] = "none"
      <4>1. UNCHANGED next_frame_ff
        BY <2>4, <3>5 DEF SuspendNext, Types
      <4> QED
        BY <1>d, <3>1, <4>1
    <3> QED
      BY <3>3, <3>4, <3>5
  <2> QED
    BY <1>4, <2>1, <2>2, <2>3, <2>4 DEF WaitStep
<1>5. ASSUME NEW w \in Workers, NEW b \in Blocks, LeaveStep(w, b) PROVE OneHolder'
  <2>1. CASE FinishFinalStage(w, b) \/ LeaveFrame(w, b) \/ AttachedDone(w, b) \/ AttachedFreeLeft(w, b)
             \/ AttachedFreeOwn(w, b) \/ ReturnOther(w, b) \/ FreeLeft(w, b) \/ StageDone(w, b)
    BY <2>1, <1>u DEF FinishFinalStage, LeaveFrame, AttachedDone, AttachedFreeLeft, AttachedFreeOwn,
       ReturnOther, FreeLeft, StageDone, worker
  <2>2. CASE ReturnLast(w, b)
    <3>1. /\ frame_ff' = [frame_ff EXCEPT ![w] = NoFrame]
          /\ next_frame_ff' = [next_frame_ff EXCEPT ![Leader] = Control]
      BY <2>2 DEF ReturnLast
    <3>2. \A u \in Workers : frame_ff'[u] # Control /\ next_frame_ff[u] # Control
      BY <1>0, <2>2, <3>1, LastReturn DEF HasControl, Types
    <3> QED
      BY <1>g, <3>1, <3>2, WorkersAssumption
  <2>3. CASE CheckRight(w, b)
    <3>1. CASE RightResumable(b)
      <4>1. \A u \in Workers : frame_ff'[u] # Right(b) /\ next_frame_ff[u] # Right(b)
        BY <2>3, <3>1, SleepsAlone DEF CheckRight
      <4> QED
        BY <1>g, <2>3, <3>1, <4>1 DEF CheckRight, ResumeRight
    <3>2. CASE ~RightResumable(b)
      BY <1>u, <2>3, <3>2 DEF CheckRight, NothingToResume
    <3> QED
      BY <3>1, <3>2
  <2>4. CASE FreeOwn(w, b)
    <3>1. /\ frame_ff' = [frame_ff EXCEPT ![w] = NoFrame] /\ pc[b] = "free_own"
          /\ \/ UNCHANGED next_frame_ff
             \/ /\ next_frame_ff' = [next_frame_ff EXCEPT ![w] = Control]
                /\ ParentResumable(FlagAfterFree(w, b))
      BY <2>4 DEF FreeOwn, TakeParent
    <3>2. CASE UNCHANGED next_frame_ff
      BY <1>d, <3>1, <3>2
    <3>3. CASE ~UNCHANGED next_frame_ff
      <4>1. CASE PastThrottle(CountFinish(b))
        <5>1. OwnPending(b) /\ Counted(b)
          BY <3>1, Active DEF OwnPending, Counters, AllIdle
        <5>2. \A u \in Workers : ~HasControl(u)
          BY <4>1, <5>1, ThrottleRelease
        <5>3. \A u \in Workers : frame_ff'[u] # Control /\ next_frame_ff[u] # Control
          BY <1>0, <3>1, <5>2 DEF HasControl, Types
        <5> QED
          BY <1>g, <3>1, <3>3, <5>3
      <4>2. CASE ~PastThrottle(CountFinish(b))
        <5>1. parent_resume[w] # "none"
          BY <3>1, <3>3, <4>2 DEF ParentResumable, FlagAfterFree
        <5>2. \A u \in Workers : frame_ff'[u] # Control /\ next_frame_ff[u] # Control
          BY <1>0, <3>1, <5>1 DEF ControlOnce, HasControl, Types
        <5> QED
          BY <1>g, <3>1, <3>3, <5>2
      <4> QED
        BY <4>1, <4>2
    <3> QED
      BY <3>2, <3>3
  <2> QED
    BY <1>5, <2>1, <2>2, <2>3, <2>4 DEF LeaveStep
<1>6. ASSUME NEW v \in Workers, NEW w \in Workers, StealControl(v, w) PROVE OneHolder'
  <2>1. /\ frame_ff[w] = Control /\ cpc = "body" /\ frame_ff' = [frame_ff EXCEPT ![w] = Current]
        /\ next_frame_ff' = [next_frame_ff EXCEPT ![v] = Control]
    BY <1>6 DEF StealControl, InstallIteration, Stealable, RunsControl
  <2>2. \A u \in Workers : next_frame_ff'[u] = IF u = v THEN Control ELSE next_frame_ff[u]
    BY <2>1 DEF Types
  <2>3. \A u \in Workers : /\ frame_ff'[u] # Control /\ next_frame_ff[u] # Control
                           /\ frame_ff'[u] = Current => u = w
                           /\ next_frame_ff[u] # Current
                           /\ u # w => frame_ff'[u] = frame_ff[u]
    BY <2>1, <1>i
  <2>4. frame_ff'[w] = Current
    BY <2>1 DEF Types
  <2> QED
    BY <1>0, <2>1, <2>2, <2>3, <2>4 DEF OneHolder
<1>7. ASSUME NEW v \in Workers, NEW w \in Workers, StealImplicitly(v, w) PROVE OneHolder'
  <2> DEFINE b == frame_ff[w]
  <2>1. CASE ParentResumable(parent_resume[w])
    <3>1. parent_resume[w] # "none"
      BY <2>1 DEF ParentResumable
    <3>2. \A u \in Workers : frame_ff[u] # Control /\ next_frame_ff[u] # Control
      BY <3>1 DEF ControlOnce, HasControl
    <3> QED
      BY <1>7, <1>g, <2>1, <3>2 DEF StealImplicitly, TakeParent
  <2>2. CASE ~ParentResumable(parent_resume[w]) /\ RightResumable(b)
    <3>1. UNCHANGED frame_ff /\ \A u \in Workers : frame_ff[u] # Right(b) /\ next_frame_ff[u] # Right(b)
      BY <1>7, <2>2, SleepsAlone DEF StealImplicitly
    <3>2. next_frame_ff' = [next_frame_ff EXCEPT ![v] = Right(b)]
      BY <1>7, <2>2 DEF StealImplicitly, ResumeRight
    <3> HIDE DEF b
    <3> QED
      BY <1>g, <3>1, <3>2
  <2>3. CASE ~ParentResumable(parent_resume[w]) /\ ~RightResumable(b)
    BY <1>7, <1>u, <2>3 DEF StealImplicitly, NothingToResume
  <2> QED
    BY <2>1, <2>2, <2>3
<1>8. CASE UNCHANGED vars
  BY <1>8, <1>u DEF vars, worker
<1> QED
  BY <1>1, <1>2, <1>3, <1>4, <1>5, <1>6, <1>7, <1>8 DEF Next, Step, Steals, Over

----------------------------------------------------------------------------
\* An iteration is held by the worker that executes it and by nobody else.
LEMMA ExecutorAlone ==
  ASSUME Types, Places, Holdings, OneHolder, NEW w \in Workers, NEW b \in Blocks, Executes(w, b)
  PROVE  \A u \in Workers : next_frame_ff[u] # b /\ (u # w => frame_ff[u] # b)
<1>1. pc[b] # "asleep"
  BY Executor DEF RunningPCs, AttachedPCs
<1>2. \A u \in Workers : next_frame_ff[u] # b
  BY <1>1 DEF Holdings
<1>3. \A u \in Workers : u # w => frame_ff[u] # b
  BY Executor, Names DEF OneHolder, Holdings
<1> QED
  BY <1>2, <1>3

\* Workers hold frames that fit at the start.
LEMMA HoldingsInit == Init => Holdings
<1> SUFFICES ASSUME Init PROVE Holdings
  OBVIOUS
<1>1. \A w \in Workers : /\ frame_ff[w] \in {Control, NoFrame} /\ next_frame_ff[w] = NoFrame
                         /\ parent_resume[w] = "none" /\ ~iter_ff_on_top[w]
  BY DEF Init
<1> QED
  BY <1>1, Names DEF Holdings

HoldsWell(w) ==
  /\ frame_ff[w] \in Blocks =>
       /\ pc[frame_ff[w]] \in RunningPCs /\ ~Attached(frame_ff[w])
       /\ iter_ff_on_top[w]
       /\ next_frame_ff[w] # NoFrame =>
            /\ pc[frame_ff[w]] = "free_own"
            /\ next_frame_ff[w] = Right(frame_ff[w])
  /\ next_frame_ff[w] \in Blocks =>
       pc[next_frame_ff[w]] = "asleep" /\ iter_status[next_frame_ff[w]] = "promoted"
  /\ frame_ff[w] = Control =>
       ~iter_ff_on_top[w] /\ parent_resume[w] = "none" /\ next_frame_ff[w] = NoFrame
  /\ parent_resume[w] # "none" /\ frame_ff[w] = NoFrame => next_frame_ff[w] \in Blocks

\* Workers hold frames that fit, after every step.
LEMMA HoldingsStep ==
  ASSUME Types, Numbers, Places, Counters, IterStatuses, Holdings, OneHolder, ControlOnce,
         ControlPlace, Joins, [Next]_vars
  PROVE  Holdings'
<1>0. Current \in Blocks /\ Control \notin Blocks /\ NoFrame \notin Blocks /\ Control # NoFrame
  BY CurrentBlocks, Names DEF Types
<1>w. ASSUME \A u \in Workers : HoldsWell(u)' PROVE Holdings'
  BY <1>w DEF Holdings, HoldsWell
\* a worker whose frames are left alone
<1>o. ASSUME NEW u \in Workers, frame_ff'[u] = frame_ff[u], next_frame_ff'[u] = next_frame_ff[u],
             parent_resume'[u] = parent_resume[u] \/ parent_resume'[u] = "none"
               \/ frame_ff[u] \in Blocks,
             iter_ff_on_top'[u] = iter_ff_on_top[u],
             \A c \in Blocks : frame_ff[u] = c => pc'[c] = pc[c] /\ ~Attached(c)',
             \A c \in Blocks : next_frame_ff[u] = c => pc'[c] = pc[c] /\ iter_status'[c] = iter_status[c]
      PROVE  HoldsWell(u)'
  <2>1. CASE frame_ff[u] \in Blocks
    <3>1. \A c : c = frame_ff[u] => ~Attached(c)' /\ pc'[c] = pc[c]
      BY <1>o, <2>1
    <3>2. ~Attached(frame_ff[u])'
      BY <1>o, <3>1
    <3> QED
      BY <1>0, <1>o, <2>1, <3>1, <3>2 DEF HoldsWell, Holdings
  <2>2. CASE frame_ff[u] \notin Blocks
    BY <1>0, <1>o, <2>2 DEF HoldsWell, Holdings
  <2> QED
    BY <2>1, <2>2
\* a step in place of the iteration in block b
<1>p. ASSUME NEW w \in Workers, NEW b \in Blocks, NEW p, Executes(w, b), pc[b] # "free_own",
             pc' = [pc EXCEPT ![b] = p], frame_ff[w] = b => p \in RunningPCs,
             UNCHANGED <<frame_ff, next_frame_ff, iter_ff_on_top>>,
             UNCHANGED parent_resume \/ (frame_ff[w] = b /\ \A u \in Workers \ {w} : parent_resume'[u] = parent_resume[u]),
             \A c \in Blocks : Attached(c)' => Attached(c),
             \A c \in Blocks : pc[c] = "asleep" => iter_status'[c] = iter_status[c]
      PROVE  Holdings'
  <2>1. \A c \in Blocks : pc'[c] = IF c = b THEN p ELSE pc[c]
    BY <1>p DEF Types
  <2>2. \A u \in Workers : next_frame_ff[u] # b /\ (u # w => frame_ff[u] # b)
    BY <1>p, ExecutorAlone
  <2>3. \A u \in Workers, c \in Blocks : next_frame_ff[u] = c => pc'[c] = pc[c] /\ iter_status'[c] = iter_status[c]
    BY <1>p, <2>1, <2>2 DEF Holdings
  <2>4. ASSUME NEW u \in Workers, frame_ff[u] # b PROVE HoldsWell(u)'
    <3>1. \A c \in Blocks : frame_ff[u] = c => pc'[c] = pc[c] /\ ~Attached(c)'
      BY <1>p, <2>1, <2>4 DEF Holdings
    <3>2. parent_resume'[u] = parent_resume[u]
      BY <1>p, <2>4
    <3> QED
      BY <1>o, <1>p, <2>3, <3>1, <3>2
  <2>5. CASE frame_ff[w] = b
    <3>1. next_frame_ff[w] = NoFrame /\ iter_ff_on_top[w] /\ ~Attached(b)'
      BY <1>p, <2>5 DEF Holdings
    <3>2. HoldsWell(w)'
      <4>1. frame_ff'[w] = b /\ next_frame_ff'[w] = NoFrame /\ iter_ff_on_top'[w] /\ pc'[b] \in RunningPCs
        BY <1>p, <2>1, <2>5, <3>1
      <4>2. ~Attached(frame_ff[w])'
        BY <3>1, <4>1
      <4> QED
        BY <1>0, <4>1, <4>2 DEF HoldsWell
    <3> QED
      BY <1>w, <2>2, <2>4, <3>2
  <2> QED
    BY <1>w, <2>2, <2>4, <2>5
\* a step that moves no frame and no iteration
<1>u. ASSUME UNCHANGED worker, UNCHANGED <<pc, iter_status>>, \A c \in Blocks : Attached(c)' => Attached(c)
      PROVE  Holdings'
  <2>1. \A u \in Workers, c \in Blocks : frame_ff[u] = c => ~Attached(c)'
    BY <1>u DEF Holdings
  <2>2. ASSUME NEW u \in Workers PROVE HoldsWell(u)'
    BY <1>o, <1>u, <2>1 DEF worker
  <2> QED
    BY <1>w, <2>2
<1>a. ASSUME UNCHANGED <<cpc, current_iter>> PROVE \A c \in Blocks : Attached(c)' <=> Attached(c)
  BY <1>a, SameIter DEF Attached
<1>1. ASSUME NEW w \in Workers, ControlStep(w) PROVE Holdings'
  <2>1. CASE InitIterFrame(w)
    <3>1. /\ UNCHANGED <<current_iter, worker>> /\ cpc = "loop" /\ cpc' = "body"
          /\ pc' = [pc EXCEPT ![Current] = "test"] /\ iter_status' = [iter_status EXCEPT ![Current] = "standard"]
      BY <2>1 DEF InitIterFrame, RunsControl, Goto
    <3>2. \A u \in Workers : frame_ff[u] # Current /\ next_frame_ff[u] # Current
      BY <1>0, <3>1 DEF Holdings, Places, NotStarted, RunningPCs, AlivePCs, Finishing
    <3>3. \A c \in Blocks : c # Current => pc'[c] = pc[c] /\ iter_status'[c] = iter_status[c] /\ ~Attached(c)'
      BY <3>1, SameIter DEF Types, Attached
    <3>4. ASSUME NEW u \in Workers PROVE HoldsWell(u)'
      BY <1>o, <3>1, <3>2, <3>3 DEF worker
    <3> QED
      BY <1>w, <3>4
  <2>2. CASE EndLoop(w) \/ ThrottleFast(w) \/ ThrottleSlow(w) \/ SetupNext(w) \/ CleanUp(w)
    <3>1. UNCHANGED <<worker, pc, iter_status>> /\ cpc # "body" /\ cpc' # "body"
      BY <2>2 DEF EndLoop, CleanUp, ThrottleSlow, ThrottleFast, SetupNext, RunsControl, ring, code
    <3> QED
      BY <1>u, <3>1 DEF Attached
  <2>3. CASE SuspendControl(w)
    <3>1. /\ UNCHANGED <<parent_resume, iter_ff_on_top, pc, iter_status>> /\ cpc' # "body"
          /\ frame_ff[w] = Control /\ frame_ff' = [frame_ff EXCEPT ![w] = NoFrame]
          /\ next_frame_ff' = [next_frame_ff EXCEPT ![w] = Control] \/ UNCHANGED next_frame_ff
      BY <2>3 DEF SuspendControl, RunsControl, code, Types
    <3>2. parent_resume[w] = "none" /\ next_frame_ff[w] = NoFrame
      BY <3>1 DEF Holdings
    <3>3. HoldsWell(w)'
      <4>1. frame_ff'[w] = NoFrame /\ next_frame_ff'[w] \in {NoFrame, Control} /\ parent_resume'[w] = "none"
        BY <3>1, <3>2 DEF Types
      <4> QED
        BY <1>0, <4>1 DEF HoldsWell
    <3>4. ASSUME NEW u \in Workers, u # w PROVE HoldsWell(u)'
      <4>1. /\ frame_ff'[u] = frame_ff[u] /\ next_frame_ff'[u] = next_frame_ff[u]
            /\ \A c \in Blocks : ~Attached(c)'
        BY <3>1, <3>4 DEF Types, Attached
      <4> QED
        BY <1>o, <3>1, <4>1
    <3> QED
      BY <1>w, <3>3, <3>4
  <2>4. CASE SyncControl(w)
    <3>1. /\ UNCHANGED <<parent_resume, iter_ff_on_top, pc, iter_status>> /\ cpc' # "body"
          /\ frame_ff[w] = Control /\ frame_ff' = [frame_ff EXCEPT ![w] = NoFrame]
          /\ IF join_counter = 1 THEN next_frame_ff' = [next_frame_ff EXCEPT ![Leader] = Control]
                                 ELSE UNCHANGED next_frame_ff
      BY <2>4 DEF SyncControl, RunsControl, code, ring
    <3>2. parent_resume[w] = "none" /\ next_frame_ff[w] = NoFrame
      BY <3>1 DEF Holdings
    <3>3. \A u \in Workers : frame_ff'[u] = (IF u = w THEN NoFrame ELSE frame_ff[u])
      BY <3>1 DEF Types
    <3>4. CASE join_counter = 1
      <4>1. \A u \in Workers : frame_ff'[u] \notin Blocks
        BY <1>0, <2>4, <3>3, <3>4, NoChildrenAtSync DEF AllIdle, Holdings, RunningPCs, AlivePCs, Finishing
      <4>2. \A u \in Workers : frame_ff'[u] # Control /\ parent_resume'[u] = "none"
        BY <1>0, <3>1, <3>2, <3>3 DEF ControlOnce, HasControl
      <4>3. \A u \in Workers : next_frame_ff'[u] \notin Blocks
        BY <1>0, <2>4, <3>1, <3>4, NoChildrenAtSync DEF AllIdle, Holdings, Types
      <4> QED
        BY <1>w, <4>1, <4>2, <4>3 DEF HoldsWell
    <3>5. CASE join_counter # 1
      <4>1. HoldsWell(w)'
        BY <1>0, <3>1, <3>2, <3>3, <3>5 DEF HoldsWell
      <4>2. ASSUME NEW u \in Workers, u # w PROVE HoldsWell(u)'
        <5>1. \A c \in Blocks : ~Attached(c)'
          BY <3>1 DEF Attached
        <5> QED
          BY <1>o, <3>1, <3>3, <3>5, <4>2, <5>1
      <4> QED
        BY <1>w, <4>1, <4>2
    <3> QED
      BY <3>4, <3>5
  <2> QED
    BY <1>1, <2>1, <2>2, <2>3, <2>4 DEF ControlStep
<1>2. ASSUME NEW w \in Workers, ResumeFrame(w) PROVE Holdings'
  <2> DEFINE n == next_frame_ff[w]
  <2>1. /\ frame_ff[w] = NoFrame /\ n # NoFrame
        /\ frame_ff' = [frame_ff EXCEPT ![w] = n]
        /\ next_frame_ff' = [next_frame_ff EXCEPT ![w] = NoFrame]
        /\ iter_ff_on_top' = [iter_ff_on_top EXCEPT ![w] = n \in Blocks]
        /\ pc' = [b \in Blocks |-> IF b = n THEN "stall" ELSE pc[b]]
        /\ UNCHANGED <<cpc, current_iter, iter_status, parent_resume>>
    BY <1>2 DEF ResumeFrame, ring, control
  <2>2. \A u \in Workers : u # w => frame_ff[u] # n /\ next_frame_ff[u] # n
    BY <2>1 DEF OneHolder
  <2>3. HoldsWell(w)'
    <3>1. frame_ff'[w] = n /\ next_frame_ff'[w] = NoFrame /\ iter_ff_on_top'[w] = (n \in Blocks)
      BY <2>1 DEF Types
    <3>2. CASE n \in Blocks
      <4>1. ~Attached(n)
        BY <1>0, <3>2 DEF Holdings, Places, AttachedPCs, Attached
      <4>2. pc'[n] = "stall"
        BY <2>1, <3>2
      <4>3. \A c \in Blocks : c = n => ~Attached(c)'
        BY <1>a, <2>1, <4>1
      <4>4. ~Attached(frame_ff[w])'
        BY <3>1, <3>2, <4>3
      <4> HIDE DEF n
      <4> QED
        BY <1>0, <3>1, <3>2, <4>2, <4>4 DEF HoldsWell, RunningPCs, AlivePCs
    <3>3. CASE n \notin Blocks
      <4>1. n = Control
        BY <2>1, <3>3, Names DEF Types
      <4>2. parent_resume'[w] = "none" /\ ~iter_ff_on_top'[w]
        BY <2>1, <3>1, <3>3, <4>1 DEF ControlOnce
      <4> HIDE DEF n
      <4> QED
        BY <1>0, <3>1, <3>3, <4>1, <4>2 DEF HoldsWell
    <3> QED
      BY <3>2, <3>3
  <2>4. ASSUME NEW u \in Workers, u # w PROVE HoldsWell(u)'
    <3>1. /\ frame_ff'[u] = frame_ff[u] /\ next_frame_ff'[u] = next_frame_ff[u]
          /\ iter_ff_on_top'[u] = iter_ff_on_top[u]
      BY <2>1, <2>4 DEF Types
    <3>2. \A c \in Blocks : frame_ff[u] = c => pc'[c] = pc[c] /\ ~Attached(c)'
      BY <1>a, <2>1, <2>2, <2>4 DEF Holdings
    <3>3. \A c \in Blocks : next_frame_ff[u] = c => pc'[c] = pc[c]
      BY <2>1, <2>2, <2>4
    <3> HIDE DEF n
    <3> QED
      BY <1>o, <2>1, <3>1, <3>2, <3>3
  <2> QED
    BY <1>w, <2>3, <2>4
<1>3. ASSUME NEW w \in Workers, NEW b \in Blocks, UserStep(w, b) PROVE Holdings'
  <2>1. /\ Executes(w, b) /\ pc[b] \in {"test", "user", "last"} /\ UNCHANGED <<worker, cpc, current_iter, iter_status>>
        /\ \E p \in {"user", "last", "wait"} : pc' = [pc EXCEPT ![b] = p]
    <3>1. CASE \E s \in 1 .. MaxStage : Stage(w, b, s)
      BY <3>1 DEF Stage, UserStages, Types, control
    <3>2. CASE ~\E s \in 1 .. MaxStage : Stage(w, b, s)
      BY <1>3, <3>2 DEF UserStep, TestCondition, StageWait, Goto, ring, control
    <3> QED
      BY <3>1, <3>2
  <2>2. PICK p \in {"user", "last", "wait"} : pc' = [pc EXCEPT ![b] = p]
    BY <2>1
  <2>3. p \in RunningPCs
    BY DEF RunningPCs, AlivePCs
  <2>4. \A c \in Blocks : Attached(c)' => Attached(c)
    BY <1>a, <2>1
  <2> QED
    BY <1>p, <2>1, <2>2, <2>3, <2>4 DEF worker
<1>4. ASSUME NEW w \in Workers, NEW b \in Blocks, WaitStep(w, b) PROVE Holdings'
  <2>0. Executes(w, b)
    BY <1>4 DEF WaitStep, CachedEnough, ReadLeft, Stall, Promote, AlreadyPromoted, SuspendFails,
       Suspend, SuspendNext
  <2>1. \A u \in Workers : next_frame_ff[u] # b /\ (u # w => frame_ff[u] # b)
    BY <2>0, ExecutorAlone
  <2>2. CASE CachedEnough(w, b) \/ ReadLeft(w, b) \/ Stall(w, b) \/ AlreadyPromoted(w, b) \/ Suspend(w, b)
    <3>1. /\ pc[b] \in {"wait", "stall", "promote", "suspend"} /\ UNCHANGED <<worker, cpc, current_iter>>
          /\ iter_status' = [iter_status EXCEPT ![b] = "suspended"] \/ UNCHANGED iter_status
          /\ \E p \in {"user", "final", "wait", "stall", "promote", "suspend", "suspending"} :
               pc' = [pc EXCEPT ![b] = p]
      BY <2>2 DEF CachedEnough, AfterWait, ReadLeft, Stall, AlreadyPromoted, Suspend, Goto, ring, control
    <3>2. PICK p \in {"user", "final", "wait", "stall", "promote", "suspend", "suspending"} :
            pc' = [pc EXCEPT ![b] = p]
      BY <3>1
    <3>3. p \in RunningPCs
      BY DEF RunningPCs, AlivePCs
    <3>4. \A c \in Blocks : Attached(c)' => Attached(c)
      BY <1>a, <3>1
    <3>5. \A c \in Blocks : pc[c] = "asleep" => iter_status'[c] = iter_status[c]
      BY <3>1 DEF Types
    <3> QED
      BY <1>p, <2>0, <3>1, <3>2, <3>3, <3>4, <3>5 DEF worker
  <2>3. CASE Promote(w, b)
    <3>1. /\ cpc' = "throttle" /\ b = Current /\ frame_ff' = [frame_ff EXCEPT ![w] = b] /\ UNCHANGED next_frame_ff
          /\ iter_ff_on_top' = [iter_ff_on_top EXCEPT ![w] = TRUE]
          /\ parent_resume' = [parent_resume EXCEPT ![w] = "self"]
          /\ pc' = [pc EXCEPT ![b] = "suspend"] /\ iter_status' = [iter_status EXCEPT ![b] = "promoted"]
          /\ next_frame_ff[w] = NoFrame
      BY <2>3, PromotesAttached DEF Promote, InstallIteration, Goto
    <3>2. \A c \in Blocks : ~Attached(c)'
      BY <3>1 DEF Attached
    <3>3. HoldsWell(w)'
      <4>1. frame_ff'[w] = b /\ next_frame_ff'[w] = NoFrame /\ iter_ff_on_top'[w] /\ pc'[b] = "suspend"
        BY <3>1 DEF Types
      <4> QED
        BY <1>0, <3>2, <4>1 DEF HoldsWell, RunningPCs, AlivePCs
    <3>4. ASSUME NEW u \in Workers, u # w PROVE HoldsWell(u)'
      <4>1. /\ frame_ff'[u] = frame_ff[u] /\ next_frame_ff'[u] = next_frame_ff[u]
            /\ iter_ff_on_top'[u] = iter_ff_on_top[u] /\ parent_resume'[u] = parent_resume[u]
            /\ \A c \in Blocks : c # b => pc'[c] = pc[c] /\ iter_status'[c] = iter_status[c]
        BY <3>1, <3>4 DEF Types
      <4> QED
        BY <1>o, <2>1, <3>2, <3>4, <4>1
    <3> QED
      BY <1>w, <3>3, <3>4
  <2>4. CASE SuspendFails(w, b)
    <3>1. /\ frame_ff' = [frame_ff EXCEPT ![w] = NoFrame] /\ next_frame_ff' = [next_frame_ff EXCEPT ![w] = b]
          /\ pc' = [pc EXCEPT ![b] = "asleep"] /\ pc[b] = "suspend"
          /\ UNCHANGED <<cpc, current_iter, iter_status, parent_resume, iter_ff_on_top>>
      BY <2>4 DEF SuspendFails, Goto, ring, control
    <3>2. iter_status[b] = "promoted" /\ frame_ff[w] = b
      BY <2>0, <3>1, RunsPromoted DEF IterStatuses, RunningPCs, AlivePCs
    <3>3. HoldsWell(w)'
      <4>1. frame_ff'[w] = NoFrame /\ next_frame_ff'[w] = b /\ pc'[b] = "asleep" /\ iter_status'[b] = "promoted"
        BY <3>1, <3>2 DEF Types
      <4> QED
        BY <1>0, <4>1 DEF HoldsWell
    <3>4. ASSUME NEW u \in Workers, u # w PROVE HoldsWell(u)'
      <4>1. /\ frame_ff'[u] = frame_ff[u] /\ next_frame_ff'[u] = next_frame_ff[u]
            /\ \A c \in Blocks : c # b => pc'[c] = pc[c]
        BY <3>1, <3>4 DEF Types
      <4>2. \A c \in Blocks : frame_ff[u] = c => ~Attached(c)'
        BY <1>a, <3>1 DEF Holdings
      <4> QED
        BY <1>o, <2>1, <3>1, <3>4, <4>1, <4>2
    <3> QED
      BY <1>w, <3>3, <3>4
  <2>5. CASE SuspendNext(w, b)
    <3>0. pc[b] = "suspending" /\ ~BlockLocked(Right(b))
      BY <2>5 DEF SuspendNext
    <3>1. frame_ff[w] = b /\ next_frame_ff[w] = NoFrame
      BY <2>0, <3>0, RunsPromoted
    <3>2. /\ frame_ff' = [frame_ff EXCEPT ![w] = NoFrame] /\ UNCHANGED <<cpc, current_iter>>
          /\ pc' = [pc EXCEPT ![b] = "asleep"] /\ iter_ff_on_top' = [iter_ff_on_top EXCEPT ![w] = FALSE]
      BY <2>5 DEF SuspendNext, Goto, control
    <3>3. \A u \in Workers, c \in Blocks : frame_ff[u] = c => ~Attached(c)'
      BY <1>a, <3>2 DEF Holdings
    <3>4. CASE RightResumable(b)
      <4>1. /\ Right(b) \in Blocks /\ pc[Right(b)] = "asleep"
            /\ \A u \in Workers : frame_ff[u] # Right(b) /\ next_frame_ff[u] # Right(b)
        BY <3>0, <3>4, SleepsAlone
      <4>2. /\ next_frame_ff' = [next_frame_ff EXCEPT ![w] = Right(b)] /\ UNCHANGED parent_resume
            /\ iter_status' = [iter_status EXCEPT ![Right(b)] = "promoted"]
        BY <2>5, <3>4 DEF SuspendNext, ResumeRight
      <4>3. HoldsWell(w)'
        <5>1. frame_ff'[w] = NoFrame /\ next_frame_ff'[w] = Right(b)
          BY <3>2, <4>2 DEF Types
        <5>2. pc'[Right(b)] = "asleep" /\ iter_status'[Right(b)] = "promoted"
          BY <3>2, <4>1, <4>2 DEF Types
        <5> QED
          BY <1>0, <4>1, <5>1, <5>2 DEF HoldsWell
      <4>4. ASSUME NEW u \in Workers, u # w PROVE HoldsWell(u)'
        <5>1. /\ frame_ff'[u] = frame_ff[u] /\ next_frame_ff'[u] = next_frame_ff[u]
              /\ iter_ff_on_top'[u] = iter_ff_on_top[u]
              /\ \A c \in Blocks : c # b => pc'[c] = pc[c]
              /\ \A c \in Blocks : c # Right(b) => iter_status'[c] = iter_status[c]
          BY <3>2, <4>2, <4>4 DEF Types
        <5> QED
          BY <1>o, <2>1, <3>3, <4>1, <4>2, <4>4, <5>1
      <4> QED
        BY <1>w, <4>3, <4>4
    <3>5. CASE ~RightResumable(b)
      <4>1. /\ next_frame_ff' = [next_frame_ff EXCEPT ![w] = IF parent_resume[w] # "none" THEN Control ELSE @]
            /\ parent_resume' = [parent_resume EXCEPT ![w] = "none"]
            /\ UNCHANGED iter_status
        BY <2>5, <3>5 DEF SuspendNext
      <4>2. HoldsWell(w)'
        <5>1. frame_ff'[w] = NoFrame /\ next_frame_ff'[w] \in {NoFrame, Control} /\ parent_resume'[w] = "none"
          BY <3>1, <3>2, <4>1 DEF Types
        <5> QED
          BY <1>0, <5>1 DEF HoldsWell
      <4>3. ASSUME NEW u \in Workers, u # w PROVE HoldsWell(u)'
        <5>1. /\ frame_ff'[u] = frame_ff[u] /\ next_frame_ff'[u] = next_frame_ff[u]
              /\ iter_ff_on_top'[u] = iter_ff_on_top[u] /\ parent_resume'[u] = parent_resume[u]
              /\ \A c \in Blocks : c # b => pc'[c] = pc[c]
          BY <3>2, <4>1, <4>3 DEF Types
        <5> QED
          BY <1>o, <2>1, <3>3, <4>1, <4>3, <5>1
      <4> QED
        BY <1>w, <4>2, <4>3
    <3> QED
      BY <3>4, <3>5
  <2> QED
    BY <1>4, <2>2, <2>3, <2>4, <2>5 DEF WaitStep
<1>5. ASSUME NEW w \in Workers, NEW b \in Blocks, LeaveStep(w, b) PROVE Holdings'
  <2>0. Executes(w, b)
    BY <1>5 DEF LeaveStep, FinishFinalStage, LeaveFrame, AttachedDone, AttachedFreeLeft, AttachedFreeOwn,
       ReturnLast, ReturnOther, FreeLeft, StageDone, CheckRight, FreeOwn
  <2>1. \A u \in Workers : next_frame_ff[u] # b /\ (u # w => frame_ff[u] # b)
    BY <2>0, ExecutorAlone
  <2>2. CASE FinishFinalStage(w, b) \/ LeaveFrame(w, b) \/ ReturnOther(w, b) \/ StageDone(w, b)
    <3>1. /\ pc[b] \in {"final", "leave", "return", "stage_done"}
          /\ UNCHANGED <<worker, cpc, current_iter, iter_status>>
          /\ \E p \in {"leave", "attached_done", "return", "free_left", "check_right"} :
               pc' = [pc EXCEPT ![b] = p] /\ (frame_ff[w] = b => p # "attached_done")
      BY <1>0, <2>2 DEF FinishFinalStage, LeaveFrame, ReturnOther, StageDone, Goto, ring, control
    <3>2. PICK p \in {"leave", "attached_done", "return", "free_left", "check_right"} :
               pc' = [pc EXCEPT ![b] = p] /\ (frame_ff[w] = b => p # "attached_done")
      BY <3>1
    <3>3. frame_ff[w] = b => p \in RunningPCs
      BY <3>2 DEF RunningPCs, AlivePCs, Finishing
    <3>4. \A c \in Blocks : Attached(c)' => Attached(c)
      BY <1>a, <3>1
    <3> QED
      BY <1>p, <2>0, <3>1, <3>2, <3>3, <3>4 DEF worker
  <2>3. CASE AttachedDone(w, b) \/ AttachedFreeLeft(w, b) \/ AttachedFreeOwn(w, b)
    <3>1. /\ pc[b] \in {"attached_done", "attached_left", "attached_own"} /\ UNCHANGED <<worker, current_iter>>
          /\ UNCHANGED cpc \/ cpc' = "throttle"
          /\ \E p \in {"attached_left", "attached_own", "idle"} : pc' = [pc EXCEPT ![b] = p]
      BY <2>3 DEF AttachedDone, AttachedFreeLeft, AttachedFreeOwn, Goto, control
    <3>2. frame_ff[w] # b
      BY <1>0, <2>0, <3>1, EndsAttached
    <3>3. \A c \in Blocks : Attached(c)' => Attached(c)
      BY <1>a, <3>1 DEF Attached
    <3>4. \A c \in Blocks : pc[c] = "asleep" => iter_status'[c] = iter_status[c]
      <4>1. CASE AttachedDone(w, b)
        BY <4>1 DEF AttachedDone
      <4>2. CASE AttachedFreeLeft(w, b)
        <5>1. ReadyForReuse(CountFinish(Left(b))) => pc[Left(b)] = "idle"
          BY <4>2, ReadyMeansIdle DEF AttachedFreeLeft, DoneWithLeft
        <5> QED
          BY <4>2, <5>1 DEF AttachedFreeLeft, FreeBlock, Types
      <4>3. CASE AttachedFreeOwn(w, b)
        BY <3>1, <4>3 DEF AttachedFreeOwn, FreeBlock, Types
      <4> QED
        BY <2>3, <4>1, <4>2, <4>3
    <3> QED
      BY <1>p, <2>0, <3>1, <3>2, <3>3, <3>4 DEF worker
  <2>4. CASE FreeLeft(w, b)
    <3>1. /\ pc[b] = "free_left" /\ UNCHANGED <<frame_ff, next_frame_ff, iter_ff_on_top, cpc, current_iter>>
          /\ pc' = [pc EXCEPT ![b] = "stage_done"]
          /\ \A u \in Workers \ {w} : parent_resume'[u] = parent_resume[u]
      BY <2>4 DEF FreeLeft, Goto, control, Types
    <3>2. frame_ff[w] = b
      BY <2>0, <3>1, RunsPromoted DEF Finishing
    <3>3. \A c \in Blocks : Attached(c)' => Attached(c)
      BY <1>a, <3>1
    <3>4. \A c \in Blocks : pc[c] = "asleep" => iter_status'[c] = iter_status[c]
      <4>1. ReadyForReuse(CountFinish(Left(b))) => pc[Left(b)] = "idle"
        BY <3>1, ReadyMeansIdle DEF DoneWithLeft
      <4> QED
        BY <2>4, <4>1 DEF FreeLeft, FreeBlock, Types
    <3>5. "stage_done" \in RunningPCs
      BY DEF RunningPCs, Finishing
    <3> QED
      BY <1>p, <2>0, <3>1, <3>2, <3>3, <3>4, <3>5
  <2>5. CASE ReturnLast(w, b)
    <3>1. /\ frame_ff' = [frame_ff EXCEPT ![w] = NoFrame] /\ UNCHANGED parent_resume
          /\ next_frame_ff' = [next_frame_ff EXCEPT ![Leader] = Control] /\ pc[b] = "return"
      BY <2>5 DEF ReturnLast
    <3>2. /\ \A u \in Workers : ~HasControl(u)
          /\ \A c \in Blocks : c # b => pc[c] = "idle"
      BY <2>5, LastReturn
    <3>3. \A u \in Workers : frame_ff'[u] = (IF u = w THEN NoFrame ELSE frame_ff[u])
      BY <3>1 DEF Types
    <3>4. \A u \in Workers : frame_ff'[u] \notin Blocks
      BY <1>0, <2>1, <3>2, <3>3 DEF Holdings, RunningPCs, AlivePCs, Finishing
    <3>5. \A u \in Workers : next_frame_ff'[u] \notin Blocks
      <4>1. \A u \in Workers : next_frame_ff[u] \notin Blocks
        BY <3>1, <3>2 DEF Holdings
      <4> QED
        BY <1>0, <3>1, <4>1 DEF Types
    <3>6. \A u \in Workers : parent_resume'[u] = "none" /\ frame_ff'[u] # Control
      BY <1>0, <3>1, <3>2, <3>3 DEF HasControl
    <3> QED
      BY <1>w, <3>4, <3>5, <3>6 DEF HoldsWell
  <2>6. CASE CheckRight(w, b)
    <3>0. pc[b] = "check_right" /\ ~BlockLocked(Right(b))
      BY <2>6 DEF CheckRight
    <3>1. frame_ff[w] = b /\ next_frame_ff[w] = NoFrame /\ iter_ff_on_top[w] /\ ~Attached(b)
      BY <2>0, <3>0, RunsPromoted DEF Finishing
    <3>2. /\ UNCHANGED <<cpc, current_iter, frame_ff, parent_resume, iter_ff_on_top>>
          /\ pc' = [pc EXCEPT ![b] = "free_own"]
      BY <2>6 DEF CheckRight, Goto, control
    <3>3. \A u \in Workers, c \in Blocks : frame_ff[u] = c => ~Attached(c)'
      BY <1>a, <3>2 DEF Holdings
    <3>4. CASE RightResumable(b)
      <4>1. /\ Right(b) \in Blocks /\ pc[Right(b)] = "asleep"
            /\ \A u \in Workers : frame_ff[u] # Right(b) /\ next_frame_ff[u] # Right(b)
        BY <3>0, <3>4, SleepsAlone
      <4>2. /\ next_frame_ff' = [next_frame_ff EXCEPT ![w] = Right(b)]
            /\ iter_status' = [iter_status EXCEPT ![Right(b)] = "promoted"]
        BY <2>6, <3>4 DEF CheckRight, ResumeRight
      <4>3. HoldsWell(w)'
        <5>1. /\ frame_ff'[w] = b /\ next_frame_ff'[w] = Right(b) /\ pc'[b] = "free_own" /\ iter_ff_on_top'[w]
              /\ Right(frame_ff[w])' = Right(b)
          BY <3>1, <3>2, <4>2 DEF Types
        <5>2. pc'[Right(b)] = "asleep" /\ iter_status'[Right(b)] = "promoted"
          BY <3>0, <3>2, <4>1, <4>2 DEF Types
        <5>3. ~Attached(frame_ff[w])'
          BY <3>1, <3>3, <5>1
        <5> QED
          BY <1>0, <4>1, <5>1, <5>2, <5>3 DEF HoldsWell, RunningPCs, Finishing
      <4>4. ASSUME NEW u \in Workers, u # w PROVE HoldsWell(u)'
        <5>1. /\ next_frame_ff'[u] = next_frame_ff[u]
              /\ \A c \in Blocks : c # b => pc'[c] = pc[c]
              /\ \A c \in Blocks : c # Right(b) => iter_status'[c] = iter_status[c]
          BY <3>2, <4>2, <4>4 DEF Types
        <5> QED
          BY <1>o, <2>1, <3>2, <3>3, <4>1, <4>4, <5>1
      <4> QED
        BY <1>w, <4>3, <4>4
    <3>5. CASE ~RightResumable(b)
      <4>1. UNCHANGED <<iter_status, next_frame_ff>>
        BY <2>6, <3>5 DEF CheckRight, NothingToResume
      <4>2. \A c \in Blocks : Attached(c)' => Attached(c)
        BY <1>a, <3>2
      <4>3. "free_own" \in RunningPCs
        BY DEF RunningPCs, Finishing
      <4> QED
        BY <1>p, <2>0, <3>0, <3>2, <4>1, <4>2, <4>3
    <3> QED
      BY <3>4, <3>5
  <2>7. CASE FreeOwn(w, b)
    <3>0. pc[b] = "free_own"
      BY <2>7 DEF FreeOwn
    <3>1. frame_ff[w] = b
      BY <2>0, <3>0, RunsPromoted DEF Finishing
    <3>2. /\ frame_ff' = [frame_ff EXCEPT ![w] = NoFrame] /\ UNCHANGED <<cpc, current_iter>>
          /\ pc' = [pc EXCEPT ![b] = "idle"] /\ iter_ff_on_top' = [iter_ff_on_top EXCEPT ![w] = FALSE]
          /\ \A c \in Blocks : c # b => iter_status'[c] = iter_status[c]
          /\ IF next_frame_ff[w] # NoFrame
               THEN /\ \A u \in Workers \ {w} : parent_resume'[u] = parent_resume[u]
                    /\ UNCHANGED next_frame_ff
               ELSE /\ parent_resume' = [parent_resume EXCEPT ![w] = "none"]
                    /\ next_frame_ff' = [next_frame_ff EXCEPT ![w] = Control] \/ UNCHANGED next_frame_ff
      BY <2>7 DEF FreeOwn, FreeBlock, TakeParent, Goto, control, Types
    <3>3. \A c \in Blocks : c # b => pc'[c] = pc[c]
      BY <3>2 DEF Types
    <3>4. HoldsWell(w)'
      <4>1. frame_ff'[w] = NoFrame
        BY <3>2 DEF Types
      <4>2. CASE next_frame_ff[w] # NoFrame
        <5>1. next_frame_ff'[w] = Right(b) /\ next_frame_ff[w] = Right(b) /\ Right(b) \in Blocks /\ Right(b) # b
          BY <3>1, <3>2, <4>2, Neighbours DEF Holdings
        <5>2. pc[Right(b)] = "asleep" /\ iter_status[Right(b)] = "promoted"
          BY <5>1 DEF Holdings
        <5>3. pc'[Right(b)] = "asleep" /\ iter_status'[Right(b)] = "promoted"
          BY <3>2, <3>3, <5>1, <5>2
        <5> QED
          BY <1>0, <4>1, <5>1, <5>3 DEF HoldsWell
      <4>3. CASE next_frame_ff[w] = NoFrame
        <5>1. parent_resume'[w] = "none" /\ next_frame_ff'[w] \in {NoFrame, Control}
          BY <3>2, <4>3 DEF Types
        <5> QED
          BY <1>0, <4>1, <5>1 DEF HoldsWell
      <4> QED
        BY <4>2, <4>3
    <3>5. ASSUME NEW u \in Workers, u # w PROVE HoldsWell(u)'
      <4>1. /\ frame_ff'[u] = frame_ff[u] /\ next_frame_ff'[u] = next_frame_ff[u]
            /\ iter_ff_on_top'[u] = iter_ff_on_top[u] /\ parent_resume'[u] = parent_resume[u]
        BY <3>2, <3>5 DEF Types
      <4>2. \A c \in Blocks : frame_ff[u] = c => ~Attached(c)'
        BY <1>a, <3>2 DEF Holdings
      <4> QED
        BY <1>o, <2>1, <3>2, <3>3, <3>5, <4>1, <4>2
    <3> QED
      BY <1>w, <3>4, <3>5
  <2> QED
    BY <1>5, <2>2, <2>3, <2>4, <2>5, <2>6, <2>7 DEF LeaveStep
<1>6. ASSUME NEW v \in Workers, NEW w \in Workers, StealControl(v, w) PROVE Holdings'
  <2>1. /\ frame_ff[w] = Control /\ cpc = "body" /\ detached /\ v # w
        /\ frame_ff[v] = NoFrame /\ next_frame_ff[v] = NoFrame
        /\ frame_ff' = [frame_ff EXCEPT ![w] = Current]
        /\ next_frame_ff' = [next_frame_ff EXCEPT ![v] = Control]
        /\ parent_resume' = [parent_resume EXCEPT ![w] = parent_resume[w]]
        /\ iter_ff_on_top' = [iter_ff_on_top EXCEPT ![w] = TRUE]
        /\ iter_status' = [iter_status EXCEPT ![Current] = "promoted"]
        /\ UNCHANGED pc /\ cpc' = "throttle"
    BY <1>6 DEF StealControl, InstallIteration, Stealable, RunsControl, Idle
  <2>2. \A c \in Blocks : ~Attached(c)'
    BY <2>1 DEF Attached
  <2>3. Executes(w, Current) /\ pc[Current] \in RunningPCs /\ next_frame_ff[w] = NoFrame
    BY <1>0, <2>1 DEF Executes, Places, AttachedPCs, AlivePCs, RunningPCs, Holdings
  <2>4. \A u \in Workers : next_frame_ff[u] # Current /\ (u # w => frame_ff[u] # Current)
    BY <1>0, <2>3, ExecutorAlone
  <2>5. HoldsWell(w)'
    <3>1. frame_ff'[w] = Current /\ next_frame_ff'[w] = NoFrame /\ iter_ff_on_top'[w]
      BY <2>1, <2>3 DEF Types
    <3>2. ~Attached(frame_ff[w])'
      BY <1>0, <2>2, <3>1
    <3> QED
      BY <1>0, <2>1, <2>3, <3>1, <3>2 DEF HoldsWell
  <2>6. HoldsWell(v)'
    <3>1. frame_ff'[v] = NoFrame /\ next_frame_ff'[v] = Control /\ parent_resume'[v] = "none"
      BY <1>0, <2>1 DEF Types, Holdings
    <3> QED
      BY <1>0, <3>1 DEF HoldsWell
  <2>7. ASSUME NEW u \in Workers, u # v, u # w PROVE HoldsWell(u)'
    <3>1. /\ frame_ff'[u] = frame_ff[u] /\ next_frame_ff'[u] = next_frame_ff[u]
          /\ iter_ff_on_top'[u] = iter_ff_on_top[u] /\ parent_resume'[u] = parent_resume[u]
          /\ \A c \in Blocks : c # Current => iter_status'[c] = iter_status[c]
      BY <2>1, <2>7 DEF Types
    <3> QED
      BY <1>o, <2>1, <2>2, <2>4, <2>7, <3>1
  <2> QED
    BY <1>w, <2>5, <2>6, <2>7
<1>7. ASSUME NEW v \in Workers, NEW w \in Workers, StealImplicitly(v, w) PROVE Holdings'
  <2>1. /\ frame_ff[v] = NoFrame /\ next_frame_ff[v] = NoFrame /\ v # w /\ frame_ff[w] \in Blocks
        /\ UNCHANGED <<cpc, current_iter, pc, frame_ff, iter_ff_on_top>>
        /\ parent_resume' = [parent_resume EXCEPT ![w] = "none"]
    BY <1>7 DEF StealImplicitly, Idle, control, code
  <2>2. \A u \in Workers, c \in Blocks : frame_ff[u] = c => ~Attached(c)'
    BY <1>a, <2>1 DEF Holdings
  <2>3. parent_resume'[v] = "none"
    BY <1>0, <2>1 DEF Holdings, Types
  <2>4. \/ UNCHANGED <<next_frame_ff, iter_status>>
        \/ next_frame_ff' = [next_frame_ff EXCEPT ![v] = Control] /\ UNCHANGED iter_status
        \/ \E b \in Blocks : /\ next_frame_ff' = [next_frame_ff EXCEPT ![v] = Right(b)]
                             /\ iter_status' = [iter_status EXCEPT ![Right(b)] = "promoted"]
                             /\ RightResumable(b) /\ ~BlockLocked(Right(b))
    <3>1. CASE ParentResumable(parent_resume[w])
      BY <1>7, <3>1 DEF StealImplicitly, TakeParent
    <3>2. CASE ~ParentResumable(parent_resume[w]) /\ RightResumable(frame_ff[w])
      BY <1>7, <2>1, <3>2 DEF StealImplicitly, ResumeRight
    <3>3. CASE ~ParentResumable(parent_resume[w]) /\ ~RightResumable(frame_ff[w])
      BY <1>7, <3>3 DEF StealImplicitly, NothingToResume
    <3> QED
      BY <3>1, <3>2, <3>3
  <2>5. \A u \in Workers : parent_resume'[u] \in {parent_resume[u], "none"} /\ (u # v => next_frame_ff'[u] = next_frame_ff[u])
    BY <2>1, <2>4 DEF Types
  <2>6. CASE UNCHANGED <<next_frame_ff, iter_status>>
    <3>1. ASSUME NEW u \in Workers PROVE HoldsWell(u)'
      BY <1>o, <2>1, <2>2, <2>5, <2>6
    <3> QED
      BY <1>w, <3>1
  <2>7. CASE next_frame_ff' = [next_frame_ff EXCEPT ![v] = Control] /\ UNCHANGED iter_status
    <3>1. ASSUME NEW u \in Workers, u # v PROVE HoldsWell(u)'
      BY <1>o, <2>1, <2>2, <2>5, <2>7, <3>1
    <3>2. HoldsWell(v)'
      <4>1. frame_ff'[v] = NoFrame /\ next_frame_ff'[v] = Control
        BY <2>1, <2>7 DEF Types
      <4> QED
        BY <1>0, <2>3, <4>1 DEF HoldsWell
    <3> QED
      BY <1>w, <3>1, <3>2
  <2>8. ASSUME NEW b \in Blocks, next_frame_ff' = [next_frame_ff EXCEPT ![v] = Right(b)],
               iter_status' = [iter_status EXCEPT ![Right(b)] = "promoted"],
               RightResumable(b), ~BlockLocked(Right(b))
        PROVE  Holdings'
    <3>1. /\ Right(b) \in Blocks /\ pc[Right(b)] = "asleep"
          /\ \A u \in Workers : frame_ff[u] # Right(b) /\ next_frame_ff[u] # Right(b)
      BY <2>8, SleepsAlone
    <3>2. \A c \in Blocks : c # Right(b) => iter_status'[c] = iter_status[c]
      BY <2>8 DEF Types
    <3>3. ASSUME NEW u \in Workers, u # v PROVE HoldsWell(u)'
      BY <1>o, <2>1, <2>2, <2>5, <3>1, <3>2, <3>3
    <3>4. HoldsWell(v)'
      <4>1. frame_ff'[v] = NoFrame /\ next_frame_ff'[v] = Right(b)
        BY <2>1, <2>8 DEF Types
      <4>2. pc'[Right(b)] = "asleep" /\ iter_status'[Right(b)] = "promoted"
        BY <2>1, <2>8, <3>1 DEF Types
      <4> QED
        BY <1>0, <2>3, <3>1, <4>1, <4>2 DEF HoldsWell
    <3> QED
      BY <1>w, <3>3, <3>4
  <2> QED
    BY <2>4, <2>6, <2>7, <2>8
<1>8. CASE UNCHANGED vars
  BY <1>8, <1>a, <1>u DEF vars, ring, control, code
<1> QED
  BY <1>1, <1>2, <1>3, <1>4, <1>5, <1>6, <1>7, <1>8 DEF Next, Step, Steals, Over

----------------------------------------------------------------------------
\* Every running iteration is held at the start.
LEMMA HeldInit == Init => Held
BY DEF Init, Held, RunningPCs, AlivePCs, Finishing

HeldBlock(c) ==
  /\ pc[c] \in RunningPCs /\ ~Attached(c) => \E u \in Workers : frame_ff[u] = c
  /\ pc[c] = "asleep" /\ iter_status[c] # "suspended" => \E u \in Workers : next_frame_ff[u] = c

\* Every running iteration is held, after every step.
LEMMA HeldStep ==
  ASSUME Types, Numbers, Places, Counters, IterStatuses, Holdings, OneHolder, Held, ControlOnce,
         ControlPlace, Joins, [Next]_vars
  PROVE  Held'
<1>0. Current \in Blocks /\ Control \notin Blocks /\ NoFrame \notin Blocks /\ Control # NoFrame
  BY CurrentBlocks, Names DEF Types
<1>w. ASSUME \A c \in Blocks : HeldBlock(c)' PROVE Held'
  BY <1>w DEF Held, HeldBlock
<1>a. ASSUME UNCHANGED <<cpc, current_iter>> PROVE \A c \in Blocks : Attached(c)' <=> Attached(c)
  BY <1>a, SameIter DEF Attached
\* a block that is left alone
<1>o. ASSUME NEW c \in Blocks, pc'[c] = pc[c], Attached(c) => Attached(c)',
             pc[c] = "asleep" /\ iter_status[c] = "suspended" => iter_status'[c] = "suspended",
             \A u \in Workers : frame_ff[u] = c => frame_ff'[u] = c,
             \A u \in Workers : next_frame_ff[u] = c => next_frame_ff'[u] = c
      PROVE  HeldBlock(c)'
  <2>1. CASE pc'[c] \in RunningPCs /\ ~Attached(c)'
    BY <1>o, <2>1 DEF Held, HeldBlock, RunningPCs
  <2>2. CASE pc'[c] = "asleep"
    BY <1>o, <2>2 DEF Held, HeldBlock, RunningPCs, Finishing
  <2>3. CASE ~(pc'[c] \in RunningPCs /\ ~Attached(c)') /\ pc'[c] # "asleep"
    BY <2>3 DEF HeldBlock
  <2> QED
    BY <2>1, <2>2, <2>3
\* a step in place of the iteration in block b
<1>p. ASSUME NEW w \in Workers, NEW b \in Blocks, NEW p, Executes(w, b),
             pc' = [pc EXCEPT ![b] = p], p # "asleep", p = "idle" \/ (Attached(b) => Attached(b)'),
             UNCHANGED frame_ff, \A u \in Workers, c \in Blocks : next_frame_ff[u] = c => next_frame_ff'[u] = c,
             \A c \in Blocks : c # b /\ Attached(c) => Attached(c)',
             \A c \in Blocks : pc[c] = "asleep" /\ iter_status[c] = "suspended" =>
                                 iter_status'[c] = "suspended" \/ HeldBlock(c)'
      PROVE  Held'
  <2>1. \A c \in Blocks : pc'[c] = IF c = b THEN p ELSE pc[c]
    BY <1>p DEF Types
  <2>2. HeldBlock(b)'
    <3>1. CASE frame_ff[w] = b
      BY <1>p, <2>1, <3>1 DEF HeldBlock
    <3>2. CASE frame_ff[w] # b
      BY <1>p, <2>1, <3>2 DEF HeldBlock, Executes, Attached, RunningPCs, AlivePCs, Finishing
    <3> QED
      BY <3>1, <3>2
  <2>3. ASSUME NEW c \in Blocks, c # b PROVE HeldBlock(c)'
    BY <1>o, <1>p, <2>1, <2>3
  <2> QED
    BY <1>w, <2>2, <2>3
\* a step that moves no frame and no iteration
<1>u. ASSUME UNCHANGED worker, UNCHANGED <<pc, iter_status>>, \A c \in Blocks : Attached(c) => Attached(c)'
      PROVE  Held'
  <2>1. ASSUME NEW c \in Blocks PROVE HeldBlock(c)'
    BY <1>o, <1>u DEF worker
  <2> QED
    BY <1>w, <2>1
<1>1. ASSUME NEW w \in Workers, ControlStep(w) PROVE Held'
  <2>1. CASE InitIterFrame(w)
    <3>1. /\ UNCHANGED <<current_iter, worker>> /\ cpc = "loop" /\ cpc' = "body" /\ pc[Current] = "idle"
          /\ pc' = [pc EXCEPT ![Current] = "test"] /\ iter_status' = [iter_status EXCEPT ![Current] = "standard"]
      BY <2>1 DEF InitIterFrame, RunsControl, Goto, Places, NotStarted
    <3>3. ASSUME NEW c \in Blocks, c # Current PROVE HeldBlock(c)'
      <4>1. pc'[c] = pc[c] /\ iter_status'[c] = iter_status[c] /\ ~Attached(c)
        BY <3>1, <3>3 DEF Types, Attached
      <4> QED
        BY <1>o, <3>1, <4>1 DEF worker
    <3>4. \A c \in Blocks : HeldBlock(c)'
      <4>1. \A c : c = Current => HeldBlock(c)'
        <5>1. pc'[Current] = "test"
          BY <1>0, <3>1 DEF Types
        <5> QED
          BY <5>1 DEF HeldBlock, RunningPCs, AlivePCs, Finishing
      <4> QED
        BY <3>3, <4>1
    <3> QED
      BY <1>w, <3>4
  <2>2. CASE EndLoop(w) \/ ThrottleFast(w) \/ ThrottleSlow(w) \/ SetupNext(w) \/ CleanUp(w)
    <3>1. UNCHANGED <<worker, pc, iter_status>> /\ cpc # "body"
      BY <2>2 DEF EndLoop, CleanUp, ThrottleSlow, ThrottleFast, SetupNext, RunsControl, ring, code
    <3> QED
      BY <1>u, <3>1 DEF Attached
  <2>3. CASE SuspendControl(w) \/ SyncControl(w)
    <3>1. /\ UNCHANGED <<pc, iter_status>> /\ cpc # "body"
          /\ frame_ff[w] = Control /\ frame_ff' = [frame_ff EXCEPT ![w] = NoFrame]
          /\ \/ UNCHANGED next_frame_ff
             \/ next_frame_ff' = [next_frame_ff EXCEPT ![w] = Control]
             \/ next_frame_ff' = [next_frame_ff EXCEPT ![Leader] = Control] /\ AllIdle
      BY <2>3, NoChildrenAtSync DEF SuspendControl, SyncControl, RunsControl, code, ring, Types
    <3>2. next_frame_ff[w] = NoFrame
      BY <3>1 DEF Holdings
    <3>3. ASSUME NEW c \in Blocks PROVE HeldBlock(c)'
      <4>1. CASE pc[c] = "idle"
        BY <3>1, <4>1 DEF HeldBlock, RunningPCs, AlivePCs, Finishing
      <4>2. CASE ~AllIdle
        <5>1. \A u \in Workers : frame_ff[u] = c => frame_ff'[u] = c
          BY <1>0, <3>1 DEF Types
        <5>2. \A u \in Workers : next_frame_ff[u] = c => next_frame_ff'[u] = c
          BY <1>0, <3>1, <3>2, <4>2 DEF Types
        <5> QED
          BY <1>o, <3>1, <5>1, <5>2 DEF Attached
      <4> QED
        BY <4>1, <4>2 DEF AllIdle
    <3> QED
      BY <1>w, <3>3
  <2> QED
    BY <1>1, <2>1, <2>2, <2>3 DEF ControlStep
<1>2. ASSUME NEW w \in Workers, ResumeFrame(w) PROVE Held'
  <2> DEFINE n == next_frame_ff[w]
  <2>1. /\ frame_ff[w] = NoFrame /\ n # NoFrame
        /\ frame_ff' = [frame_ff EXCEPT ![w] = n]
        /\ next_frame_ff' = [next_frame_ff EXCEPT ![w] = NoFrame]
        /\ pc' = [b \in Blocks |-> IF b = n THEN "stall" ELSE pc[b]]
        /\ UNCHANGED <<cpc, current_iter, iter_status>>
    BY <1>2 DEF ResumeFrame, ring, control
  <2>2. ASSUME NEW c \in Blocks, c = n PROVE HeldBlock(c)'
    <3>1. frame_ff'[w] = c /\ pc'[c] = "stall"
      BY <2>1, <2>2 DEF Types
    <3> QED
      BY <3>1 DEF HeldBlock
  <2>3. ASSUME NEW c \in Blocks, c # n PROVE HeldBlock(c)'
    <3>1. /\ pc'[c] = pc[c] /\ \A u \in Workers : frame_ff[u] = c => frame_ff'[u] = c
          /\ \A u \in Workers : next_frame_ff[u] = c => next_frame_ff'[u] = c
      BY <1>0, <2>1, <2>3 DEF Types
    <3> HIDE DEF n
    <3> QED
      BY <1>a, <1>o, <2>1, <3>1
  <2> QED
    BY <1>w, <2>2, <2>3
<1>3. ASSUME NEW w \in Workers, NEW b \in Blocks, UserStep(w, b) PROVE Held'
  <2>1. /\ Executes(w, b) /\ UNCHANGED <<worker, cpc, current_iter, iter_status>>
        /\ \E p \in {"user", "last", "wait"} : pc' = [pc EXCEPT ![b] = p]
    <3>1. CASE \E s \in 1 .. MaxStage : Stage(w, b, s)
      BY <3>1 DEF Stage, UserStages, Types, control
    <3>2. CASE ~\E s \in 1 .. MaxStage : Stage(w, b, s)
      BY <1>3, <3>2 DEF UserStep, TestCondition, StageWait, Goto, ring, control
    <3> QED
      BY <3>1, <3>2
  <2>2. PICK p \in {"user", "last", "wait"} : pc' = [pc EXCEPT ![b] = p]
    BY <2>1
  <2>3. \A c \in Blocks : Attached(c) => Attached(c)'
    BY <1>a, <2>1
  <2> QED
    BY <1>p, <2>1, <2>2, <2>3 DEF worker
<1>4. ASSUME NEW w \in Workers, NEW b \in Blocks, WaitStep(w, b) PROVE Held'
  <2>0. Executes(w, b)
    BY <1>4 DEF WaitStep, CachedEnough, ReadLeft, Stall, Promote, AlreadyPromoted, SuspendFails,
       Suspend, SuspendNext
  <2>1. \A u \in Workers : next_frame_ff[u] # b /\ (u # w => frame_ff[u] # b)
    BY <2>0, ExecutorAlone
  <2>2. CASE CachedEnough(w, b) \/ ReadLeft(w, b) \/ Stall(w, b) \/ AlreadyPromoted(w, b) \/ Suspend(w, b)
    <3>1. /\ UNCHANGED <<worker, cpc, current_iter>>
          /\ iter_status' = [iter_status EXCEPT ![b] = "suspended"] \/ UNCHANGED iter_status
          /\ \E p \in {"user", "final", "wait", "stall", "promote", "suspend", "suspending"} :
               pc' = [pc EXCEPT ![b] = p]
      BY <2>2 DEF CachedEnough, AfterWait, ReadLeft, Stall, AlreadyPromoted, Suspend, Goto, ring, control
    <3>2. PICK p \in {"user", "final", "wait", "stall", "promote", "suspend", "suspending"} :
            pc' = [pc EXCEPT ![b] = p]
      BY <3>1
    <3>3. \A c \in Blocks : Attached(c) => Attached(c)'
      BY <1>a, <3>1
    <3>4. \A c \in Blocks : iter_status[c] = "suspended" => iter_status'[c] = "suspended"
      BY <3>1 DEF Types
    <3> QED
      BY <1>p, <2>0, <3>1, <3>2, <3>3, <3>4 DEF worker
  <2>3. CASE Promote(w, b)
    <3>1. /\ b = Current /\ frame_ff' = [frame_ff EXCEPT ![w] = b] /\ UNCHANGED next_frame_ff
          /\ frame_ff[w] = Control
          /\ pc' = [pc EXCEPT ![b] = "suspend"] /\ iter_status' = [iter_status EXCEPT ![b] = "promoted"]
      BY <2>3, PromotesAttached DEF Promote, InstallIteration, Goto
    <3>2. HeldBlock(b)'
      <4>1. frame_ff'[w] = b /\ pc'[b] = "suspend"
        BY <3>1 DEF Types
      <4> QED
        BY <4>1 DEF HeldBlock
    <3>3. ASSUME NEW c \in Blocks, c # b PROVE HeldBlock(c)'
      <4>1. /\ pc'[c] = pc[c] /\ iter_status'[c] = iter_status[c] /\ ~Attached(c)
            /\ \A u \in Workers : frame_ff[u] = c => frame_ff'[u] = c
        BY <1>0, <3>1, <3>3 DEF Types, Attached
      <4> QED
        BY <1>o, <3>1, <4>1
    <3> QED
      BY <1>w, <3>2, <3>3
  <2>4. CASE SuspendFails(w, b)
    <3>1. /\ frame_ff' = [frame_ff EXCEPT ![w] = NoFrame] /\ next_frame_ff' = [next_frame_ff EXCEPT ![w] = b]
          /\ pc' = [pc EXCEPT ![b] = "asleep"] /\ frame_ff[w] = b /\ next_frame_ff[w] = NoFrame
          /\ UNCHANGED <<cpc, current_iter, iter_status>>
      BY <2>4, RunsPromoted DEF SuspendFails, Goto, ring, control
    <3>2. HeldBlock(b)'
      <4>1. next_frame_ff'[w] = b /\ pc'[b] = "asleep"
        BY <3>1 DEF Types
      <4> QED
        BY <4>1 DEF HeldBlock, RunningPCs
    <3>3. ASSUME NEW c \in Blocks, c # b PROVE HeldBlock(c)'
      <4>1. /\ pc'[c] = pc[c] /\ \A u \in Workers : frame_ff[u] = c => frame_ff'[u] = c
            /\ \A u \in Workers : next_frame_ff[u] = c => next_frame_ff'[u] = c
        BY <1>0, <3>1, <3>3 DEF Types
      <4> QED
        BY <1>a, <1>o, <3>1, <4>1
    <3> QED
      BY <1>w, <3>2, <3>3
  <2>5. CASE SuspendNext(w, b)
    <3>0. pc[b] = "suspending" /\ ~BlockLocked(Right(b))
      BY <2>5 DEF SuspendNext
    <3>1. frame_ff[w] = b /\ next_frame_ff[w] = NoFrame /\ iter_status[b] = "suspended"
      BY <2>0, <3>0, RunsPromoted DEF IterStatuses
    <3>2. /\ frame_ff' = [frame_ff EXCEPT ![w] = NoFrame] /\ UNCHANGED <<cpc, current_iter>>
          /\ pc' = [pc EXCEPT ![b] = "asleep"]
          /\ \E f : next_frame_ff' = [next_frame_ff EXCEPT ![w] = f]
          /\ \/ UNCHANGED iter_status
             \/ /\ RightResumable(b)
                /\ iter_status' = [iter_status EXCEPT ![Right(b)] = "promoted"]
                /\ next_frame_ff' = [next_frame_ff EXCEPT ![w] = Right(b)]
      BY <2>5 DEF SuspendNext, ResumeRight, Goto, control
    <3>3. /\ Right(b) # b /\ frame_ff'[w] = NoFrame
          /\ \A c \in Blocks : c # b => pc'[c] = pc[c]
          /\ \A u \in Workers, c \in Blocks : c # b /\ frame_ff[u] = c => frame_ff'[u] = c
          /\ \A u \in Workers, c \in Blocks : next_frame_ff[u] = c => next_frame_ff'[u] = c
      BY <1>0, <3>1, <3>2, Neighbours DEF Types
    <3>4. HeldBlock(b)'
      <4>1. pc'[b] = "asleep" /\ iter_status'[b] = "suspended"
        BY <3>1, <3>2, <3>3 DEF Types
      <4> QED
        BY <4>1 DEF HeldBlock, RunningPCs, Finishing
    <3>5. ASSUME NEW c \in Blocks, c # b, iter_status'[c] = iter_status[c] PROVE HeldBlock(c)'
      BY <1>a, <1>o, <3>2, <3>3, <3>5
    <3>6. ASSUME NEW c \in Blocks, c # b, iter_status'[c] # iter_status[c] PROVE HeldBlock(c)'
      <4>1. c = Right(b) /\ RightResumable(b) /\ next_frame_ff'[w] = c
        BY <3>2, <3>6 DEF Types
      <4>2. pc[c] = "asleep"
        BY <3>0, <4>1, SleepsAlone
      <4> QED
        BY <3>3, <3>6, <4>1, <4>2 DEF HeldBlock, RunningPCs, Finishing
    <3> QED
      BY <1>w, <3>4, <3>5, <3>6
  <2> QED
    BY <1>4, <2>2, <2>3, <2>4, <2>5 DEF WaitStep
<1>5. ASSUME NEW w \in Workers, NEW b \in Blocks, LeaveStep(w, b) PROVE Held'
  <2>0. Executes(w, b)
    BY <1>5 DEF LeaveStep, FinishFinalStage, LeaveFrame, AttachedDone, AttachedFreeLeft, AttachedFreeOwn,
       ReturnLast, ReturnOther, FreeLeft, StageDone, CheckRight, FreeOwn
  <2>1. \A u \in Workers : next_frame_ff[u] # b /\ (u # w => frame_ff[u] # b)
    BY <2>0, ExecutorAlone
  <2>2. CASE FinishFinalStage(w, b) \/ LeaveFrame(w, b) \/ ReturnOther(w, b) \/ StageDone(w, b)
             \/ AttachedDone(w, b) \/ AttachedFreeLeft(w, b) \/ AttachedFreeOwn(w, b) \/ FreeLeft(w, b)
    <3>1. /\ UNCHANGED <<frame_ff, next_frame_ff, current_iter>>
          /\ UNCHANGED cpc \/ (AttachedFreeOwn(w, b) /\ cpc' = "throttle")
          /\ \E p \in {"leave", "attached_done", "return", "free_left", "check_right", "stage_done",
                       "attached_left", "attached_own", "idle"} :
               pc' = [pc EXCEPT ![b] = p] /\ (AttachedFreeOwn(w, b) => p = "idle")
      BY <2>2 DEF FinishFinalStage, LeaveFrame, ReturnOther, StageDone, AttachedDone, AttachedFreeLeft,
         AttachedFreeOwn, FreeLeft, Goto, ring, control, worker
    <3>2. PICK p \in {"leave", "attached_done", "return", "free_left", "check_right", "stage_done",
                       "attached_left", "attached_own", "idle"} :
               pc' = [pc EXCEPT ![b] = p] /\ (AttachedFreeOwn(w, b) => p = "idle")
      BY <3>1
    <3>3. /\ p = "idle" \/ (Attached(b) => Attached(b)')
          /\ \A c \in Blocks : c # b /\ Attached(c) => Attached(c)'
      <4>1. CASE UNCHANGED cpc
        BY <1>a, <3>1, <4>1
      <4>2. CASE ~UNCHANGED cpc
        <5>1. AttachedFreeOwn(w, b) /\ p = "idle"
          BY <3>1, <3>2, <4>2
        <5>2. b = Current
          BY <2>0, <5>1, EndsAttached DEF AttachedFreeOwn
        <5> QED
          BY <5>1, <5>2 DEF Attached
      <4> QED
        BY <4>1, <4>2
    <3>4. \A c \in Blocks : pc[c] = "asleep" => iter_status'[c] = iter_status[c]
      <4>1. CASE AttachedFreeLeft(w, b) \/ FreeLeft(w, b)
        <5>1. ReadyForReuse(CountFinish(Left(b))) => pc[Left(b)] = "idle"
          BY <4>1, ReadyMeansIdle DEF AttachedFreeLeft, FreeLeft, DoneWithLeft
        <5> QED
          BY <4>1, <5>1 DEF AttachedFreeLeft, FreeLeft, FreeBlock, Types
      <4>2. CASE AttachedFreeOwn(w, b)
        BY <4>2 DEF AttachedFreeOwn, FreeBlock, Types
      <4>3. CASE ~(AttachedFreeLeft(w, b) \/ FreeLeft(w, b) \/ AttachedFreeOwn(w, b))
        BY <2>2, <4>3 DEF FinishFinalStage, LeaveFrame, ReturnOther, StageDone, AttachedDone, ring
      <4> QED
        BY <4>1, <4>2, <4>3
    <3> QED
      BY <1>p, <2>0, <3>1, <3>2, <3>3, <3>4
  <2>3. CASE ReturnLast(w, b)
    <3>1. pc' = [pc EXCEPT ![b] = "idle"] /\ \A c \in Blocks : c # b => pc[c] = "idle"
      BY <2>3, LastReturn DEF ReturnLast, Goto
    <3>2. \A c \in Blocks : pc'[c] = "idle"
      BY <3>1 DEF Types
    <3>3. ASSUME NEW c \in Blocks PROVE HeldBlock(c)'
      BY <3>2 DEF HeldBlock, RunningPCs, AlivePCs, Finishing
    <3> QED
      BY <1>w, <3>3
  <2>4. CASE CheckRight(w, b)
    <3>0. pc[b] = "check_right" /\ ~BlockLocked(Right(b))
      BY <2>4 DEF CheckRight
    <3>1. next_frame_ff[w] = NoFrame
      BY <2>0, <3>0, RunsPromoted DEF Finishing
    <3>2. /\ UNCHANGED <<cpc, current_iter, frame_ff>> /\ pc' = [pc EXCEPT ![b] = "free_own"]
          /\ \/ UNCHANGED <<iter_status, next_frame_ff>>
             \/ /\ RightResumable(b)
                /\ iter_status' = [iter_status EXCEPT ![Right(b)] = "promoted"]
                /\ next_frame_ff' = [next_frame_ff EXCEPT ![w] = Right(b)]
      BY <2>4 DEF CheckRight, ResumeRight, NothingToResume, Goto, control
    <3>3. \A u \in Workers, c \in Blocks : next_frame_ff[u] = c => next_frame_ff'[u] = c
      BY <1>0, <3>1, <3>2 DEF Types
    <3>4. ASSUME NEW c \in Blocks, iter_status'[c] # iter_status[c] PROVE HeldBlock(c)'
      <4>1. c = Right(b) /\ RightResumable(b) /\ next_frame_ff'[w] = c /\ c # b
        BY <3>2, <3>4, Neighbours DEF Types
      <4>2. pc'[c] = "asleep"
        BY <3>0, <3>2, <4>1, SleepsAlone DEF Types
      <4> QED
        BY <4>1, <4>2 DEF HeldBlock, RunningPCs, Finishing
    <3>5. \A c \in Blocks : Attached(c) => Attached(c)'
      BY <1>a, <3>2
    <3>6. \A c \in Blocks : iter_status[c] = "suspended" => iter_status'[c] = "suspended" \/ HeldBlock(c)'
      BY <3>4
    <3> QED
      BY <1>p, <2>0, <3>2, <3>3, <3>5, <3>6
  <2>5. CASE FreeOwn(w, b)
    <3>1. /\ frame_ff' = [frame_ff EXCEPT ![w] = NoFrame] /\ UNCHANGED <<cpc, current_iter>>
          /\ pc' = [pc EXCEPT ![b] = "idle"] /\ pc[b] = "free_own"
          /\ \A c \in Blocks : c # b => iter_status'[c] = iter_status[c]
          /\ \/ UNCHANGED next_frame_ff
             \/ next_frame_ff[w] = NoFrame /\ next_frame_ff' = [next_frame_ff EXCEPT ![w] = Control]
      BY <2>5 DEF FreeOwn, FreeBlock, TakeParent, Goto, control, Types
    <3>2. frame_ff[w] = b
      BY <2>0, <3>1, RunsPromoted DEF Finishing
    <3>3. ASSUME NEW c \in Blocks, c # b PROVE HeldBlock(c)'
      <4>1. /\ pc'[c] = pc[c] /\ iter_status'[c] = iter_status[c]
            /\ \A u \in Workers : frame_ff[u] = c => frame_ff'[u] = c
            /\ \A u \in Workers : next_frame_ff[u] = c => next_frame_ff'[u] = c
        BY <1>0, <3>1, <3>2, <3>3 DEF Types
      <4> QED
        BY <1>a, <1>o, <3>1, <4>1
    <3>4. HeldBlock(b)'
      <4>1. pc'[b] = "idle"
        BY <3>1 DEF Types
      <4> QED
        BY <4>1 DEF HeldBlock, RunningPCs, AlivePCs, Finishing
    <3> QED
      BY <1>w, <3>3, <3>4
  <2> QED
    BY <1>5, <2>2, <2>3, <2>4, <2>5 DEF LeaveStep
<1>6. ASSUME NEW v \in Workers, NEW w \in Workers, StealControl(v, w) PROVE Held'
  <2>1. /\ frame_ff[w] = Control /\ next_frame_ff[v] = NoFrame
        /\ frame_ff' = [frame_ff EXCEPT ![w] = Current]
        /\ next_frame_ff' = [next_frame_ff EXCEPT ![v] = Control]
        /\ iter_status' = [iter_status EXCEPT ![Current] = "promoted"]
        /\ UNCHANGED pc /\ pc[Current] \in AttachedPCs
    BY <1>6 DEF StealControl, InstallIteration, Stealable, RunsControl, Idle, Places
  <2>2. ASSUME NEW c \in Blocks, c # Current PROVE HeldBlock(c)'
    <3>1. /\ iter_status'[c] = iter_status[c] /\ ~Attached(c)
          /\ \A u \in Workers : frame_ff[u] = c => frame_ff'[u] = c
          /\ \A u \in Workers : next_frame_ff[u] = c => next_frame_ff'[u] = c
      BY <1>0, <2>1, <2>2 DEF Types, Attached
    <3> QED
      BY <1>o, <2>1, <3>1
  <2>3. ASSUME NEW c \in Blocks, c = Current PROVE HeldBlock(c)'
    <3>1. frame_ff'[w] = c /\ pc'[c] # "asleep"
      BY <2>1, <2>3 DEF Types, AttachedPCs
    <3> QED
      BY <3>1 DEF HeldBlock
  <2> QED
    BY <1>w, <2>2, <2>3
<1>7. ASSUME NEW v \in Workers, NEW w \in Workers, StealImplicitly(v, w) PROVE Held'
  <2>1. /\ next_frame_ff[v] = NoFrame /\ UNCHANGED <<cpc, current_iter, pc, frame_ff>>
        /\ \/ UNCHANGED iter_status /\ (UNCHANGED next_frame_ff \/ next_frame_ff' = [next_frame_ff EXCEPT ![v] = Control])
           \/ /\ next_frame_ff' = [next_frame_ff EXCEPT ![v] = Right(frame_ff[w])]
              /\ iter_status' = [iter_status EXCEPT ![Right(frame_ff[w])] = "promoted"]
              /\ frame_ff[w] \in Blocks /\ RightResumable(frame_ff[w]) /\ ~BlockLocked(Right(frame_ff[w]))
    BY <1>7 DEF StealImplicitly, TakeParent, ResumeRight, NothingToResume, Idle, control, code
  <2>2. \A u \in Workers, c \in Blocks : next_frame_ff[u] = c => next_frame_ff'[u] = c
    BY <1>0, <2>1 DEF Types
  <2>3. ASSUME NEW c \in Blocks, iter_status'[c] = iter_status[c] PROVE HeldBlock(c)'
    BY <1>a, <1>o, <2>1, <2>2, <2>3
  <2>4. ASSUME NEW c \in Blocks, iter_status'[c] # iter_status[c] PROVE HeldBlock(c)'
    <3>1. c = Right(frame_ff[w]) /\ next_frame_ff'[v] = c
      BY <2>1, <2>4 DEF Types
    <3>2. pc'[c] = "asleep"
      BY <2>1, <2>4, <3>1, SleepsAlone
    <3> QED
      BY <3>1, <3>2 DEF HeldBlock, RunningPCs, Finishing
  <2> QED
    BY <1>w, <2>3, <2>4
<1>8. CASE UNCHANGED vars
  BY <1>8, <1>a, <1>u DEF vars, ring, control, code
<1> QED
  BY <1>1, <1>2, <1>3, <1>4, <1>5, <1>6, <1>7, <1>8 DEF Next, Step, Steals, Over

----------------------------------------------------------------------------
\* An iteration that ends is counted on a block that waits for it.
LEMMA FreesCounted ==
  ASSUME Types, Numbers, Places, Counters, NEW b \in Blocks
  PROVE  /\ pc[b] = "free_own" => OwnPending(b) /\ Counted(b)
         /\ pc[b] \in {"free_left", "attached_left"} =>
              /\ Left(b) \in Blocks /\ RightPending(Left(b)) /\ Counted(Left(b))
<1>1. pc[b] = "free_own" => OwnPending(b) /\ Counted(b)
  BY Active DEF OwnPending, Counters, AllIdle
<1>2. pc[b] \in {"free_left", "attached_left"} =>
        Left(b) \in Blocks /\ RightPending(Left(b)) /\ Counted(Left(b))
  BY LeftInUse DEF Counters, AllIdle, DoneWithLeft
<1> QED
  BY <1>1, <1>2

\* The control frame is held once at the start.
LEMMA ControlOnceInit == Init => ControlOnce
BY Names DEF Init, ControlOnce, HasControl

\* The control frame is held once, after every step.
LEMMA ControlOnceStep ==
  ASSUME Types, Numbers, Places, Counters, IterStatuses, Holdings, OneHolder, ControlOnce,
         ControlPlace, Joins, [Next]_vars
  PROVE  ControlOnce'
<1>0. Current \in Blocks /\ Control \notin Blocks /\ NoFrame \notin Blocks /\ Control # NoFrame
  BY CurrentBlocks, Names DEF Types
<1> DEFINE OneWay(u) == /\ frame_ff[u] = Control => next_frame_ff[u] # Control /\ parent_resume[u] = "none"
                        /\ next_frame_ff[u] = Control => parent_resume[u] = "none"
\* nobody gets the control frame
<1>k. ASSUME \A u \in Workers : HasControl(u)' => HasControl(u) /\ OneWay(u)' PROVE ControlOnce'
  BY <1>k DEF ControlOnce, HasControl
\* one worker gets it
<1>x. ASSUME NEW x \in Workers, \A u \in Workers : u # x => ~HasControl(u)', OneWay(x)' PROVE ControlOnce'
  BY <1>x DEF ControlOnce, HasControl
<1>e. \A u \in Workers : OneWay(u)
  BY DEF ControlOnce
<1>u. ASSUME UNCHANGED <<frame_ff, next_frame_ff, parent_resume>> PROVE ControlOnce'
  BY <1>u DEF ControlOnce, HasControl
\* a worker that has the control frame has it alone
<1>h. ASSUME NEW w \in Workers, HasControl(w) PROVE \A u \in Workers : u # w => ~HasControl(u)
  BY <1>h DEF ControlOnce
<1> HIDE DEF OneWay
<1>1. ASSUME NEW w \in Workers, ControlStep(w) PROVE ControlOnce'
  <2>1. CASE InitIterFrame(w) \/ EndLoop(w) \/ ThrottleFast(w) \/ ThrottleSlow(w) \/ SetupNext(w) \/ CleanUp(w)
    BY <1>u, <2>1 DEF InitIterFrame, EndLoop, ThrottleFast, ThrottleSlow, SetupNext, CleanUp, worker
  <2>2. CASE SuspendControl(w) \/ SyncControl(w)
    <3>1. /\ frame_ff[w] = Control /\ frame_ff' = [frame_ff EXCEPT ![w] = NoFrame] /\ UNCHANGED parent_resume
          /\ \E v \in Workers : next_frame_ff' = [next_frame_ff EXCEPT ![v] = Control]
                                  \/ (v = w /\ UNCHANGED next_frame_ff)
      BY <2>2, WorkersAssumption DEF SuspendControl, SyncControl, RunsControl, Types
    <3>2. PICK v \in Workers : next_frame_ff' = [next_frame_ff EXCEPT ![v] = Control]
                                 \/ (v = w /\ UNCHANGED next_frame_ff)
      BY <3>1
    <3>3. /\ next_frame_ff[w] # Control
          /\ \A u \in Workers : parent_resume[u] = "none"
          /\ \A u \in Workers : u # w => ~HasControl(u)
      <4>1. next_frame_ff[w] # Control /\ parent_resume[w] = "none"
        BY <1>0, <3>1 DEF Holdings
      <4>2. \A u \in Workers : u # w => ~HasControl(u)
        BY <3>1, <1>h DEF HasControl
      <4> QED
        BY <4>1, <4>2 DEF HasControl
    <3>4. \A u \in Workers : u # v => ~HasControl(u)'
      BY <1>0, <3>1, <3>2, <3>3 DEF HasControl, Types
    <3>5. OneWay(v)'
      BY <1>0, <3>1, <3>2, <3>3 DEF OneWay, HasControl, Types
    <3> QED
      BY <1>x, <3>4, <3>5
  <2> QED
    BY <1>1, <2>1, <2>2 DEF ControlStep
<1>2. ASSUME NEW w \in Workers, ResumeFrame(w) PROVE ControlOnce'
  <2>1. /\ frame_ff[w] = NoFrame /\ UNCHANGED parent_resume
        /\ \A u \in Workers : /\ frame_ff'[u] = (IF u = w THEN next_frame_ff[w] ELSE frame_ff[u])
                              /\ next_frame_ff'[u] = (IF u = w THEN NoFrame ELSE next_frame_ff[u])
    BY <1>2 DEF ResumeFrame, Types
  <2>2. \A u \in Workers : HasControl(u)' => HasControl(u)
    BY <1>0, <2>1 DEF HasControl
  <2>3. \A u \in Workers : OneWay(u)'
    BY <1>0, <1>e, <2>1 DEF OneWay
  <2> QED
    BY <1>k, <2>2, <2>3
<1>3. ASSUME NEW w \in Workers, NEW b \in Blocks, UserStep(w, b) PROVE ControlOnce'
  BY <1>3, <1>u DEF UserStep, TestCondition, Stage, StageWait, worker
\* worker w takes the control frame that it has implicitly
<1>t. ASSUME NEW w \in Workers, parent_resume[w] # "none",
             frame_ff' = [frame_ff EXCEPT ![w] = NoFrame],
             next_frame_ff' = [next_frame_ff EXCEPT ![w] = Control],
             parent_resume' = [parent_resume EXCEPT ![w] = "none"]
      PROVE  ControlOnce'
  <2>1. \A u \in Workers : u # w => ~HasControl(u)'
    BY <1>h, <1>t DEF HasControl, Types
  <2>2. OneWay(w)'
    BY <1>0, <1>t DEF OneWay, Types
  <2> QED
    BY <1>x, <2>1, <2>2
<1>4. ASSUME NEW w \in Workers, NEW b \in Blocks, WaitStep(w, b) PROVE ControlOnce'
  <2>1. CASE CachedEnough(w, b) \/ ReadLeft(w, b) \/ Stall(w, b) \/ AlreadyPromoted(w, b) \/ Suspend(w, b)
    BY <2>1, <1>u DEF CachedEnough, ReadLeft, Stall, AlreadyPromoted, Suspend, worker
  <2>2. CASE Promote(w, b)
    <3>1. /\ frame_ff[w] = Control /\ frame_ff' = [frame_ff EXCEPT ![w] = Current]
          /\ parent_resume' = [parent_resume EXCEPT ![w] = "self"]
          /\ UNCHANGED next_frame_ff /\ next_frame_ff[w] = NoFrame
      BY <2>2, PromotesAttached DEF Promote, InstallIteration
    <3>2. \A u \in Workers : u # w => ~HasControl(u)'
      BY <1>h, <3>1 DEF HasControl, Types
    <3>3. OneWay(w)'
      BY <1>0, <3>1 DEF OneWay, Types
    <3> QED
      BY <1>x, <3>2, <3>3
  <2>3. CASE SuspendFails(w, b) \/ (SuspendNext(w, b) /\ (RightResumable(b) \/ parent_resume[w] = "none"))
    <3>1. /\ \A u \in Workers : frame_ff'[u] \in {frame_ff[u], NoFrame}
          /\ \A u \in Workers : next_frame_ff'[u] = next_frame_ff[u] \/ next_frame_ff'[u] \in Blocks
          /\ UNCHANGED parent_resume
      BY <2>3, Neighbours DEF SuspendFails, SuspendNext, ResumeRight, Types
    <3>2. \A u \in Workers : HasControl(u)' => HasControl(u)
      BY <1>0, <3>1 DEF HasControl
    <3>3. \A u \in Workers : OneWay(u)'
      BY <1>0, <1>e, <3>1 DEF OneWay
    <3> QED
      BY <1>k, <3>2, <3>3
  <2>4. CASE SuspendNext(w, b) /\ ~RightResumable(b) /\ parent_resume[w] # "none"
    BY <1>t, <2>4 DEF SuspendNext
  <2> QED
    BY <1>4, <2>1, <2>2, <2>3, <2>4 DEF WaitStep
<1>5. ASSUME NEW w \in Workers, NEW b \in Blocks, LeaveStep(w, b) PROVE ControlOnce'
  <2>1. CASE FinishFinalStage(w, b) \/ LeaveFrame(w, b) \/ AttachedDone(w, b) \/ AttachedFreeLeft(w, b)
             \/ AttachedFreeOwn(w, b) \/ ReturnOther(w, b) \/ StageDone(w, b)
    BY <2>1, <1>u DEF FinishFinalStage, LeaveFrame, AttachedDone, AttachedFreeLeft, AttachedFreeOwn,
       ReturnOther, StageDone, worker
  <2>2. CASE ReturnLast(w, b)
    <3>1. /\ \A u \in Workers : frame_ff'[u] \in {frame_ff[u], NoFrame}
          /\ \A u \in Workers : u # Leader => next_frame_ff'[u] = next_frame_ff[u]
          /\ UNCHANGED parent_resume
      BY <2>2 DEF ReturnLast, Types
    <3>2. \A u \in Workers : ~HasControl(u)
      BY <2>2, LastReturn
    <3>3. \A u \in Workers : u # Leader => ~HasControl(u)'
      BY <1>0, <3>1, <3>2 DEF HasControl
    <3>4. OneWay(Leader)'
      BY <1>0, <3>1, <3>2, WorkersAssumption DEF OneWay, HasControl
    <3> QED
      BY <1>x, <3>3, <3>4, WorkersAssumption
  <2>3. CASE FreeLeft(w, b)
    <3>1. /\ pc[b] = "free_left" /\ UNCHANGED <<frame_ff, next_frame_ff>> /\ Executes(w, b)
          /\ parent_resume' = [parent_resume EXCEPT ![w] = FlagAfterFree(w, Left(b))]
      BY <2>3 DEF FreeLeft
    <3>2. CASE PastThrottle(CountFinish(Left(b)))
      <4>1. \A u \in Workers : ~HasControl(u)
        BY <3>1, <3>2, FreesCounted, ThrottleRelease
      <4>2. \A u \in Workers : u # w => ~HasControl(u)'
        BY <3>1, <4>1 DEF HasControl, Types
      <4>3. OneWay(w)'
        BY <3>1, <4>1 DEF OneWay, HasControl
      <4> QED
        BY <1>x, <4>2, <4>3
    <3>3. CASE ~PastThrottle(CountFinish(Left(b)))
      BY <1>u, <3>1, <3>3 DEF FlagAfterFree, Types
    <3> QED
      BY <3>2, <3>3
  <2>4. CASE CheckRight(w, b)
    <3>1. /\ UNCHANGED <<frame_ff, parent_resume>>
          /\ \A u \in Workers : next_frame_ff'[u] = next_frame_ff[u] \/ next_frame_ff'[u] \in Blocks
      BY <2>4, Neighbours DEF CheckRight, ResumeRight, NothingToResume, Types
    <3>2. \A u \in Workers : HasControl(u)' => HasControl(u)
      BY <1>0, <3>1 DEF HasControl
    <3>3. \A u \in Workers : OneWay(u)'
      BY <1>0, <1>e, <3>1 DEF OneWay
    <3> QED
      BY <1>k, <3>2, <3>3
  <2>5. CASE FreeOwn(w, b)
    <3>1. /\ frame_ff' = [frame_ff EXCEPT ![w] = NoFrame] /\ pc[b] = "free_own" /\ Executes(w, b)
      BY <2>5 DEF FreeOwn
    <3>2. frame_ff[w] = b /\ (next_frame_ff[w] # NoFrame => next_frame_ff[w] \in Blocks)
      BY <3>1, RunsPromoted, Neighbours DEF Finishing, Holdings
    <3>3. CASE next_frame_ff[w] # NoFrame
      <4>1. parent_resume' = [parent_resume EXCEPT ![w] = FlagAfterFree(w, b)] /\ UNCHANGED next_frame_ff
        BY <2>5, <3>3 DEF FreeOwn
      <4>2. OneWay(w)'
        BY <1>0, <3>1, <3>2, <3>3, <4>1 DEF OneWay, Types
      <4>3. CASE PastThrottle(CountFinish(b))
        <5>1. \A u \in Workers : ~HasControl(u)
          BY <3>1, <4>3, FreesCounted, ThrottleRelease
        <5>2. \A u \in Workers : u # w => ~HasControl(u)'
          BY <3>1, <4>1, <5>1 DEF HasControl, Types
        <5> QED
          BY <1>x, <4>2, <5>2
      <4>4. CASE ~PastThrottle(CountFinish(b))
        <5>1. UNCHANGED parent_resume
          BY <4>1, <4>4 DEF FlagAfterFree, Types
        <5>2. \A u \in Workers : HasControl(u)' => HasControl(u)
          BY <1>0, <3>1, <4>1, <5>1 DEF HasControl, Types
        <5>3. \A u \in Workers : OneWay(u)'
          BY <1>0, <1>e, <3>1, <4>1, <5>1 DEF OneWay, Types
        <5> QED
          BY <1>k, <5>2, <5>3
      <4> QED
        BY <4>3, <4>4
    <3>4. CASE next_frame_ff[w] = NoFrame
      <4>1. /\ parent_resume' = [parent_resume EXCEPT ![w] = "none"]
            /\ IF ParentResumable(FlagAfterFree(w, b))
                 THEN next_frame_ff' = [next_frame_ff EXCEPT ![w] = Control]
                 ELSE UNCHANGED next_frame_ff
        BY <2>5, <3>4 DEF FreeOwn, TakeParent
      <4>2. OneWay(w)'
        BY <1>0, <3>1, <4>1 DEF OneWay, Types
      <4>3. CASE ParentResumable(FlagAfterFree(w, b)) /\ PastThrottle(CountFinish(b))
        <5>1. \A u \in Workers : ~HasControl(u)
          BY <3>1, <4>3, FreesCounted, ThrottleRelease
        <5>2. \A u \in Workers : u # w => ~HasControl(u)'
          BY <3>1, <4>1, <4>3, <5>1 DEF HasControl, Types
        <5> QED
          BY <1>x, <4>2, <5>2
      <4>4. CASE ParentResumable(FlagAfterFree(w, b)) /\ ~PastThrottle(CountFinish(b))
        <5>1. parent_resume[w] # "none"
          BY <4>4 DEF ParentResumable, FlagAfterFree
        <5> QED
          BY <1>t, <3>1, <4>1, <4>4, <5>1
      <4>5. CASE ~ParentResumable(FlagAfterFree(w, b))
        <5>1. \A u \in Workers : HasControl(u)' => HasControl(u)
          BY <1>0, <3>1, <4>1, <4>5 DEF HasControl, Types
        <5>2. \A u \in Workers : OneWay(u)'
          BY <1>0, <1>e, <3>1, <4>1, <4>5 DEF OneWay, Types
        <5> QED
          BY <1>k, <5>1, <5>2
      <4> QED
        BY <4>3, <4>4, <4>5
    <3> QED
      BY <3>3, <3>4
  <2> QED
    BY <1>5, <2>1, <2>2, <2>3, <2>4, <2>5 DEF LeaveStep
<1>6. ASSUME NEW v \in Workers, NEW w \in Workers, StealControl(v, w) PROVE ControlOnce'
  <2>1. /\ frame_ff[w] = Control /\ v # w /\ frame_ff[v] = NoFrame
        /\ frame_ff' = [frame_ff EXCEPT ![w] = Current]
        /\ next_frame_ff' = [next_frame_ff EXCEPT ![v] = Control]
        /\ parent_resume' = [parent_resume EXCEPT ![w] = parent_resume[w]]
    BY <1>6 DEF StealControl, InstallIteration, Stealable, RunsControl, Idle
  <2>2. UNCHANGED parent_resume /\ parent_resume[w] = "none" /\ next_frame_ff[w] = NoFrame
    BY <2>1 DEF Holdings, Types
  <2>3. \A u \in Workers : u # w => ~HasControl(u)
    BY <1>h, <2>1 DEF HasControl
  <2>4. \A u \in Workers : u # v => ~HasControl(u)'
    BY <1>0, <2>1, <2>2, <2>3 DEF HasControl, Types
  <2>5. OneWay(v)'
    BY <1>0, <2>1, <2>2, <2>3 DEF OneWay, HasControl, Types
  <2> QED
    BY <1>x, <2>4, <2>5
<1>7. ASSUME NEW v \in Workers, NEW w \in Workers, StealImplicitly(v, w) PROVE ControlOnce'
  <2>1. /\ frame_ff[v] = NoFrame /\ v # w /\ UNCHANGED frame_ff /\ frame_ff[w] \in Blocks
        /\ parent_resume' = [parent_resume EXCEPT ![w] = "none"]
    BY <1>7 DEF StealImplicitly, Idle
  <2>2. CASE ParentResumable(parent_resume[w])
    <3>1. parent_resume[w] # "none" /\ next_frame_ff' = [next_frame_ff EXCEPT ![v] = Control]
      BY <1>7, <2>2 DEF StealImplicitly, ParentResumable, TakeParent
    <3>2. \A u \in Workers : u # w => ~HasControl(u)
      BY <1>h, <3>1 DEF HasControl
    <3>3. frame_ff[w] # Control /\ next_frame_ff[w] # Control
      BY <3>1 DEF ControlOnce
    <3>4. \A u \in Workers : u # v => ~HasControl(u)'
      BY <2>1, <3>1, <3>2, <3>3 DEF HasControl, Types
    <3>5. OneWay(v)'
      BY <1>0, <2>1, <3>1, <3>2 DEF OneWay, HasControl, Types
    <3> QED
      BY <1>x, <3>4, <3>5
  <2>3. CASE ~ParentResumable(parent_resume[w])
    <3>1. \A u \in Workers : next_frame_ff'[u] = next_frame_ff[u] \/ next_frame_ff'[u] \in Blocks
      BY <1>7, <2>1, <2>3, Neighbours DEF StealImplicitly, ResumeRight, NothingToResume, Types
    <3>2. \A u \in Workers : HasControl(u)' => HasControl(u)
      BY <1>0, <2>1, <3>1 DEF HasControl, Types
    <3>3. \A u \in Workers : OneWay(u)'
      BY <1>0, <1>e, <2>1, <3>1 DEF OneWay, Types
    <3> QED
      BY <1>k, <3>2, <3>3
  <2> QED
    BY <2>2, <2>3
<1>8. CASE UNCHANGED vars
  BY <1>8, <1>u DEF vars, worker
<1> QED
  BY <1>1, <1>2, <1>3, <1>4, <1>5, <1>6, <1>7, <1>8 DEF Next, Step, Steals, Over

----------------------------------------------------------------------------
\* The control frame is where its code says at the start.
LEMMA ControlPlaceInit == Init => ControlPlace
<1> SUFFICES ASSUME Init PROVE ControlPlace
  OBVIOUS
<1>1. /\ frame_ff[Leader] = Control /\ cpc = "loop" /\ resume_flags[Control] = "normal"
      /\ \A w \in Workers : parent_resume[w] = "none" /\ next_frame_ff[w] = NoFrame
  BY Names, WorkersAssumption DEF Init
<1> QED
  BY <1>1, Names, WorkersAssumption DEF ControlPlace

\* The control frame is where its code says, after every step.
LEMMA ControlPlaceStep ==
  ASSUME Types, Numbers, Places, Counters, IterStatuses, Holdings, OneHolder, ControlOnce,
         ControlPlace, Joins, SuspendTakesOwnControl, [Next]_vars, ControlOnce'
  PROVE  ControlPlace'
<1>0. /\ Current \in Blocks /\ Control \notin Blocks /\ NoFrame \notin Blocks /\ Control # NoFrame
      /\ Control \in Frames /\ NextBlock \in Blocks /\ Current # NextBlock
  BY CurrentBlocks, Names DEF Types
<1> DEFINE Ready == cleanup_counter[NextBlock] = 0
\* the control frame and what it waits for stay as they are
<1>k. ASSUME UNCHANGED <<cpc, current_iter, parent_resume>>, resume_flags'[Control] = resume_flags[Control],
             cpc = "setup" => (cleanup_counter'[NextBlock] = 0 <=> cleanup_counter[NextBlock] = 0),
             \A u \in Workers : frame_ff'[u] = Control <=> frame_ff[u] = Control,
             \A u \in Workers : next_frame_ff'[u] = Control <=> next_frame_ff[u] = Control
      PROVE  ControlPlace'
  <2>1. NextBlock' = NextBlock
    BY <1>k, SameIter
  <2>2. \A u \in Workers : HasControl(u)' <=> HasControl(u)
    BY <1>k DEF HasControl
  <2>3. cpc = "setup" => (cleanup_counter'[NextBlock'] = 0 <=> cleanup_counter[NextBlock] = 0)
    BY <1>k, <2>1
  <2> QED
    BY <1>k, <2>2, <2>3 DEF ControlPlace
\* it runs
<1>f. ASSUME NEW x \in Workers, frame_ff'[x] = Control, resume_flags'[Control] = "normal",
             cpc' = "setup" => Ready'
      PROVE  ControlPlace'
  <2>1. HasControl(x)'
    BY <1>f DEF HasControl
  <2>2. \A u \in Workers : u # x => ~HasControl(u)'
    BY <2>1 DEF ControlOnce
  <2>3. next_frame_ff'[x] # Control /\ parent_resume'[x] = "none"
    BY <1>f DEF ControlOnce
  <2> QED
    BY <1>f, <2>1, <2>2, <2>3 DEF ControlPlace, HasControl
\* it is queued
<1>q. ASSUME NEW x \in Workers, next_frame_ff'[x] = Control, resume_flags'[Control] # "suspended",
             cpc' \in {"throttle", "setup", "cleanup"}, cpc' = "setup" => Ready'
      PROVE  ControlPlace'
  <2>1. HasControl(x)'
    BY <1>q DEF HasControl
  <2>2. \A u \in Workers : u # x => ~HasControl(u)'
    BY <2>1 DEF ControlOnce
  <2>3. frame_ff'[x] # Control /\ parent_resume'[x] = "none"
    BY <1>q DEF ControlOnce
  <2> QED
    BY <1>q, <2>1, <2>2, <2>3 DEF ControlPlace, HasControl
\* it is implicitly on a deque
<1>s. ASSUME NEW x \in Workers,
             \/ parent_resume'[x] = "self" /\ cpc' = "throttle" /\ resume_flags'[Control] = "normal"
             \/ parent_resume'[x] = "throttle" /\ cpc' = "setup" /\ resume_flags'[Control] = "suspended" /\ Ready'
      PROVE  ControlPlace'
  <2>1. HasControl(x)'
    BY <1>s DEF HasControl
  <2>2. \A u \in Workers : u # x => ~HasControl(u)'
    BY <2>1 DEF ControlOnce
  <2>3. frame_ff'[x] # Control /\ next_frame_ff'[x] # Control
    BY <1>s DEF ControlOnce
  <2> QED
    BY <1>s, <2>1, <2>2, <2>3 DEF ControlPlace, HasControl
\* it is nowhere
<1>n. ASSUME \A u \in Workers : ~HasControl(u)',
             \/ cpc' = "setup" /\ resume_flags'[Control] = "suspended" /\ ~Ready'
             \/ cpc' = "cleanup" /\ resume_flags'[Control] = "normal"
      PROVE  ControlPlace'
  BY <1>n DEF ControlPlace, HasControl
\* the parent flag of a worker and the control frame
<1>r. ASSUME NEW w \in Workers, parent_resume[w] # "none"
      PROVE  \/ parent_resume[w] = "self" /\ cpc = "throttle" /\ resume_flags[Control] # "suspended"
             \/ /\ parent_resume[w] = "throttle" /\ cpc = "setup"
                /\ resume_flags[Control] = "suspended" /\ Ready
  BY <1>r DEF ControlPlace, Types, ParentFlags
\* a block that is counted out
<1>c. ASSUME NEW b \in Blocks, Counted(b), OwnPending(b) \/ RightPending(b),
             cleanup_counter' = [cleanup_counter EXCEPT ![b] = CountFinish(b)],
             ~PastThrottle(CountFinish(b))
      PROVE  cleanup_counter'[NextBlock] = 0 <=> cleanup_counter[NextBlock] = 0
  BY <1>0, <1>c DEF Counted, PastThrottle, CountFinish, FinishVal, ThrottleVal, Types
<1>d. ASSUME NEW b \in Blocks, Counted(b), OwnPending(b) \/ RightPending(b), UNCHANGED current_iter,
             cleanup_counter' = [cleanup_counter EXCEPT ![b] = CountFinish(b)],
             PastThrottle(CountFinish(b))
      PROVE  Ready' /\ cpc = "setup" /\ resume_flags[Control] = "suspended"
  <2>1. b = NextBlock /\ cpc = "setup" /\ resume_flags[Control] = "suspended" /\ CountFinish(b) = 0
    BY <1>d, ThrottleRelease
  <2>2. NextBlock' = NextBlock
    BY <1>d, SameIter
  <2> QED
    BY <1>0, <1>d, <2>1, <2>2 DEF Types
<1> HIDE DEF Ready
<1>1. ASSUME NEW w \in Workers, ControlStep(w) PROVE ControlPlace'
  <2>0. frame_ff[w] = Control /\ resume_flags[Control] = "normal"
    BY <1>1 DEF ControlStep, InitIterFrame, EndLoop, ThrottleFast, ThrottleSlow, SuspendControl,
       SetupNext, SyncControl, CleanUp, RunsControl, ControlPlace
  <2>1. CASE InitIterFrame(w) \/ EndLoop(w) \/ ThrottleSlow(w) \/ SetupNext(w) \/ CleanUp(w)
    <3>1. UNCHANGED <<frame_ff, resume_flags>> /\ cpc' # "setup"
      BY <2>1 DEF InitIterFrame, EndLoop, ThrottleSlow, SetupNext, CleanUp, worker
    <3> QED
      BY <1>f, <2>0, <3>1
  <2>2. CASE ThrottleFast(w)
    <3>1. UNCHANGED <<frame_ff, resume_flags, current_iter>> /\ cpc = "throttle"
          /\ ReadyForReuse(cleanup_counter[NextBlock])
          /\ cleanup_counter' = [cleanup_counter EXCEPT ![NextBlock] = @ - ThrottleVal]
      BY <2>2 DEF ThrottleFast, RunsControl, worker
    <3>2. Counted(NextBlock) /\ ThrottlePending(NextBlock)
      BY <1>0, <3>1 DEF Counters, Ended, ThrottlePending
    <3>3. cleanup_counter'[NextBlock] = 0
      BY <1>0, <3>1, <3>2 DEF Types, Counted, ReadyForReuse, ThrottleVal, FinishVal
    <3>4. Ready'
      BY <3>1, <3>3, SameIter DEF Ready
    <3> QED
      BY <1>f, <2>0, <3>1, <3>4
  <2>3. CASE SuspendControl(w)
    <3>1. /\ UNCHANGED <<current_iter, parent_resume>> /\ cpc = "slow" /\ cpc' = "setup"
          /\ frame_ff' = [frame_ff EXCEPT ![w] = NoFrame]
          /\ cleanup_counter' = [cleanup_counter EXCEPT ![NextBlock] = cleanup_counter[NextBlock] - ThrottleVal]
      BY <2>3 DEF SuspendControl, RunsControl
    <3>2. Counted(NextBlock) /\ ThrottlePending(NextBlock)
      BY <1>0, <3>1 DEF Counters, Ended, ThrottlePending
    <3>3. ReadyForReuse(cleanup_counter[NextBlock] - ThrottleVal) <=> cleanup_counter'[NextBlock] = 0
      BY <1>0, <3>1, <3>2 DEF Types, Counted, ReadyForReuse, ThrottleVal, FinishVal
    <3>4. Ready' <=> cleanup_counter'[NextBlock] = 0
      BY <3>1, SameIter DEF Ready
    <3>5. CASE ReadyForReuse(cleanup_counter[NextBlock] - ThrottleVal)
      <4>1. resume_flags'[Control] = "resuming" /\ next_frame_ff'[w] = Control
        BY <1>0, <2>3, <3>5 DEF SuspendControl, Types
      <4> QED
        BY <1>q, <3>1, <3>3, <3>4, <3>5, <4>1
    <3>6. CASE ~ReadyForReuse(cleanup_counter[NextBlock] - ThrottleVal)
      <4>1. resume_flags'[Control] = "suspended" /\ UNCHANGED next_frame_ff
        BY <1>0, <2>3, <3>6 DEF SuspendControl, Types
      <4>2. next_frame_ff[w] # Control /\ parent_resume[w] = "none"
        BY <2>0 DEF ControlOnce
      <4>3. \A u \in Workers : u # w => ~HasControl(u)
        BY <2>0 DEF ControlOnce, HasControl
      <4>4. \A u \in Workers : ~HasControl(u)'
        BY <1>0, <3>1, <4>1, <4>2, <4>3 DEF HasControl, Types
      <4> QED
        BY <1>n, <3>1, <3>3, <3>4, <3>6, <4>1, <4>4
    <3> QED
      BY <3>5, <3>6
  <2>4. CASE SyncControl(w)
    <3>1. /\ UNCHANGED <<resume_flags, parent_resume>> /\ cpc' = "cleanup"
          /\ frame_ff' = [frame_ff EXCEPT ![w] = NoFrame]
          /\ next_frame_ff' = [next_frame_ff EXCEPT ![Leader] = Control] \/ UNCHANGED next_frame_ff
      BY <2>4 DEF SyncControl
    <3>2. CASE UNCHANGED next_frame_ff
      <4>1. next_frame_ff[w] # Control /\ parent_resume[w] = "none"
        BY <2>0 DEF ControlOnce
      <4>2. \A u \in Workers : u # w => ~HasControl(u)
        BY <2>0 DEF ControlOnce, HasControl
      <4>3. \A u \in Workers : ~HasControl(u)'
        BY <1>0, <3>1, <3>2, <4>1, <4>2 DEF HasControl, Types
      <4> QED
        BY <1>n, <2>0, <3>1, <4>3
    <3>3. CASE next_frame_ff' = [next_frame_ff EXCEPT ![Leader] = Control]
      <4>1. next_frame_ff'[Leader] = Control /\ resume_flags'[Control] # "suspended"
        BY <2>0, <3>1, <3>3, WorkersAssumption DEF Types
      <4> QED
        BY <1>q, <3>1, <4>1, WorkersAssumption
    <3> QED
      BY <3>1, <3>2, <3>3
  <2> QED
    BY <1>1, <2>1, <2>2, <2>3, <2>4 DEF ControlStep
<1>2. ASSUME NEW w \in Workers, ResumeFrame(w) PROVE ControlPlace'
  <2>1. /\ frame_ff[w] = NoFrame /\ UNCHANGED <<cpc, current_iter, parent_resume, cleanup_counter>>
        /\ frame_ff' = [frame_ff EXCEPT ![w] = next_frame_ff[w]]
        /\ next_frame_ff' = [next_frame_ff EXCEPT ![w] = NoFrame]
        /\ resume_flags' = [resume_flags EXCEPT ![next_frame_ff[w]] = IF @ = "resuming" THEN "normal" ELSE @]
    BY <1>2 DEF ResumeFrame, ring, control
  <2>2. CASE next_frame_ff[w] = Control
    <3>1. frame_ff'[w] = Control /\ resume_flags[Control] # "suspended"
      BY <2>1, <2>2 DEF Types, ControlPlace
    <3>2. resume_flags'[Control] = "normal"
      BY <1>0, <2>1, <2>2, <3>1 DEF Types, ResumeFlags
    <3>3. cpc = "setup" => Ready
      BY <3>1 DEF ControlPlace, Ready
    <3>4. Ready' <=> Ready
      BY <2>1, SameIter DEF Ready
    <3> QED
      BY <1>f, <2>1, <3>1, <3>2, <3>3, <3>4
  <2>3. CASE next_frame_ff[w] # Control
    <3>1. /\ resume_flags'[Control] = resume_flags[Control]
          /\ \A u \in Workers : frame_ff'[u] = Control <=> frame_ff[u] = Control
          /\ \A u \in Workers : next_frame_ff'[u] = Control <=> next_frame_ff[u] = Control
      BY <1>0, <2>1, <2>3 DEF Types
    <3> QED
      BY <1>k, <2>1, <3>1
  <2> QED
    BY <2>2, <2>3
<1>3. ASSUME NEW w \in Workers, NEW b \in Blocks, UserStep(w, b) PROVE ControlPlace'
  <2>1. UNCHANGED <<cpc, current_iter, resume_flags, cleanup_counter, worker>>
    BY <1>3 DEF UserStep, TestCondition, Stage, StageWait, ring, control
  <2> QED
    BY <1>k, <2>1 DEF worker
\* a worker takes the control frame that it or a victim has implicitly
<1>t. ASSUME NEW w \in Workers, NEW v \in Workers, parent_resume[w] # "none",
             UNCHANGED <<cpc, current_iter>>, Ready => Ready',
             next_frame_ff' = [next_frame_ff EXCEPT ![v] = Control],
             \/ UNCHANGED resume_flags /\ parent_resume[w] # "throttle"
             \/ resume_flags' = [resume_flags EXCEPT ![Control] =
                                   IF parent_resume[w] = "throttle" THEN "resuming" ELSE @]
      PROVE  ControlPlace'
  <2>1. next_frame_ff'[v] = Control /\ resume_flags'[Control] # "suspended"
    BY <1>0, <1>r, <1>t DEF Types
  <2>2. cpc' \in {"throttle", "setup"} /\ (cpc' = "setup" => Ready')
    BY <1>r, <1>t
  <2> QED
    BY <1>q, <2>1, <2>2
<1>4. ASSUME NEW w \in Workers, NEW b \in Blocks, WaitStep(w, b) PROVE ControlPlace'
  <2>1. CASE CachedEnough(w, b) \/ ReadLeft(w, b) \/ Stall(w, b) \/ AlreadyPromoted(w, b) \/ Suspend(w, b)
    <3>1. UNCHANGED <<cpc, current_iter, cleanup_counter, worker>> /\ resume_flags'[Control] = resume_flags[Control]
      BY <1>0, <2>1 DEF CachedEnough, ReadLeft, Stall, AlreadyPromoted, Suspend, ring, control, Types
    <3> QED
      BY <1>k, <3>1 DEF worker
  <2>2. CASE Promote(w, b)
    <3>1. /\ parent_resume'[w] = "self" /\ cpc' = "throttle" /\ UNCHANGED resume_flags
          /\ frame_ff[w] = Control
      BY <2>2, PromotesAttached DEF Promote, InstallIteration, Types
    <3>2. resume_flags'[Control] = "normal"
      BY <3>1 DEF ControlPlace
    <3> QED
      BY <1>s, <3>1, <3>2
  <2>3. CASE SuspendFails(w, b) \/ (SuspendNext(w, b) /\ (RightResumable(b) \/ parent_resume[w] = "none"))
    <3>1. frame_ff[w] = b /\ next_frame_ff[w] = NoFrame /\ Right(b) \in Blocks
      BY <2>3, RunsPromoted, Neighbours DEF SuspendFails, SuspendNext
    <3>2. /\ UNCHANGED <<cpc, current_iter, cleanup_counter, parent_resume>>
          /\ frame_ff' = [frame_ff EXCEPT ![w] = NoFrame]
          /\ \/ UNCHANGED next_frame_ff
             \/ \E c \in Blocks : next_frame_ff' = [next_frame_ff EXCEPT ![w] = c]
          /\ resume_flags'[Control] = resume_flags[Control]
      BY <1>0, <2>3, <3>1 DEF SuspendFails, SuspendNext, ResumeRight, Types, ring, control
    <3>3. \A u \in Workers : frame_ff'[u] = Control <=> frame_ff[u] = Control
      BY <1>0, <3>1, <3>2 DEF Types
    <3>4. \A u \in Workers : next_frame_ff'[u] = Control <=> next_frame_ff[u] = Control
      BY <1>0, <3>1, <3>2 DEF Types
    <3> QED
      BY <1>k, <3>2, <3>3, <3>4
  <2>4. CASE SuspendNext(w, b) /\ ~RightResumable(b) /\ parent_resume[w] # "none"
    <3>1. pc[b] = "suspending" /\ frame_ff[w] = b
      BY <2>4, RunsPromoted DEF SuspendNext
    <3>2. parent_resume[w] # "throttle"
      BY <3>1 DEF SuspendTakesOwnControl
    <3>3. UNCHANGED <<cpc, current_iter, cleanup_counter, resume_flags>>
          /\ next_frame_ff' = [next_frame_ff EXCEPT ![w] = Control]
      BY <2>4 DEF SuspendNext, control
    <3>4. Ready => Ready'
      BY <3>3, SameIter DEF Ready
    <3> QED
      BY <1>t, <2>4, <3>2, <3>3, <3>4
  <2> QED
    BY <1>4, <2>1, <2>2, <2>3, <2>4 DEF WaitStep
<1>5. ASSUME NEW w \in Workers, NEW b \in Blocks, LeaveStep(w, b) PROVE ControlPlace'
  <2>1. CASE FinishFinalStage(w, b) \/ LeaveFrame(w, b) \/ AttachedDone(w, b) \/ ReturnOther(w, b) \/ StageDone(w, b)
    <3>1. UNCHANGED <<cpc, current_iter, cleanup_counter, worker, resume_flags>>
      BY <2>1 DEF FinishFinalStage, LeaveFrame, AttachedDone, ReturnOther, StageDone, ring, control
    <3> QED
      BY <1>k, <3>1 DEF worker
  <2>2. CASE AttachedFreeLeft(w, b) \/ AttachedFreeOwn(w, b)
    <3>1. /\ Executes(w, b) /\ pc[b] \in {"attached_left", "attached_own"} /\ UNCHANGED <<worker, resume_flags>>
          /\ UNCHANGED cpc \/ cpc' = "throttle"
      BY <2>2 DEF AttachedFreeLeft, AttachedFreeOwn, control
    <3>2. frame_ff[w] = Control /\ cpc = "body"
      BY <3>1, EndsAttached
    <3>3. resume_flags[Control] = "normal"
      BY <3>2 DEF ControlPlace
    <3> QED
      BY <1>f, <3>1, <3>2, <3>3 DEF worker
  <2>3. CASE ReturnLast(w, b)
    <3>1. UNCHANGED <<cpc, resume_flags>> /\ next_frame_ff'[Leader] = Control
      BY <2>3, WorkersAssumption DEF ReturnLast, Types
    <3>2. cpc = "cleanup"
      BY <2>3, LastReturn
    <3>3. resume_flags[Control] # "suspended"
      BY <3>2 DEF ControlPlace
    <3> QED
      BY <1>q, <3>1, <3>2, <3>3, WorkersAssumption
  <2>4. CASE FreeLeft(w, b)
    <3>1. /\ pc[b] = "free_left" /\ UNCHANGED <<frame_ff, next_frame_ff, cpc, current_iter, resume_flags>>
          /\ cleanup_counter' = [cleanup_counter EXCEPT ![Left(b)] = CountFinish(Left(b))]
          /\ parent_resume' = [parent_resume EXCEPT ![w] = FlagAfterFree(w, Left(b))]
      BY <2>4 DEF FreeLeft, FreeBlock, control
    <3>2. Left(b) \in Blocks /\ RightPending(Left(b)) /\ Counted(Left(b))
      BY <3>1, FreesCounted
    <3>3. CASE PastThrottle(CountFinish(Left(b)))
      <4>1. Ready' /\ cpc = "setup" /\ resume_flags[Control] = "suspended"
        BY <1>d, <3>1, <3>2, <3>3
      <4>2. parent_resume'[w] = "throttle"
        BY <3>1, <3>3 DEF FlagAfterFree, Types
      <4> QED
        BY <1>s, <3>1, <4>1, <4>2
    <3>4. CASE ~PastThrottle(CountFinish(Left(b)))
      <4>1. cleanup_counter'[NextBlock] = 0 <=> cleanup_counter[NextBlock] = 0
        BY <1>c, <3>1, <3>2, <3>4
      <4>2. UNCHANGED parent_resume
        BY <3>1, <3>4 DEF FlagAfterFree, Types
      <4> QED
        BY <1>k, <3>1, <4>1, <4>2
    <3> QED
      BY <3>3, <3>4
  <2>5. CASE CheckRight(w, b)
    <3>1. Executes(w, b) /\ pc[b] = "check_right" /\ Right(b) \in Blocks
      BY <2>5, Neighbours DEF CheckRight
    <3>2. next_frame_ff[w] = NoFrame
      BY <3>1, RunsPromoted DEF Finishing
    <3>3. /\ UNCHANGED <<cpc, current_iter, cleanup_counter, parent_resume, frame_ff>>
          /\ resume_flags'[Control] = resume_flags[Control]
          /\ UNCHANGED next_frame_ff \/ next_frame_ff' = [next_frame_ff EXCEPT ![w] = Right(b)]
      BY <1>0, <2>5, <3>1 DEF CheckRight, ResumeRight, NothingToResume, Types, control
    <3>4. \A u \in Workers : next_frame_ff'[u] = Control <=> next_frame_ff[u] = Control
      BY <1>0, <3>1, <3>2, <3>3 DEF Types
    <3> QED
      BY <1>k, <3>3, <3>4
  <2>6. CASE FreeOwn(w, b)
    <3>1. /\ frame_ff' = [frame_ff EXCEPT ![w] = NoFrame] /\ pc[b] = "free_own" /\ Executes(w, b)
          /\ cleanup_counter' = [cleanup_counter EXCEPT ![b] = CountFinish(b)]
          /\ UNCHANGED <<cpc, current_iter>>
      BY <2>6 DEF FreeOwn, FreeBlock, control
    <3>2. frame_ff[w] = b /\ OwnPending(b) /\ Counted(b)
      BY <3>1, RunsPromoted, FreesCounted DEF Finishing
    <3>3. \A u \in Workers : frame_ff'[u] = Control <=> frame_ff[u] = Control
      BY <1>0, <3>1, <3>2 DEF Types
    <3>4. CASE PastThrottle(CountFinish(b))
      <4>1. Ready' /\ cpc = "setup" /\ resume_flags[Control] = "suspended"
        BY <1>d, <3>1, <3>2, <3>4
      <4>2. FlagAfterFree(w, b) = "throttle"
        BY <3>4 DEF FlagAfterFree
      <4>3. CASE next_frame_ff[w] # NoFrame
        <5>1. parent_resume'[w] = "throttle" /\ UNCHANGED resume_flags
          BY <2>6, <4>2, <4>3 DEF FreeOwn, Types
        <5> QED
          BY <1>s, <3>1, <4>1, <5>1
      <4>4. CASE next_frame_ff[w] = NoFrame
        <5>1. /\ next_frame_ff' = [next_frame_ff EXCEPT ![w] = Control]
              /\ resume_flags' = [resume_flags EXCEPT ![Control] = "resuming"]
          BY <2>6, <4>1, <4>2, <4>4 DEF FreeOwn, TakeParent, ParentResumable
        <5>2. next_frame_ff'[w] = Control /\ resume_flags'[Control] # "suspended"
          BY <1>0, <5>1 DEF Types
        <5> QED
          BY <1>q, <3>1, <4>1, <5>2
      <4> QED
        BY <4>3, <4>4
    <3>5. CASE ~PastThrottle(CountFinish(b))
      <4>1. cleanup_counter'[NextBlock] = 0 <=> cleanup_counter[NextBlock] = 0
        BY <1>c, <3>1, <3>2, <3>5
      <4>2. FlagAfterFree(w, b) = parent_resume[w] /\ (Ready => Ready')
        BY <3>1, <3>5, <4>1, SameIter DEF FlagAfterFree, Ready
      <4>3. CASE next_frame_ff[w] # NoFrame
        <5>1. UNCHANGED <<parent_resume, resume_flags, next_frame_ff>>
          BY <2>6, <4>2, <4>3 DEF FreeOwn, Types
        <5> QED
          BY <1>k, <3>1, <3>3, <4>1, <5>1
      <4>4. CASE next_frame_ff[w] = NoFrame /\ parent_resume[w] = "none"
        <5>1. UNCHANGED <<parent_resume, resume_flags, next_frame_ff>>
          BY <2>6, <4>2, <4>4 DEF FreeOwn, ParentResumable, Types
        <5> QED
          BY <1>k, <3>1, <3>3, <4>1, <5>1
      <4>5. CASE next_frame_ff[w] = NoFrame /\ parent_resume[w] # "none"
        <5>1. ParentResumable(parent_resume[w])
          BY <1>r, <4>5 DEF ParentResumable
        <5>2. /\ next_frame_ff' = [next_frame_ff EXCEPT ![w] = Control]
              /\ resume_flags' = [resume_flags EXCEPT ![Control] =
                                    IF parent_resume[w] = "throttle" THEN "resuming" ELSE @]
          BY <2>6, <4>2, <4>5, <5>1 DEF FreeOwn, TakeParent
        <5> QED
          BY <1>t, <3>1, <4>2, <4>5, <5>2
      <4> QED
        BY <4>3, <4>4, <4>5
    <3> QED
      BY <3>4, <3>5
  <2> QED
    BY <1>5, <2>1, <2>2, <2>3, <2>4, <2>5, <2>6 DEF LeaveStep
<1>6. ASSUME NEW v \in Workers, NEW w \in Workers, StealControl(v, w) PROVE ControlPlace'
  <2>1. /\ frame_ff[w] = Control /\ cpc' = "throttle" /\ UNCHANGED resume_flags
        /\ next_frame_ff'[v] = Control
    BY <1>6 DEF StealControl, InstallIteration, Stealable, RunsControl, Types
  <2>2. resume_flags'[Control] # "suspended"
    BY <2>1 DEF ControlPlace
  <2> QED
    BY <1>q, <2>1, <2>2
<1>7. ASSUME NEW v \in Workers, NEW w \in Workers, StealImplicitly(v, w) PROVE ControlPlace'
  <2>1. /\ next_frame_ff[v] = NoFrame /\ UNCHANGED <<cpc, current_iter, cleanup_counter, frame_ff>>
        /\ parent_resume' = [parent_resume EXCEPT ![w] = "none"] /\ Right(frame_ff[w]) \in Blocks
    BY <1>7, Neighbours DEF StealImplicitly, Idle, control
  <2>2. Ready => Ready'
    BY <2>1, SameIter DEF Ready
  <2>3. CASE parent_resume[w] # "none"
    <3>1. ParentResumable(parent_resume[w])
      BY <1>r, <2>3 DEF ParentResumable
    <3>2. TakeParent(parent_resume[w], v)
      BY <1>7, <3>1 DEF StealImplicitly
    <3> QED
      BY <1>t, <2>1, <2>2, <2>3, <3>2 DEF TakeParent
  <2>4. CASE parent_resume[w] = "none"
    <3>1. ~ParentResumable(parent_resume[w]) /\ UNCHANGED parent_resume
      BY <2>1, <2>4 DEF ParentResumable, Types
    <3>2. /\ resume_flags'[Control] = resume_flags[Control]
          /\ UNCHANGED next_frame_ff \/ next_frame_ff' = [next_frame_ff EXCEPT ![v] = Right(frame_ff[w])]
      BY <1>0, <1>7, <2>1, <3>1 DEF StealImplicitly, ResumeRight, NothingToResume, Types
    <3>3. \A u \in Workers : next_frame_ff'[u] = Control <=> next_frame_ff[u] = Control
      BY <1>0, <2>1, <3>2 DEF Types
    <3> QED
      BY <1>k, <2>1, <3>1, <3>2, <3>3
  <2> QED
    BY <2>3, <2>4
<1>8. CASE UNCHANGED vars
  BY <1>8, <1>k DEF vars, ring, control, worker
<1> QED
  BY <1>1, <1>2, <1>3, <1>4, <1>5, <1>6, <1>7, <1>8 DEF Next, Step, Steals, Over

----------------------------------------------------------------------------
\* The join counter counts the children at the start.
LEMMA JoinsInit == Init => Joins
<1> SUFFICES ASSUME Init PROVE Joins
  OBVIOUS
<1>1. cpc = "loop" /\ join_counter = 1 /\ \A b \in Blocks : pc[b] = "idle"
  BY DEF Init
<1>2. Alive = {}
  BY <1>1 DEF Alive, AlivePCs
<1>3. Cardinality(Alive) = 0
  BY <1>2, FS_EmptySet
<1> QED
  BY <1>1, <1>3 DEF Joins, Ended

\* The join counter counts the children, after every step.
LEMMA JoinsStep ==
  ASSUME Types, Numbers, Places, Counters, IterStatuses, Holdings, OneHolder, ControlOnce,
         ControlPlace, Joins, FullFrame, [Next]_vars
  PROVE  Joins'
<1>0. Current \in Blocks /\ Control \notin Blocks /\ NoFrame \notin Blocks /\ Control # NoFrame
  BY CurrentBlocks, Names DEF Types
<1>c. Cardinality(Alive) \in Nat
  BY AliveFinite, FS_CardinalityType
<1>a. ASSUME UNCHANGED <<cpc, current_iter>> PROVE \A c \in Blocks : Attached(c)' <=> Attached(c)
  BY <1>a, SameIter DEF Attached
<1>s. ASSUME NEW b \in Blocks, NEW p, UNCHANGED <<cpc, current_iter>>, pc' = [pc EXCEPT ![b] = p],
             Attached(b) \/ (pc[b] \in AlivePCs <=> p \in AlivePCs)
      PROVE  Alive' = Alive
  <2>1. \A c \in Blocks : pc'[c] = IF c = b THEN p ELSE pc[c]
    BY <1>s DEF Types
  <2> QED
    BY <1>a, <1>s, <2>1 DEF Alive
<1>l. ASSUME Alive' = Alive, UNCHANGED join_counter, cpc \notin Ended, cpc' \notin Ended PROVE Joins'
  BY <1>l DEF Joins
<1>k. ASSUME Alive' = Alive, UNCHANGED <<join_counter, cpc>>, NEW b \in Blocks, pc[b] # "idle",
             cpc \in Ended => \A u \in Workers : HasControl(u)' => HasControl(u)
      PROVE  Joins'
  <2>1. CASE cpc \in Ended
    <3>1. \A u \in Workers : ~HasControl(u) /\ ~HasControl(u)'
      BY <1>k, <2>1 DEF Joins, AllIdle
    <3> QED
      BY <1>k, <2>1, <3>1 DEF Joins
  <2>2. CASE cpc \notin Ended
    BY <1>k, <1>l, <2>2
  <2> QED
    BY <2>1, <2>2
<1>i. ASSUME pc[Current] \in AlivePCs, cpc = "body", cpc' = "throttle", join_counter' = join_counter + 1,
             UNCHANGED current_iter,
             \A c \in Blocks : pc'[c] \in AlivePCs <=> pc[c] \in AlivePCs
      PROVE  Joins'
  <2>1. Alive' = Alive \cup {Current} /\ Current \notin Alive
    BY <1>0, <1>i DEF Alive, Attached
  <2>2. Cardinality(Alive') = Cardinality(Alive) + 1
    BY <2>1, AliveFinite, FS_AddElement
  <2> QED
    BY <1>c, <1>i, <2>2 DEF Joins, Ended
<1>n. ASSUME AllIdle', join_counter' = 1, cpc' \in Ended, \E u \in Workers : HasControl(u)' PROVE Joins'
  BY <1>n DEF Joins
<1>1. ASSUME NEW w \in Workers, ControlStep(w) PROVE Joins'
  <2>1. CASE InitIterFrame(w)
    <3>1. /\ UNCHANGED <<join_counter, current_iter>> /\ cpc = "loop" /\ cpc' = "body" /\ pc[Current] = "idle"
          /\ pc' = [pc EXCEPT ![Current] = "test"]
      BY <2>1 DEF InitIterFrame, RunsControl, Goto, Places, NotStarted
    <3>2. Alive' = Alive
      <4>1. \A c \in Blocks : pc'[c] \in AlivePCs /\ ~Attached(c)' <=> pc[c] \in AlivePCs /\ ~Attached(c)
        BY <1>0, <3>1, SameIter DEF Types, Attached, AlivePCs
      <4> QED
        BY <4>1 DEF Alive
    <3> QED
      BY <1>l, <3>1, <3>2 DEF Ended
  <2>2. CASE EndLoop(w)
    <3>1. /\ UNCHANGED <<join_counter, pc, frame_ff>> /\ cpc = "loop" /\ frame_ff[w] = Control
          /\ cpc' = IF control_ff THEN "sync" ELSE "cleanup"
      BY <2>2 DEF EndLoop, RunsControl, code, worker
    <3>2. Alive' = Alive
      BY <3>1 DEF Alive, Attached
    <3>3. CASE control_ff
      BY <1>l, <3>1, <3>2, <3>3 DEF Ended
    <3>4. CASE ~control_ff
      <4>1. AllIdle
        BY <3>1, <3>4 DEF FullFrame, Attached, AllIdle
      <4>2. Alive = {}
        BY <4>1 DEF Alive, AllIdle, AlivePCs
      <4>3. join_counter = 1
        BY <3>1, <4>2, FS_EmptySet DEF Joins, Ended
      <4>4. AllIdle' /\ HasControl(w)'
        BY <3>1, <4>1 DEF AllIdle, HasControl
      <4> QED
        BY <1>n, <3>1, <3>4, <4>3, <4>4 DEF Ended
    <3> QED
      BY <3>3, <3>4
  <2>3. CASE ThrottleFast(w) \/ ThrottleSlow(w) \/ SuspendControl(w) \/ SetupNext(w)
    <3>1. UNCHANGED <<join_counter, pc>> /\ cpc \in AtThrottle /\ cpc' \in AtThrottle \cup {"loop"}
      BY <2>3 DEF ThrottleFast, ThrottleSlow, SuspendControl, SetupNext, RunsControl, code, AtThrottle
    <3>2. Alive' = Alive
      BY <3>1 DEF Alive, Attached, AtThrottle
    <3> QED
      BY <1>l, <3>1, <3>2 DEF Ended, AtThrottle
  <2>4. CASE SyncControl(w)
    <3>1. /\ UNCHANGED <<pc, parent_resume>> /\ cpc = "sync" /\ cpc' = "cleanup" /\ frame_ff[w] = Control
          /\ frame_ff' = [frame_ff EXCEPT ![w] = NoFrame]
      BY <2>4 DEF SyncControl, RunsControl, code
    <3>2. CASE join_counter = 1
      <4>1. AllIdle' /\ join_counter' = 1 /\ next_frame_ff'[Leader] = Control
        BY <2>4, <3>1, <3>2, NoChildrenAtSync, WorkersAssumption DEF SyncControl, AllIdle, Types
      <4>2. HasControl(Leader)'
        BY <4>1 DEF HasControl
      <4> QED
        BY <1>n, <3>1, <4>1, <4>2, WorkersAssumption DEF Ended
    <3>3. CASE join_counter # 1
      <4>1. UNCHANGED next_frame_ff /\ join_counter' = join_counter - 1
        BY <2>4, <3>3 DEF SyncControl
      <4>2. \A u \in Workers : u # w => ~HasControl(u)
        BY <3>1 DEF ControlOnce, HasControl
      <4>3. next_frame_ff[w] # Control /\ parent_resume[w] = "none"
        BY <3>1 DEF ControlOnce
      <4>4. \A u \in Workers : ~HasControl(u)'
        BY <1>0, <3>1, <4>1, <4>2, <4>3 DEF HasControl, Types
      <4>5. Alive' = Alive
        BY <3>1 DEF Alive, Attached
      <4> QED
        BY <1>c, <3>1, <3>3, <4>1, <4>4, <4>5 DEF Joins, Ended, Types
    <3> QED
      BY <3>2, <3>3
  <2>5. CASE CleanUp(w)
    <3>1. UNCHANGED <<join_counter, pc, frame_ff>> /\ cpc = "cleanup" /\ cpc' = "done" /\ frame_ff[w] = Control
      BY <2>5 DEF CleanUp, RunsControl, code, worker
    <3>2. join_counter = 1 /\ AllIdle
      BY <3>1 DEF Joins, HasControl, Ended
    <3>3. AllIdle' /\ HasControl(w)'
      BY <3>1, <3>2 DEF AllIdle, HasControl
    <3> QED
      BY <1>n, <3>1, <3>2, <3>3 DEF Ended
  <2> QED
    BY <1>1, <2>1, <2>2, <2>3, <2>4, <2>5 DEF ControlStep
<1>2. ASSUME NEW w \in Workers, ResumeFrame(w) PROVE Joins'
  <2> DEFINE n == next_frame_ff[w]
  <2>1. /\ frame_ff[w] = NoFrame /\ n # NoFrame
        /\ frame_ff' = [frame_ff EXCEPT ![w] = n]
        /\ pc' = [b \in Blocks |-> IF b = n THEN "stall" ELSE pc[b]]
        /\ next_frame_ff' = [next_frame_ff EXCEPT ![w] = NoFrame]
        /\ UNCHANGED <<cpc, current_iter, join_counter, parent_resume>>
    BY <1>2 DEF ResumeFrame, ring, control
  <2>2. CASE n \in Blocks
    <3>1. pc' = [pc EXCEPT ![n] = "stall"] /\ pc[n] = "asleep"
      BY <2>1, <2>2 DEF Types, Holdings
    <3>2. Alive' = Alive
      BY <1>s, <2>1, <2>2, <3>1 DEF AlivePCs
    <3>3. \A u \in Workers : HasControl(u)' => HasControl(u)
      BY <1>0, <2>1, <2>2 DEF HasControl, Types
    <3> HIDE DEF n
    <3> QED
      BY <1>k, <2>1, <2>2, <3>1, <3>2, <3>3
  <2>3. CASE n \notin Blocks
    <3>1. n = Control /\ HasControl(w)
      BY <2>1, <2>3, Names DEF Types, HasControl
    <3>2. HasControl(w)'
      BY <2>1, <3>1 DEF HasControl, Types
    <3>3. UNCHANGED pc
      BY <2>1, <2>3 DEF Types
    <3>4. CASE cpc \in Ended
      <4>1. AllIdle' /\ join_counter' = 1
        BY <2>1, <3>1, <3>3, <3>4 DEF Joins, AllIdle
      <4> QED
        BY <1>n, <2>1, <3>2, <3>4, <4>1
    <3>5. CASE cpc \notin Ended
      <4>1. Alive' = Alive
        BY <1>a, <2>1, <3>3 DEF Alive
      <4> QED
        BY <1>l, <2>1, <3>5, <4>1
    <3> QED
      BY <3>4, <3>5
  <2> QED
    BY <2>2, <2>3
<1>3. ASSUME NEW w \in Workers, NEW b \in Blocks, UserStep(w, b) PROVE Joins'
  <2>1. /\ Executes(w, b) /\ UNCHANGED <<worker, cpc, current_iter, join_counter>>
        /\ pc[b] \in {"test", "user", "last"}
        /\ \E p \in {"user", "last", "wait"} : pc' = [pc EXCEPT ![b] = p]
    <3>1. CASE \E s \in 1 .. MaxStage : Stage(w, b, s)
      BY <3>1 DEF Stage, UserStages, Types, control
    <3>2. CASE ~\E s \in 1 .. MaxStage : Stage(w, b, s)
      BY <1>3, <3>2 DEF UserStep, TestCondition, StageWait, Goto, ring, control
    <3> QED
      BY <3>1, <3>2
  <2>2. Attached(b) \/ pc[b] # "test"
    BY <2>1, EndsAttached
  <2>3. Alive' = Alive
    BY <1>s, <2>1, <2>2 DEF AlivePCs
  <2>4. \A u \in Workers : HasControl(u)' => HasControl(u)
    BY <2>1 DEF HasControl, worker
  <2> QED
    BY <1>k, <2>1, <2>3, <2>4
<1>4. ASSUME NEW w \in Workers, NEW b \in Blocks, WaitStep(w, b) PROVE Joins'
  <2>1. CASE CachedEnough(w, b) \/ ReadLeft(w, b) \/ Stall(w, b) \/ AlreadyPromoted(w, b) \/ Suspend(w, b)
             \/ SuspendFails(w, b) \/ SuspendNext(w, b)
    <3>1. /\ pc[b] \in {"wait", "stall", "promote", "suspend", "suspending"}
          /\ UNCHANGED <<join_counter, cpc, current_iter>>
          /\ \E p \in {"user", "final", "wait", "stall", "promote", "suspend", "suspending", "asleep"} :
               pc' = [pc EXCEPT ![b] = p]
      BY <2>1 DEF CachedEnough, AfterWait, ReadLeft, Stall, AlreadyPromoted, Suspend, SuspendFails,
         SuspendNext, Goto, ring, control
    <3>2. Alive' = Alive
      BY <1>s, <3>1 DEF AlivePCs
    <3>3. ASSUME cpc \in Ended PROVE \A u \in Workers : HasControl(u)' => HasControl(u)
      <4>1. parent_resume[w] = "none"
        BY <3>1, <3>3 DEF Joins, AllIdle, HasControl
      <4>2. CASE CachedEnough(w, b) \/ ReadLeft(w, b) \/ Stall(w, b) \/ AlreadyPromoted(w, b) \/ Suspend(w, b)
        BY <4>2 DEF CachedEnough, ReadLeft, Stall, AlreadyPromoted, Suspend, HasControl, worker
      <4>3. CASE SuspendFails(w, b) \/ SuspendNext(w, b)
        <5>1. /\ \A u \in Workers : frame_ff'[u] \in {frame_ff[u], NoFrame}
              /\ \A u \in Workers : next_frame_ff'[u] = next_frame_ff[u] \/ next_frame_ff'[u] \in Blocks
              /\ UNCHANGED parent_resume
          BY <4>1, <4>3, Neighbours DEF SuspendFails, SuspendNext, ResumeRight, Types
        <5> QED
          BY <1>0, <5>1 DEF HasControl
      <4> QED
        BY <2>1, <4>2, <4>3
    <3> QED
      BY <1>k, <3>1, <3>2, <3>3
  <2>2. CASE Promote(w, b)
    <3>1. /\ pc[b] = "promote" /\ b = Current /\ cpc = "body" /\ cpc' = "throttle"
          /\ join_counter' = join_counter + 1 /\ UNCHANGED current_iter
          /\ pc' = [pc EXCEPT ![b] = "suspend"]
      BY <2>2, PromotesAttached DEF Promote, InstallIteration, Goto
    <3>2. \A c \in Blocks : pc'[c] \in AlivePCs <=> pc[c] \in AlivePCs
      BY <3>1 DEF Types, AlivePCs
    <3>3. pc[Current] \in AlivePCs
      BY <3>1 DEF AlivePCs
    <3> QED
      BY <1>i, <3>1, <3>2, <3>3
  <2> QED
    BY <1>4, <2>1, <2>2 DEF WaitStep
<1>5. ASSUME NEW w \in Workers, NEW b \in Blocks, LeaveStep(w, b) PROVE Joins'
  <2>1. CASE FinishFinalStage(w, b) \/ LeaveFrame(w, b) \/ AttachedDone(w, b) \/ AttachedFreeLeft(w, b)
             \/ StageDone(w, b)
    <3>1. /\ UNCHANGED <<join_counter, cpc, current_iter, worker>> /\ pc[b] # "idle"
          /\ Executes(w, b)
          /\ \E p : /\ pc' = [pc EXCEPT ![b] = p]
                    /\ (pc[b] \in AlivePCs <=> p \in AlivePCs) \/ frame_ff[w] = Control
      BY <2>1 DEF FinishFinalStage, LeaveFrame, AttachedDone, AttachedFreeLeft, StageDone, Goto, control,
         AlivePCs
    <3>2. frame_ff[w] = Control => Attached(b)
      BY <1>0, <3>1 DEF Executes, Attached
    <3>3. Alive' = Alive
      BY <1>s, <3>1, <3>2
    <3>4. \A u \in Workers : HasControl(u)' => HasControl(u)
      BY <3>1 DEF HasControl, worker
    <3> QED
      BY <1>k, <3>1, <3>3, <3>4
  <2>2. CASE AttachedFreeOwn(w, b)
    <3>1. /\ b = Current /\ cpc = "body" /\ cpc' = "throttle" /\ UNCHANGED <<join_counter, current_iter>>
          /\ pc' = [pc EXCEPT ![b] = "idle"]
      BY <2>2, EndsAttached DEF AttachedFreeOwn, Goto
    <3>2. \A c \in Blocks : pc'[c] \in AlivePCs /\ ~Attached(c)' <=> pc[c] \in AlivePCs /\ ~Attached(c)
      BY <3>1 DEF Types, Attached, AlivePCs
    <3>3. Alive' = Alive
      BY <3>2 DEF Alive
    <3> QED
      BY <1>l, <3>1, <3>3 DEF Ended
  <2>3. CASE ReturnLast(w, b)
    <3>1. /\ pc' = [pc EXCEPT ![b] = "idle"] /\ join_counter' = 1 /\ UNCHANGED cpc
          /\ next_frame_ff'[Leader] = Control
      BY <2>3, WorkersAssumption DEF ReturnLast, Goto, Types
    <3>2. cpc = "cleanup" /\ \A c \in Blocks \ {b} : pc[c] = "idle"
      BY <2>3, LastReturn
    <3>3. AllIdle' /\ HasControl(Leader)'
      BY <3>1, <3>2 DEF AllIdle, HasControl, Types
    <3> QED
      BY <1>n, <3>1, <3>2, <3>3, WorkersAssumption DEF Ended
  <2>4. CASE ReturnOther(w, b)
    <3>1. /\ pc[b] = "return" /\ Executes(w, b) /\ join_counter # 1 /\ join_counter' = join_counter - 1
          /\ UNCHANGED <<cpc, current_iter, worker>> /\ pc' = [pc EXCEPT ![b] = "free_left"]
      BY <2>4 DEF ReturnOther, Goto, control
    <3>2. ~Attached(b)
      BY <3>1, RunsPromoted
    <3>3. b \in Alive /\ Alive' = Alive \ {b}
      BY <1>a, <3>1, <3>2 DEF Alive, AlivePCs, Types
    <3>4. Cardinality(Alive') = Cardinality(Alive) - 1
      BY <3>3, AliveFinite, FS_RemoveElement
    <3>5. CASE cpc \in Ended
      <4>1. \A u \in Workers : ~HasControl(u)
        BY <3>1, <3>5 DEF Joins, AllIdle
      <4>2. \A u \in Workers : ~HasControl(u)'
        BY <3>1, <4>1 DEF HasControl, worker
      <4> QED
        BY <1>c, <3>1, <3>4, <3>5, <4>1, <4>2 DEF Joins
    <3>6. CASE cpc \notin Ended
      BY <1>c, <3>1, <3>4, <3>6 DEF Joins
    <3> QED
      BY <3>5, <3>6
  <2>5. CASE FreeLeft(w, b) \/ CheckRight(w, b) \/ FreeOwn(w, b)
    <3>1. /\ pc[b] \in Finishing /\ Executes(w, b) /\ UNCHANGED <<cpc, current_iter, join_counter>>
          /\ \E p \in {"stage_done", "free_own", "idle"} : pc' = [pc EXCEPT ![b] = p]
      BY <2>5 DEF FreeLeft, CheckRight, FreeOwn, Finishing, Goto, control
    <3>2. Alive' = Alive
      BY <1>s, <3>1 DEF AlivePCs, Finishing
    <3>3. ASSUME cpc \in Ended PROVE \A u \in Workers : HasControl(u)' => HasControl(u)
      <4>1. parent_resume[w] = "none"
        BY <3>1, <3>3 DEF Joins, AllIdle, HasControl, Finishing
      <4>2. CASE FreeLeft(w, b)
        <5>1. ~PastThrottle(CountFinish(Left(b)))
          BY <3>3, <4>2, FreesCounted, ThrottleRelease DEF FreeLeft, Ended
        <5>2. UNCHANGED <<frame_ff, next_frame_ff, parent_resume>>
          BY <4>1, <4>2, <5>1 DEF FreeLeft, FlagAfterFree, Types
        <5> QED
          BY <5>2 DEF HasControl
      <4>3. CASE CheckRight(w, b)
        <5>1. /\ UNCHANGED <<frame_ff, parent_resume>>
              /\ \A u \in Workers : next_frame_ff'[u] = next_frame_ff[u] \/ next_frame_ff'[u] \in Blocks
          BY <4>3, Neighbours DEF CheckRight, ResumeRight, NothingToResume, Types
        <5> QED
          BY <1>0, <5>1 DEF HasControl
      <4>4. CASE FreeOwn(w, b)
        <5>1. ~PastThrottle(CountFinish(b))
          BY <3>3, <4>4, FreesCounted, ThrottleRelease DEF FreeOwn, Ended
        <5>2. FlagAfterFree(w, b) = "none" /\ ~ParentResumable(FlagAfterFree(w, b))
          BY <4>1, <5>1 DEF FlagAfterFree, ParentResumable
        <5>3. /\ frame_ff' = [frame_ff EXCEPT ![w] = NoFrame] /\ UNCHANGED next_frame_ff
              /\ parent_resume' = [parent_resume EXCEPT ![w] = "none"]
          BY <4>4, <5>2 DEF FreeOwn
        <5>4. /\ UNCHANGED <<next_frame_ff, parent_resume>>
              /\ \A u \in Workers : frame_ff'[u] \in {frame_ff[u], NoFrame}
          BY <4>1, <5>3 DEF Types
        <5> QED
          BY <1>0, <5>4 DEF HasControl
      <4> QED
        BY <2>5, <4>2, <4>3, <4>4
    <3> QED
      BY <1>k, <3>1, <3>2, <3>3 DEF Finishing
  <2> QED
    BY <1>5, <2>1, <2>2, <2>3, <2>4, <2>5 DEF LeaveStep
<1>6. ASSUME NEW v \in Workers, NEW w \in Workers, StealControl(v, w) PROVE Joins'
  <2>1. /\ cpc = "body" /\ cpc' = "throttle" /\ join_counter' = join_counter + 1
        /\ UNCHANGED <<current_iter, pc>> /\ pc[Current] \in AlivePCs
    BY <1>6 DEF StealControl, InstallIteration, Stealable, RunsControl, Places
  <2> QED
    BY <1>i, <2>1
<1>7. ASSUME NEW v \in Workers, NEW w \in Workers, StealImplicitly(v, w) PROVE Joins'
  <2>1. /\ UNCHANGED <<cpc, current_iter, join_counter, pc, frame_ff>> /\ frame_ff[w] \in Blocks
        /\ parent_resume' = [parent_resume EXCEPT ![w] = "none"]
    BY <1>7 DEF StealImplicitly, control, code
  <2>2. Alive' = Alive
    BY <1>a, <2>1 DEF Alive
  <2>3. pc[frame_ff[w]] # "idle"
    BY <2>1 DEF Holdings, RunningPCs, AlivePCs, Finishing
  <2>4. ASSUME cpc \in Ended PROVE \A u \in Workers : HasControl(u)' => HasControl(u)
    <3>1. parent_resume[w] = "none"
      BY <2>1, <2>3, <2>4 DEF Joins, AllIdle, HasControl
    <3>2. \A u \in Workers : next_frame_ff'[u] = next_frame_ff[u] \/ next_frame_ff'[u] \in Blocks
      BY <1>7, <2>1, <3>1, Neighbours DEF StealImplicitly, ParentResumable, ResumeRight, NothingToResume, Types
    <3> QED
      BY <1>0, <2>1, <3>1, <3>2 DEF HasControl, Types
  <2> QED
    BY <1>k, <2>1, <2>2, <2>3, <2>4
<1>8. CASE UNCHANGED vars
  <2>1. UNCHANGED <<cpc, current_iter, join_counter, pc, worker>>
    BY <1>8 DEF vars, control, code
  <2>2. \A u \in Workers : HasControl(u)' <=> HasControl(u)
    BY <2>1 DEF HasControl, worker
  <2>3. Alive' = Alive
    BY <1>a, <2>1 DEF Alive
  <2>4. AllIdle' <=> AllIdle
    BY <2>1 DEF AllIdle
  <2> QED
    BY <2>1, <2>2, <2>3, <2>4 DEF Joins
<1> QED
  BY <1>1, <1>2, <1>3, <1>4, <1>5, <1>6, <1>7, <1>8 DEF Next, Step, Steals, Over

----------------------------------------------------------------------------
\* The iteration to the left of one that waits: its place in the ring.
LEMMA LeftStarted ==
  ASSUME Types, Numbers, Places, NEW b \in Blocks, ~DoneWithLeft(b)
  PROVE  /\ Left(b) \in Blocks /\ Left(b) # b /\ Left(b) # Current
         /\ Started(Left(b)) /\ Reserved(Left(b)) >= 0
<1>1. /\ Left(b) \in Blocks /\ Left(b) # b /\ Left(b) # Current
      /\ Reserved(Left(b)) = Reserved(b) - 1 /\ Reserved(b) >= 1
  BY LeftInUse
<1>2. Reserved(b) \in Int /\ Reserved(Left(b)) >= 0
  BY <1>1, ReservedBlocks DEF Types
<1>3. Started(Left(b))
  BY <1>1, <1>2 DEF Numbers, Started
<1> QED
  BY <1>1, <1>2, <1>3

\* There is a control full frame when it is needed at the start.
LEMMA FullFrameInit == Init => FullFrame
BY DEF Init, FullFrame

\* There is a control full frame when it is needed, after every step.
LEMMA FullFrameStep ==
  ASSUME Types, Numbers, Places, Counters, IterStatuses, Holdings, FullFrame, PlaceStages, IdleStages,
         [Next]_vars
  PROVE  FullFrame'
<1>0. Current \in Blocks /\ NextBlock \in Blocks /\ Current # NextBlock
  BY CurrentBlocks DEF Types
<1>a. ASSUME UNCHANGED <<cpc, current_iter>> PROVE \A c \in Blocks : Attached(c)' <=> Attached(c)
  BY <1>a, SameIter DEF Attached
\* a step that starts no iteration
<1>k. ASSUME control_ff => control_ff',
             \A c \in Blocks : pc'[c] # "idle" => pc[c] # "idle" /\ (Attached(c) => Attached(c)'),
             \A c \in Blocks : pc'[c] = "promote" => pc[c] = "promote" \/ control_ff,
             cpc' \in {"slow", "sync"} => cpc \in {"slow", "sync"} \/ control_ff
      PROVE  FullFrame'
  <2>1. CASE control_ff'
    BY <2>1 DEF FullFrame
  <2>2. CASE ~control_ff'
    BY <1>k, <2>2 DEF FullFrame
  <2> QED
    BY <2>1, <2>2
<1>p. ASSUME NEW b \in Blocks, NEW p, pc' = [pc EXCEPT ![b] = p], pc[b] # "idle",
             p = "promote" => control_ff,
             UNCHANGED <<cpc, current_iter, control_ff>>
      PROVE  FullFrame'
  <2>1. \A c \in Blocks : pc'[c] = IF c = b THEN p ELSE pc[c]
    BY <1>p DEF Types
  <2> QED
    BY <1>a, <1>k, <1>p, <2>1 DEF FullFrame
<1>1. ASSUME NEW w \in Workers, ControlStep(w) PROVE FullFrame'
  <2>1. CASE InitIterFrame(w)
    <3>1. /\ UNCHANGED <<control_ff, current_iter>> /\ cpc = "loop" /\ cpc' = "body"
          /\ pc' = [pc EXCEPT ![Current] = "test"]
      BY <2>1 DEF InitIterFrame, RunsControl, Goto
    <3>2. CASE control_ff
      BY <3>1, <3>2 DEF FullFrame
    <3>3. CASE ~control_ff
      <4>1. \A c \in Blocks : pc[c] = "idle"
        BY <3>1, <3>3 DEF FullFrame, Attached
      <4>2. \A c \in Blocks : pc'[c] = (IF c = Current THEN "test" ELSE "idle")
        BY <1>0, <3>1, <4>1 DEF Types
      <4>3. \A c \in Blocks : pc'[c] # "idle" => Attached(c)'
        BY <3>1, <4>2, SameIter DEF Attached
      <4> QED
        BY <3>1, <3>3, <4>2, <4>3 DEF FullFrame
    <3> QED
      BY <3>2, <3>3
  <2>2. CASE ThrottleSlow(w)
    <3>1. /\ UNCHANGED <<control_ff, pc>> /\ cpc = "throttle" /\ ~ReadyForReuse(cleanup_counter[NextBlock])
          /\ cpc' = "slow"
      BY <2>2 DEF ThrottleSlow, RunsControl, code
    <3>2. control_ff
      <4> SUFFICES ASSUME ~control_ff PROVE FALSE
        OBVIOUS
      <4>1. \A c \in Blocks : pc[c] = "idle"
        BY <3>1 DEF FullFrame, Attached
      <4>2. Counted(NextBlock) /\ cpc \notin NotStarted
        BY <1>0, <3>1 DEF Counters, Ended, NotStarted
      <4>3. OwnPending(NextBlock) \/ RightPending(NextBlock)
        BY <3>1, <4>2 DEF Counted, ReadyForReuse, ThrottleVal
      <4>4. \A c \in Blocks : Reserved(c) >= 0 => Started(c)
        BY <4>2, ReservedBlocks DEF Numbers, Started, Types
      <4>5. ~OwnPending(NextBlock)
        BY <1>0, <4>1, <4>4, ReservedBlocks DEF OwnPending, Types
      <4>6. /\ Right(NextBlock) \in Blocks /\ Right(NextBlock) # NextBlock
            /\ Left(Right(NextBlock)) = NextBlock
        BY <1>0, Neighbours
      <4>7. Reserved(NextBlock) >= 0 => Reserved(Right(NextBlock)) >= 0
        BY <1>0, <4>6, ReservedBlocks DEF Types
      <4> QED
        BY <1>0, <4>1, <4>3, <4>4, <4>5, <4>6, <4>7 DEF RightPending, DoneWithLeft
    <3> QED
      BY <3>1, <3>2 DEF FullFrame
  <2>3. CASE EndLoop(w) \/ ThrottleFast(w) \/ SuspendControl(w) \/ SetupNext(w) \/ SyncControl(w) \/ CleanUp(w)
    <3>1. /\ UNCHANGED <<control_ff, pc>> /\ cpc # "body"
          /\ cpc' \in {"slow", "sync"} => cpc \in {"slow", "sync"} \/ control_ff
      BY <2>3 DEF EndLoop, ThrottleFast, SuspendControl, SetupNext, SyncControl, CleanUp, RunsControl, code
    <3> QED
      BY <1>k, <3>1 DEF Attached
  <2> QED
    BY <1>1, <2>1, <2>2, <2>3 DEF ControlStep
<1>2. ASSUME NEW w \in Workers, ResumeFrame(w) PROVE FullFrame'
  <2>1. /\ UNCHANGED <<cpc, current_iter, control_ff>>
        /\ \A c \in Blocks : pc'[c] = IF c = next_frame_ff[w] THEN "stall" ELSE pc[c]
    BY <1>2 DEF ResumeFrame, ring, control
  <2>2. \A c \in Blocks : c = next_frame_ff[w] => pc[c] # "idle"
    BY DEF Holdings
  <2> QED
    BY <1>a, <1>k, <2>1, <2>2
<1>3. ASSUME NEW w \in Workers, NEW b \in Blocks, UserStep(w, b) PROVE FullFrame'
  <2>1. /\ UNCHANGED <<cpc, current_iter, control_ff>> /\ pc[b] # "idle"
        /\ \E p \in {"user", "last", "wait"} : pc' = [pc EXCEPT ![b] = p]
    <3>1. CASE \E s \in 1 .. MaxStage : Stage(w, b, s)
      BY <3>1 DEF Stage, UserStages, Types, control
    <3>2. CASE ~\E s \in 1 .. MaxStage : Stage(w, b, s)
      BY <1>3, <3>2 DEF UserStep, TestCondition, StageWait, Goto, ring, control
    <3> QED
      BY <3>1, <3>2
  <2> QED
    BY <1>p, <2>1
<1>4. ASSUME NEW w \in Workers, NEW b \in Blocks, WaitStep(w, b) PROVE FullFrame'
  <2>1. CASE CachedEnough(w, b) \/ ReadLeft(w, b) \/ AlreadyPromoted(w, b) \/ Suspend(w, b)
             \/ SuspendFails(w, b) \/ SuspendNext(w, b)
    <3>1. /\ pc[b] # "idle" /\ UNCHANGED <<control_ff, cpc, current_iter>>
          /\ \E p \in {"user", "final", "stall", "suspend", "suspending", "asleep"} : pc' = [pc EXCEPT ![b] = p]
      BY <2>1 DEF CachedEnough, AfterWait, ReadLeft, AlreadyPromoted, Suspend, SuspendFails,
         SuspendNext, Goto, ring, control
    <3> QED
      BY <1>p, <3>1
  <2>2. CASE Stall(w, b)
    <3>1. /\ Executes(w, b) /\ pc[b] = "stall" /\ UNCHANGED <<control_ff, cpc, current_iter>>
          /\ \/ pc' = [pc EXCEPT ![b] = "wait"]
             \/ pc' = [pc EXCEPT ![b] = "suspend"]
             \/ pc' = [pc EXCEPT ![b] = "promote"] /\ NeedToStall(b)
      BY <2>2 DEF Stall, Goto, control
    <3>2. ASSUME ~control_ff, NeedToStall(b) PROVE FALSE
      <4>1. Attached(b) /\ b = Current
        BY <3>1, <3>2 DEF FullFrame, Attached
      <4>2. Left(b) \in Blocks /\ Left(b) # b /\ Started(Left(b)) /\ Reserved(Left(b)) >= 0
        BY <3>1, LeftStarted DEF DoneWithLeft
      <4>3. pc[Left(b)] = "idle"
        BY <3>2, <4>1, <4>2 DEF FullFrame, Attached
      <4>4. stage[Left(b)] = FinishStage
        BY <3>1, <4>2, <4>3 DEF IdleStages, AllIdle
      <4>5. stage[b] \in 1 .. FinalStage
        BY <3>1 DEF PlaceStages
      <4> QED
        BY <3>2, <4>4, <4>5, StageOrder DEF NeedToStall
    <3> QED
      BY <1>p, <3>1, <3>2
  <2>3. CASE Promote(w, b)
    BY <2>3 DEF Promote, InstallIteration, FullFrame
  <2> QED
    BY <1>4, <2>1, <2>2, <2>3 DEF WaitStep
<1>5. ASSUME NEW w \in Workers, NEW b \in Blocks, LeaveStep(w, b) PROVE FullFrame'
  <2>1. CASE AttachedFreeOwn(w, b)
    <3>1. /\ b = Current /\ cpc = "body" /\ cpc' = "throttle" /\ UNCHANGED control_ff
          /\ \A c \in Blocks : pc'[c] = IF c = b THEN "idle" ELSE pc[c]
      BY <2>1, EndsAttached DEF AttachedFreeOwn, Goto, Types
    <3> QED
      BY <1>k, <3>1 DEF Attached
  <2>2. CASE FinishFinalStage(w, b) \/ LeaveFrame(w, b) \/ AttachedDone(w, b) \/ AttachedFreeLeft(w, b)
             \/ ReturnLast(w, b) \/ ReturnOther(w, b) \/ FreeLeft(w, b) \/ StageDone(w, b) \/ CheckRight(w, b)
             \/ FreeOwn(w, b)
    <3>1. /\ pc[b] # "idle" /\ UNCHANGED <<control_ff, cpc, current_iter>>
          /\ \E p \in {"leave", "attached_done", "return", "attached_left", "attached_own", "idle", "free_left",
                       "stage_done", "check_right", "free_own"} : pc' = [pc EXCEPT ![b] = p]
      BY <2>2 DEF FinishFinalStage, LeaveFrame, AttachedDone, AttachedFreeLeft, ReturnLast, ReturnOther,
         FreeLeft, StageDone, CheckRight, FreeOwn, Goto, control
    <3> QED
      BY <1>p, <3>1
  <2> QED
    BY <1>5, <2>1, <2>2 DEF LeaveStep
<1>6. ASSUME NEW v \in Workers, NEW w \in Workers, StealControl(v, w) PROVE FullFrame'
  BY <1>6 DEF StealControl, InstallIteration, FullFrame
<1>7. ASSUME NEW v \in Workers, NEW w \in Workers, StealImplicitly(v, w) PROVE FullFrame'
  BY <1>7, <1>a, <1>k DEF StealImplicitly, control, code
<1>8. CASE UNCHANGED vars
  BY <1>8, <1>a, <1>k DEF vars, control, code
<1> QED
  BY <1>1, <1>2, <1>3, <1>4, <1>5, <1>6, <1>7, <1>8 DEF Next, Step, Steals, Over

----------------------------------------------------------------------------
\* The stages fit the places at the start.
LEMMA PlaceStagesInit == Init => PlaceStages
<1> SUFFICES ASSUME Init PROVE PlaceStages
  OBVIOUS
<1>1. cpc = "loop" /\ detached = FALSE /\ \A b \in Blocks : pc[b] = "idle"
  BY DEF Init
<1> QED
  BY <1>1 DEF PlaceStages

\* The stages fit the places, after every step.
LEMMA PlaceStagesStep ==
  ASSUME Types, Flags, Numbers, Places, IterStatuses, Holdings, PlaceStages, [Next]_vars
  PROVE  PlaceStages'
<1>0. Current \in Blocks /\ NoFrame \notin Blocks
  BY CurrentBlocks, Names DEF Types
<1>s. /\ MaxStage \in Nat /\ FinalStage = MaxStage + 1 /\ PostStage = MaxStage + 2 /\ FinishStage = MaxStage + 3
      /\ \A b \in Blocks : stage[b] \in 0 .. FinishStage
  BY StageOrder DEF Types
<1> DEFINE Good(p, s, a) ==
             /\ p = "test" => s = 0
             /\ p \in {"user", "last"} => s <= MaxStage
             /\ p \in {"wait", "stall", "promote", "suspend", "suspending", "asleep"} => s \in 1 .. FinalStage
             /\ p = "final" => s = FinalStage
             /\ p \in {"leave", "return", "free_left", "stage_done", "attached_done"} => s = PostStage
             /\ p \in {"check_right", "free_own", "attached_left", "attached_own"} => s = FinishStage
             /\ p # "idle" /\ ~a => s >= 1
             /\ detached /\ a => s >= 1
<1>e. \A c \in Blocks : Good(pc[c], stage[c], Attached(c))
  BY DEF PlaceStages
<1>a. ASSUME UNCHANGED <<cpc, current_iter>> PROVE \A c \in Blocks : Attached(c)' <=> Attached(c)
  BY <1>a, SameIter DEF Attached
\* a step of the iteration in block b
<1>p. ASSUME NEW b \in Blocks, NEW p, NEW s \in Int, UNCHANGED <<cpc, current_iter>>,
             pc' = [pc EXCEPT ![b] = p], stage' = [stage EXCEPT ![b] = s],
             Good(p, s, Attached(b)), detached' => detached \/ s >= 1,
             ~Attached(b) => (detached' => detached)
      PROVE  PlaceStages'
  <2>1. \A c \in Blocks : /\ pc'[c] = IF c = b THEN p ELSE pc[c]
                          /\ stage'[c] = IF c = b THEN s ELSE stage[c]
    BY <1>p DEF Types
  <2>2. \A c \in Blocks : Attached(c)' /\ c # b => ~Attached(b)
    BY <1>a, <1>p DEF Attached
  <2> QED
    BY <1>a, <1>e, <1>p, <2>1, <2>2 DEF PlaceStages
<1>q. ASSUME NEW b \in Blocks, NEW p, UNCHANGED <<cpc, current_iter, stage>>,
             pc' = [pc EXCEPT ![b] = p],
             Good(p, stage[b], Attached(b)), detached' => detached
      PROVE  PlaceStages'
  <2>1. stage' = [stage EXCEPT ![b] = stage[b]] /\ stage[b] \in Int
    BY <1>q, <1>s DEF Types
  <2> HIDE DEF Good
  <2> QED
    BY <1>p, <1>q, <2>1
\* the iteration on top of the control frame leaves it
<1>i. ASSUME NEW p, cpc = "body", cpc' = "throttle", UNCHANGED <<current_iter, stage>>, ~detached' \/ p = "idle",
             pc' = [pc EXCEPT ![Current] = p], Good(p, stage[Current], FALSE)
      PROVE  PlaceStages'
  <2>1. \A c \in Blocks : pc'[c] = IF c = Current THEN p ELSE pc[c]
    BY <1>i DEF Types
  <2>2. \A c \in Blocks : ~Attached(c)' /\ (c # Current => ~Attached(c))
    BY <1>i DEF Attached
  <2> QED
    BY <1>0, <1>e, <1>i, <2>1, <2>2 DEF PlaceStages
<1>u. ASSUME UNCHANGED <<pc, stage, detached>>, \A c \in Blocks : Attached(c)' <=> Attached(c) PROVE PlaceStages'
  BY <1>u DEF PlaceStages
<1>1. ASSUME NEW w \in Workers, ControlStep(w) PROVE PlaceStages'
  <2>1. CASE InitIterFrame(w)
    <3>1. /\ UNCHANGED current_iter /\ cpc = "loop" /\ cpc' = "body" /\ detached' = FALSE
          /\ pc' = [pc EXCEPT ![Current] = "test"] /\ stage' = [stage EXCEPT ![Current] = 0]
      BY <2>1 DEF InitIterFrame, RunsControl, Goto
    <3>2. \A c \in Blocks : /\ pc'[c] = IF c = Current THEN "test" ELSE pc[c]
                            /\ stage'[c] = IF c = Current THEN 0 ELSE stage[c]
                            /\ ~Attached(c) /\ (Attached(c)' <=> c = Current)
      BY <3>1, SameIter DEF Types, Attached
    <3> QED
      BY <1>e, <3>1, <3>2 DEF PlaceStages
  <2>2. CASE ~InitIterFrame(w)
    <3>1. UNCHANGED <<pc, stage, detached>> /\ cpc # "body" /\ cpc' # "body"
      BY <1>1, <2>2 DEF ControlStep, EndLoop, SyncControl, CleanUp, ThrottleSlow, ThrottleFast,
         SuspendControl, SetupNext, RunsControl, ring, code
    <3> QED
      BY <1>u, <3>1 DEF Attached
  <2> QED
    BY <2>1, <2>2
<1>2. ASSUME NEW w \in Workers, ResumeFrame(w) PROVE PlaceStages'
  <2>1. /\ UNCHANGED <<cpc, current_iter, stage, detached>>
        /\ pc' = [b \in Blocks |-> IF b = next_frame_ff[w] THEN "stall" ELSE pc[b]]
    BY <1>2 DEF ResumeFrame, ring, control
  <2>2. CASE next_frame_ff[w] \in Blocks
    <3>1. /\ pc' = [pc EXCEPT ![next_frame_ff[w]] = "stall"] /\ pc[next_frame_ff[w]] = "asleep"
      BY <2>1, <2>2 DEF Types, Holdings
    <3> QED
      BY <1>e, <1>q, <2>1, <2>2, <3>1
  <2>3. CASE next_frame_ff[w] \notin Blocks
    <3>1. UNCHANGED pc
      BY <2>1, <2>3 DEF Types
    <3> QED
      BY <1>a, <1>u, <2>1, <3>1
  <2> QED
    BY <2>2, <2>3
<1>3. ASSUME NEW w \in Workers, NEW b \in Blocks, UserStep(w, b) PROVE PlaceStages'
  <2>1. ASSUME NEW t \in BOOLEAN, TestCondition(w, b, t) PROVE PlaceStages'
    <3>1. /\ Executes(w, b) /\ pc[b] = "test" /\ UNCHANGED <<cpc, current_iter, stage, detached>>
          /\ \E p \in {"user", "last"} : pc' = [pc EXCEPT ![b] = p]
      BY <2>1 DEF TestCondition, Goto, ring
    <3>2. Attached(b) /\ b = Current /\ stage[b] = 0
      BY <1>e, <3>1, EndsAttached
    <3>3. ~detached
      BY <3>1, <3>2 DEF Places, AlivePCs
    <3>4. \A p \in {"user", "last"} : Good(p, stage[b], Attached(b))
      BY <1>s, <3>2, <3>3
    <3> HIDE DEF Good
    <3> QED
      BY <1>q, <3>1, <3>4
  <2>2. ASSUME NEW s \in 1 .. MaxStage, Stage(w, b, s) PROVE PlaceStages'
    <3>1. /\ pc[b] = "user" /\ stage' = [stage EXCEPT ![b] = s] /\ UNCHANGED <<cpc, current_iter, pc>>
      BY <2>2 DEF Stage, UserStages, Advance, control
    <3>2. pc' = [pc EXCEPT ![b] = "user"]
      BY <3>1 DEF Types
    <3>3. detached' = (detached \/ stage[b] = 0)
      BY <2>2 DEF Stage, Advance
    <3>4. detached' => detached \/ stage[b] = 0
      BY <3>3, Zenon
    <3>5. ~Attached(b) => stage[b] >= 1
      BY <1>e, <3>1
    <3>6. ~Attached(b) => (detached' => detached)
      BY <1>s, <3>4, <3>5
    <3>7. Good("user", s, Attached(b)) /\ s \in Int /\ s >= 1
      BY <1>s
    <3> HIDE DEF Good
    <3> QED
      BY <1>p, <3>1, <3>2, <3>6, <3>7
  <2>3. ASSUME NEW s \in 1 .. FinalStage, StageWait(w, b, s) PROVE PlaceStages'
    <3>1. /\ pc[b] # "idle" /\ stage' = [stage EXCEPT ![b] = s] /\ UNCHANGED <<cpc, current_iter>>
          /\ pc' = [pc EXCEPT ![b] = "wait"]
      BY <2>3 DEF StageWait, Goto, Advance, control
    <3>2. detached' = (detached \/ stage[b] = 0)
      BY <2>3 DEF StageWait, Advance
    <3>3. detached' => detached \/ stage[b] = 0
      BY <3>2, Zenon
    <3>4. ~Attached(b) => stage[b] >= 1
      BY <1>e, <3>1
    <3>5. ~Attached(b) => (detached' => detached)
      BY <1>s, <3>3, <3>4
    <3>6. Good("wait", s, Attached(b)) /\ s \in Int /\ s >= 1
      BY <1>s
    <3> HIDE DEF Good
    <3> QED
      BY <1>p, <3>1, <3>5, <3>6
  <2> QED
    BY <1>3, <2>1, <2>2, <2>3 DEF UserStep
<1>4. ASSUME NEW w \in Workers, NEW b \in Blocks, WaitStep(w, b) PROVE PlaceStages'
  <2>1. CASE CachedEnough(w, b) \/ ReadLeft(w, b)
    <3>1. /\ pc[b] = "wait" /\ UNCHANGED <<cpc, current_iter, stage, detached>>
          /\ \/ pc' = [pc EXCEPT ![b] = "stall"]
             \/ pc' = [pc EXCEPT ![b] = "final"] /\ stage[b] = FinalStage
             \/ pc' = [pc EXCEPT ![b] = "user"] /\ stage[b] # FinalStage
      BY <2>1 DEF CachedEnough, ReadLeft, AfterWait, Goto, ring, control
    <3>2. /\ Good("stall", stage[b], Attached(b))
          /\ stage[b] = FinalStage => Good("final", stage[b], Attached(b))
          /\ stage[b] # FinalStage => Good("user", stage[b], Attached(b))
      BY <1>e, <1>s, <3>1
    <3> HIDE DEF Good
    <3> QED
      BY <1>q, <3>1, <3>2
  <2>2. CASE Stall(w, b) \/ AlreadyPromoted(w, b) \/ Suspend(w, b) \/ SuspendFails(w, b) \/ SuspendNext(w, b)
    <3>1. /\ pc[b] \in {"stall", "promote", "suspend", "suspending"}
          /\ UNCHANGED <<cpc, current_iter, stage, detached>>
          /\ \E p \in {"wait", "promote", "suspend", "suspending", "asleep"} : pc' = [pc EXCEPT ![b] = p]
      BY <2>2 DEF Stall, AlreadyPromoted, Suspend, SuspendFails, SuspendNext, Goto, ring, control
    <3>2. PICK p \in {"wait", "promote", "suspend", "suspending", "asleep"} : pc' = [pc EXCEPT ![b] = p]
      BY <3>1
    <3>3. Good(p, stage[b], Attached(b))
      BY <1>e, <3>1, <3>2
    <3> HIDE DEF Good
    <3> QED
      BY <1>q, <3>1, <3>2, <3>3
  <2>3. CASE Promote(w, b)
    <3>1. /\ cpc = "body" /\ cpc' = "throttle" /\ b = Current /\ UNCHANGED <<current_iter, stage>>
          /\ detached' = FALSE /\ pc[b] = "promote" /\ pc' = [pc EXCEPT ![b] = "suspend"]
      BY <2>3, PromotesAttached DEF Promote, InstallIteration, Goto
    <3>2. Good("suspend", stage[b], FALSE)
      BY <1>e, <3>1
    <3> HIDE DEF Good
    <3> QED
      BY <1>i, <3>1, <3>2
  <2> QED
    BY <1>4, <2>1, <2>2, <2>3 DEF WaitStep
<1>5. ASSUME NEW w \in Workers, NEW b \in Blocks, LeaveStep(w, b) PROVE PlaceStages'
  <2>1. CASE FinishFinalStage(w, b) \/ AttachedDone(w, b) \/ StageDone(w, b)
    <3>1. UNCHANGED <<cpc, current_iter, detached>>
      BY <2>1 DEF FinishFinalStage, AttachedDone, StageDone, control
    <3>2. \/ /\ pc[b] = "final" /\ pc' = [pc EXCEPT ![b] = "leave"] /\ stage' = [stage EXCEPT ![b] = PostStage]
          \/ /\ pc[b] = "attached_done" /\ pc' = [pc EXCEPT ![b] = "attached_left"]
             /\ stage' = [stage EXCEPT ![b] = FinishStage]
          \/ /\ pc[b] = "stage_done" /\ pc' = [pc EXCEPT ![b] = "check_right"]
             /\ stage' = [stage EXCEPT ![b] = FinishStage]
      BY <2>1 DEF FinishFinalStage, AttachedDone, StageDone, Goto
    <3>3. /\ PostStage \in Int /\ Good("leave", PostStage, Attached(b))
          /\ FinishStage \in Int /\ Good("attached_left", FinishStage, Attached(b))
          /\ Good("check_right", FinishStage, Attached(b))
      BY <1>s
    <3> HIDE DEF Good
    <3> QED
      BY <1>p, <3>1, <3>2, <3>3
  <2>2. CASE LeaveFrame(w, b) \/ ReturnLast(w, b) \/ ReturnOther(w, b) \/ FreeLeft(w, b) \/ CheckRight(w, b)
             \/ FreeOwn(w, b) \/ AttachedFreeLeft(w, b)
    <3>0. ASSUME LeaveFrame(w, b) PROVE detached' => detached
      <4>1. detached' = (detached /\ frame_ff[w] # Control)
        BY <3>0 DEF LeaveFrame
      <4> QED
        BY <4>1, Zenon
    <3>1. UNCHANGED <<cpc, current_iter, stage>> /\ (detached' => detached)
      BY <2>2, <3>0 DEF LeaveFrame, ReturnLast, ReturnOther, FreeLeft, CheckRight, FreeOwn, AttachedFreeLeft,
         ring, control
    <3>2. \/ pc[b] = "leave" /\ \E p \in {"attached_done", "return"} : pc' = [pc EXCEPT ![b] = p]
          \/ pc[b] = "return" /\ \E p \in {"idle", "free_left"} : pc' = [pc EXCEPT ![b] = p]
          \/ pc[b] = "free_left" /\ pc' = [pc EXCEPT ![b] = "stage_done"]
          \/ pc[b] = "check_right" /\ pc' = [pc EXCEPT ![b] = "free_own"]
          \/ pc[b] = "free_own" /\ pc' = [pc EXCEPT ![b] = "idle"]
          \/ pc[b] = "attached_left" /\ pc' = [pc EXCEPT ![b] = "attached_own"]
      BY <2>2 DEF LeaveFrame, ReturnLast, ReturnOther, FreeLeft, CheckRight, FreeOwn, AttachedFreeLeft, Goto
    <3>3. PICK p : pc' = [pc EXCEPT ![b] = p] /\ Good(p, stage[b], Attached(b))
      BY <1>e, <3>2
    <3> HIDE DEF Good
    <3> QED
      BY <1>q, <3>1, <3>3
  <2>3. CASE AttachedFreeOwn(w, b)
    <3>1. /\ cpc = "body" /\ cpc' = "throttle" /\ b = Current /\ UNCHANGED <<current_iter, stage>>
          /\ pc' = [pc EXCEPT ![b] = "idle"]
      BY <2>3, EndsAttached DEF AttachedFreeOwn, Goto
    <3>2. Good("idle", stage[b], FALSE)
      OBVIOUS
    <3> HIDE DEF Good
    <3> QED
      BY <1>i, <3>1, <3>2
  <2> QED
    BY <1>5, <2>1, <2>2, <2>3 DEF LeaveStep
<1>6. ASSUME NEW v \in Workers, NEW w \in Workers, StealControl(v, w) PROVE PlaceStages'
  <2>1. /\ cpc = "body" /\ cpc' = "throttle" /\ UNCHANGED <<current_iter, stage, pc>> /\ detached /\ detached' = FALSE
    BY <1>6 DEF StealControl, InstallIteration, Stealable, RunsControl
  <2>2. Attached(Current) /\ pc' = [pc EXCEPT ![Current] = pc[Current]]
    BY <2>1 DEF Attached, Types
  <2>3. Good(pc[Current], stage[Current], FALSE)
    BY <1>0, <1>e, <2>1, <2>2
  <2> HIDE DEF Good
  <2> QED
    BY <1>i, <2>1, <2>2, <2>3
<1>7. ASSUME NEW v \in Workers, NEW w \in Workers, StealImplicitly(v, w) PROVE PlaceStages'
  BY <1>7, <1>a, <1>u DEF StealImplicitly, control, code
<1>8. CASE UNCHANGED vars
  BY <1>8, <1>a, <1>u DEF vars, ring, control, code
<1> QED
  BY <1>1, <1>2, <1>3, <1>4, <1>5, <1>6, <1>7, <1>8 DEF Next, Step, Steals, Over

----------------------------------------------------------------------------
\* A block out of use holds a finished iteration at the start.
LEMMA IdleStagesInit == Init => IdleStages
<1> SUFFICES ASSUME Init, NEW b \in Blocks, Started(b), Reserved(b) >= 0 PROVE stage[b] = FinishStage
  BY DEF IdleStages
<1>1. /\ current_iter = 1 /\ iter_num[b] = (IF b = 0 THEN 0 ELSE -1)
      /\ stage[b] = (IF b = 0 THEN FinishStage ELSE 0)
  BY DEF Init
<1> QED
  BY <1>1 DEF Started

\* A block out of use holds a finished iteration, after every step.
LEMMA IdleStagesStep ==
  ASSUME Types, Numbers, Places, Counters, IterStatuses, Holdings, ControlPlace, Joins, PlaceStages,
         IdleStages, [Next]_vars
  PROVE  IdleStages'
<1>0. Current \in Blocks /\ NextBlock \in Blocks /\ Current # NextBlock
  BY CurrentBlocks DEF Types
<1> DEFINE IdleStage(c) == pc[c] = "idle" /\ Started(c) /\ Reserved(c) >= 0 => stage[c] = FinishStage
\* the blocks keep what they hold
<1>k. ASSUME UNCHANGED current_iter, cpc \in Ended => cpc' \in Ended,
             AllIdle => \A c \in Blocks : pc'[c] = "idle",
             \A c \in Blocks : pc'[c] = "idle" =>
               \/ pc[c] = "idle" /\ iter_num'[c] = iter_num[c] /\ stage'[c] = stage[c]
               \/ stage'[c] = FinishStage
      PROVE  IdleStages'
  <2>1. CASE cpc \in Ended /\ AllIdle
    BY <1>k, <2>1 DEF IdleStages, AllIdle
  <2>2. CASE \A c \in Blocks : IdleStage(c)
    <3>1. \A c \in Blocks : Reserved(c)' = Reserved(c)
      BY <1>k, SameIter
    <3>2. ASSUME NEW c \in Blocks PROVE IdleStage(c)'
      BY <1>k, <2>2, <3>1 DEF Started
    <3> QED
      BY <3>2 DEF IdleStages
  <2> QED
    BY <2>1, <2>2 DEF IdleStages
\* a step of the iteration in block b
<1>p. ASSUME NEW b \in Blocks, NEW p, pc[b] # "idle", pc' = [pc EXCEPT ![b] = p],
             UNCHANGED <<current_iter, iter_num>>, cpc \in Ended => cpc' \in Ended,
             \A c \in Blocks : c # b => stage'[c] = stage[c],
             p = "idle" => stage'[b] = FinishStage
      PROVE  IdleStages'
  <2>1. \A c \in Blocks : pc'[c] = IF c = b THEN p ELSE pc[c]
    BY <1>p DEF Types
  <2> QED
    BY <1>k, <1>p, <2>1 DEF AllIdle
<1>u. ASSUME UNCHANGED <<pc, stage, iter_num, current_iter>>, cpc \in Ended => cpc' \in Ended PROVE IdleStages'
  BY <1>k, <1>u DEF AllIdle
<1> HIDE DEF IdleStage
<1>1. ASSUME NEW w \in Workers, ControlStep(w) PROVE IdleStages'
  <2>1. CASE InitIterFrame(w)
    <3>1. /\ UNCHANGED current_iter /\ cpc = "loop"
          /\ \A c \in Blocks : /\ pc'[c] = IF c = Current THEN "test" ELSE pc[c]
                               /\ c # Current => stage'[c] = stage[c] /\ iter_num'[c] = iter_num[c]
      BY <2>1 DEF InitIterFrame, RunsControl, Goto, Types
    <3>2. \A c \in Blocks : Reserved(c)' = Reserved(c)
      BY <3>1, SameIter
    <3> QED
      BY <3>1, <3>2 DEF IdleStages, Started, Ended
  <2>2. CASE SetupNext(w)
    <3>1. /\ UNCHANGED <<pc, stage, iter_num>> /\ cpc = "setup" /\ current_iter' = current_iter + 1
      BY <2>2 DEF SetupNext, RunsControl, code
    <3>2. \A c \in Blocks : Reserved(c)' = IF c = NextBlock THEN current_iter + 1 ELSE Reserved(c)
      BY <3>1, NextIter DEF Types
    <3>3. iter_num[NextBlock] # current_iter + 1
      <4>1. Reserved(NextBlock) <= current_iter /\ Reserved(NextBlock) \in Int /\ current_iter >= 1
        BY <1>0, ReservedBlocks DEF Types
      <4> QED
        BY <1>0, <4>1 DEF Numbers, Types
    <3> QED
      BY <3>1, <3>2, <3>3 DEF IdleStages, Started, Ended
  <2>3. CASE EndLoop(w) \/ ThrottleFast(w) \/ ThrottleSlow(w) \/ SuspendControl(w) \/ SyncControl(w) \/ CleanUp(w)
    <3>1. UNCHANGED <<pc, stage, iter_num, current_iter>> /\ (cpc \in Ended => cpc' \in Ended)
      BY <2>3 DEF EndLoop, ThrottleFast, ThrottleSlow, SuspendControl, SyncControl, CleanUp, RunsControl,
         ring, code, Ended
    <3> QED
      BY <1>u, <3>1
  <2> QED
    BY <1>1, <2>1, <2>2, <2>3 DEF ControlStep
<1>2. ASSUME NEW w \in Workers, ResumeFrame(w) PROVE IdleStages'
  <2>1. /\ UNCHANGED <<cpc, current_iter, stage, iter_num>>
        /\ \A c \in Blocks : pc'[c] = IF c = next_frame_ff[w] THEN "stall" ELSE pc[c]
    BY <1>2 DEF ResumeFrame, ring, control
  <2>2. \A c \in Blocks : c = next_frame_ff[w] => pc[c] # "idle"
    BY DEF Holdings
  <2> QED
    BY <1>k, <2>1, <2>2 DEF AllIdle
<1>3. ASSUME NEW w \in Workers, NEW b \in Blocks, UserStep(w, b) PROVE IdleStages'
  <2>1. /\ UNCHANGED <<cpc, current_iter, iter_num>> /\ pc[b] # "idle"
        /\ \A c \in Blocks : c # b => stage'[c] = stage[c]
        /\ \E p \in {"user", "last", "wait"} : pc' = [pc EXCEPT ![b] = p]
    <3>1. CASE \E s \in 1 .. MaxStage : Stage(w, b, s)
      BY <3>1 DEF Stage, Advance, UserStages, Types, control
    <3>2. CASE ~\E s \in 1 .. MaxStage : Stage(w, b, s)
      BY <1>3, <3>2 DEF UserStep, TestCondition, StageWait, Advance, Goto, ring, control, Types
    <3> QED
      BY <3>1, <3>2
  <2> QED
    BY <1>p, <2>1
<1>4. ASSUME NEW w \in Workers, NEW b \in Blocks, WaitStep(w, b) PROVE IdleStages'
  <2>1. /\ pc[b] # "idle" /\ UNCHANGED <<current_iter, stage, iter_num>> /\ (cpc \in Ended => cpc' \in Ended)
        /\ \E p \in {"user", "final", "wait", "stall", "promote", "suspend", "suspending", "asleep"} :
             pc' = [pc EXCEPT ![b] = p]
    <3>1. CASE Promote(w, b)
      BY <3>1, PromotesAttached DEF Promote, InstallIteration, Goto, Ended
    <3>2. CASE ~Promote(w, b)
      BY <1>4, <3>2 DEF WaitStep, CachedEnough, AfterWait, ReadLeft, Stall, AlreadyPromoted, Suspend,
         SuspendFails, SuspendNext, Goto, ring, control
    <3> QED
      BY <3>1, <3>2
  <2> QED
    BY <1>p, <2>1
<1>5. ASSUME NEW w \in Workers, NEW b \in Blocks, LeaveStep(w, b) PROVE IdleStages'
  <2>1. CASE ReturnLast(w, b)
    <3>1. /\ UNCHANGED cpc /\ cpc = "cleanup" /\ pc' = [pc EXCEPT ![b] = "idle"]
          /\ \A c \in Blocks \ {b} : pc[c] = "idle"
      BY <2>1, LastReturn DEF ReturnLast, Goto
    <3>2. \A c \in Blocks : pc'[c] = "idle"
      BY <3>1 DEF Types
    <3> QED
      BY <3>1, <3>2 DEF IdleStages, AllIdle, Ended
  <2>2. CASE AttachedFreeOwn(w, b) \/ FreeOwn(w, b)
    <3>1. /\ pc[b] \in {"attached_own", "free_own"} /\ pc' = [pc EXCEPT ![b] = "idle"]
          /\ UNCHANGED <<current_iter, stage, iter_num>>
      BY <2>2 DEF AttachedFreeOwn, FreeOwn, Goto, control
    <3>2. cpc \in Ended => cpc' \in Ended
      BY <2>2, EndsAttached DEF AttachedFreeOwn, FreeOwn, Ended, control
    <3>3. stage[b] = FinishStage
      BY <3>1 DEF PlaceStages
    <3> QED
      BY <1>p, <3>1, <3>2, <3>3
  <2>3. CASE FinishFinalStage(w, b) \/ LeaveFrame(w, b) \/ AttachedDone(w, b) \/ AttachedFreeLeft(w, b)
             \/ ReturnOther(w, b) \/ FreeLeft(w, b) \/ StageDone(w, b) \/ CheckRight(w, b)
    <3>1. /\ pc[b] # "idle" /\ UNCHANGED <<cpc, current_iter, iter_num>>
          /\ \A c \in Blocks : c # b => stage'[c] = stage[c]
          /\ \E p \in {"leave", "attached_done", "return", "attached_left", "attached_own", "free_left",
                       "stage_done", "check_right", "free_own"} : pc' = [pc EXCEPT ![b] = p]
      BY <2>3 DEF FinishFinalStage, LeaveFrame, AttachedDone, AttachedFreeLeft, ReturnOther, FreeLeft,
         StageDone, CheckRight, Goto, ring, control, Types
    <3> QED
      BY <1>p, <3>1
  <2> QED
    BY <1>5, <2>1, <2>2, <2>3 DEF LeaveStep
<1>6. ASSUME NEW v \in Workers, NEW w \in Workers, StealControl(v, w) PROVE IdleStages'
  BY <1>6, <1>u DEF StealControl, InstallIteration, Stealable, RunsControl, Ended
<1>7. ASSUME NEW v \in Workers, NEW w \in Workers, StealImplicitly(v, w) PROVE IdleStages'
  BY <1>7, <1>u DEF StealImplicitly, control, code
<1>8. CASE UNCHANGED vars
  BY <1>8, <1>u DEF vars, ring, control, code
<1> QED
  BY <1>1, <1>2, <1>3, <1>4, <1>5, <1>6, <1>7, <1>8 DEF Next, Step, Steals, Over

----------------------------------------------------------------------------
Behind == {"final", "leave", "return", "free_left", "attached_done", "attached_left"}

\* What a step does to the stages: they grow until the block is reused, an
\* iteration needs its left neighbour until it has counted itself out, and it
\* passes its last wait only behind its neighbour.
Progress(c) ==
  /\ stage'[c] >= stage[c] \/ (c = Current /\ cpc = "loop")
  /\ ~DoneWithLeft(c)' => ~DoneWithLeft(c) \/ (cached_left_stage'[c] = 0 /\ pc'[c] = "test")
  /\ cached_left_stage'[c] \in {cached_left_stage[c], stage[Left(c)], 0}
  /\ pc'[c] \in Behind =>
       \/ pc[c] \in Behind
       \/ /\ pc[c] = "wait" /\ stage[c] = FinalStage
          /\ cached_left_stage[c] > FinalStage \/ stage[Left(c)] > FinalStage

\* Every step keeps to it.
LEMMA ProgressMade ==
  ASSUME Types, Numbers, Places, IterStatuses, Holdings, PlaceStages, [Next]_vars
  PROVE  \A c \in Blocks : Progress(c)
<1>0. Current \in Blocks /\ NextBlock \in Blocks /\ Current # NextBlock
  BY CurrentBlocks DEF Types
<1>s. /\ MaxStage \in Nat /\ FinalStage = MaxStage + 1 /\ PostStage = MaxStage + 2 /\ FinishStage = MaxStage + 3
      /\ \A b \in Blocks : stage[b] \in 0 .. FinishStage
  BY StageOrder DEF Types
<1>k. ASSUME NEW c \in Blocks, stage'[c] = stage[c], cached_left_stage'[c] = cached_left_stage[c], pc'[c] = pc[c]
      PROVE  Progress(c)
  BY <1>k, <1>s DEF Progress, DoneWithLeft
<1>o. ASSUME NEW b \in Blocks, NEW p, pc' = [pc EXCEPT ![b] = p],
             \A c \in Blocks : c # b => stage'[c] = stage[c] /\ cached_left_stage'[c] = cached_left_stage[c],
             Progress(b)
      PROVE  \A c \in Blocks : Progress(c)
  <2>1. ASSUME NEW c \in Blocks, c # b PROVE Progress(c)
    BY <1>k, <1>o, <2>1 DEF Types
  <2> QED
    BY <1>o, <2>1
\* a step of the iteration in block b
<1>p. ASSUME NEW b \in Blocks, NEW p, pc' = [pc EXCEPT ![b] = p], UNCHANGED cached_left_stage,
             NEW s \in Int, stage' = [stage EXCEPT ![b] = s], s >= stage[b],
             DoneWithLeft(b) => p \in {"idle", "stage_done", "check_right", "free_own", "attached_own"},
             p \in Behind => pc[b] \in Behind
      PROVE  \A c \in Blocks : Progress(c)
  <2>1. \A c \in Blocks : c # b => stage'[c] = stage[c] /\ cached_left_stage'[c] = cached_left_stage[c]
    BY <1>p DEF Types
  <2>2. Progress(b)
    BY <1>p DEF Progress, DoneWithLeft, Types
  <2> QED
    BY <1>o, <1>p, <2>1, <2>2
<1>q. ASSUME NEW b \in Blocks, NEW p, pc' = [pc EXCEPT ![b] = p], UNCHANGED <<cached_left_stage, stage>>,
             DoneWithLeft(b) => p \in {"idle", "stage_done", "check_right", "free_own", "attached_own"},
             p \in Behind => pc[b] \in Behind
      PROVE  \A c \in Blocks : Progress(c)
  <2>1. stage' = [stage EXCEPT ![b] = stage[b]] /\ stage[b] \in Int /\ stage[b] >= stage[b]
    BY <1>q, <1>s DEF Types
  <2> QED
    BY <1>p, <1>q, <2>1
<1>u. ASSUME UNCHANGED <<pc, stage, cached_left_stage>> PROVE \A c \in Blocks : Progress(c)
  BY <1>k, <1>u
<1>1. ASSUME NEW w \in Workers, ControlStep(w) PROVE \A c \in Blocks : Progress(c)
  <2>1. CASE InitIterFrame(w)
    <3>1. /\ cpc = "loop" /\ pc' = [pc EXCEPT ![Current] = "test"]
          /\ stage' = [stage EXCEPT ![Current] = 0]
          /\ cached_left_stage' = [cached_left_stage EXCEPT ![Current] = 0]
      BY <2>1 DEF InitIterFrame, RunsControl, Goto
    <3>2. \A c \in Blocks : c # Current => stage'[c] = stage[c] /\ cached_left_stage'[c] = cached_left_stage[c]
      BY <3>1 DEF Types
    <3>3. pc'[Current] = "test" /\ cached_left_stage'[Current] = 0
      BY <1>0, <3>1 DEF Types
    <3>4. Progress(Current)
      BY <3>1, <3>3 DEF Progress, Behind
    <3> QED
      BY <1>0, <1>o, <3>1, <3>2, <3>4
  <2>2. CASE ~InitIterFrame(w)
    <3>1. UNCHANGED <<pc, stage, cached_left_stage>>
      BY <1>1, <2>2 DEF ControlStep, EndLoop, SyncControl, CleanUp, ThrottleSlow, ThrottleFast,
         SuspendControl, SetupNext, ring, code
    <3> QED
      BY <1>u, <3>1
  <2> QED
    BY <2>1, <2>2
<1>2. ASSUME NEW w \in Workers, ResumeFrame(w) PROVE \A c \in Blocks : Progress(c)
  <2>1. /\ UNCHANGED <<stage, cached_left_stage>>
        /\ pc' = [b \in Blocks |-> IF b = next_frame_ff[w] THEN "stall" ELSE pc[b]]
    BY <1>2 DEF ResumeFrame, ring
  <2>2. CASE next_frame_ff[w] \in Blocks
    <3>1. pc' = [pc EXCEPT ![next_frame_ff[w]] = "stall"] /\ pc[next_frame_ff[w]] = "asleep"
      BY <2>1, <2>2 DEF Types, Holdings
    <3> QED
      BY <1>q, <2>1, <2>2, <3>1 DEF DoneWithLeft, Behind
  <2>3. CASE next_frame_ff[w] \notin Blocks
    <3>1. UNCHANGED pc
      BY <2>1, <2>3 DEF Types
    <3> QED
      BY <1>u, <2>1, <3>1
  <2> QED
    BY <2>2, <2>3
<1>3. ASSUME NEW w \in Workers, NEW b \in Blocks, UserStep(w, b) PROVE \A c \in Blocks : Progress(c)
  <2>1. ASSUME NEW t \in BOOLEAN, TestCondition(w, b, t) PROVE \A c \in Blocks : Progress(c)
    <3>1. /\ pc[b] = "test" /\ UNCHANGED <<stage, cached_left_stage>>
          /\ \E p \in {"user", "last"} : pc' = [pc EXCEPT ![b] = p]
      BY <2>1 DEF TestCondition, Goto, ring
    <3> QED
      BY <1>q, <3>1 DEF DoneWithLeft, Behind
  <2>2. ASSUME NEW s \in 1 .. MaxStage, Stage(w, b, s) PROVE \A c \in Blocks : Progress(c)
    <3>1. /\ pc[b] = "user" /\ stage' = [stage EXCEPT ![b] = s] /\ UNCHANGED <<pc, cached_left_stage>>
          /\ s > stage[b]
      BY <2>2 DEF Stage, UserStages, Advance
    <3>2. pc' = [pc EXCEPT ![b] = "user"]
      BY <3>1 DEF Types
    <3>3. s \in Int /\ s >= stage[b]
      BY <1>s, <3>1
    <3>4. ~DoneWithLeft(b) /\ "user" \notin Behind
      BY <3>1 DEF DoneWithLeft, Behind
    <3> QED
      BY <1>p, <3>1, <3>2, <3>3, <3>4
  <2>3. ASSUME NEW s \in 1 .. FinalStage, StageWait(w, b, s) PROVE \A c \in Blocks : Progress(c)
    <3>1. /\ pc[b] \in {"user", "last"} /\ stage' = [stage EXCEPT ![b] = s] /\ UNCHANGED cached_left_stage
          /\ pc' = [pc EXCEPT ![b] = "wait"] /\ (s > stage[b] \/ s = FinalStage)
      BY <2>3 DEF StageWait, Goto, Advance, UserStages
    <3>2. s \in Int /\ s >= stage[b]
      BY <1>s, <3>1 DEF PlaceStages
    <3>3. ~DoneWithLeft(b) /\ "wait" \notin Behind
      BY <3>1 DEF DoneWithLeft, Behind
    <3> QED
      BY <1>p, <3>1, <3>2, <3>3
  <2> QED
    BY <1>3, <2>1, <2>2, <2>3 DEF UserStep
<1>4. ASSUME NEW w \in Workers, NEW b \in Blocks, WaitStep(w, b) PROVE \A c \in Blocks : Progress(c)
  <2>1. CASE CachedEnough(w, b)
    <3>1. /\ pc[b] = "wait" /\ UNCHANGED <<stage, cached_left_stage>> /\ cached_left_stage[b] > stage[b]
          /\ \/ pc' = [pc EXCEPT ![b] = "final"] /\ stage[b] = FinalStage
             \/ pc' = [pc EXCEPT ![b] = "user"]
      BY <2>1 DEF CachedEnough, AfterWait, Goto, ring
    <3>2. pc'[b] = "user" \/ stage[b] = FinalStage
      BY <3>1 DEF Types
    <3>3. Progress(b)
      BY <1>s, <3>1, <3>2 DEF Progress, DoneWithLeft, Behind
    <3> QED
      BY <1>o, <3>1, <3>3
  <2>2. CASE ReadLeft(w, b)
    <3>1. /\ pc[b] = "wait" /\ UNCHANGED stage
          /\ cached_left_stage' = [cached_left_stage EXCEPT ![b] = stage[Left(b)]]
          /\ \/ pc' = [pc EXCEPT ![b] = "final"] /\ stage[b] = FinalStage /\ stage[Left(b)] > stage[b]
             \/ pc' = [pc EXCEPT ![b] = "user"]
             \/ pc' = [pc EXCEPT ![b] = "stall"]
      BY <2>2 DEF ReadLeft, AfterWait, Goto
    <3>2. /\ pc'[b] \in {"user", "stall"} \/ (stage[b] = FinalStage /\ stage[Left(b)] > stage[b])
          /\ cached_left_stage'[b] = stage[Left(b)]
          /\ \A c \in Blocks : c # b => cached_left_stage'[c] = cached_left_stage[c]
      BY <3>1 DEF Types
    <3>3. Progress(b)
      BY <1>s, <3>1, <3>2 DEF Progress, DoneWithLeft, Behind
    <3> QED
      BY <1>o, <3>1, <3>2, <3>3
  <2>3. CASE Stall(w, b) \/ Promote(w, b) \/ AlreadyPromoted(w, b) \/ Suspend(w, b) \/ SuspendFails(w, b)
             \/ SuspendNext(w, b)
    <3>1. /\ pc[b] \in {"stall", "promote", "suspend", "suspending"}
          /\ UNCHANGED <<stage, cached_left_stage>>
          /\ \E p \in {"wait", "promote", "suspend", "suspending", "asleep"} : pc' = [pc EXCEPT ![b] = p]
      BY <2>3 DEF Stall, Promote, InstallIteration, AlreadyPromoted, Suspend, SuspendFails, SuspendNext, Goto, ring
    <3> QED
      BY <1>q, <3>1 DEF DoneWithLeft, Behind
  <2> QED
    BY <1>4, <2>1, <2>2, <2>3 DEF WaitStep
<1>5. ASSUME NEW w \in Workers, NEW b \in Blocks, LeaveStep(w, b) PROVE \A c \in Blocks : Progress(c)
  <2>1. CASE FinishFinalStage(w, b) \/ AttachedDone(w, b) \/ StageDone(w, b)
    <3>1. UNCHANGED cached_left_stage
      BY <2>1 DEF FinishFinalStage, AttachedDone, StageDone
    <3>2. \/ /\ pc[b] = "final" /\ pc' = [pc EXCEPT ![b] = "leave"] /\ stage' = [stage EXCEPT ![b] = PostStage]
          \/ /\ pc[b] = "attached_done" /\ pc' = [pc EXCEPT ![b] = "attached_left"]
             /\ stage' = [stage EXCEPT ![b] = FinishStage]
          \/ /\ pc[b] = "stage_done" /\ pc' = [pc EXCEPT ![b] = "check_right"]
             /\ stage' = [stage EXCEPT ![b] = FinishStage]
      BY <2>1 DEF FinishFinalStage, AttachedDone, StageDone, Goto
    <3>3. pc[b] = "final" => PostStage >= stage[b]
      BY <1>s DEF PlaceStages
    <3> QED
      BY <1>p, <1>s, <3>1, <3>2, <3>3 DEF DoneWithLeft, Behind
  <2>2. CASE LeaveFrame(w, b) \/ ReturnLast(w, b) \/ ReturnOther(w, b) \/ FreeLeft(w, b) \/ CheckRight(w, b)
             \/ FreeOwn(w, b) \/ AttachedFreeLeft(w, b) \/ AttachedFreeOwn(w, b)
    <3>1. UNCHANGED <<stage, cached_left_stage>>
      BY <2>2 DEF LeaveFrame, ReturnLast, ReturnOther, FreeLeft, CheckRight, FreeOwn, AttachedFreeLeft,
         AttachedFreeOwn, ring
    <3>2. \/ pc[b] = "leave" /\ \E p \in {"attached_done", "return"} : pc' = [pc EXCEPT ![b] = p]
          \/ pc[b] = "return" /\ \E p \in {"idle", "free_left"} : pc' = [pc EXCEPT ![b] = p]
          \/ pc[b] = "free_left" /\ pc' = [pc EXCEPT ![b] = "stage_done"]
          \/ pc[b] = "check_right" /\ pc' = [pc EXCEPT ![b] = "free_own"]
          \/ pc[b] = "free_own" /\ pc' = [pc EXCEPT ![b] = "idle"]
          \/ pc[b] = "attached_left" /\ pc' = [pc EXCEPT ![b] = "attached_own"]
          \/ pc[b] = "attached_own" /\ pc' = [pc EXCEPT ![b] = "idle"]
      BY <2>2 DEF LeaveFrame, ReturnLast, ReturnOther, FreeLeft, CheckRight, FreeOwn, AttachedFreeLeft,
         AttachedFreeOwn, Goto
    <3> QED
      BY <1>q, <3>1, <3>2 DEF DoneWithLeft, Behind
  <2> QED
    BY <1>5, <2>1, <2>2 DEF LeaveStep
<1>6. ASSUME NEW v \in Workers, NEW w \in Workers, StealControl(v, w) PROVE \A c \in Blocks : Progress(c)
  BY <1>6, <1>u DEF StealControl, InstallIteration
<1>7. ASSUME NEW v \in Workers, NEW w \in Workers, StealImplicitly(v, w) PROVE \A c \in Blocks : Progress(c)
  BY <1>7, <1>u DEF StealImplicitly, code
<1>8. CASE UNCHANGED vars
  BY <1>8, <1>u DEF vars, ring, code
<1> QED
  BY <1>1, <1>2, <1>3, <1>4, <1>5, <1>6, <1>7, <1>8 DEF Next, Step, Steals, Over

----------------------------------------------------------------------------
\* The last wait is passed behind the left neighbour at the start.
LEMMA BehindLeftInit == Init => BehindLeft
BY DEF Init, BehindLeft

\* The last wait is passed behind the left neighbour, after every step.
LEMMA BehindLeftStep ==
  ASSUME Types, Types', Numbers, Places, IterStatuses, Holdings, PlaceStages, CachedStageIsOld, BehindLeft,
         [Next]_vars
  PROVE  BehindLeft'
<1> SUFFICES ASSUME NEW b \in Blocks, pc'[b] \in Behind PROVE stage'[Left(b)] >= PostStage
  BY DEF BehindLeft, Behind
<1>1. Progress(b) /\ ~DoneWithLeft(b)'
  BY ProgressMade DEF DoneWithLeft, Behind
<1>2. pc[b] \in Behind \cup {"wait"}
  BY <1>1 DEF Progress
<1>3. ~DoneWithLeft(b)
  BY <1>2 DEF DoneWithLeft, Behind
<1>4. Left(b) \in Blocks /\ Left(b) # Current
  BY <1>3, LeftInUse
<1>5. stage'[Left(b)] >= stage[Left(b)] /\ stage[Left(b)] \in Int /\ stage'[Left(b)] \in Int
  BY <1>4, ProgressMade, StageOrder DEF Progress, Types
<1>6. cached_left_stage[b] <= stage[Left(b)] /\ cached_left_stage[b] \in Int
  BY <1>3, StageOrder DEF CachedStageIsOld, Types
<1>7. stage[Left(b)] >= PostStage
  BY <1>1, <1>5, <1>6, StageOrder DEF Progress, BehindLeft, Behind
<1> QED
  BY <1>5, <1>7, StageOrder

\* The cached stage is old at the start.
LEMMA CachedStageInit == Init => CachedStageIsOld
BY DEF Init, CachedStageIsOld, DoneWithLeft

\* The cached stage is old, after every step.
LEMMA CachedStageStep ==
  ASSUME Types, Types', Numbers, Places, IterStatuses, Holdings, PlaceStages, CachedStageIsOld,
         [Next]_vars
  PROVE  CachedStageIsOld'
<1> SUFFICES ASSUME NEW b \in Blocks, ~DoneWithLeft(b)' PROVE cached_left_stage'[b] <= stage'[Left(b)]
  BY DEF CachedStageIsOld
<1>1. Progress(b) /\ Left(b) \in Blocks
  BY ProgressMade, Neighbours
<1>2. stage'[Left(b)] >= 0
  BY <1>1, StageOrder DEF Types
<1>3. CASE ~DoneWithLeft(b)
  <2>1. Left(b) \in Blocks /\ Left(b) # Current
    BY <1>3, LeftInUse
  <2>2. stage'[Left(b)] >= stage[Left(b)] /\ stage[Left(b)] \in Int /\ stage'[Left(b)] \in Int
    BY <2>1, ProgressMade, StageOrder DEF Progress, Types
  <2>3. cached_left_stage[b] <= stage[Left(b)] /\ cached_left_stage[b] \in Int
    BY <1>3, StageOrder DEF CachedStageIsOld, Types
  <2> QED
    BY <1>1, <1>2, <2>2, <2>3 DEF Progress
<1>4. CASE DoneWithLeft(b)
  BY <1>1, <1>2, <1>4 DEF Progress
<1> QED
  BY <1>3, <1>4

----------------------------------------------------------------------------
\* The iteration in block b needs not wait for its left neighbour any more.
Excused(b) == pc[b] \in {"stage_done", "check_right", "free_own"} \/ stage[Left(b)] = FinishStage

\* A worker that holds the throttled control frame needs no left neighbour at the start.
LEMMA ThrottleFlagInit == Init => ThrottleFlag
BY DEF Init, ThrottleFlag

\* A worker that holds the throttled control frame needs no left neighbour, after every step.
LEMMA ThrottleFlagStep ==
  ASSUME Types, Types', Numbers, Places, IterStatuses, Holdings, Holdings', PlaceStages, ThrottleFlag,
         SuspendTakesOwnControl, [Next]_vars
  PROVE  ThrottleFlag'
<1> DEFINE Flagged(w, b) == parent_resume[w] = "throttle" /\ (frame_ff[w] = b \/ next_frame_ff[w] = b)
<1>0. Control \notin Blocks /\ NoFrame \notin Blocks /\ Control # NoFrame
  BY Names
\* it stays so
<1>s. ASSUME NEW w \in Workers, NEW b \in Blocks, Flagged(w, b)', Flagged(w, b) PROVE Excused(b)'
  <2>1. pc'[b] \in RunningPCs \cup {"asleep"}
    BY <1>s DEF Holdings
  <2>2. CASE pc'[b] \in {"stage_done", "check_right", "free_own"}
    BY <2>2 DEF Excused
  <2>3. CASE pc'[b] \notin {"stage_done", "check_right", "free_own"}
    <3>1. ~DoneWithLeft(b)' /\ pc'[b] # "test" /\ pc'[b] \in RunningPCs \cup {"asleep"}
      BY <2>1, <2>3 DEF DoneWithLeft, RunningPCs, AlivePCs, Finishing
    <3>2. ~DoneWithLeft(b)
      BY <3>1, ProgressMade DEF Progress
    <3>3. Left(b) \in Blocks /\ Left(b) # Current
      BY <3>2, LeftInUse
    <3>4. stage[Left(b)] = FinishStage
      BY <1>s, <3>2 DEF ThrottleFlag, DoneWithLeft
    <3>5. stage'[Left(b)] >= FinishStage /\ stage'[Left(b)] \in 0 .. FinishStage
      BY <3>3, <3>4, ProgressMade DEF Progress, Types
    <3> QED
      BY <3>5, StageOrder DEF Excused
  <2> QED
    BY <2>2, <2>3
<1>t. ASSUME \A w \in Workers, b \in Blocks : Flagged(w, b)' => Excused(b)' PROVE ThrottleFlag'
  BY <1>t DEF ThrottleFlag, Excused
<1>k. ASSUME \A w \in Workers, b \in Blocks : Flagged(w, b)' => Flagged(w, b) \/ Excused(b)' PROVE ThrottleFlag'
  BY <1>k, <1>s, <1>t
<1>u. ASSUME UNCHANGED <<frame_ff, next_frame_ff, parent_resume>> PROVE ThrottleFlag'
  <2>1. \A w \in Workers, b \in Blocks : Flagged(w, b)' => Flagged(w, b)
    BY <1>u
  <2> HIDE DEF Flagged
  <2> QED
    BY <2>1, <1>k
\* nobody gets an iteration or the flag
<1>n. ASSUME \A w \in Workers : parent_resume'[w] = "throttle" => parent_resume[w] = "throttle",
             \A w \in Workers : frame_ff'[w] \in Blocks => frame_ff'[w] \in {frame_ff[w], next_frame_ff[w]}
                                                          \/ parent_resume'[w] # "throttle",
             \A w \in Workers : next_frame_ff'[w] \in Blocks => next_frame_ff'[w] \in {frame_ff[w], next_frame_ff[w]}
                                                          \/ parent_resume'[w] # "throttle"
      PROVE  ThrottleFlag'
  <2>1. \A w \in Workers, b \in Blocks : Flagged(w, b)' => Flagged(w, b)
    BY <1>n
  <2> HIDE DEF Flagged
  <2> QED
    BY <2>1, <1>k
<1> HIDE DEF Flagged
<1>1. ASSUME NEW w \in Workers, ControlStep(w) PROVE ThrottleFlag'
  <2>1. CASE SuspendControl(w) \/ SyncControl(w)
    <3>1. /\ frame_ff' = [frame_ff EXCEPT ![w] = NoFrame] /\ UNCHANGED parent_resume
          /\ UNCHANGED next_frame_ff \/ \E v \in Workers : next_frame_ff' = [next_frame_ff EXCEPT ![v] = Control]
      BY <2>1, WorkersAssumption DEF SuspendControl, SyncControl, RunsControl, Types
    <3> QED
      BY <1>0, <1>n, <3>1 DEF Types
  <2>2. CASE ~(SuspendControl(w) \/ SyncControl(w))
    BY <1>1, <1>u, <2>2 DEF ControlStep, InitIterFrame, EndLoop, ThrottleFast, ThrottleSlow, SetupNext, CleanUp, worker
  <2> QED
    BY <2>1, <2>2
<1>2. ASSUME NEW w \in Workers, ResumeFrame(w) PROVE ThrottleFlag'
  <2>1. /\ frame_ff' = [frame_ff EXCEPT ![w] = next_frame_ff[w]]
        /\ next_frame_ff' = [next_frame_ff EXCEPT ![w] = NoFrame] /\ UNCHANGED parent_resume
    BY <1>2 DEF ResumeFrame
  <2> QED
    BY <1>0, <1>n, <2>1 DEF Types
<1>3. ASSUME NEW w \in Workers, NEW b \in Blocks, UserStep(w, b) PROVE ThrottleFlag'
  BY <1>3, <1>u DEF UserStep, TestCondition, Stage, StageWait, worker
<1>4. ASSUME NEW w \in Workers, NEW b \in Blocks, WaitStep(w, b) PROVE ThrottleFlag'
  <2>1. CASE CachedEnough(w, b) \/ ReadLeft(w, b) \/ Stall(w, b) \/ AlreadyPromoted(w, b) \/ Suspend(w, b)
    BY <2>1, <1>u DEF CachedEnough, ReadLeft, Stall, AlreadyPromoted, Suspend, worker
  <2>2. CASE Promote(w, b)
    <3>1. /\ frame_ff' = [frame_ff EXCEPT ![w] = Current] /\ UNCHANGED next_frame_ff
          /\ parent_resume' = [parent_resume EXCEPT ![w] = "self"]
      BY <2>2 DEF Promote, InstallIteration
    <3> QED
      BY <1>0, <1>n, <3>1 DEF Types
  <2>3. CASE SuspendFails(w, b)
    <3>1. /\ frame_ff' = [frame_ff EXCEPT ![w] = NoFrame] /\ UNCHANGED parent_resume
          /\ next_frame_ff' = [next_frame_ff EXCEPT ![w] = b] /\ frame_ff[w] = b
      BY <2>3, RunsPromoted DEF SuspendFails
    <3> QED
      BY <1>0, <1>n, <3>1 DEF Types
  <2>4. CASE SuspendNext(w, b)
    <3>1. Executes(w, b) /\ pc[b] = "suspending"
      BY <2>4 DEF SuspendNext
    <3>2. parent_resume[w] # "throttle"
      BY <3>1, RunsPromoted DEF SuspendTakesOwnControl
    <3>3. /\ frame_ff' = [frame_ff EXCEPT ![w] = NoFrame]
          /\ \E f : next_frame_ff' = [next_frame_ff EXCEPT ![w] = f]
          /\ UNCHANGED parent_resume \/ parent_resume' = [parent_resume EXCEPT ![w] = "none"]
      BY <2>4 DEF SuspendNext, ResumeRight
    <3> QED
      BY <1>0, <1>n, <3>2, <3>3 DEF Types
  <2> QED
    BY <1>4, <2>1, <2>2, <2>3, <2>4 DEF WaitStep
<1>5. ASSUME NEW w \in Workers, NEW b \in Blocks, LeaveStep(w, b) PROVE ThrottleFlag'
  <2>1. CASE FinishFinalStage(w, b) \/ LeaveFrame(w, b) \/ AttachedDone(w, b) \/ AttachedFreeLeft(w, b)
             \/ AttachedFreeOwn(w, b) \/ ReturnOther(w, b) \/ StageDone(w, b)
    BY <2>1, <1>u DEF FinishFinalStage, LeaveFrame, AttachedDone, AttachedFreeLeft, AttachedFreeOwn,
       ReturnOther, StageDone, worker
  <2>2. CASE ReturnLast(w, b)
    <3>1. /\ frame_ff' = [frame_ff EXCEPT ![w] = NoFrame] /\ UNCHANGED parent_resume
          /\ next_frame_ff' = [next_frame_ff EXCEPT ![Leader] = Control]
      BY <2>2 DEF ReturnLast
    <3> QED
      BY <1>0, <1>n, <3>1 DEF Types
  <2>3. CASE FreeLeft(w, b)
    <3>1. /\ UNCHANGED <<frame_ff, next_frame_ff>> /\ frame_ff[w] = b /\ next_frame_ff[w] = NoFrame
          /\ \A v \in Workers : v # w => parent_resume'[v] = parent_resume[v]
          /\ pc' = [pc EXCEPT ![b] = "stage_done"] /\ pc[b] = "free_left"
      BY <2>3, RunsPromoted DEF FreeLeft, Finishing, Goto, Types
    <3>2. Excused(b)'
      BY <3>1 DEF Excused, Types
    <3>3. \A v \in Workers, c \in Blocks : Flagged(v, c)' => Flagged(v, c) \/ c = b
      BY <1>0, <3>1 DEF Flagged
    <3> QED
      BY <1>k, <3>2, <3>3
  <2>4. CASE CheckRight(w, b)
    <3>1. /\ UNCHANGED <<frame_ff, parent_resume, stage>> /\ pc[b] = "check_right"
          /\ UNCHANGED next_frame_ff \/ next_frame_ff' = [next_frame_ff EXCEPT ![w] = Right(b)]
      BY <2>4 DEF CheckRight, ResumeRight, NothingToResume
    <3>2. stage[b] = FinishStage /\ Right(b) \in Blocks /\ Left(Right(b)) = b
      BY <3>1, Neighbours DEF PlaceStages
    <3>3. Excused(Right(b))'
      BY <3>1, <3>2 DEF Excused
    <3>4. \A v \in Workers, c \in Blocks : Flagged(v, c)' => Flagged(v, c) \/ c = Right(b)
      BY <3>1 DEF Flagged, Types
    <3> QED
      BY <1>k, <3>3, <3>4
  <2>5. CASE FreeOwn(w, b)
    <3>1. /\ pc[b] = "free_own" /\ frame_ff[w] = b /\ frame_ff' = [frame_ff EXCEPT ![w] = NoFrame] /\ UNCHANGED stage
          /\ \A v \in Workers : v # w => parent_resume'[v] = parent_resume[v] /\ next_frame_ff'[v] = next_frame_ff[v]
          /\ parent_resume'[w] = "none" \/ (next_frame_ff[w] # NoFrame /\ UNCHANGED next_frame_ff)
      BY <2>5, RunsPromoted DEF FreeOwn, TakeParent, Finishing, Types
    <3>2. stage[b] = FinishStage /\ Right(b) \in Blocks /\ Left(Right(b)) = b
      BY <3>1, Neighbours DEF PlaceStages
    <3>3. Excused(Right(b))'
      BY <3>1, <3>2 DEF Excused
    <3>5. next_frame_ff[w] # NoFrame => next_frame_ff[w] = Right(b)
      BY <3>1 DEF Holdings
    <3>4. \A v \in Workers, c \in Blocks : Flagged(v, c)' => Flagged(v, c) \/ c = Right(b)
      BY <1>0, <3>1, <3>5 DEF Flagged, Types
    <3> QED
      BY <1>k, <3>3, <3>4
  <2> QED
    BY <1>5, <2>1, <2>2, <2>3, <2>4, <2>5 DEF LeaveStep
<1>6. ASSUME NEW v \in Workers, NEW w \in Workers, StealControl(v, w) PROVE ThrottleFlag'
  <2>1. /\ frame_ff' = [frame_ff EXCEPT ![w] = Current] /\ next_frame_ff' = [next_frame_ff EXCEPT ![v] = Control]
        /\ parent_resume' = [parent_resume EXCEPT ![w] = parent_resume[w]] /\ frame_ff[w] = Control
    BY <1>6 DEF StealControl, InstallIteration, Stealable, RunsControl
  <2>2. parent_resume[w] = "none"
    BY <2>1 DEF Holdings
  <2> QED
    BY <1>0, <1>n, <2>1, <2>2 DEF Types
<1>7. ASSUME NEW v \in Workers, NEW w \in Workers, StealImplicitly(v, w) PROVE ThrottleFlag'
  <2>1. /\ UNCHANGED frame_ff /\ frame_ff[v] = NoFrame /\ next_frame_ff[v] = NoFrame
        /\ UNCHANGED next_frame_ff \/ \E f : next_frame_ff' = [next_frame_ff EXCEPT ![v] = f]
        /\ parent_resume' = [parent_resume EXCEPT ![w] = "none"]
    BY <1>7 DEF StealImplicitly, ResumeRight, TakeParent, NothingToResume, Idle
  <2>2. parent_resume[v] = "none"
    BY <1>0, <2>1 DEF Holdings
  <2> QED
    BY <1>0, <1>n, <2>1, <2>2 DEF Types
<1>8. CASE UNCHANGED vars
  BY <1>8, <1>u DEF vars, worker
<1> QED
  BY <1>1, <1>2, <1>3, <1>4, <1>5, <1>6, <1>7, <1>8 DEF Next, Step, Steals, Over

----------------------------------------------------------------------------
\* A suspending iteration has left the control frame itself at the start.
LEMMA SuspendTakesInit == Init => SuspendTakesOwnControl
BY DEF Init, SuspendTakesOwnControl

\* A suspending iteration has left the control frame itself, after every step.
LEMMA SuspendTakesStep ==
  ASSUME Types, Numbers, Places, IterStatuses, Holdings, OneHolder, PlaceStages, ThrottleFlag,
         SuspendTakesOwnControl, [Next]_vars
  PROVE  SuspendTakesOwnControl'
<1> DEFINE Suspends(w, b) == frame_ff[w] = b /\ pc[b] = "suspending"
<1>0. Control \notin Blocks /\ NoFrame \notin Blocks /\ Control # NoFrame /\ Current \in Blocks
  BY Names, CurrentBlocks DEF Types
<1>k. ASSUME \A w \in Workers, b \in Blocks : Suspends(w, b)' =>
               /\ Suspends(w, b) \/ parent_resume[w] # "throttle"
               /\ parent_resume'[w] = "throttle" => parent_resume[w] = "throttle"
      PROVE  SuspendTakesOwnControl'
  BY <1>k DEF SuspendTakesOwnControl
<1>u. ASSUME UNCHANGED parent_resume, \A w \in Workers, b \in Blocks : Suspends(w, b)' => Suspends(w, b)
      PROVE  SuspendTakesOwnControl'
  BY <1>k, <1>u
<1>1. ASSUME NEW w \in Workers, ControlStep(w) PROVE SuspendTakesOwnControl'
  <2>1. /\ UNCHANGED parent_resume
        /\ UNCHANGED frame_ff \/ frame_ff' = [frame_ff EXCEPT ![w] = NoFrame]
        /\ UNCHANGED pc \/ pc' = [pc EXCEPT ![Current] = "test"]
    BY <1>1 DEF ControlStep, InitIterFrame, EndLoop, ThrottleFast, ThrottleSlow, SuspendControl, SetupNext,
       SyncControl, CleanUp, worker, code, Goto
  <2>2. \A b \in Blocks : pc'[b] = "suspending" => pc[b] = "suspending"
    BY <1>0, <2>1 DEF Types
  <2>3. \A v \in Workers, b \in Blocks : frame_ff'[v] = b => frame_ff[v] = b
    BY <1>0, <2>1 DEF Types
  <2> QED
    BY <1>u, <2>1, <2>2, <2>3
<1>2. ASSUME NEW w \in Workers, ResumeFrame(w) PROVE SuspendTakesOwnControl'
  <2>1. /\ UNCHANGED parent_resume /\ frame_ff' = [frame_ff EXCEPT ![w] = next_frame_ff[w]]
        /\ pc' = [b \in Blocks |-> IF b = next_frame_ff[w] THEN "stall" ELSE pc[b]]
    BY <1>2 DEF ResumeFrame
  <2>2. \A v \in Workers, b \in Blocks : Suspends(v, b)' => Suspends(v, b)
    BY <1>0, <2>1 DEF Types
  <2> QED
    BY <1>u, <2>1, <2>2
<1>3. ASSUME NEW w \in Workers, NEW b \in Blocks, UserStep(w, b) PROVE SuspendTakesOwnControl'
  <2>1. UNCHANGED <<parent_resume, frame_ff>> /\ (UNCHANGED pc \/ \E p \in {"user", "last", "wait"} : pc' = [pc EXCEPT ![b] = p])
    BY <1>3 DEF UserStep, TestCondition, Stage, StageWait, worker, Goto
  <2>2. \A v \in Workers, c \in Blocks : Suspends(v, c)' => Suspends(v, c)
    BY <1>0, <2>1 DEF Types
  <2> QED
    BY <1>u, <2>1, <2>2
<1>4. ASSUME NEW w \in Workers, NEW b \in Blocks, WaitStep(w, b) PROVE SuspendTakesOwnControl'
  <2>1. CASE CachedEnough(w, b) \/ ReadLeft(w, b) \/ Stall(w, b) \/ AlreadyPromoted(w, b) \/ SuspendFails(w, b)
    <3>1. /\ UNCHANGED parent_resume
          /\ UNCHANGED frame_ff \/ frame_ff' = [frame_ff EXCEPT ![w] = NoFrame]
          /\ \E p \in {"user", "final", "stall", "wait", "promote", "suspend", "asleep"} : pc' = [pc EXCEPT ![b] = p]
      BY <2>1 DEF CachedEnough, ReadLeft, Stall, AlreadyPromoted, SuspendFails, worker, Goto, AfterWait
    <3>2. \A c \in Blocks : pc'[c] = "suspending" => pc[c] = "suspending"
      BY <1>0, <3>1 DEF Types
    <3>3. \A v \in Workers, c \in Blocks : frame_ff'[v] = c => frame_ff[v] = c
      BY <1>0, <3>1 DEF Types
    <3> QED
      BY <1>u, <3>1, <3>2, <3>3
  <2>2. CASE Promote(w, b)
    <3>1. /\ frame_ff' = [frame_ff EXCEPT ![w] = Current] /\ b = Current
          /\ parent_resume' = [parent_resume EXCEPT ![w] = "self"] /\ pc' = [pc EXCEPT ![b] = "suspend"]
      BY <2>2, PromotesAttached DEF Promote, InstallIteration, Goto
    <3>2. \A v \in Workers, c \in Blocks : Suspends(v, c)' => /\ Suspends(v, c)
                                                                /\ parent_resume'[v] \in {"self", parent_resume[v]}
      BY <1>0, <3>1 DEF Types
    <3> QED
      BY <1>k, <3>2
  <2>3. CASE Suspend(w, b)
    <3>1. /\ Executes(w, b) /\ pc[b] = "suspend" /\ NeedToStall(b) /\ UNCHANGED <<frame_ff, parent_resume>>
          /\ pc' = [pc EXCEPT ![b] = "suspending"]
      BY <2>3 DEF Suspend, Goto, worker
    <3>2. frame_ff[w] = b
      BY <3>1, RunsPromoted
    <3>3. stage[Left(b)] <= stage[b] /\ stage[b] <= FinalStage /\ stage[Left(b)] \in Int
          /\ stage[b] \in Int
      BY <3>1, Neighbours, StageOrder DEF NeedToStall, PlaceStages, Types
    <3>4. parent_resume[w] # "throttle"
      BY <3>1, <3>2, <3>3, StageOrder DEF ThrottleFlag
    <3>5. \A v \in Workers, c \in Blocks : Suspends(v, c)' => Suspends(v, c) \/ v = w
      BY <1>0, <3>1, <3>2 DEF Types, OneHolder
    <3> QED
      BY <1>k, <3>1, <3>4, <3>5
  <2>4. CASE SuspendNext(w, b)
    <3>1. /\ frame_ff' = [frame_ff EXCEPT ![w] = NoFrame] /\ pc' = [pc EXCEPT ![b] = "asleep"]
          /\ UNCHANGED parent_resume \/ parent_resume' = [parent_resume EXCEPT ![w] = "none"]
      BY <2>4 DEF SuspendNext, Goto
    <3>2. \A v \in Workers, c \in Blocks : Suspends(v, c)' => Suspends(v, c) /\ parent_resume'[v] = parent_resume[v]
      BY <1>0, <3>1 DEF Types
    <3> QED
      BY <1>k, <3>2
  <2> QED
    BY <1>4, <2>1, <2>2, <2>3, <2>4 DEF WaitStep
<1>5. ASSUME NEW w \in Workers, NEW b \in Blocks, LeaveStep(w, b) PROVE SuspendTakesOwnControl'
  <2>1. CASE ~(FreeLeft(w, b) \/ FreeOwn(w, b))
    <3>1. /\ UNCHANGED parent_resume
          /\ UNCHANGED frame_ff \/ frame_ff' = [frame_ff EXCEPT ![w] = NoFrame]
          /\ \E p \in PCs \ {"suspending"} : pc' = [pc EXCEPT ![b] = p]
      BY <1>5, <2>1 DEF LeaveStep, FinishFinalStage, LeaveFrame, AttachedDone, AttachedFreeLeft, AttachedFreeOwn,
         ReturnLast, ReturnOther, StageDone, CheckRight, worker, Goto, PCs, Finishing
    <3>2. \A c \in Blocks : pc'[c] = "suspending" => pc[c] = "suspending"
      BY <1>0, <3>1 DEF Types
    <3>3. \A v \in Workers, c \in Blocks : frame_ff'[v] = c => frame_ff[v] = c
      BY <1>0, <3>1 DEF Types
    <3> QED
      BY <1>u, <3>1, <3>2, <3>3
  <2>2. CASE FreeLeft(w, b) \/ FreeOwn(w, b)
    <3>1. /\ frame_ff[w] = b /\ (UNCHANGED frame_ff \/ frame_ff' = [frame_ff EXCEPT ![w] = NoFrame])
          /\ \E p \in {"stage_done", "idle"} : pc' = [pc EXCEPT ![b] = p]
          /\ \A v \in Workers : v # w => parent_resume'[v] = parent_resume[v]
      BY <2>2, RunsPromoted DEF FreeLeft, FreeOwn, Goto, Finishing, Types
    <3>2. \A v \in Workers, c \in Blocks : Suspends(v, c)' => Suspends(v, c) /\ v # w
      BY <1>0, <3>1 DEF Types
    <3> QED
      BY <1>k, <3>1, <3>2
  <2> QED
    BY <2>1, <2>2
<1>6. ASSUME NEW v \in Workers, NEW w \in Workers, StealControl(v, w) PROVE SuspendTakesOwnControl'
  <2>1. /\ frame_ff' = [frame_ff EXCEPT ![w] = Current] /\ UNCHANGED pc /\ cpc = "body"
        /\ parent_resume' = [parent_resume EXCEPT ![w] = parent_resume[w]] /\ frame_ff[w] = Control
    BY <1>6 DEF StealControl, InstallIteration, Stealable, RunsControl
  <2>2. pc[Current] # "suspending"
    BY <2>1 DEF Places, AttachedPCs
  <2>3. \A u \in Workers, c \in Blocks : Suspends(u, c)' => Suspends(u, c) /\ parent_resume'[u] = parent_resume[u]
    BY <1>0, <2>1, <2>2 DEF Types
  <2> QED
    BY <1>k, <2>3
<1>7. ASSUME NEW v \in Workers, NEW w \in Workers, StealImplicitly(v, w) PROVE SuspendTakesOwnControl'
  <2>1. UNCHANGED <<frame_ff, pc>> /\ parent_resume' = [parent_resume EXCEPT ![w] = "none"]
    BY <1>7 DEF StealImplicitly, code
  <2>2. \A u \in Workers : parent_resume'[u] = "throttle" => parent_resume[u] = "throttle"
    BY <2>1 DEF Types
  <2> QED
    BY <1>k, <2>1, <2>2
<1>8. CASE UNCHANGED vars
  BY <1>8, <1>u DEF vars, worker, code
<1> QED
  BY <1>1, <1>2, <1>3, <1>4, <1>5, <1>6, <1>7, <1>8 DEF Next, Step, Steals, Over

----------------------------------------------------------------------------
\* Somebody is to come by block c and look to its right.
Awake(c) == pc[c] \notin {"idle", "free_own"} /\ ~(pc[c] = "asleep" /\ iter_status[c] = "suspended")

WakeUp(b) == iter_status[b] = "suspended" /\ stage[Left(b)] > stage[b] => Awake(Left(b))

\* The property in terms of the blocks alone.
LEMMA WakeUps ==
  ASSUME Types, Holdings, NoLostWakeUp
  PROVE  \A b \in Blocks : WakeUp(b)
<1> SUFFICES ASSUME NEW b \in Blocks, iter_status[b] = "suspended", stage[Left(b)] > stage[b]
             PROVE  Awake(Left(b))
  BY DEF WakeUp
<1>1. Left(b) \in Blocks /\ stage[Left(b)] \in Int /\ stage[b] \in Int
  BY Neighbours, StageOrder DEF Types
<1>2. PICK w \in Workers : (frame_ff[w] = Left(b) /\ pc[Left(b)] # "free_own") \/ next_frame_ff[w] = Left(b)
  BY <1>1 DEF NoLostWakeUp, NeedToStall
<1> QED
  BY <1>1, <1>2 DEF Holdings, Awake, RunningPCs, AlivePCs, Finishing

\* A suspended iteration that may go on is looked for at the start.
LEMMA NoLostWakeUpInit == Init => NoLostWakeUp
<1> SUFFICES ASSUME Init PROVE NoLostWakeUp
  OBVIOUS
<1>1. \A b \in Blocks : iter_status[b] # "suspended"
  BY DEF Init
<1> QED
  BY <1>1 DEF NoLostWakeUp

\* A suspended iteration that may go on is looked for, after every step.
LEMMA NoLostWakeUpStep ==
  ASSUME Types, Types', Numbers, Places, Places', IterStatuses, IterStatuses', Holdings, Holdings', Held', ControlPlace,
         Joins, PlaceStages, NoLostWakeUp, [Next]_vars
  PROVE  NoLostWakeUp'
<1>0. /\ Current \in Blocks /\ Control \notin Blocks /\ NoFrame \notin Blocks
      /\ \A b \in Blocks : /\ Left(b) \in Blocks /\ Left(b) # b /\ Right(b) \in Blocks
                           /\ Right(Left(b)) = b /\ Left(Right(b)) = b
                           /\ stage[b] \in Int /\ stage'[b] \in Int
  BY CurrentBlocks, Names, Neighbours, StageOrder DEF Types
<1>a. \A b \in Blocks : WakeUp(b)
  BY WakeUps
<1>w. ASSUME \A b \in Blocks : WakeUp(b)' PROVE NoLostWakeUp'
  <2> SUFFICES ASSUME NEW b \in Blocks, iter_status'[b] = "suspended", ~NeedToStall(b)'
               PROVE  \E w \in Workers :
                        \/ frame_ff'[w] = Left(b) /\ iter_ff_on_top'[w] /\ pc'[Left(b)] # "free_own"
                        \/ next_frame_ff'[w] = Left(b)
    BY DEF NoLostWakeUp
  <2>1. stage'[Left(b)] > stage'[b]
    BY <1>0 DEF NeedToStall
  <2>2. Awake(Left(b))'
    BY <1>w, <2>1 DEF WakeUp
  <2>3. pc'[b] \in {"suspending", "asleep"}
    BY DEF IterStatuses
  <2>4. b # NextBlock'
    BY <2>3 DEF Places, DoneWithLeft
  <2>5. Left(b) # Current'
    BY <1>0, <2>4 DEF NextBlock
  <2>6. ~Attached(Left(b))'
    BY <2>5 DEF Attached
  <2>7. pc'[Left(b)] \in AlivePCs \cup Finishing
    BY <1>0, <2>2, <2>6 DEF Places, Awake
  <2>8. CASE pc'[Left(b)] \in RunningPCs
    <3>1. PICK w \in Workers : frame_ff'[w] = Left(b)
      BY <1>0, <2>6, <2>8 DEF Held
    <3>2. iter_ff_on_top'[w]
      BY <1>0, <3>1 DEF Holdings
    <3> QED
      BY <2>2, <3>1, <3>2 DEF Awake
  <2>9. CASE pc'[Left(b)] = "asleep"
    BY <1>0, <2>2, <2>9 DEF Held, Awake
  <2> QED
    BY <2>7, <2>8, <2>9 DEF RunningPCs
\* a step of the iteration in block c
<1>o. ASSUME NEW c \in Blocks, NEW p, pc' = [pc EXCEPT ![c] = p],
             \A d \in Blocks : d # c => /\ stage'[d] = stage[d]
                                        /\ iter_status'[d] = "suspended" => iter_status[d] = "suspended",
             \/ iter_status'[c] # "suspended"
             \/ stage'[Left(c)] <= stage'[c]
             \/ iter_status[c] = "suspended" /\ stage'[c] = stage[c],
             \/ p \notin {"idle", "free_own"} /\ (p = "asleep" => iter_status'[c] # "suspended")
             \/ iter_status'[Right(c)] # "suspended"
             \/ stage'[c] <= stage'[Right(c)]
      PROVE  NoLostWakeUp'
  <2> SUFFICES ASSUME NEW d \in Blocks, iter_status'[d] = "suspended", stage'[Left(d)] > stage'[d]
               PROVE  Awake(Left(d))'
    BY <1>w DEF WakeUp
  <2>1. pc'[Left(d)] = IF Left(d) = c THEN p ELSE pc[Left(d)]
    BY <1>0, <1>o DEF Types
  <2>2. CASE Left(d) = c
    <3>1. Right(c) = d
      BY <1>0, <2>2
    <3>2. p \notin {"idle", "free_own"} /\ (p = "asleep" => iter_status'[c] # "suspended")
      BY <1>0, <1>o, <2>2, <3>1
    <3> QED
      BY <2>1, <2>2, <3>2 DEF Awake
  <2>3. CASE Left(d) # c
    <3>1. stage'[Left(d)] = stage[Left(d)] /\ (iter_status'[Left(d)] = "suspended" => iter_status[Left(d)] = "suspended")
      BY <1>0, <1>o, <2>3
    <3>2. iter_status[d] = "suspended" /\ stage'[d] = stage[d]
      BY <1>0, <1>o
    <3>3. Awake(Left(d))
      BY <1>a, <3>1, <3>2 DEF WakeUp
    <3> QED
      BY <2>1, <2>3, <3>1, <3>3 DEF Awake
  <2> QED
    BY <2>2, <2>3
\* the code goes on to a place where it still looks to its right
<1>p. ASSUME NEW c \in Blocks, NEW p, pc' = [pc EXCEPT ![c] = p], UNCHANGED iter_status,
             \A d \in Blocks : d # c => stage'[d] = stage[d],
             p \notin {"idle", "free_own", "asleep"}, iter_status[c] # "suspended"
      PROVE  NoLostWakeUp'
  BY <1>o, <1>p
\* fewer iterations are suspended
<1>u. ASSUME UNCHANGED <<pc, stage>>,
             \A d \in Blocks : iter_status'[d] = "suspended" => iter_status[d] = "suspended"
      PROVE  NoLostWakeUp'
  <2> SUFFICES ASSUME NEW d \in Blocks, iter_status'[d] = "suspended", stage'[Left(d)] > stage'[d]
               PROVE  Awake(Left(d))'
    BY <1>w DEF WakeUp
  <2>1. Awake(Left(d))
    BY <1>a, <1>u DEF WakeUp
  <2> QED
    BY <1>0, <1>u, <2>1 DEF Awake
<1>s. ASSUME NEW b \in Blocks, pc[b] \notin {"suspending", "asleep"} PROVE iter_status[b] # "suspended"
  BY <1>s DEF IterStatuses
<1>1. ASSUME NEW w \in Workers, ControlStep(w) PROVE NoLostWakeUp'
  <2>1. CASE InitIterFrame(w)
    <3>1. /\ pc' = [pc EXCEPT ![Current] = "test"] /\ iter_status' = [iter_status EXCEPT ![Current] = "standard"]
          /\ stage' = [stage EXCEPT ![Current] = 0]
      BY <2>1 DEF InitIterFrame, Goto
    <3>2. /\ iter_status'[Current] # "suspended"
          /\ \A d \in Blocks : d # Current => stage'[d] = stage[d] /\ iter_status'[d] = iter_status[d]
      BY <1>0, <3>1 DEF Types
    <3> QED
      BY <1>0, <1>o, <3>1, <3>2
  <2>2. CASE ~InitIterFrame(w)
    <3>1. UNCHANGED <<pc, stage, iter_status>>
      BY <1>1, <2>2 DEF ControlStep, EndLoop, SyncControl, CleanUp, ThrottleSlow, ThrottleFast,
         SuspendControl, SetupNext, ring, code
    <3> QED
      BY <1>u, <3>1
  <2> QED
    BY <2>1, <2>2
<1>2. ASSUME NEW w \in Workers, ResumeFrame(w) PROVE NoLostWakeUp'
  <2>1. /\ UNCHANGED <<stage, iter_status>>
        /\ pc' = [b \in Blocks |-> IF b = next_frame_ff[w] THEN "stall" ELSE pc[b]]
    BY <1>2 DEF ResumeFrame, ring
  <2>2. CASE next_frame_ff[w] \in Blocks
    <3>1. pc' = [pc EXCEPT ![next_frame_ff[w]] = "stall"]
      BY <2>1, <2>2 DEF Types
    <3>2. iter_status[next_frame_ff[w]] # "suspended"
      BY <2>2 DEF Holdings
    <3>3. \A d \in Blocks : d # next_frame_ff[w] => stage'[d] = stage[d]
      BY <2>1
    <3> QED
      BY <1>p, <2>1, <2>2, <3>1, <3>2, <3>3
  <2>3. CASE next_frame_ff[w] \notin Blocks
    <3>1. UNCHANGED pc
      BY <2>1, <2>3 DEF Types
    <3> QED
      BY <1>u, <2>1, <3>1
  <2> QED
    BY <2>2, <2>3
<1>3. ASSUME NEW w \in Workers, NEW b \in Blocks, UserStep(w, b) PROVE NoLostWakeUp'
  <2>1. /\ pc[b] \in {"test", "user", "last"} /\ UNCHANGED iter_status
        /\ UNCHANGED stage \/ \E s : stage' = [stage EXCEPT ![b] = s]
        /\ (UNCHANGED pc /\ pc[b] = "user") \/ \E p \in {"user", "last", "wait"} : pc' = [pc EXCEPT ![b] = p]
    BY <1>3 DEF UserStep, TestCondition, Stage, UserStages, StageWait, Advance, ring, Goto
  <2>2. PICK p \in {"user", "last", "wait"} : pc' = [pc EXCEPT ![b] = p]
    BY <2>1 DEF Types
  <2>3. \A d \in Blocks : d # b => stage'[d] = stage[d]
    BY <2>1 DEF Types
  <2>4. iter_status[b] # "suspended"
    BY <1>s, <2>1
  <2> QED
    BY <1>p, <2>1, <2>2, <2>3, <2>4
<1>4. ASSUME NEW w \in Workers, NEW b \in Blocks, WaitStep(w, b) PROVE NoLostWakeUp'
  <2>1. CASE CachedEnough(w, b) \/ ReadLeft(w, b) \/ Stall(w, b) \/ AlreadyPromoted(w, b)
    <3>1. /\ pc[b] \notin {"suspending", "asleep"} /\ UNCHANGED <<iter_status, stage>>
          /\ \E p \in {"user", "final", "stall", "wait", "promote", "suspend"} : pc' = [pc EXCEPT ![b] = p]
      BY <2>1 DEF CachedEnough, ReadLeft, Stall, AlreadyPromoted, ring, Goto, AfterWait
    <3>2. iter_status[b] # "suspended"
      BY <1>s, <3>1
    <3>3. \A d \in Blocks : d # b => stage'[d] = stage[d]
      BY <3>1
    <3> QED
      BY <1>p, <3>1, <3>2, <3>3
  <2>2. CASE Promote(w, b)
    <3>1. /\ b = Current /\ pc' = [pc EXCEPT ![b] = "suspend"] /\ UNCHANGED stage
          /\ iter_status' = [iter_status EXCEPT ![Current] = "promoted"]
      BY <2>2, PromotesAttached DEF Promote, InstallIteration, Goto
    <3>2. iter_status'[b] # "suspended" /\ \A d \in Blocks : d # b => iter_status'[d] = iter_status[d]
      BY <1>0, <3>1 DEF Types
    <3> QED
      BY <1>0, <1>o, <3>1, <3>2
  <2>3. CASE Suspend(w, b)
    <3>1. /\ pc' = [pc EXCEPT ![b] = "suspending"] /\ UNCHANGED stage /\ stage[Left(b)] <= stage[b]
          /\ iter_status' = [iter_status EXCEPT ![b] = "suspended"]
      BY <2>3 DEF Suspend, Goto, NeedToStall
    <3>2. \A d \in Blocks : d # b => iter_status'[d] = iter_status[d]
      BY <1>0, <3>1 DEF Types
    <3> QED
      BY <1>0, <1>o, <3>1, <3>2
  <2>4. CASE SuspendFails(w, b)
    <3>1. /\ pc' = [pc EXCEPT ![b] = "asleep"] /\ UNCHANGED <<stage, iter_status>> /\ pc[b] = "suspend"
      BY <2>4 DEF SuspendFails, Goto, ring
    <3>2. iter_status'[b] # "suspended"
      BY <1>s, <3>1
    <3> QED
      BY <1>0, <1>o, <3>1, <3>2
  <2>5. CASE SuspendNext(w, b)
    <3>1. /\ pc' = [pc EXCEPT ![b] = "asleep"] /\ UNCHANGED stage /\ pc[b] = "suspending"
          /\ \/ iter_status' = [iter_status EXCEPT ![Right(b)] = "promoted"]
             \/ ~RightResumable(b) /\ UNCHANGED iter_status
      BY <2>5 DEF SuspendNext, Goto, ResumeRight
    <3>2. /\ iter_status'[Right(b)] # "suspended" \/ stage[b] <= stage[Right(b)]
          /\ \A d \in Blocks : iter_status'[d] = "suspended" => iter_status[d] = "suspended"
      BY <1>0, <3>1 DEF Types, RightResumable, NeedToStall
    <3>3. iter_status[b] = "suspended"
      BY <3>1 DEF IterStatuses
    <3> QED
      BY <1>0, <1>o, <3>1, <3>2, <3>3
  <2> QED
    BY <1>4, <2>1, <2>2, <2>3, <2>4, <2>5 DEF WaitStep
<1>5. ASSUME NEW w \in Workers, NEW b \in Blocks, LeaveStep(w, b) PROVE NoLostWakeUp'
  <2>1. CASE FinishFinalStage(w, b) \/ LeaveFrame(w, b) \/ AttachedDone(w, b) \/ ReturnOther(w, b) \/ StageDone(w, b)
    <3>1. /\ pc[b] \notin {"suspending", "asleep"} /\ UNCHANGED iter_status
          /\ UNCHANGED stage \/ \E s : stage' = [stage EXCEPT ![b] = s]
          /\ \E p \in PCs \ {"idle", "free_own", "asleep"} : pc' = [pc EXCEPT ![b] = p]
      BY <2>1 DEF FinishFinalStage, LeaveFrame, AttachedDone, ReturnOther, StageDone, Goto, ring, PCs, Finishing
    <3>2. iter_status[b] # "suspended"
      BY <1>s, <3>1
    <3>3. \A d \in Blocks : d # b => stage'[d] = stage[d]
      BY <3>1 DEF Types
    <3> QED
      BY <1>p, <3>1, <3>2, <3>3
  <2>2. CASE AttachedFreeLeft(w, b) \/ FreeLeft(w, b)
    <3>1. /\ pc[b] \in {"attached_left", "free_left"} /\ UNCHANGED stage
          /\ \E p \in {"attached_own", "stage_done"} : pc' = [pc EXCEPT ![b] = p]
          /\ FreeBlock(Left(b))
      BY <2>2 DEF AttachedFreeLeft, FreeLeft, Goto
    <3>2. \A d \in Blocks : iter_status'[d] = "suspended" => iter_status[d] = "suspended"
      BY <1>0, <3>1 DEF FreeBlock, Types
    <3>3. iter_status'[b] # "suspended"
      BY <1>s, <3>1, <3>2
    <3> QED
      BY <1>0, <1>o, <3>1, <3>2, <3>3
  <2>3. CASE AttachedFreeOwn(w, b)
    <3>1. /\ Executes(w, b) /\ pc[b] = "attached_own" /\ UNCHANGED stage /\ pc' = [pc EXCEPT ![b] = "idle"]
          /\ FreeBlock(b)
      BY <2>3 DEF AttachedFreeOwn, Goto
    <3>2. \A d \in Blocks : iter_status'[d] = "suspended" => iter_status[d] = "suspended"
      BY <1>0, <3>1 DEF FreeBlock, Types
    <3>3. iter_status'[b] # "suspended"
      BY <1>s, <3>1, <3>2
    <3>4. Right(b) = NextBlock
      BY <3>1, EndsAttached DEF NextBlock
    <3>5. iter_status[Right(b)] # "suspended"
      BY <1>0, <1>s, <3>4 DEF Places, DoneWithLeft
    <3> QED
      BY <1>0, <1>o, <3>1, <3>2, <3>3, <3>5
  <2>4. CASE ReturnLast(w, b)
    <3>1. pc[b] = "return" /\ UNCHANGED <<stage, iter_status>> /\ pc' = [pc EXCEPT ![b] = "idle"]
      BY <2>4 DEF ReturnLast, Goto, ring
    <3>2. pc[Right(b)] \notin {"suspending", "asleep"}
      BY <1>0, <2>4, <3>1, LastReturn
    <3>3. iter_status[b] # "suspended" /\ iter_status[Right(b)] # "suspended"
      BY <1>0, <1>s, <3>1, <3>2
    <3> QED
      BY <1>0, <1>o, <3>1, <3>3
  <2>5. CASE CheckRight(w, b)
    <3>1. /\ pc' = [pc EXCEPT ![b] = "free_own"] /\ UNCHANGED stage /\ pc[b] = "check_right"
          /\ \/ iter_status' = [iter_status EXCEPT ![Right(b)] = "promoted"]
             \/ ~RightResumable(b) /\ UNCHANGED iter_status
      BY <2>5 DEF CheckRight, Goto, ResumeRight, NothingToResume
    <3>2. /\ iter_status'[Right(b)] # "suspended" \/ stage[b] <= stage[Right(b)]
          /\ \A d \in Blocks : iter_status'[d] = "suspended" => iter_status[d] = "suspended"
      BY <1>0, <3>1 DEF Types, RightResumable, NeedToStall
    <3>3. iter_status'[b] # "suspended"
      BY <1>s, <3>1, <3>2
    <3> QED
      BY <1>0, <1>o, <3>1, <3>2, <3>3
  <2>6. CASE FreeOwn(w, b)
    <3>1. /\ pc[b] = "free_own" /\ UNCHANGED stage /\ pc' = [pc EXCEPT ![b] = "idle"]
          /\ FreeBlock(b)
      BY <2>6 DEF FreeOwn, Goto
    <3>2. \A d \in Blocks : iter_status'[d] = "suspended" => iter_status[d] = "suspended"
      BY <1>0, <3>1 DEF FreeBlock, Types
    <3>3. iter_status'[b] # "suspended"
      BY <1>s, <3>1, <3>2
    <3>4. iter_status[Right(b)] # "suspended" \/ stage[b] <= stage[Right(b)]
      <4>1. WakeUp(Right(b)) /\ ~Awake(b)
        BY <1>0, <1>a, <3>1 DEF Awake
      <4> QED
        BY <1>0, <4>1 DEF WakeUp
    <3> QED
      BY <1>0, <1>o, <3>1, <3>2, <3>3, <3>4
  <2> QED
    BY <1>5, <2>1, <2>2, <2>3, <2>4, <2>5, <2>6 DEF LeaveStep
<1>6. ASSUME NEW v \in Workers, NEW w \in Workers, StealControl(v, w) PROVE NoLostWakeUp'
  <2>1. UNCHANGED <<pc, stage>> /\ iter_status' = [iter_status EXCEPT ![Current] = "promoted"]
    BY <1>6 DEF StealControl, InstallIteration
  <2>2. \A d \in Blocks : iter_status'[d] = "suspended" => iter_status[d] = "suspended"
    BY <2>1 DEF Types
  <2> QED
    BY <1>u, <2>1, <2>2
<1>7. ASSUME NEW v \in Workers, NEW w \in Workers, StealImplicitly(v, w) PROVE NoLostWakeUp'
  <2>1. UNCHANGED <<pc, stage>> /\ (UNCHANGED iter_status \/ \E c : iter_status' = [iter_status EXCEPT ![c] = "promoted"])
    BY <1>7 DEF StealImplicitly, ResumeRight, NothingToResume, code
  <2>2. \A d \in Blocks : iter_status'[d] = "suspended" => iter_status[d] = "suspended"
    BY <2>1 DEF Types
  <2> QED
    BY <1>u, <2>1, <2>2
<1>8. CASE UNCHANGED vars
  BY <1>8, <1>u DEF vars, ring, code
<1> QED
  BY <1>1, <1>2, <1>3, <1>4, <1>5, <1>6, <1>7, <1>8 DEF Next, Step, Steals, Over

----------------------------------------------------------------------------
\* The bounds hold at the start.
LEMMA BoundsInit == Init => Bounds
<1> SUFFICES ASSUME Init PROVE Bounds
  OBVIOUS
<1>1. Current \in Blocks
  BY CurrentBlocks DEF Init
<1>2. current_iter = 1 /\ cpc = "loop" /\ pc[Current] = "idle"
  BY <1>1 DEF Init
<1> QED
  BY <1>2, BoundAssumption DEF Bounds, AtThrottle

\* The bounds hold, after every step.
LEMMA BoundsStep ==
  ASSUME Types, Numbers, Places, IterStatuses, Holdings, Bounds, [Next]_vars
  PROVE  Bounds'
<1>0. /\ Current \in Blocks /\ NextBlock \in Blocks /\ Control \notin Blocks /\ NoFrame \notin Blocks
      /\ MaxIter \in Nat /\ current_iter \in Int
  BY CurrentBlocks, Names, BoundAssumption DEF Types
\* a step that is not the evaluation of a condition
<1>k. ASSUME UNCHANGED <<current_iter, cpc, test_condition>>,
             \A c \in Blocks : pc'[c] = "test" <=> pc[c] = "test"
      PROVE  Bounds'
  <2>1. pc'[Current'] = "test" <=> pc[Current] = "test"
    BY <1>0, <1>k, SameIter
  <2> QED
    BY <1>k, <2>1 DEF Bounds
<1>p. ASSUME NEW b \in Blocks, NEW p, UNCHANGED <<current_iter, cpc, test_condition>>,
             pc' = [pc EXCEPT ![b] = p], pc[b] # "test", p # "test"
      PROVE  Bounds'
  <2>1. \A c \in Blocks : pc'[c] = "test" <=> pc[c] = "test"
    BY <1>p DEF Types
  <2> QED
    BY <1>k, <1>p, <2>1
<1>u. ASSUME UNCHANGED <<pc, current_iter, cpc, test_condition>> PROVE Bounds'
  BY <1>k, <1>u
\* the iteration leaves the control frame
<1>i. ASSUME cpc = "body", pc[Current] # "test", cpc' = "throttle",
             UNCHANGED <<current_iter, test_condition>>, pc'[Current] # "test"
      PROVE  Bounds'
  <2>1. pc'[Current'] # "test"
    BY <1>i, SameIter
  <2> QED
    BY <1>0, <1>i, <2>1 DEF Bounds, AtThrottle
<1>1. ASSUME NEW w \in Workers, ControlStep(w) PROVE Bounds'
  <2>1. CASE InitIterFrame(w)
    <3>1. /\ cpc = "loop" /\ cpc' = "body" /\ test_condition /\ UNCHANGED <<current_iter, test_condition>>
          /\ pc' = [pc EXCEPT ![Current] = "test"]
      BY <2>1 DEF InitIterFrame, RunsControl, Goto
    <3>2. pc'[Current'] = "test"
      BY <1>0, <3>1, SameIter DEF Types
    <3> QED
      BY <3>1, <3>2 DEF Bounds, AtThrottle
  <2>2. CASE EndLoop(w) \/ ThrottleFast(w) \/ ThrottleSlow(w) \/ SuspendControl(w) \/ SyncControl(w) \/ CleanUp(w)
    <3>1. /\ UNCHANGED <<current_iter, test_condition, pc>>
          /\ \/ cpc \in {"throttle", "slow"} /\ cpc' \in {"slow", "setup"}
             \/ cpc' \in {"sync", "cleanup", "done"}
      BY <2>2 DEF EndLoop, ThrottleFast, ThrottleSlow, SuspendControl, SyncControl, CleanUp, RunsControl, code
    <3>2. pc'[Current'] = pc[Current]
      BY <3>1, SameIter
    <3> QED
      BY <3>1, <3>2 DEF Bounds, AtThrottle
  <2>3. CASE SetupNext(w)
    <3>1. /\ cpc = "setup" /\ cpc' = "loop" /\ current_iter' = current_iter + 1 /\ UNCHANGED <<test_condition, pc>>
      BY <2>3 DEF SetupNext, RunsControl, code
    <3>2. pc'[Current'] # "test"
      BY <1>0, <3>1, NextIter DEF Places, DoneWithLeft
    <3> QED
      BY <1>0, <3>1, <3>2 DEF Bounds, AtThrottle
  <2> QED
    BY <1>1, <2>1, <2>2, <2>3 DEF ControlStep
<1>2. ASSUME NEW w \in Workers, ResumeFrame(w) PROVE Bounds'
  <2>1. /\ UNCHANGED <<current_iter, cpc, test_condition>>
        /\ pc' = [b \in Blocks |-> IF b = next_frame_ff[w] THEN "stall" ELSE pc[b]]
    BY <1>2 DEF ResumeFrame, control
  <2>2. next_frame_ff[w] \in Blocks => pc[next_frame_ff[w]] = "asleep"
    BY DEF Holdings
  <2>3. \A c \in Blocks : pc'[c] = "test" <=> pc[c] = "test"
    BY <2>1, <2>2
  <2> QED
    BY <1>k, <2>1, <2>3
<1>3. ASSUME NEW w \in Workers, NEW b \in Blocks, UserStep(w, b) PROVE Bounds'
  <2>1. ASSUME NEW t \in BOOLEAN, TestCondition(w, b, t) PROVE Bounds'
    <3>1. /\ Executes(w, b) /\ pc[b] = "test"
          /\ t => iter_num[b] <= MaxIter
          /\ test_condition' = t /\ UNCHANGED <<current_iter, cpc>>
          /\ \E p \in {"user", "last"} : pc' = [pc EXCEPT ![b] = p]
      BY <2>1 DEF TestCondition, Goto
    <3>2. b = Current /\ cpc = "body" /\ Current' = Current
      BY <3>1, EndsAttached, SameIter
    <3>3. iter_num[b] = current_iter
      BY <1>0, <3>2, ReservedBlocks DEF Numbers, NotStarted, Types
    <3>4. pc'[Current'] # "test"
      BY <1>0, <3>1, <3>2 DEF Types
    <3> QED
      BY <3>1, <3>2, <3>3, <3>4 DEF Bounds, AtThrottle
  <2>2. ASSUME NEW s \in 1 .. MaxStage, Stage(w, b, s) PROVE Bounds'
    BY <1>u, <2>2 DEF Stage, control
  <2>3. ASSUME NEW s \in 1 .. FinalStage, StageWait(w, b, s) PROVE Bounds'
    BY <1>p, <2>3 DEF StageWait, Goto, control
  <2> QED
    BY <1>3, <2>1, <2>2, <2>3 DEF UserStep
<1>4. ASSUME NEW w \in Workers, NEW b \in Blocks, WaitStep(w, b) PROVE Bounds'
  <2>1. CASE Promote(w, b)
    <3>1. /\ UNCHANGED <<current_iter, test_condition>> /\ cpc' = "throttle" /\ pc[b] = "promote"
          /\ pc' = [pc EXCEPT ![b] = "suspend"]
      BY <2>1 DEF Promote, InstallIteration, Goto
    <3>2. b = Current /\ cpc = "body" /\ pc'[Current] # "test"
      BY <2>1, <3>1, PromotesAttached DEF Types
    <3> QED
      BY <1>i, <3>1, <3>2
  <2>2. CASE ~Promote(w, b)
    <3>1. /\ UNCHANGED <<current_iter, cpc, test_condition>> /\ pc[b] # "test"
          /\ \E p \in PCs \ {"test"} : pc' = [pc EXCEPT ![b] = p]
      BY <1>4, <2>2 DEF WaitStep, CachedEnough, ReadLeft, Stall, AlreadyPromoted, SuspendFails, Suspend, SuspendNext,
         AfterWait, Goto, control, PCs
    <3> QED
      BY <1>p, <3>1
  <2> QED
    BY <2>1, <2>2
<1>5. ASSUME NEW w \in Workers, NEW b \in Blocks, LeaveStep(w, b) PROVE Bounds'
  <2>1. CASE AttachedFreeOwn(w, b)
    <3>1. /\ UNCHANGED <<current_iter, test_condition>> /\ cpc' = "throttle" /\ pc[b] = "attached_own" /\ Executes(w, b)
          /\ pc' = [pc EXCEPT ![b] = "idle"]
      BY <2>1 DEF AttachedFreeOwn, Goto
    <3>2. b = Current /\ cpc = "body"
      BY <3>1, EndsAttached
    <3>3. pc'[Current] # "test"
      BY <3>1, <3>2 DEF Types
    <3> QED
      BY <1>i, <3>1, <3>2, <3>3
  <2>2. CASE ~AttachedFreeOwn(w, b)
    <3>1. /\ UNCHANGED <<current_iter, cpc, test_condition>> /\ pc[b] # "test"
          /\ \E p \in PCs \ {"test"} : pc' = [pc EXCEPT ![b] = p]
      BY <1>5, <2>2 DEF LeaveStep, FinishFinalStage, LeaveFrame, AttachedDone, AttachedFreeLeft, ReturnLast, ReturnOther,
         FreeLeft, StageDone, CheckRight, FreeOwn, Goto, control, PCs, Finishing
    <3> QED
      BY <1>p, <3>1
  <2> QED
    BY <2>1, <2>2
<1>6. ASSUME NEW v \in Workers, NEW w \in Workers, StealControl(v, w) PROVE Bounds'
  <2>1. /\ UNCHANGED <<current_iter, test_condition, pc>> /\ cpc' = "throttle" /\ cpc = "body" /\ detached
    BY <1>6 DEF StealControl, InstallIteration, Stealable, RunsControl
  <2>2. pc[Current] # "test"
    BY <2>1 DEF Places, AlivePCs
  <2> QED
    BY <1>i, <2>1, <2>2
<1>7. ASSUME NEW v \in Workers, NEW w \in Workers, StealImplicitly(v, w) PROVE Bounds'
  BY <1>7, <1>u DEF StealImplicitly, control, code
<1>8. CASE UNCHANGED vars
  BY <1>8, <1>u DEF vars, control, code
<1> QED
  BY <1>1, <1>2, <1>3, <1>4, <1>5, <1>6, <1>7, <1>8 DEF Next, Step, Steals, Over

----------------------------------------------------------------------------
\* The inductive invariant holds at the start.
LEMMA IInvInit == Init => IInv
BY TypesInit, FlagsInit, NumbersInit, PlacesInit, CountersInit, BlockStatusesInit, IterStatusesInit,
   InUseInit, OneHolderInit, HoldingsInit, HeldInit, ControlOnceInit, ControlPlaceInit, JoinsInit,
   FullFrameInit, PlaceStagesInit, IdleStagesInit, BehindLeftInit, CachedStageInit, ThrottleFlagInit,
   SuspendTakesInit, NoLostWakeUpInit, BoundsInit DEF IInv

\* Every step keeps the inductive invariant.
LEMMA IInvStep == IInv /\ [Next]_vars => IInv'
<1> SUFFICES ASSUME IInv, [Next]_vars PROVE IInv'
  OBVIOUS
<1>0. /\ Types /\ Flags /\ Numbers /\ Places /\ Counters
      /\ BlockStatuses /\ IterStatuses /\ InUse
      /\ OneHolder /\ Holdings /\ Held /\ ControlOnce /\ ControlPlace
      /\ Joins /\ FullFrame
      /\ PlaceStages /\ IdleStages /\ BehindLeft /\ CachedStageIsOld
      /\ ThrottleFlag /\ SuspendTakesOwnControl /\ NoLostWakeUp /\ Bounds
  BY DEF IInv
<1>1. Types' /\ Flags'
  BY <1>0, TypesStep, FlagsStep
<1>2. Numbers' /\ Places'
  BY <1>0, NumbersStep, PlacesStep
<1>3. Counters' /\ BlockStatuses' /\ IterStatuses'
  BY <1>0, <1>1, CountersStep, BlockStatusesStep, IterStatusesStep
<1>4. InUse' /\ OneHolder' /\ Holdings' /\ Held'
  BY <1>0, InUseStep, OneHolderStep, HoldingsStep, HeldStep
<1>5. ControlOnce'
  BY <1>0, ControlOnceStep
<1>6. ControlPlace' /\ Joins' /\ FullFrame'
  BY <1>0, <1>5, ControlPlaceStep, JoinsStep, FullFrameStep
<1>7. PlaceStages' /\ IdleStages' /\ BehindLeft' /\ CachedStageIsOld'
  BY <1>0, <1>1, PlaceStagesStep, IdleStagesStep, BehindLeftStep, CachedStageStep
<1>8. ThrottleFlag' /\ SuspendTakesOwnControl' /\ NoLostWakeUp'
  BY <1>0, <1>1, <1>2, <1>3, <1>4, ThrottleFlagStep, SuspendTakesStep, NoLostWakeUpStep
<1>9. Bounds'
  BY <1>0, BoundsStep
<1> QED
  BY <1>1, <1>2, <1>3, <1>4, <1>5, <1>6, <1>7, <1>8, <1>9 DEF IInv

\* The inductive invariant holds in every reachable state.
LEMMA Inductive == Spec => []IInv
BY IInvInit, IInvStep, PTL DEF Spec

----------------------------------------------------------------------------
\* There is always room: the iterations whose frames are children of the
\* control frame leave the next block free, and two blocks at its setup.
LEMMA AliveBound ==
  ASSUME Types, Places
  PROVE  /\ Cardinality(Alive) \in Nat /\ Cardinality(Alive) <= K - 1
         /\ DoneWithLeft(Right(NextBlock)) => Cardinality(Alive) <= K - 2
<1>0. /\ NextBlock \in Blocks /\ Right(NextBlock) \in Blocks /\ Right(NextBlock) # NextBlock
  BY CurrentBlocks, Neighbours DEF Types
<1>1. \A b \in Blocks : DoneWithLeft(b) => b \notin Alive
  BY DEF DoneWithLeft, Alive, AlivePCs
<1> DEFINE B == Blocks \ {NextBlock}
<1>2. IsFiniteSet(B) /\ Cardinality(B) = K - 1
  BY <1>0, AliveFinite, FS_RemoveElement
<1>3. Alive \in SUBSET B
  BY <1>0, <1>1 DEF Alive, Places
<1>4. Cardinality(Alive) \in Nat /\ Cardinality(Alive) <= K - 1
  BY <1>2, <1>3, AliveFinite, FS_Subset, FS_CardinalityType
<1>5. ASSUME DoneWithLeft(Right(NextBlock)) PROVE Cardinality(Alive) <= K - 2
  <2>1. Right(NextBlock) \in B
    BY <1>0
  <2> DEFINE C == B \ {Right(NextBlock)}
  <2>2. Alive \in SUBSET C
    BY <1>0, <1>1, <1>3, <1>5
  <2> HIDE DEF B
  <2>3. IsFiniteSet(C) /\ Cardinality(C) = K - 2
    BY <1>2, <2>1, FS_RemoveElement, RingAssumption
  <2> QED
    BY <2>2, <2>3, FS_Subset
<1> QED
  BY <1>4, <1>5

\* The bounds of the types.
LEMMA TypeCorrect == IInv => TypeOK
<1> SUFFICES ASSUME IInv PROVE TypeOK
  OBVIOUS
<1>0. Types /\ Flags /\ Numbers /\ Places /\ Counters /\ Joins /\ Bounds
  BY DEF IInv
<1>1. \A b \in Blocks : iter_num[b] \in -1 .. MaxIter + 1
  <2> SUFFICES ASSUME NEW b \in Blocks PROVE iter_num[b] \in -1 .. MaxIter + 1
    OBVIOUS
  <2>1. /\ current_iter \in Int /\ Reserved(b) \in Int /\ Reserved(b) <= current_iter /\ iter_num[b] \in Int
        /\ Reserved(b) = current_iter => b = Current
        /\ current_iter <= MaxIter + 2 /\ MaxIter \in Nat
    BY <1>0, ReservedBlocks, BoundAssumption DEF Types, Bounds
  <2>2. CASE cpc \in NotStarted
    BY <1>0, <2>1, <2>2 DEF Numbers
  <2>3. CASE cpc \notin NotStarted
    <3>1. current_iter <= MaxIter + 1
      BY <1>0, <2>3 DEF Types, ControlPCs, NotStarted, Bounds, AtThrottle
    <3> QED
      BY <1>0, <2>1, <2>3, <3>1 DEF Numbers
  <2> QED
    BY <2>2, <2>3
<1>2. iter_num \in [Blocks -> -1 .. MaxIter + 1]
  BY <1>0, <1>1 DEF Types
<1>3. cleanup_counter \in [Blocks -> 0 .. InitialVal]
  BY <1>0 DEF Types, Counters
<1>4. current_iter \in 1 .. MaxIter + 2
  BY <1>0, BoundAssumption DEF Types, Bounds
<1>5. join_counter \in 1 .. K
  <2>1. join_counter = 1 \/ join_counter = 1 + Cardinality(Alive) \/ join_counter = Cardinality(Alive)
    BY <1>0 DEF Joins, Types
  <2> QED
    BY <1>0, <2>1, AliveBound, RingAssumption DEF Joins, Types
<1> QED
  BY <1>0, <1>2, <1>3, <1>4, <1>5 DEF Types, Flags, TypeOK, Statuses, ControlPCs, ResumeFlags, ParentFlags

\* A block stays reserved for the left neighbour while it is needed.
LEMMA LeftStays == IInv => LeftNeighbourStays
<1> SUFFICES ASSUME IInv, NEW b \in Blocks, ~DoneWithLeft(b)
             PROVE  iter_num[b] = Reserved(b) /\ iter_num[Left(b)] = iter_num[b] - 1
  BY DEF LeftNeighbourStays
<1>1. Types /\ Numbers /\ Places
  BY DEF IInv
<1>2. Started(b)
  BY <1>1, Active DEF DoneWithLeft
<1>3. Started(Left(b)) /\ Reserved(Left(b)) = Reserved(b) - 1
  BY <1>1, LeftStarted, LeftInUse
<1> QED
  BY <1>2, <1>3 DEF Started

\* The control frame has one holder, or is waited for.
LEMMA HeldOnce == IInv => ControlHeldOnce
<1> SUFFICES ASSUME IInv PROVE ControlHeldOnce
  OBVIOUS
<1>0. Types /\ Counters /\ ControlOnce /\ ControlPlace /\ Joins
  BY DEF IInv
<1>1. \A g, h \in Holders : g = h
  <2> SUFFICES ASSUME NEW g \in Holders, NEW h \in Holders PROVE g = h
    OBVIOUS
  <2> DEFINE In(w, s) == \/ s = "runs" /\ frame_ff[w] = Control
                         \/ s = "queued" /\ next_frame_ff[w] = Control
                         \/ s = "implicit" /\ parent_resume[w] # "none"
  <2>1. \A x \in Holders : \E w \in Workers, s \in {"runs", "queued", "implicit"} : x = <<w, s>> /\ In(w, s)
    BY DEF Holders
  <2>2. PICK w \in Workers, s \in {"runs", "queued", "implicit"} : g = <<w, s>> /\ In(w, s)
    BY <2>1
  <2>3. PICK v \in Workers, t \in {"runs", "queued", "implicit"} : h = <<v, t>> /\ In(v, t)
    BY <2>1
  <2>4. w = v
    BY <1>0, <2>2, <2>3 DEF ControlOnce, HasControl
  <2>5. s = t
    BY <1>0, <2>2, <2>3, <2>4 DEF ControlOnce
  <2> QED
    BY <2>2, <2>3, <2>4, <2>5
<1>2. ASSUME Holders = {}
      PROVE  \/ /\ cpc = "setup"
                /\ resume_flags[Control] = "suspended"
                /\ cleanup_counter[NextBlock] > 0
             \/ /\ cpc = "cleanup"
                /\ \E b \in Blocks : pc[b] # "idle"
  <2>1. \A w \in Workers : ~HasControl(w)
    <3> SUFFICES ASSUME NEW w \in Workers, HasControl(w) PROVE FALSE
      OBVIOUS
    <3>1. <<w, "runs">> \in Holders \/ <<w, "queued">> \in Holders \/ <<w, "implicit">> \in Holders
      BY DEF HasControl, Holders
    <3> QED
      BY <1>2, <3>1
  <2>2. \A w \in Workers : frame_ff[w] # Control /\ parent_resume[w] = "none"
    BY <2>1 DEF HasControl
  <2>3. cpc \in {"setup", "cleanup"}
    BY <1>0, <2>1, <2>2 DEF ControlPlace, Types, ControlPCs
  <2>4. CASE cpc = "setup"
    <3>1. resume_flags[Control] = "suspended" /\ cleanup_counter[NextBlock] # 0
      BY <1>0, <2>1, <2>2, <2>4 DEF ControlPlace
    <3>2. cleanup_counter[NextBlock] \in 0 .. InitialVal
      BY <1>0, CurrentBlocks DEF Counters, Types
    <3> QED
      BY <2>4, <3>1, <3>2 DEF InitialVal, FinishVal, ThrottleVal
  <2>5. CASE cpc = "cleanup"
    <3>1. Cardinality(Alive) >= 1
      BY <1>0, <2>1, <2>5 DEF Joins, Ended
    <3>2. Alive # {}
      BY <3>1, FS_EmptySet
    <3>3. \E b \in Blocks : pc[b] # "idle"
      BY <3>2 DEF Alive, AlivePCs
    <3> QED
      BY <2>5, <3>3
  <2> QED
    BY <2>3, <2>4, <2>5
<1> QED
  BY <1>1, <1>2 DEF ControlHeldOnce

\* A parent flag and the resume flag of the control frame agree.
LEMMA FlagMatches == IInv => FlagMatchesControl
<1> SUFFICES ASSUME IInv, NEW w \in Workers
             PROVE  /\ parent_resume[w] = "self" => resume_flags[Control] = "normal"
                    /\ parent_resume[w] = "throttle" => /\ resume_flags[Control] = "suspended"
                                                        /\ cleanup_counter[NextBlock] = 0
  BY DEF FlagMatchesControl
<1>0. Types /\ ControlOnce /\ ControlPlace
  BY DEF IInv
<1>1. ASSUME parent_resume[w] = "self" PROVE resume_flags[Control] = "normal"
  <2>1. resume_flags[Control] \in ResumeFlags
    BY <1>0, Names DEF Types
  <2>2. resume_flags[Control] # "suspended"
    BY <1>0, <1>1 DEF ControlPlace
  <2>3. resume_flags[Control] # "resuming"
    <3> SUFFICES ASSUME NEW v \in Workers, next_frame_ff[v] = Control PROVE FALSE
      BY <1>0 DEF ControlPlace
    <3> QED
      BY <1>0, <1>1 DEF ControlOnce, HasControl
  <2> QED
    BY <2>1, <2>2, <2>3 DEF ResumeFlags
<1> QED
  BY <1>0, <1>1 DEF ControlPlace

\* The assertions follow from the invariant.
LEMMA Asserts == IInv => AssertionsHold
<1> SUFFICES ASSUME IInv PROVE AssertionsHold
  OBVIOUS
<1>0. /\ Types /\ Numbers /\ Places /\ Counters /\ BlockStatuses /\ IterStatuses /\ InUse
      /\ Holdings /\ ControlPlace /\ Joins /\ FullFrame /\ BehindLeft
  BY DEF IInv
<1>c. Current \in Blocks /\ NextBlock \in Blocks
  BY <1>0, CurrentBlocks DEF Types
<1>1. cpc = "done" => /\ \A b \in Blocks : pc[b] = "idle"
                      /\ \A w \in Workers : frame_ff[w] \notin Blocks
  <2> SUFFICES ASSUME cpc = "done" PROVE AllIdle /\ \A w \in Workers : frame_ff[w] \notin Blocks
    BY DEF AllIdle
  <2>1. AllIdle
    BY <1>0 DEF ControlPlace, Joins, Ended, HasControl
  <2> QED
    BY <1>0, <2>1 DEF AllIdle, Holdings, RunningPCs, AlivePCs, Finishing
<1> SUFFICES ASSUME NEW w \in Workers
             PROVE  /\ RunsControl(w, "loop") /\ test_condition =>
                         /\ block_status[Current] = "in_use"
                         /\ iter_status[Current] = "finished"
                         /\ cleanup_counter[Current] = InitialVal
                    /\ RunsControl(w, "slow") => control_ff
                    /\ RunsControl(w, "setup") =>
                         /\ block_status[NextBlock] = "available"
                         /\ cleanup_counter[NextBlock] = 0
                         /\ control_ff => join_counter < K
                    /\ Stealable(w) =>
                         /\ parent_resume[w] = "none" /\ ~iter_ff_on_top[w]
                         /\ iter_status[Current] = "standard" /\ ~in_use[Current]
                    /\ \A b \in Blocks : Executes(w, b) =>
                         /\ pc[b] = "promote" /\ iter_status[b] # "promoted" => control_ff
                         /\ pc[b] \in {"suspend", "suspending"} => frame_ff[w] = b
                         /\ pc[b] = "return" =>
                              /\ iter_ff_on_top[w]
                              /\ join_counter = 1 => /\ parent_resume[w] = "none"
                                                     /\ cpc = "cleanup"
                         /\ pc[b] \in {"free_left", "attached_left"} =>
                              stage[Left(b)] >= PostStage /\ block_status[Left(b)] = "in_use"
                         /\ pc[b] = "attached_left" => cleanup_counter[Left(b)] > FinishVal
                         /\ pc[b] = "attached_own" => cleanup_counter[b] > FinishVal
                    /\ frame_ff[w] = NoFrame /\ next_frame_ff[w] = NoFrame => parent_resume[w] = "none"
                    /\ frame_ff[w] \in Blocks /\ pc[frame_ff[w]] \in {"suspending"} =>
                         next_frame_ff[w] = NoFrame
  BY <1>1 DEF AssertionsHold
<1>2. RunsControl(w, "loop") =>
        /\ block_status[Current] = "in_use"
        /\ iter_status[Current] = "finished"
        /\ cleanup_counter[Current] = InitialVal
  <2> SUFFICES ASSUME cpc = "loop" PROVE /\ block_status[Current] = "in_use"
                                         /\ iter_status[Current] = "finished"
                                         /\ cleanup_counter[Current] = InitialVal
    BY DEF RunsControl
  <2>1. cleanup_counter[Current] = InitialVal
    BY <1>0, CurrentCount
  <2> QED
    BY <1>0, <1>c, <2>1 DEF BlockStatuses, Types, InitialVal, FinishVal, ThrottleVal
<1>3. RunsControl(w, "slow") => control_ff
  BY <1>0 DEF FullFrame, RunsControl
<1>4. ASSUME RunsControl(w, "setup")
      PROVE  block_status[NextBlock] = "available" /\ cleanup_counter[NextBlock] = 0 /\ join_counter < K
  <2>1. /\ cleanup_counter[NextBlock] = 0 /\ DoneWithLeft(Right(NextBlock))
        /\ block_status[NextBlock] = "available"
    BY <1>0, <1>4, SetupFacts
  <2>2. join_counter = 1 + Cardinality(Alive)
    BY <1>0, <1>4 DEF RunsControl, Joins, Ended
  <2> QED
    BY <1>0, <2>1, <2>2, AliveBound, RingAssumption
<1>5. ASSUME Stealable(w)
      PROVE  /\ parent_resume[w] = "none" /\ ~iter_ff_on_top[w]
             /\ iter_status[Current] = "standard" /\ ~in_use[Current]
  <2>1. frame_ff[w] = Control /\ cpc = "body" /\ Attached(Current)
    BY <1>5 DEF Stealable, RunsControl, Attached
  <2> QED
    BY <1>0, <1>c, <2>1 DEF Holdings, IterStatuses, InUse, Ended
<1>6. ASSUME NEW b \in Blocks, Executes(w, b)
      PROVE  /\ pc[b] = "promote" => control_ff
             /\ pc[b] \in {"suspend", "suspending"} => frame_ff[w] = b
             /\ pc[b] = "return" =>
                  /\ iter_ff_on_top[w]
                  /\ join_counter = 1 => /\ parent_resume[w] = "none"
                                         /\ cpc = "cleanup"
             /\ pc[b] \in {"free_left", "attached_left"} =>
                  stage[Left(b)] >= PostStage /\ block_status[Left(b)] = "in_use"
             /\ pc[b] = "attached_left" => cleanup_counter[Left(b)] > FinishVal
             /\ pc[b] = "attached_own" => cleanup_counter[b] > FinishVal
  <2>1. pc[b] = "promote" => control_ff
    BY <1>0 DEF FullFrame
  <2>2. pc[b] \in {"suspend", "suspending"} => frame_ff[w] = b
    BY <1>0, <1>6, RunsPromoted
  <2>3. ASSUME pc[b] = "return"
        PROVE  /\ iter_ff_on_top[w]
               /\ join_counter = 1 => parent_resume[w] = "none" /\ cpc = "cleanup"
    <3>1. iter_ff_on_top[w] /\ ~Attached(b)
      BY <1>0, <1>6, <2>3, RunsPromoted
    <3>2. Alive # {} /\ ~AllIdle
      BY <2>3, <3>1 DEF Alive, AlivePCs, AllIdle
    <3>3. Cardinality(Alive) \in Nat /\ Cardinality(Alive) # 0
      BY <3>2, AliveFinite, FS_EmptySet, FS_CardinalityType
    <3>4. ASSUME join_counter = 1 PROVE parent_resume[w] = "none" /\ cpc = "cleanup"
      <4>1. cpc \in Ended
        BY <1>0, <3>3, <3>4 DEF Joins
      <4>2. \A v \in Workers : ~HasControl(v)
        BY <1>0, <3>2, <4>1 DEF Joins
      <4> QED
        BY <1>0, <4>1, <4>2 DEF HasControl, ControlPlace, Ended
    <3> QED
      BY <3>1, <3>4
  <2>4. ASSUME pc[b] \in {"free_left", "attached_left"}
        PROVE  stage[Left(b)] >= PostStage /\ block_status[Left(b)] = "in_use"
               /\ cleanup_counter[Left(b)] >= FinishVal /\ Counted(Left(b)) /\ RightPending(Left(b))
    <3>1. Left(b) \in Blocks /\ RightPending(Left(b)) /\ Counted(Left(b))
      BY <1>0, <2>4, FreesCounted
    <3>2. cleanup_counter[Left(b)] >= FinishVal /\ cleanup_counter[Left(b)] \in Int
      BY <3>1 DEF Counted, FinishVal, ThrottleVal
    <3>3. block_status[Left(b)] = "in_use"
      BY <1>0, <3>1, <3>2 DEF BlockStatuses, Types, FinishVal, ThrottleVal
    <3>4. stage[Left(b)] >= PostStage
      BY <1>0, <2>4 DEF BehindLeft
    <3> QED
      BY <3>1, <3>2, <3>3, <3>4
  <2>5. ASSUME pc[b] = "attached_left" PROVE cleanup_counter[Left(b)] > FinishVal
    <3>1. cpc = "body"
      BY <1>0, <1>6, <2>5, EndsAttached
    <3>2. ThrottlePending(Left(b))
      BY <3>1 DEF ThrottlePending
    <3> QED
      BY <2>4, <2>5, <3>2 DEF Counted, FinishVal, ThrottleVal
  <2>6. ASSUME pc[b] = "attached_own" PROVE cleanup_counter[b] > FinishVal
    <3>1. cpc = "body" /\ b = Current
      BY <1>0, <1>6, <2>6, EndsAttached
    <3> QED
      BY <1>0, <3>1, CurrentCount DEF InitialVal, FinishVal, ThrottleVal
  <2> QED
    BY <2>1, <2>2, <2>3, <2>4, <2>5, <2>6
<1>7. frame_ff[w] = NoFrame /\ next_frame_ff[w] = NoFrame => parent_resume[w] = "none"
  BY <1>0, Names DEF Holdings
<1>8. frame_ff[w] \in Blocks /\ pc[frame_ff[w]] \in {"suspending"} => next_frame_ff[w] = NoFrame
  BY <1>0 DEF Holdings
<1> QED
  BY <1>2, <1>3, <1>4, <1>5, <1>6, <1>7, <1>8

----------------------------------------------------------------------------
\* No counter, frame or place leaves its range, for every number of workers,
\* ring size and bound: in particular the join counter never exceeds the size
\* of the ring, so the throttle bounds the full frames.
THEOREM PiperTypes == Spec => []TypeOK
BY Inductive, TypeCorrect, PTL

\* The cleanup counter of a block is exactly what is still to come: "3 updates
\* to the cleanup counter" reach zero once, at the last of them.
THEOREM CleanupCounters == Spec => []CounterProtocol
<1>1. IInv => CounterProtocol
  BY DEF IInv, Counters, Counted, CounterProtocol, Ended
<1> QED
  BY <1>1, Inductive, PTL

\* The block an iteration reads as its left neighbour holds the iteration
\* before it as long as it is read: no block of the ring is reused too soon.
THEOREM BlocksReusedInTime == Spec => []LeftNeighbourStays
BY Inductive, LeftStays, PTL

\* The cached stage of the left neighbour is never ahead of its stage: a stage
\* wait that goes through on the cache would go through on the stage.
THEOREM CacheIsSafe == Spec => []CachedStageIsOld
<1>1. IInv => CachedStageIsOld
  BY DEF IInv
<1> QED
  BY <1>1, Inductive, PTL

\* No wake-up is lost between an iteration that suspends at its stage wait and
\* the worker that advances its left neighbour.
THEOREM WakeUpsKept == Spec => []NoLostWakeUp
<1>1. IInv => NoLostWakeUp
  BY DEF IInv
<1> QED
  BY <1>1, Inductive, PTL

\* The control frame is held by one worker at most, and by none only while an
\* iteration that will resume it still runs.
THEOREM ControlIsHeld == Spec => []ControlHeldOnce
BY Inductive, HeldOnce, PTL

\* The implicit parent flag of a worker always tells what the control frame
\* waits for: nobody else can have resumed it.
THEOREM FlagsTellTruth == Spec => []FlagMatchesControl
BY Inductive, FlagMatches, PTL

\* An iteration that suspends takes only a control frame it has itself left
\* behind.
THEOREM SuspendIsSafe == Spec => []SuspendTakesOwnControl
<1>1. IInv => SuspendTakesOwnControl
  BY DEF IInv
<1> QED
  BY <1>1, Inductive, PTL

\* The assertions of the scheduler never fail, and the ring is freed only when
\* no iteration is left.
THEOREM PiperAssertions == Spec => []AssertionsHold
BY Inductive, Asserts, PTL

----------------------------------------------------------------------------
(***************************************************************************)
(* The ring of block locks.  The control frame's lock, which IInv does not *)
(* speak of, keeps it open: a thief and a promotion need it as well.       *)
(***************************************************************************)

\* An iteration that has counted its end on its left block.
AfterFree == Finishing \ {"free_left"}

\* What needs no lock of a block to the right: no iteration, one on top of the
\* control frame, or one that has left its last stage.
Resting == {"idle", "leave", "return"}
Rests(b) == Attached(b) \/ pc[b] \in Resting

OneFinisher == \A b, c \in Blocks : pc[b] \in Finishing /\ pc[c] \in Finishing => b = c
FreedLeft == \A b \in Blocks : pc[b] \in AfterFree => Rests(Left(b))

RingInv == OneFinisher /\ FreedLeft

\* The left block of an iteration that has come to free it has no iteration
\* that waits or suspends.
LEMMA LeftRests ==
  ASSUME Types, Places, PlaceStages, BehindLeft, OneFinisher,
         NEW b \in Blocks, pc[b] = "free_left"
  PROVE  Rests(Left(b))
<1>1. Left(b) \in Blocks /\ Left(b) # b
  BY Neighbours
<1>2. stage[Left(b)] >= PostStage
  BY DEF BehindLeft
<1>3. pc[Left(b)] \notin Finishing
  BY <1>1 DEF OneFinisher, Finishing
<1>4. pc[Left(b)] \notin {"user", "last", "wait", "stall", "promote", "suspend", "suspending", "asleep", "final"}
  <2>1. MaxStage \in Nat /\ FinalStage = MaxStage + 1 /\ PostStage = MaxStage + 2
    BY BoundAssumption DEF FinalStage, PostStage
  <2>2. stage[Left(b)] \in Int
    BY <1>1, BoundAssumption DEF Types, FinishStage
  <2>3. ~(stage[Left(b)] <= MaxStage) /\ ~(stage[Left(b)] \in 1 .. FinalStage) /\ stage[Left(b)] # FinalStage
    BY <1>2, <2>1, <2>2
  <2> QED
    BY <1>1, <2>3 DEF PlaceStages
<1>5. ~Attached(Left(b)) => pc[Left(b)] \in AlivePCs \cup Finishing \cup {"idle"}
  BY <1>1 DEF Places
<1> QED
  BY <1>3, <1>4, <1>5 DEF Rests, Resting, AlivePCs

\* No lock is taken at the start.
LEMMA RingInit == Init => RingInv
BY DEF Init, RingInv, OneFinisher, FreedLeft, AfterFree, Finishing

\* One iteration at a time is ending, and once it has freed its left block that
\* block runs nothing but an iteration on top of the control frame: after every
\* step.
LEMMA RingStep ==
  ASSUME IInv, RingInv, [Next]_vars
  PROVE  RingInv'
<1>0. Types /\ Places /\ Holdings /\ IterStatuses /\ PlaceStages /\ BehindLeft
  BY DEF IInv
<1> USE <1>0
<1>l. ASSUME NEW b \in Blocks, ~ControlLocked PROVE pc[b] \notin Finishing
  BY <1>l DEF ControlLocked
\* a step of the iteration in block b
<1>k. ASSUME NEW b \in Blocks, NEW p, pc' = [pc EXCEPT ![b] = p],
             UNCHANGED <<cpc, current_iter>>,
             p \in Finishing => pc[b] \in Finishing \/ ~ControlLocked,
             p \in AfterFree => pc[b] \in AfterFree \/ Rests(Left(b)),
             pc[b] \in Resting => p \in Resting \/ Attached(b) \/ ~ControlLocked
      PROVE  RingInv'
  <2>1. \A c \in Blocks : pc'[c] = (IF c = b THEN p ELSE pc[c]) /\ (Attached(c)' <=> Attached(c))
    BY <1>k, SameIter DEF Types, Attached
  <2>2. OneFinisher'
    BY <1>k, <1>l, <2>1 DEF RingInv, OneFinisher
  <2>3. ASSUME NEW c \in Blocks, pc'[c] \in AfterFree PROVE Rests(Left(c))'
    <3>1. Left(c) \in Blocks /\ Left(c) # c
      BY Neighbours
    <3>2. CASE c = b
      BY <1>k, <2>1, <2>3, <3>1, <3>2 DEF RingInv, FreedLeft, Rests
    <3>3. CASE c # b
      <4>1. pc[c] \in AfterFree /\ Rests(Left(c)) /\ ControlLocked
        BY <2>1, <2>3, <3>3, <1>l DEF RingInv, FreedLeft, AfterFree
      <4> QED
        BY <1>k, <2>1, <3>1, <4>1 DEF Rests
    <3> QED
      BY <3>2, <3>3
  <2> QED
    BY <2>2, <2>3 DEF RingInv, FreedLeft
\* nobody is ending
<1>n. ASSUME ~ControlLocked, \A c \in Blocks : pc'[c] \in Finishing => pc[c] \in Finishing
      PROVE  RingInv'
  BY <1>n, <1>l DEF RingInv, OneFinisher, FreedLeft, AfterFree
\* the iterations stay where they are
<1>u. ASSUME UNCHANGED pc, cpc # "body" \/ UNCHANGED <<cpc, current_iter>> PROVE RingInv'
  <2>1. ASSUME NEW c \in Blocks, Rests(c) PROVE Rests(c)'
    BY <1>u, <2>1, SameIter DEF Rests, Attached
  <2> QED
    BY <1>u, <2>1, Neighbours DEF RingInv, OneFinisher, FreedLeft
<1>1. ASSUME NEW w \in Workers, ControlStep(w) PROVE RingInv'
  <2>1. CASE InitIterFrame(w)
    <3>1. /\ cpc = "loop" /\ cpc' = "body" /\ UNCHANGED current_iter /\ Current \in Blocks
          /\ \A c \in Blocks : pc'[c] = IF c = Current THEN "test" ELSE pc[c]
      BY <2>1, CurrentBlocks DEF InitIterFrame, RunsControl, Goto, Types
    <3>2. ASSUME NEW c \in Blocks, Rests(c) PROVE Rests(c)'
      BY <3>1, <3>2, SameIter DEF Rests, Attached
    <3> QED
      BY <3>1, <3>2, Neighbours DEF RingInv, OneFinisher, FreedLeft, AfterFree, Finishing
  <2>2. CASE ~InitIterFrame(w)
    <3>1. UNCHANGED pc /\ cpc # "body"
      BY <1>1, <2>2 DEF ControlStep, EndLoop, ThrottleFast, ThrottleSlow, SuspendControl, SetupNext,
         SyncControl, CleanUp, RunsControl, code
    <3> QED
      BY <1>u, <3>1
  <2> QED
    BY <2>1, <2>2
<1>2. ASSUME NEW w \in Workers, ResumeFrame(w) PROVE RingInv'
  <2>1. UNCHANGED <<cpc, current_iter>> /\ pc' = [c \in Blocks |-> IF c = next_frame_ff[w] THEN "stall" ELSE pc[c]]
    BY <1>2 DEF ResumeFrame, control
  <2>2. CASE next_frame_ff[w] \in Blocks
    <3>1. pc[next_frame_ff[w]] = "asleep"
      BY <2>2 DEF Holdings
    <3>2. pc' = [pc EXCEPT ![next_frame_ff[w]] = "stall"]
      BY <2>1 DEF Types
    <3> QED
      BY <1>k, <2>1, <2>2, <3>1, <3>2 DEF Resting, Finishing, AfterFree
  <2>3. CASE next_frame_ff[w] \notin Blocks
    <3>1. UNCHANGED pc
      BY <2>1, <2>3 DEF Types
    <3> QED
      BY <1>u, <2>1, <3>1
  <2> QED
    BY <2>2, <2>3
<1>3. ASSUME NEW w \in Workers, NEW b \in Blocks, UserStep(w, b) PROVE RingInv'
  <2>1. /\ UNCHANGED <<cpc, current_iter>> /\ pc[b] \in {"test", "user", "last"}
        /\ \E p \in {"user", "last", "wait"} : pc' = [pc EXCEPT ![b] = p]
    <3>1. CASE \E s \in 1 .. MaxStage : Stage(w, b, s)
      BY <3>1 DEF Stage, Advance, UserStages, Types, control
    <3>2. CASE ~\E s \in 1 .. MaxStage : Stage(w, b, s)
      BY <1>3, <3>2 DEF UserStep, TestCondition, StageWait, Advance, Goto, ring, control, Types
    <3> QED
      BY <3>1, <3>2
  <2> QED
    BY <1>k, <2>1 DEF Resting, Finishing, AfterFree
<1>4. ASSUME NEW w \in Workers, NEW b \in Blocks, WaitStep(w, b) PROVE RingInv'
  <2>1. CASE Promote(w, b)
    <3>1. ~ControlLocked /\ pc' = [pc EXCEPT ![b] = "suspend"]
      BY <2>1 DEF Promote, Goto
    <3> QED
      BY <1>n, <3>1 DEF Types, Finishing
  <2>2. CASE ~Promote(w, b)
    <3>1. /\ UNCHANGED <<cpc, current_iter>> /\ pc[b] \in {"wait", "stall", "promote", "suspend", "suspending"}
          /\ \E p \in {"user", "final", "wait", "stall", "promote", "suspend", "suspending", "asleep"} :
               pc' = [pc EXCEPT ![b] = p]
      BY <1>4, <2>2 DEF WaitStep, CachedEnough, AfterWait, ReadLeft, Stall, AlreadyPromoted, Suspend,
         SuspendFails, SuspendNext, Goto, ring, control
    <3> QED
      BY <1>k, <3>1 DEF Resting, Finishing, AfterFree
  <2> QED
    BY <2>1, <2>2
<1>5. ASSUME NEW w \in Workers, NEW b \in Blocks, LeaveStep(w, b) PROVE RingInv'
  <2>1. CASE AttachedFreeOwn(w, b)
    <3>1. b = Current /\ cpc = "body" /\ cpc' = "throttle" /\ UNCHANGED current_iter
          /\ pc[b] = "attached_own" /\ \A c \in Blocks : pc'[c] = IF c = b THEN "idle" ELSE pc[c]
      BY <2>1, EndsAttached DEF AttachedFreeOwn, Goto, Types
    <3>2. ASSUME NEW c \in Blocks, Rests(c) PROVE Rests(c)'
      BY <3>1, <3>2, SameIter DEF Rests, Attached, Resting
    <3> QED
      BY <3>1, <3>2, Neighbours DEF RingInv, OneFinisher, FreedLeft, AfterFree, Finishing
  <2>2. CASE LeaveFrame(w, b)
    <3>1. /\ pc[b] = "leave" /\ UNCHANGED <<cpc, current_iter>>
          /\ pc' = [pc EXCEPT ![b] = IF frame_ff[w] = Control THEN "attached_done" ELSE "return"]
          /\ Executes(w, b)
      BY <2>2 DEF LeaveFrame, Goto, control
    <3>2. frame_ff[w] = Control => Attached(b)
      <4>1. Control \notin Blocks
        BY RingAssumption DEF Control, Blocks
      <4> QED
        BY <3>1, <4>1, Executor
    <3> QED
      BY <1>k, <3>1, <3>2 DEF Resting, Finishing, AfterFree
  <2>3. CASE ReturnOther(w, b)
    <3>1. ~ControlLocked /\ UNCHANGED <<cpc, current_iter>> /\ pc' = [pc EXCEPT ![b] = "free_left"]
      BY <2>3 DEF ReturnOther, Goto
    <3> QED
      BY <1>k, <3>1 DEF AfterFree
  <2>4. CASE FreeLeft(w, b)
    <3>1. pc[b] = "free_left" /\ UNCHANGED <<cpc, current_iter>> /\ pc' = [pc EXCEPT ![b] = "stage_done"]
      BY <2>4 DEF FreeLeft, Goto, control
    <3>2. Rests(Left(b))
      BY <3>1, LeftRests DEF RingInv
    <3> QED
      BY <1>k, <3>1, <3>2 DEF Resting, Finishing
  <2>5. CASE StageDone(w, b) \/ CheckRight(w, b) \/ FreeOwn(w, b)
    <3>1. /\ pc[b] \in AfterFree /\ UNCHANGED <<cpc, current_iter>>
          /\ \E p \in {"check_right", "free_own", "idle"} : pc' = [pc EXCEPT ![b] = p]
      BY <2>5 DEF StageDone, CheckRight, FreeOwn, Goto, control, AfterFree, Finishing
    <3> QED
      BY <1>k, <3>1 DEF Resting, Finishing, AfterFree
  <2>6. CASE FinishFinalStage(w, b) \/ AttachedDone(w, b) \/ AttachedFreeLeft(w, b) \/ ReturnLast(w, b)
    <3>1. /\ pc[b] \in {"final", "attached_done", "attached_left", "return"} /\ UNCHANGED <<cpc, current_iter>>
          /\ \E p \in {"leave", "attached_left", "attached_own", "idle"} :
               pc' = [pc EXCEPT ![b] = p] /\ (pc[b] = "return" => p = "idle")
      BY <2>6 DEF FinishFinalStage, AttachedDone, AttachedFreeLeft, ReturnLast, Goto, control
    <3> QED
      BY <1>k, <3>1 DEF Resting, Finishing, AfterFree
  <2> QED
    BY <1>5, <2>1, <2>2, <2>3, <2>4, <2>5, <2>6 DEF LeaveStep
<1>6. ASSUME NEW v \in Workers, NEW w \in Workers, StealControl(v, w) PROVE RingInv'
  BY <1>6, <1>n DEF StealControl
<1>7. ASSUME NEW v \in Workers, NEW w \in Workers, StealImplicitly(v, w) PROVE RingInv'
  BY <1>7, <1>u DEF StealImplicitly, control, code
<1>8. CASE UNCHANGED vars
  BY <1>8, <1>u DEF vars, control, code
<1> QED
  BY <1>1, <1>2, <1>3, <1>4, <1>5, <1>6, <1>7, <1>8 DEF Next, Step, Steals, Over

\* With as many workers as blocks each may hold the lock of one block, and still
\* they never wait for each other all around the ring, for any throttle limit and
\* any number of workers: an ending iteration holds the control frame's lock, and
\* without it the iteration that reuses its left block can neither be stolen from
\* nor promoted, which it must be before it suspends.
THEOREM NoRingOfLocks == Spec => []NoLockRing
<1>1. ASSUME IInv, RingInv PROVE NoLockRing
  <2> SUFFICES ASSUME \A b \in Blocks : pc[b] \in {"suspending", "check_right"}
               PROVE  FALSE
    BY DEF NoLockRing
  <2>1. Current \in Blocks /\ NextBlock \in Blocks /\ Left(NextBlock) \in Blocks
    BY <1>1, CurrentBlocks, Neighbours DEF IInv, Types
  <2>2. cpc # "body"
    BY <1>1, <2>1 DEF IInv, Places, AttachedPCs
  <2>3. pc[NextBlock] = "check_right"
    BY <1>1, <2>1 DEF IInv, Places, DoneWithLeft
  <2>4. Rests(Left(NextBlock))
    BY <1>1, <2>1, <2>3 DEF RingInv, FreedLeft, AfterFree, Finishing
  <2> QED
    BY <2>1, <2>2, <2>4 DEF Rests, Attached, Resting
<1>2. IInv /\ RingInv /\ [Next]_vars => RingInv'
  BY RingStep
<1> QED
  BY <1>1, <1>2, Inductive, RingInit, PTL DEF Spec

----------------------------------------------------------------------------
(***************************************************************************)
(* The refinement of the abstract pipeline.  One fact more than IInv is    *)
(* needed: what a block shows while it waits for its next iteration.       *)
(***************************************************************************)

\* A block that waits for its next iteration still shows a finished one.
Reused == cpc \in NotStarted /\ iter_num[Current] >= 0 => stage[Current] = FinishStage

\* A block waiting for its next iteration shows a finished one at the start.
LEMMA ReusedInit == Init => Reused
<1> SUFFICES ASSUME Init PROVE Reused
  OBVIOUS
<1>1. Current \in Blocks
  BY CurrentBlocks DEF Init
<1> QED
  BY <1>1 DEF Init, Reused

\* A block waiting for its next iteration shows a finished one, after every step.
LEMMA ReusedStep ==
  ASSUME IInv, Reused, [Next]_vars
  PROVE  Reused'
<1>0. /\ Types /\ Numbers /\ Places /\ Counters /\ BlockStatuses /\ IterStatuses /\ Holdings
      /\ ControlPlace /\ PlaceStages /\ IdleStages
  BY DEF IInv
<1>c. Current \in Blocks /\ NextBlock \in Blocks
  BY <1>0, CurrentBlocks DEF Types
<1>k. ASSUME UNCHANGED <<iter_num, current_iter>>, cpc' \in NotStarted => cpc \in NotStarted,
             cpc \in NotStarted => stage'[Current] = stage[Current]
      PROVE  Reused'
  <2>1. Current' = Current
    BY <1>k, SameIter
  <2>2. cpc \in NotStarted => stage'[Current'] = stage[Current]
    BY <1>k, <2>1
  <2>3. iter_num'[Current'] = iter_num[Current]
    BY <1>k, <2>1
  <2> QED
    BY <1>k, <2>2, <2>3 DEF Reused
<1>i. ASSUME NEW b \in Blocks, pc[b] # "idle", UNCHANGED <<iter_num, current_iter>>,
             cpc' \in NotStarted => cpc \in NotStarted,
             UNCHANGED stage \/ \E s : stage' = [stage EXCEPT ![b] = s]
      PROVE  Reused'
  <2>1. cpc \in NotStarted => b # Current
    BY <1>0, <1>i DEF Places
  <2>2. cpc \in NotStarted => stage'[Current] = stage[Current]
    BY <1>0, <1>c, <1>i, <2>1 DEF Types
  <2> QED
    BY <1>i, <1>k, <2>2
<1>1. ASSUME NEW w \in Workers, ControlStep(w) PROVE Reused'
  <2>1. CASE InitIterFrame(w)
    <3>1. cpc' = "body"
      BY <2>1 DEF InitIterFrame
    <3> QED
      BY <3>1 DEF Reused, NotStarted
  <2>2. CASE SetupNext(w)
    <3>1. /\ cpc = "setup" /\ RunsControl(w, "setup") /\ current_iter' = current_iter + 1
          /\ UNCHANGED <<iter_num, stage, pc>>
      BY <2>2 DEF SetupNext, RunsControl, code
    <3>2. Current' = NextBlock /\ pc[NextBlock] = "idle"
      BY <1>0, <3>1, NextIter, SetupFacts DEF Types
    <3>3. iter_num[NextBlock] >= 0 => stage[NextBlock] = FinishStage
      <4>1. NextBlock # Current /\ Reserved(NextBlock) \in Int
        BY <1>0, <1>c, CurrentBlocks, ReservedBlocks DEF Types
      <4>2. iter_num[NextBlock] >= 0 => Started(NextBlock) /\ Reserved(NextBlock) >= 0
        BY <1>0, <1>c, <4>1 DEF Numbers, Started
      <4> QED
        BY <1>0, <1>c, <3>1, <3>2, <4>2 DEF IdleStages, Ended
    <3> QED
      BY <3>1, <3>2, <3>3 DEF Reused
  <2>3. CASE EndLoop(w) \/ ThrottleFast(w) \/ ThrottleSlow(w) \/ SuspendControl(w) \/ SyncControl(w) \/ CleanUp(w)
    <3>1. /\ UNCHANGED <<iter_num, stage, current_iter>>
          /\ cpc' \in NotStarted => cpc \in NotStarted
      BY <2>3 DEF EndLoop, ThrottleFast, ThrottleSlow, SuspendControl, SyncControl, CleanUp, RunsControl, ring, NotStarted
    <3> QED
      BY <1>k, <3>1
  <2> QED
    BY <1>1, <2>1, <2>2, <2>3 DEF ControlStep
<1>2. ASSUME NEW w \in Workers, ResumeFrame(w) PROVE Reused'
  BY <1>2, <1>k DEF ResumeFrame, ring, control
<1>3. ASSUME NEW w \in Workers, NEW b \in Blocks, UserStep(w, b) PROVE Reused'
  <2>1. /\ pc[b] # "idle" /\ UNCHANGED <<iter_num, current_iter, cpc>>
        /\ UNCHANGED stage \/ \E s : stage' = [stage EXCEPT ![b] = s]
    BY <1>3 DEF UserStep, TestCondition, Stage, UserStages, StageWait, Advance, ring, control
  <2> QED
    BY <1>i, <2>1
<1>4. ASSUME NEW w \in Workers, NEW b \in Blocks, WaitStep(w, b) PROVE Reused'
  <2>1. /\ pc[b] # "idle" /\ UNCHANGED <<iter_num, current_iter, stage>>
        /\ cpc' \in NotStarted => cpc \in NotStarted
    BY <1>4 DEF WaitStep, CachedEnough, ReadLeft, Stall, Promote, AlreadyPromoted, SuspendFails, Suspend, SuspendNext,
       InstallIteration, ring, control, NotStarted
  <2> QED
    BY <1>i, <2>1
<1>5. ASSUME NEW w \in Workers, NEW b \in Blocks, LeaveStep(w, b) PROVE Reused'
  <2>1. /\ pc[b] # "idle" /\ UNCHANGED <<iter_num, current_iter>>
        /\ cpc' \in NotStarted => cpc \in NotStarted
        /\ UNCHANGED stage \/ \E s : stage' = [stage EXCEPT ![b] = s]
    BY <1>5 DEF LeaveStep, FinishFinalStage, LeaveFrame, AttachedDone, AttachedFreeLeft, AttachedFreeOwn, ReturnLast,
       ReturnOther, FreeLeft, StageDone, CheckRight, FreeOwn, ring, control, NotStarted
  <2> QED
    BY <1>i, <2>1
<1>6. ASSUME NEW v \in Workers, NEW w \in Workers, StealControl(v, w) PROVE Reused'
  BY <1>6, <1>k DEF StealControl, InstallIteration, NotStarted
<1>7. ASSUME NEW v \in Workers, NEW w \in Workers, StealImplicitly(v, w) PROVE Reused'
  BY <1>7, <1>k DEF StealImplicitly, control
<1>8. CASE UNCHANGED vars
  BY <1>8, <1>k DEF vars, ring, control
<1> QED
  BY <1>1, <1>2, <1>3, <1>4, <1>5, <1>6, <1>7, <1>8 DEF Next, Step, Steals, Over

----------------------------------------------------------------------------
\* The state of the abstract pipeline
Waits   == {"wait", "stall", "promote", "suspend", "suspending", "asleep"}
StageFn == [i \in 0 .. MaxIter + 1 |-> StageOf(i)]
WaitFn  == [i \in 0 .. MaxIter + 1 |-> WaitsAt(i)]

\* A step that moves no iteration is a stuttering step of the pipeline.
LEMMA Unmoved ==
  ASSUME UNCHANGED <<iter_num, stage, current_iter>>,
         \A b \in Blocks : pc'[b] \in Waits <=> pc[b] \in Waits
  PROVE  UNCHANGED <<StageFn, WaitFn>>
<1>1. Current' = Current
  BY SameIter
<1>2. \A i \in 0 .. MaxIter + 1 : StageOf(i)' = StageOf(i)
  BY <1>1 DEF StageOf
<1>3. \A i \in 0 .. MaxIter + 1 : Idx(i) \in Blocks
  BY BlockOf, BoundAssumption
<1>4. \A i \in 0 .. MaxIter + 1 : WaitsAt(i)' = WaitsAt(i)
  BY <1>3, Zenon DEF WaitsAt, Waits
<1> QED
  BY <1>2, <1>4 DEF StageFn, WaitFn

\* What the pipeline sees of the iteration in a block that is not idle, and of
\* the one to its left.
LEMMA Seen ==
  ASSUME IInv, NEW b \in Blocks, pc[b] # "idle"
  PROVE  /\ Reserved(b) \in 1 .. MaxIter + 1 /\ Idx(Reserved(b)) = b /\ iter_num[b] = Reserved(b)
         /\ StageFn[Reserved(b)] = stage[b] /\ (WaitFn[Reserved(b)] <=> pc[b] \in Waits)
         /\ ~DoneWithLeft(b) => StageFn[Reserved(b) - 1] = stage[Left(b)]
<1>0. Types /\ Numbers /\ Places /\ TypeOK
  BY TypeCorrect DEF IInv
<1>1. Started(b) /\ Reserved(b) >= 1 /\ ~(b = Current /\ cpc \in NotStarted)
  BY <1>0, Active
<1>2. /\ iter_num[b] = Reserved(b) /\ Reserved(b) \in Int /\ Reserved(b) <= current_iter /\ Idx(Reserved(b)) = b
      /\ current_iter \in Int
  BY <1>0, <1>1, ReservedBlocks, Reservations DEF Started, Types, Reserved
<1>3. Reserved(b) \in 1 .. MaxIter + 1
  <2>1. iter_num[b] \in -1 .. MaxIter + 1
    BY <1>0 DEF TypeOK
  <2> QED
    BY <1>1, <1>2, <2>1, BoundAssumption
<1>4. StageOf(Reserved(b)) = stage[b]
  BY <1>2 DEF StageOf, Current
<1>5. WaitsAt(Reserved(b)) <=> pc[b] \in Waits
  BY <1>2 DEF WaitsAt, Waits
<1>6. ASSUME ~DoneWithLeft(b) PROVE StageFn[Reserved(b) - 1] = stage[Left(b)]
  <2>1. /\ Left(b) \in Blocks /\ Started(Left(b)) /\ Reserved(Left(b)) = Reserved(b) - 1 /\ Left(b) # Current
    BY <1>0, <1>6, LeftStarted, LeftInUse
  <2>2. Idx(Reserved(b) - 1) = Left(b) /\ iter_num[Left(b)] = Reserved(b) - 1
    BY <1>2, <2>1, Reservations DEF Started, Reserved
  <2>3. Reserved(b) - 1 < current_iter
    BY <1>2
  <2>4. StageOf(Reserved(b) - 1) = stage[Left(b)]
    BY <1>2, <2>2, <2>3 DEF StageOf
  <2> QED
    BY <1>3, <2>4, BoundAssumption DEF StageFn
<1> QED
  BY <1>1, <1>2, <1>3, <1>4, <1>5, <1>6, BoundAssumption DEF StageFn, WaitFn

\* A step of the iteration in block b is a step of that iteration of the pipeline.
LEMMA Moved ==
  ASSUME IInv, NEW b \in Blocks, pc[b] # "idle", NEW p, NEW s,
         UNCHANGED <<iter_num, current_iter>>,
         pc' = [pc EXCEPT ![b] = p], stage' = [stage EXCEPT ![b] = s]
  PROVE  /\ StageFn' = [StageFn EXCEPT ![Reserved(b)] = s]
         /\ WaitFn' = [WaitFn EXCEPT ![Reserved(b)] = (p \in Waits)]
<1>0. Types /\ Current' = Current
  BY SameIter DEF IInv
<1>1. /\ Reserved(b) \in 1 .. MaxIter + 1 /\ Idx(Reserved(b)) = b /\ iter_num[b] = Reserved(b)
      /\ Reserved(b) <= current_iter /\ current_iter \in Int
  BY <1>0, Seen, ReservedBlocks DEF Types
<1>2. ASSUME NEW i \in 0 .. MaxIter + 1, i # Reserved(b)
      PROVE  StageOf(i)' = StageOf(i) /\ (WaitsAt(i)' <=> WaitsAt(i))
  <2>1. Idx(i) \in Blocks
    BY BlockOf, BoundAssumption
  <2>2. iter_num[Idx(i)] = i => Idx(i) # b
    BY <1>1, <1>2
  <2>3. iter_num[Idx(i)] = i => stage'[Idx(i)] = stage[Idx(i)] /\ pc'[Idx(i)] = pc[Idx(i)]
    BY <1>0, <2>1, <2>2 DEF Types
  <2>4. StageOf(i)' = StageOf(i)
    BY <1>0, <2>3 DEF StageOf
  <2>5. WaitsAt(i)' <=> WaitsAt(i)
    BY <2>3 DEF WaitsAt
  <2> QED
    BY <2>4, <2>5
<1>4. \A r : r = Reserved(b) => StageOf(r)' = s /\ (WaitsAt(r)' <=> p \in Waits)
  BY <1>0, <1>1 DEF StageOf, WaitsAt, Waits, Types, Current
<1>5. \A i \in 0 .. MaxIter + 1 : StageOf(i)' = [StageFn EXCEPT ![Reserved(b)] = s][i]
  BY <1>1, <1>2, <1>4 DEF StageFn
<1>6. \A i \in 0 .. MaxIter + 1 : WaitsAt(i)' = [WaitFn EXCEPT ![Reserved(b)] = (p \in Waits)][i]
  <2>1. \A i \in 0 .. MaxIter + 1 : WaitsAt(i)' \in BOOLEAN /\ WaitFn[i] \in BOOLEAN
    BY DEF WaitsAt, WaitFn
  <2> QED
    BY <1>1, <1>2, <1>4, <2>1 DEF WaitFn
<1>7. StageFn' = [StageFn EXCEPT ![Reserved(b)] = s]
  BY <1>5 DEF StageFn
<1> QED
  BY <1>6, <1>7 DEF WaitFn

----------------------------------------------------------------------------
\* What the pipeline sees of the other blocks.
LEMMA Gone ==
  ASSUME IInv, Reused, cpc = "loop", NEW i \in 0 .. MaxIter + 1, i < current_iter
  PROVE  /\ i = current_iter - 1 => StageOf(i) > 0
         /\ i <= (current_iter + 1) - K => StageOf(i) >= PostStage
         /\ Idx(i) = Current => StageOf(i) = FinishStage
<1>0. Types /\ Numbers /\ Places /\ PlaceStages /\ IdleStages
  BY DEF IInv
<1>n. i \in Int /\ i >= 0 /\ MaxIter \in Nat /\ current_iter \in Int /\ Idx(i) \in Blocks /\ K \in Int /\ K >= 2
  BY <1>0, BlockOf, BoundAssumption, RingAssumption DEF Types
<1>s. /\ PostStage = MaxStage + 2 /\ FinishStage = MaxStage + 3 /\ MaxStage \in Nat
      /\ \A b \in Blocks : stage[b] \in Int
  BY <1>0, StageOrder DEF Types
<1>c. Current \in Blocks /\ NextBlock \in Blocks /\ Current # NextBlock
  BY <1>0, CurrentBlocks DEF Types
<1>1. StageOf(i) = IF iter_num[Idx(i)] = i THEN stage[Idx(i)] ELSE FinishStage
  BY <1>n DEF StageOf
\* the iteration is over or on its way
<1>2. ASSUME Idx(i) # Current, iter_num[Idx(i)] = i PROVE stage[Idx(i)] >= 1
  <2> DEFINE b == Idx(i)
  <2>1. Started(b) /\ Reserved(b) >= 0
    <3>1. iter_num[b] = (IF Reserved(b) >= 0 THEN Reserved(b) ELSE -1) /\ Reserved(b) \in Int
      BY <1>0, <1>n, <1>2, ReservedBlocks DEF Numbers
    <3> QED
      BY <1>n, <1>2, <3>1 DEF Started
  <2>2. CASE pc[b] = "idle"
    BY <1>0, <1>n, <1>s, <2>1, <2>2 DEF IdleStages, Ended
  <2>3. CASE pc[b] # "idle"
    BY <1>0, <1>n, <2>3 DEF PlaceStages, Attached
  <2> QED
    BY <2>2, <2>3
<1>3. ASSUME Idx(i) = Current PROVE StageOf(i) = FinishStage
  BY <1>1, <1>n, <1>3 DEF Reused, NotStarted
<1>4. ASSUME i = current_iter - 1 PROVE StageOf(i) > 0
  <2>1. CASE Idx(i) = Current
    BY <1>3, <1>s, <2>1
  <2>2. CASE Idx(i) # Current
    <3>1. iter_num[Idx(i)] = i => stage[Idx(i)] >= 1 /\ stage[Idx(i)] \in Int
      BY <1>2, <1>n, <1>s, <2>2
    <3> QED
      BY <1>1, <1>s, <3>1
  <2> QED
    BY <2>1, <2>2
<1>5. ASSUME i <= (current_iter + 1) - K PROVE StageOf(i) >= PostStage
  <2>1. CASE Idx(i) = Current
    BY <1>3, <1>s, <2>1
  <2>2. CASE iter_num[Idx(i)] # i
    BY <1>1, <1>s, <2>2
  <2>3. CASE Idx(i) # Current /\ iter_num[Idx(i)] = i
    <3>1. iter_num[Idx(i)] = (IF Reserved(Idx(i)) >= 0 THEN Reserved(Idx(i)) ELSE -1)
      BY <1>0, <1>n, <2>3 DEF Numbers
    <3>2. Reserved(Idx(i)) > current_iter - K /\ Reserved(Idx(i)) \in Int
      BY <1>n, Reservations DEF Reserved
    <3>3. i = (current_iter + 1) - K /\ Reserved(Idx(i)) = i
      BY <1>n, <1>5, <2>3, <3>1, <3>2
    <3>4. Idx(i) = NextBlock
      <4>1. Reserved(NextBlock) = i
        BY <1>n, <3>3, ReservedBlocks
      <4>2. Idx(Reserved(NextBlock)) = NextBlock
        BY <1>n, <1>c, Reservations DEF Reserved
      <4> QED
        BY <4>1, <4>2
    <3>5. DoneWithLeft(NextBlock) /\ ~Attached(NextBlock) /\ Started(NextBlock) /\ Reserved(NextBlock) >= 0
      BY <1>0, <1>c, <1>n, <2>3, <3>3, <3>4 DEF Places, Attached, Started
    <3>6. CASE pc[NextBlock] = "idle"
      BY <1>0, <1>1, <1>c, <1>s, <2>3, <3>4, <3>5, <3>6 DEF IdleStages, Ended
    <3>7. CASE pc[NextBlock] # "idle"
      <4>1. stage[NextBlock] \in {PostStage, FinishStage}
        BY <1>0, <1>c, <3>5, <3>7 DEF PlaceStages, DoneWithLeft
      <4> QED
        BY <1>1, <1>s, <2>3, <3>4, <4>1
    <3> QED
      BY <3>6, <3>7
  <2> QED
    BY <2>1, <2>2, <2>3
<1> QED
  BY <1>3, <1>4, <1>5

\* The next iteration starts.
LEMMA StartStep ==
  ASSUME IInv, Reused, NEW w \in Workers, InitIterFrame(w)
  PROVE  Promise!Next
<1>0. Types /\ Numbers /\ Places /\ Bounds
  BY DEF IInv
<1>1. /\ cpc = "loop" /\ test_condition /\ pc' = [pc EXCEPT ![Current] = "test"]
      /\ iter_num' = [iter_num EXCEPT ![Current] = current_iter] /\ stage' = [stage EXCEPT ![Current] = 0]
      /\ UNCHANGED <<current_iter, test_condition>>
  BY DEF InitIterFrame, RunsControl, Goto
<1>2. /\ current_iter \in 1 .. MaxIter + 1 /\ Current \in Blocks /\ Idx(current_iter) = Current
      /\ MaxIter \in Nat /\ Current' = Current /\ K \in Int
  BY <1>0, <1>1, CurrentBlocks, BoundAssumption, SameIter, RingAssumption DEF Types, Bounds, Current
<1>3. iter_num[Current] # current_iter /\ pc[Current] = "idle"
  BY <1>0, <1>1, <1>2, ReservedBlocks DEF Numbers, NotStarted, Places, Types
<1> DEFINE i == current_iter
<1>4. StageFn[i] = -1
  BY <1>2, <1>3 DEF StageFn, StageOf
<1>5. StageFn[i - 1] > 0
  BY <1>1, <1>2, Gone DEF StageFn
<1>6. \A j \in 1 .. i - (K - 1) : StageFn[j] >= PostStage
  <2> SUFFICES ASSUME NEW j \in 1 .. i - (K - 1) PROVE StageFn[j] >= PostStage
    OBVIOUS
  <2>1. j \in 0 .. MaxIter + 1 /\ j < current_iter /\ j <= (current_iter + 1) - K
    BY <1>2, RingAssumption
  <2>2. StageOf(j) >= PostStage
    BY <1>1, <2>1, Gone
  <2> QED
    BY <2>1, <2>2 DEF StageFn
<1>7. StageFn' = [StageFn EXCEPT ![i] = 0]
  <2>1. ASSUME NEW j \in 0 .. MaxIter + 1 PROVE StageOf(j)' = IF j = i THEN 0 ELSE StageOf(j)
    <3>0. Idx(j) \in Blocks
      BY <1>2, BlockOf
    <3>1. CASE Idx(j) # Current
      <4>1. iter_num'[Idx(j)] = iter_num[Idx(j)] /\ stage'[Idx(j)] = stage[Idx(j)]
        BY <1>0, <1>1, <3>0, <3>1 DEF Types
      <4>2. j # i
        BY <1>2, <3>1
      <4> QED
        BY <1>1, <1>2, <3>1, <4>1, <4>2 DEF StageOf
    <3>2. CASE Idx(j) = Current
      <4>1. iter_num'[Current] = i /\ stage'[Current] = 0
        BY <1>0, <1>1, <1>2 DEF Types
      <4>2. StageOf(j)' = IF j > i THEN -1 ELSE IF j = i THEN 0 ELSE FinishStage
        BY <1>1, <1>2, <3>2, <4>1 DEF StageOf
      <4>3. j < i => StageOf(j) = FinishStage
        BY <1>1, <3>2, Gone
      <4>4. j > i => StageOf(j) = -1
        BY DEF StageOf
      <4> QED
        BY <1>2, <4>2, <4>3, <4>4
    <3> QED
      BY <3>1, <3>2
  <2> QED
    BY <1>2, <2>1 DEF StageFn
<1>8. WaitFn' = WaitFn
  <2>1. ASSUME NEW j \in 0 .. MaxIter + 1 PROVE WaitsAt(j)' = WaitsAt(j)
    <3>0. Idx(j) \in Blocks
      BY <1>2, BlockOf
    <3>1. CASE Idx(j) # Current
      <4>1. iter_num'[Idx(j)] = iter_num[Idx(j)] /\ pc'[Idx(j)] = pc[Idx(j)]
        BY <1>0, <1>1, <3>0, <3>1 DEF Types
      <4> QED
        BY <4>1 DEF WaitsAt
    <3>2. CASE Idx(j) = Current
      <4>1. pc'[Current] = "test"
        BY <1>0, <1>1, <1>2 DEF Types
      <4> QED
        BY <1>3, <3>2, <4>1 DEF WaitsAt
    <3> QED
      BY <3>1, <3>2
  <2> QED
    BY <2>1 DEF WaitFn
<1>9. Promise!Start(i)
  BY <1>1, <1>4, <1>5, <1>6, <1>7, <1>8
     DEF Promise!Start, StageFn, WaitFn, Promise!Unborn, Promise!PostStage, PostStage
<1> QED
  BY <1>2, <1>9 DEF Promise!Next, Promise!Iters

----------------------------------------------------------------------------
\* Every step of the scheduler is a step of the pipeline or changes nothing of it.
LEMMA PipelineStep ==
  ASSUME IInv, Reused, [Next]_vars
  PROVE  Promise!Next \/ UNCHANGED <<StageFn, WaitFn, test_condition>>
<1> DEFINE Done == Promise!Next \/ UNCHANGED <<StageFn, WaitFn, test_condition>>
<1>0. /\ Types /\ Numbers /\ Places /\ Counters /\ BlockStatuses /\ IterStatuses /\ Holdings
      /\ ControlPlace /\ PlaceStages /\ CachedStageIsOld /\ Bounds
  BY DEF IInv
<1>n. /\ MaxIter \in Nat /\ MaxStage \in Nat /\ FinalStage = MaxStage + 1 /\ PostStage = MaxStage + 2
      /\ FinishStage = MaxStage + 3
      /\ \A b \in Blocks : stage[b] \in Int /\ stage[b] >= 0 /\ cached_left_stage[b] \in Int /\ Left(b) \in Blocks
  BY <1>0, BoundAssumption, StageOrder, Neighbours DEF Types
<1>t. test_condition => test_condition = TRUE
  BY DEF IInv, Flags
\* no iteration moves
<1>u. ASSUME UNCHANGED <<iter_num, stage, current_iter, test_condition>>,
             \A b \in Blocks : pc'[b] \in Waits <=> pc[b] \in Waits
      PROVE  Done
  BY <1>u, Unmoved
<1>v. ASSUME NEW b \in Blocks, NEW p, UNCHANGED <<iter_num, stage, current_iter, test_condition>>,
             pc' = [pc EXCEPT ![b] = p], p \in Waits <=> pc[b] \in Waits
      PROVE  Done
  <2>1. \A c \in Blocks : pc'[c] \in Waits <=> pc[c] \in Waits
    BY <1>0, <1>v DEF Types
  <2> QED
    BY <1>u, <1>v, <2>1
\* an iteration enters a stage, with or without waiting there
<1>e. ASSUME NEW b \in Blocks, NEW p, NEW s \in 1 .. FinalStage, pc[b] \in {"user", "last"}, s > stage[b],
             UNCHANGED <<iter_num, current_iter, test_condition>>,
             pc' = [pc EXCEPT ![b] = p], stage' = [stage EXCEPT ![b] = s], s = FinalStage => p \in Waits
      PROVE  Done
  <2>1. /\ Reserved(b) \in 1 .. MaxIter + 1 /\ StageFn[Reserved(b)] = stage[b]
        /\ ~WaitFn[Reserved(b)]
    BY <1>e, Seen DEF Waits
  <2>2. /\ StageFn' = [StageFn EXCEPT ![Reserved(b)] = s]
        /\ WaitFn' = [WaitFn EXCEPT ![Reserved(b)] = (p \in Waits)]
    BY <1>e, Moved
  <2>3. Promise!Enter(Reserved(b), s, p \in Waits)
    BY <1>e, <1>n, <2>1, <2>2 DEF Promise!Enter, StageFn, WaitFn, Promise!FinalStage, FinalStage
  <2>4. (p \in Waits) \in BOOLEAN
    OBVIOUS
  <2> QED
    BY <2>1, <2>3, <2>4 DEF Promise!Next, Promise!Iters, Promise!FinalStage, FinalStage
\* it passes its wait
<1>p. ASSUME NEW b \in Blocks, NEW p, pc[b] = "wait", stage[Left(b)] > stage[b], p \notin Waits,
             UNCHANGED <<iter_num, stage, current_iter, test_condition>>,
             pc' = [pc EXCEPT ![b] = p]
      PROVE  Done
  <2>1. /\ Reserved(b) \in 1 .. MaxIter + 1 /\ StageFn[Reserved(b)] = stage[b]
        /\ WaitFn[Reserved(b)] /\ StageFn[Reserved(b) - 1] = stage[Left(b)]
    BY <1>p, Seen DEF Waits, DoneWithLeft
  <2>2. stage' = [stage EXCEPT ![b] = stage[b]]
    BY <1>0, <1>p DEF Types
  <2>3. WaitFn' = [WaitFn EXCEPT ![Reserved(b)] = FALSE]
    <3>1. WaitFn' = [WaitFn EXCEPT ![Reserved(b)] = (p \in Waits)]
      BY <1>p, <2>2, Moved
    <3>2. (p \in Waits) = FALSE
      BY <1>p
    <3> QED
      BY <3>1, <3>2
  <2>4. StageFn' = StageFn
    <3>1. Current' = Current
      BY <1>p, SameIter
    <3>2. \A i \in 0 .. MaxIter + 1 : StageOf(i)' = StageOf(i)
      BY <1>p, <3>1 DEF StageOf
    <3> QED
      BY <3>2 DEF StageFn
  <2>5. Promise!Pass(Reserved(b))
    BY <1>p, <2>1, <2>3, <2>4 DEF Promise!Pass, StageFn, WaitFn
  <2> QED
    BY <2>1, <2>5 DEF Promise!Next, Promise!Iters
\* it finishes its last stage, or is over
<1>f. ASSUME NEW b \in Blocks, NEW p, NEW s, pc[b] \notin Waits \cup {"idle"}, p \notin Waits,
             \/ stage[b] = FinalStage /\ s = PostStage
             \/ stage[b] = PostStage /\ s = FinishStage,
             UNCHANGED <<iter_num, current_iter, test_condition>>,
             pc' = [pc EXCEPT ![b] = p], stage' = [stage EXCEPT ![b] = s]
      PROVE  Done
  <2>1. /\ Reserved(b) \in 1 .. MaxIter + 1 /\ StageFn[Reserved(b)] = stage[b]
        /\ ~WaitFn[Reserved(b)]
    BY <1>f, Seen DEF Waits
  <2>2. StageFn' = [StageFn EXCEPT ![Reserved(b)] = s]
    BY <1>f, Moved
  <2>3. UNCHANGED WaitFn
    <3>1. \A c \in Blocks : pc'[c] \in Waits <=> pc[c] \in Waits
      BY <1>0, <1>f DEF Types
    <3>2. \A i \in 0 .. MaxIter + 1 : WaitsAt(i)' = WaitsAt(i)
      <4>1. \A i \in 0 .. MaxIter + 1 : Idx(i) \in Blocks
        BY BlockOf, BoundAssumption
      <4> QED
        BY <1>f, <3>1, <4>1, Zenon DEF WaitsAt, Waits
    <3> QED
      BY <3>2 DEF WaitFn
  <2>4. s = stage[b] + 1
    BY <1>f, <1>n
  <2>5. Promise!Finish(Reserved(b))
    BY <1>f, <1>n, <2>1, <2>2, <2>3, <2>4
       DEF Promise!Finish, StageFn, WaitFn, Promise!FinalStage, FinalStage, Promise!PostStage, PostStage
  <2> QED
    BY <2>1, <2>5 DEF Promise!Next, Promise!Iters
<1> HIDE DEF Done
<1>1. ASSUME NEW w \in Workers, ControlStep(w) PROVE Done
  <2>1. CASE InitIterFrame(w)
    BY <2>1, StartStep DEF Done
  <2>2. CASE SetupNext(w)
    <3>1. /\ RunsControl(w, "setup") /\ current_iter' = current_iter + 1
          /\ UNCHANGED <<iter_num, stage, pc, test_condition>> /\ cpc = "setup"
      BY <2>2 DEF SetupNext, RunsControl, code
    <3>2. /\ current_iter \in Int /\ Current' = NextBlock /\ Current \in Blocks /\ NextBlock \in Blocks
          /\ NextBlock # Current /\ Idx(current_iter) = Current
      BY <1>0, <3>1, NextIter, CurrentBlocks DEF Types, Current
    <3>3. iter_num[Current] = current_iter
      BY <1>0, <3>1, <3>2, ReservedBlocks DEF Numbers, NotStarted, Types
    <3>4. iter_num[NextBlock] # current_iter + 1
      <4>1. Reserved(NextBlock) <= current_iter /\ Reserved(NextBlock) \in Int
        BY <3>2, ReservedBlocks
      <4>2. iter_num[NextBlock] = (IF Reserved(NextBlock) >= 0 THEN Reserved(NextBlock) ELSE -1)
        BY <1>0, <3>2 DEF Numbers
      <4> QED
        BY <1>0, <3>2, <4>1, <4>2 DEF Types
    <3>5. \A i \in 0 .. MaxIter + 1 : StageOf(i)' = StageOf(i)
      <4> SUFFICES ASSUME NEW i \in 0 .. MaxIter + 1 PROVE StageOf(i)' = StageOf(i)
        OBVIOUS
      <4>1. CASE i <= current_iter
        BY <1>n, <3>1, <3>2, <3>3, <4>1 DEF StageOf
      <4>2. CASE i = current_iter + 1
        BY <1>n, <3>1, <3>2, <3>4, <4>2 DEF StageOf
      <4>3. CASE i > current_iter + 1
        BY <1>n, <3>1, <3>2, <4>3 DEF StageOf
      <4> QED
        BY <1>n, <3>2, <4>1, <4>2, <4>3
    <3>6. \A i \in 0 .. MaxIter + 1 : WaitsAt(i)' = WaitsAt(i)
      BY <3>1 DEF WaitsAt
    <3> QED
      BY <3>1, <3>5, <3>6 DEF Done, StageFn, WaitFn
  <2>3. CASE ~InitIterFrame(w) /\ ~SetupNext(w)
    <3>1. UNCHANGED <<iter_num, stage, current_iter, test_condition, pc>>
      BY <1>1, <2>3 DEF ControlStep, EndLoop, ThrottleFast, ThrottleSlow, SuspendControl, SyncControl, CleanUp, ring, code
    <3> QED
      BY <1>u, <3>1
  <2> QED
    BY <2>1, <2>2, <2>3
<1>2. ASSUME NEW w \in Workers, ResumeFrame(w) PROVE Done
  <2>1. /\ UNCHANGED <<iter_num, stage, current_iter, test_condition>>
        /\ pc' = [b \in Blocks |-> IF b = next_frame_ff[w] THEN "stall" ELSE pc[b]]
    BY <1>2 DEF ResumeFrame, ring, control
  <2>2. next_frame_ff[w] \in Blocks => pc[next_frame_ff[w]] = "asleep"
    BY <1>0 DEF Holdings
  <2>3. \A b \in Blocks : pc'[b] \in Waits <=> pc[b] \in Waits
    BY <2>1, <2>2 DEF Waits
  <2> QED
    BY <1>u, <2>1, <2>3
<1>3. ASSUME NEW w \in Workers, NEW b \in Blocks, UserStep(w, b) PROVE Done
  <2>1. ASSUME NEW t \in BOOLEAN, TestCondition(w, b, t) PROVE Done
    <3>1. /\ Executes(w, b) /\ pc[b] = "test" /\ test_condition' = t
          /\ UNCHANGED <<iter_num, stage, current_iter>>
          /\ \E p \in {"user", "last"} : pc' = [pc EXCEPT ![b] = p]
      BY <2>1 DEF TestCondition, Goto, ring
    <3>2. b = Current /\ test_condition
      BY <1>0, <3>1, EndsAttached DEF Bounds
    <3>3. \A c \in Blocks : pc'[c] \in Waits <=> pc[c] \in Waits
      BY <1>0, <3>1 DEF Waits, Types
    <3>4. UNCHANGED <<StageFn, WaitFn>>
      BY <3>1, <3>3, Unmoved
    <3>5. CASE t = FALSE
      <4>1. Reserved(b) \in 1 .. MaxIter + 1 /\ StageFn[Reserved(b)] = 0
        BY <1>0, <3>1, Seen DEF PlaceStages
      <4>2. Promise!LastIteration(Reserved(b))
        BY <3>1, <3>2, <3>4, <3>5, <4>1 DEF Promise!LastIteration, StageFn, WaitFn
      <4> QED
        BY <4>1, <4>2 DEF Promise!Next, Promise!Iters, Done
    <3>6. CASE t = TRUE
      <4>1. test_condition' = test_condition
        BY <3>1, <3>2, <3>6, <1>t
      <4> QED
        BY <3>4, <4>1 DEF Done
    <3> QED
      BY <3>5, <3>6
  <2>2. ASSUME NEW s \in 1 .. MaxStage, Stage(w, b, s) PROVE Done
    <3>1. /\ pc[b] = "user" /\ stage' = [stage EXCEPT ![b] = s] /\ s > stage[b]
          /\ UNCHANGED <<iter_num, current_iter, test_condition, pc>>
      BY <2>2 DEF Stage, UserStages, Advance, control
    <3>2. pc' = [pc EXCEPT ![b] = "user"]
      BY <1>0, <3>1 DEF Types
    <3>3. s \in 1 .. FinalStage /\ s # FinalStage
      BY <1>n
    <3> QED
      BY <1>e, <3>1, <3>2, <3>3
  <2>3. ASSUME NEW s \in 1 .. FinalStage, StageWait(w, b, s) PROVE Done
    <3>1. /\ pc[b] \in {"user", "last"} /\ stage' = [stage EXCEPT ![b] = s]
          /\ pc' = [pc EXCEPT ![b] = "wait"] /\ (s > stage[b] \/ s = FinalStage)
          /\ UNCHANGED <<iter_num, current_iter, test_condition>>
      BY <2>3 DEF StageWait, Goto, Advance, UserStages, control
    <3>2. s > stage[b]
      BY <1>0, <1>n, <3>1 DEF PlaceStages
    <3>3. "wait" \in Waits
      BY DEF Waits
    <3> QED
      BY <1>e, <3>1, <3>2, <3>3
  <2> QED
    BY <1>3, <2>1, <2>2, <2>3 DEF UserStep
<1>4. ASSUME NEW w \in Workers, NEW b \in Blocks, WaitStep(w, b) PROVE Done
  <2>1. CASE CachedEnough(w, b)
    <3>1. /\ pc[b] = "wait" /\ cached_left_stage[b] > stage[b]
          /\ UNCHANGED <<iter_num, stage, current_iter, test_condition>>
          /\ \E p \in {"user", "final"} : pc' = [pc EXCEPT ![b] = p]
      BY <2>1 DEF CachedEnough, AfterWait, Goto, ring, control
    <3>2. stage[Left(b)] > stage[b]
      BY <1>0, <1>n, <3>1 DEF CachedStageIsOld, DoneWithLeft
    <3>3. "user" \notin Waits /\ "final" \notin Waits
      BY DEF Waits
    <3> QED
      BY <1>p, <3>1, <3>2, <3>3
  <2>2. CASE ReadLeft(w, b)
    <3>1. /\ pc[b] = "wait" /\ UNCHANGED <<iter_num, stage, current_iter, test_condition>>
          /\ \/ stage[Left(b)] > stage[b] /\ \E p \in {"user", "final"} : pc' = [pc EXCEPT ![b] = p]
             \/ pc' = [pc EXCEPT ![b] = "stall"]
      BY <2>2 DEF ReadLeft, AfterWait, Goto, control
    <3>2. "user" \notin Waits /\ "final" \notin Waits /\ "stall" \in Waits /\ "wait" \in Waits
      BY DEF Waits
    <3>3. CASE pc' = [pc EXCEPT ![b] = "stall"]
      BY <1>v, <3>1, <3>2, <3>3
    <3>4. CASE stage[Left(b)] > stage[b] /\ \E p \in {"user", "final"} : pc' = [pc EXCEPT ![b] = p]
      BY <1>p, <3>1, <3>2, <3>4
    <3> QED
      BY <3>1, <3>3, <3>4
  <2>3. CASE ~CachedEnough(w, b) /\ ~ReadLeft(w, b)
    <3>1. /\ UNCHANGED <<iter_num, stage, current_iter, test_condition>> /\ pc[b] \in Waits
          /\ \E p \in Waits : pc' = [pc EXCEPT ![b] = p]
      BY <1>4, <2>3 DEF WaitStep, Stall, Promote, AlreadyPromoted, SuspendFails, Suspend, SuspendNext,
         InstallIteration, Goto, ring, control, Waits
    <3> QED
      BY <1>v, <3>1
  <2> QED
    BY <2>1, <2>2, <2>3
<1>5. ASSUME NEW w \in Workers, NEW b \in Blocks, LeaveStep(w, b) PROVE Done
  <2>1. CASE FinishFinalStage(w, b) \/ AttachedDone(w, b) \/ StageDone(w, b)
    <3>1. /\ UNCHANGED <<iter_num, current_iter, test_condition>>
          /\ \/ /\ pc[b] = "final" /\ pc' = [pc EXCEPT ![b] = "leave"] /\ stage' = [stage EXCEPT ![b] = PostStage]
             \/ /\ pc[b] \in {"attached_done", "stage_done"} /\ stage' = [stage EXCEPT ![b] = FinishStage]
                /\ \E p \in {"attached_left", "check_right"} : pc' = [pc EXCEPT ![b] = p]
      BY <2>1 DEF FinishFinalStage, AttachedDone, StageDone, Goto, control
    <3>2. CASE pc[b] = "final"
      <4>1. /\ stage[b] = FinalStage /\ pc' = [pc EXCEPT ![b] = "leave"] /\ stage' = [stage EXCEPT ![b] = PostStage]
            /\ pc[b] \notin Waits \cup {"idle"} /\ "leave" \notin Waits
        BY <1>0, <3>1, <3>2 DEF PlaceStages, Waits
      <4> QED
        BY <1>f, <3>1, <4>1
    <3>3. CASE pc[b] \in {"attached_done", "stage_done"}
      <4>1. /\ stage[b] = PostStage /\ stage' = [stage EXCEPT ![b] = FinishStage]
            /\ pc[b] \notin Waits \cup {"idle"}
            /\ \E p \in {"attached_left", "check_right"} : pc' = [pc EXCEPT ![b] = p]
        BY <1>0, <3>1, <3>3 DEF PlaceStages, Waits
      <4>2. PICK p \in {"attached_left", "check_right"} : pc' = [pc EXCEPT ![b] = p]
        BY <4>1
      <4>3. p \notin Waits
        BY DEF Waits
      <4> QED
        BY <1>f, <3>1, <4>1, <4>2, <4>3
    <3> QED
      BY <3>1, <3>2, <3>3
  <2>2. CASE ~(FinishFinalStage(w, b) \/ AttachedDone(w, b) \/ StageDone(w, b))
    <3>1. /\ UNCHANGED <<iter_num, stage, current_iter, test_condition>>
          /\ pc[b] \notin Waits /\ \E p \in PCs \ Waits : pc' = [pc EXCEPT ![b] = p]
      BY <1>5, <2>2 DEF LeaveStep, LeaveFrame, AttachedFreeLeft, AttachedFreeOwn, ReturnLast, ReturnOther, FreeLeft,
         CheckRight, FreeOwn, Goto, ring, control, Waits, PCs, Finishing
    <3> QED
      BY <1>v, <3>1
  <2> QED
    BY <2>1, <2>2
<1>6. ASSUME NEW v \in Workers, NEW w \in Workers, StealControl(v, w) PROVE Done
  BY <1>6, <1>u DEF StealControl, InstallIteration
<1>7. ASSUME NEW v \in Workers, NEW w \in Workers, StealImplicitly(v, w) PROVE Done
  BY <1>7, <1>u DEF StealImplicitly, control, code
<1>8. ASSUME UNCHANGED vars PROVE Done
  BY <1>8, <1>u DEF vars, ring, control, code
<1>9. Done
  BY <1>1, <1>2, <1>3, <1>4, <1>5, <1>6, <1>7, <1>8 DEF Next, Step, Steals, Over
<1> QED
  BY <1>9 DEF Done

\* The first iteration has not started.
LEMMA PipelineInit == Init => Promise!Init
<1> SUFFICES ASSUME Init PROVE Promise!Init
  OBVIOUS
<1>1. current_iter = 1 /\ test_condition = TRUE /\ MaxIter \in Nat /\ K \in Nat /\ K >= 2
  BY BoundAssumption, RingAssumption DEF Init
<1>2. 0 \in Blocks /\ 1 \in Blocks /\ Idx(0) = 0 /\ Idx(1) = 1
  <2>1. 0 \in Blocks /\ 1 \in Blocks
    BY <1>1 DEF Blocks
  <2>2. (0 * K + 0) % K = 0 /\ (0 * K + 1) % K = 1
    BY <1>1, ModIs
  <2>3. 0 * K + 0 = 0 /\ 0 * K + 1 = 1
    BY <1>1
  <2> QED
    BY <2>1, <2>2, <2>3 DEF Idx
<1>3. \A i \in 0 .. MaxIter + 1 : StageOf(i) = IF i = 0 THEN FinishStage ELSE -1
  <2> SUFFICES ASSUME NEW i \in 0 .. MaxIter + 1 PROVE StageOf(i) = IF i = 0 THEN FinishStage ELSE -1
    OBVIOUS
  <2>1. iter_num[0] = 0 /\ stage[0] = FinishStage /\ iter_num[1] = -1
    BY <1>2 DEF Init
  <2>2. CASE i = 0
    BY <1>1, <1>2, <2>1, <2>2 DEF StageOf
  <2>3. CASE i = 1
    BY <1>1, <1>2, <2>1, <2>3 DEF StageOf, Current
  <2>4. CASE i > 1
    BY <1>1, <2>4 DEF StageOf
  <2> QED
    BY <1>1, <2>2, <2>3, <2>4
<1>4. \A i \in 0 .. MaxIter + 1 : WaitsAt(i) = FALSE
  <2>1. \A i \in 0 .. MaxIter + 1 : Idx(i) \in Blocks
    BY BlockOf, BoundAssumption
  <2> QED
    BY <2>1 DEF WaitsAt, Init
<1> QED
  BY <1>1, <1>3, <1>4 DEF Promise!Init, Promise!Unborn, Promise!FinishStage, FinishStage

\* The scheduler implements the pipeline: however iterations are stolen,
\* suspended and resumed, each starts when the one before has left stage 0 and
\* the window has room, and passes a stage wait only behind its left neighbour.
THEOREM RefinesPipeline == Spec => ImplementsPipeline
<1>1. UNCHANGED <<StageFn, WaitFn, test_condition>> => UNCHANGED Promise!vars
  BY DEF StageFn, WaitFn, Promise!vars
<1>2. IInv /\ Reused /\ [Next]_vars => [Promise!Next]_(Promise!vars)
  BY <1>1, PipelineStep
<1>3. IInv /\ Reused /\ [Next]_vars => Reused'
  BY ReusedStep
<1>4. Spec => []Reused
  BY <1>3, Inductive, ReusedInit, PTL DEF Spec
<1> QED
  BY <1>2, <1>4, Inductive, PipelineInit, PTL DEF Spec, ImplementsPipeline, Promise!Spec
============================================================================
