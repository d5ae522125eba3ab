----------------------------- MODULE WorkQueue -----------------------------
(***************************************************************************)
(* What the deque of a worker promises: a sequence of frames whose         *)
(* continuations wait.  The worker adds a frame at one end when it spawns  *)
(* and takes it back when the spawned call returns; a thief takes the      *)
(* oldest one.  Each step is indivisible, so no frame is taken twice.      *)
(***************************************************************************)
EXTENDS Integers, Sequences

CONSTANTS Owner, Thieves, MaxPush

VARIABLES
  queue,    \* the frames whose continuation waits, oldest first
  spawns,   \* how many frames were ever put there: frame n is the n-th
  taken     \* who has taken each frame

vars == <<queue, spawns, taken>>

Frames == 1 .. MaxPush

Init ==
  /\ queue = <<>>
  /\ spawns = 0
  /\ taken = [f \in Frames |-> {}]

TakenBy(f, w) == taken' = [taken EXCEPT ![f] = @ \cup {w}]

\* the owner spawns: the rest of the spawning frame can be stolen
Push ==
  /\ spawns < MaxPush
  /\ queue' = Append(queue, spawns + 1)
  /\ spawns' = spawns + 1
  /\ UNCHANGED taken

\* the spawned call returned to a frame nobody has stolen
Pop ==
  /\ queue # <<>>
  /\ TakenBy(queue[Len(queue)], Owner)
  /\ queue' = SubSeq(queue, 1, Len(queue) - 1)
  /\ UNCHANGED spawns

Steal(t) ==
  /\ queue # <<>>
  /\ TakenBy(Head(queue), t)
  /\ queue' = Tail(queue)
  /\ UNCHANGED spawns

Next == Push \/ Pop \/ \E t \in Thieves : Steal(t)

Spec == Init /\ [][Next]_vars
=============================================================================
