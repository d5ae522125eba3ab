------------------------------ MODULE MCDeque ------------------------------
(***************************************************************************)
(* Small instances of Deque.                                               *)
(***************************************************************************)
EXTENDS Deque
=============================================================================
