---------------------------- MODULE MCPipeOrders ----------------------------
(***************************************************************************)
(* Small instances of PipeOrders.                                          *)
(***************************************************************************)
EXTENDS PipeOrders

\* Two iterations that do what they like, one that skips stages, and two that
\* show what becomes of the lists.
FreeThenPlain(i) ==
  IF i <= 2 THEN (1 .. MaxStage) \X BOOLEAN
  ELSE IF i = 3 THEN {<<2, TRUE>>} ELSE {}
=============================================================================
