---------------------------- MODULE MCPiperPipe ----------------------------
(***************************************************************************)
(* Small instances of PiperPipe.  Its runs check liveness, so the workers  *)
(* that start without work are not declared symmetric.                     *)
(***************************************************************************)
EXTENDS PiperPipe
=============================================================================
