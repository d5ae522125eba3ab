----------------------------- MODULE MCOMBatch -----------------------------
(***************************************************************************)
(* Small instances of OMBatch: how often each worker inserts and queries.  *)
(***************************************************************************)
EXTENDS OMBatch, TLC

\* two workers whose inserts all may fail: batches follow each other
ThreeEach == 0 :> 3 @@ 1 :> 3

\* three workers; at most one insert of the run can fail, so one batch runs
OneFails == 0 :> 2 @@ 1 :> 1 @@ 2 :> 1

\* enough inserts for a worker to become an owner with a stale batch_id
FourEach  == [w \in Workers |-> 4]

\* the same with fewer states: one of two workers outlives several batches
FourAndTwo == 0 :> 4 @@ 1 :> 2

OneAsks == 0 :> 0 @@ 1 :> 0 @@ 2 :> 1

Never == [w \in Workers |-> 0]
=============================================================================
