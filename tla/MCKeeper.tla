------------------------------ MODULE MCKeeper ------------------------------
(***************************************************************************)
(* Bounded instance of KeeperPipeline for TLC that looks at the Keeper in  *)
(* two ways, chosen at the start.  In the scope "batches" there are block  *)
(* updates, which the accumulator offers though main() never calls         *)
(* update_block(), and as many orders as MaxOrders, and the tasks that are *)
(* spawned do not run.  In the scope "tasks" they run, on at most          *)
(* TaskOrders orders of one index and without block updates.               *)
(***************************************************************************)
EXTENDS MCKeeperPipeline

CONSTANT TaskOrders

VARIABLE scope

ScopedInit ==
    /\ PipelineInit
    /\ scope \in {"batches", "tasks"}
    /\ scope = "tasks" =>
          \A o \in Orders : IF o > TaskOrders THEN info[o] = info[1]
                            ELSE info[o].index = info[1].index

BlockUpdates ==
    /\ (\E b \in 1 .. MaxBlock : SwapBlock(b)) \/ UpdateBatchBlock
    /\ UNCHANGED <<task, chainVars>>

ScopedNext ==
    /\ UNCHANGED scope
    /\ \/ scope = "batches" /\ (Accumulate \/ BlockUpdates \/ \E a \in Actors : Spawn(a))
       \/ scope = "tasks" /\ PipelineNext /\ submitted' <= TaskOrders

ScopedSpec == ScopedInit /\ [][ScopedNext]_<<vars, scope>>
=============================================================================
