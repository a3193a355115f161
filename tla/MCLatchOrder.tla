---------------------------- MODULE MCLatchOrder ----------------------------
(* Latches of the lock system and of a file space; l3 is an rw-lock, of    *)
(* the dictionary or of a page without a level of its own.                 *)
EXTENDS LatchOrder, TLC

CONSTANTS l1, l2, l3, l4

MCLatches == {l1, l2, l3, l4}

MCLevelMaps ==
    {l1 :> "SYNC_LOCK_SYS" @@ l2 :> "SYNC_TRX" @@ l4 :> "SYNC_TRX"
       @@ l3 :> "SYNC_DICT_OPERATION",
     l1 :> "SYNC_FSP_PAGE" @@ l2 :> "SYNC_IBUF_TREE_NODE_NEW"
       @@ l3 :> "SYNC_LEVEL_VARYING" @@ l4 :> "SYNC_FSP"}

MCSymmetry == Permutations(ThreadIds)

=============================================================================
