-------------------------------- MODULE MCKv --------------------------------
(***************************************************************************)
(* The two halves of src/kvcache.c.  They share no state: a behaviour      *)
(* exercises the one its first state chooses, the other rests.             *)
(***************************************************************************)
EXTENDS KvCompact, KvCache

VARIABLE half  \* "compact" or "account"

kvAll == <<half, compactVars, kvVars>>

Resting ==
  IF half = "compact" THEN width = [l \in Layers |-> HeadDim] /\ src = [l \in Layers |-> -1]
                      ELSE keep = [t \in {0} |-> FALSE]

KvInit == half \in {"compact", "account"} /\ CompactInit /\ KvCacheInit /\ Resting

KvNext ==
  \/ half = "compact" /\ CompactNext /\ UNCHANGED <<half, kvVars>>
  \/ half = "account" /\ KvCacheNext /\ UNCHANGED <<half, compactVars>>

KvSpec == KvInit /\ [][KvNext]_kvAll
=============================================================================
