-------------------------- MODULE MCCapabilityCache --------------------------
(***************************************************************************)
(* Instances of CapabilityCache for TLC: lookups differ in nothing, and     *)
(* are all about one key, the list or an action.  Entries of two keys have  *)
(* nothing in common but invalidate, which may come at any instant.         *)
(***************************************************************************)
EXTENDS CapabilityCache, TLC

Interchangeable == Permutations(Lookups)

OneKey ==
  \E k \in Keys :
    /\ \A l \in Lookups : look[l].pc = "idle" \/ look[l].key = k
    /\ \A j \in Keys \ {k} : replaced[j] = <<>>
=============================================================================
