-------------------------- MODULE MCDeliveryStatus --------------------------
(* Instances of DeliveryStatus for TLC. *)
EXTENDS DeliveryStatus, TLC

HookSymmetry == Permutations(Hook)
=============================================================================
