---------------------------- MODULE MCNetworkBook ----------------------------
(* The network book of Registries by itself: the other registries stand     *)
(* still.                                                                   *)
EXTENDS Registries

Init == BookInit /\ RegistryInit
Next == BookNext /\ UNCHANGED registryVars
=============================================================================
