---------------------------- MODULE MCBlockPool ------------------------------
(* Instances of BlockPool for TLC.                                         *)
EXTENDS BlockPool, TLC

BlockSymmetry == Permutations(Blocks)
DeviceSymmetry == Permutations(Devices)
Symmetry == BlockSymmetry \cup DeviceSymmetry
===============================================================================
