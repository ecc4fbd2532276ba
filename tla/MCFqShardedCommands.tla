------------------------ MODULE MCFqShardedCommands ------------------------
EXTENDS FqShardedCommands, TLC

(* Keys are interchangeable: the sharding function may be any.             *)
Symmetry == Permutations(Keys)
=============================================================================
