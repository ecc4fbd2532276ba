-------------------------- MODULE MCFqShardedScan --------------------------
EXTENDS FqShardedScan

(* Shards with a key that stays at the start, at the end and in between.   *)
MCStable == {<<0, 1>>, <<0, 2>>, <<1, 1>>, <<1, 3>>, <<2, 3>>}
=============================================================================
