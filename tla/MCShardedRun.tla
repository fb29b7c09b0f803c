----------------------------- MODULE MCShardedRun -----------------------------
(***************************************************************************)
(* Two calls of the script, the second over fewer machines or more.        *)
(***************************************************************************)
EXTENDS ShardedRun, TLC

TwoHosts == ("first" :> <<"a", "b">>) @@ ("second" :> <<"b">>)
ThreeHosts == ("first" :> <<"a", "b">>) @@ ("second" :> <<"c", "b", "a">>)
FiveFiles == <<{1, 2, 3, 4}, {1, 3, 4, 5}>>
=============================================================================
