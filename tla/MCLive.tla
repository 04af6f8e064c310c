-------------------------------- MODULE MCLive --------------------------------
(* A small instance of LiveRunner for TLC.                                   *)
EXTENDS LiveRunner, TLC

CONSTANTS p1, p2, c1, c2, v1

MCProviderOf == c1 :> v1 @@ c2 :> v1

(* Nothing tells the pairs apart, nor the cases of one provider.             *)
Interchangeable == Permutations({p1, p2}) \cup Permutations({c1, c2})

Live(c, f) == [common |-> c, faults |-> f]

(* Additions with all test errors, removals with and without city lookups.   *)
AllLives ==
    {Live(TRUE, {"run", "case"}),
     Live(FALSE, {"run", "case", "group"}),
     Live(FALSE, {"group", "remove"}),
     Live(TRUE, {"remove"})}

===============================================================================
