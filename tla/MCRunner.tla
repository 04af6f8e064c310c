------------------------------- MODULE MCRunner -------------------------------
(* Small instances of StaticRunner for TLC.                                  *)
EXTENDS StaticRunner, TLC

CONSTANTS p1, p2, c1, c2, v1, v2

MCProviderOf == c1 :> v1 @@ c2 :> v2

Setting(m, r, f) == [mode |-> m, repeats |-> r, common |-> TRUE, faults |-> f]

(* Both modes, with and without repeats, with and without errors that spread.*)
AllSettings ==
    {Setting("continuous", 2, {"run", "env", "city", "cancel"}),
     Setting("once", 2, {"run", "env"}),
     Setting("once", 1, {"run", "case", "group", "env", "city"}),
     Setting("once", 1, {"run", "case"}),
     Setting("continuous", 1, {"case"}),
     Setting("continuous", 1, {"run", "group"})}

(* Nothing but the errors that the runner handles.                           *)
ExpectedErrors == {Setting("continuous", 1, {"case", "group"})}
CaseErrors == {Setting("continuous", 1, {"case"})}

===============================================================================
