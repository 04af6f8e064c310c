-------------------------------- MODULE Rounds --------------------------------
(*****************************************************************************)
(* What test execution promises, without counters: combinations of a test    *)
(* group and a test case are served in rounds.  A round serves each          *)
(* combination once, and once it has started with a group it serves all the  *)
(* cases of that group before it turns to the next group.                    *)
(*****************************************************************************)
CONSTANTS Pairs, Cases

VARIABLE done   \* the combinations this round has served

Combinations == Pairs \X Cases
Started(p) == \E c \in Cases : <<p, c>> \in done
Finished(p) == \A c \in Cases : <<p, c>> \in done

Init == done = {}

Serve(p, c) ==
    /\ <<p, c>> \notin done
    /\ \A q \in Pairs : Started(q) /\ ~Finished(q) => q = p
    /\ done' = IF done \cup {<<p, c>>} = Combinations THEN {}
               ELSE done \cup {<<p, c>>}

Next == \E p \in Pairs, c \in Cases : Serve(p, c)

Spec == Init /\ [][Next]_done

===============================================================================
