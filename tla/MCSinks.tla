------------------------------- MODULE MCSinks --------------------------------
(* A small instance of Sinks for TLC.                                        *)
EXTENDS Sinks, TLC

CONSTANTS r1, r2, r3, r4, g1, g2, g3, c1, b1, b2, u1, u2, u3

(* Two results of one case in two groups, two of one group that no SELECT    *)
(* of _insert_row finds.                                                     *)
MCGroupOf == r1 :> g1 @@ r2 :> g2 @@ r3 :> g3 @@ r4 :> g3
MCCaseOf == [r \in Results |-> c1]

Sink(n, u, t, b) == [name |-> n, url |-> u, type |-> t, as_backup |-> b]
Life(cs, rs, bs, p, c, n) ==
    [configs |-> cs, results |-> rs, probes |-> bs, plugins |-> p, conns |-> c,
     restarts |-> n]

Database == Sink("sqlite", u1, None, TRUE)
Moved == Sink("sqlite", u2, None, FALSE)
Wrong == Sink("sqlite", u3, None, FALSE)

(* A database that is moved and one that is opened again; a restart between  *)
(* results; keys that are not found; a database and a file; wrong urls.      *)
AllLives ==
    {Life({Database, Moved}, {r1, r2}, {b1}, 1, 2, 0),
     Life({Database}, {r1, r2}, {b1}, 1, 2, 0),
     Life({Database}, {r1, r2}, {b1, b2}, 1, 1, 1),
     Life({Database}, {r3, r4}, {b1}, 1, 1, 0),
     Life({Database, Sink("mine", u2, "csv", TRUE)}, {r1}, {b1}, 2, 1, 0),
     Life({Database, Wrong, Sink("csv", u2, None, TRUE), Sink("csv", u3, None, FALSE)},
          {r1}, {b1}, 2, 1, 0)}

(* One database that stops and starts again being the backup.                *)
Reopened ==
    {Life({Database, Sink("sqlite", u1, None, FALSE)}, {r1}, {b1}, 1, 2, 0)}

===============================================================================
