--------------------------------- MODULE Diff ---------------------------------
(*****************************************************************************)
(* service/diff.py: the pure functions that compare the current context of   *)
(* the service with a requested one.  They give the new context and the      *)
(* actions to take; Service.execute sorts the actions by their mark, so they *)
(* are listed here in the order of the marks.                                *)
(*                                                                           *)
(* A context is [state, config], a config [mode, repeats, common, vpns,      *)
(* groups, sinks]; a field of a request that is absent is None.  vpns maps   *)
(* the name of a VPN to its test cases, groups is a set of pairs (documented *)
(* test groups have no city), sinks maps the name of a sink to its settings. *)
(*****************************************************************************)
EXTENDS Sequences

CONSTANT None

Or(new, old) == IF new = None THEN old ELSE new
ToCases(vpns) == UNION {vpns[v] : v \in DOMAIN vpns}

(* The context after the request has been taken over.                        *)
DiffConfig(old, new) ==
    IF new = None THEN old
    ELSE [mode    |-> Or(new.mode, old.mode),
          repeats |-> Or(new.repeats, old.repeats),
          common  |-> new.common \/ old.common,
          vpns    |-> Or(new.vpns, old.vpns),
          groups  |-> Or(new.groups, {}),
          sinks   |-> Or(new.sinks, old.sinks)]

DiffContext(old, new) ==
    [state  |-> Or(new.state, old.state),
     config |-> DiffConfig(old.config, new.config)]

(* Absent fields change nothing: line 4 of diff.py.                          *)
Act(mark, arg) == <<[mark |-> mark, arg |-> arg]>>
On(condition, mark) == IF condition THEN Act(mark, {}) ELSE <<>>
Some(mark, arg) == IF arg = {} THEN <<>> ELSE Act(mark, arg)

(* Mutants: slips that show a property notices them.                         *)
DelGroups_Swapped(was, now) == now.groups \ was.groups

Dropped(was, now) == DOMAIN was \ DOMAIN now
DelGroups(was, now) == was.groups \ now.groups
Changed(was, now) == {x \in DOMAIN was \cap DOMAIN now : was[x] # now[x]}

Actions(old, new) ==
    LET ctx == DiffContext(old, new)
        was == old.config
        now == ctx.config
        restart == was.mode # now.mode
    IN On(ctx.state = "quit", "Quit")
       \o On(restart, "Stop")
       \o On(old.state = "run" /\ ctx.state = "idle", "Stop")
       \o Some("RemoveGroups", DelGroups(was, now))
       \o Some("RemoveCases", ToCases(was.vpns) \ ToCases(now.vpns))
       \o Some("AddCases", ToCases(now.vpns) \ ToCases(was.vpns))
       \o Some("AddGroups", DelGroups(now, was))
       \o Some("RemoveDataSinks", Dropped(was.sinks, now.sinks))
       \o Some("UpdateDataSinks", Changed(was.sinks, now.sinks))
       \o Some("AddDataSinks", Dropped(now.sinks, was.sinks))
       \o Some("RemoveVPNs", Dropped(was.vpns, now.vpns))
       \o Some("UpdateVPNs", Changed(was.vpns, now.vpns))
       \o Some("AddVPNs", Dropped(now.vpns, was.vpns))
       \o On(restart, "Start")
       \o On(old.state = "idle" /\ ctx.state = "run", "Start")

(* The context Service.update goes through to clean the configuration.       *)
DefaultContext ==
    [state |-> "idle",
     config |-> [mode |-> "continuous", repeats |-> 1, common |-> FALSE,
                 vpns |-> None, groups |-> None, sinks |-> None]]

===============================================================================
