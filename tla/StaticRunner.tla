----------------------------- MODULE StaticRunner -----------------------------
(*****************************************************************************)
(* The runner on a configuration that does not change: one "vpnspeed up" has *)
(* been applied, the task is created and runs until it ends by itself, is    *)
(* cancelled or is killed by an exception.  This is where the promises of    *)
(* the README about test execution and error handling are stated.            *)
(*****************************************************************************)
EXTENDS Runner

CONSTANT Settings  \* the configurations: [mode, repeats, common, faults]

ASSUME StaticAssumption ==
    /\ Settings \subseteq [mode: {"once", "continuous"}, repeats: Nat \ {0},
                           common: BOOLEAN, faults: SUBSET FaultKinds]
    /\ IsFiniteSet(Pairs) /\ IsFiniteSet(Cases)

Gid(p) == [pair |-> p, gen |-> 0]
Cid(p, c) == [of |-> Gid(p), case |-> c, copy |-> 0]

(* What AddVPNs, AddCases and AddGroups of one update leave behind.          *)
Init ==
    /\ groups = [g \in {Gid(p) : p \in Pairs} |-> [city |-> NoCity, failing |-> FALSE]]
    /\ stats = [o \in {Cid(p, c) : p \in Pairs, c \in Cases} |-> [run |-> 0, fail |-> 0]]
    /\ group_index = [k \in {Plain(p) : p \in Pairs} |-> Gid(k.pair)]
    /\ case_index = [k \in {Plain(p) : p \in Pairs} |-> [c \in Cases |-> Cid(k.pair, c)]]
    /\ test_cases = Cases /\ failing_cases = {}
    /\ \E s \in Settings : /\ mode = s.mode /\ repeats = s.repeats
                           /\ common_cities = s.common /\ faults = s.faults
    /\ providers = {ProviderOf[c] : c \in Cases}
    /\ pc = "new"
    /\ runs = 0 /\ group = None /\ no_options = FALSE /\ case = None /\ left = 0
    /\ cancelling = FALSE /\ outcome = "none"
    /\ sent = [x \in Pairs \X Cases |-> 0]

CancelledByOwner == "cancel" \in faults /\ Cancel /\ UNCHANGED <<dataVars, confVars>>

Next == Step \/ CancelledByOwner

Spec == Init /\ [][Next]_runnerVars

(* The event loop resumes a runnable task, and every await of the task ends: *)
(* container and network calls have timeouts, the locks are held only        *)
(* briefly, the interval is finite.                                          *)
FairSpec == Spec /\ WF_runnerVars(Step)

-------------------------------------------------------------------------------
Run(p, c) == stats[Cid(p, c)].run
Fail(p, c) == stats[Cid(p, c)].fail

(* The two kinds of errors that reach other combinations than the one tested.*)
Spreading == faults \cap {"case", "group"}

(* Every variable has its type.                                              *)
TypeOK == RunnerTypeOK

(* README "Test execution": the "run distribution across group-case pairs is *)
(* similar".  Without group and case errors no combination is ever ahead of  *)
(* another one by more than the repeats of one selection.                    *)
Balanced ==
    Spreading = {} =>
        \A p, q \in Pairs, c, d \in Cases : Run(p, c) <= Run(q, d) + repeats

(* Both indexes lead from the current key of a group to the objects of that  *)
(* group and of no other, whatever cities the group was moved to: the test   *)
(* that is running is counted where it was selected.                         *)
IndexExact ==
    /\ DOMAIN group_index = {KeyOf(g) : g \in DOMAIN groups}
    /\ DOMAIN case_index = DOMAIN group_index
    /\ \A g \in DOMAIN groups :
         /\ group_index[KeyOf(g)] = g
         /\ case_index[KeyOf(g)] = [c \in Cases |-> Cid(g.pair, c)]

(* The runner is not killed by its own bookkeeping: KeyError in an index,    *)
(* ZeroDivisionError in the failing ratio, min() of a group without cases.   *)
(* It is when group errors follow case errors: see ExecutedIndefinitely.     *)
NoBookkeepingCrash ==
    Spreading # {"case", "group"} => outcome \notin {"lookup", "zerodiv", "nocases"}

(* README: "once - each test group and test case combination gets run once   *)
(* and the testing ends", Config.repeats times each.  When the once mode     *)
(* ends by itself and no error has spread, every combination was run exactly *)
(* that often.                                                               *)
OnceCovers ==
    outcome = "once" /\ Spreading = {} =>
        \A p \in Pairs, c \in Cases : Run(p, c) = repeats

(* The task of the once mode ends whatever errors the tests meet.            *)
OnceTerminates == mode = "once" ~> pc = "off"

(* Every counted run is either a failure or a result on its way to the data  *)
(* sinks.  The one result that may be missing is that of the test whose      *)
(* container is being closed: a cancellation or an exception there loses it. *)
Missing(p, c) == Run(p, c) - Fail(p, c) - sent[<<p, c>>]
ResultsAccounted ==
    Spreading = {} =>
        /\ \A p \in Pairs, c \in Cases :
             \/ Missing(p, c) = 0
             \/ /\ Missing(p, c) = 1
                /\ \/ outcome \in {"cancelled", "env"}
                   \/ pc = "exit" /\ <<group.pair, case>> = <<p, c>>
        /\ \A p, q \in Pairs, c, d \in Cases :
             Missing(p, c) = 1 /\ Missing(q, d) = 1 => <<p, c>> = <<q, d>>

(* README "Error handling": a failed test case or test group "is not executed
   further".  No test of either starts until the marks are cleared, whatever
   other errors move the counts meanwhile.  Repeats do not look.             *)
FailedRests ==
    [][repeats = 1 /\ pc # "env" /\ pc' = "env" =>
         /\ case' \notin failing_cases'
         /\ ~groups'[group_index'[group']].failing]_runnerVars

(* README "Test execution", continuous: tests "are executed indefinitely, or *)
(* until some unexpected exception occurs".  Test errors are expected.       *)
ExecutedIndefinitely ==
    mode = "continuous" /\ faults \subseteq {"run", "case", "group"} => pc # "off"

(* Scheduling is a sequence of rounds, see Rounds.                           *)
Ahead == {x \in Pairs \X Cases :
            \E y \in Pairs \X Cases : Run(x[1], x[2]) > Run(y[1], y[2])}
InRounds == INSTANCE Rounds WITH done <- IF Spreading = {} THEN Ahead ELSE {}
RoundsSpec == InRounds!Spec

===============================================================================
