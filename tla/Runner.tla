-------------------------------- MODULE Runner --------------------------------
(*****************************************************************************)
(* service/runner.py and service/select.py: the test runner.                 *)
(*                                                                           *)
(* A Runner keeps a list of Group objects, each with its Case objects (the   *)
(* run and fail counters), two indexes that find those objects again by      *)
(* value, and one task, Runner.run, that picks the least run combination,    *)
(* tests it inside a container and counts the result.  The service changes   *)
(* the same data between any two steps of the task: every "await" of the     *)
(* task ends an action here, and the code between two awaits is one action.  *)
(* The bodies under Runner._clock contain no await, so they are atomic.      *)
(*                                                                           *)
(* Documented test groups have no city, so the group of a configuration is   *)
(* its pair (vpn_country, target_country); the TestGroup by which an object  *)
(* is found is the key [pair, city], whose city random_city_check may fill.  *)
(*****************************************************************************)
EXTENDS Integers, FiniteSets

CONSTANTS
    Pairs,       \* the (vpn_country, target_country) pairs of test groups
    AutoPairs,   \* the pairs whose vpn_country is "auto"
    Cities,      \* cities a provider can offer
    NoCity,      \* vpn_city = None
    Cases,       \* test cases (vpn, technology, protocol)
    Providers,   \* VPN providers, by name
    ProviderOf,  \* the vpn of each test case
    CatchAll,    \* providers whose get_cities has a bare "except:"
    None,        \* Python's None
    MaxRuns      \* bound: no combination is selected once a count reaches it

Key == [pair: Pairs, city: Cities \cup {NoCity}]

(* "run", "case", "group": the three kinds of test errors; "env": any other  *)
(* exception of the container layer; "city": get_cities raises; "cancel":    *)
(* the task is cancelled by its owner; "remove": parts of the configuration  *)
(* are removed while the task is at work.                                    *)
FaultKinds == {"run", "case", "group", "env", "city", "cancel", "remove"}

ASSUME RunnerAssumption ==
    /\ AutoPairs \subseteq Pairs
    /\ ProviderOf \in [Cases -> Providers]
    /\ CatchAll \subseteq Providers
    /\ MaxRuns \in Nat
    /\ NoCity \notin Cities
    /\ None \notin Cases
    /\ None \notin Key

VARIABLES
    groups,          \* Runner._groups: group id -> [city, failing]
    stats,           \* the Case objects: case id -> [run, fail]
    group_index,     \* Runner._group_index: key -> group id
    case_index,      \* Runner._case_index: key -> (test case -> case id)
    test_cases,      \* Runner._test_cases
    failing_cases,   \* Runner._failing_cases
    common_cities,   \* Runner._common_cities
    providers,       \* the names in DynamicVPN._providers
    faults,          \* what the environment may do wrong, see FaultKinds
    pc,              \* the await at which Runner.run is suspended
    mode, repeats,   \* the arguments of Runner.run
    runs, group, no_options,  \* its locals (reset_then_no_options_found)
    case, left,      \* the test case under test and the repeats not yet over
    cancelling,      \* CancelledError is thrown at the next resume
    outcome,         \* how the last task ended
    sent             \* results given to MasterSink.send_data, per pair and case

dataVars == <<groups, stats, group_index, case_index, test_cases, failing_cases>>
confVars == <<common_cities, providers, faults>>
taskVars == <<pc, mode, repeats, runs, group, no_options, case, left, cancelling,
              outcome, sent>>
runnerVars == <<dataVars, confVars, taskVars>>

GroupId == [pair: Pairs, gen: Nat]            \* gen: the add_groups that made it
CaseId == [of: GroupId, case: Cases, copy: Nat]
Outcomes == {"none", "once", "cancelled", "lookup", "zerodiv", "nocases", "env",
             "city"}
Points == {"off", "new", "top", "clear", "city", "env", "login", "vpn", "add_run",
           "exit", "fail_run", "fail_group", "fail_case", "delay"}

KeyOf(g) == [pair |-> g.pair, city |-> groups[g].city]
CasesOf(g) == {o \in DOMAIN stats : o.of = g}
Plain(p) == [pair |-> p, city |-> NoCity]   \* the group of a configuration
Empty == [x \in {} |-> None]
Without(f, S) == [x \in DOMAIN f \ S |-> f[x]]
Overlay(f, g) == [x \in DOMAIN f \cup DOMAIN g |-> IF x \in DOMAIN g THEN g[x] ELSE f[x]]
With(f, x, v) == [y \in DOMAIN f \cup {x} |-> IF y = x THEN v ELSE f[y]]

DataTypeOK ==
    /\ DOMAIN groups \subseteq GroupId
    /\ groups \in [DOMAIN groups -> [city: Cities \cup {NoCity}, failing: BOOLEAN]]
    /\ DOMAIN stats \subseteq CaseId
    /\ \A o \in DOMAIN stats : o.of \in DOMAIN groups
    /\ stats \in [DOMAIN stats -> [run: Nat, fail: Int]]
    /\ DOMAIN group_index \subseteq Key
    /\ group_index \in [DOMAIN group_index -> GroupId]
    /\ DOMAIN case_index \subseteq Key
    /\ \A k \in DOMAIN case_index :
         /\ DOMAIN case_index[k] \subseteq Cases
         /\ case_index[k] \in [DOMAIN case_index[k] -> CaseId]
    /\ test_cases \subseteq Cases /\ failing_cases \subseteq Cases

TaskTypeOK ==
    /\ common_cities \in BOOLEAN /\ providers \subseteq Providers /\ faults \subseteq FaultKinds
    /\ pc \in Points /\ mode \in {"once", "continuous"} /\ repeats \in Nat \ {0}
    /\ runs \in Nat /\ group \in Key \cup {None} /\ no_options \in BOOLEAN
    /\ case \in Cases \cup {None} /\ left \in Nat /\ cancelling \in BOOLEAN
    /\ outcome \in Outcomes /\ sent \in [Pairs \X Cases -> Nat]

RunnerTypeOK == DataTypeOK /\ TaskTypeOK

-------------------------------------------------------------------------------
(* service/select.py: which combinations may run next.                       *)

Candidates == {o \in DOMAIN stats : ~groups[o.of].failing}

(* Groups whose cases have different counts go first.                        *)
Uneven == {o \in Candidates :
             \E p, q \in CasesOf(o.of) : stats[p].run # stats[q].run}

(* Mutants: plausible slips, each used in place of the next definition to    *)
(* show that a property notices it.                                          *)
Pool_AnyGroup == Candidates

Pool == IF Uneven # {} THEN Uneven ELSE Candidates

Options_AnyCount == {o \in Pool : stats[o].fail >= 0}

Options_AnyMark == {o \in Pool : \A q \in Pool : stats[o].run <= stats[q].run}

Options == {o \in Pool : /\ stats[o].fail >= 0
                         /\ \A q \in Pool : stats[o].run <= stats[q].run}

(* min() of an empty sequence: a group that does not fail and has no cases.  *)
SelectRaises == \E g \in DOMAIN groups : ~groups[g].failing /\ CasesOf(g) = {}

-------------------------------------------------------------------------------
(* The operations of the service on groups and cases: the bodies under       *)
(* Runner._clock.  They change dataVars only.                                *)

Victims(pairs) == {g \in DOMAIN groups : KeyOf(g) \in {Plain(p) : p \in pairs}}
VictimKeys_Forgotten(pairs) == {}
VictimKeys(pairs) == {KeyOf(g) : g \in Victims(pairs)}
RemoveGroupsRaises(pairs) ==
    \/ ~(VictimKeys(pairs) \subseteq DOMAIN group_index)
    \/ \E g, h \in Victims(pairs) : g # h /\ KeyOf(g) = KeyOf(h)

remove_groups(pairs) ==
    /\ ~RemoveGroupsRaises(pairs)
    /\ groups' = Without(groups, Victims(pairs))
    /\ stats' = Without(stats, UNION {CasesOf(g) : g \in Victims(pairs)})
    /\ group_index' = Without(group_index, VictimKeys(pairs))
    /\ case_index' = Without(case_index, VictimKeys(pairs))
    /\ UNCHANGED <<test_cases, failing_cases>>

(* KeyError: the groups before are out of the indexes, and all of them still *)
(* in the list.                                                              *)
remove_groups_lookup(pairs) ==
    /\ RemoveGroupsRaises(pairs)
    /\ \E keys \in SUBSET (VictimKeys(pairs) \cap DOMAIN group_index) :
         /\ group_index' = Without(group_index, keys)
         /\ case_index' = Without(case_index, keys)
    /\ UNCHANGED <<groups, stats, test_cases, failing_cases>>

NewCase(g, c) ==
    [of |-> g, case |-> c, copy |-> Cardinality({o \in CasesOf(g) : o.case = c})]
NewStats(c) == [run |-> 0, fail |-> IF c \in failing_cases THEN -1 ELSE 0]

(* Groups are appended to the list: gen is the place of their addition.      *)
Gens == {g.gen : g \in DOMAIN groups}
NextGen == IF Gens = {} THEN 0 ELSE 1 + CHOOSE n \in Gens : \A m \in Gens : m <= n

add_groups(pairs) ==
    LET new == [p \in pairs |-> [pair |-> p, gen |-> NextGen]]
        keys == {Plain(p) : p \in pairs}
    IN /\ groups' = Overlay(groups, [g \in {new[p] : p \in pairs} |->
                                       [city |-> NoCity, failing |-> FALSE]])
       /\ stats' = Overlay(stats, [o \in {NewCase(new[p], c) : p \in pairs, c \in test_cases}
                                     |-> NewStats(o.case)])
       /\ group_index' = Overlay(group_index, [k \in keys |-> new[k.pair]])
       /\ case_index' = Overlay(case_index,
                          [k \in keys |-> [c \in test_cases |-> NewCase(new[k.pair], c)]])
       /\ UNCHANGED <<test_cases, failing_cases>>

(* The loop that should take the cases out of the groups compares them with  *)
(* the list it is building, so it takes out none.                            *)
remove_cases(cases) ==
    /\ test_cases' = test_cases \ cases
    /\ failing_cases' = failing_cases \ cases
    /\ UNCHANGED <<groups, stats, group_index, case_index>>

(* Of several groups with one key the last in the list is indexed.           *)
Keyed_All(k) == DOMAIN groups
Keyed(k) == {g \in DOMAIN groups : KeyOf(g) = k}
LastOf(gs) == CHOOSE g \in gs : \A h \in gs : h.gen <= g.gen

Reindexed_Replacing(k, cases) == [c \in cases |-> NewCase(LastOf(Keyed(k)), c)]

Reindexed(k, cases) ==
    Overlay(IF k \in DOMAIN case_index THEN case_index[k] ELSE Empty,
            [c \in cases |-> NewCase(LastOf(Keyed(k)), c)])

add_cases(cases) ==
    /\ test_cases' = test_cases \cup cases
    /\ stats' = Overlay(stats, [o \in {NewCase(g, c) : g \in DOMAIN groups, c \in cases} |->
                                  NewStats(o.case)])
    /\ case_index' = Overlay(case_index,
                             [k \in {KeyOf(g) : g \in DOMAIN groups} |-> Reindexed(k, cases)])
    /\ UNCHANGED <<groups, group_index, failing_cases>>

-------------------------------------------------------------------------------
(* Runner.run up to its first await in an iteration.                         *)

FirstGroup == CHOOSE g \in DOMAIN groups : \A h \in DOMAIN groups : g.gen <= h.gen
Target == IF DOMAIN groups = {} THEN 0
          ELSE Cardinality(DOMAIN groups) * Cardinality(CasesOf(FirstGroup))
Over_OffByOne == runs > Target \/ no_options
Over == runs >= Target \/ no_options

End(how) ==
    /\ pc' = "off" /\ outcome' = how /\ cancelling' = FALSE
    /\ runs' = 0 /\ group' = None /\ no_options' = FALSE /\ case' = None /\ left' = 0

(* The task is created: nothing of Runner.run has run yet.                   *)
Begin(m, r) ==
    /\ pc' = "new" /\ mode' = m /\ repeats' = r /\ outcome' = "none"
    /\ runs' = 0 /\ group' = None /\ no_options' = FALSE /\ case' = None /\ left' = 0
    /\ UNCHANGED <<cancelling, sent>>

FirstStep ==
    /\ pc = "new" /\ ~cancelling
    /\ pc' = "top"
    /\ UNCHANGED <<dataVars, confVars, mode, repeats, runs, group, no_options, case,
                   left, cancelling, outcome, sent>>

FinishOnce ==
    /\ pc = "top" /\ ~cancelling
    /\ Over /\ mode = "once"
    /\ End("once")
    /\ UNCHANGED <<dataVars, confVars, mode, repeats, sent>>

(* What the round reset leaves in the locals, before the selection.          *)
RoundRuns == IF Over THEN 0 ELSE runs
RoundGroup == IF Over THEN None ELSE group

Selecting == pc = "top" /\ ~cancelling /\ ~(Over /\ mode = "once")

SelectCrash ==
    /\ Selecting /\ SelectRaises
    /\ End("nocases")
    /\ UNCHANGED <<dataVars, confVars, mode, repeats, sent>>

NoOption ==
    /\ Selecting /\ ~SelectRaises /\ Options = {}
    /\ pc' = "clear" /\ runs' = RoundRuns /\ group' = RoundGroup
    /\ UNCHANGED <<dataVars, confVars, mode, repeats, no_options, case, left,
                   cancelling, outcome, sent>>

(* The pair of the current group is kept with the key it already has; a new  *)
(* pair is looked up a city for, unless it is "auto" or cities do not count. *)
SelectNext ==
    /\ Selecting /\ ~SelectRaises
    /\ \A o \in DOMAIN stats : stats[o].run < MaxRuns
    /\ \E o \in Options :
         LET same == RoundGroup # None /\ RoundGroup.pair = o.of.pair
         IN /\ group' = IF same THEN RoundGroup ELSE KeyOf(o.of)
            /\ pc' = IF ~same /\ common_cities /\ o.of.pair \notin AutoPairs
                     THEN "city" ELSE "env"
            /\ case' = o.case
    /\ runs' = RoundRuns
    /\ left' = repeats
    /\ UNCHANGED <<dataVars, confVars, mode, repeats, no_options, cancelling,
                   outcome, sent>>

(* random_city_check has answered: both indexes and the object are renamed.  *)
Renamed_KeepsOldKey(g, k) ==
    /\ groups' = [groups EXCEPT ![g].city = k.city]
    /\ group_index' = With(group_index, k, g)
    /\ case_index' = With(case_index, k, case_index[group])

Renamed_DropsCases(g, k) ==
    /\ groups' = [groups EXCEPT ![g].city = k.city]
    /\ group_index' = With(Without(group_index, {group}), k, g)
    /\ case_index' = Without(case_index, {group})

Renamed(g, k) ==
    /\ groups' = [groups EXCEPT ![g].city = k.city]
    /\ group_index' = With(Without(group_index, {group}), k, g)
    /\ case_index' = With(Without(case_index, {group}), k, case_index[group])

PickCity ==
    /\ pc = "city" /\ ~cancelling
    /\ {group} \subseteq DOMAIN group_index \cap DOMAIN case_index
    /\ \E c \in Cities \cup {NoCity} :
         LET k == [group EXCEPT !.city = c]
         IN Renamed(group_index[group], k) /\ group' = k
    /\ pc' = "env"
    /\ UNCHANGED <<stats, test_cases, failing_cases, confVars, mode, repeats, runs,
                   no_options, case, left, cancelling, outcome, sent>>

(* KeyError in the renaming: the groups are indexed under the new key first. *)
PickCityLookup ==
    /\ pc = "city" /\ ~cancelling
    /\ ~({group} \subseteq DOMAIN group_index \cap DOMAIN case_index)
    /\ IF group \in DOMAIN group_index
       THEN \E c \in Cities \cup {NoCity} :
              group_index' = With(Without(group_index, {group}),
                                  [group EXCEPT !.city = c], group_index[group])
       ELSE UNCHANGED group_index
    /\ End("lookup")
    /\ UNCHANGED <<groups, stats, case_index, test_cases, failing_cases, confVars,
                   mode, repeats, sent>>

PickCityRaises ==
    /\ pc = "city" /\ ~cancelling /\ "city" \in faults
    /\ End("city")
    /\ UNCHANGED <<dataVars, confVars, mode, repeats, sent>>

-------------------------------------------------------------------------------
(* Runner._run_case.                                                         *)

unmovedData == <<groups, group_index, case_index, test_cases>>

(* The end of one repeat: run the case again or return to the selection.     *)
NextRepeat_OneTooMany ==
    /\ left' = left - 1
    /\ IF left >= 1
       THEN pc' = "env" /\ UNCHANGED <<runs, case>>
       ELSE pc' = "top" /\ runs' = runs + 1 /\ case' = None
    /\ UNCHANGED <<mode, repeats, group, no_options, cancelling, outcome>>

NextRepeat_NoRunCounted ==
    /\ left' = left - 1
    /\ IF left > 1
       THEN pc' = "env" /\ UNCHANGED case
       ELSE pc' = "top" /\ case' = None
    /\ UNCHANGED <<mode, repeats, runs, group, no_options, cancelling, outcome>>

NextRepeat ==
    /\ left' = left - 1
    /\ IF left > 1
       THEN pc' = "env" /\ UNCHANGED <<runs, case>>
       ELSE pc' = "top" /\ runs' = runs + 1 /\ case' = None
    /\ UNCHANGED <<mode, repeats, group, no_options, cancelling, outcome>>

Goto(l) ==
    /\ pc' = l
    /\ UNCHANGED <<mode, repeats, runs, group, no_options, case, left, cancelling,
                   outcome>>

(* The container is up, the local probe is known, and the provider of the    *)
(* case is looked up for the session.                                        *)
ContainerReady ==
    /\ pc = "env" /\ ~cancelling
    /\ ProviderOf[case] \in providers
    /\ Goto("login")
    /\ UNCHANGED <<dataVars, confVars, sent>>

ProviderGone ==
    /\ pc = "env" /\ ~cancelling
    /\ ProviderOf[case] \notin providers
    /\ End("lookup")
    /\ UNCHANGED <<dataVars, confVars, mode, repeats, sent>>

LoggedIn ==
    /\ pc = "login" /\ ~cancelling
    /\ Goto("vpn")
    /\ UNCHANGED <<dataVars, confVars, sent>>

(* Connected, probed, right country, speed test done.                        *)
Tested ==
    /\ pc = "vpn" /\ ~cancelling
    /\ Goto("add_run")
    /\ UNCHANGED <<dataVars, confVars, sent>>

(* An exception of one of the three kinds leaves the container and goes to   *)
(* its handler; only the speed test raises group and case errors.            *)
TestFails ==
    /\ ~cancelling
    /\ \/ pc \in {"env", "login", "vpn"} /\ "run" \in faults /\ Goto("fail_run")
       \/ pc = "vpn" /\ "group" \in faults /\ Goto("fail_group")
       \/ pc = "vpn" /\ "case" \in faults /\ Goto("fail_case")
    /\ UNCHANGED <<dataVars, confVars, sent>>

(* Any other exception leaves _run_case and ends Runner.run: one of the      *)
(* container layer, also while the container of a failed test is deleted.    *)
EnvRaises ==
    /\ pc \in {"env", "login", "vpn", "exit"} /\ ~cancelling /\ "env" \in faults
    /\ End("env")
    /\ UNCHANGED <<dataVars, confVars, mode, repeats, sent>>

Found(k, c) == k \in DOMAIN case_index /\ c \in DOMAIN case_index[k]

AddRun ==
    /\ pc = "add_run" /\ ~cancelling /\ Found(group, case)
    /\ stats' = [stats EXCEPT ![case_index[group][case]].run = @ + 1]
    /\ Goto("exit")
    /\ UNCHANGED <<unmovedData, failing_cases, confVars, sent>>

(* The session and the container are closed; the result is on its way.       *)
Sent ==
    /\ pc = "exit" /\ ~cancelling
    /\ sent' = [sent EXCEPT ![<<group.pair, case>>] = @ + 1]
    /\ Goto("delay")
    /\ UNCHANGED <<dataVars, confVars>>

OneMoreFailure_NoRun(s) == [run |-> s.run, fail |-> s.fail + 1]
OneMoreFailure(s) == [run |-> s.run + 1, fail |-> s.fail + 1]

FailRun ==
    /\ pc = "fail_run" /\ ~cancelling /\ Found(group, case)
    /\ stats' = [stats EXCEPT ![case_index[group][case]] = OneMoreFailure(@)]
    /\ Goto("delay")
    /\ UNCHANGED <<unmovedData, failing_cases, confVars, sent>>

CaseLookupRaises ==
    /\ pc \in {"add_run", "fail_run"} /\ ~cancelling /\ ~Found(group, case)
    /\ End("lookup")
    /\ UNCHANGED <<dataVars, confVars, mode, repeats, sent>>

Delayed ==
    /\ pc = "delay" /\ ~cancelling
    /\ NextRepeat
    /\ UNCHANGED <<dataVars, confVars, sent>>

(* run_count > 3 and run_count / fail_count < 1.3                            *)
MostlyFailing(s) == s.run > 3 /\ 10 * s.run < 13 * s.fail
CountFailures(objs) ==
    stats' = [o \in DOMAIN stats |->
                IF o \in objs THEN OneMoreFailure(stats[o]) ELSE stats[o]]
MarkFailing(g, objs) ==
    groups' = IF \E o \in objs : MostlyFailing(OneMoreFailure(stats[o]))
              THEN [groups EXCEPT ![g].failing = TRUE] ELSE groups

FailGroup ==
    /\ pc = "fail_group" /\ ~cancelling /\ group \in DOMAIN group_index
    /\ LET g == group_index[group]
       IN /\ \A o \in CasesOf(g) : stats[o].fail # -1
          /\ CountFailures(CasesOf(g))
          /\ MarkFailing(g, CasesOf(g))
    /\ NextRepeat
    /\ UNCHANGED <<group_index, case_index, test_cases, failing_cases, confVars, sent>>

(* ZeroDivisionError at the first case whose failure count becomes 0; the    *)
(* cases listed before it are already counted.                               *)
FailGroupDividesByZero ==
    /\ pc = "fail_group" /\ ~cancelling /\ group \in DOMAIN group_index
    /\ LET g == group_index[group]
           marked == {o \in CasesOf(g) : stats[o].fail = -1}
       IN \E first \in marked : \E before \in SUBSET (CasesOf(g) \ marked) :
            /\ CountFailures(before \cup {first})
            /\ MarkFailing(g, before)
    /\ End("zerodiv")
    /\ UNCHANGED <<group_index, case_index, test_cases, failing_cases, confVars, mode,
                   repeats, sent>>

FailGroupLookup ==
    /\ pc = "fail_group" /\ ~cancelling /\ group \notin DOMAIN group_index
    /\ End("lookup")
    /\ UNCHANGED <<dataVars, confVars, mode, repeats, sent>>

(* The case is marked in every group of the index.                           *)
Holders(c) == {k \in DOMAIN case_index : c \in DOMAIN case_index[k]}
MarkCase(c, keys) ==
    stats' = LET hit == {case_index[k][c] : k \in keys}
             IN [o \in DOMAIN stats |->
                   IF o \in hit THEN [run |-> stats[o].run + 1, fail |-> -1]
                   ELSE stats[o]]

FailCase ==
    /\ pc = "fail_case" /\ ~cancelling
    /\ Holders(case) = DOMAIN case_index
    /\ MarkCase(case, Holders(case))
    /\ failing_cases' = failing_cases \cup {case}
    /\ NextRepeat
    /\ UNCHANGED <<unmovedData, confVars, sent>>

(* KeyError at the first group that does not hold the case.                  *)
FailCaseLookup ==
    /\ pc = "fail_case" /\ ~cancelling
    /\ Holders(case) # DOMAIN case_index
    /\ \E before \in SUBSET Holders(case) : MarkCase(case, before)
    /\ failing_cases' = failing_cases \cup {case}
    /\ End("lookup")
    /\ UNCHANGED <<unmovedData, confVars, mode, repeats, sent>>

ClearFails ==
    /\ pc = "clear" /\ ~cancelling
    /\ groups' = [g \in DOMAIN groups |-> [groups[g] EXCEPT !.failing = FALSE]]
    /\ stats' = [o \in DOMAIN stats |-> [stats[o] EXCEPT !.fail = 0]]
    /\ failing_cases' = {}
    /\ no_options' = TRUE /\ pc' = "top"
    /\ UNCHANGED <<group_index, case_index, test_cases, confVars, mode, repeats, runs,
                   group, case, left, cancelling, outcome, sent>>

-------------------------------------------------------------------------------
(* Cancellation: Task.cancel() by the owner, CancelledError at the await.    *)

Cancel ==
    /\ pc # "off" /\ cancelling' = TRUE
    /\ UNCHANGED <<pc, mode, repeats, runs, group, no_options, case, left, outcome,
                   sent>>

Cancelled ==
    /\ pc \notin {"off", "login"} /\ cancelling
    /\ End("cancelled")
    /\ UNCHANGED <<dataVars, confVars, mode, repeats, sent>>

(* The bare "except:" around login turns CancelledError into a test error.   *)
CancelLostInLogin ==
    /\ pc = "login" /\ cancelling
    /\ pc' = "fail_run" /\ cancelling' = FALSE
    /\ UNCHANGED <<dataVars, confVars, mode, repeats, runs, group, no_options, case,
                   left, outcome, sent>>

(* So does the one in get_cities of some providers: the check goes on.       *)
CancelLostInCities ==
    /\ pc = "city" /\ cancelling
    /\ providers \cap CatchAll # {}
    /\ cancelling' = FALSE
    /\ UNCHANGED <<dataVars, confVars, pc, mode, repeats, runs, group, no_options,
                   case, left, outcome, sent>>

Step ==
    \/ FirstStep \/ FinishOnce \/ SelectCrash \/ NoOption \/ SelectNext
    \/ PickCity \/ PickCityLookup \/ PickCityRaises
    \/ ContainerReady \/ ProviderGone \/ LoggedIn \/ Tested \/ TestFails \/ EnvRaises
    \/ AddRun \/ Sent \/ FailRun \/ CaseLookupRaises \/ Delayed
    \/ FailGroup \/ FailGroupDividesByZero \/ FailGroupLookup
    \/ FailCase \/ FailCaseLookup \/ ClearFails
    \/ Cancelled \/ CancelLostInLogin \/ CancelLostInCities

===============================================================================
