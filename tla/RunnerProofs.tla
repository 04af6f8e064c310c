----------------------------- MODULE RunnerProofs -----------------------------
(*****************************************************************************)
(* Theorems of StaticRunner, for any sets of pairs, cases, cities and        *)
(* providers, any number of repeats and any bound MaxRuns.                   *)
(*****************************************************************************)
EXTENDS StaticRunner, StepProofs, FiniteSetTheorems, FunctionTheorems

TypeInv == TypeOK /\ Control

(* The initial state has the types.                                          *)
LEMMA InitTypeInv == Init => TypeInv
<1> SUFFICES ASSUME Init PROVE TypeInv
  OBVIOUS
<1>1. groups \in [DOMAIN groups -> [city: Cities \cup {NoCity}, failing: BOOLEAN]]
  BY DEF Init
<1>2. DOMAIN groups \subseteq GroupId
  BY DEF Init, Gid, GroupId
<1>3. /\ DOMAIN stats \subseteq CaseId
      /\ stats \in [DOMAIN stats -> [run: Nat, fail: Int]]
  BY DEF Init, Cid, Gid, CaseId, GroupId
<1>4. /\ DOMAIN group_index \subseteq Key
      /\ group_index \in [DOMAIN group_index -> GroupId]
  BY DEF Init, Plain, Key, Gid, GroupId
<1>5. \A k \in DOMAIN case_index :
        /\ DOMAIN case_index[k] \subseteq Cases
        /\ case_index[k] \in [DOMAIN case_index[k] -> CaseId]
  BY DEF Init, Plain, Cid, Gid, CaseId, GroupId
<1>6. DOMAIN case_index \subseteq Key
  BY DEF Init, Plain, Key
<1>7. providers \subseteq Providers
  BY RunnerAssumption DEF Init
<1>8. \A o \in DOMAIN stats : o.of \in DOMAIN groups
  BY DEF Init, Cid
<1> QED
  BY <1>1, <1>2, <1>3, <1>4, <1>5, <1>6, <1>7, <1>8, StaticAssumption
  DEF Init, TypeInv, TypeOK, RunnerTypeOK, DataTypeOK, TaskTypeOK, Control, Points, Testing, Outcomes

(* Every step keeps the types of the task.                                   *)
LEMMA StepTaskInv == TypeInv /\ [Next]_runnerVars => TaskInv'
<1> SUFFICES ASSUME TypeInv, [Next]_runnerVars PROVE TaskInv'
  OBVIOUS
<1>a. RunnerInv
  BY DEF TypeInv, TypeOK, RunnerInv
<1>b. TaskInv
  BY <1>a DEF RunnerInv, RunnerTypeOK, TaskInv
<1>1. CASE Step
  BY <1>1, <1>a, StepKeepsTask
<1>2. CASE CancelledByOwner
  BY <1>2, <1>b DEF CancelledByOwner, Cancel, TaskInv, TaskTypeOK, Control, confVars,
                    Testing
<1>3. CASE UNCHANGED runnerVars
  BY <1>3, <1>b DEF runnerVars, taskVars, TaskInv, TaskTypeOK, Control, confVars, Testing
<1> QED
  BY <1>1, <1>2, <1>3 DEF Next

(* The steps that leave the groups, the cases and the indexes alone.         *)
Quiet ==
    \/ FirstStep \/ FinishOnce \/ SelectCrash \/ NoOption \/ SelectNext
    \/ PickCityRaises \/ ContainerReady \/ ProviderGone \/ LoggedIn \/ Tested
    \/ TestFails \/ EnvRaises \/ Sent \/ CaseLookupRaises \/ Delayed \/ FailGroupLookup
    \/ Cancelled \/ CancelLostInLogin \/ CancelLostInCities \/ CancelledByOwner
    \/ UNCHANGED runnerVars

LEMMA QuietData == Quiet => UNCHANGED dataVars
BY DEF Quiet, FirstStep, FinishOnce, SelectCrash, NoOption, SelectNext, PickCityRaises,
       ContainerReady, ProviderGone, LoggedIn, Tested, TestFails, EnvRaises, Sent,
       CaseLookupRaises, Delayed, FailGroupLookup, Cancelled, CancelLostInLogin,
       CancelLostInCities, CancelledByOwner, runnerVars

LEMMA QuietOrNot ==
    [Next]_runnerVars =>
        \/ Quiet \/ PickCity \/ PickCityLookup \/ AddRun \/ FailRun
        \/ FailGroup \/ FailGroupDividesByZero \/ FailCase \/ FailCaseLookup \/ ClearFails
BY DEF Next, Step, Quiet

(* Every step keeps the types of the groups, the cases and the indexes.      *)
LEMMA StepDataInv == TypeInv /\ [Next]_runnerVars => DataTypeOK'
<1> SUFFICES ASSUME TypeInv, [Next]_runnerVars PROVE DataTypeOK'
  OBVIOUS
<1>1. RunnerInv /\ DataTypeOK
  BY DEF TypeInv, TypeOK, RunnerInv, RunnerTypeOK
<1>2. CASE Step
  BY <1>1, <1>2, StepKeepsData
<1>3. CASE CancelledByOwner \/ UNCHANGED runnerVars
  BY <1>1, <1>3 DEF CancelledByOwner, runnerVars, dataVars, DataTypeOK
<1> QED
  BY <1>2, <1>3 DEF Next

(* TypeOK is an invariant of the runner on every configuration.              *)
THEOREM TypeCorrect == Spec => []TypeOK
<1>1. TypeInv /\ [Next]_runnerVars => TypeInv'
  BY StepTaskInv, StepDataInv DEF TypeInv, TypeOK, RunnerTypeOK, TaskInv
<1>2. TypeInv => TypeOK
  BY DEF TypeInv
<1> QED
  BY <1>1, <1>2, InitTypeInv, PTL DEF Spec

-------------------------------------------------------------------------------
(* The indexes of the runner stay exact, so that its bookkeeping never fails *)
(* on a configuration that does not change.                                  *)

(* The groups and the cases are those of the configuration, whatever cities  *)
(* the groups move to.                                                       *)
Shape ==
    /\ DOMAIN groups = {Gid(p) : p \in Pairs}
    /\ DOMAIN stats = {Cid(p, c) : p \in Pairs, c \in Cases}

(* The current group is one of the index.                                    *)
IndexInv ==
    /\ TypeInv
    /\ Shape
    /\ IndexExact
    /\ group # None => group \in DOMAIN group_index

LEMMA InitIndexInv == Init => IndexInv
<1> SUFFICES ASSUME Init PROVE IndexInv
  OBVIOUS
<1>1. \A g \in DOMAIN groups : KeyOf(g) = Plain(g.pair) /\ g = Gid(g.pair)
  BY DEF Init, KeyOf, Plain, Gid
<1>2. DOMAIN group_index = {KeyOf(g) : g \in DOMAIN groups}
  <2>1. DOMAIN group_index = {Plain(p) : p \in Pairs} /\ DOMAIN groups = {Gid(p) : p \in Pairs}
    BY DEF Init
  <2>2. \A p \in Pairs : KeyOf(Gid(p)) = Plain(p)
    BY <1>1, <2>1 DEF Gid
  <2> QED
    BY <2>1, <2>2
<1>3. \A g \in DOMAIN groups :
        /\ group_index[KeyOf(g)] = g
        /\ case_index[KeyOf(g)] = [c \in Cases |-> Cid(g.pair, c)]
  BY <1>1 DEF Init, Gid, Plain
<1> QED
  <2>1. Shape /\ group = None /\ DOMAIN case_index = DOMAIN group_index
    BY DEF Init, Shape
  <2> QED
    BY <2>1, <1>2, <1>3, InitTypeInv DEF IndexInv, IndexExact

(* What the index says of the current group.                                 *)
LEMMA CurrentGroup ==
    ASSUME IndexInv, group # None
    PROVE  /\ group \in DOMAIN group_index /\ group \in DOMAIN case_index
           /\ group_index[group] = Gid(group.pair)
           /\ Gid(group.pair) \in DOMAIN groups /\ group.pair \in Pairs
           /\ group = KeyOf(Gid(group.pair))
           /\ case_index[group] = [c \in Cases |-> Cid(group.pair, c)]
<1>1. PICK g \in DOMAIN groups : group = KeyOf(g)
  BY DEF IndexInv, IndexExact
<1>2. g = Gid(group.pair) /\ group.pair \in Pairs
  BY <1>1 DEF IndexInv, Shape, KeyOf, Gid
<1>3. group.pair = g.pair
  BY <1>1 DEF KeyOf
<1> QED
  BY <1>1, <1>2, <1>3 DEF IndexInv, IndexExact

(* The lookups of the bookkeeping succeed.                                   *)
LEMMA Lookups ==
    ASSUME IndexInv, pc \in Testing
    PROVE  /\ group # None /\ group.pair \in Pairs /\ case \in Cases
           /\ {group} \subseteq DOMAIN group_index \cap DOMAIN case_index
           /\ Found(group, case)
           /\ case_index[group][case] = Cid(group.pair, case)
           /\ Holders(case) = DOMAIN case_index
<1>1. group # None /\ case \in Cases
  BY RunnerAssumption DEF IndexInv, TypeInv, Control
<1>2. \A k \in DOMAIN case_index : case \in DOMAIN case_index[k]
  <2> SUFFICES ASSUME NEW k \in DOMAIN case_index PROVE case \in DOMAIN case_index[k]
    OBVIOUS
  <2>1. PICK g \in DOMAIN groups : k = KeyOf(g)
    BY DEF IndexInv, IndexExact
  <2> QED
    BY <2>1, <1>1 DEF IndexInv, IndexExact
<1> QED
  BY <1>1, <1>2, CurrentGroup DEF Found, Holders

(* A step that moves no group keeps the indexes exact.                       *)
LEMMA NothingMoves ==
    ASSUME IndexInv, UNCHANGED <<group_index, case_index>>,
           DOMAIN groups' = DOMAIN groups, DOMAIN stats' = DOMAIN stats,
           \A g \in DOMAIN groups : groups'[g].city = groups[g].city,
           group' # None => group' \in DOMAIN group_index,
           TypeInv'
    PROVE  IndexInv'
<1> DEFINE Now(g) == [pair |-> g.pair, city |-> groups'[g].city]
<1>1. \A g \in DOMAIN groups : Now(g) = KeyOf(g)
  BY DEF KeyOf
<1>2. {Now(g) : g \in DOMAIN groups'} = {KeyOf(g) : g \in DOMAIN groups}
  BY <1>1
<1>3. IndexExact'
  <2>1. /\ DOMAIN group_index' = {Now(g) : g \in DOMAIN groups'}
        /\ DOMAIN case_index' = DOMAIN group_index'
    BY <1>2 DEF IndexInv, IndexExact
  <2>2. \A g \in DOMAIN groups' :
          /\ group_index'[Now(g)] = g
          /\ case_index'[Now(g)] = [c \in Cases |-> Cid(g.pair, c)]
    BY <1>1 DEF IndexInv, IndexExact
  <2> QED
    BY <2>1, <2>2 DEF IndexExact, KeyOf
<1> QED
  BY <1>3 DEF IndexInv, Shape

(* random_city_check moves one group: the keys of the others are not hit.    *)
LEMMA PickCityIndex ==
    ASSUME IndexInv, PickCity, TypeInv'
    PROVE  IndexInv'
<1>1. PICK c \in Cities \cup {NoCity} :
        /\ Renamed(group_index[group], [group EXCEPT !.city = c])
        /\ group' = [group EXCEPT !.city = c]
  BY DEF PickCity
<1> DEFINE g == Gid(group.pair)
           k == [group EXCEPT !.city = c]
           Now(h) == [pair |-> h.pair, city |-> groups'[h].city]
<1>2. group # None /\ group \in Key
  BY RunnerAssumption DEF PickCity, IndexInv, TypeInv, Control, Testing, Points
<1>3. /\ group \in DOMAIN group_index /\ group \in DOMAIN case_index
      /\ group_index[group] = g /\ g \in DOMAIN groups
      /\ group = KeyOf(g)
      /\ case_index[group] = [d \in Cases |-> Cid(group.pair, d)]
  BY <1>2, CurrentGroup
<1>4. k.pair = group.pair /\ k.city = c /\ k = [pair |-> group.pair, city |-> c]
  BY <1>2 DEF Key
<1>5. /\ groups' = [groups EXCEPT ![g].city = c]
      /\ group_index' = With(Without(group_index, {group}), k, g)
      /\ case_index' = With(Without(case_index, {group}), k, case_index[group])
  BY <1>1, <1>3, <1>4 DEF Renamed
<1>6. g.pair = group.pair
  BY DEF Gid
<1>7. DOMAIN groups' = DOMAIN groups /\ groups'[g].city = c
  BY <1>5, <1>3 DEF IndexInv, TypeInv, TypeOK, RunnerTypeOK, DataTypeOK
<1>8. Now(g) = k
  BY <1>4, <1>6, <1>7 DEF KeyOf
<1>9. \A h \in DOMAIN groups \ {g} :
        /\ h.pair # group.pair
        /\ Now(h) = KeyOf(h)
        /\ KeyOf(h) # group /\ KeyOf(h) # k
  <2> SUFFICES ASSUME NEW h \in DOMAIN groups, h # g
               PROVE  /\ h.pair # group.pair
                      /\ Now(h) = KeyOf(h)
                      /\ KeyOf(h) # group /\ KeyOf(h) # k
    OBVIOUS
  <2>1. h.pair # group.pair
    BY DEF IndexInv, Shape, Gid
  <2>2. Now(h) = KeyOf(h)
    BY <1>5 DEF KeyOf
  <2>3. KeyOf(h).pair = h.pair
    BY DEF KeyOf
  <2> QED
    BY <2>1, <2>2, <2>3, <1>4
<1>10. DOMAIN group_index' = (DOMAIN group_index \ {group}) \cup {k}
  BY <1>5 DEF With, Without
<1>11. DOMAIN case_index' = (DOMAIN case_index \ {group}) \cup {k}
  BY <1>5 DEF With, Without
<1>12. DOMAIN group_index = {KeyOf(h) : h \in DOMAIN groups} /\ DOMAIN case_index = DOMAIN group_index
  BY DEF IndexInv, IndexExact
<1>13. DOMAIN group_index' = {Now(h) : h \in DOMAIN groups}
  <2>1. ASSUME NEW x \in DOMAIN group_index' PROVE \E h \in DOMAIN groups : x = Now(h)
    <3>1. CASE x = k
      BY <3>1, <1>8, <1>3
    <3>2. CASE x # k
      <4>1. x \in DOMAIN group_index /\ x # group
        BY <3>2, <2>1, <1>10
      <4>2. PICK h \in DOMAIN groups : x = KeyOf(h)
        BY <4>1, <1>12
      <4> QED
        BY <4>1, <4>2, <1>3, <1>9
    <3> QED
      BY <3>1, <3>2
  <2>2. ASSUME NEW h \in DOMAIN groups PROVE Now(h) \in DOMAIN group_index'
    BY <1>8, <1>9, <1>10, <1>12
  <2> QED
    BY <2>1, <2>2
<1>14. \A h \in DOMAIN groups :
         /\ group_index'[Now(h)] = h
         /\ case_index'[Now(h)] = [d \in Cases |-> Cid(h.pair, d)]
  <2> SUFFICES ASSUME NEW h \in DOMAIN groups
               PROVE  /\ group_index'[Now(h)] = h
                      /\ case_index'[Now(h)] = [d \in Cases |-> Cid(h.pair, d)]
    OBVIOUS
  <2>1. CASE h = g
    BY <2>1, <1>8, <1>5, <1>3, <1>6, <1>10, <1>11 DEF With
  <2>2. CASE h # g
    <3>1. KeyOf(h) \in DOMAIN group_index /\ KeyOf(h) \in DOMAIN case_index
      BY <1>12
    <3>2. Now(h) = KeyOf(h) /\ KeyOf(h) # group /\ KeyOf(h) # k
      BY <2>2, <1>9
    <3>3. /\ group_index[KeyOf(h)] = h
          /\ case_index[KeyOf(h)] = [d \in Cases |-> Cid(h.pair, d)]
      BY DEF IndexInv, IndexExact
    <3>4. /\ group_index'[KeyOf(h)] = group_index[KeyOf(h)]
          /\ case_index'[KeyOf(h)] = case_index[KeyOf(h)]
      BY <3>1, <3>2, <1>5 DEF With, Without
    <3> QED
      BY <3>2, <3>3, <3>4
  <2> QED
    BY <2>1, <2>2
<1>15. IndexExact'
  BY <1>7, <1>10, <1>11, <1>12, <1>13, <1>14 DEF IndexExact, KeyOf
<1>16. group' \in DOMAIN group_index'
  BY <1>1, <1>10
<1>17. Shape'
  <2>1. stats' = stats
    BY DEF PickCity
  <2> QED
    BY <2>1, <1>7 DEF IndexInv, Shape
<1> QED
  BY <1>15, <1>16, <1>17 DEF IndexInv

LEMMA NextTypeInv == TypeInv /\ [Next]_runnerVars => TypeInv'
BY StepTaskInv, StepDataInv DEF TypeInv, TypeOK, RunnerTypeOK, TaskInv

(* Where the task goes, the current group stays or is one of the index.      *)
LEMMA QuietGroup ==
    ASSUME IndexInv, Quiet, TypeInv'
    PROVE  IndexInv'
<1>1. UNCHANGED dataVars
  BY QuietData
<1>2. group' # None => group' \in DOMAIN group_index
  <2>1. CASE SelectNext
    <3>1. PICK o \in Options :
            group' = IF RoundGroup # None /\ RoundGroup.pair = o.of.pair
                     THEN RoundGroup ELSE KeyOf(o.of)
      BY <2>1 DEF SelectNext
    <3>2. o.of \in DOMAIN groups
      BY DEF Options, Pool, Uneven, Candidates, IndexInv, TypeInv, TypeOK, RunnerTypeOK,
             DataTypeOK
    <3>3. KeyOf(o.of) \in DOMAIN group_index
      BY <3>2 DEF IndexInv, IndexExact
    <3> QED
      BY <3>1, <3>3 DEF RoundGroup, IndexInv
  <2>2. CASE Quiet /\ ~SelectNext
    BY <2>2 DEF Quiet, FirstStep, FinishOnce, SelectCrash, NoOption, PickCityRaises,
                ContainerReady, ProviderGone, LoggedIn, Tested, TestFails, EnvRaises, Sent,
                CaseLookupRaises, Delayed, FailGroupLookup, Cancelled, CancelLostInLogin,
                CancelLostInCities, CancelledByOwner, runnerVars, taskVars, End, Goto,
                NextRepeat, Cancel, RoundGroup, IndexInv
  <2> QED
    BY <2>1, <2>2
<1> QED
  BY <1>1, <1>2, NothingMoves DEF dataVars

LEMMA StepIndexInv == IndexInv /\ [Next]_runnerVars => IndexInv'
<1> SUFFICES ASSUME IndexInv, [Next]_runnerVars PROVE IndexInv'
  OBVIOUS
<1>a. TypeInv'
  BY NextTypeInv DEF IndexInv
<1>b. DataTypeOK
  BY DEF IndexInv, TypeInv, TypeOK, RunnerTypeOK
<1>1. CASE Quiet
  BY <1>1, <1>a, QuietGroup
<1>2. CASE PickCity
  BY <1>2, <1>a, PickCityIndex
<1>3. CASE PickCityLookup
  BY <1>3, Lookups DEF PickCityLookup, Testing, Points
<1>4. CASE AddRun
  BY <1>4, <1>a, NothingMoves DEF AddRun, unmovedData, Goto, IndexInv
<1>5. CASE FailRun
  BY <1>5, <1>a, NothingMoves DEF FailRun, unmovedData, Goto, IndexInv
<1>6. CASE FailGroup
  BY <1>6, <1>a, <1>b, NothingMoves
  DEF FailGroup, CountFailures, MarkFailing, NextRepeat, IndexInv, DataTypeOK
<1>7. CASE FailGroupDividesByZero
  <2>1. PICK objs, before :
          /\ CountFailures(objs)
          /\ MarkFailing(group_index[group], before)
    BY <1>7 DEF FailGroupDividesByZero
  <2> QED
    BY <2>1, <1>7, <1>a, <1>b, NothingMoves
    DEF FailGroupDividesByZero, CountFailures, MarkFailing, End, DataTypeOK
<1>8. CASE FailCase
  BY <1>8, <1>a, NothingMoves DEF FailCase, MarkCase, unmovedData, NextRepeat, IndexInv
<1>9. CASE FailCaseLookup
  BY <1>9, <1>a, NothingMoves DEF FailCaseLookup, MarkCase, unmovedData, End
<1>10. CASE ClearFails
  BY <1>10, <1>a, <1>b, NothingMoves DEF ClearFails, IndexInv, DataTypeOK
<1> QED
  BY <1>1, <1>2, <1>3, <1>4, <1>5, <1>6, <1>7, <1>8, <1>9, <1>10, QuietOrNot

(* The indexes always lead from the current key of a group to the objects of *)
(* that group, whatever cities groups are moved to and whatever tests fail:  *)
(* Runner.random_city_check, _run_case and the handlers of its errors.       *)
THEOREM IndexCorrect == Spec => []IndexExact
<1>1. IndexInv => IndexExact
  BY DEF IndexInv
<1> QED
  BY <1>1, InitIndexInv, StepIndexInv, PTL DEF Spec

-------------------------------------------------------------------------------
(* The errors of the bookkeeping: each would need a fault that is not there. *)
FaultsOnly ==
    /\ providers = {ProviderOf[c] : c \in Cases}
    /\ pc = "fail_group" => "group" \in faults
    /\ pc = "fail_case" => "case" \in faults
    /\ "case" \notin faults => \A o \in DOMAIN stats : stats[o].fail >= 0

CrashInv == IndexInv /\ FaultsOnly /\ NoBookkeepingCrash

LEMMA InitCrashInv == Init => CrashInv
<1> SUFFICES ASSUME Init PROVE CrashInv
  OBVIOUS
<1>1. FaultsOnly /\ NoBookkeepingCrash
  BY DEF Init, FaultsOnly, NoBookkeepingCrash
<1> QED
  BY <1>1, InitIndexInv DEF CrashInv

(* Only steps with a fault reach the handlers of errors that spread.         *)
LEMMA QuietFaults ==
    ASSUME IndexInv, FaultsOnly, Quiet
    PROVE  FaultsOnly'
BY QuietData
DEF Quiet, FirstStep, FinishOnce, SelectCrash, NoOption, SelectNext, PickCityRaises,
    ContainerReady, ProviderGone, LoggedIn, Tested, TestFails, EnvRaises, Sent,
    CaseLookupRaises, Delayed, FailGroupLookup, Cancelled, CancelLostInLogin,
    CancelLostInCities, CancelledByOwner, runnerVars, taskVars, dataVars, confVars, End,
    Goto, NextRepeat, Cancel, FaultsOnly

LEMMA StepFaultsOnly == IndexInv /\ FaultsOnly /\ [Next]_runnerVars => FaultsOnly'
<1> SUFFICES ASSUME IndexInv, FaultsOnly, [Next]_runnerVars PROVE FaultsOnly'
  OBVIOUS
<1>a. DataTypeOK
  BY DEF IndexInv, TypeInv, TypeOK, RunnerTypeOK
<1>1. CASE Quiet
  BY <1>1, QuietFaults
<1>2. CASE PickCity
  BY <1>2 DEF PickCity, confVars, FaultsOnly
<1>3. CASE PickCityLookup
  BY <1>3, Lookups DEF PickCityLookup, Testing, Points
<1>4. CASE AddRun
  <2>1. \A o \in DOMAIN stats : stats'[o].fail = stats[o].fail
    BY <1>4, <1>a DEF AddRun, DataTypeOK
  <2>2. DOMAIN stats' = DOMAIN stats
    BY <1>4 DEF AddRun
  <2> QED
    BY <2>1, <2>2, <1>4 DEF AddRun, Goto, confVars, FaultsOnly
<1>5. CASE FailRun
  <2>1. \A o \in DOMAIN stats : stats'[o].fail \in {stats[o].fail, stats[o].fail + 1}
    BY <1>5, <1>a DEF FailRun, OneMoreFailure, DataTypeOK
  <2>2. DOMAIN stats' = DOMAIN stats
    BY <1>5 DEF FailRun
  <2>3. \A o \in DOMAIN stats : stats[o].fail \in Int
    BY <1>a DEF DataTypeOK
  <2> QED
    BY <2>1, <2>2, <2>3, <1>5 DEF FailRun, Goto, confVars, FaultsOnly
<1>6. CASE FailGroup
  <2>1. DOMAIN stats' = DOMAIN stats
    BY <1>6 DEF FailGroup, CountFailures
  <2>2. \A o \in DOMAIN stats : stats'[o].fail \in {stats[o].fail, stats[o].fail + 1}
    BY <1>6 DEF FailGroup, CountFailures, OneMoreFailure
  <2>3. \A o \in DOMAIN stats : stats[o].fail \in Int
    BY <1>a DEF DataTypeOK
  <2> QED
    BY <2>1, <2>2, <2>3, <1>6 DEF FailGroup, NextRepeat, confVars, FaultsOnly
<1>7. CASE FailGroupDividesByZero
  <2>1. PICK objs : CountFailures(objs)
    BY <1>7 DEF FailGroupDividesByZero
  <2>2. \A o \in DOMAIN stats : stats'[o].fail \in {stats[o].fail, stats[o].fail + 1}
    BY <2>1 DEF CountFailures, OneMoreFailure
  <2>3. \A o \in DOMAIN stats : stats[o].fail \in Int
    BY <1>a DEF DataTypeOK
  <2>4. DOMAIN stats' = DOMAIN stats
    BY <2>1 DEF CountFailures
  <2> QED
    BY <2>2, <2>3, <2>4, <1>7 DEF FailGroupDividesByZero, End, confVars, FaultsOnly
<1>8. CASE FailCase
  BY <1>8 DEF FailCase, NextRepeat, confVars, FaultsOnly
<1>9. CASE FailCaseLookup
  BY <1>9 DEF FailCaseLookup, End, confVars, FaultsOnly
<1>10. CASE ClearFails
  BY <1>10, <1>a DEF ClearFails, confVars, FaultsOnly, DataTypeOK
<1> QED
  BY <1>1, <1>2, <1>3, <1>4, <1>5, <1>6, <1>7, <1>8, <1>9, <1>10, QuietOrNot

(* Every group has cases to select from.                                     *)
LEMMA SelectsWithoutError ==
    ASSUME IndexInv, Cases # {}
    PROVE  ~SelectRaises
<1> SUFFICES ASSUME NEW g \in DOMAIN groups, CasesOf(g) = {} PROVE FALSE
  BY DEF SelectRaises
<1>1. PICK p \in Pairs, c \in Cases : g = Gid(p)
  BY DEF IndexInv, Shape
<1>2. Cid(p, c) \in DOMAIN stats /\ Cid(p, c).of = g
  BY <1>1 DEF IndexInv, Shape, Cid
<1> QED
  BY <1>2 DEF CasesOf

(* How the task can end in one step.                                         *)
LEMMA Ends ==
    ASSUME IndexInv, FaultsOnly, Cases # {}, [Next]_runnerVars
    PROVE  \/ UNCHANGED outcome
           \/ outcome' \in {"once", "city", "env", "cancelled"}
           \/ outcome' = "zerodiv" /\ Spreading = {"case", "group"}
<1>1. CASE SelectCrash
  BY <1>1, SelectsWithoutError DEF SelectCrash
<1>2. CASE PickCityLookup
  BY <1>2, Lookups DEF PickCityLookup, Testing, Points
<1>3. CASE ProviderGone
  <2>1. case \in Cases
    BY <1>3, Lookups DEF ProviderGone, Testing, Points
  <2> QED
    BY <2>1, <1>3 DEF ProviderGone, FaultsOnly
<1>4. CASE CaseLookupRaises
  BY <1>4, Lookups DEF CaseLookupRaises, Testing, Points
<1>5. CASE FailGroupLookup
  BY <1>5, Lookups DEF FailGroupLookup, Testing, Points
<1>6. CASE FailCaseLookup
  BY <1>6, Lookups DEF FailCaseLookup, Testing, Points
<1>7. CASE FailGroupDividesByZero
  <2>1. \E o \in DOMAIN stats : stats[o].fail = -1
    BY <1>7 DEF FailGroupDividesByZero, CasesOf
  <2>2. "case" \in faults /\ "group" \in faults
    BY <2>1, <1>7 DEF FailGroupDividesByZero, FaultsOnly
  <2> QED
    BY <2>2, <1>7 DEF FailGroupDividesByZero, End, Spreading
<1>8. CASE \/ FirstStep \/ NoOption \/ SelectNext \/ PickCity \/ ContainerReady
           \/ LoggedIn \/ Tested \/ TestFails \/ AddRun \/ Sent \/ FailRun \/ Delayed
           \/ FailGroup \/ FailCase \/ ClearFails \/ CancelLostInLogin
           \/ CancelLostInCities \/ CancelledByOwner \/ UNCHANGED runnerVars
  BY <1>8 DEF FirstStep, NoOption, SelectNext, PickCity, ContainerReady, LoggedIn, Tested,
              TestFails, AddRun, Sent, FailRun, Delayed, FailGroup, FailCase, ClearFails,
              CancelLostInLogin, CancelLostInCities, CancelledByOwner, Cancel, Goto,
              NextRepeat, runnerVars, taskVars
<1>9. CASE FinishOnce \/ PickCityRaises \/ EnvRaises \/ Cancelled
  BY <1>9 DEF FinishOnce, PickCityRaises, EnvRaises, Cancelled, End
<1> QED
  BY <1>1, <1>2, <1>3, <1>4, <1>5, <1>6, <1>7, <1>8, <1>9 DEF Next, Step

(* What the environment may do wrong is fixed.                               *)
LEMMA FaultsStay == [Next]_runnerVars => UNCHANGED faults
BY QuietOrNot
DEF Quiet, FirstStep, FinishOnce, SelectCrash, NoOption, SelectNext, PickCityRaises,
    ContainerReady, ProviderGone, LoggedIn, Tested, TestFails, EnvRaises, Sent,
    CaseLookupRaises, Delayed, FailGroupLookup, Cancelled, CancelLostInLogin,
    CancelLostInCities, CancelledByOwner, runnerVars, confVars, PickCity, PickCityLookup,
    AddRun, FailRun, FailGroup, FailGroupDividesByZero, FailCase, FailCaseLookup, ClearFails

(* With at least one test case, no KeyError, no ZeroDivisionError and no     *)
(* empty min() of the bookkeeping ends the task, unless group errors follow  *)
(* case errors: Runner.run with the handlers of its errors.                  *)
THEOREM NeverCrashes ==
    ASSUME Cases # {}
    PROVE  Spec => []NoBookkeepingCrash
<1>1. CrashInv /\ [Next]_runnerVars => CrashInv'
  <2> SUFFICES ASSUME CrashInv, [Next]_runnerVars PROVE CrashInv'
    OBVIOUS
  <2>1. IndexInv' /\ FaultsOnly'
    BY StepIndexInv, StepFaultsOnly DEF CrashInv
  <2>2. UNCHANGED faults
    BY FaultsStay
  <2>3. NoBookkeepingCrash'
    BY <2>2, Ends DEF CrashInv, NoBookkeepingCrash, Spreading
  <2> QED
    BY <2>1, <2>3 DEF CrashInv
<1>2. CrashInv => NoBookkeepingCrash
  BY DEF CrashInv
<1> QED
  BY <1>1, <1>2, InitCrashInv, PTL DEF Spec

-------------------------------------------------------------------------------
(* Without repeats: every object of a marked case carries the mark, until    *)
(* the marks are cleared, and neither the case nor the group that is under   *)
(* test is marked.                                                           *)
Marks ==
    repeats = 1 /\ pc # "off" =>
        /\ \A o \in DOMAIN stats : o.case \in failing_cases => stats[o].fail = -1
        /\ pc \in Testing =>
             /\ left = 1 /\ case \notin failing_cases
             /\ ~groups[Gid(group.pair)].failing

LEMMA InitMarks == Init => Marks
BY DEF Init, Marks, Testing

(* A selected case is not marked, and neither is the group it is tested in.  *)
LEMMA SelectsUnmarked ==
    ASSUME IndexInv, Marks, SelectNext, repeats = 1
    PROVE  /\ Marks'
           /\ case' \notin failing_cases' /\ ~groups'[group_index'[group']].failing
<1>1. PICK o \in Options :
        /\ group' = IF RoundGroup # None /\ RoundGroup.pair = o.of.pair
                    THEN RoundGroup ELSE KeyOf(o.of)
        /\ case' = o.case
  BY DEF SelectNext
<1>2. o \in DOMAIN stats /\ ~groups[o.of].failing /\ stats[o].fail >= 0
  BY DEF Options, Pool, Uneven, Candidates
<1>3. PICK p \in Pairs, c \in Cases : o = Cid(p, c)
  BY <1>2 DEF IndexInv, Shape
<1>4. o.of = Gid(p) /\ Gid(p).pair = p /\ o.case = c
  BY <1>3 DEF Cid, Gid
<1>5. pc = "top" /\ left' = repeats /\ UNCHANGED <<dataVars, repeats>>
  BY DEF SelectNext, Selecting
<1>6. group'.pair = p
  BY <1>1, <1>4 DEF KeyOf
<1>7. group_index[group'] = Gid(p)
  <2>1. CASE RoundGroup # None /\ RoundGroup.pair = o.of.pair
    BY <2>1, <1>1, <1>6, CurrentGroup DEF RoundGroup
  <2>2. CASE ~(RoundGroup # None /\ RoundGroup.pair = o.of.pair)
    <3>1. Gid(p) \in DOMAIN groups
      BY DEF IndexInv, Shape
    <3> QED
      BY <2>2, <3>1, <1>1, <1>4 DEF IndexInv, IndexExact
  <2> QED
    BY <2>1, <2>2
<1>8. o.case \notin failing_cases
  BY <1>2, <1>5 DEF Marks
<1> QED
  BY <1>1, <1>2, <1>4, <1>5, <1>6, <1>7, <1>8 DEF Marks, dataVars

LEMMA StepMarks ==
    ASSUME IndexInv, Marks, [Next]_runnerVars
    PROVE  Marks'
<1> SUFFICES ASSUME repeats' = 1, pc' # "off" PROVE Marks'
  BY DEF Marks
<1>a. DataTypeOK /\ Shape /\ IndexExact
  BY DEF IndexInv, TypeInv, TypeOK, RunnerTypeOK
<1>b. ASSUME UNCHANGED <<dataVars, repeats>>,
             pc' \in Testing =>
               pc \in Testing /\ UNCHANGED <<group, case, left>>,
             pc # "off"
      PROVE  Marks'
  BY <1>b DEF Marks, dataVars
<1>1. CASE \/ FirstStep \/ NoOption \/ ContainerReady \/ LoggedIn \/ Tested \/ TestFails
           \/ Sent \/ CancelLostInLogin \/ CancelLostInCities \/ CancelledByOwner
  <2>1. UNCHANGED <<dataVars, repeats>> /\ pc # "off"
    BY <1>1 DEF FirstStep, NoOption, Selecting, ContainerReady, LoggedIn, Tested, TestFails,
      Sent, CancelLostInLogin, CancelLostInCities, CancelledByOwner, Cancel, Goto
  <2>2. pc' \in Testing => pc \in Testing /\ UNCHANGED <<group, case, left>>
    BY <1>1 DEF FirstStep, NoOption, Selecting, ContainerReady, LoggedIn, Tested, TestFails,
      Sent, CancelLostInLogin, CancelLostInCities, CancelledByOwner, Cancel, Goto, Testing,
      Points
  <2> QED
    BY <2>1, <2>2, <1>b
<1>2. CASE \/ FinishOnce \/ SelectCrash \/ PickCityRaises \/ ProviderGone \/ EnvRaises
           \/ CaseLookupRaises \/ FailGroupLookup \/ Cancelled \/ PickCityLookup
           \/ FailGroupDividesByZero \/ FailCaseLookup
  BY <1>2 DEF FinishOnce, SelectCrash, PickCityRaises, ProviderGone, EnvRaises,
    CaseLookupRaises, FailGroupLookup, Cancelled, PickCityLookup, FailGroupDividesByZero,
    FailCaseLookup, End, Marks
<1>3. CASE SelectNext
  BY <1>3, SelectsUnmarked DEF SelectNext
<1>4. CASE Delayed
  BY <1>4 DEF Delayed, NextRepeat, dataVars, Marks, Testing, Points
<1>5. CASE PickCity
  <2>1. group \in DOMAIN group_index /\ group_index[group] = Gid(group.pair) /\ group \in Key
    BY <1>5, Lookups, CurrentGroup DEF PickCity, Testing, Points, IndexInv, TypeInv, Control
  <2>2. PICK c \in Cities \cup {NoCity} :
          /\ groups' = [groups EXCEPT ![Gid(group.pair)].city = c]
          /\ group' = [group EXCEPT !.city = c]
    <3>1. PICK c \in Cities \cup {NoCity} :
            /\ Renamed(group_index[group], [group EXCEPT !.city = c])
            /\ group' = [group EXCEPT !.city = c]
      BY <1>5 DEF PickCity
    <3> QED
      BY <2>1, <3>1 DEF Renamed, Key
  <2>3. /\ group'.pair = group.pair
        /\ groups'[Gid(group.pair)].failing = groups[Gid(group.pair)].failing
    BY <2>1, <2>2, <1>a DEF Key, DataTypeOK
  <2> QED
    BY <2>3, <1>5 DEF PickCity, Marks, Testing, Points
<1>6. CASE AddRun \/ FailRun
  <2> DEFINE hit == Cid(group.pair, case)
  <2>1. case_index[group][case] = hit /\ hit.case = case /\ pc \in Testing
    BY <1>6, Lookups DEF AddRun, FailRun, Testing, Points, Cid
  <2>2. /\ \A o \in DOMAIN stats : o # hit => stats'[o] = stats[o]
        /\ DOMAIN stats' = DOMAIN stats
    BY <1>6, <2>1 DEF AddRun, FailRun
  <2>3. UNCHANGED <<groups, failing_cases, group, case, left, repeats>>
    BY <1>6 DEF AddRun, FailRun, Goto, unmovedData
  <2> QED
    BY <2>1, <2>2, <2>3 DEF Marks, Testing, Points
<1>7. CASE FailGroup
  <2>1. /\ \A o \in DOMAIN stats : stats[o].fail = -1 => stats'[o] = stats[o]
        /\ DOMAIN stats' = DOMAIN stats
    BY <1>7 DEF FailGroup, CountFailures
  <2> QED
    BY <1>7, <2>1 DEF FailGroup, NextRepeat, Marks, Testing, Points
<1>8. CASE FailCase
  <2>1. case \in Cases
    BY <1>8, Lookups DEF FailCase, Testing, Points
  <2>2. \A o \in DOMAIN stats :
          o.case = case => \E k \in DOMAIN case_index : case_index[k][case] = o
    <3> SUFFICES ASSUME NEW o \in DOMAIN stats, o.case = case
                 PROVE  \E k \in DOMAIN case_index : case_index[k][case] = o
      OBVIOUS
    <3>1. PICK p \in Pairs, c \in Cases : o = Cid(p, c)
      BY <1>a DEF Shape
    <3>2. c = case /\ Gid(p) \in DOMAIN groups /\ Gid(p).pair = p
      BY <3>1, <1>a DEF Cid, Gid, Shape
    <3>3. KeyOf(Gid(p)) \in DOMAIN case_index
      BY <3>2, <1>a DEF IndexExact
    <3>4. case_index[KeyOf(Gid(p))] = [d \in Cases |-> Cid(p, d)]
      BY <3>2, <1>a DEF IndexExact
    <3> QED
      BY <3>1, <3>2, <3>3, <3>4, <2>1
  <2>3. /\ DOMAIN stats' = DOMAIN stats
        /\ \A o \in DOMAIN stats : stats'[o].fail = -1 \/ stats'[o] = stats[o]
    BY <1>8 DEF FailCase, MarkCase
  <2>4. \A o \in DOMAIN stats : o.case = case => stats'[o].fail = -1
    BY <1>8, <2>2 DEF FailCase, MarkCase
  <2> QED
    BY <1>8, <2>3, <2>4 DEF FailCase, NextRepeat, unmovedData, Marks, Testing, Points
<1>9. CASE ClearFails
  BY <1>9 DEF ClearFails, Marks, Testing, Points
<1>10. CASE UNCHANGED runnerVars
  BY <1>10 DEF runnerVars, dataVars, taskVars, Marks
<1> QED
  BY <1>1, <1>2, <1>3, <1>4, <1>5, <1>6, <1>7, <1>8, <1>9, <1>10 DEF Next, Step

LEMMA TestedGroup == IndexInv /\ pc \in Testing => group_index[group] = Gid(group.pair)
BY Lookups, CurrentGroup

(* After a case or a group was marked, no test of either starts until the    *)
(* marks are cleared: select, random_city_check and the handlers.            *)
THEOREM FailedRestsAlways == Spec => FailedRests
<1> DEFINE Rests == repeats = 1 /\ pc # "env" /\ pc' = "env" =>
                      /\ case' \notin failing_cases'
                      /\ ~groups'[group_index'[group']].failing
<1>1. IndexInv /\ Marks /\ [Next]_runnerVars => [Rests]_runnerVars
  <2> SUFFICES ASSUME IndexInv, Marks, [Next]_runnerVars,
                      repeats = 1, pc # "env", pc' = "env"
               PROVE  /\ case' \notin failing_cases'
                      /\ ~groups'[group_index'[group']].failing
    OBVIOUS
  <2>1. IndexInv' /\ Marks'
    BY StepIndexInv, StepMarks
  <2>2. (IndexInv /\ pc \in Testing => group_index[group] = Gid(group.pair))'
    BY TestedGroup, PTL
  <2>3. repeats' = repeats
    BY QuietOrNot
    DEF Quiet, FirstStep, FinishOnce, SelectCrash, NoOption, SelectNext, PickCityRaises,
        ContainerReady, ProviderGone, LoggedIn, Tested, TestFails, EnvRaises, Sent,
        CaseLookupRaises, Delayed, FailGroupLookup, Cancelled, CancelLostInLogin,
        CancelLostInCities, CancelledByOwner, Cancel, runnerVars, taskVars, PickCity,
        PickCityLookup, AddRun, FailRun, FailGroup, FailGroupDividesByZero, FailCase,
        FailCaseLookup, ClearFails, NextRepeat, Goto, End
  <2> QED
    BY <2>1, <2>2, <2>3 DEF Marks, Testing, Points, Gid
<1> QED
  BY <1>1, InitIndexInv, StepIndexInv, InitMarks, StepMarks, PTL DEF Spec, FailedRests

-------------------------------------------------------------------------------
(* Without group and case errors the runner keeps the combinations level, so *)
(* "run distribution across group-case pairs is similar".                    *)
(* The combinations are level: each has b runs, or the repeats of one more   *)
(* selection.                                                                *)
Even(b) == \A p \in Pairs, c \in Cases : Run(p, c) \in {b, b + repeats}

(* While a test is at work, its combination is on its way from b to the next *)
(* level, and the others are level.                                          *)
Counted == IF pc \in {"exit", "delay"} THEN 1 ELSE 0
OnItsWay(b) ==
    /\ \A p \in Pairs, c \in Cases :
         <<p, c>> # <<group.pair, case>> => Run(p, c) \in {b, b + repeats}
    /\ left <= repeats
    /\ Run(group.pair, case) = b + (repeats - left) + Counted

Similar == \A p, q \in Pairs, c, d \in Cases : Run(p, c) <= Run(q, d) + repeats
NoneFailing == \A g \in DOMAIN groups : ~groups[g].failing

Level ==
    /\ NoneFailing
    /\ pc = "off" => Similar
    /\ pc \in {"new", "top", "clear"} => \E b \in Nat : Even(b)
    /\ pc \in Testing => \E b \in Nat : OnItsWay(b)

LevelInv == IndexInv /\ FaultsOnly /\ (Spreading = {} => Level)

LEMMA Types ==
    ASSUME IndexInv
    PROVE  /\ \A p \in Pairs, c \in Cases : /\ Run(p, c) \in Nat
                                            /\ Cid(p, c) \in DOMAIN stats
           /\ repeats \in Nat \ {0} /\ left \in Nat
           /\ pc \in Points
           /\ pc \in Testing => left # 0
<1>1. \A p \in Pairs, c \in Cases : Cid(p, c) \in DOMAIN stats
  BY DEF IndexInv, Shape
<1> QED
  BY <1>1 DEF Run, IndexInv, TypeInv, TypeOK, RunnerTypeOK, DataTypeOK, TaskTypeOK, Control

LEMMA InitLevelInv == Init => LevelInv
<1> SUFFICES ASSUME Init PROVE LevelInv
  OBVIOUS
<1>1. IndexInv /\ FaultsOnly
  BY InitCrashInv DEF CrashInv
<1>2. \A p \in Pairs, c \in Cases : Run(p, c) = 0
  BY DEF Init, Run
<1>3. Even(0)
  BY <1>2 DEF Even
<1>4. Level
  BY <1>3 DEF Init, Level, NoneFailing, Testing, Points
<1> QED
  BY <1>1, <1>4 DEF LevelInv

LEMMA EvenIsSimilar ==
    ASSUME IndexInv, NEW b \in Nat, Even(b)
    PROVE  Similar
BY Types DEF Even, Similar

LEMMA OnItsWayIsSimilar ==
    ASSUME IndexInv, pc \in Testing, NEW b \in Nat, OnItsWay(b)
    PROVE  Similar
<1>1. \A p \in Pairs, c \in Cases : Run(p, c) \in b..(b + repeats)
  <2>1. Run(group.pair, case) \in b..(b + repeats)
    <3>1. left \in 1..repeats
      BY Types DEF OnItsWay
    <3> QED
      BY <3>1, Types DEF OnItsWay, Counted
  <2>2. \A p \in Pairs, c \in Cases :
          <<p, c>> # <<group.pair, case>> => Run(p, c) \in b..(b + repeats)
    BY Types DEF OnItsWay
  <2> QED
    BY <2>1, <2>2
<1> QED
  BY <1>1, Types DEF Similar

(* Selector.select returns a combination of the lower level.                 *)
LEMMA SelectsLowest ==
    ASSUME IndexInv, NoneFailing, NEW b \in Nat, Even(b), NEW o \in Options
    PROVE  \E m \in Nat : Even(m) /\ stats[o].run = m
<1> USE Types
<1>1. Candidates = DOMAIN stats
  BY DEF Candidates, NoneFailing, IndexInv, TypeInv, TypeOK, RunnerTypeOK, DataTypeOK
<1>2. \A x \in DOMAIN stats : stats[x].run \in {b, b + repeats}
  <2> SUFFICES ASSUME NEW x \in DOMAIN stats PROVE stats[x].run \in {b, b + repeats}
    OBVIOUS
  <2>1. PICK p \in Pairs, c \in Cases : x = Cid(p, c)
    BY DEF IndexInv, Shape
  <2> QED
    BY <2>1 DEF Even, Run
<1>3. o \in DOMAIN stats /\ \A x \in Pool : stats[o].run <= stats[x].run
  BY <1>1 DEF Options, Pool, Uneven
<1>4. CASE stats[o].run = b
  BY <1>4
<1>5. CASE stats[o].run = b + repeats
  <2>1. \A x \in Pool : stats[x].run # b
    BY <1>3, <1>5
  <2>2. Uneven = {}
    <3> SUFFICES ASSUME NEW x \in Uneven PROVE FALSE
      OBVIOUS
    <3>1. PICK y, z \in CasesOf(x.of) : stats[y].run # stats[z].run
      BY DEF Uneven
    <3>2. y \in Uneven /\ z \in Uneven
      <4>1. /\ y \in DOMAIN stats /\ y.of = x.of
            /\ z \in DOMAIN stats /\ z.of = x.of
        BY DEF CasesOf
      <4> QED
        BY <3>1, <4>1, <1>1 DEF Uneven
    <3>3. y \in Pool /\ z \in Pool
      BY <3>2 DEF Pool
    <3>4. stats[y].run = b \/ stats[z].run = b
      BY <3>1, <1>2 DEF CasesOf
    <3> QED
      BY <3>3, <3>4, <2>1
  <2>3. Pool = DOMAIN stats
    BY <2>2, <1>1 DEF Pool
  <2>4. \A p \in Pairs, c \in Cases : Run(p, c) = b + repeats
    BY <2>1, <2>3 DEF Even, Run
  <2>5. Even(b + repeats)
    BY <2>4 DEF Even
  <2> QED
    BY <2>5, <1>5
<1> QED
  BY <1>2, <1>3, <1>4, <1>5

(* On its way a combination stays at its place until its run is counted.     *)
LEMMA KeepsPlace ==
    ASSUME IndexInv, pc \in Testing, NEW b \in Nat, OnItsWay(b),
           UNCHANGED <<repeats, case, left>>, group'.pair = group.pair, Counted' = Counted,
           \A p \in Pairs, c \in Cases : Run(p, c)' = Run(p, c)
    PROVE  OnItsWay(b)'
BY Lookups DEF OnItsWay, Run

(* The counters do not move, and the task goes on or ends.                   *)
LEMMA NothingCounted ==
    ASSUME IndexInv, Level, pc # "off",
           UNCHANGED repeats,
           \A p \in Pairs, c \in Cases : Run(p, c)' = Run(p, c),
           NoneFailing',
           \/ pc' = "off"
           \/ pc \notin Testing /\ pc' \notin Testing
           \/ /\ pc \in Testing /\ pc' \in Testing
              /\ group'.pair = group.pair /\ UNCHANGED <<case, left>>
              /\ Counted' = Counted
    PROVE  Level'
<1>1. \A p \in Pairs, c \in Cases : Run(p, c)' = Run(p, c)
  OBVIOUS
<1>2. pc \in Testing \/ pc \in {"new", "top", "clear"}
  BY Types DEF Testing
<1>3. Similar
  BY <1>2, EvenIsSimilar, OnItsWayIsSimilar DEF Level
<1>4. CASE pc' = "off"
  BY <1>1, <1>3, <1>4 DEF Level, Similar, Testing
<1>5. CASE pc \notin Testing /\ pc' \notin Testing /\ pc' # "off"
  <2>1. PICK b \in Nat : Even(b)
    BY <1>2, <1>5 DEF Level
  <2>2. Even(b)'
    BY <1>1, <2>1 DEF Even
  <2> QED
    BY <2>2, <1>5 DEF Level
<1>6. CASE pc \in Testing /\ pc' \in Testing
  <2>1. PICK b \in Nat : OnItsWay(b)
    BY <1>6 DEF Level
  <2>2. OnItsWay(b)'
    BY <1>6, <2>1, KeepsPlace DEF Testing
  <2> QED
    BY <2>2, <1>6 DEF Level, Testing
<1> QED
  BY <1>4, <1>5, <1>6

(* The run of the test is counted, by add_run or by the failure handler.     *)
LEMMA OneStepOn ==
    ASSUME IndexInv, pc \in {"add_run", "fail_run"}, pc' \in {"exit", "delay"},
           NEW b \in Nat, OnItsWay(b),
           UNCHANGED <<group, case, left, repeats>>,
           \A p \in Pairs, c \in Cases :
             Run(p, c)' = IF <<p, c>> = <<group.pair, case>> THEN Run(p, c) + 1
                          ELSE Run(p, c)
    PROVE  OnItsWay(b)'
<1>1. pc \in Testing /\ Counted = 0 /\ Counted' = 1
  BY DEF Testing, Points, Counted
<1>2. group.pair \in Pairs /\ case \in Cases
  BY <1>1, Lookups
<1>3. Run(group.pair, case)' = b + (repeats - left) + 1
  BY <1>1, <1>2, Types DEF OnItsWay
<1> QED
  BY <1>1, <1>2, <1>3 DEF OnItsWay, Run

LEMMA OneRunCounted ==
    ASSUME IndexInv, Level, pc \in {"add_run", "fail_run"}, pc' \in {"exit", "delay"},
           UNCHANGED <<group, case, left, repeats>>,
           NoneFailing',
           \A p \in Pairs, c \in Cases :
             Run(p, c)' = IF <<p, c>> = <<group.pair, case>> THEN Run(p, c) + 1
                          ELSE Run(p, c)
    PROVE  Level'
<1>1. PICK b \in Nat : OnItsWay(b)
  BY DEF Level, Testing, Points
<1>2. OnItsWay(b)'
  BY <1>1, OneStepOn
<1> QED
  BY <1>2 DEF Level, Testing

LEMMA RunCounted ==
    ASSUME IndexInv, pc \in Testing,
           NEW new, new.run = stats[case_index[group][case]].run + 1,
           stats' = [stats EXCEPT ![case_index[group][case]] = new]
    PROVE  \A p \in Pairs, c \in Cases :
             Run(p, c)' = IF <<p, c>> = <<group.pair, case>> THEN Run(p, c) + 1
                          ELSE Run(p, c)
<1>1. case_index[group][case] = Cid(group.pair, case)
  BY Lookups
<1>2. \A p \in Pairs, c \in Cases :
        Cid(p, c) = Cid(group.pair, case) <=> <<p, c>> = <<group.pair, case>>
  BY DEF Cid, Gid
<1> QED
  BY <1>1, <1>2, Types DEF Run

(* After the last repeat the combination has arrived at the next level.      *)
LEMMA Arrives ==
    ASSUME IndexInv, Delayed, NEW b \in Nat, OnItsWay(b)
    PROVE  /\ left > 1 => pc' = "env" /\ case' = case /\ runs' = runs /\ OnItsWay(b)'
           /\ left = 1 => pc' = "top" /\ runs' = runs + 1 /\ Even(b)'
                          /\ Run(group.pair, case) = b + repeats
<1>1. pc \in Testing /\ Counted = 1 /\ left \in Nat \ {0} /\ repeats \in Nat
  BY Types DEF Delayed, Testing, Points, Counted
<1>2. group.pair \in Pairs /\ case \in Cases
  BY <1>1, Lookups
<1>3. UNCHANGED <<stats, groups, repeats, group>> /\ left' = left - 1
  BY DEF Delayed, NextRepeat, dataVars
<1>4. ASSUME left > 1
      PROVE  pc' = "env" /\ case' = case /\ runs' = runs /\ OnItsWay(b)'
  <2>1. pc' = "env" /\ case' = case /\ runs' = runs
    BY <1>4 DEF Delayed, NextRepeat
  <2> QED
    BY <1>1, <1>3, <1>4, <2>1 DEF OnItsWay, Run, Counted
<1>5. ASSUME left = 1
      PROVE  /\ pc' = "top" /\ runs' = runs + 1 /\ Even(b)'
             /\ Run(group.pair, case) = b + repeats
  <2>1. Run(group.pair, case) = b + repeats
    BY <1>1, <1>5 DEF OnItsWay
  <2>2. Even(b)
    BY <2>1, <1>2 DEF OnItsWay, Even
  <2> QED
    BY <1>3, <1>5, <2>1, <2>2 DEF Even, Run, Delayed, NextRepeat
<1> QED
  BY <1>4, <1>5

LEMMA DelayedLevel ==
    ASSUME IndexInv, Level, Delayed
    PROVE  Level'
<1>1. PICK b \in Nat : OnItsWay(b)
  BY DEF Delayed, Level, Testing, Points
<1>2. left > 1 \/ left = 1
  BY Types DEF Delayed, Testing, Points
<1>3. NoneFailing'
  BY DEF Delayed, dataVars, Level, NoneFailing
<1> QED
  BY <1>1, <1>2, <1>3, Arrives DEF Level, Testing, Points

(* A selection sets out from the lower level.                                *)
LEMMA SetsOut ==
    ASSUME IndexInv, NoneFailing, SelectNext, NEW b \in Nat, Even(b)
    PROVE  \E m \in Nat : /\ Even(m) /\ OnItsWay(m)'
                          /\ group'.pair \in Pairs /\ case' \in Cases
                          /\ Run(group'.pair, case') = m
<1>1. PICK o \in Options :
        /\ group' = IF RoundGroup # None /\ RoundGroup.pair = o.of.pair
                    THEN RoundGroup ELSE KeyOf(o.of)
        /\ case' = o.case
  BY DEF SelectNext
<1>2. PICK m \in Nat : Even(m) /\ stats[o].run = m
  BY SelectsLowest
<1>3. o \in DOMAIN stats
  BY DEF Options, Pool, Uneven, Candidates
<1>4. PICK p \in Pairs, c \in Cases : o = Cid(p, c)
  BY <1>3 DEF IndexInv, Shape
<1>5. group'.pair = p /\ case' = c
  BY <1>1, <1>4 DEF KeyOf, Cid, Gid
<1>6. UNCHANGED <<stats, repeats>> /\ left' = repeats
  BY DEF SelectNext, dataVars
<1>7. Counted' = 0
  BY DEF SelectNext, Counted
<1>8. Run(p, c) = m
  BY <1>2, <1>4 DEF Run
<1>9. OnItsWay(m)'
  <2>1. \A q \in Pairs, d \in Cases : Run(q, d)' = Run(q, d)
    BY <1>6 DEF Run
  <2>2. \A q \in Pairs, d \in Cases : Run(q, d)' \in {m, m + repeats'}
    BY <2>1, <1>2, <1>6 DEF Even
  <2>3. Run(p, c)' = m + (repeats' - left') + 0
    BY <2>1, <1>6, <1>8, Types
  <2> QED
    BY <2>2, <2>3, <1>5, <1>6, <1>7, Types DEF OnItsWay, Run
<1> QED
  BY <1>2, <1>5, <1>8, <1>9

LEMMA SelectNextLevel ==
    ASSUME IndexInv, Level, SelectNext
    PROVE  Level'
<1>1. PICK b \in Nat : Even(b)
  BY DEF SelectNext, Selecting, Level
<1>2. pc' \in {"city", "env"} /\ NoneFailing'
  BY DEF SelectNext, dataVars, Level, NoneFailing
<1> QED
  BY <1>1, <1>2, SetsOut DEF Level, Testing, Points

(* The steps that neither count a run nor move the task between a test and   *)
(* the selection.                                                            *)
LEMMA QuietLevel ==
    ASSUME IndexInv, Level, Quiet, ~SelectNext, ~Delayed
    PROVE  Level'
<1>1. UNCHANGED dataVars
  BY QuietData
<1>2. NoneFailing' /\ \A p \in Pairs, c \in Cases : Run(p, c)' = Run(p, c)
  BY <1>1 DEF dataVars, Level, NoneFailing, Run
<1>3. CASE \/ FinishOnce \/ SelectCrash \/ PickCityRaises \/ ProviderGone \/ EnvRaises
           \/ CaseLookupRaises \/ FailGroupLookup \/ Cancelled
  <2>1. pc # "off" /\ pc' = "off" /\ repeats' = repeats
    BY <1>3 DEF FinishOnce, SelectCrash, Selecting, PickCityRaises, ProviderGone, EnvRaises,
                CaseLookupRaises, FailGroupLookup, Cancelled, End
  <2> QED
    BY <2>1, <1>2, NothingCounted
<1>4. CASE FirstStep \/ NoOption
  BY <1>2, <1>4, NothingCounted DEF FirstStep, NoOption, Selecting, Testing
<1>5. CASE CancelledByOwner \/ CancelLostInCities
  <2>1. pc # "off" /\ UNCHANGED <<pc, repeats, group, case, left>>
    BY <1>5 DEF CancelledByOwner, Cancel, CancelLostInCities
  <2>2. pc' \in Testing <=> pc \in Testing
    BY <2>1
  <2> QED
    BY <2>1, <2>2, <1>2, NothingCounted DEF Counted
<1>6. CASE \/ ContainerReady \/ LoggedIn \/ Tested \/ Sent \/ CancelLostInLogin \/ TestFails
  <2>1. pc \in Testing /\ pc' \in Testing /\ Counted' = Counted
    BY <1>6 DEF ContainerReady, LoggedIn, Tested, Sent, CancelLostInLogin, TestFails, Goto,
                Testing, Points, Counted
  <2>2. UNCHANGED <<repeats, group, case, left>>
    BY <1>6 DEF ContainerReady, LoggedIn, Tested, Sent, CancelLostInLogin, TestFails, Goto
  <2> QED
    BY <2>1, <2>2, <1>2, NothingCounted DEF Testing
<1>7. CASE UNCHANGED runnerVars
  BY <1>7 DEF runnerVars, dataVars, taskVars, Level, NoneFailing, Similar, Even, OnItsWay,
              Run, Counted
<1> QED
  BY <1>3, <1>4, <1>5, <1>6, <1>7 DEF Quiet

(* Only add_run and the failure handler count, each one run of the test.     *)
LEMMA RunsCounted ==
    ASSUME IndexInv, AddRun \/ FailRun
    PROVE  \A p \in Pairs, c \in Cases :
             Run(p, c)' = IF <<p, c>> = <<group.pair, case>> THEN Run(p, c) + 1
                          ELSE Run(p, c)
<1> DEFINE hit == case_index[group][case]
<1>1. pc \in Testing
  BY DEF AddRun, FailRun, Testing, Points
<1>2. hit \in DOMAIN stats /\ stats[hit] \in CaseRecord
  BY <1>1, Lookups, Types DEF IndexInv, TypeInv, TypeOK, RunnerTypeOK, DataTypeOK, CaseRecord
<1>3. PICK new : new.run = stats[hit].run + 1 /\ stats' = [stats EXCEPT ![hit] = new]
  <2>1. CASE AddRun
    <3>1. stats' = [stats EXCEPT ![hit] = [stats[hit] EXCEPT !.run = @ + 1]]
      BY <2>1 DEF AddRun
    <3>2. [stats[hit] EXCEPT !.run = @ + 1].run = stats[hit].run + 1
      BY <1>2 DEF CaseRecord
    <3> QED
      BY <3>1, <3>2
  <2>2. CASE FailRun
    BY <2>2 DEF FailRun, OneMoreFailure
  <2> QED
    BY <2>1, <2>2
<1> QED
  BY <1>1, <1>3, RunCounted

LEMMA RunsKept ==
    ASSUME IndexInv, FaultsOnly, Spreading = {}, [Next]_runnerVars, ~AddRun, ~FailRun
    PROVE  \A p \in Pairs, c \in Cases : Run(p, c)' = Run(p, c)
<1>1. CASE Quiet \/ PickCity \/ PickCityLookup
  BY <1>1, QuietData DEF dataVars, PickCity, PickCityLookup, Run
<1>2. CASE ClearFails
  <2>1. \A x \in DOMAIN stats : stats'[x].run = stats[x].run
    BY <1>2 DEF ClearFails, IndexInv, TypeInv, TypeOK, RunnerTypeOK, DataTypeOK
  <2> QED
    BY <2>1, Types DEF Run
<1>3. CASE FailGroup \/ FailGroupDividesByZero \/ FailCase \/ FailCaseLookup
  BY <1>3 DEF FailGroup, FailGroupDividesByZero, FailCase, FailCaseLookup, FaultsOnly, Spreading
<1> QED
  BY <1>1, <1>2, <1>3, QuietOrNot

LEMMA StepLevel ==
    ASSUME IndexInv, FaultsOnly, Spreading = {}, Level, [Next]_runnerVars
    PROVE  Level'
<1>a. "group" \notin faults /\ "case" \notin faults
  BY DEF Spreading
<1>b. DataTypeOK
  BY DEF IndexInv, TypeInv, TypeOK, RunnerTypeOK
<1>1. CASE SelectNext
  BY <1>1, SelectNextLevel
<1>2. CASE Delayed
  BY <1>2, DelayedLevel
<1>3. CASE Quiet /\ ~SelectNext /\ ~Delayed
  BY <1>3, QuietLevel
<1>4. CASE PickCity
  <2>1. PICK c \in Cities \cup {NoCity} :
          /\ groups' = [groups EXCEPT ![group_index[group]].city = c]
          /\ group' = [group EXCEPT !.city = c]
    <3>1. PICK c \in Cities \cup {NoCity} :
            /\ Renamed(group_index[group], [group EXCEPT !.city = c])
            /\ group' = [group EXCEPT !.city = c]
      BY <1>4 DEF PickCity
    <3>2. group \in Key
      BY <1>4 DEF PickCity, IndexInv, TypeInv, Control, Testing, Points
    <3> QED
      BY <3>1, <3>2 DEF Renamed, Key
  <2>2. group'.pair = group.pair
    BY <2>1, <1>4 DEF PickCity, IndexInv, TypeInv, Control, Testing, Points, Key
  <2>3. NoneFailing'
    BY <2>1, <1>b DEF Level, NoneFailing, DataTypeOK
  <2>4. /\ pc \in Testing /\ pc' \in Testing /\ Counted' = Counted /\ pc # "off"
        /\ UNCHANGED <<stats, repeats, case, left>>
    BY <1>4 DEF PickCity, Testing, Points, Counted
  <2>5. \A p \in Pairs, d \in Cases : Run(p, d)' = Run(p, d)
    BY <2>4 DEF Run
  <2> QED
    BY <2>2, <2>3, <2>4, <2>5, NothingCounted
<1>5. CASE PickCityLookup
  BY <1>5, Lookups DEF PickCityLookup, Testing, Points
<1>6. CASE AddRun \/ FailRun
  <2>1. pc \in {"add_run", "fail_run"} /\ pc' \in {"exit", "delay"}
    BY <1>6 DEF AddRun, FailRun, Goto
  <2>2. UNCHANGED <<groups, group, case, left, repeats>>
    BY <1>6 DEF AddRun, FailRun, Goto, unmovedData
  <2>3. NoneFailing'
    BY <2>2 DEF Level, NoneFailing
  <2> QED
    BY <2>1, <2>2, <2>3, <1>6, RunsCounted, OneRunCounted
<1>7. CASE FailGroup \/ FailGroupDividesByZero
  BY <1>7, <1>a DEF FailGroup, FailGroupDividesByZero, FaultsOnly
<1>8. CASE FailCase \/ FailCaseLookup
  BY <1>8, <1>a DEF FailCase, FailCaseLookup, FaultsOnly
<1>9. CASE ClearFails
  <2>1. NoneFailing'
    BY <1>9, <1>b DEF ClearFails, NoneFailing, DataTypeOK
  <2>2. \A p \in Pairs, c \in Cases : Run(p, c)' = Run(p, c)
    BY <1>9, RunsKept DEF ClearFails, AddRun, FailRun
  <2> QED
    BY <1>9, <2>1, <2>2, NothingCounted DEF ClearFails, Testing
<1> QED
  BY <1>1, <1>2, <1>3, <1>4, <1>5, <1>6, <1>7, <1>8, <1>9, QuietOrNot

LEMMA StepLevelInv == LevelInv /\ [Next]_runnerVars => LevelInv'
<1> SUFFICES ASSUME LevelInv, [Next]_runnerVars PROVE LevelInv'
  OBVIOUS
<1>1. IndexInv' /\ FaultsOnly'
  BY StepIndexInv, StepFaultsOnly DEF LevelInv
<1>2. Spreading' = Spreading
  BY FaultsStay DEF Spreading
<1>3. Spreading = {} => Level'
  BY StepLevel DEF LevelInv
<1> QED
  BY <1>1, <1>2, <1>3 DEF LevelInv

(* Without group and case errors no combination is ever ahead of another one *)
(* by more than the repeats of one selection, whatever other errors, city    *)
(* changes and cancellations there are: Selector.select and Runner.run.      *)
THEOREM BalanceKept == Spec => []Balanced
<1>1. LevelInv => Balanced
  <2> SUFFICES ASSUME LevelInv, Spreading = {} PROVE Similar
    BY DEF Balanced, Similar
  <2>1. pc \in Points
    BY Types DEF LevelInv
  <2> QED
    BY <2>1, EvenIsSimilar, OnItsWayIsSimilar DEF LevelInv, Level, Testing
<1> QED
  BY <1>1, InitLevelInv, StepLevelInv, PTL DEF Spec

-------------------------------------------------------------------------------
(* Every run that is counted as a success gives exactly one result, except   *)
(* for the one that is lost when the task ends while the container closes.   *)

(* The counters agree: all of them, or all but that of the test that was     *)
(* counted and whose result is not sent yet.                                 *)
AllSent == \A p \in Pairs, c \in Cases : Missing(p, c) = 0
OneOnItsWay(x) ==
    \A p \in Pairs, c \in Cases : Missing(p, c) = IF <<p, c>> = x THEN 1 ELSE 0

Books ==
    /\ pc \notin {"exit", "off"} => AllSent
    /\ pc = "exit" => OneOnItsWay(<<group.pair, case>>)
    /\ pc = "off" => \/ AllSent
                     \/ /\ outcome \in {"cancelled", "env"}
                        /\ \E x \in Pairs \X Cases : OneOnItsWay(x)
    /\ pc = "clear" => DOMAIN stats = {}

BooksInv == LevelInv /\ (Spreading = {} => Books)

LEMMA InitBooksInv == Init => BooksInv
<1> SUFFICES ASSUME Init PROVE BooksInv
  OBVIOUS
<1>1. AllSent
  BY DEF Init, AllSent, Missing, Run, Fail
<1> QED
  BY <1>1, InitLevelInv DEF Init, BooksInv, Books

(* A level selection always finds an option.                                 *)
LEMMA OptionsExist ==
    ASSUME IndexInv, NoneFailing, \A x \in DOMAIN stats : stats[x].fail >= 0,
           NEW b \in Nat, Even(b), DOMAIN stats # {}
    PROVE  Options # {}
<1>1. Candidates = DOMAIN stats
  BY DEF Candidates, NoneFailing, IndexInv, TypeInv, TypeOK, RunnerTypeOK, DataTypeOK
<1>2. Pool # {} /\ Pool \subseteq DOMAIN stats
  BY <1>1 DEF Pool, Uneven
<1>3. \A x \in DOMAIN stats : stats[x].run \in {b, b + repeats}
  <2> SUFFICES ASSUME NEW x \in DOMAIN stats PROVE stats[x].run \in {b, b + repeats}
    OBVIOUS
  <2>1. PICK p \in Pairs, c \in Cases : x = Cid(p, c)
    BY DEF IndexInv, Shape
  <2> QED
    BY <2>1 DEF Even, Run
<1>4. PICK y \in Pool : \A x \in Pool : stats[y].run <= stats[x].run
  <2>1. CASE \E x \in Pool : stats[x].run = b
    BY <2>1, <1>2, <1>3, Types
  <2>2. CASE \A x \in Pool : stats[x].run # b
    BY <2>2, <1>2, <1>3, Types
  <2> QED
    BY <2>1, <2>2
<1>5. y \in Options
  BY <1>2, <1>4 DEF Options
<1> QED
  BY <1>5

LEMMA MissingType ==
    ASSUME IndexInv
    PROVE  \A p \in Pairs, c \in Cases : Missing(p, c) \in Int
BY Types DEF Missing, Run, Fail, IndexInv, TypeInv, TypeOK, RunnerTypeOK, DataTypeOK,
             TaskTypeOK

(* Nothing is counted and nothing is sent.                                   *)
LEMMA NothingBooked ==
    ASSUME Books, UNCHANGED <<stats, sent>>,
           \/ pc \notin {"exit", "off"} /\ pc' \notin {"exit", "clear"}
           \/ pc = "exit" /\ pc' = "exit" /\ UNCHANGED <<group, case>>
    PROVE  Books'
<1>1. \A p \in Pairs, c \in Cases : Missing(p, c)' = Missing(p, c)
  BY DEF Missing, Run, Fail
<1> QED
  BY <1>1 DEF Books, AllSent, OneOnItsWay, Missing, Run, Fail

(* The task ends while its container closes: the result is lost.             *)
LEMMA ResultLost ==
    ASSUME IndexInv, Books, UNCHANGED <<stats, sent>>, pc = "exit", pc' = "off",
           outcome' \in {"cancelled", "env"}
    PROVE  Books'
<1>1. <<group.pair, case>> \in Pairs \X Cases /\ OneOnItsWay(<<group.pair, case>>)
  BY Lookups DEF Books, Testing, Points
<1>2. PICK x \in Pairs \X Cases : OneOnItsWay(x)
  BY <1>1
<1>3. OneOnItsWay(x)'
  BY <1>2 DEF OneOnItsWay, Missing, Run, Fail
<1> QED
  BY <1>2, <1>3 DEF Books

LEMMA SentBooks ==
    ASSUME IndexInv, Books, Sent
    PROVE  Books'
<1>1. OneOnItsWay(<<group.pair, case>>) /\ UNCHANGED stats
  BY DEF Books, Sent, dataVars
<1>2. \A p \in Pairs, c \in Cases :
        sent'[<<p, c>>] = IF <<p, c>> = <<group.pair, case>> THEN sent[<<p, c>>] + 1 ELSE sent[<<p, c>>]
  BY DEF Sent, IndexInv, TypeInv, TypeOK, RunnerTypeOK, TaskTypeOK
<1>3. \A p \in Pairs, c \in Cases : sent[<<p, c>>] \in Nat /\ Run(p, c) \in Int /\ Fail(p, c) \in Int
  BY Types DEF Fail, IndexInv, TypeInv, TypeOK, RunnerTypeOK, TaskTypeOK, DataTypeOK
<1>4. \A p \in Pairs, c \in Cases : Run(p, c) - Fail(p, c) - sent'[<<p, c>>] = 0
  <2> SUFFICES ASSUME NEW p \in Pairs, NEW c \in Cases
               PROVE  Run(p, c) - Fail(p, c) - sent'[<<p, c>>] = 0
    OBVIOUS
  <2>1. sent[<<p, c>>] \in Nat /\ Run(p, c) \in Int /\ Fail(p, c) \in Int
    BY <1>3
  <2>2. CASE <<p, c>> = <<group.pair, case>>
    <3>1. Run(p, c) - Fail(p, c) - sent[<<p, c>>] = 1
      BY <1>1, <2>2 DEF OneOnItsWay, Missing
    <3>2. sent'[<<p, c>>] = sent[<<p, c>>] + 1
      BY <1>2, <2>2
    <3> QED
      BY <2>1, <3>1, <3>2
  <2>3. CASE <<p, c>> # <<group.pair, case>>
    <3>1. Run(p, c) - Fail(p, c) - sent[<<p, c>>] = 0
      BY <1>1, <2>3 DEF OneOnItsWay, Missing
    <3>2. sent'[<<p, c>>] = sent[<<p, c>>]
      BY <1>2, <2>3
    <3> QED
      BY <3>1, <3>2
  <2> QED
    BY <2>2, <2>3
<1>5. AllSent'
  BY <1>1, <1>4 DEF AllSent, Missing, Run, Fail
<1> QED
  BY <1>5 DEF Books, Sent, Goto

(* add_run counts a success, the failure handler a run and a failure.        *)
LEMMA CountedBooks ==
    ASSUME IndexInv, Books, AddRun \/ FailRun
    PROVE  Books'
<1>1. pc \in Testing /\ pc \in {"add_run", "fail_run"}
  BY DEF AddRun, FailRun, Testing, Points
<1> DEFINE hit == Cid(group.pair, case)
<1>2. case_index[group][case] = hit /\ group.pair \in Pairs /\ case \in Cases
  BY <1>1, Lookups
<1>3. hit \in DOMAIN stats /\ stats[hit] \in CaseRecord
  BY <1>2, Types DEF CaseRecord, IndexInv, TypeInv, TypeOK, RunnerTypeOK, DataTypeOK
<1>4. \A p \in Pairs, c \in Cases : Cid(p, c) = hit <=> <<p, c>> = <<group.pair, case>>
  BY DEF Cid, Gid
<1>5. \A p \in Pairs, c \in Cases : sent[<<p, c>>] \in Nat /\ Run(p, c) \in Int /\ Fail(p, c) \in Int
  BY Types DEF Fail, IndexInv, TypeInv, TypeOK, RunnerTypeOK, TaskTypeOK, DataTypeOK
<1>6. AllSent /\ sent' = sent /\ UNCHANGED <<group, case>>
  BY <1>1 DEF Books, AddRun, FailRun, Goto
<1>7. CASE AddRun
  <2>1. stats' = [stats EXCEPT ![hit].run = @ + 1] /\ pc' = "exit"
    BY <1>2, <1>7 DEF AddRun, Goto
  <2>2. \A p \in Pairs, c \in Cases :
          /\ <<p, c>> = <<group.pair, case>> =>
               /\ stats'[Cid(p, c)].run = Run(p, c) + 1
               /\ stats'[Cid(p, c)].fail = Fail(p, c)
          /\ <<p, c>> # <<group.pair, case>> => stats'[Cid(p, c)] = stats[Cid(p, c)]
    BY <2>1, <1>3, <1>4, Types DEF Run, Fail, CaseRecord
  <2>3. OneOnItsWay(<<group.pair, case>>)'
    <3> SUFFICES ASSUME NEW p \in Pairs, NEW c \in Cases
                 PROVE  Missing(p, c)' = IF <<p, c>> = <<group.pair, case>> THEN 1 ELSE 0
      BY <1>6 DEF OneOnItsWay
    <3>1. sent[<<p, c>>] \in Nat /\ Run(p, c) \in Int /\ Fail(p, c) \in Int
      BY <1>5
    <3>2. Run(p, c) - Fail(p, c) - sent[<<p, c>>] = 0
      BY <1>6 DEF AllSent, Missing
    <3>3. CASE <<p, c>> = <<group.pair, case>>
      <4>1. /\ stats'[Cid(p, c)].run = Run(p, c) + 1
            /\ stats'[Cid(p, c)].fail = Fail(p, c)
        BY <2>2, <3>3
      <4> QED
        BY <1>6, <3>1, <3>2, <3>3, <4>1 DEF Missing, Run, Fail
    <3>4. CASE <<p, c>> # <<group.pair, case>>
      BY <1>6, <2>2, <3>2, <3>4 DEF Missing, Run, Fail
    <3> QED
      BY <3>3, <3>4
  <2> QED
    BY <2>1, <2>3 DEF Books
<1>8. CASE FailRun
  <2>1. stats' = [stats EXCEPT ![hit] = [run |-> @.run + 1, fail |-> @.fail + 1]] /\ pc' = "delay"
    BY <1>2, <1>8 DEF FailRun, Goto, OneMoreFailure
  <2>2. \A p \in Pairs, c \in Cases :
          /\ <<p, c>> = <<group.pair, case>> =>
               /\ stats'[Cid(p, c)].run = Run(p, c) + 1
               /\ stats'[Cid(p, c)].fail = Fail(p, c) + 1
          /\ <<p, c>> # <<group.pair, case>> => stats'[Cid(p, c)] = stats[Cid(p, c)]
    BY <2>1, <1>3, <1>4, Types DEF Run, Fail
  <2>3. AllSent'
    <3> SUFFICES ASSUME NEW p \in Pairs, NEW c \in Cases
                 PROVE  Missing(p, c)' = 0
      BY DEF AllSent
    <3>1. sent[<<p, c>>] \in Nat /\ Run(p, c) \in Int /\ Fail(p, c) \in Int
      BY <1>5
    <3>2. Run(p, c) - Fail(p, c) - sent[<<p, c>>] = 0
      BY <1>6 DEF AllSent, Missing
    <3>3. CASE <<p, c>> = <<group.pair, case>>
      <4>1. /\ stats'[Cid(p, c)].run = Run(p, c) + 1
            /\ stats'[Cid(p, c)].fail = Fail(p, c) + 1
        BY <2>2, <3>3
      <4> QED
        BY <1>6, <3>1, <3>2, <3>3, <4>1 DEF Missing, Run, Fail
    <3>4. CASE <<p, c>> # <<group.pair, case>>
      BY <1>6, <2>2, <3>2, <3>4 DEF Missing, Run, Fail
    <3> QED
      BY <3>3, <3>4
  <2> QED
    BY <2>1, <2>3 DEF Books
<1> QED
  BY <1>7, <1>8

(* Without marks there is always an option, so nothing is ever cleared.      *)
LEMMA NoOptionBooks ==
    ASSUME IndexInv, FaultsOnly, Spreading = {}, Level, Books, NoOption
    PROVE  Books'
<1>1. PICK b \in Nat : Even(b)
  BY DEF NoOption, Selecting, Level
<1>2. \A x \in DOMAIN stats : stats[x].fail >= 0
  BY DEF FaultsOnly, Spreading
<1>3. DOMAIN stats = {}
  BY <1>1, <1>2, OptionsExist DEF Level, NoOption
<1>4. UNCHANGED <<stats, sent>> /\ pc = "top" /\ pc' = "clear"
  BY DEF NoOption, Selecting, dataVars
<1> QED
  BY <1>3, <1>4 DEF Books, AllSent, Missing, Run, Fail

LEMMA StepBooks ==
    ASSUME IndexInv, FaultsOnly, Spreading = {}, Level, Books, [Next]_runnerVars
    PROVE  Books'
<1>a. "group" \notin faults /\ "case" \notin faults
  BY DEF Spreading
<1>1. CASE NoOption
  BY <1>1, NoOptionBooks
<1>2. CASE Sent
  BY <1>2, SentBooks
<1>3. CASE AddRun \/ FailRun
  BY <1>3, CountedBooks
<1>4. CASE \/ FirstStep \/ FinishOnce \/ SelectCrash \/ SelectNext \/ PickCityRaises
           \/ ContainerReady \/ ProviderGone \/ LoggedIn \/ Tested \/ TestFails
           \/ CaseLookupRaises \/ FailGroupLookup \/ Delayed \/ CancelLostInLogin
           \/ CancelLostInCities \/ PickCity \/ PickCityLookup
  BY <1>4, NothingBooked
  DEF FirstStep, FinishOnce, SelectCrash, Selecting, SelectNext, PickCityRaises,
      ContainerReady, ProviderGone, LoggedIn, Tested, TestFails, CaseLookupRaises,
      FailGroupLookup, Delayed, CancelLostInLogin, CancelLostInCities, PickCity,
      PickCityLookup, End, Goto, NextRepeat, dataVars
<1>5. CASE EnvRaises \/ Cancelled
  <2>1. UNCHANGED <<stats, sent>> /\ pc # "off" /\ pc' = "off" /\ outcome' \in {"cancelled", "env"}
    BY <1>5 DEF EnvRaises, Cancelled, End, dataVars
  <2> QED
    BY <2>1, NothingBooked, ResultLost
<1>6. CASE CancelledByOwner
  BY <1>6, NothingBooked DEF CancelledByOwner, Cancel, dataVars, Books, AllSent, Missing,
                             Run, Fail
<1>7. CASE UNCHANGED runnerVars
  BY <1>7 DEF runnerVars, dataVars, taskVars, Books, AllSent, OneOnItsWay, Missing, Run, Fail
<1>8. CASE FailGroup \/ FailGroupDividesByZero \/ FailCase \/ FailCaseLookup
  BY <1>8, <1>a DEF FailGroup, FailGroupDividesByZero, FailCase, FailCaseLookup, FaultsOnly
<1>9. CASE ClearFails
  <2>1. DOMAIN stats = {} /\ sent' = sent /\ pc' = "top"
    BY <1>9 DEF ClearFails, Books
  <2>2. \A p \in Pairs, c \in Cases : FALSE
    BY <2>1, Types
  <2> QED
    BY <2>1, <2>2 DEF Books, AllSent
<1> QED
  BY <1>1, <1>2, <1>3, <1>4, <1>5, <1>6, <1>7, <1>8, <1>9, QuietOrNot DEF Quiet

LEMMA StepBooksInv == BooksInv /\ [Next]_runnerVars => BooksInv'
<1> SUFFICES ASSUME BooksInv, [Next]_runnerVars PROVE BooksInv'
  OBVIOUS
<1>1. LevelInv'
  BY StepLevelInv DEF BooksInv
<1>2. Spreading' = Spreading
  BY FaultsStay DEF Spreading
<1>3. Spreading = {} => Books'
  BY StepBooks DEF BooksInv, LevelInv
<1> QED
  BY <1>1, <1>2, <1>3 DEF BooksInv

(* Without group and case errors every counted run is a counted failure or   *)
(* has sent one result, but for the test whose container is being closed,    *)
(* and that result is lost only by a cancellation or an exception there:     *)
(* Runner._run_case.                                                         *)
THEOREM ResultsCorrect == Spec => []ResultsAccounted
<1>1. BooksInv => ResultsAccounted
  <2> SUFFICES ASSUME BooksInv, Spreading = {} PROVE ResultsAccounted
    BY DEF ResultsAccounted
  <2>1. CASE AllSent
    BY <2>1 DEF AllSent, ResultsAccounted
  <2>2. CASE pc = "exit"
    BY <2>2 DEF BooksInv, Books, OneOnItsWay, ResultsAccounted
  <2>3. CASE pc = "off" /\ ~AllSent
    <3>1. PICK x \in Pairs \X Cases : OneOnItsWay(x)
      BY <2>3 DEF BooksInv, Books
    <3>2. outcome \in {"cancelled", "env"}
      BY <2>3 DEF BooksInv, Books
    <3> QED
      BY <3>1, <3>2 DEF OneOnItsWay, ResultsAccounted
  <2> QED
    BY <2>1, <2>2, <2>3 DEF BooksInv, Books
<1> QED
  BY <1>1, InitBooksInv, StepBooksInv, PTL DEF Spec

-------------------------------------------------------------------------------
(* Scheduling in rounds: only one group at a time is partly served, and it   *)
(* is the one under test.                                                    *)
UnevenPair(p) == \E c, d \in Cases : Run(p, c) # Run(p, d)

Focus ==
    /\ pc \in {"new", "top", "clear"} =>
         \A p, q \in Pairs : UnevenPair(p) /\ UnevenPair(q) => p = q
    /\ pc \in Testing => \A q \in Pairs : UnevenPair(q) => q = group.pair

FocusInv == BooksInv /\ (Spreading = {} => Focus)

LEMMA InitFocusInv == Init => FocusInv
<1> SUFFICES ASSUME Init PROVE FocusInv
  OBVIOUS
<1>1. \A p \in Pairs : ~UnevenPair(p)
  BY DEF Init, UnevenPair, Run
<1>2. pc \notin Testing
  BY DEF Init, Testing
<1> QED
  BY <1>1, <1>2, InitBooksInv DEF FocusInv, Focus

(* select turns to another group only if no group is partly served.          *)
LEMMA SelectsUneven ==
    ASSUME IndexInv, NoneFailing, NEW p \in Pairs, NEW c \in Cases, Cid(p, c) \in Options,
           \A q, r \in Pairs : UnevenPair(q) /\ UnevenPair(r) => q = r
    PROVE  \A q \in Pairs : UnevenPair(q) => q = p
<1>1. Candidates = DOMAIN stats
  BY DEF Candidates, NoneFailing, IndexInv, TypeInv, TypeOK, RunnerTypeOK, DataTypeOK
<1>2. \A q \in Pairs, d \in Cases : Cid(q, d) \in DOMAIN stats /\ Cid(q, d).of = Gid(q)
  BY DEF IndexInv, Shape, Cid
<1> SUFFICES ASSUME NEW q \in Pairs, UnevenPair(q) PROVE UnevenPair(p)
  OBVIOUS
<1>3. PICK d, e \in Cases : Run(q, d) # Run(q, e)
  BY DEF UnevenPair
<1>4. Cid(q, d) \in Uneven
  <2>1. Cid(q, d) \in CasesOf(Cid(q, d).of) /\ Cid(q, e) \in CasesOf(Cid(q, d).of)
    BY <1>2 DEF CasesOf
  <2> QED
    BY <2>1, <1>1, <1>2, <1>3 DEF Uneven, Run
<1>5. Cid(p, c) \in Uneven
  BY <1>4 DEF Options, Pool
<1>6. PICK x, y \in CasesOf(Gid(p)) : stats[x].run # stats[y].run
  BY <1>2, <1>5 DEF Uneven
<1>7. \A z \in CasesOf(Gid(p)) : \E h \in Cases : z = Cid(p, h)
  <2> SUFFICES ASSUME NEW z \in DOMAIN stats, z.of = Gid(p)
               PROVE  \E h \in Cases : z = Cid(p, h)
    BY DEF CasesOf
  <2>1. PICK r \in Pairs, h \in Cases : z = Cid(r, h)
    BY DEF IndexInv, Shape
  <2>2. r = p
    BY <2>1 DEF Cid, Gid
  <2> QED
    BY <2>1, <2>2
<1> QED
  BY <1>6, <1>7 DEF UnevenPair, Run

LEMMA StepFocus ==
    ASSUME IndexInv, FaultsOnly, Spreading = {}, Level, Focus, [Next]_runnerVars
    PROVE  Focus'
<1>a. "group" \notin faults /\ "case" \notin faults
  BY DEF Spreading
<1>c. ASSUME \A p \in Pairs, c \in Cases : Run(p, c)' = Run(p, c),
             pc' \in Testing => pc \in Testing /\ group'.pair = group.pair,
             pc # "off" \/ pc' = "off"
      PROVE  Focus'
  <2>1. \A p \in Pairs : UnevenPair(p)' <=> UnevenPair(p)
    BY <1>c DEF UnevenPair
  <2>2. pc \in Points
    BY Types
  <2> QED
    BY <1>c, <2>1, <2>2 DEF Focus, Testing
<1>d. Quiet => \A p \in Pairs, c \in Cases : Run(p, c)' = Run(p, c)
  BY QuietData DEF dataVars, Run
<1>1. CASE SelectNext
  <2>1. PICK o \in Options :
          group' = IF RoundGroup # None /\ RoundGroup.pair = o.of.pair
                   THEN RoundGroup ELSE KeyOf(o.of)
    BY <1>1 DEF SelectNext
  <2>2. o \in DOMAIN stats
    BY DEF Options, Pool, Uneven, Candidates
  <2>3. PICK p \in Pairs, c \in Cases : o = Cid(p, c)
    BY <2>2 DEF IndexInv, Shape
  <2>4. group'.pair = p
    BY <2>1, <2>3 DEF KeyOf, Cid, Gid
  <2>5. \A q \in Pairs : UnevenPair(q) => q = p
    BY <1>1, <2>3, SelectsUneven DEF SelectNext, Selecting, Focus, Level
  <2>6. \A q \in Pairs : UnevenPair(q)' <=> UnevenPair(q)
    BY <1>1, <1>d DEF Quiet, UnevenPair
  <2>7. pc' \in {"city", "env"}
    BY <1>1 DEF SelectNext
  <2> QED
    BY <2>4, <2>5, <2>6, <2>7 DEF Focus
<1>2. CASE \/ FinishOnce \/ SelectCrash \/ PickCityRaises \/ ProviderGone \/ EnvRaises
           \/ CaseLookupRaises \/ FailGroupLookup \/ Cancelled
  <2>1. pc' = "off"
    BY <1>2 DEF FinishOnce, SelectCrash, PickCityRaises, ProviderGone, EnvRaises,
      CaseLookupRaises, FailGroupLookup, Cancelled, End
  <2> QED
    BY <2>1 DEF Focus, Testing
<1>3. CASE \/ FirstStep \/ NoOption \/ Delayed \/ CancelledByOwner \/ CancelLostInCities
           \/ ContainerReady \/ LoggedIn \/ Tested \/ Sent \/ CancelLostInLogin \/ TestFails
  <2>1. pc # "off" /\ (pc' \in Testing => pc \in Testing /\ group' = group)
    BY <1>3 DEF FirstStep, NoOption, Selecting, Delayed, NextRepeat, CancelledByOwner,
      Cancel, CancelLostInCities, ContainerReady, LoggedIn, Tested, Sent, CancelLostInLogin,
      TestFails, Goto, Testing, Points
  <2> QED
    BY <2>1, <1>3, <1>c, <1>d DEF Quiet
<1>4. CASE UNCHANGED runnerVars
  BY <1>4, <1>c, <1>d DEF Quiet, runnerVars, taskVars
<1>5. CASE PickCity
  <2>1. group'.pair = group.pair /\ pc \in Testing
    BY <1>5 DEF PickCity, IndexInv, TypeInv, Control, Testing, Points, Key
  <2>2. \A p \in Pairs, c \in Cases : Run(p, c)' = Run(p, c)
    BY <1>5 DEF PickCity, Run
  <2> QED
    BY <2>1, <2>2, <1>c DEF Testing
<1>6. CASE PickCityLookup
  BY <1>6, Lookups DEF PickCityLookup, Testing, Points
<1>7. CASE AddRun \/ FailRun
  <2>1. pc \in Testing /\ pc' \in {"exit", "delay"} /\ group' = group
    BY <1>7 DEF AddRun, FailRun, Goto, Testing, Points
  <2>2. \A p \in Pairs, c \in Cases : p # group.pair => Run(p, c)' = Run(p, c)
    BY <1>7, RunsCounted
  <2> QED
    BY <2>1, <2>2 DEF Focus, UnevenPair
<1>8. CASE FailGroup \/ FailGroupDividesByZero \/ FailCase \/ FailCaseLookup
  BY <1>8, <1>a DEF FailGroup, FailGroupDividesByZero, FailCase, FailCaseLookup, FaultsOnly
<1>9. CASE ClearFails
  BY <1>9, <1>c, RunsKept DEF ClearFails, AddRun, FailRun, Testing
<1> QED
  BY <1>1, <1>2, <1>3, <1>4, <1>5, <1>6, <1>7, <1>8, <1>9, QuietOrNot DEF Quiet

LEMMA StepFocusInv == FocusInv /\ [Next]_runnerVars => FocusInv'
<1> SUFFICES ASSUME FocusInv, [Next]_runnerVars PROVE FocusInv'
  OBVIOUS
<1>1. BooksInv'
  BY StepBooksInv DEF FocusInv
<1>2. Spreading' = Spreading
  BY FaultsStay DEF Spreading
<1>3. Spreading = {} => Focus'
  BY StepFocus DEF FocusInv, BooksInv, LevelInv
<1> QED
  BY <1>1, <1>2, <1>3 DEF FocusInv

(* The first run that a selection counts serves its combination, the last    *)
(* one does if it is the only combination left in the round; other runs do   *)
(* not change who is ahead.                                                  *)
LEMMA RunServes ==
    ASSUME IndexInv, Spreading = {}, Level, Focus, pc \in {"add_run", "fail_run"},
           UNCHANGED repeats,
           \A p \in Pairs, c \in Cases :
             Run(p, c)' = IF <<p, c>> = <<group.pair, case>> THEN Run(p, c) + 1
                          ELSE Run(p, c)
    PROVE  \/ Ahead' = Ahead
           \/ /\ <<group.pair, case>> \notin Ahead
              /\ \A q \in Pairs :
                   /\ \E c \in Cases : <<q, c>> \in Ahead
                   /\ ~\A c \in Cases : <<q, c>> \in Ahead
                   => q = group.pair
              /\ Ahead' = IF Ahead \cup {<<group.pair, case>>} = Pairs \X Cases THEN {}
                          ELSE Ahead \cup {<<group.pair, case>>}
<1> DEFINE x == <<group.pair, case>>
           All == Pairs \X Cases
           R(z) == Run(z[1], z[2])
<1>1. pc \in Testing /\ Counted = 0
  BY DEF Testing, Points, Counted
<1>2. x \in All /\ R(x) = Run(group.pair, case)
  BY <1>1, Lookups
<1>3. PICK b \in Nat : OnItsWay(b)
  BY <1>1 DEF Level
<1>4. /\ repeats \in Nat \ {0} /\ left \in 1..repeats
      /\ R(x) = b + (repeats - left)
      /\ \A z \in All : R(z) \in Nat /\ (z # x => R(z) \in {b, b + repeats})
  BY <1>1, <1>2, <1>3, Types DEF OnItsWay
<1>5. \A z \in All : R(z)' = IF z = x THEN R(z) + 1 ELSE R(z)
  OBVIOUS
<1>6. /\ Ahead = {z \in All : \E y \in All : R(z) > R(y)}
      /\ Ahead' = {z \in All : \E y \in All : R(z)' > R(y)'}
  BY DEF Ahead
<1> HIDE DEF x, All, R
<1>7. CASE \E y \in All : y # x /\ R(y) = b
  <2>1. PICK y \in All : y # x /\ R(y) = b
    BY <1>7
  <2>2. \A z \in All : R(z) >= b /\ R(z)' >= b /\ (z \in Ahead <=> R(z) # b)
    BY <1>4, <1>5, <1>6, <2>1
  <2>3. \A z \in All : z \in Ahead' <=> R(z)' # b
    BY <1>4, <1>5, <1>6, <2>1, <2>2
  <2>4. \A z \in All : z \in Ahead' <=> z \in Ahead \/ z = x
    BY <1>4, <1>5, <2>2, <2>3
  <2>5. Ahead' = Ahead \cup {x}
    BY <1>2, <1>6, <2>4
  <2>6. CASE x \in Ahead
    BY <2>5, <2>6
  <2>7. CASE x \notin Ahead
    <3>1. y \notin Ahead \cup {x}
      BY <2>1, <2>2
    <3>2. \A q \in Pairs :
            (\E c \in Cases : <<q, c>> \in Ahead) /\ ~(\A c \in Cases : <<q, c>> \in Ahead)
              => q = group.pair
      <4> SUFFICES ASSUME NEW q \in Pairs, NEW c \in Cases, NEW d \in Cases,
                          <<q, c>> \in Ahead, <<q, d>> \notin Ahead
                   PROVE  q = group.pair
        OBVIOUS
      <4>1. Run(q, c) # b /\ Run(q, d) = b
        BY <2>2 DEF All, R
      <4> QED
        BY <1>1, <4>1 DEF Focus, UnevenPair
    <3> QED
      BY <2>1, <2>5, <2>7, <3>1, <3>2 DEF x, All
  <2> QED
    BY <2>6, <2>7
<1>8. CASE \A y \in All : y # x => R(y) = b + repeats
  <2>1. Ahead = All \ {x}
    BY <1>2, <1>4, <1>6, <1>8
  <2>2. CASE left # 1
    <3>1. Ahead' = All \ {x}
      BY <1>2, <1>4, <1>5, <1>6, <1>8, <2>2
    <3> QED
      BY <2>1, <3>1
  <2>3. CASE left = 1
    <3>1. \A z \in All : R(z)' = b + repeats
      BY <1>4, <1>5, <1>8, <2>3
    <3>2. Ahead' = {}
      BY <1>4, <1>6, <3>1
    <3> QED
      BY <1>2, <2>1, <3>2 DEF x, All
  <2> QED
    BY <2>2, <2>3
<1> QED
  BY <1>4, <1>7, <1>8

LEMMA InitRounds == Init => InRounds!Init
BY DEF Init, InRounds!Init, Ahead, Run

LEMMA StepRounds ==
    ASSUME FocusInv, [Next]_runnerVars
    PROVE  InRounds!Next \/ UNCHANGED (IF Spreading = {} THEN Ahead ELSE {})
<1>a. /\ IndexInv /\ FaultsOnly /\ Spreading' = Spreading
      /\ Spreading = {} => Level /\ Focus
  BY FaultsStay DEF FocusInv, BooksInv, LevelInv, Spreading
<1>1. CASE Spreading # {}
  BY <1>1, <1>a
<1>2. CASE Spreading = {} /\ (AddRun \/ FailRun)
  <2>1. pc \in {"add_run", "fail_run"} /\ pc \in Testing /\ UNCHANGED repeats
    BY <1>2 DEF AddRun, FailRun, Goto, Testing, Points
  <2>2. \A p \in Pairs, c \in Cases :
          Run(p, c)' = IF <<p, c>> = <<group.pair, case>> THEN Run(p, c) + 1 ELSE Run(p, c)
    BY <1>2, <1>a, RunsCounted
  <2>3. group.pair \in Pairs /\ case \in Cases
    BY <2>1, <1>a, Lookups
  <2> QED
    BY <2>1, <2>2, <2>3, <1>2, <1>a, RunServes
    DEF InRounds!Next, InRounds!Serve, InRounds!Started, InRounds!Finished,
        InRounds!Combinations
<1>3. CASE Spreading = {} /\ ~(AddRun \/ FailRun)
  <2>1. \A p \in Pairs, c \in Cases : Run(p, c)' = Run(p, c)
    BY <1>3, <1>a, RunsKept
  <2> QED
    BY <2>1, <1>3, <1>a DEF Ahead
<1> QED
  BY <1>1, <1>2, <1>3

(* Without group and case errors the counts follow Rounds: every combination *)
(* is served once per round, the cases of a group one after the other, in    *)
(* whatever order cities, errors and repeats come (Selector.select).         *)
THEOREM RoundsCorrect == Spec => RoundsSpec
<1>1. FocusInv /\ [Next]_runnerVars
        => [InRounds!Next]_(IF Spreading = {} THEN Ahead ELSE {})
  BY StepRounds
<1> QED
  BY <1>1, InitRounds, InitFocusInv, StepFocusInv, PTL DEF Spec, RoundsSpec, InRounds!Spec

-------------------------------------------------------------------------------
(* The once mode: runs counts the combinations that are done with all their  *)
(* repeats, so its limit is reached when every combination is.               *)
All == Pairs \X Cases
UnderTest == IF pc \in Testing THEN {<<group.pair, case>>} ELSE {}
Covered == {x \in All \ UnderTest : Run(x[1], x[2]) = repeats}

Once ==
    /\ pc # "off" =>
         /\ outcome = "none"
         /\ no_options => All = {}
    /\ mode = "once" =>
         /\ pc \in {"new", "top", "clear"} => Even(0) /\ runs = Cardinality(Covered)
         /\ pc \in Testing => OnItsWay(0) /\ runs = Cardinality(Covered)
         /\ outcome = "once" => \A p \in Pairs, c \in Cases : Run(p, c) = repeats

OnceInv == BooksInv /\ (mode # "once" => outcome # "once") /\ (Spreading = {} => Once)

LEMMA AllIsFinite == IsFiniteSet(All) /\ Cardinality(All) = Cardinality(Pairs) * Cardinality(Cases)
BY StaticAssumption, FS_Product DEF All

(* len(groups) * len(groups[0].cases) of the code is the number of           *)
(* combinations.                                                             *)
LEMMA TargetIsAll ==
    ASSUME IndexInv
    PROVE  Target = Cardinality(All)
<1>1. IsFiniteSet(Pairs) /\ IsFiniteSet(Cases)
  BY StaticAssumption
<1>2. CASE Pairs = {}
  <2>1. All = {} /\ DOMAIN groups = {}
    BY <1>2 DEF All, IndexInv, Shape
  <2> QED
    BY <2>1, FS_EmptySet DEF Target
<1>3. CASE Pairs # {}
  <2>1. DOMAIN groups = {Gid(p) : p \in Pairs} /\ DOMAIN groups # {}
    BY <1>3 DEF IndexInv, Shape
  <2>2. Cardinality(DOMAIN groups) = Cardinality(Pairs)
    <3> DEFINE f == [p \in Pairs |-> Gid(p)]
    <3>1. f \in Bijection(Pairs, DOMAIN groups)
      <4>1. f \in [Pairs -> DOMAIN groups]
        BY <2>1
      <4>2. \A p, q \in Pairs : f[p] = f[q] => p = q
        BY DEF Gid
      <4>3. \A g \in DOMAIN groups : \E p \in Pairs : f[p] = g
        BY <2>1
      <4> QED
        BY <4>1, <4>2, <4>3, Fun_IsBij
    <3> QED
      BY <1>1, <3>1, Fun_ExistsBij, FS_Bijection
  <2>3. FirstGroup \in DOMAIN groups
    <3>1. \A g, h \in DOMAIN groups : g.gen <= h.gen
      BY <2>1 DEF Gid
    <3>2. \E g \in DOMAIN groups : \A h \in DOMAIN groups : g.gen <= h.gen
      BY <2>1, <3>1
    <3> QED
      BY <3>2 DEF FirstGroup
  <2>4. PICK p \in Pairs : FirstGroup = Gid(p)
    BY <2>1, <2>3
  <2>5. CasesOf(FirstGroup) = {Cid(p, c) : c \in Cases}
    <3>1. \A o \in DOMAIN stats : o.of = Gid(p) <=> \E c \in Cases : o = Cid(p, c)
      <4> SUFFICES ASSUME NEW o \in DOMAIN stats
                   PROVE  o.of = Gid(p) <=> \E c \in Cases : o = Cid(p, c)
        OBVIOUS
      <4>1. PICK q \in Pairs, d \in Cases : o = Cid(q, d)
        BY DEF IndexInv, Shape
      <4>2. o.of = Gid(p) <=> q = p
        BY <4>1 DEF Cid, Gid
      <4> QED
        BY <4>1, <4>2 DEF Cid
    <3> QED
      BY <2>4, <3>1, Types DEF CasesOf
  <2>6. Cardinality(CasesOf(FirstGroup)) = Cardinality(Cases)
    <3> DEFINE f == [c \in Cases |-> Cid(p, c)]
    <3>1. f \in Bijection(Cases, CasesOf(FirstGroup))
      <4>1. f \in [Cases -> CasesOf(FirstGroup)]
        BY <2>5
      <4>2. \A c, d \in Cases : f[c] = f[d] => c = d
        BY DEF Cid
      <4>3. \A o \in CasesOf(FirstGroup) : \E c \in Cases : f[c] = o
        BY <2>5
      <4> QED
        BY <4>1, <4>2, <4>3, Fun_IsBij
    <3> QED
      BY <1>1, <3>1, Fun_ExistsBij, FS_Bijection
  <2> QED
    BY <2>1, <2>2, <2>6, AllIsFinite DEF Target
<1> QED
  BY <1>2, <1>3

LEMMA CoveredType ==
    ASSUME IndexInv
    PROVE  /\ IsFiniteSet(Covered) /\ Cardinality(Covered) \in Nat
           /\ Cardinality(Covered) >= Cardinality(All) => Covered = All
<1>1. Covered \in SUBSET All
  BY DEF Covered
<1>2. IsFiniteSet(Covered) /\ Cardinality(Covered) <= Cardinality(All)
      /\ (Cardinality(All) = Cardinality(Covered) => All = Covered)
  BY <1>1, AllIsFinite, FS_Subset
<1> QED
  BY <1>2, AllIsFinite, FS_CardinalityType

LEMMA InitOnceInv == Init => OnceInv
<1> SUFFICES ASSUME Init PROVE OnceInv
  OBVIOUS
<1>1. IndexInv /\ BooksInv
  BY InitBooksInv, InitIndexInv
<1>2. pc = "new" /\ runs = 0 /\ ~no_options /\ outcome = "none" /\ repeats \in Nat \ {0}
  BY <1>1, Types DEF Init
<1>3. \A p \in Pairs, c \in Cases : Run(p, c) = 0
  BY DEF Init, Run
<1>4. Covered = {}
  BY <1>2, <1>3 DEF Covered, All
<1>5. Even(0) /\ Cardinality(Covered) = 0
  BY <1>3, <1>4, FS_EmptySet DEF Even
<1> QED
  BY <1>1, <1>2, <1>5 DEF OnceInv, Once, Testing

(* The limit is reached exactly when all combinations are covered.           *)
LEMMA OverCovers ==
    ASSUME IndexInv, Once, pc = "top", mode = "once", Over
    PROVE  \A p \in Pairs, c \in Cases : Run(p, c) = repeats
<1>1. CASE runs >= Target
  <2>1. Covered = All
    BY <1>1, TargetIsAll, CoveredType, AllIsFinite, FS_CardinalityType DEF Once
  <2>2. \A x \in All : Run(x[1], x[2]) = repeats
    BY <2>1 DEF Covered
  <2>3. \A p \in Pairs, c \in Cases : <<p, c>> \in All
    BY DEF All
  <2> QED
    BY <2>2, <2>3
<1>2. CASE no_options
  <2>1. \A p \in Pairs, c \in Cases : <<p, c>> \in All
    BY DEF All
  <2> QED
    BY <1>2, <2>1 DEF Once
<1> QED
  BY <1>1, <1>2 DEF Over

LEMMA SelectOnce ==
    ASSUME IndexInv, NoneFailing, Once, mode = "once", SelectNext
    PROVE  OnItsWay(0)' /\ runs' = Cardinality(Covered')
<1>1. pc = "top" /\ Even(0) /\ runs = Cardinality(Covered) /\ ~Over
  BY DEF SelectNext, Selecting, Once
<1>2. PICK m \in Nat : /\ Even(m) /\ OnItsWay(m)'
                       /\ group'.pair \in Pairs /\ case' \in Cases
                       /\ Run(group'.pair, case') = m
  BY <1>1, SetsOut
<1>3. repeats \in Nat \ {0} /\ pc \notin Testing /\ pc' \in Testing
  BY <1>1, Types DEF SelectNext, Testing, Points
<1>4. m = 0
  <2>1. m \in {0, 0 + repeats}
    BY <1>1, <1>2 DEF Even
  <2>2. CASE m = repeats
    <3>1. \A p \in Pairs, c \in Cases : Run(p, c) = repeats
      BY <1>1, <1>2, <1>3, <2>2 DEF Even
    <3>2. Covered = All
      BY <1>3, <3>1 DEF Covered, UnderTest, All
    <3> QED
      BY <1>1, <3>2, TargetIsAll, AllIsFinite, FS_CardinalityType DEF Over
  <2> QED
    BY <1>3, <2>1, <2>2
<1>5. UNCHANGED <<stats, repeats>> /\ runs' = runs
  BY <1>1 DEF SelectNext, RoundRuns, dataVars
<1>6. Covered' = Covered
  BY <1>2, <1>3, <1>4, <1>5 DEF Covered, UnderTest, Run, All
<1> QED
  BY <1>1, <1>2, <1>4, <1>5, <1>6

LEMMA ArriveOnce ==
    ASSUME IndexInv, Once, mode = "once", Delayed
    PROVE  /\ runs' = Cardinality(Covered')
           /\ pc' = "env" => OnItsWay(0)'
           /\ pc' = "top" => Even(0)'
<1>1. pc \in Testing /\ OnItsWay(0) /\ runs = Cardinality(Covered) /\ left \in Nat \ {0}
  BY Types DEF Delayed, Once, Testing, Points
<1>2. group.pair \in Pairs /\ case \in Cases /\ repeats \in Nat \ {0}
  BY <1>1, Lookups, Types
<1>3. UNCHANGED <<stats, repeats, group>>
  BY DEF Delayed, NextRepeat, dataVars
<1>4. CASE left > 1
  <2>1. pc' = "env" /\ case' = case /\ runs' = runs /\ OnItsWay(0)'
    BY <1>1, <1>4, Arrives
  <2>2. Covered' = Covered
    BY <1>1, <1>3, <2>1 DEF Covered, UnderTest, Run, Testing, Points
  <2> QED
    BY <1>1, <2>1, <2>2
<1>5. CASE left = 1
  <2>1. pc' = "top" /\ runs' = runs + 1 /\ Even(0)' /\ Run(group.pair, case) = 0 + repeats
    BY <1>1, <1>5, Arrives
  <2> DEFINE x == <<group.pair, case>>
  <2>2. x \in All /\ x[1] = group.pair /\ x[2] = case
    BY <1>2 DEF All
  <2>3. Covered' = Covered \cup {x} /\ x \notin Covered
    BY <1>1, <1>2, <1>3, <2>1, <2>2 DEF Covered, UnderTest, Run, Testing
  <2> QED
    BY <1>1, <2>1, <2>3, CoveredType, FS_AddElement
<1> QED
  BY <1>1, <1>4, <1>5

LEMMA StepOnce ==
    ASSUME IndexInv, FaultsOnly, Spreading = {}, Level, Books, Once, [Next]_runnerVars
    PROVE  Once'
<1>a. "group" \notin faults /\ "case" \notin faults
  BY DEF Spreading
<1>b. pc \in Points
  BY Types
<1>c. ASSUME pc # "off", pc' # "off", UNCHANGED <<outcome, no_options, mode, repeats, runs>>,
             \A p \in Pairs, c \in Cases : Run(p, c)' = Run(p, c),
             \/ pc \notin Testing /\ pc' \notin Testing
             \/ /\ pc \in Testing /\ pc' \in Testing /\ group'.pair = group.pair
                /\ UNCHANGED <<case, left>> /\ Counted' = Counted
      PROVE  Once'
  <2>1. Covered' = Covered
    BY <1>c DEF Covered, UnderTest, All
  <2>2. CASE pc \in Testing
    BY <1>c, <2>1, <2>2, KeepsPlace DEF Once, Testing
  <2>3. CASE pc \notin Testing
    BY <1>b, <1>c, <2>1, <2>3 DEF Once, Even, Testing
  <2> QED
    BY <2>2, <2>3
<1>d. Quiet => \A p \in Pairs, c \in Cases : Run(p, c)' = Run(p, c)
  BY QuietData DEF dataVars, Run
<1>1. CASE FirstStep \/ NoOption
  <2>1. pc # "off" /\ pc' # "off" /\ UNCHANGED <<outcome, no_options, mode, repeats>>
        /\ pc \notin Testing /\ pc' \notin Testing /\ (mode = "once" => runs' = runs)
    BY <1>1 DEF FirstStep, NoOption, Selecting, RoundRuns, Testing
  <2>2. Covered' = Covered
    BY <1>1, <1>d, <2>1 DEF Quiet, Covered, UnderTest, All
  <2> QED
    BY <1>1, <1>b, <1>d, <2>1, <2>2 DEF Quiet, Once, Even, Testing
<1>2. CASE SelectNext
  <2>1. pc # "off" /\ pc' \in Testing /\ UNCHANGED <<outcome, no_options, mode>>
    BY <1>2 DEF SelectNext, Selecting, Testing, Points
  <2> QED
    BY <1>2, <2>1, SelectOnce DEF Once, Level, Testing
<1>3. CASE Delayed
  <2>1. pc # "off" /\ pc' \in {"env", "top"} /\ UNCHANGED <<outcome, no_options, mode>>
    BY <1>3 DEF Delayed, NextRepeat
  <2> QED
    BY <1>3, <2>1, ArriveOnce DEF Once, Testing, Points
<1>4. CASE FinishOnce
  <2>1. \A p \in Pairs, c \in Cases : Run(p, c) = repeats
    BY <1>4, OverCovers DEF FinishOnce
  <2>2. pc' = "off" /\ UNCHANGED repeats /\ \A p \in Pairs, c \in Cases : Run(p, c)' = Run(p, c)
    BY <1>4, <1>d DEF Quiet, FinishOnce, End
  <2> QED
    BY <2>1, <2>2 DEF Once, Testing
<1>5. CASE \/ SelectCrash \/ PickCityRaises \/ ProviderGone \/ EnvRaises
           \/ CaseLookupRaises \/ FailGroupLookup \/ Cancelled
  <2>1. pc' = "off" /\ outcome' # "once"
    BY <1>5 DEF SelectCrash, PickCityRaises, ProviderGone, EnvRaises, CaseLookupRaises,
      FailGroupLookup, Cancelled, End
  <2> QED
    BY <2>1 DEF Once, Testing
<1>6. CASE CancelledByOwner \/ CancelLostInCities
  <2>1. pc # "off" /\ UNCHANGED <<pc, outcome, no_options, mode, repeats, runs, group, case, left>>
    BY <1>6 DEF CancelledByOwner, Cancel, CancelLostInCities
  <2> QED
    BY <1>6, <1>c, <1>d, <2>1 DEF Quiet, Counted
<1>7. CASE \/ ContainerReady \/ LoggedIn \/ Tested \/ Sent \/ CancelLostInLogin \/ TestFails
  <2>1. pc \in Testing /\ pc' \in Testing /\ Counted' = Counted
    BY <1>7 DEF ContainerReady, LoggedIn, Tested, Sent, CancelLostInLogin, TestFails, Goto,
                Testing, Points, Counted
  <2>2. UNCHANGED <<outcome, no_options, mode, repeats, runs, group, case, left>>
    BY <1>7 DEF ContainerReady, LoggedIn, Tested, Sent, CancelLostInLogin, TestFails, Goto
  <2> QED
    BY <1>7, <1>c, <1>d, <2>1, <2>2 DEF Quiet, Testing
<1>8. CASE PickCity
  <2>1. /\ group'.pair = group.pair /\ pc \in Testing /\ pc' \in Testing
        /\ UNCHANGED <<outcome, no_options, mode, repeats, runs, case, left>>
        /\ Counted' = Counted
    BY <1>8 DEF PickCity, IndexInv, TypeInv, Control, Testing, Points, Key, Counted
  <2>2. \A p \in Pairs, c \in Cases : Run(p, c)' = Run(p, c)
    BY <1>8 DEF PickCity, Run
  <2> QED
    BY <2>1, <2>2, <1>c DEF Testing
<1>9. CASE PickCityLookup
  BY <1>9, Lookups DEF PickCityLookup, Testing, Points
<1>10. CASE AddRun \/ FailRun
  <2>1. /\ pc \in {"add_run", "fail_run"} /\ pc' \in {"exit", "delay"}
        /\ UNCHANGED <<outcome, no_options, mode, repeats, runs, group, case, left>>
    BY <1>10 DEF AddRun, FailRun, Goto
  <2>2. \A p \in Pairs, c \in Cases :
          Run(p, c)' = IF <<p, c>> = <<group.pair, case>> THEN Run(p, c) + 1 ELSE Run(p, c)
    BY <1>10, RunsCounted
  <2>3. pc \in Testing /\ pc' \in Testing /\ pc # "off"
    BY <2>1 DEF Testing, Points
  <2>4. Covered' = Covered
    BY <2>1, <2>2, <2>3 DEF Covered, UnderTest, All
  <2>5. mode = "once" => OnItsWay(0)'
    BY <2>1, <2>2, <2>3, OneStepOn DEF Once
  <2> QED
    BY <2>1, <2>3, <2>4, <2>5 DEF Once, Testing
<1>11. CASE FailGroup \/ FailGroupDividesByZero \/ FailCase \/ FailCaseLookup
  BY <1>11, <1>a DEF FailGroup, FailGroupDividesByZero, FailCase, FailCaseLookup, FaultsOnly
<1>12. CASE ClearFails
  <2>1. All = {}
    BY <1>12, Types DEF ClearFails, Books, All
  <2>2. \A p \in Pairs, c \in Cases : Run(p, c)' = Run(p, c)
    BY <1>12, RunsKept DEF ClearFails, AddRun, FailRun
  <2>3. Covered' = Covered
    BY <2>1 DEF Covered
  <2> QED
    BY <1>12, <2>1, <2>2, <2>3 DEF ClearFails, Once, Even, Testing
<1>13. CASE UNCHANGED runnerVars
  BY <1>13 DEF runnerVars, dataVars, taskVars, Once, Even, OnItsWay, Covered, UnderTest, Run,
    Counted
<1> QED
  BY <1>1, <1>2, <1>3, <1>4, <1>5, <1>6, <1>7, <1>8, <1>9, <1>10, <1>11, <1>12, <1>13,
     QuietOrNot DEF Quiet

(* The mode of a task stays, and only FinishOnce ends one with "once".       *)
LEMMA EndedOnce ==
    ASSUME [Next]_runnerVars
    PROVE  mode' = mode /\ (mode # "once" => outcome' = outcome \/ outcome' # "once")
<1>1. CASE \/ FirstStep \/ NoOption \/ SelectNext \/ PickCity \/ ContainerReady
           \/ LoggedIn \/ Tested \/ TestFails \/ AddRun \/ Sent \/ FailRun \/ Delayed
           \/ FailGroup \/ FailCase \/ ClearFails \/ CancelLostInLogin
           \/ CancelLostInCities \/ CancelledByOwner \/ UNCHANGED runnerVars
  BY <1>1 DEF FirstStep, NoOption, SelectNext, PickCity, ContainerReady, LoggedIn, Tested,
              TestFails, AddRun, Sent, FailRun, Delayed, FailGroup, FailCase, ClearFails,
              CancelLostInLogin, CancelLostInCities, CancelledByOwner, Cancel, Goto,
              NextRepeat, runnerVars, taskVars
<1>2. CASE \/ SelectCrash \/ PickCityLookup \/ PickCityRaises \/ ProviderGone \/ EnvRaises
           \/ CaseLookupRaises \/ FailGroupDividesByZero \/ FailGroupLookup
           \/ FailCaseLookup \/ Cancelled
  <2>1. mode' = mode /\ outcome' # "once"
    BY <1>2 DEF SelectCrash, PickCityLookup, PickCityRaises, ProviderGone, EnvRaises,
      CaseLookupRaises, FailGroupDividesByZero, FailGroupLookup, FailCaseLookup, Cancelled,
      End
  <2> QED
    BY <2>1
<1>3. CASE FinishOnce
  BY <1>3 DEF FinishOnce
<1> QED
  BY <1>1, <1>2, <1>3 DEF Next, Step

LEMMA StepOnceInv == OnceInv /\ [Next]_runnerVars => OnceInv'
<1> SUFFICES ASSUME OnceInv, [Next]_runnerVars PROVE OnceInv'
  OBVIOUS
<1>1. BooksInv'
  BY StepBooksInv DEF OnceInv
<1>2. Spreading' = Spreading
  BY FaultsStay DEF Spreading
<1>3. Spreading = {} => Once'
  BY StepOnce DEF OnceInv, BooksInv, LevelInv
<1>4. mode' # "once" => outcome' # "once"
  BY EndedOnce DEF OnceInv
<1> QED
  BY <1>1, <1>2, <1>3, <1>4 DEF OnceInv

(* The once mode of Runner.run ends by itself only when every combination    *)
(* was counted exactly Config.repeats times: the number of selections it     *)
(* compares with the number of combinations counts the covered ones.         *)
THEOREM OnceCoversAlways == Spec => []OnceCovers
<1>1. OnceInv => OnceCovers
  BY DEF OnceInv, Once, OnceCovers
<1> QED
  BY <1>1, InitOnceInv, StepOnceInv, PTL DEF Spec

===============================================================================
