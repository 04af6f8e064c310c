------------------------------ MODULE StepProofs ------------------------------
(*****************************************************************************)
(* Every step of Runner.run keeps the types of its locals and of the data it *)
(* works on, whoever else changes that data: lemmas for the proofs about the *)
(* modules that extend Runner.                                               *)
(*****************************************************************************)
EXTENDS Runner, TLAPS, FiniteSetTheorems, FunctionTheorems

(* The awaits at which a test case has been selected.                        *)
Testing == Points \ {"off", "new", "top", "clear"}

(* While a case is selected there is a group, a case and a repeat to do.     *)
Control ==
    pc \in Testing =>
        /\ group \in Key
        /\ case \in Cases
        /\ left \in Nat \ {0}

RunnerInv == RunnerTypeOK /\ Control

(* The three ways in which a step of a test continues keep the types.        *)
TaskInv == TaskTypeOK /\ Control

LEMMA EndTask ==
    ASSUME TaskInv, NEW how \in Outcomes, End(how),
           UNCHANGED <<confVars, mode, repeats, sent>>
    PROVE  TaskInv'
BY DEF TaskInv, TaskTypeOK, Control, End, confVars, Testing, Points

LEMMA GotoTask ==
    ASSUME TaskInv, pc \in Testing, NEW l \in Testing, Goto(l), UNCHANGED confVars,
           sent' \in [Pairs \X Cases -> Nat]
    PROVE  TaskInv'
BY DEF TaskInv, TaskTypeOK, Control, Goto, confVars, Testing

LEMMA NextRepeatTask ==
    ASSUME TaskInv, pc \in Testing, NextRepeat, UNCHANGED <<confVars, sent>>
    PROVE  TaskInv'
BY DEF TaskInv, TaskTypeOK, Control, NextRepeat, confVars, Testing, Points

(* Every step keeps the types of the task.                                   *)
LEMMA StepKeepsTask == RunnerInv /\ Step => TaskInv'
<1> SUFFICES ASSUME RunnerInv, Step PROVE TaskInv'
  OBVIOUS
<1>a. TaskInv
  BY DEF RunnerInv, RunnerTypeOK, TaskInv
<1>1. CASE FirstStep
  BY <1>1, <1>a DEF FirstStep, TaskInv, TaskTypeOK, Control, confVars, Testing, Points
<1>2. CASE FinishOnce
  BY <1>2, <1>a, EndTask DEF FinishOnce, Outcomes
<1>3. CASE SelectCrash
  BY <1>3, <1>a, EndTask DEF SelectCrash, Outcomes
<1>4. CASE NoOption
  BY <1>4, <1>a DEF NoOption, RoundRuns, RoundGroup, TaskInv, TaskTypeOK, Control,
                    confVars, Testing, Points
<1>5. CASE SelectNext
  <2>1. PICK o \in Options :
          LET same == RoundGroup # None /\ RoundGroup.pair = o.of.pair
          IN /\ group' = IF same THEN RoundGroup ELSE KeyOf(o.of)
             /\ pc' = IF ~same /\ common_cities /\ o.of.pair \notin AutoPairs
                      THEN "city" ELSE "env"
             /\ case' = o.case
    BY <1>5 DEF SelectNext
  <2>2. o \in DOMAIN stats /\ o \in CaseId
    BY DEF Options, Pool, Uneven, Candidates, RunnerInv, RunnerTypeOK, DataTypeOK
  <2>3. KeyOf(o.of) \in Key
    <3>1. o.of \in GroupId
      BY <2>2 DEF CaseId
    <3>2. groups[o.of].city \in Cities \cup {NoCity}
      BY <2>2 DEF RunnerInv, RunnerTypeOK, DataTypeOK
    <3> QED
      BY <3>1, <3>2 DEF KeyOf, Key, GroupId
  <2> QED
    BY <2>1, <2>2, <2>3, <1>5, <1>a
    DEF SelectNext, RoundRuns, RoundGroup, TaskInv, TaskTypeOK, Control, confVars,
        Testing, Points, CaseId
<1>6. CASE PickCity
  <2>1. PICK c \in Cities \cup {NoCity} : group' = [group EXCEPT !.city = c]
    BY <1>6 DEF PickCity
  <2>2. group' \in Key
    BY <2>1, <1>6, <1>a DEF PickCity, TaskInv, Control, Key, Testing, Points
  <2> QED
    BY <2>2, <1>6, <1>a DEF PickCity, TaskInv, TaskTypeOK, Control, confVars,
                            Testing, Points
<1>7. CASE PickCityLookup
  BY <1>7, <1>a, EndTask DEF PickCityLookup, Outcomes
<1>8. CASE PickCityRaises
  BY <1>8, <1>a, EndTask DEF PickCityRaises, Outcomes
<1>9. CASE ContainerReady
  BY <1>9, <1>a, GotoTask DEF ContainerReady, Testing, Points, TaskInv, TaskTypeOK
<1>10. CASE ProviderGone
  BY <1>10, <1>a, EndTask DEF ProviderGone, Outcomes
<1>11. CASE LoggedIn
  BY <1>11, <1>a, GotoTask DEF LoggedIn, Testing, Points, TaskInv, TaskTypeOK
<1>12. CASE Tested
  BY <1>12, <1>a, GotoTask DEF Tested, Testing, Points, TaskInv, TaskTypeOK
<1>13. CASE TestFails
  BY <1>13, <1>a, GotoTask DEF TestFails, Testing, Points, TaskInv, TaskTypeOK
<1>14. CASE EnvRaises
  BY <1>14, <1>a, EndTask DEF EnvRaises, Outcomes
<1>15. CASE AddRun
  BY <1>15, <1>a, GotoTask DEF AddRun, Testing, Points, TaskInv, TaskTypeOK
<1>16. CASE Sent
  <2>1. sent' \in [Pairs \X Cases -> Nat]
    BY <1>16, <1>a DEF Sent, TaskInv, TaskTypeOK, Control, Testing, Points, Key
  <2> QED
    BY <2>1, <1>16, <1>a, GotoTask DEF Sent, Testing, Points
<1>17. CASE FailRun
  BY <1>17, <1>a, GotoTask DEF FailRun, Testing, Points, TaskInv, TaskTypeOK
<1>18. CASE CaseLookupRaises
  BY <1>18, <1>a, EndTask DEF CaseLookupRaises, Outcomes
<1>19. CASE Delayed
  BY <1>19, <1>a, NextRepeatTask DEF Delayed, Testing, Points
<1>20. CASE FailGroup
  BY <1>20, <1>a, NextRepeatTask DEF FailGroup, Testing, Points
<1>21. CASE FailGroupDividesByZero
  BY <1>21, <1>a, EndTask DEF FailGroupDividesByZero, Outcomes
<1>22. CASE FailGroupLookup
  BY <1>22, <1>a, EndTask DEF FailGroupLookup, Outcomes
<1>23. CASE FailCase
  BY <1>23, <1>a, NextRepeatTask DEF FailCase, Testing, Points
<1>24. CASE FailCaseLookup
  BY <1>24, <1>a, EndTask DEF FailCaseLookup, Outcomes
<1>25. CASE ClearFails
  BY <1>25, <1>a DEF ClearFails, TaskInv, TaskTypeOK, Control, confVars, Testing, Points
<1>26. CASE Cancelled
  BY <1>26, <1>a, EndTask DEF Cancelled, Outcomes
<1>27. CASE CancelLostInLogin
  BY <1>27, <1>a DEF CancelLostInLogin, TaskInv, TaskTypeOK, Control, confVars, Testing,
                     Points
<1>28. CASE CancelLostInCities
  BY <1>28, <1>a DEF CancelLostInCities, TaskInv, TaskTypeOK, Control, confVars, Testing
<1> QED
  BY <1>1, <1>2, <1>3, <1>4, <1>5, <1>6, <1>7, <1>8, <1>9, <1>10, <1>11, <1>12, <1>13,
     <1>14, <1>15, <1>16, <1>17, <1>18, <1>19, <1>20, <1>21, <1>22, <1>23, <1>24, <1>25,
     <1>26, <1>27, <1>28
  DEF Step

(* The steps that leave the groups, the cases and the indexes alone.         *)
Still ==
    \/ FirstStep \/ FinishOnce \/ SelectCrash \/ NoOption \/ SelectNext
    \/ PickCityRaises \/ ContainerReady \/ ProviderGone \/ LoggedIn \/ Tested
    \/ TestFails \/ EnvRaises \/ Sent \/ CaseLookupRaises \/ Delayed \/ FailGroupLookup
    \/ Cancelled \/ CancelLostInLogin \/ CancelLostInCities

LEMMA StillData == Still => UNCHANGED dataVars
BY DEF Still, FirstStep, FinishOnce, SelectCrash, NoOption, SelectNext, PickCityRaises,
       ContainerReady, ProviderGone, LoggedIn, Tested, TestFails, EnvRaises, Sent,
       CaseLookupRaises, Delayed, FailGroupLookup, Cancelled, CancelLostInLogin,
       CancelLostInCities

LEMMA StillOrNot ==
    Step =>
        \/ Still \/ PickCity \/ PickCityLookup \/ AddRun \/ FailRun
        \/ FailGroup \/ FailGroupDividesByZero \/ FailCase \/ FailCaseLookup \/ ClearFails
BY DEF Step, Still

(* A step that only counts and marks keeps the types of the data.            *)
GroupRecord == [city: Cities \cup {NoCity}, failing: BOOLEAN]
CaseRecord == [run: Nat, fail: Int]

LEMMA CountedData ==
    ASSUME DataTypeOK,
           stats' \in [DOMAIN stats -> CaseRecord],
           groups' \in [DOMAIN groups -> GroupRecord],
           UNCHANGED <<group_index, case_index, test_cases>>,
           failing_cases' \subseteq Cases
    PROVE  DataTypeOK'
BY DEF DataTypeOK, CaseRecord, GroupRecord

LEMMA OneMoreFailureType ==
    ASSUME NEW s \in CaseRecord
    PROVE  OneMoreFailure(s) \in CaseRecord
BY DEF OneMoreFailure, CaseRecord

LEMMA CountFailuresType ==
    ASSUME DataTypeOK, NEW objs, CountFailures(objs)
    PROVE  stats' \in [DOMAIN stats -> CaseRecord]
<1>1. \A o \in DOMAIN stats : stats[o] \in CaseRecord
  BY DEF DataTypeOK, CaseRecord
<1> QED
  BY <1>1, OneMoreFailureType DEF CountFailures

LEMMA MarkFailingType ==
    ASSUME DataTypeOK, NEW g, NEW objs, MarkFailing(g, objs)
    PROVE  groups' \in [DOMAIN groups -> GroupRecord]
BY DEF DataTypeOK, GroupRecord, MarkFailing

(* Every step keeps the types of the groups, the cases and the indexes.      *)
LEMMA StepKeepsData == RunnerInv /\ Step => DataTypeOK'
<1> SUFFICES ASSUME RunnerInv, Step PROVE DataTypeOK'
  OBVIOUS
<1>a. DataTypeOK /\ TaskTypeOK /\ Control
  BY DEF RunnerInv, RunnerTypeOK
<1>1. CASE Still
  BY <1>1, <1>a, StillData DEF dataVars, DataTypeOK
<1>2. CASE PickCity
  <2>1. PICK c \in Cities \cup {NoCity} :
          Renamed(group_index[group], [group EXCEPT !.city = c])
    BY <1>2 DEF PickCity
  <2> DEFINE k == [group EXCEPT !.city = c]
  <2>2. k \in Key /\ group_index[group] \in GroupId /\ group \in DOMAIN case_index
    BY <1>2, <1>a DEF PickCity, DataTypeOK, Control, Key, Testing, Points
  <2>3. /\ DOMAIN groups' = DOMAIN groups
        /\ groups' \in [DOMAIN groups -> [city: Cities \cup {NoCity}, failing: BOOLEAN]]
    BY <2>1, <2>2, <1>a DEF Renamed, DataTypeOK, Key
  <2>4. /\ DOMAIN group_index' \subseteq Key
        /\ group_index' \in [DOMAIN group_index' -> GroupId]
    BY <2>1, <2>2, <1>a DEF Renamed, DataTypeOK, With, Without
  <2>5. DOMAIN case_index' \subseteq Key
    BY <2>1, <2>2, <1>a DEF Renamed, DataTypeOK, With, Without
  <2>6. \A x \in DOMAIN case_index' :
          \E y \in DOMAIN case_index : case_index'[x] = case_index[y]
    BY <2>1, <2>2 DEF Renamed, With, Without
  <2>7. UNCHANGED <<stats, test_cases, failing_cases>>
    BY <1>2 DEF PickCity
  <2> QED
    BY <2>3, <2>4, <2>5, <2>6, <2>7, <1>a DEF DataTypeOK
<1>3. CASE PickCityLookup
  <2>1. UNCHANGED <<groups, stats, case_index, test_cases, failing_cases>>
    BY <1>3 DEF PickCityLookup
  <2>2. group \in Key
    BY <1>3, <1>a DEF PickCityLookup, Control, Testing, Points
  <2>3. ASSUME group \in DOMAIN group_index
        PROVE  /\ DOMAIN group_index' \subseteq Key
               /\ group_index' \in [DOMAIN group_index' -> GroupId]
    <3>1. PICK c \in Cities \cup {NoCity} :
            group_index' = With(Without(group_index, {group}),
                                [group EXCEPT !.city = c], group_index[group])
      BY <1>3, <2>3 DEF PickCityLookup
    <3>2. [group EXCEPT !.city = c] \in Key
      BY <2>2 DEF Key
    <3> QED
      BY <3>1, <3>2, <2>3, <1>a DEF DataTypeOK, With, Without
  <2>4. CASE group \notin DOMAIN group_index
    BY <2>1, <2>4, <1>3, <1>a DEF PickCityLookup, DataTypeOK
  <2> QED
    BY <2>1, <2>3, <2>4, <1>a DEF DataTypeOK
<1>4. CASE AddRun
  <2>1. stats' \in [DOMAIN stats -> CaseRecord]
    <3>1. PICK o : stats' = [stats EXCEPT ![o] = [run |-> @.run + 1, fail |-> @.fail]]
      <4> DEFINE hit == case_index[group][case]
      <4>1. stats' = [stats EXCEPT ![hit].run = @ + 1]
        BY <1>4 DEF AddRun
      <4>2. hit \in DOMAIN stats =>
              [stats[hit] EXCEPT !.run = @ + 1]
                = [run |-> stats[hit].run + 1, fail |-> stats[hit].fail]
        BY <1>a DEF DataTypeOK
      <4>3. stats' = [stats EXCEPT ![hit] = [run |-> @.run + 1, fail |-> @.fail]]
        BY <4>1, <4>2
      <4> QED
        BY <4>3
    <3>2. \A x \in DOMAIN stats : [run |-> stats[x].run + 1, fail |-> stats[x].fail] \in CaseRecord
      BY <1>a DEF DataTypeOK, CaseRecord
    <3> QED
      BY <3>1, <3>2, <1>a DEF DataTypeOK, CaseRecord
  <2> QED
    BY <2>1, <1>4, <1>a, CountedData DEF AddRun, unmovedData, DataTypeOK, GroupRecord
<1>5. CASE FailRun
  <2>1. stats' \in [DOMAIN stats -> CaseRecord]
    BY <1>5, <1>a, OneMoreFailureType DEF FailRun, DataTypeOK, CaseRecord
  <2> QED
    BY <2>1, <1>5, <1>a, CountedData DEF FailRun, unmovedData, DataTypeOK, GroupRecord
<1>6. CASE FailGroup
  BY <1>6, <1>a, CountedData, CountFailuresType, MarkFailingType
  DEF FailGroup, DataTypeOK
<1>7. CASE FailGroupDividesByZero
  <2>1. PICK objs, before :
          /\ CountFailures(objs)
          /\ MarkFailing(group_index[group], before)
    BY <1>7 DEF FailGroupDividesByZero
  <2> QED
    BY <2>1, <1>7, <1>a, CountedData, CountFailuresType, MarkFailingType
    DEF FailGroupDividesByZero, DataTypeOK
<1>8. CASE FailCase
  BY <1>8, <1>a DEF FailCase, MarkCase, DataTypeOK, unmovedData, Control, Testing, Points
<1>9. CASE FailCaseLookup
  BY <1>9, <1>a DEF FailCaseLookup, MarkCase, DataTypeOK, unmovedData, Control, Testing,
                    Points
<1>10. CASE ClearFails
  <2>1. stats' \in [DOMAIN stats -> CaseRecord]
    BY <1>10, <1>a DEF ClearFails, DataTypeOK, CaseRecord
  <2>2. groups' \in [DOMAIN groups -> GroupRecord]
    BY <1>10, <1>a DEF ClearFails, DataTypeOK, GroupRecord
  <2> QED
    BY <2>1, <2>2, <1>10, <1>a, CountedData DEF ClearFails
<1> QED
  BY <1>1, <1>2, <1>3, <1>4, <1>5, <1>6, <1>7, <1>8, <1>9, <1>10, StillOrNot

-------------------------------------------------------------------------------
(* The objects of the groups and cases: finitely many, and the copies of a   *)
(* case in one group are numbered without gaps.                              *)
Copies == \A o \in DOMAIN stats : \A i \in 0..o.copy :
             [of |-> o.of, case |-> o.case, copy |-> i] \in DOMAIN stats

Objects ==
    /\ DataTypeOK /\ Copies
    /\ IsFiniteSet(DOMAIN groups) /\ IsFiniteSet(DOMAIN stats) /\ IsFiniteSet(test_cases)

LEMMA FiniteHasMax ==
    ASSUME NEW S \in SUBSET Nat, S # {}, IsFiniteSet(S)
    PROVE  \E n \in S : \A m \in S : m <= n
<1> DEFINE above(n) == {m \in S : m > n}
           counts == {Cardinality(above(n)) : n \in S}
<1>1. \A n \in S : IsFiniteSet(above(n)) /\ Cardinality(above(n)) \in Nat
  BY FS_Subset, FS_CardinalityType
<1>2. counts \subseteq Nat /\ counts # {}
  BY <1>1
<1>3. PICK k \in counts : \A l \in counts : ~(<<l, k>> \in OpToRel(<, Nat))
  BY <1>2, NatLessThanWellFounded, WFMin
<1>4. PICK n \in S : k = Cardinality(above(n))
  BY <1>3
<1>5. ASSUME NEW m \in S, ~(m <= n) PROVE FALSE
  <2>1. m \in Nat /\ n \in Nat /\ m > n
    BY <1>5
  <2>2. m \in above(n) /\ m \notin above(m) /\ above(m) \subseteq above(n)
    <3>1. m \in above(n) /\ m \notin above(m)
      BY <2>1
    <3>2. ASSUME NEW x \in above(m) PROVE x \in above(n)
      <4>1. x \in S /\ x \in Nat /\ x > m
        OBVIOUS
      <4> QED
        BY <2>1, <4>1
    <3> QED
      BY <3>1, <3>2
  <2>3. Cardinality(above(m)) < Cardinality(above(n))
    BY <1>1, <2>2, FS_Subset
  <2>4. Cardinality(above(m)) \in counts /\ k \in Nat
    BY <1>2, <1>3
  <2> QED
    BY <1>1, <1>3, <1>4, <2>3, <2>4 DEF OpToRel
<1> QED
  BY <1>5

(* A new group has its own place in the list.                                *)
LEMMA NextGenIsNew ==
    ASSUME Objects
    PROVE  NextGen \in Nat /\ \A g \in DOMAIN groups : g.gen # NextGen
<1>1. Gens \subseteq Nat
  BY DEF Objects, DataTypeOK, Gens, GroupId
<1>2. IsFiniteSet(Gens)
  <2> DEFINE f == [g \in DOMAIN groups |-> g.gen]
  <2>1. f \in Surjection(DOMAIN groups, Gens)
    <3>1. f \in [DOMAIN groups -> Gens] /\ \A n \in Gens : \E g \in DOMAIN groups : f[g] = n
      BY DEF Gens
    <3> QED
      BY <3>1, Fun_IsSurj
  <2> QED
    BY <2>1, FS_Surjection DEF Objects
<1>3. CASE Gens = {}
  BY <1>3 DEF NextGen, Gens
<1>4. CASE Gens # {}
  <2> DEFINE last == CHOOSE n \in Gens : \A m \in Gens : m <= n
  <2>1. last \in Gens /\ \A m \in Gens : m <= last
    BY <1>1, <1>2, <1>4, FiniteHasMax
  <2>2. NextGen = 1 + last
    BY <1>4 DEF NextGen
  <2>3. \A g \in DOMAIN groups : g.gen \in Gens
    BY DEF Gens
  <2> HIDE DEF last
  <2> QED
    BY <1>1, <2>1, <2>2, <2>3
<1> QED
  BY <1>3, <1>4

(* A new case object is a copy that its group does not have.                 *)
LEMMA NewCaseIsNew ==
    ASSUME Objects, NEW g, NEW c
    PROVE  /\ NewCase(g, c).of = g /\ NewCase(g, c).case = c /\ NewCase(g, c).copy \in Nat
           /\ NewCase(g, c) \notin DOMAIN stats
           /\ \A i \in 0..NewCase(g, c).copy - 1 :
                 [of |-> g, case |-> c, copy |-> i] \in DOMAIN stats
<1> DEFINE same == {o \in CasesOf(g) : o.case = c}
           K == {o.copy : o \in same}
           f == [o \in same |-> o.copy]
<1>1. same \subseteq DOMAIN stats /\ IsFiniteSet(same)
  BY FS_Subset DEF Objects, CasesOf
<1>2. \A o \in same : o \in CaseId /\ o = [of |-> g, case |-> c, copy |-> o.copy]
  BY DEF Objects, DataTypeOK, CasesOf, CaseId
<1>3. K \subseteq Nat
  BY <1>2 DEF CaseId
<1>4. f \in Bijection(same, K)
  <2>1. f \in [same -> K]
    OBVIOUS
  <2>2. \A o, q \in same : f[o] = f[q] => o = q
    BY <1>2
  <2>3. \A n \in K : \E o \in same : f[o] = n
    OBVIOUS
  <2> QED
    BY <2>1, <2>2, <2>3, Fun_IsBij
<1>5. IsFiniteSet(K) /\ Cardinality(K) = Cardinality(same)
  BY <1>1, <1>4, Fun_ExistsBij, FS_Bijection
<1>6. \A n \in K : \A i \in 0..n : i \in K
  <2> SUFFICES ASSUME NEW o \in same, NEW i \in 0..o.copy PROVE i \in K
    OBVIOUS
  <2>1. [of |-> g, case |-> c, copy |-> i] \in same
    BY <1>1, <1>2 DEF Objects, Copies, CasesOf
  <2> QED
    BY <2>1
<1>7. \E n \in Nat : Cardinality(K) = n /\ \A i \in Nat : i \in K <=> i < n
  <2>1. CASE K = {}
    BY <2>1, FS_EmptySet
  <2>2. CASE K # {}
    <3>1. PICK m \in K : \A i \in K : i <= m
      BY <1>3, <1>5, <2>2, FiniteHasMax
    <3>2. m \in Nat /\ K = 0..m
      BY <1>3, <1>6, <3>1
    <3>3. Cardinality(0..m) = m + 1
      BY <3>2, FS_Interval
    <3> HIDE DEF K
    <3> QED
      BY <3>2, <3>3
  <2> QED
    BY <2>1, <2>2
<1>8. PICK n \in Nat : Cardinality(same) = n /\ \A i \in Nat : i \in K <=> i < n
  BY <1>5, <1>7
<1>9. NewCase(g, c) = [of |-> g, case |-> c, copy |-> n]
  BY <1>8 DEF NewCase
<1>10. \A i \in Nat : i < n => [of |-> g, case |-> c, copy |-> i] \in DOMAIN stats
  <2> SUFFICES ASSUME NEW i \in Nat, i < n
               PROVE  [of |-> g, case |-> c, copy |-> i] \in DOMAIN stats
    OBVIOUS
  <2>1. PICK o \in same : o.copy = i
    BY <1>8
  <2> QED
    BY <1>1, <1>2, <2>1
<1>11. [of |-> g, case |-> c, copy |-> n] \notin DOMAIN stats
  <2> SUFFICES ASSUME [of |-> g, case |-> c, copy |-> n] \in DOMAIN stats PROVE n \in K
    BY <1>8
  <2>1. [of |-> g, case |-> c, copy |-> n] \in same
    BY DEF CasesOf
  <2> QED
    BY <2>1
<1> QED
  BY <1>9, <1>10, <1>11

(* A step of the task makes no object and removes none.                      *)
LEMMA StepKeepsObjects == Objects /\ RunnerInv /\ Step => Objects'
<1> SUFFICES ASSUME Objects, RunnerInv, Step PROVE Objects'
  OBVIOUS
<1>1. DOMAIN groups' = DOMAIN groups /\ DOMAIN stats' = DOMAIN stats
      /\ test_cases' = test_cases
  <2>1. CASE Still
    BY <2>1, StillData DEF dataVars
  <2>2. CASE PickCity \/ PickCityLookup
    BY <2>2 DEF PickCity, PickCityLookup, Renamed
  <2>3. CASE AddRun \/ FailRun
    BY <2>3 DEF AddRun, FailRun, unmovedData
  <2>4. CASE FailGroup \/ FailGroupDividesByZero
    BY <2>4 DEF FailGroup, FailGroupDividesByZero, CountFailures, MarkFailing
  <2>5. CASE FailCase \/ FailCaseLookup
    BY <2>5 DEF FailCase, FailCaseLookup, MarkCase, unmovedData
  <2>6. CASE ClearFails
    BY <2>6 DEF ClearFails
  <2> QED
    BY <2>1, <2>2, <2>3, <2>4, <2>5, <2>6, StillOrNot
<1>2. DataTypeOK'
  BY StepKeepsData
<1> QED
  BY <1>1, <1>2 DEF Objects, Copies

-------------------------------------------------------------------------------
(* The operations under Runner._clock keep the types.                        *)
LEMMA RemoveGroupsKeeps ==
    ASSUME Objects, NEW pairs, remove_groups(pairs) \/ remove_groups_lookup(pairs)
    PROVE  Objects'
<1>1. CASE remove_groups(pairs)
  <2> DEFINE gone == UNION {CasesOf(g) : g \in Victims(pairs)}
  <2>1. /\ groups' = Without(groups, Victims(pairs)) /\ stats' = Without(stats, gone)
        /\ group_index' = Without(group_index, VictimKeys(pairs))
        /\ case_index' = Without(case_index, VictimKeys(pairs))
        /\ UNCHANGED <<test_cases, failing_cases>>
    BY <1>1 DEF remove_groups
  <2>2. \A o \in DOMAIN stats : o \in gone <=> o.of \in Victims(pairs)
    BY DEF CasesOf, Objects, DataTypeOK
  <2>3. \A o \in DOMAIN stats' : o \in DOMAIN stats /\ o.of \in DOMAIN groups'
    BY <2>1, <2>2 DEF Without, Objects, DataTypeOK
  <2>4. DataTypeOK'
    BY <2>1, <2>3 DEF Without, Objects, DataTypeOK
  <2>5. Copies'
    BY <2>1, <2>2 DEF Without, Objects, Copies
  <2>6. IsFiniteSet(DOMAIN groups') /\ IsFiniteSet(DOMAIN stats')
    BY <2>1, FS_Subset DEF Without, Objects
  <2> QED
    BY <2>1, <2>4, <2>5, <2>6 DEF Objects
<1>2. CASE remove_groups_lookup(pairs)
  BY <1>2 DEF remove_groups_lookup, Without, Objects, DataTypeOK, Copies
<1> QED
  BY <1>1, <1>2

LEMMA RemoveCasesKeeps ==
    ASSUME Objects, NEW cases, remove_cases(cases)
    PROVE  Objects'
BY FS_Subset DEF remove_cases, Objects, DataTypeOK, Copies

(* What add_groups and add_cases add to the list.                            *)
LEMMA ImageIsFinite ==
    ASSUME NEW S, IsFiniteSet(S), NEW f, DOMAIN f = S
    PROVE  IsFiniteSet({f[x] : x \in S})
<1> DEFINE T == {f[x] : x \in S}
           h == [x \in S |-> f[x]]
<1>1. h \in [S -> T] /\ \A y \in T : \E x \in S : h[x] = y
  OBVIOUS
<1>2. h \in Surjection(S, T)
  BY <1>1, Fun_IsSurj
<1> QED
  BY <1>2, FS_Surjection

(* The new case objects of given groups.                                     *)
LEMMA NewCasesAre ==
    ASSUME Objects, NEW gs, IsFiniteSet(gs), NEW cases, IsFiniteSet(cases)
    PROVE  IsFiniteSet({NewCase(g, c) : g \in gs, c \in cases})
<1> DEFINE new == {NewCase(g, c) : g \in gs, c \in cases}
           all == gs \X cases
           f == [x \in all |-> NewCase(x[1], x[2])]
<1>1. IsFiniteSet(all)
  BY FS_Product
<1>2. DOMAIN f = all /\ \A x \in all : f[x] = NewCase(x[1], x[2])
  OBVIOUS
<1>3. \A x \in all : x[1] \in gs /\ x[2] \in cases
  OBVIOUS
<1>4. \A g \in gs, c \in cases :
        \E x \in all : x[1] = g /\ x[2] = c
  <2> SUFFICES ASSUME NEW g \in gs, NEW c \in cases PROVE \E x \in all : x[1] = g /\ x[2] = c
    OBVIOUS
  <2> <<g, c>> \in all /\ <<g, c>>[1] = g /\ <<g, c>>[2] = c
    OBVIOUS
  <2> QED
    OBVIOUS
<1> HIDE DEF f, all
<1>5. IsFiniteSet({f[x] : x \in all})
  BY <1>1, <1>2, ImageIsFinite
<1>6. {f[x] : x \in all} = new
  BY <1>2, <1>3, <1>4
<1> HIDE DEF new
<1>7. IsFiniteSet(new)
  BY <1>5, <1>6
<1> QED
  BY <1>7 DEF new

(* New objects for some groups and cases keep what the others have.          *)
LEMMA AddedStats ==
    ASSUME Objects, NEW gs \in SUBSET GroupId, IsFiniteSet(gs), DOMAIN groups' = DOMAIN groups \cup gs,
           NEW cases \in SUBSET Cases, IsFiniteSet(cases),
           NEW new, \A o : o \in new <=> \E g \in gs, c \in cases : o = NewCase(g, c),
           stats' = Overlay(stats, [o \in new |-> NewStats(o.case)])
    PROVE  /\ IsFiniteSet(DOMAIN stats') /\ DOMAIN stats' \subseteq CaseId
           /\ \A o \in DOMAIN stats' : o.of \in DOMAIN groups'
           /\ stats' \in [DOMAIN stats' -> [run: Nat, fail: Int]]
           /\ Copies'
           /\ \A g \in gs, c \in cases : NewCase(g, c) \in DOMAIN stats' \ DOMAIN stats
           /\ \A o \in DOMAIN stats : o \in DOMAIN stats' /\ stats'[o] = stats[o]
<1>1. /\ DOMAIN stats' = DOMAIN stats \cup new
      /\ \A o \in new : stats'[o] = NewStats(o.case)
      /\ \A o \in DOMAIN stats \ new : stats'[o] = stats[o]
  BY DEF Overlay
<1>2. ASSUME NEW g \in gs, NEW c \in cases
      PROVE  /\ NewCase(g, c) \in CaseId /\ NewCase(g, c).of = g /\ NewCase(g, c).case = c
             /\ NewCase(g, c) \notin DOMAIN stats
             /\ \A i \in 0..NewCase(g, c).copy : 
                  [of |-> g, case |-> c, copy |-> i] \in DOMAIN stats \cup {NewCase(g, c)}
  <2>1. /\ NewCase(g, c).of = g /\ NewCase(g, c).case = c /\ NewCase(g, c).copy \in Nat
        /\ NewCase(g, c) \notin DOMAIN stats
        /\ \A i \in 0..NewCase(g, c).copy - 1 :
              [of |-> g, case |-> c, copy |-> i] \in DOMAIN stats
    BY NewCaseIsNew
  <2>2. NewCase(g, c) = [of |-> g, case |-> c, copy |-> NewCase(g, c).copy]
    BY DEF NewCase
  <2>3. NewCase(g, c) \in CaseId
    BY <2>1, <2>2 DEF CaseId
  <2> DEFINE n == NewCase(g, c).copy
  <2>4. ASSUME NEW i \in 0..n
        PROVE  [of |-> g, case |-> c, copy |-> i] \in DOMAIN stats \cup {NewCase(g, c)}
    <3>1. i \in 0..n - 1 \/ i = n
      BY <2>1
    <3> QED
      BY <2>1, <2>2, <3>1
  <2> QED
    BY <2>1, <2>3, <2>4
<1>3. IsFiniteSet(new)
  <2>1. new = {NewCase(g, c) : g \in gs, c \in cases}
    OBVIOUS
  <2> QED
    BY <2>1, NewCasesAre
<1>4. IsFiniteSet(DOMAIN stats')
  BY <1>1, <1>3, FS_Union DEF Objects
<1>5. \A o \in new : o \in CaseId /\ o.of \in gs /\ o.case \in cases /\ o \notin DOMAIN stats
  BY <1>2
<1>6. DOMAIN stats' \subseteq CaseId /\ \A o \in DOMAIN stats' : o.of \in DOMAIN groups'
  BY <1>1, <1>5 DEF Objects, DataTypeOK
<1>7. stats' \in [DOMAIN stats' -> [run: Nat, fail: Int]]
  <2>1. \A c : NewStats(c) \in [run: Nat, fail: Int]
    BY DEF NewStats
  <2>2. \A o \in DOMAIN stats' : stats'[o] \in [run: Nat, fail: Int]
    BY <1>1, <1>5, <2>1 DEF Objects, DataTypeOK
  <2>3. stats' = [o \in DOMAIN stats' |-> stats'[o]]
    BY DEF Overlay
  <2> QED
    BY <2>2, <2>3
<1>8. Copies'
  <2> SUFFICES ASSUME NEW o \in DOMAIN stats', NEW i \in 0..o.copy
               PROVE  [of |-> o.of, case |-> o.case, copy |-> i] \in DOMAIN stats'
    BY DEF Copies
  <2>1. CASE o \in DOMAIN stats
    BY <1>1, <2>1 DEF Objects, Copies
  <2>2. CASE o \in new
    BY <1>1, <1>2, <2>2
  <2> QED
    BY <1>1, <2>1, <2>2
<1>9. \A g \in gs, c \in cases : NewCase(g, c) \in DOMAIN stats' \ DOMAIN stats
  BY <1>1, <1>2
<1> QED
  BY <1>1, <1>4, <1>5, <1>6, <1>7, <1>8, <1>9

LEMMA AddGroupsKeeps ==
    ASSUME Objects, NEW pairs \in SUBSET Pairs, IsFiniteSet(pairs), add_groups(pairs)
    PROVE  Objects'
<1> DEFINE new == [p \in pairs |-> [pair |-> p, gen |-> NextGen]]
           gs == {new[p] : p \in pairs}
           keys == {Plain(p) : p \in pairs}
<1>1. /\ groups' = Overlay(groups, [g \in gs |-> [city |-> NoCity, failing |-> FALSE]])
      /\ stats' = Overlay(stats, [o \in {NewCase(new[p], c) : p \in pairs, c \in test_cases}
                                    |-> NewStats(o.case)])
      /\ group_index' = Overlay(group_index, [k \in keys |-> new[k.pair]])
      /\ case_index' = Overlay(case_index,
                          [k \in keys |-> [c \in test_cases |-> NewCase(new[k.pair], c)]])
      /\ UNCHANGED <<test_cases, failing_cases>>
  BY DEF add_groups
<1>2. \A p \in pairs : new[p] \in GroupId
  BY NextGenIsNew DEF GroupId
<1>3. gs \in SUBSET GroupId /\ IsFiniteSet(gs)
  BY <1>2, ImageIsFinite
<1> DEFINE objs == {NewCase(new[p], c) : p \in pairs, c \in test_cases}
<1>4. \A o : o \in objs <=> \E g \in gs, c \in test_cases : o = NewCase(g, c)
  <2> HIDE DEF new
  <2> QED
    OBVIOUS
<1>5. \A k \in keys : k \in Key /\ k.pair \in pairs
  BY DEF Plain, Key
<1>c. stats' = Overlay(stats, [o \in objs |-> NewStats(o.case)])
  BY <1>1
<1> HIDE DEF new, gs, keys, objs
<1>6. /\ DOMAIN groups' = DOMAIN groups \cup gs
      /\ \A g \in gs : groups'[g] = [city |-> NoCity, failing |-> FALSE]
      /\ \A g \in DOMAIN groups \ gs : groups'[g] = groups[g]
  BY <1>1 DEF Overlay
<1>7. /\ IsFiniteSet(DOMAIN stats') /\ DOMAIN stats' \subseteq CaseId
      /\ \A o \in DOMAIN stats' : o.of \in DOMAIN groups'
      /\ stats' \in [DOMAIN stats' -> [run: Nat, fail: Int]]
      /\ Copies'
  <2>1. test_cases \in SUBSET Cases /\ IsFiniteSet(test_cases)
    BY DEF Objects, DataTypeOK
  <2> QED
    BY <1>c, <1>3, <1>4, <1>6, <2>1, AddedStats
<1>8. groups' \in [DOMAIN groups' -> GroupRecord]
  <2>1. ASSUME NEW g \in DOMAIN groups' PROVE groups'[g] \in GroupRecord
    <3>1. CASE g \in gs
      <4>1. [city |-> NoCity, failing |-> FALSE] \in GroupRecord
        BY DEF GroupRecord
      <4> QED
        BY <1>6, <3>1, <4>1
    <3>2. CASE g \in DOMAIN groups \ gs
      BY <1>6, <3>2 DEF Objects, DataTypeOK, GroupRecord
    <3> QED
      BY <1>6, <3>1, <3>2
  <2> QED
    BY <1>1, <2>1 DEF Overlay
<1>9. DOMAIN group_index' \subseteq Key /\ group_index' \in [DOMAIN group_index' -> GroupId]
  <2>1. /\ DOMAIN group_index' = DOMAIN group_index \cup keys
        /\ \A k \in keys : group_index'[k] = new[k.pair]
        /\ \A k \in DOMAIN group_index \ keys : group_index'[k] = group_index[k]
    BY <1>1 DEF Overlay
  <2>2. \A k \in DOMAIN group_index' : group_index'[k] \in GroupId
    BY <1>2, <1>5, <2>1 DEF Objects, DataTypeOK
  <2> QED
    BY <1>1, <1>5, <2>1, <2>2 DEF Overlay, Objects, DataTypeOK
<1>10. /\ DOMAIN case_index' \subseteq Key
       /\ \A k \in DOMAIN case_index' :
            /\ DOMAIN case_index'[k] \subseteq Cases
            /\ case_index'[k] \in [DOMAIN case_index'[k] -> CaseId]
  <2>1. /\ DOMAIN case_index' = DOMAIN case_index \cup keys
        /\ \A k \in keys :
             case_index'[k] = [c \in test_cases |-> NewCase(new[k.pair], c)]
        /\ \A k \in DOMAIN case_index \ keys : case_index'[k] = case_index[k]
    BY <1>1 DEF Overlay
  <2>2. \A p \in pairs, c \in test_cases : NewCase(new[p], c) \in CaseId
    <3> SUFFICES ASSUME NEW p \in pairs, NEW c \in test_cases PROVE NewCase(new[p], c) \in CaseId
      OBVIOUS
    <3>1. NewCase(new[p], c) = [of |-> new[p], case |-> c, copy |-> NewCase(new[p], c).copy]
      BY DEF NewCase
    <3>2. NewCase(new[p], c).copy \in Nat /\ c \in Cases
      BY NewCaseIsNew DEF Objects, DataTypeOK
    <3> QED
      BY <1>2, <3>1, <3>2 DEF CaseId
  <2>3. test_cases \subseteq Cases
    BY DEF Objects, DataTypeOK
  <2> QED
    BY <1>5, <2>1, <2>2, <2>3 DEF Objects, DataTypeOK
<1>11. IsFiniteSet(DOMAIN groups')
  BY <1>3, <1>6, FS_Union DEF Objects
<1>12. DOMAIN groups' \subseteq GroupId
  BY <1>3, <1>6 DEF Objects, DataTypeOK
<1>13. DataTypeOK'
  BY <1>1, <1>7, <1>8, <1>9, <1>10, <1>12 DEF Objects, DataTypeOK, GroupRecord
<1> QED
  BY <1>1, <1>7, <1>11, <1>13 DEF Objects

(* Of the groups with a key there is a last one.                             *)
LEMMA LastIsOne ==
    ASSUME Objects, NEW g \in DOMAIN groups
    PROVE  LastOf(Keyed(KeyOf(g))) \in Keyed(KeyOf(g))
<1> DEFINE gs == Keyed(KeyOf(g))
           f == [h \in gs |-> h.gen]
           gens == {f[h] : h \in gs}
<1>1. g \in gs /\ gs \subseteq DOMAIN groups /\ gs \subseteq GroupId
  BY DEF Keyed, Objects, DataTypeOK
<1>2. IsFiniteSet(gens)
  <2>1. IsFiniteSet(gs)
    BY <1>1, FS_Subset DEF Objects
  <2> QED
    BY <2>1, ImageIsFinite
<1>3. gens \in SUBSET Nat /\ gens # {}
  BY <1>1 DEF GroupId
<1>4. PICK n \in gens : \A m \in gens : m <= n
  BY <1>2, <1>3, FiniteHasMax
<1>5. PICK last \in gs : last.gen = n
  BY <1>4
<1>6. \A h \in gs : h.gen <= last.gen
  BY <1>4, <1>5
<1> QED
  BY <1>5, <1>6 DEF LastOf

LEMMA AddCasesKeeps ==
    ASSUME Objects, NEW cases \in SUBSET Cases, IsFiniteSet(cases), add_cases(cases)
    PROVE  Objects'
<1> DEFINE objs == {NewCase(g, c) : g \in DOMAIN groups, c \in cases}
           keys == {KeyOf(g) : g \in DOMAIN groups}
<1>1. /\ stats' = Overlay(stats, [o \in objs |-> NewStats(o.case)])
      /\ case_index' = Overlay(case_index, [k \in keys |-> Reindexed(k, cases)])
      /\ test_cases' = test_cases \cup cases
      /\ UNCHANGED <<groups, group_index, failing_cases>>
  BY DEF add_cases
<1>2. \A o : o \in objs <=> \E g \in DOMAIN groups, c \in cases : o = NewCase(g, c)
  OBVIOUS
<1>3. \A k \in keys : k \in Key /\ LastOf(Keyed(k)) \in DOMAIN groups
  <2> SUFFICES ASSUME NEW g \in DOMAIN groups
               PROVE  KeyOf(g) \in Key /\ LastOf(Keyed(KeyOf(g))) \in DOMAIN groups
    OBVIOUS
  <2>1. LastOf(Keyed(KeyOf(g))) \in DOMAIN groups
    BY LastIsOne DEF Keyed
  <2>2. g \in GroupId /\ groups[g].city \in Cities \cup {NoCity}
    BY DEF Objects, DataTypeOK
  <2> QED
    BY <2>1, <2>2 DEF KeyOf, Key, GroupId
<1>4. \A g \in DOMAIN groups, c \in cases : NewCase(g, c) \in CaseId
  <2> SUFFICES ASSUME NEW g \in DOMAIN groups, NEW c \in cases PROVE NewCase(g, c) \in CaseId
    OBVIOUS
  <2>1. NewCase(g, c) = [of |-> g, case |-> c, copy |-> NewCase(g, c).copy]
    BY DEF NewCase
  <2>2. NewCase(g, c).copy \in Nat /\ g \in GroupId /\ c \in Cases
    BY NewCaseIsNew DEF Objects, DataTypeOK
  <2> QED
    BY <2>1, <2>2 DEF CaseId
<1> HIDE DEF objs, keys
<1>5. /\ IsFiniteSet(DOMAIN stats') /\ DOMAIN stats' \subseteq CaseId
      /\ \A o \in DOMAIN stats' : o.of \in DOMAIN groups'
      /\ stats' \in [DOMAIN stats' -> [run: Nat, fail: Int]]
      /\ Copies'
  <2>1. DOMAIN groups \in SUBSET GroupId /\ IsFiniteSet(DOMAIN groups)
        /\ DOMAIN groups' = DOMAIN groups \cup DOMAIN groups
    BY <1>1 DEF Objects, DataTypeOK
  <2> QED
    BY <1>1, <1>2, <2>1, AddedStats
<1>6. /\ DOMAIN case_index' = DOMAIN case_index \cup keys
      /\ \A k \in keys : case_index'[k] = Reindexed(k, cases)
      /\ \A k \in DOMAIN case_index \ keys : case_index'[k] = case_index[k]
  BY <1>1 DEF Overlay
<1>7. ASSUME NEW k \in keys
      PROVE  /\ DOMAIN Reindexed(k, cases) \subseteq Cases
             /\ Reindexed(k, cases) \in [DOMAIN Reindexed(k, cases) -> CaseId]
  <2> DEFINE old == IF k \in DOMAIN case_index THEN case_index[k] ELSE Empty
  <2>1. DOMAIN old \subseteq Cases /\ \A c \in DOMAIN old : old[c] \in CaseId
    BY DEF Objects, DataTypeOK, Empty
  <2>2. Reindexed(k, cases) = Overlay(old, [c \in cases |-> NewCase(LastOf(Keyed(k)), c)])
    BY DEF Reindexed
  <2> HIDE DEF old
  <2> QED
    BY <1>3, <1>4, <2>1, <2>2 DEF Overlay
<1>8. /\ DOMAIN case_index' \subseteq Key
      /\ \A k \in DOMAIN case_index' :
           /\ DOMAIN case_index'[k] \subseteq Cases
           /\ case_index'[k] \in [DOMAIN case_index'[k] -> CaseId]
  BY <1>3, <1>6, <1>7 DEF Objects, DataTypeOK
<1>9. DataTypeOK'
  BY <1>1, <1>5, <1>8 DEF Objects, DataTypeOK
<1>10. IsFiniteSet(test_cases')
  BY <1>1, FS_Union DEF Objects
<1> QED
  BY <1>1, <1>5, <1>9, <1>10 DEF Objects

-------------------------------------------------------------------------------
(* While no city is looked up, and cases are not removed from the groups:    *)
(* every group has the key of its configuration and all test cases, and the  *)
(* test is one of them.                                                      *)
Complete ==
    /\ \A g \in DOMAIN groups : groups[g].city = NoCity
    /\ DOMAIN group_index = {KeyOf(g) : g \in DOMAIN groups}
    /\ DOMAIN case_index = DOMAIN group_index
    /\ \A k \in DOMAIN case_index : DOMAIN case_index[k] = test_cases
    /\ \A o \in DOMAIN stats : o.case \in test_cases
Provided == \A c \in test_cases : ProviderOf[c] \in providers
AtHand ==
    /\ pc # "city" /\ outcome # "lookup"
    /\ group # None => group \in DOMAIN group_index
    /\ pc \in Testing => group \in DOMAIN group_index /\ case \in test_cases

LEMMA StepScope ==
    Step => pc # "off" /\ UNCHANGED <<confVars, mode, repeats, test_cases>>
<1> SUFFICES ASSUME Step PROVE pc # "off" /\ UNCHANGED <<confVars, mode, repeats, test_cases>>
  OBVIOUS
<1>1. CASE Still
  BY <1>1 DEF Still, FirstStep, FinishOnce, SelectCrash, NoOption, SelectNext, PickCityRaises,
    ContainerReady, ProviderGone, LoggedIn, Tested, TestFails, EnvRaises, Sent,
    CaseLookupRaises, Delayed, FailGroupLookup, Cancelled, CancelLostInLogin,
    CancelLostInCities, Selecting, NextRepeat, Goto, dataVars
<1>2. CASE \/ PickCity \/ PickCityLookup \/ AddRun \/ FailRun \/ FailGroup
           \/ FailGroupDividesByZero \/ FailCase \/ FailCaseLookup \/ ClearFails
  BY <1>2 DEF PickCity, PickCityLookup, AddRun, FailRun, FailGroup, FailGroupDividesByZero,
    FailCase, FailCaseLookup, ClearFails, NextRepeat, Goto, unmovedData
<1> QED
  BY <1>1, <1>2, StillOrNot

(* A step that is not about cities leaves the indexes and what is listed.    *)
LEMMA StepKeepsIndexes ==
    ASSUME DataTypeOK, pc # "city", Step
    PROVE  /\ UNCHANGED <<group_index, case_index, test_cases>>
           /\ DOMAIN groups' = DOMAIN groups /\ DOMAIN stats' = DOMAIN stats
           /\ \A g \in DOMAIN groups : groups'[g].city = groups[g].city
<1>a. groups \in [DOMAIN groups -> GroupRecord]
  BY DEF DataTypeOK, GroupRecord
<1>1. CASE Still
  BY <1>1, StillData DEF dataVars
<1>2. CASE PickCity \/ PickCityLookup
  BY <1>2 DEF PickCity, PickCityLookup
<1>3. CASE AddRun \/ FailRun
  BY <1>3 DEF AddRun, FailRun, unmovedData
<1>4. CASE FailGroup \/ FailGroupDividesByZero
  <2>1. PICK g, objs : MarkFailing(g, objs)
    BY <1>4 DEF FailGroup, FailGroupDividesByZero
  <2>2. DOMAIN groups' = DOMAIN groups
        /\ \A h \in DOMAIN groups : groups'[h].city = groups[h].city
    BY <1>a, <2>1 DEF MarkFailing, GroupRecord
  <2> QED
    BY <1>4, <2>2 DEF FailGroup, FailGroupDividesByZero, CountFailures
<1>5. CASE FailCase \/ FailCaseLookup
  BY <1>5 DEF FailCase, FailCaseLookup, MarkCase, unmovedData
<1>6. CASE ClearFails
  BY <1>a, <1>6 DEF ClearFails, GroupRecord
<1> QED
  BY <1>1, <1>2, <1>3, <1>4, <1>5, <1>6, StillOrNot

LEMMA StepComplete ==
    ASSUME DataTypeOK, Complete, pc # "city", Step
    PROVE  Complete'
<1>1. {KeyOf(g) : g \in DOMAIN groups}' = {KeyOf(g) : g \in DOMAIN groups}
  BY StepKeepsIndexes DEF KeyOf
<1> QED
  BY <1>1, StepKeepsIndexes DEF Complete

(* What the task looks up is there, and its group and case stay at hand.     *)
LEMMA StepAtHand ==
    ASSUME RunnerInv, Complete, Provided, AtHand, ~common_cities, Step
    PROVE  AtHand'
<1>a. UNCHANGED <<group_index, case_index, test_cases>>
  BY StepKeepsIndexes DEF AtHand, RunnerInv, RunnerTypeOK
<1>b. pc \in Points /\ None \notin Key
  BY RunnerAssumption DEF RunnerInv, RunnerTypeOK, TaskTypeOK
<1>c. pc \in Testing =>
        /\ group \in DOMAIN group_index /\ case \in test_cases /\ case \in Cases
        /\ Found(group, case) /\ ProviderOf[case] \in providers
        /\ Holders(case) = DOMAIN case_index
  <2> SUFFICES ASSUME pc \in Testing
               PROVE  /\ group \in DOMAIN group_index /\ case \in test_cases /\ case \in Cases
                      /\ Found(group, case) /\ ProviderOf[case] \in providers
                      /\ Holders(case) = DOMAIN case_index
    OBVIOUS
  <2>1. group \in DOMAIN group_index /\ case \in test_cases /\ case \in Cases
    BY DEF AtHand, RunnerInv, Control
  <2> QED
    BY <2>1 DEF Complete, Found, Holders, Provided
<1>d. ASSUME NEW how, End(how), how # "lookup" PROVE AtHand'
  BY <1>d DEF End, AtHand, Testing, Points
<1>1. CASE FirstStep \/ NoOption \/ ClearFails
  BY <1>1, <1>a DEF FirstStep, NoOption, ClearFails, RoundGroup, AtHand, Testing, Points
<1>2. CASE FinishOnce \/ SelectCrash \/ PickCityRaises \/ EnvRaises
           \/ FailGroupDividesByZero \/ Cancelled
  <2>1. \E how \in Outcomes \ {"lookup"} : End(how)
    BY <1>2 DEF FinishOnce, SelectCrash, PickCityRaises, EnvRaises, FailGroupDividesByZero,
                Cancelled, Outcomes
  <2> QED
    BY <2>1, <1>d
<1>3. CASE SelectNext
  <2>1. PICK o \in Options :
          /\ \/ group' = RoundGroup /\ RoundGroup # None
             \/ group' = KeyOf(o.of)
          /\ pc' = "env" /\ case' = o.case /\ outcome' = outcome
    BY <1>3 DEF SelectNext
  <2>2. o \in DOMAIN stats /\ o.of \in DOMAIN groups
    BY DEF Options, Pool, Uneven, Candidates, RunnerInv, RunnerTypeOK, DataTypeOK
  <2> QED
    BY <1>a, <2>1, <2>2 DEF AtHand, Complete, RoundGroup
<1>4. CASE PickCity \/ PickCityLookup \/ CancelLostInCities
  BY <1>4 DEF PickCity, PickCityLookup, CancelLostInCities, AtHand
<1>5. CASE ProviderGone \/ CaseLookupRaises \/ FailGroupLookup \/ FailCaseLookup
  BY <1>5, <1>c DEF ProviderGone, CaseLookupRaises, FailGroupLookup, FailCaseLookup, Testing,
                    Points
<1>6. CASE \/ ContainerReady \/ LoggedIn \/ Tested \/ TestFails \/ AddRun \/ Sent \/ FailRun
           \/ CancelLostInLogin
  <2>1. pc \in Testing /\ pc' # "city" /\ UNCHANGED <<group, case, outcome>>
    BY <1>6 DEF ContainerReady, LoggedIn, Tested, TestFails, AddRun, Sent, FailRun,
                CancelLostInLogin, Goto, Testing, Points
  <2> QED
    BY <1>a, <1>c, <2>1 DEF AtHand
<1>7. CASE Delayed \/ FailGroup \/ FailCase
  <2>1. pc \in Testing /\ NextRepeat
    BY <1>7 DEF Delayed, FailGroup, FailCase, Testing, Points
  <2> QED
    BY <1>a, <1>c, <2>1 DEF NextRepeat, AtHand, Testing, Points
<1> QED
  BY <1>1, <1>2, <1>3, <1>4, <1>5, <1>6, <1>7 DEF Step

===============================================================================
