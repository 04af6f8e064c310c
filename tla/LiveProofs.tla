------------------------------ MODULE LiveProofs ------------------------------
(*****************************************************************************)
(* Theorems of LiveRunner: what stays true of the indexes of the runner, and *)
(* of the counting, when groups, cases and providers are added and removed   *)
(* between any two awaits of a test, for any sets of them.                   *)
(*                                                                           *)
(* An index entry may lead to cases of two groups, when groups with one key  *)
(* came together by the cities they were given.  Then all but one of these   *)
(* groups are lost to the index and can never be removed again, so what the  *)
(* entry leads to stays in the list (Leads).                                 *)
(*****************************************************************************)
EXTENDS LiveRunner, StepProofs

Indexed == {group_index[k] : k \in DOMAIN group_index}

Leads(k, o) ==
    /\ o \in DOMAIN stats
    /\ o.of = group_index[k] \/ o.of \notin Indexed

Index ==
    /\ IndexSound
    /\ \A k \in DOMAIN case_index : \A c \in DOMAIN case_index[k] :
         /\ case_index[k][c].of.pair = k.pair /\ case_index[k][c].case = c
         /\ k \in DOMAIN group_index => Leads(k, case_index[k][c])

(* When groups and cases are only added and no city is looked up every group *)
(* stays complete, and the test is one of them.                              *)
OnlyAdding == "remove" \notin faults /\ ~common_cities
LiveInv == RunnerInv /\ Objects /\ Index /\ (OnlyAdding => Complete /\ AtHand /\ providers = Providers)

-------------------------------------------------------------------------------
LEMMA InitLiveInv == Init => LiveInv
<1> SUFFICES ASSUME Init PROVE LiveInv
  OBVIOUS
<1>1. DOMAIN Empty = {}
  BY DEF Empty
<1>2. DataTypeOK
  <2>1. Empty \in [{} -> {}] /\ \A S : Empty \in [DOMAIN Empty -> S]
    BY DEF Empty
  <2> QED
    BY <1>1, <2>1 DEF Init, DataTypeOK
<1>3. TaskTypeOK
  <2>1. common_cities \in BOOLEAN /\ faults \subseteq FaultKinds
    BY LiveAssumption DEF Init
  <2>2. sent \in [Pairs \X Cases -> Nat]
    BY DEF Init
  <2>3. /\ providers \subseteq Providers /\ pc \in Points /\ mode \in {"once", "continuous"}
        /\ repeats \in Nat \ {0} /\ runs \in Nat /\ left \in Nat
    BY DEF Init, Points
  <2>4. group \in Key \cup {None} /\ case \in Cases \cup {None} /\ outcome \in Outcomes
        /\ no_options \in BOOLEAN /\ cancelling \in BOOLEAN
    BY DEF Init, Outcomes
  <2> QED
    BY <2>1, <2>2, <2>3, <2>4 DEF TaskTypeOK
<1>4. RunnerInv
  BY <1>2, <1>3 DEF Init, RunnerInv, RunnerTypeOK, Control, Testing
<1>5. Objects
  BY <1>1, <1>2, FS_EmptySet DEF Init, Objects, Copies
<1>6. Index
  BY <1>1 DEF Init, Index, IndexSound
<1>7. Complete /\ AtHand
  BY <1>1 DEF Init, Complete, AtHand, Testing, Points
<1>8. providers = Providers
  BY DEF Init
<1> QED
  BY <1>4, <1>5, <1>6, <1>7, <1>8 DEF LiveInv

(* The edits keep the types.                                                 *)
LEMMA EditKeepsTypes ==
    ASSUME RunnerInv, Objects,
           AddGroup \/ RemoveGroup \/ AddCase \/ RemoveCase \/ EditProviders
    PROVE  RunnerInv' /\ Objects'
<1>1. Objects'
  <2>1. CASE AddGroup
    BY <2>1, FS_Singleton, AddGroupsKeeps DEF AddGroup
  <2>2. CASE RemoveGroup
    BY <2>2, RemoveGroupsKeeps DEF RemoveGroup
  <2>3. CASE AddCase
    BY <2>3, FS_Singleton, AddCasesKeeps DEF AddCase
  <2>4. CASE RemoveCase
    BY <2>4, RemoveCasesKeeps DEF RemoveCase
  <2>5. CASE EditProviders
    BY <2>5 DEF EditProviders, dataVars, Objects, DataTypeOK, Copies
  <2> QED
    BY <2>1, <2>2, <2>3, <2>4, <2>5
<1>2. UNCHANGED taskVars /\ common_cities' = common_cities /\ faults' = faults
      /\ providers' \subseteq Providers
  BY DEF AddGroup, RemoveGroup, AddCase, RemoveCase, EditProviders, Editing, Removing, confVars,
    RunnerInv, RunnerTypeOK, TaskTypeOK
<1> QED
  BY <1>1, <1>2 DEF Objects, RunnerInv, RunnerTypeOK, TaskTypeOK, Control, taskVars

-------------------------------------------------------------------------------
(* The indexes.                                                              *)
LEMMA IndexStays ==
    ASSUME Index, UNCHANGED <<group_index, case_index>>,
           DOMAIN groups' = DOMAIN groups, DOMAIN stats' = DOMAIN stats,
           \A g \in DOMAIN groups : groups'[g].city = groups[g].city
    PROVE  Index'
BY DEF Index, IndexSound, Leads, Indexed, KeyOf

(* random_city_check gives the group of the test a city.                     *)
LEMMA PickCityIndex ==
    ASSUME RunnerInv, Index, PickCity
    PROVE  Index'
<1>1. group \in DOMAIN group_index /\ group \in DOMAIN case_index /\ group \in Key
  BY DEF PickCity, RunnerInv, Control, Testing, Points
<1>2. PICK g : g = group_index[group]
  OBVIOUS
<1>3. PICK c \in Cities \cup {NoCity}, k \in Key :
        /\ Renamed(g, k)
        /\ k = [pair |-> group.pair, city |-> c]
  <2>1. PICK c \in Cities \cup {NoCity} : Renamed(g, [group EXCEPT !.city = c])
    BY <1>2 DEF PickCity
  <2>2. [group EXCEPT !.city = c] = [pair |-> group.pair, city |-> c]
    BY <1>1 DEF Key
  <2> QED
    BY <1>1, <2>1, <2>2 DEF Key
<1>4. g \in DOMAIN groups /\ KeyOf(g) = group
  BY <1>1, <1>2 DEF Index, IndexSound
<1>5. /\ DOMAIN groups' = DOMAIN groups /\ stats' = stats
      /\ groups'[g].city = k.city
      /\ \A h \in DOMAIN groups \ {g} : groups'[h] = groups[h]
  <2>1. groups[g] \in [city: Cities \cup {NoCity}, failing: BOOLEAN]
    BY <1>4 DEF RunnerInv, RunnerTypeOK, DataTypeOK
  <2> QED
    BY <1>3, <1>4, <2>1 DEF Renamed, PickCity
<1>6. /\ DOMAIN group_index' = (DOMAIN group_index \ {group}) \cup {k}
      /\ group_index'[k] = g
      /\ \A x \in DOMAIN group_index \ {group, k} : group_index'[x] = group_index[x]
  BY <1>3 DEF Renamed, With, Without
<1>7. /\ DOMAIN case_index' = (DOMAIN case_index \ {group}) \cup {k}
      /\ case_index'[k] = case_index[group]
      /\ \A x \in DOMAIN case_index \ {group, k} : case_index'[x] = case_index[x]
  BY <1>3 DEF Renamed, With, Without
<1>8. KeyOf(g)' = k
  BY <1>3, <1>4, <1>5 DEF KeyOf
<1>9. ASSUME NEW x \in DOMAIN group_index \ {group, k}
      PROVE  /\ group_index'[x] \in DOMAIN groups \ {g}
             /\ [pair |-> group_index'[x].pair, city |-> groups'[group_index'[x]].city] = x
  BY <1>4, <1>5, <1>6 DEF Index, IndexSound, KeyOf
<1>10. IndexSound'
  <2>1. DOMAIN group_index' \subseteq DOMAIN case_index'
    BY <1>6, <1>7 DEF Index, IndexSound
  <2>2. ASSUME NEW x \in DOMAIN group_index'
        PROVE  group_index'[x] \in DOMAIN groups' /\ KeyOf(group_index[x])' = x
    <3>1. CASE x = k
      BY <1>4, <1>5, <1>6, <1>8, <3>1 DEF KeyOf
    <3>2. CASE x # k
      BY <1>5, <1>6, <1>9, <3>2 DEF KeyOf
    <3> QED
      BY <3>1, <3>2
  <2>3. \A x \in DOMAIN group_index' : \A y \in DOMAIN case_index'[x] :
           case_index'[x][y] \in DOMAIN stats'
    BY <1>1, <1>5, <1>6, <1>7 DEF Index, IndexSound
  <2> QED
    BY <2>1, <2>2, <2>3 DEF IndexSound
<1>11. Indexed' \subseteq Indexed
  BY <1>1, <1>2, <1>6 DEF Indexed
<1>12. ASSUME NEW x \in DOMAIN case_index', NEW y \in DOMAIN case_index'[x]
       PROVE  /\ case_index'[x][y].of.pair = x.pair /\ case_index'[x][y].case = y
              /\ x \in DOMAIN group_index' => Leads(x, case_index[x][y])'
  <2>1. CASE x = k
    BY <1>1, <1>2, <1>3, <1>5, <1>6, <1>7, <1>11, <2>1 DEF Index, Leads
  <2>2. CASE x # k
    BY <1>5, <1>6, <1>7, <1>11, <2>2 DEF Index, Leads
  <2> QED
    BY <2>1, <2>2
<1> QED
  BY <1>10, <1>12 DEF Index

(* Every step of the task keeps the indexes sound.                           *)
LEMMA StepIndex == RunnerInv /\ Index /\ Step => Index'
<1> SUFFICES ASSUME RunnerInv, Index, Step PROVE Index'
  OBVIOUS
<1>a. groups \in [DOMAIN groups -> GroupRecord]
  BY DEF RunnerInv, RunnerTypeOK, DataTypeOK, GroupRecord
<1>1. CASE Still
  BY <1>1, StillData, IndexStays DEF dataVars
<1>2. CASE PickCity
  BY <1>2, PickCityIndex
<1>3. CASE PickCityLookup
  <2>1. group \notin DOMAIN group_index
    BY <1>3 DEF PickCityLookup, Index, IndexSound
  <2> QED
    BY <1>3, <2>1, IndexStays DEF PickCityLookup
<1>4. CASE AddRun \/ FailRun
  BY <1>4, IndexStays DEF AddRun, FailRun, unmovedData
<1>5. CASE FailGroup \/ FailGroupDividesByZero
  <2>1. PICK g, objs : MarkFailing(g, objs)
    BY <1>5 DEF FailGroup, FailGroupDividesByZero
  <2>2. DOMAIN groups' = DOMAIN groups
        /\ \A h \in DOMAIN groups : groups'[h].city = groups[h].city
    BY <1>a, <2>1 DEF MarkFailing, GroupRecord
  <2>3. DOMAIN stats' = DOMAIN stats /\ UNCHANGED <<group_index, case_index>>
    BY <1>5 DEF FailGroup, FailGroupDividesByZero, CountFailures
  <2> QED
    BY <2>2, <2>3, IndexStays
<1>6. CASE FailCase \/ FailCaseLookup
  BY <1>6, IndexStays DEF FailCase, FailCaseLookup, MarkCase, unmovedData
<1>7. CASE ClearFails
  <2>1. \A h \in DOMAIN groups : groups'[h].city = groups[h].city
    BY <1>a, <1>7 DEF ClearFails, GroupRecord
  <2> QED
    BY <1>7, <2>1, IndexStays DEF ClearFails
<1> QED
  BY <1>1, <1>2, <1>3, <1>4, <1>5, <1>6, <1>7, StillOrNot

(* A group is removed with the entries and the cases that lead to it.        *)
LEMMA RemoveGroupIndex ==
    ASSUME Index, NEW p, remove_groups({p})
    PROVE  Index'
<1> DEFINE victims == Victims({p})
           keys == VictimKeys({p})
           gone == UNION {CasesOf(g) : g \in victims}
<1>1. /\ groups' = Without(groups, victims) /\ stats' = Without(stats, gone)
      /\ group_index' = Without(group_index, keys)
      /\ case_index' = Without(case_index, keys)
      /\ keys \subseteq DOMAIN group_index
      /\ \A g, h \in victims : KeyOf(g) = KeyOf(h) => g = h
  BY DEF remove_groups, RemoveGroupsRaises
<1>a. /\ victims \subseteq DOMAIN groups
      /\ \A g \in DOMAIN groups : g \in victims <=> KeyOf(g) = Plain(p)
      /\ keys = {KeyOf(g) : g \in victims}
      /\ \A o : o \in gone <=> \E g \in victims : o \in DOMAIN stats /\ o.of = g
  BY DEF Victims, VictimKeys, CasesOf
<1> HIDE DEF victims, keys, gone
<1>2. \A o \in DOMAIN stats : o \in gone <=> o.of \in victims
  BY <1>a
<1>3. ASSUME NEW g \in victims
      PROVE  /\ KeyOf(g) = Plain(p) /\ Plain(p) \in keys
             /\ Plain(p) \in DOMAIN group_index /\ group_index[Plain(p)] = g
  BY <1>1, <1>a DEF Index, IndexSound
<1>4. \A k \in DOMAIN group_index : group_index[k] \in victims <=> k \in keys
  BY <1>1, <1>3, <1>a DEF Index, IndexSound
<1>5. victims \subseteq Indexed
  BY <1>3 DEF Indexed
<1>6. /\ DOMAIN group_index' = DOMAIN group_index \ keys
      /\ DOMAIN case_index' = DOMAIN case_index \ keys
      /\ DOMAIN groups' = DOMAIN groups \ victims
      /\ DOMAIN stats' = DOMAIN stats \ gone
  BY <1>1 DEF Without
<1>7. /\ \A x \in DOMAIN group_index' : group_index'[x] = group_index[x]
      /\ \A x \in DOMAIN case_index' : case_index'[x] = case_index[x]
      /\ \A x \in DOMAIN groups' : groups'[x] = groups[x]
  BY <1>1 DEF Without
<1>8. Indexed' \subseteq Indexed
  BY <1>6, <1>7 DEF Indexed
<1>9. ASSUME NEW k \in DOMAIN group_index', NEW c \in DOMAIN case_index'[k]
      PROVE  Leads(k, case_index[k][c])'
  <2>1. k \in DOMAIN group_index /\ k \notin keys /\ k \in DOMAIN case_index'
        /\ case_index'[k] = case_index[k] /\ group_index'[k] = group_index[k]
    BY <1>6, <1>7 DEF Index, IndexSound
  <2>2. Leads(k, case_index[k][c])
    BY <2>1 DEF Index, IndexSound
  <2>3. case_index[k][c].of \notin victims
    BY <1>4, <1>5, <2>1, <2>2 DEF Leads
  <2> QED
    BY <1>2, <1>6, <1>8, <2>1, <2>2, <2>3 DEF Leads
<1>10. IndexSound'
  <2>1. DOMAIN group_index' \subseteq DOMAIN case_index'
    BY <1>6 DEF Index, IndexSound
  <2>2. ASSUME NEW k \in DOMAIN group_index'
        PROVE  group_index'[k] \in DOMAIN groups' /\ KeyOf(group_index[k])' = k
    BY <1>4, <1>6, <1>7 DEF Index, IndexSound, KeyOf
  <2>3. \A k \in DOMAIN group_index' : \A c \in DOMAIN case_index'[k] :
           case_index'[k][c] \in DOMAIN stats'
    BY <1>9 DEF Leads
  <2> QED
    BY <2>1, <2>2, <2>3 DEF IndexSound
<1> QED
  BY <1>6, <1>7, <1>9, <1>10 DEF Index

LEMMA RemoveLookupIndex ==
    ASSUME Index, NEW p, remove_groups_lookup({p})
    PROVE  Index'
<1>1. PICK keys : /\ group_index' = Without(group_index, keys)
                  /\ case_index' = Without(case_index, keys)
                  /\ UNCHANGED <<groups, stats>>
  BY DEF remove_groups_lookup
<1>2. /\ DOMAIN group_index' = DOMAIN group_index \ keys
      /\ DOMAIN case_index' = DOMAIN case_index \ keys
      /\ \A x \in DOMAIN group_index' : group_index'[x] = group_index[x]
      /\ \A x \in DOMAIN case_index' : case_index'[x] = case_index[x]
  BY <1>1 DEF Without
<1>3. Indexed' \subseteq Indexed
  BY <1>2 DEF Indexed
<1>4. IndexSound'
  BY <1>1, <1>2 DEF Index, IndexSound, KeyOf
<1> QED
  BY <1>1, <1>2, <1>3, <1>4 DEF Index, Leads

(* A new group gets an entry of its own: its key was free.                   *)
LEMMA AddGroupIndex ==
    ASSUME Objects, Index, NEW p \in Pairs,
           Plain(p) \notin {KeyOf(g) : g \in DOMAIN groups}, add_groups({p})
    PROVE  Index'
<1>1. PICK new : new = [pair |-> p, gen |-> NextGen]
  OBVIOUS
<1>2. /\ groups' = Overlay(groups, [g \in {new} |-> [city |-> NoCity, failing |-> FALSE]])
      /\ stats' = Overlay(stats, [o \in {NewCase(new, c) : c \in test_cases} |-> NewStats(o.case)])
      /\ group_index' = Overlay(group_index, [k \in {Plain(p)} |-> new])
      /\ case_index' = Overlay(case_index,
                          [k \in {Plain(p)} |-> [c \in test_cases |-> NewCase(new, c)]])
  <2> DEFINE all == [q \in {p} |-> [pair |-> q, gen |-> NextGen]]
  <2>1. /\ {all[q] : q \in {p}} = {new} /\ {Plain(q) : q \in {p}} = {Plain(p)}
        /\ all[p] = new /\ Plain(p).pair = p
        /\ {NewCase(all[q], c) : q \in {p}, c \in test_cases} = {NewCase(new, c) : c \in test_cases}
    BY <1>1 DEF Plain
  <2>2. /\ [k \in {Plain(p)} |-> all[k.pair]] = [k \in {Plain(p)} |-> new]
        /\ [k \in {Plain(p)} |-> [c \in test_cases |-> NewCase(all[k.pair], c)]]
             = [k \in {Plain(p)} |-> [c \in test_cases |-> NewCase(new, c)]]
    BY <2>1
  <2>3. /\ groups' = Overlay(groups, [g \in {all[q] : q \in {p}} |->
                                        [city |-> NoCity, failing |-> FALSE]])
        /\ stats' = Overlay(stats, [o \in {NewCase(all[q], c) : q \in {p}, c \in test_cases}
                                       |-> NewStats(o.case)])
        /\ group_index' = Overlay(group_index, [k \in {Plain(q) : q \in {p}} |-> all[k.pair]])
        /\ case_index' = Overlay(case_index,
              [k \in {Plain(q) : q \in {p}} |-> [c \in test_cases |-> NewCase(all[k.pair], c)]])
    BY DEF add_groups
  <2> HIDE DEF all
  <2>4. groups' = Overlay(groups, [g \in {new} |-> [city |-> NoCity, failing |-> FALSE]])
    BY <2>1, <2>3
  <2>5. stats' = Overlay(stats, [o \in {NewCase(new, c) : c \in test_cases} |-> NewStats(o.case)])
    BY <2>1, <2>3
  <2>6. group_index' = Overlay(group_index, [k \in {Plain(p)} |-> new])
    BY <2>1, <2>2, <2>3
  <2>7. case_index' = Overlay(case_index,
                          [k \in {Plain(p)} |-> [c \in test_cases |-> NewCase(new, c)]])
    BY <2>1, <2>2, <2>3
  <2> QED
    BY <2>4, <2>5, <2>6, <2>7
<1>3. new \notin DOMAIN groups /\ new.pair = p
  BY <1>1, NextGenIsNew
<1>4. Plain(p) \notin DOMAIN group_index
  BY DEF Index, IndexSound
<1>5. \A c \in test_cases :
        NewCase(new, c).of = new /\ NewCase(new, c).case = c /\ NewCase(new, c) \in DOMAIN stats'
  BY <1>2, NewCaseIsNew DEF Overlay
<1>6. /\ DOMAIN groups' = DOMAIN groups \cup {new} /\ groups'[new].city = NoCity
      /\ \A g \in DOMAIN groups : groups'[g] = groups[g]
  BY <1>2, <1>3 DEF Overlay
<1>7. DOMAIN stats \subseteq DOMAIN stats'
  BY <1>2 DEF Overlay
<1>8. /\ DOMAIN group_index' = DOMAIN group_index \cup {Plain(p)}
      /\ group_index'[Plain(p)] = new
      /\ \A k \in DOMAIN group_index : group_index'[k] = group_index[k]
  BY <1>2, <1>4 DEF Overlay
<1>9. /\ DOMAIN case_index' = DOMAIN case_index \cup {Plain(p)}
      /\ case_index'[Plain(p)] = [c \in test_cases |-> NewCase(new, c)]
      /\ \A k \in DOMAIN case_index \ {Plain(p)} : case_index'[k] = case_index[k]
  BY <1>2 DEF Overlay
<1>10. Indexed' = Indexed \cup {new}
  BY <1>8 DEF Indexed
<1>11. ASSUME NEW k \in DOMAIN case_index', NEW c \in DOMAIN case_index'[k]
       PROVE  /\ case_index'[k][c].of.pair = k.pair /\ case_index'[k][c].case = c
              /\ k \in DOMAIN group_index' => Leads(k, case_index[k][c])'
  <2>1. CASE k = Plain(p)
    BY <1>3, <1>5, <1>8, <1>9, <2>1 DEF Leads, Plain
  <2>2. CASE k # Plain(p)
    <3>1. k \in DOMAIN case_index /\ case_index'[k] = case_index[k]
      BY <1>9, <2>2
    <3>2. CASE k \in DOMAIN group_index
      <4>1. Leads(k, case_index[k][c])
        BY <3>1, <3>2 DEF Index
      <4>2. case_index[k][c].of # new
        BY <1>3, <4>1 DEF Leads, Objects, DataTypeOK
      <4> QED
        BY <1>7, <1>8, <1>10, <2>2, <3>1, <4>1, <4>2 DEF Leads, Index
    <3>3. CASE k \notin DOMAIN group_index
      BY <1>8, <2>2, <3>1, <3>3 DEF Index
    <3> QED
      BY <3>2, <3>3
  <2> QED
    BY <2>1, <2>2
<1>12. IndexSound'
  <2>1. DOMAIN group_index' \subseteq DOMAIN case_index'
    BY <1>8, <1>9 DEF Index, IndexSound
  <2>2. ASSUME NEW k \in DOMAIN group_index'
        PROVE  group_index'[k] \in DOMAIN groups' /\ KeyOf(group_index[k])' = k
    <3>1. CASE k = Plain(p)
      BY <1>3, <1>6, <1>8, <3>1 DEF KeyOf, Plain
    <3>2. CASE k # Plain(p)
      BY <1>6, <1>8, <3>2 DEF Index, IndexSound, KeyOf
    <3> QED
      BY <3>1, <3>2
  <2>3. \A k \in DOMAIN group_index' : \A c \in DOMAIN case_index'[k] :
           case_index'[k][c] \in DOMAIN stats'
    BY <1>11, <2>1 DEF Leads
  <2> QED
    BY <2>1, <2>2, <2>3 DEF IndexSound
<1> QED
  BY <1>11, <1>12 DEF Index

(* A new case is entered for the last of the groups with a key.              *)
LEMMA AddCaseIndex ==
    ASSUME Objects, Index, NEW c \in Cases, add_cases({c})
    PROVE  Index'
<1>1. /\ stats' = Overlay(stats, [o \in {NewCase(g, d) : g \in DOMAIN groups, d \in {c}} |->
                                    NewStats(o.case)])
      /\ case_index' = Overlay(case_index,
                               [k \in {KeyOf(g) : g \in DOMAIN groups} |-> Reindexed(k, {c})])
      /\ UNCHANGED <<groups, group_index>>
  BY DEF add_cases
<1>2. DOMAIN stats \subseteq DOMAIN stats'
      /\ \A g \in DOMAIN groups : NewCase(g, c) \in DOMAIN stats'
  BY <1>1 DEF Overlay
<1>3. /\ DOMAIN case_index' = DOMAIN case_index \cup {KeyOf(g) : g \in DOMAIN groups}
      /\ \A k \in {KeyOf(g) : g \in DOMAIN groups} : case_index'[k] = Reindexed(k, {c})
      /\ \A k \in DOMAIN case_index \ {KeyOf(g) : g \in DOMAIN groups} :
           case_index'[k] = case_index[k]
  BY <1>1 DEF Overlay
<1>4. ASSUME NEW g \in DOMAIN groups
      PROVE  LET last == LastOf(Keyed(KeyOf(g)))
             IN /\ last \in DOMAIN groups /\ KeyOf(last) = KeyOf(g) /\ last.pair = KeyOf(g).pair
                /\ KeyOf(g) \in DOMAIN group_index =>
                     last = group_index[KeyOf(g)] \/ last \notin Indexed
  <2>1. PICK last : last = LastOf(Keyed(KeyOf(g)))
    OBVIOUS
  <2>2. last \in DOMAIN groups /\ KeyOf(last) = KeyOf(g)
    BY <2>1, LastIsOne DEF Keyed
  <2>3. last.pair = KeyOf(g).pair
    BY <2>2 DEF KeyOf
  <2>4. last \in Indexed => KeyOf(g) \in DOMAIN group_index /\ last = group_index[KeyOf(g)]
    BY <2>2 DEF Index, IndexSound, Indexed
  <2> QED
    BY <2>1, <2>2, <2>3, <2>4
<1>5. ASSUME NEW k \in DOMAIN case_index', NEW d \in DOMAIN case_index'[k]
      PROVE  \/ k \in DOMAIN case_index /\ d \in DOMAIN case_index[k]
                /\ case_index'[k][d] = case_index[k][d]
             \/ \E g \in DOMAIN groups :
                  /\ d = c /\ k = KeyOf(g)
                  /\ case_index'[k][d] = NewCase(LastOf(Keyed(k)), c)
  <2>1. CASE k \notin {KeyOf(g) : g \in DOMAIN groups}
    BY <1>3, <2>1
  <2>2. CASE k \in {KeyOf(g) : g \in DOMAIN groups}
    <3>1. case_index'[k] = Reindexed(k, {c})
      BY <1>3, <2>2
    <3>2. d # c => /\ k \in DOMAIN case_index /\ d \in DOMAIN case_index[k]
                   /\ case_index'[k][d] = case_index[k][d]
      BY <3>1 DEF Reindexed, Overlay, Empty
    <3>3. d = c => case_index'[k][d] = NewCase(LastOf(Keyed(k)), c)
      BY <3>1 DEF Reindexed, Overlay
    <3> QED
      BY <2>2, <3>2, <3>3
  <2> QED
    BY <2>1, <2>2
<1>6. ASSUME NEW k \in DOMAIN case_index', NEW d \in DOMAIN case_index'[k]
      PROVE  /\ case_index'[k][d].of.pair = k.pair /\ case_index'[k][d].case = d
             /\ k \in DOMAIN group_index' => Leads(k, case_index[k][d])'
  <2>1. CASE /\ k \in DOMAIN case_index /\ d \in DOMAIN case_index[k]
             /\ case_index'[k][d] = case_index[k][d]
    <3>1. Indexed' = Indexed /\ UNCHANGED group_index
      BY <1>1 DEF Indexed
    <3>2. case_index[k][d].of.pair = k.pair /\ case_index[k][d].case = d
          /\ (k \in DOMAIN group_index => Leads(k, case_index[k][d]))
      BY <2>1 DEF Index
    <3> QED
      BY <1>2, <2>1, <3>1, <3>2 DEF Leads
  <2>2. CASE \E g \in DOMAIN groups :
                /\ d = c /\ k = KeyOf(g)
                /\ case_index'[k][d] = NewCase(LastOf(Keyed(k)), c)
    <3>1. PICK g \in DOMAIN groups, last \in {LastOf(Keyed(k))} :
            /\ d = c /\ k = KeyOf(g) /\ last = LastOf(Keyed(k))
            /\ case_index'[k][d] = NewCase(last, c)
      BY <2>2
    <3>2. /\ last \in DOMAIN groups /\ last.pair = k.pair
          /\ k \in DOMAIN group_index => last = group_index[k] \/ last \notin Indexed
      BY <1>4, <3>1
    <3>3. NewCase(last, c).of = last /\ NewCase(last, c).case = c
      BY NewCaseIsNew
    <3> QED
      BY <1>1, <1>2, <3>1, <3>2, <3>3 DEF Leads, Indexed
  <2> QED
    BY <1>5, <2>1, <2>2
<1>7. IndexSound'
  <2>1. DOMAIN group_index' \subseteq DOMAIN case_index'
    BY <1>1, <1>3 DEF Index, IndexSound
  <2>2. ASSUME NEW k \in DOMAIN group_index'
        PROVE  group_index'[k] \in DOMAIN groups' /\ KeyOf(group_index[k])' = k
    BY <1>1 DEF Index, IndexSound, KeyOf
  <2>3. \A k \in DOMAIN group_index' : \A d \in DOMAIN case_index'[k] :
           case_index'[k][d] \in DOMAIN stats'
    BY <1>6, <2>1 DEF Leads
  <2> QED
    BY <2>1, <2>2, <2>3 DEF IndexSound
<1> QED
  BY <1>6, <1>7 DEF Index

-------------------------------------------------------------------------------
(* Additions.                                                                *)
LEMMA ScopeStays == [Next]_runnerVars => UNCHANGED <<common_cities, faults>>
<1> SUFFICES ASSUME [Next]_runnerVars PROVE UNCHANGED <<common_cities, faults>>
  OBVIOUS
<1>1. CASE AddGroup \/ RemoveGroup \/ AddCase \/ RemoveCase \/ EditProviders
  BY <1>1 DEF AddGroup, RemoveGroup, AddCase, RemoveCase, EditProviders, confVars
<1>2. CASE UNCHANGED runnerVars
  BY <1>2 DEF runnerVars, confVars
<1> QED
  BY <1>1, <1>2, StepScope DEF Next, confVars

(* Additions keep all groups complete.                                       *)
LEMMA AddGroupComplete ==
    ASSUME Objects, Index, Complete, NEW p \in Pairs,
           Plain(p) \notin {KeyOf(g) : g \in DOMAIN groups}, add_groups({p})
    PROVE  Complete' /\ DOMAIN group_index \subseteq DOMAIN group_index'
<1>1. PICK new : new = [pair |-> p, gen |-> NextGen]
  OBVIOUS
<1> DEFINE all == [q \in {p} |-> [pair |-> q, gen |-> NextGen]]
<1>2. /\ groups' = Overlay(groups, [g \in {all[q] : q \in {p}} |->
                                      [city |-> NoCity, failing |-> FALSE]])
      /\ stats' = Overlay(stats, [o \in {NewCase(all[q], c) : q \in {p}, c \in test_cases}
                                     |-> NewStats(o.case)])
      /\ group_index' = Overlay(group_index, [k \in {Plain(q) : q \in {p}} |-> all[k.pair]])
      /\ case_index' = Overlay(case_index,
            [k \in {Plain(q) : q \in {p}} |-> [c \in test_cases |-> NewCase(all[k.pair], c)]])
      /\ test_cases' = test_cases
  BY DEF add_groups
<1>3. {all[q] : q \in {p}} = {new} /\ {Plain(q) : q \in {p}} = {Plain(p)}
  BY <1>1
<1> HIDE DEF all
<1>4. DOMAIN groups' = DOMAIN groups \cup {new} /\ groups'[new].city = NoCity
      /\ \A g \in DOMAIN groups \ {new} : groups'[g] = groups[g]
  BY <1>2, <1>3 DEF Overlay
<1>5. DOMAIN group_index' = DOMAIN group_index \cup {Plain(p)}
  BY <1>2, <1>3 DEF Overlay
<1>6. /\ DOMAIN case_index' = DOMAIN case_index \cup {Plain(p)}
      /\ DOMAIN case_index'[Plain(p)] = test_cases
      /\ \A k \in DOMAIN case_index \ {Plain(p)} : case_index'[k] = case_index[k]
  BY <1>2, <1>3 DEF Overlay
<1>7. \A o \in DOMAIN stats' : o.case \in test_cases
  BY <1>2, NewCaseIsNew DEF Overlay, Complete
<1>8. new \notin DOMAIN groups
  BY <1>1, NextGenIsNew
<1>9. {KeyOf(g) : g \in DOMAIN groups}' = {KeyOf(g) : g \in DOMAIN groups} \cup {Plain(p)}
  <2>1. {KeyOf(g) : g \in DOMAIN groups}'
          = {[pair |-> g.pair, city |-> groups'[g].city] : g \in DOMAIN groups'}
    BY DEF KeyOf
  <2>2. \A g \in DOMAIN groups :
          [pair |-> g.pair, city |-> groups'[g].city] = KeyOf(g)
    BY <1>4, <1>8 DEF KeyOf
  <2>3. [pair |-> new.pair, city |-> groups'[new].city] = Plain(p)
    BY <1>1, <1>4 DEF Plain
  <2>4. DOMAIN groups' = DOMAIN groups \cup {new}
    BY <1>4
  <2> HIDE <1>1, <1>4
  <2> QED
    BY <2>1, <2>2, <2>3, <2>4
<1> QED
  BY <1>2, <1>4, <1>5, <1>6, <1>7, <1>9 DEF Complete

LEMMA AddCaseComplete ==
    ASSUME Objects, Index, Complete, NEW c \in Cases, add_cases({c})
    PROVE  Complete' /\ group_index' = group_index /\ test_cases \subseteq test_cases'
<1>1. /\ stats' = Overlay(stats, [o \in {NewCase(g, d) : g \in DOMAIN groups, d \in {c}} |->
                                    NewStats(o.case)])
      /\ case_index' = Overlay(case_index,
                               [k \in {KeyOf(g) : g \in DOMAIN groups} |-> Reindexed(k, {c})])
      /\ UNCHANGED <<groups, group_index>> /\ test_cases' = test_cases \cup {c}
  BY DEF add_cases
<1>2. \A o \in DOMAIN stats' : o.case \in test_cases'
  BY <1>1, NewCaseIsNew DEF Overlay, Complete
<1>3. /\ DOMAIN case_index' = DOMAIN case_index
      /\ \A k \in DOMAIN case_index : case_index'[k] = Reindexed(k, {c})
  BY <1>1 DEF Overlay, Complete
<1>4. \A k \in DOMAIN case_index : DOMAIN Reindexed(k, {c}) = test_cases \cup {c}
  BY DEF Reindexed, Overlay, Complete
<1> QED
  BY <1>1, <1>2, <1>3, <1>4 DEF Complete, KeyOf

LEMMA StepLiveInv == LiveInv /\ [Next]_runnerVars => LiveInv'
<1> SUFFICES ASSUME LiveInv, [Next]_runnerVars PROVE LiveInv'
  OBVIOUS
<1> USE DEF LiveInv
<1>a. UNCHANGED <<common_cities, faults>>
  BY ScopeStays
<1>1. CASE Step
  <2>1. RunnerInv'
    BY <1>1, StepKeepsTask, StepKeepsData DEF RunnerInv, RunnerTypeOK, TaskInv
  <2>2. Objects' /\ Index'
    BY <1>1, StepKeepsObjects, StepIndex
  <2>3. OnlyAdding => Complete' /\ AtHand' /\ providers' = Providers
    <3>1. OnlyAdding => Provided
      BY RunnerAssumption DEF Provided, RunnerInv, RunnerTypeOK, DataTypeOK
    <3> QED
      BY <1>1, <3>1, StepScope, StepComplete, StepAtHand
      DEF OnlyAdding, AtHand, RunnerInv, RunnerTypeOK, confVars
  <2> QED
    BY <1>a, <2>1, <2>2, <2>3 DEF OnlyAdding
<1>2. CASE AddGroup
  <2>1. PICK p \in Pairs : Plain(p) \notin {KeyOf(g) : g \in DOMAIN groups} /\ add_groups({p})
    BY <1>2 DEF AddGroup
  <2>2. UNCHANGED taskVars /\ providers' = providers /\ test_cases' = test_cases
    BY <1>2, <2>1 DEF AddGroup, Editing, confVars, add_groups
  <2>3. Index'
    BY <2>1, AddGroupIndex
  <2>4. OnlyAdding => Complete' /\ AtHand' /\ providers' = Providers
    BY <2>1, <2>2, AddGroupComplete DEF AtHand, taskVars
  <2> QED
    BY <1>2, <1>a, <2>3, <2>4, EditKeepsTypes DEF OnlyAdding
<1>3. CASE AddCase
  <2>1. PICK c \in Cases : add_cases({c})
    BY <1>3 DEF AddCase
  <2>2. UNCHANGED taskVars /\ providers' = providers
    BY <1>3 DEF AddCase, Editing, confVars
  <2>3. Index'
    BY <2>1, AddCaseIndex
  <2>4. OnlyAdding => Complete' /\ AtHand' /\ providers' = Providers
    BY <2>1, <2>2, AddCaseComplete DEF AtHand, taskVars
  <2> QED
    BY <1>3, <1>a, <2>3, <2>4, EditKeepsTypes DEF OnlyAdding
<1>4. CASE RemoveGroup \/ RemoveCase \/ EditProviders
  <2>1. "remove" \in faults
    BY <1>4 DEF RemoveGroup, RemoveCase, EditProviders, Removing
  <2>2. Index'
    <3>1. CASE RemoveGroup
      BY <3>1, RemoveGroupIndex, RemoveLookupIndex DEF RemoveGroup
    <3>2. CASE RemoveCase \/ EditProviders
      BY <3>2, IndexStays DEF RemoveCase, remove_cases, EditProviders, dataVars
    <3> QED
      BY <1>4, <3>1, <3>2
  <2> QED
    BY <1>4, <1>a, <2>1, <2>2, EditKeepsTypes DEF OnlyAdding
<1>5. CASE UNCHANGED runnerVars
  <2>1. UNCHANGED <<dataVars, confVars, taskVars>>
    BY <1>5 DEF runnerVars
  <2>2. RunnerInv' /\ Objects'
    BY <2>1 DEF dataVars, confVars, taskVars, RunnerInv, RunnerTypeOK, DataTypeOK, TaskTypeOK,
                Control, Objects, Copies
  <2>3. Index'
    BY <2>1, IndexStays DEF dataVars
  <2>4. Complete => Complete'
    BY <2>1 DEF Complete, KeyOf, dataVars, confVars
  <2>5. AtHand => AtHand'
    BY <2>1 DEF AtHand, taskVars, dataVars
  <2> QED
    BY <1>a, <2>1, <2>2, <2>3, <2>4, <2>5 DEF OnlyAdding, confVars
<1> QED
  BY <1>1, <1>2, <1>3, <1>4, <1>5 DEF Next

-------------------------------------------------------------------------------
(* However groups and cases are added and removed under a running test, the  *)
(* index of Runner leads to objects of the list, with the key they have.     *)
THEOREM IndexSoundAlways == Spec => []IndexSound
<1>1. LiveInv => IndexSound
  BY DEF LiveInv, Index
<1> QED
  BY <1>1, InitLiveInv, StepLiveInv, PTL DEF Spec

(* Runner._add_run and _failed_run count only what was tested, whatever an   *)
(* edit did to the objects since the test was selected.                      *)
THEOREM CountedWhereTestedAlways == Spec => CountedWhereTested
<1> DEFINE Mine == pc = "add_run" \/ pc = "fail_run"
             => \A o \in {x \in DOMAIN stats \cap DOMAIN stats' : stats'[x] # stats[x]} :
                   o.of.pair = group.pair /\ o.case = case
<1>1. LiveInv /\ [Next]_runnerVars => [Mine]_runnerVars
  <2> SUFFICES ASSUME LiveInv, Next, pc = "add_run" \/ pc = "fail_run",
                      NEW o \in DOMAIN stats \cap DOMAIN stats', stats'[o] # stats[o]
               PROVE  o.of.pair = group.pair /\ o.case = case
    OBVIOUS
  <2>1. CASE Step
    <3>1. Found(group, case) /\ o = case_index[group][case]
      BY <2>1, StillOrNot, StillData
      DEF AddRun, FailRun, PickCity, PickCityLookup, FailGroup, FailGroupDividesByZero,
          FailCase, FailCaseLookup, ClearFails, dataVars
    <3> QED
      BY <3>1 DEF Found, LiveInv, Index
  <2>2. CASE AddGroup \/ AddCase
    <3>1. \A g, c : NewCase(g, c) \notin DOMAIN stats
      BY NewCaseIsNew DEF LiveInv
    <3>2. CASE AddGroup
      BY <3>1, <3>2 DEF AddGroup, add_groups, Overlay
    <3>3. CASE AddCase
      BY <3>1, <3>3 DEF AddCase, add_cases, Overlay
    <3> QED
      BY <2>2, <3>2, <3>3
  <2>3. CASE RemoveGroup \/ RemoveCase \/ EditProviders
    BY <2>3 DEF RemoveGroup, remove_groups, remove_groups_lookup, Without, RemoveCase,
                remove_cases, EditProviders, dataVars
  <2> QED
    BY <2>1, <2>2, <2>3 DEF Next
<1> QED
  BY <1>1, InitLiveInv, StepLiveInv, PTL DEF Spec, CountedWhereTested

(* As long as groups and cases are only added and no cities are looked up,   *)
(* no KeyError of the indexes ends Runner.run.                               *)
THEOREM AddingIsSafeAlways == Spec => []AddingIsSafe
<1>1. LiveInv => AddingIsSafe
  BY DEF LiveInv, AddingIsSafe, OnlyAdding, AtHand
<1> QED
  BY <1>1, InitLiveInv, StepLiveInv, PTL DEF Spec

===============================================================================
