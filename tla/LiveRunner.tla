------------------------------ MODULE LiveRunner ------------------------------
(*****************************************************************************)
(* The runner while its configuration is edited: between any two awaits of   *)
(* its task the operations that Service.update executes add and remove       *)
(* groups, cases and providers.  Unlike in Service they come in any order;   *)
(* only what diff.py promises is kept: nothing is added that is configured   *)
(* and nothing is removed that is not.                                       *)
(*****************************************************************************)
EXTENDS Runner

CONSTANTS
    Lives,     \* what may happen: [common, faults]
    MaxAgain   \* bound: a place in the list, or a copy of a case, beyond which
               \* nothing is added again

ASSUME LiveAssumption ==
    /\ Lives \subseteq [common: BOOLEAN, faults: SUBSET FaultKinds]
    /\ MaxAgain \in Nat

(* The task of a configuration without groups and cases has been created.    *)
Init ==
    /\ groups = Empty /\ stats = Empty /\ group_index = Empty /\ case_index = Empty
    /\ test_cases = {} /\ failing_cases = {}
    /\ \E l \in Lives : common_cities = l.common /\ faults = l.faults
    /\ providers = Providers
    /\ pc = "new" /\ mode = "continuous" /\ repeats = 1
    /\ runs = 0 /\ group = None /\ no_options = FALSE /\ case = None /\ left = 0
    /\ cancelling = FALSE /\ outcome = "none"
    /\ sent = [x \in Pairs \X Cases |-> 0]

(* Bound: no edit once a result is sent for a combination that has Late runs. *)
Late == IF "remove" \in faults THEN MaxRuns - 1 ELSE MaxRuns
Editing ==
    /\ pc # "off" /\ \A x \in DOMAIN sent : sent[x] < Late
    /\ UNCHANGED taskVars
Removing == "remove" \in faults /\ Editing

AddGroup ==
    /\ Editing
    /\ \E p \in Pairs :
         /\ Plain(p) \notin {KeyOf(g) : g \in DOMAIN groups}
         /\ NextGen <= MaxAgain
         /\ add_groups({p})
    /\ UNCHANGED confVars

RemoveGroup ==
    /\ Removing
    /\ \E p \in Pairs : remove_groups({p}) \/ remove_groups_lookup({p})
    /\ UNCHANGED confVars

AddCase ==
    /\ Editing
    /\ \E c \in Cases \ test_cases :
         /\ \A o \in DOMAIN stats : o.case = c => o.copy < MaxAgain
         /\ add_cases({c})
    /\ UNCHANGED confVars

RemoveCase ==
    /\ Removing
    /\ \E c \in test_cases : remove_cases({c})
    /\ UNCHANGED confVars

EditProviders ==
    /\ Removing
    /\ \/ \E v \in Providers \ providers : providers' = providers \cup {v}
       \/ \E v \in providers : providers' = providers \ {v}
    /\ UNCHANGED <<dataVars, common_cities, faults>>

Next == Step \/ AddGroup \/ RemoveGroup \/ AddCase \/ RemoveCase \/ EditProviders

Spec == Init /\ [][Next]_runnerVars

-------------------------------------------------------------------------------
(* Every variable has its type.                                              *)
TypeOK == RunnerTypeOK

(* The index leads to groups of the list under their current keys, and every *)
(* case it leads to is one of the list, whatever is removed and added again  *)
(* while a test holds a key.                                                 *)
IndexSound ==
    /\ DOMAIN group_index \subseteq DOMAIN case_index
    /\ \A k \in DOMAIN group_index :
         /\ group_index[k] \in DOMAIN groups /\ KeyOf(group_index[k]) = k
         /\ \A c \in DOMAIN case_index[k] : case_index[k][c] \in DOMAIN stats

(* A run is counted for the pair and the case that were tested, whatever an  *)
(* edit does to the objects during the test.                                 *)
CountedWhereTested ==
    [][pc = "add_run" \/ pc = "fail_run"
         => \A o \in {x \in DOMAIN stats \cap DOMAIN stats' : stats'[x] # stats[x]} :
              o.of.pair = group.pair /\ o.case = case]_runnerVars

(* As long as no city is looked up, adding groups and cases, with their      *)
(* providers there, never kills the runner with a KeyError, whatever test    *)
(* holds a key meanwhile.  (With cities it does: a group that has been given *)
(* one is added a second time and the indexes then hold only the second.)    *)
AddingIsSafe == "remove" \notin faults /\ ~common_cities => outcome # "lookup"

===============================================================================
