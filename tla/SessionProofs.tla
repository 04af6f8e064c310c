----------------------------- MODULE SessionProofs ----------------------------
(*****************************************************************************)
(* Theorems of Session, for any number of tests, keys, days and tries: what  *)
(* a test comes to, what it stops, with what it connects, and that it takes  *)
(* its container along.                                                      *)
(*****************************************************************************)
EXTENDS Session, TLAPS

(* The places are named by strings; everything below is a case distinction   *)
(* over them.                                                                *)
USE DEF Places, InCity, InLogin, InConnect, InSession, InContainer, Handlers

(* The steps that leave the provider, its service and the day alone.         *)
Plain ==
    \/ CityToken \/ CityRenew \/ CityList \/ CityFails \/ Create \/ StartContainer
    \/ Token \/ LoginFails \/ Renew \/ PublicKey \/ InitRead \/ InitOver
    \/ Connects \/ ConnectFails \/ SameAddress \/ NotConnected \/ OtherAddress
    \/ Resolve \/ TargetProbe \/ TargetFound \/ NoTarget \/ SpeedTest \/ SpeedTestFails
    \/ ProbeFails \/ AddRun \/ StopFails \/ Delete \/ Handle \/ ContainerRaises
    \/ Cancelled \/ CancelLost \/ AskCities \/ StartTest \/ Cancel

LEMMA PlainSurf == Plain => UNCHANGED surfVars
BY DEF Plain, CityToken, CityRenew, CityList, CityFails, Create, StartContainer,
    Token, LoginFails, Renew, PublicKey, InitRead, InitOver, Connects,
    ConnectFails, SameAddress, NotConnected, OtherAddress, Resolve, TargetProbe,
    TargetFound, NoTarget, SpeedTest, SpeedTestFails, ProbeFails, AddRun, StopFails,
    Delete, Handle, ContainerRaises, Cancelled, CancelLost, AskCities, StartTest, Cancel,
    Raise, Pass, Goto, GetToken, surfVars

-------------------------------------------------------------------------------
(* Errors on their way out: which stage may have raised what, that there is  *)
(* one only until the container is deleted, and that a result is sent by a   *)
(* test without one.                                                         *)
Errors ==
    /\ err.kind = "none" => err = NoError
    /\ err.kind = "run" => err.stage \in {"env", "login", "vpn"}
    /\ err.kind \in {"group", "case"} => err.stage = "vpn"
    /\ err.kind = "lost" => err.stage = "login"
    /\ err.kind = "env" => err.stage \in {"env", "vpn"}
    /\ err.kind = "cancelled" => err.stage # "none"
    /\ err # NoError => at \in {"stop", "delete"}
    /\ sent => at \in {"delay", "idle"}
    /\ at \in Handlers => test.tech \notin containers

ErrorInv == TestTypeOK /\ Errors

LEMMA Bounds ==
    /\ MaxKeys \in Nat \ {0} /\ MaxDay \in Nat \ {0} /\ MaxTests \in Nat \ {0}
    /\ Tries \in Nat \ {0} /\ MaxTests <= MaxKeys
BY SessionAssumption

LEMMA InitErrorInv == Init => ErrorInv
<1>1. 0 \in 0..MaxTests /\ 0 \in 0..Tries /\ 1 \in 1..MaxDay
  BY Bounds
<1>2. NoError \in [kind : {"none", "run", "group", "case", "env", "cancelled", "lost"},
                   stage : {"none", "env", "login", "vpn", "add_run", "exit"}]
  BY DEF NoError
<1>3. NoError.kind = "none"
  BY DEF NoError
<1> QED
  BY <1>1, <1>2, <1>3 DEF Init, ErrorInv, TestTypeOK, Errors

(* The stage at which an exception is raised, unless that ends the test.     *)
LEMMA RaisedStage ==
    ASSUME ErrorInv, Exit(at) # "idle"
    PROVE  /\ Stage \in {"env", "login", "vpn", "add_run", "exit"}
           /\ err # NoError => Stage = err.stage
BY DEF ErrorInv, TestTypeOK, Errors, Exit, Stage, NoError

(* An exception keeps the invariant if its stage may raise it.               *)
LEMMA RaiseErrorInv ==
    ASSUME ErrorInv, NEW kind \in {"run", "group", "case", "env", "cancelled", "lost"},
           Raise(kind),
           Exit(at) # "idle" =>
             /\ kind = "run" => Stage \in {"env", "login", "vpn"}
             /\ kind \in {"group", "case"} => Stage = "vpn"
             /\ kind = "lost" => Stage = "login"
             /\ kind = "env" => Stage \in {"env", "vpn"}
    PROVE  ErrorInv'
<1>1. at' \in Places /\ at' \notin Handlers /\ (at' # "idle" => at' \in {"stop", "delete"})
  BY DEF Raise, Exit, ErrorInv, TestTypeOK
<1>2. containers' \subseteq Techs
  BY DEF Raise, Interrupted, ErrorInv, TestTypeOK, Tests
<1>3. sent => at' = "idle"
  BY DEF Raise, Exit, ErrorInv, TestTypeOK, Errors
<1>4. CASE at' = "idle"
  BY <1>1, <1>2, <1>4 DEF Raise, ErrorInv, TestTypeOK, Errors, NoError
<1>5. CASE at' # "idle"
  <2>1. err' = [kind |-> kind, stage |-> Stage] /\ Exit(at) # "idle"
    BY <1>5 DEF Raise
  <2>2. err' \in [kind : {"none", "run", "group", "case", "env", "cancelled", "lost"},
                  stage : {"none", "env", "login", "vpn", "add_run", "exit"}]
    BY <2>1, RaisedStage
  <2>3. TestTypeOK'
    BY <1>1, <1>2, <2>2 DEF Raise, ErrorInv, TestTypeOK
  <2>4. err'.kind = kind /\ err'.stage = Stage
    BY <2>1
  <2> QED
    BY <1>1, <1>3, <1>5, <2>1, <2>3, <2>4, RaisedStage DEF Raise, ErrorInv, Errors
<1> QED
  BY <1>4, <1>5

(* The step that no exception takes: from one await to the next.             *)
LEMMA StepErrorInv ==
    ASSUME ErrorInv, SurfTypeOK, [Next]_vars
    PROVE  ErrorInv'
<1>a. /\ TestTypeOK /\ Errors
      /\ day \in 1..MaxDay
  BY DEF ErrorInv, SurfTypeOK
<1>1. CASE CityToken
  BY <1>1, <1>a DEF ErrorInv, TestTypeOK, Errors, CityToken, At, Goto
<1>2. CASE CityCreds
  BY <1>2, <1>a DEF ErrorInv, TestTypeOK, Errors, CityCreds, At, Goto
<1>3. CASE CityRenew
  BY <1>3, <1>a DEF ErrorInv, TestTypeOK, Errors, CityRenew, At, Pass, Goto
<1>4. CASE CityList
  BY <1>4, <1>a DEF ErrorInv, TestTypeOK, Errors, CityList, At, Pass, Goto
<1>5. CASE AskCities
  BY <1>5, <1>a DEF ErrorInv, TestTypeOK, Errors, AskCities, At
<1>6. CASE StartTest
  <2>1. number + 1 \in 0..MaxTests
    BY <1>6, <1>a, Bounds DEF StartTest, TestTypeOK
  <2> QED
    BY <2>1, <1>6, <1>a DEF ErrorInv, TestTypeOK, Errors, StartTest, At
<1>7. CASE Create
  BY <1>7, <1>a DEF ErrorInv, TestTypeOK, Errors, Create, At, Tests
<1>8. CASE StartContainer
  BY <1>8, <1>a DEF ErrorInv, TestTypeOK, Errors, StartContainer, At, Pass, Goto
<1>9. CASE LocalProbe
  BY <1>9, <1>a, Bounds DEF ErrorInv, TestTypeOK, Errors, LocalProbe, At
<1>10. CASE Token
  BY <1>10, <1>a DEF ErrorInv, TestTypeOK, Errors, Token, At, Goto
<1>11. CASE Creds
  BY <1>11, <1>a, Bounds DEF ErrorInv, TestTypeOK, Errors, Creds, At
<1>12. CASE Renew
  BY <1>12, <1>a DEF ErrorInv, TestTypeOK, Errors, Renew, At, Pass, Goto
<1>13. CASE LoadsKey
  BY <1>13, <1>a DEF ErrorInv, TestTypeOK, Errors, LoadsKey, At, Goto
<1>14. CASE PrivateKey
  BY <1>14, <1>a DEF ErrorInv, TestTypeOK, Errors, PrivateKey, At, Goto
<1>15. CASE PublicKey
  BY <1>15, <1>a DEF ErrorInv, TestTypeOK, Errors, PublicKey, At, Pass, Goto
<1>16. CASE Activate
  BY <1>16, <1>a DEF ErrorInv, TestTypeOK, Errors, Activate, At, Goto
<1>17. CASE ServersListed
  BY <1>17, <1>a, Bounds DEF ErrorInv, TestTypeOK, Errors, ServersListed, At
<1>18. CASE Spawn
  BY <1>18, <1>a DEF ErrorInv, TestTypeOK, Errors, Spawn, At, Goto
<1>19. CASE InitRead
  BY <1>19, <1>a, Bounds DEF ErrorInv, TestTypeOK, Errors, InitRead, At
<1>20. CASE InitOver
  BY <1>20, <1>a DEF ErrorInv, TestTypeOK, Errors, InitOver, At, Goto
<1>21. CASE KillLate
  BY <1>21, <1>a DEF ErrorInv, TestTypeOK, Errors, KillLate, At, Stage, NoError
<1>22. CASE Connects
  BY <1>22, <1>a, Bounds DEF ErrorInv, TestTypeOK, Errors, Connects, At
<1>23. CASE ActivatedUnheard
  BY <1>23, <1>a DEF ErrorInv, TestTypeOK, Errors, ActivatedUnheard, At, Exit, Stage, NoError
<1>24. CASE NoServer
  BY <1>24, <1>a DEF ErrorInv, TestTypeOK, Errors, NoServer, At, Exit, Stage, NoError
<1>25. CASE SameAddress
  BY <1>25, <1>a, Bounds DEF ErrorInv, TestTypeOK, Errors, SameAddress, At
<1>26. CASE OtherAddress
  BY <1>26, <1>a DEF ErrorInv, TestTypeOK, Errors, OtherAddress, At, Pass, Goto
<1>27. CASE Resolve
  BY <1>27, <1>a DEF ErrorInv, TestTypeOK, Errors, Resolve, At, Pass, Goto
<1>28. CASE TargetProbe
  BY <1>28, <1>a DEF ErrorInv, TestTypeOK, Errors, TargetProbe, At, Pass, Goto
<1>29. CASE TargetFound
  BY <1>29, <1>a DEF ErrorInv, TestTypeOK, Errors, TargetFound, At, Pass, Goto
<1>30. CASE SpeedTest
  BY <1>30, <1>a DEF ErrorInv, TestTypeOK, Errors, SpeedTest, At, Pass, Goto
<1>31. CASE AddRun
  BY <1>31, <1>a DEF ErrorInv, TestTypeOK, Errors, AddRun, At
<1>32. CASE Stop
  BY <1>32, <1>a DEF ErrorInv, TestTypeOK, Errors, Stop, At, Goto
<1>33. CASE StopFails
  BY <1>33, <1>a DEF ErrorInv, TestTypeOK, Errors, StopFails, At, Pass, Goto
<1>34. CASE Delete
  BY <1>34, <1>a DEF ErrorInv, TestTypeOK, Errors, Delete, At, AfterTest, NoError
<1>35. CASE Handle
  BY <1>35, <1>a DEF ErrorInv, TestTypeOK, Errors, Handle, At, Pass, Goto
<1>36. CASE Cancel
  BY <1>36, <1>a DEF ErrorInv, TestTypeOK, Errors, Cancel
<1>37. CASE NewCredentials
  BY <1>37, <1>a DEF ErrorInv, TestTypeOK, Errors, NewCredentials, At, sessionVars
<1>38. CASE TimePasses
  BY <1>38, <1>a DEF ErrorInv, TestTypeOK, Errors, TimePasses, sessionVars
<1>39. CASE UNCHANGED vars
  BY <1>39, <1>a DEF ErrorInv, TestTypeOK, Errors, vars, sessionVars
<1>40. CASE CityFails
  BY <1>40, RaiseErrorInv DEF CityFails, Exit
<1>41. CASE ConnectFails \/ LoginFails \/ NotConnected \/ ProbeFails
  <2>1. Raise("run") /\ Stage \in {"env", "login", "vpn"}
    BY <1>41, <1>a DEF ConnectFails, LoginFails, NotConnected, ProbeFails, Stage, At, Errors,
      NoError
  <2> QED
    BY <2>1, RaiseErrorInv
<1>42. CASE NoTarget \/ SpeedTestFails
  <2>1. (Raise("group") \/ Raise("case")) /\ Stage = "vpn"
    BY <1>42, <1>a DEF NoTarget, SpeedTestFails, Stage, At, Errors, NoError
  <2> QED
    BY <2>1, RaiseErrorInv
<1>43. CASE ContainerRaises
  <2>1. Raise("env") /\ (Exit(at) # "idle" => Stage \in {"env", "vpn"})
    BY <1>43, <1>a DEF ContainerRaises, Stage, Errors, NoError, Exit
  <2> QED
    BY <2>1, RaiseErrorInv
<1>44. CASE Cancelled
  BY <1>44, RaiseErrorInv DEF Cancelled
<1>45. CASE CancelLost
  <2>1. Raise("lost") /\ Stage = "login"
    BY <1>45, <1>a DEF CancelLost, Stage, Errors, NoError
  <2> QED
    BY <2>1, RaiseErrorInv
<1>46. CASE CityCredsHalf
  BY <1>46, <1>a DEF ErrorInv, TestTypeOK, Errors, CityCredsHalf, At, Goto
<1>47. CASE CredsHalf
  BY <1>47, <1>a DEF ErrorInv, TestTypeOK, Errors, CredsHalf, At, Exit, Stage, NoError
<1> QED
  BY <1>1, <1>2, <1>3, <1>4, <1>5, <1>6, <1>7, <1>8, <1>9, <1>10, <1>11, <1>12, <1>13,
     <1>14, <1>15, <1>16, <1>17, <1>18, <1>19, <1>20, <1>21, <1>22, <1>23, <1>24, <1>25,
     <1>26, <1>27, <1>28, <1>29, <1>30, <1>31, <1>32, <1>33, <1>34, <1>35, <1>36, <1>37,
     <1>38, <1>39, <1>40, <1>41, <1>42, <1>43, <1>44, <1>45, <1>46, <1>47
  DEF Next, Coroutine

-------------------------------------------------------------------------------
(* The refinement of Outcomes: every step of a test is one of its steps, or  *)
(* none.                                                                     *)
LEMMA InitOutcome == Init => Outcome!Init
BY DEF Init, Outcome!Init, Stage, NoError

(* An exception that does not end the test is not seen from outside; that of *)
(* a cancellation is the end of it in the making.                            *)
LEMMA RaiseStutters ==
    ASSUME ErrorInv, Exit(at) # "idle",
           NEW kind \in {"run", "group", "case", "env", "cancelled", "lost"}, Raise(kind),
           (cancelling \/ err.kind \in {"cancelled", "lost"})
             <=> kind \in {"cancelled", "lost"}
    PROVE  UNCHANGED Outcome!vars
<1>1. err' = [kind |-> kind, stage |-> Stage] /\ cancelling' = FALSE
  BY DEF Raise
<1>2. Stage' = Stage
  BY <1>1, RaisedStage DEF Stage, NoError
<1>3. (cancelling \/ err.kind \in {"cancelled", "lost"})'
        = (cancelling \/ err.kind \in {"cancelled", "lost"})
  BY <1>1
<1> QED
  BY <1>2, <1>3 DEF Outcome!vars, Raise

LEMMA StepOutcome ==
    ASSUME ErrorInv, [Next]_vars
    PROVE  Outcome!Next \/ UNCHANGED Outcome!vars
<1>a. TestTypeOK /\ Errors
  BY DEF ErrorInv
<1>1. CASE CityToken
  BY <1>1, <1>a DEF Outcome!vars, TestTypeOK, Errors, Stage, NoError, CityToken, At,
    Goto
<1>2. CASE CityCreds
  BY <1>2, <1>a DEF Outcome!vars, TestTypeOK, Errors, Stage, NoError, CityCreds, At,
    Goto
<1>3. CASE CityRenew
  BY <1>3, <1>a DEF Outcome!vars, TestTypeOK, Errors, Stage, NoError, CityRenew, At,
    Pass, Goto
<1>4. CASE Create
  BY <1>4, <1>a DEF Outcome!vars, TestTypeOK, Errors, Stage, NoError, Create, At
<1>5. CASE StartContainer
  BY <1>5, <1>a DEF Outcome!vars, TestTypeOK, Errors, Stage, NoError, StartContainer,
    At, Pass, Goto
<1>6. CASE Token
  BY <1>6, <1>a DEF Outcome!vars, TestTypeOK, Errors, Stage, NoError, Token, At, Goto
<1>7. CASE Renew
  BY <1>7, <1>a DEF Outcome!vars, TestTypeOK, Errors, Stage, NoError, Renew, At, Pass,
    Goto
<1>8. CASE LoadsKey
  BY <1>8, <1>a DEF Outcome!vars, TestTypeOK, Errors, Stage, NoError, LoadsKey, At,
    Goto
<1>9. CASE PrivateKey
  BY <1>9, <1>a DEF Outcome!vars, TestTypeOK, Errors, Stage, NoError, PrivateKey, At,
    Goto
<1>10. CASE PublicKey
  BY <1>10, <1>a DEF Outcome!vars, TestTypeOK, Errors, Stage, NoError, PublicKey, At,
    Pass, Goto
<1>11. CASE Activate
  BY <1>11, <1>a DEF Outcome!vars, TestTypeOK, Errors, Stage, NoError, Activate, At,
    Goto
<1>12. CASE ServersListed
  BY <1>12, <1>a DEF Outcome!vars, TestTypeOK, Errors, Stage, NoError, ServersListed,
    At
<1>13. CASE Spawn
  BY <1>13, <1>a DEF Outcome!vars, TestTypeOK, Errors, Stage, NoError, Spawn, At, Goto
<1>14. CASE InitRead
  BY <1>14, <1>a DEF Outcome!vars, TestTypeOK, Errors, Stage, NoError, InitRead, At
<1>15. CASE InitOver
  BY <1>15, <1>a DEF Outcome!vars, TestTypeOK, Errors, Stage, NoError, InitOver, At,
    Goto
<1>16. CASE KillLate
  BY <1>16, <1>a DEF Outcome!vars, TestTypeOK, Errors, Stage, NoError, KillLate, At
<1>17. CASE Connects
  BY <1>17, <1>a DEF Outcome!vars, TestTypeOK, Errors, Stage, NoError, Connects, At
<1>18. CASE ActivatedUnheard
  BY <1>18, <1>a DEF Outcome!vars, TestTypeOK, Errors, Stage, NoError,
    ActivatedUnheard, At, Exit
<1>19. CASE NoServer
  BY <1>19, <1>a DEF Outcome!vars, TestTypeOK, Errors, Stage, NoError, NoServer, At,
    Exit
<1>20. CASE SameAddress
  BY <1>20, <1>a DEF Outcome!vars, TestTypeOK, Errors, Stage, NoError, SameAddress, At
<1>21. CASE OtherAddress
  BY <1>21, <1>a DEF Outcome!vars, TestTypeOK, Errors, Stage, NoError, OtherAddress,
    At, Pass, Goto
<1>22. CASE Resolve
  BY <1>22, <1>a DEF Outcome!vars, TestTypeOK, Errors, Stage, NoError, Resolve, At,
    Pass, Goto
<1>23. CASE TargetProbe
  BY <1>23, <1>a DEF Outcome!vars, TestTypeOK, Errors, Stage, NoError, TargetProbe,
    At, Pass, Goto
<1>24. CASE TargetFound
  BY <1>24, <1>a DEF Outcome!vars, TestTypeOK, Errors, Stage, NoError, TargetFound,
    At, Pass, Goto
<1>25. CASE Stop
  BY <1>25, <1>a DEF Outcome!vars, TestTypeOK, Errors, Stage, NoError, Stop, At, Goto
<1>26. CASE StopFails
  BY <1>26, <1>a DEF Outcome!vars, TestTypeOK, Errors, Stage, NoError, StopFails, At,
    Pass, Goto
<1>27. CASE NewCredentials
  BY <1>27, <1>a DEF Outcome!vars, TestTypeOK, Errors, Stage, NoError, NewCredentials,
    At, sessionVars
<1>28. CASE TimePasses
  BY <1>28, <1>a DEF Outcome!vars, TestTypeOK, Errors, Stage, NoError, TimePasses,
    sessionVars
<1>29. CASE UNCHANGED vars
  BY <1>29, <1>a DEF Outcome!vars, TestTypeOK, Errors, Stage, NoError, vars,
    sessionVars
<1>30. CASE CityList
  <2>1. Outcome!Advances
    BY <1>30, <1>a DEF Outcome!Advances, Outcome!Goto, TestTypeOK, Errors, Stage,
      NoError, CityList, At, Pass, Goto
  <2> QED
    BY <2>1 DEF Outcome!Next
<1>31. CASE AskCities
  <2>1. Outcome!Begins
    BY <1>31, <1>a DEF Outcome!Begins, TestTypeOK, Errors, Stage, NoError, AskCities, At
  <2> QED
    BY <2>1 DEF Outcome!Next
<1>32. CASE StartTest
  <2>1. Outcome!Begins
    BY <1>32, <1>a DEF Outcome!Begins, TestTypeOK, Errors, Stage, NoError, StartTest, At
  <2> QED
    BY <2>1 DEF Outcome!Next
<1>33. CASE LocalProbe
  <2>1. Outcome!Advances
    BY <1>33, <1>a DEF Outcome!Advances, Outcome!Goto, TestTypeOK, Errors, Stage,
      NoError, LocalProbe, At
  <2> QED
    BY <2>1 DEF Outcome!Next
<1>34. CASE Creds
  <2>1. Outcome!Advances
    BY <1>34, <1>a DEF Outcome!Advances, Outcome!Goto, TestTypeOK, Errors, Stage,
      NoError, Creds, At
  <2> QED
    BY <2>1 DEF Outcome!Next
<1>35. CASE SpeedTest
  <2>1. Outcome!Advances
    BY <1>35, <1>a DEF Outcome!Advances, Outcome!Goto, TestTypeOK, Errors, Stage,
      NoError, SpeedTest, At, Pass, Goto
  <2> QED
    BY <2>1 DEF Outcome!Next
<1>36. CASE AddRun
  <2>1. Outcome!Counts
    BY <1>36, <1>a DEF Outcome!Counts, TestTypeOK, Errors, Stage, NoError, AddRun, At
  <2> QED
    BY <2>1 DEF Outcome!Next
<1>37. CASE Handle
  <2>1. Outcome!Handled
    BY <1>37, <1>a DEF Outcome!Handled, Outcome!Goto, TestTypeOK, Errors, Stage,
      NoError, Handle, At, Pass, Goto
  <2> QED
    BY <2>1 DEF Outcome!Next
<1>38. CASE Cancel
  <2>1. Outcome!Cancel
    BY <1>38, <1>a DEF Outcome!Cancel, TestTypeOK, Errors, Stage, NoError, Cancel
  <2> QED
    BY <2>1 DEF Outcome!Next
<1>39. CASE CityFails
  <2>1. Outcome!Raises
    BY <1>39, <1>a DEF Outcome!Raises, Outcome!Goto, TestTypeOK, Errors, Stage, NoError,
      CityFails, Raise, Exit
  <2> QED
    BY <2>1 DEF Outcome!Next
<1>40. CASE ConnectFails \/ LoginFails \/ NotConnected \/ ProbeFails
  <2>1. Raise("run") /\ ~cancelling /\ Exit(at) # "idle"
    BY <1>40 DEF ConnectFails, LoginFails, NotConnected, ProbeFails, At, Exit
  <2>2. err.kind \notin {"cancelled", "lost"}
    BY <1>40, <1>a DEF ConnectFails, LoginFails, NotConnected, ProbeFails, At, Errors, NoError
  <2> QED
    BY <2>1, <2>2, RaiseStutters
<1>41. CASE NoTarget \/ SpeedTestFails
  <2>1. (Raise("group") \/ Raise("case")) /\ ~cancelling /\ Exit(at) # "idle"
    BY <1>41 DEF NoTarget, SpeedTestFails, At, Exit
  <2>2. err.kind \notin {"cancelled", "lost"}
    BY <1>41, <1>a DEF NoTarget, SpeedTestFails, At, Errors, NoError
  <2> QED
    BY <2>1, <2>2, RaiseStutters
<1>42. CASE ContainerRaises
  <2>1. Raise("env") /\ ~cancelling
    BY <1>42 DEF ContainerRaises
  <2>2. CASE Exit(at) # "idle"
    <3>1. at # "delete"
      BY <2>2 DEF Exit
    <3>2. err.kind \notin {"cancelled", "lost"}
      BY <1>42, <3>1, <1>a DEF ContainerRaises, Errors, NoError
    <3> QED
      BY <2>1, <2>2, <3>2, RaiseStutters
  <2>3. CASE Exit(at) = "idle" /\ err.kind \notin {"cancelled", "lost"}
    <3>1. Outcome!Raises
      BY <1>42, <2>1, <2>3, <1>a DEF Outcome!Raises, Outcome!Goto, TestTypeOK, Errors, Stage,
        NoError, ContainerRaises, Raise, Exit
    <3> QED
      BY <3>1 DEF Outcome!Next
  <2>4. CASE Exit(at) = "idle" /\ err.kind \in {"cancelled", "lost"}
    <3>1. Outcome!Cancelled
      BY <2>1, <2>4 DEF Outcome!Cancelled, Stage, NoError, Raise
    <3> QED
      BY <3>1 DEF Outcome!Next
  <2> QED
    BY <2>2, <2>3, <2>4
<1>43. CASE Cancelled
  <2>1. Raise("cancelled") /\ cancelling
    BY <1>43 DEF Cancelled
  <2>2. CASE Exit(at) = "idle"
    <3>1. Outcome!Cancelled
      BY <2>1, <2>2 DEF Outcome!Cancelled, Stage, NoError, Raise
    <3> QED
      BY <3>1 DEF Outcome!Next
  <2> QED
    BY <2>1, <2>2, RaiseStutters
<1>44. CASE CancelLost
  <2>1. Raise("lost") /\ cancelling /\ Exit(at) # "idle"
    BY <1>44 DEF CancelLost, Exit
  <2> QED
    BY <2>1, RaiseStutters
<1>45. CASE Delete
  <2>1. CASE err = NoError
    <3>1. Outcome!Sends
      BY <1>45, <2>1 DEF Outcome!Sends, Stage, NoError, Delete, At, AfterTest
    <3> QED
      BY <3>1 DEF Outcome!Next
  <2>2. CASE err.kind = "run" \/ err.kind \in {"group", "case"}
    <3>1. Outcome!Fails
      BY <1>45, <2>2, <1>a DEF Outcome!Fails, Outcome!Goto, TestTypeOK, Errors, Stage,
        NoError, Delete, At, AfterTest
    <3> QED
      BY <3>1 DEF Outcome!Next
  <2>3. CASE err.kind = "env"
    <3>1. Outcome!Raises
      BY <1>45, <2>3, <1>a DEF Outcome!Raises, Outcome!Goto, TestTypeOK, Errors, Stage,
        NoError, Delete, At, AfterTest
    <3> QED
      BY <3>1 DEF Outcome!Next
  <2>4. CASE err.kind = "cancelled"
    <3>1. Outcome!Cancelled
      BY <1>45, <2>4, <1>a DEF Outcome!Cancelled, TestTypeOK, Errors, Stage, NoError,
        Delete, At, AfterTest
    <3> QED
      BY <3>1 DEF Outcome!Next
  <2>5. CASE err.kind = "lost"
    <3>1. Outcome!Lost
      BY <1>45, <2>5, <1>a DEF Outcome!Lost, TestTypeOK, Errors, Stage, NoError, Delete, At,
        AfterTest
    <3> QED
      BY <3>1 DEF Outcome!Next
  <2> QED
    BY <2>1, <2>2, <2>3, <2>4, <2>5, <1>a DEF TestTypeOK, Errors
<1>46. CASE CityCredsHalf
  <2>1. Outcome!Raises
    BY <1>46, <1>a DEF Outcome!Raises, Outcome!Goto, TestTypeOK, Errors, Stage, NoError,
      CityCredsHalf, At, Goto
  <2> QED
    BY <2>1 DEF Outcome!Next
<1>47. CASE CredsHalf
  BY <1>47, <1>a DEF Outcome!vars, TestTypeOK, Errors, Stage, NoError, CredsHalf, At, Exit
<1> QED
  BY <1>1, <1>2, <1>3, <1>4, <1>5, <1>6, <1>7, <1>8, <1>9, <1>10, <1>11, <1>12, <1>13,
     <1>14, <1>15, <1>16, <1>17, <1>18, <1>19, <1>20, <1>21, <1>22, <1>23, <1>24, <1>25,
     <1>26, <1>27, <1>28, <1>29, <1>30, <1>31, <1>32, <1>33, <1>34, <1>35, <1>36, <1>37,
     <1>38, <1>39, <1>40, <1>41, <1>42, <1>43, <1>44, <1>45, <1>46, <1>47
  DEF Next, Coroutine

-------------------------------------------------------------------------------
(* The provider keeps its types.                                             *)
LEMMA InitSurfTypes == Init => SurfTypeOK
BY Bounds DEF Init, SurfInit, SurfTypeOK, NewProvider, NoConfig, Keys, Techs

LEMMA StepSurfTypes ==
    ASSUME SurfTypeOK, ErrorInv, [Next]_vars
    PROVE  SurfTypeOK'
<1>a. /\ number \in 0..MaxTests /\ test.tech \in Techs
      /\ day + 1 \in 0..MaxDay + 1 /\ day \in 0..MaxDay + 1
  BY Bounds DEF ErrorInv, TestTypeOK, Tests, SurfTypeOK
<1>1. CASE Plain \/ UNCHANGED vars
  <2>1. UNCHANGED surfVars
    BY <1>1, PlainSurf DEF vars
  <2> QED
    BY <2>1 DEF surfVars, SurfTypeOK
<1>2. CASE CityCreds \/ Creds \/ CityCredsHalf \/ CredsHalf
  BY <1>2 DEF CityCreds, Creds, GetCredentials, CityCredsHalf, CredsHalf,
    GetCredentialsHalf, SurfTypeOK
<1>3. CASE LoadsKey
  BY <1>3 DEF LoadsKey, LoadKey, SurfTypeOK
<1>4. CASE PrivateKey
  <2>1. PICK k \in Keys : surf' = [surf EXCEPT !.key = k] /\ UNCHANGED <<service, config, day>>
    BY <1>4 DEF PrivateKey, GenerateKey, Unused
  <2>2. k \in 0..MaxKeys
    BY DEF Keys
  <2> QED
    BY <2>1, <2>2 DEF SurfTypeOK
<1>5. CASE Activate
  <2>1. PICK expires \in {day, day + 1} :
          /\ service' = [service EXCEPT ![surf.key] = expires]
          /\ surf' = [surf EXCEPT !.file = [key |-> surf.key, expires |-> expires]]
          /\ UNCHANGED <<config, day>>
    BY <1>5 DEF Activate, ActivateKey
  <2>2. expires \in 0..MaxDay + 1 /\ surf.key \in 0..MaxKeys
    BY <1>a DEF SurfTypeOK
  <2> QED
    BY <2>1, <2>2 DEF SurfTypeOK
<1>6. CASE ActivatedUnheard
  <2>1. PICK expires \in {day, day + 1} :
          /\ service' = [service EXCEPT ![surf.key] = expires]
          /\ UNCHANGED <<surf, config, day>>
    BY <1>6 DEF ActivatedUnheard, ActivateKeyUnheard
  <2>2. expires \in 0..MaxDay + 1
    BY <1>a
  <2> QED
    BY <2>1, <2>2 DEF SurfTypeOK
<1>7. CASE ServersListed
  BY <1>7, <1>a DEF ServersListed, Configure, SurfTypeOK
<1>8. CASE NoServer
  BY <1>8, <1>a DEF NoServer, ConfigureFails, SurfTypeOK
<1>9. CASE Spawn
  BY <1>9, <1>a DEF Spawn, OpenVPNSpawned, SurfTypeOK
<1>10. CASE KillLate
  BY <1>10, Bounds DEF KillLate, OpenVPNKilled, SurfTypeOK
<1>11. CASE Stop
  <2>1. 0 \in 0..MaxTests /\ 0 \in 0..MaxKeys
    BY Bounds
  <2>2. \/ surf' = [surf EXCEPT !.current = "none"]
        \/ surf' = [surf EXCEPT !.current = "none", !.proc = 0]
    BY <1>11 DEF Stop, Disconnect, OpenVPNKilled
  <2> QED
    BY <1>11, <2>1, <2>2 DEF Stop, Disconnect, NoConfig, SurfTypeOK
<1>12. CASE NewCredentials
  BY <1>12, Bounds DEF NewCredentials, NewProvider, SurfTypeOK
<1>13. CASE TimePasses
  BY <1>13, Bounds DEF TimePasses, NextDay, SurfTypeOK
<1>14. CASE LocalProbe
  BY <1>14 DEF LocalProbe, Login, HasLogin, SurfTypeOK
<1> QED
  BY <1>1, <1>2, <1>3, <1>4, <1>5, <1>6, <1>7, <1>8, <1>9, <1>10, <1>11, <1>12, <1>13,
     <1>14
  DEF Next, Coroutine, Plain

-------------------------------------------------------------------------------
(* What is stopped.  From the start of a technology until its end the        *)
(* provider's objects belong to this test.                                   *)
Running == {"init", "kill", "stop"} \cup InSession
Started == {"spawn", "up"} \cup Running

Own ==
    /\ at \in Started => surf.current = test.tech /\ surf.env[test.tech] = number
    /\ at \in Running /\ test.tech = "openvpn" => surf.proc = number
    /\ at \in {"spawn", "init", "kill"} => test.tech = "openvpn"
    /\ at = "up" => test.tech # "openvpn"

LEMMA StepOwn ==
    ASSUME Own, SurfTypeOK, ErrorInv, [Next]_vars
    PROVE  Own'
<1> USE DEF Running, Started
<1>a. test.tech \in Techs
  BY DEF ErrorInv, TestTypeOK, Tests
<1>b. ASSUME at' \notin Started
      PROVE  Own'
  BY <1>b DEF Own
<1>c. ASSUME UNCHANGED <<test, number, surf>>, at \in Running, at' \in Running,
             at' \in {"init", "kill"} => at = "init"
      PROVE  Own'
  BY <1>c DEF Own
<1>d. ASSUME NEW kind, Raise(kind)
      PROVE  Own'
  <2>1. CASE at' \notin Started
    BY <2>1, <1>b
  <2>2. CASE at' \in Started
    BY <2>2, <1>d, <1>c DEF Raise, Exit, surfVars
  <2> QED
    BY <2>1, <2>2
<1>1. CASE ServersListed
  BY <1>1, <1>a DEF ServersListed, Configure, Own, SurfTypeOK
<1>2. CASE Spawn
  BY <1>2, <1>a DEF Spawn, Goto, At, OpenVPNSpawned, Own, SurfTypeOK
<1>3. CASE InitRead \/ InitOver
  BY <1>3, <1>c DEF InitRead, InitOver, At, Goto, surfVars
<1>4. CASE Connects
  BY <1>4 DEF Connects, At, Own, surfVars
<1>5. CASE SameAddress \/ OtherAddress
  BY <1>5, <1>c DEF SameAddress, OtherAddress, Pass, At, Goto, surfVars
<1>6. CASE Resolve \/ TargetProbe \/ TargetFound \/ SpeedTest \/ AddRun
  BY <1>6, <1>c DEF Resolve, TargetProbe, TargetFound, SpeedTest, AddRun, Pass, At, Goto,
    surfVars
<1>7. CASE Cancel \/ TimePasses \/ UNCHANGED vars
  BY <1>7 DEF Cancel, TimePasses, NextDay, vars, sessionVars, surfVars, Own
<1>8. CASE CityFails \/ LoginFails \/ ConnectFails \/ NotConnected \/ NoTarget
           \/ SpeedTestFails \/ ProbeFails \/ ContainerRaises \/ Cancelled \/ CancelLost
  BY <1>8, <1>d DEF CityFails, LoginFails, ConnectFails, NotConnected, NoTarget,
    SpeedTestFails, ProbeFails, ContainerRaises, Cancelled, CancelLost
<1>9. CASE CityToken \/ CityCreds \/ CityCredsHalf \/ CityRenew \/ CityList \/ AskCities
           \/ StartTest \/ Create \/ StartContainer \/ LocalProbe \/ Token \/ Creds
  BY <1>9, <1>b DEF CityToken, CityCreds, CityCredsHalf, CityRenew, CityList, AskCities,
    StartTest, Create, StartContainer, LocalProbe, Token, Creds, Pass, Goto
<1>10. CASE Renew \/ LoadsKey \/ PrivateKey \/ PublicKey \/ Activate
  BY <1>10, <1>b DEF Renew, LoadsKey, PrivateKey, PublicKey, Activate, Pass, Goto
<1>11. CASE CredsHalf \/ KillLate \/ ActivatedUnheard \/ NoServer
  BY <1>11, <1>b DEF CredsHalf, KillLate, ActivatedUnheard, NoServer, Exit, At
<1>12. CASE Stop \/ StopFails \/ Delete \/ Handle \/ NewCredentials
  BY <1>12, <1>b DEF Stop, StopFails, Delete, AfterTest, Handle, NewCredentials, Pass,
    Goto, At, sessionVars
<1> QED
  BY <1>1, <1>2, <1>3, <1>4, <1>5, <1>6, <1>7, <1>8, <1>9, <1>10, <1>11, <1>12
  DEF Next, Coroutine

-------------------------------------------------------------------------------
(* What a connection is made with.  Whoever connects holds the service's     *)
(* credentials, or half of them.  A key is good from its activation on;      *)
(* the file holds a key only together with what the service said of it; and  *)
(* a new key is one the service has never heard of.                          *)
Good(key) == key # 0 /\ service[key] >= since

KeyInv ==
    /\ since <= day
    /\ at \in InConnect => HasLogin /\ surf.creds = surf.user
    /\ surf.file.key # 0 =>
         service[surf.file.key] = surf.file.expires /\ surf.file.expires # 0
    /\ at \in {"wg_renew", "private", "public", "activate"} => test.tech = "wireguard"
    /\ at \in {"public", "activate"} => surf.key # 0 /\ service[surf.key] = 0
    /\ at = "servers" /\ test.tech = "wireguard" => Good(surf.key)
    /\ Authorised

LEMMA StepKey ==
    ASSUME KeyInv, SurfTypeOK, ErrorInv, [Next]_vars
    PROVE  KeyInv'
<1> USE DEF HasLogin
<1>a. day \in Int /\ since \in Int /\ test.tech \in Techs
  BY DEF SurfTypeOK, ErrorInv, TestTypeOK, Tests
<1>b. ASSUME UNCHANGED <<surf, service, config, day, test, since>>,
             at' \in InConnect => HasLogin /\ surf.creds = surf.user,
             at' \in {"wg_renew", "private", "public", "activate", "servers"} =>
               \/ at' = at
               \/ at' = "wg_renew" /\ test.tech = "wireguard"
               \/ at' = "activate" /\ at = "public"
               \/ at' = "servers" /\ test.tech # "wireguard",
             Configured' => Configured
      PROVE  KeyInv'
  BY <1>b DEF KeyInv, Authorised, Good, Configured
<1>c. ASSUME UNCHANGED <<surf, service, config, day, test, since>>,
             at' \notin InConnect \cup InSession
      PROVE  KeyInv'
  BY <1>c DEF KeyInv, Authorised, Good, Configured
<1>d. ASSUME NEW kind, Raise(kind)
      PROVE  KeyInv'
  BY <1>d, <1>c DEF Raise, Exit, surfVars
<1>1. CASE CityFails \/ LoginFails \/ ConnectFails \/ NotConnected \/ NoTarget
           \/ SpeedTestFails \/ ProbeFails \/ ContainerRaises \/ Cancelled \/ CancelLost
  BY <1>1, <1>d DEF CityFails, LoginFails, ConnectFails, NotConnected, NoTarget,
    SpeedTestFails, ProbeFails, ContainerRaises, Cancelled, CancelLost
<1>2. CASE CityToken \/ CityRenew \/ CityList \/ AskCities \/ Create \/ StartContainer
           \/ Token \/ StopFails \/ Delete \/ Handle
  BY <1>2, <1>c DEF CityToken, CityRenew, CityList, AskCities, Create, StartContainer,
    Token, GetToken, StopFails, Delete, AfterTest, Handle, Pass, Goto, surfVars
<1>3. CASE StartTest
  BY <1>3 DEF StartTest, At, KeyInv, Authorised, Good, Configured, surfVars
<1>4. CASE Renew
  BY <1>4, <1>b DEF Renew, Pass, At, Goto, surfVars, KeyInv, Configured
<1>5. CASE PublicKey
  BY <1>5, <1>b DEF PublicKey, Pass, At, Goto, surfVars, KeyInv, Configured
<1>6. CASE InitRead \/ InitOver \/ Connects
  BY <1>6, <1>b DEF InitRead, InitOver, Connects, At, Goto, surfVars, KeyInv, Configured
<1>7. CASE SameAddress \/ OtherAddress \/ Resolve \/ TargetProbe \/ TargetFound
           \/ SpeedTest
  BY <1>7, <1>b DEF SameAddress, OtherAddress, Resolve, TargetProbe, TargetFound,
    SpeedTest, Pass, At, Goto, surfVars, Configured
<1>8. CASE AddRun
  BY <1>8, <1>c DEF AddRun, surfVars
<1>9. CASE Cancel \/ UNCHANGED vars
  BY <1>9, <1>b DEF Cancel, vars, sessionVars, surfVars, KeyInv, Configured
<1>10. CASE TimePasses
  BY <1>10, <1>a DEF TimePasses, NextDay, sessionVars, KeyInv, Authorised, Good, Configured
<1>11. CASE LocalProbe
  BY <1>11, <1>a DEF LocalProbe, Login, SurfTypeOK, At, KeyInv, Authorised, Good, Configured
<1>12. CASE CityCreds \/ CityCredsHalf
  BY <1>12, <1>a DEF CityCreds, CityCredsHalf, GetCredentials, GetCredentialsHalf, At, Goto, KeyInv, Authorised, Good,
    Configured, SurfTypeOK
<1>13. CASE Creds \/ CredsHalf
  <2>1. CASE Creds
    BY <2>1, <1>a DEF Creds, GetCredentials, At, KeyInv, Authorised, Good, Configured,
      SurfTypeOK
  <2>2. CASE CredsHalf
    BY <2>2, <1>a DEF CredsHalf, GetCredentialsHalf, At, Exit, KeyInv, Authorised, Good,
      Configured, SurfTypeOK
  <2> QED
    BY <1>13, <2>1, <2>2
<1>14. CASE LoadsKey
  <2>1. SavedKeyGood => surf.file.expires > day
    BY DEF SavedKeyGood, Expired, SurfTypeOK
  <2> QED
    BY <1>14, <2>1, <1>a DEF LoadsKey, LoadKey, SavedKeyGood, At, Goto, KeyInv, Authorised,
      Good, Configured, SurfTypeOK
<1>15. CASE PrivateKey
  <2>1. PICK k \in Unused : surf' = [surf EXCEPT !.key = k] /\ UNCHANGED <<service, config, day>>
    BY <1>15 DEF PrivateKey, GenerateKey
  <2>2. k \in Keys /\ k # 0 /\ service[k] = 0
    BY Bounds DEF Unused, Keys
  <2> QED
    BY <1>15, <2>1, <2>2 DEF PrivateKey, At, Goto, KeyInv, Authorised, Good, Configured,
      SurfTypeOK
<1>16. CASE Activate
  <2>1. PICK expires \in {day, day + 1} :
          /\ service' = [service EXCEPT ![surf.key] = expires]
          /\ surf' = [surf EXCEPT !.file = [key |-> surf.key, expires |-> expires]]
          /\ UNCHANGED <<config, day>>
    BY <1>16 DEF Activate, ActivateKey
  <2>2. surf.key \in Keys /\ expires >= day /\ expires # 0
    BY <1>16, Bounds, <1>a DEF Activate, At, KeyInv, SurfTypeOK, Keys
  <2>3. service'[surf.key] = expires
    BY <2>1, <2>2 DEF SurfTypeOK
  <2> QED
    BY <1>16, <2>1, <2>2, <2>3, <1>a DEF Activate, At, Goto, KeyInv, Authorised, Good,
      Configured, SurfTypeOK
<1>17. CASE ActivatedUnheard
  <2>1. PICK expires \in {day, day + 1} :
          /\ service' = [service EXCEPT ![surf.key] = expires]
          /\ UNCHANGED <<surf, config, day>>
    BY <1>17 DEF ActivatedUnheard, ActivateKeyUnheard
  <2>2. surf.file.key # 0 =>
          surf.file.key # surf.key /\ service'[surf.file.key] = service[surf.file.key]
    BY <1>17, <2>1, Bounds DEF ActivatedUnheard, At, KeyInv, SurfTypeOK, Keys
  <2> QED
    BY <1>17, <2>1, <2>2 DEF ActivatedUnheard, At, Exit, KeyInv, Authorised, Good, Configured
<1>18. CASE ServersListed
  BY <1>18 DEF ServersListed, Configure, At, KeyInv, Authorised, Good, Configured, SurfTypeOK
<1>19. CASE NoServer
  BY <1>19 DEF NoServer, ConfigureFails, Exit, At, KeyInv, Authorised, Good, Configured,
    SurfTypeOK
<1>20. CASE Spawn
  BY <1>20 DEF Spawn, OpenVPNSpawned, Goto, At, KeyInv, Authorised, Good, Configured,
    SurfTypeOK
<1>21. CASE KillLate
  BY <1>21 DEF KillLate, OpenVPNKilled, At, KeyInv, Authorised, Good, Configured, SurfTypeOK
<1>22. CASE Stop
  BY <1>22 DEF Stop, Disconnect, OpenVPNKilled, Goto, At, KeyInv, Authorised, Good,
    Configured, SurfTypeOK
<1>23. CASE NewCredentials
  BY <1>23 DEF NewCredentials, NewProvider, At, sessionVars, KeyInv, Authorised, Good,
    Configured
<1> QED
  BY <1>1, <1>2, <1>3, <1>4, <1>5, <1>6, <1>7, <1>8, <1>9, <1>10, <1>11, <1>12, <1>13,
     <1>14, <1>15, <1>16, <1>17, <1>18, <1>19, <1>20, <1>21, <1>22, <1>23
  DEF Next, Coroutine

-------------------------------------------------------------------------------
SessionInv == ErrorInv /\ SurfTypeOK /\ Own /\ KeyInv

LEMMA InitSessionInv == Init => SessionInv
<1>1. ASSUME Init
      PROVE  Own /\ KeyInv
  BY <1>1 DEF Init, SurfInit, NewProvider, Own, Running, Started, KeyInv, Authorised,
    Configured
<1> QED
  BY <1>1, InitErrorInv, InitSurfTypes DEF SessionInv

LEMMA StepSessionInv == SessionInv /\ [Next]_vars => SessionInv'
BY StepErrorInv, StepSurfTypes, StepOwn, StepKey DEF SessionInv

(* Always: the variables have their types, and the invariants above hold.    *)
THEOREM SessionInvAlways == Spec => []SessionInv
BY InitSessionInv, StepSessionInv, PTL DEF Spec

(* VPNSession.disconnect and a late OpenVPN.start stop the technology and    *)
(* the process of this very test (templated.py, openvpn.py).                 *)
THEOREM StopsItsOwnAlways == Spec => []StopsItsOwn
<1>1. SessionInv => StopsItsOwn
  BY DEF SessionInv, Own, Running, Started, StopsItsOwn
<1> QED
  BY <1>1, SessionInvAlways, PTL

(* Nothing connects with the credentials of the account, but with what the   *)
(* provider holds from the service, the user name alone if an answer once    *)
(* had no password; and WireGuard only with a key that the service has       *)
(* activated and that does not expire before the day on which connect began  *)
(* (surfshark.py, login and _get_wg_config).                                 *)
THEOREM AuthorisedAlways == Spec => []Authorised
<1>1. SessionInv => Authorised
  BY DEF SessionInv, KeyInv
<1> QED
  BY <1>1, SessionInvAlways, PTL

(* To its owner a test is one of the outcomes that Runner is built on:       *)
(* whatever the session does is a step of Outcomes or is not seen.           *)
THEOREM OutcomesCorrect == Spec => OutcomesSpec
<1>1. SessionInv /\ [Next]_vars => [Outcome!Next]_(Outcome!vars)
  BY StepOutcome DEF SessionInv
<1> QED
  BY <1>1, InitOutcome, SessionInvAlways, PTL DEF Spec, OutcomesSpec, Outcome!Spec

(* Whatever ends a test ends it from a handler, with the container as it was.*)
LEMMA EndsInHandler ==
    ASSUME ErrorInv, [Next]_vars, at' = "idle", at \in InContainer \cup Handlers
    PROVE  at \in Handlers /\ UNCHANGED <<test, containers>>
<1>a. ASSUME NEW kind, Raise(kind)
      PROVE  at \in Handlers /\ UNCHANGED <<test, containers>>
  BY <1>a DEF Raise, Exit, Interrupted
<1>1. CASE CityFails \/ LoginFails \/ ConnectFails \/ NotConnected \/ NoTarget
           \/ SpeedTestFails \/ ProbeFails \/ ContainerRaises \/ Cancelled \/ CancelLost
  BY <1>1, <1>a DEF CityFails, LoginFails, ConnectFails, NotConnected, NoTarget,
    SpeedTestFails, ProbeFails, ContainerRaises, Cancelled, CancelLost
<1>2. CASE Handle
  BY <1>2 DEF Handle, Pass, Goto, At
<1>3. ~(CityToken \/ CityCreds \/ CityCredsHalf \/ CityRenew \/ CityList \/ AskCities
        \/ StartTest \/ Create \/ StartContainer \/ LocalProbe \/ Token \/ Creds \/ CredsHalf)
  BY DEF CityToken, CityCreds, CityCredsHalf, CityRenew, CityList, AskCities, StartTest,
    Create, StartContainer, LocalProbe, Token, Creds, CredsHalf, Pass, Goto, At, Exit
<1>4. ~(Renew \/ LoadsKey \/ PrivateKey \/ PublicKey \/ Activate \/ ServersListed
        \/ Spawn \/ InitRead \/ InitOver \/ Connects)
  BY DEF Renew, LoadsKey, PrivateKey, PublicKey, Activate, ServersListed, Spawn, InitRead,
    InitOver, Connects, Pass, Goto, At
<1>5. ~(KillLate \/ ActivatedUnheard \/ NoServer \/ SameAddress \/ OtherAddress \/ Resolve
        \/ TargetProbe \/ TargetFound \/ SpeedTest \/ AddRun)
  BY DEF KillLate, ActivatedUnheard, NoServer, Exit, SameAddress, OtherAddress, Resolve,
    TargetProbe, TargetFound, SpeedTest, AddRun, Pass, Goto, At
<1>6. ~(Stop \/ StopFails \/ Delete \/ Cancel \/ NewCredentials \/ TimePasses
        \/ UNCHANGED vars)
  BY DEF Stop, StopFails, Delete, Cancel, NewCredentials, TimePasses, vars, sessionVars,
    Pass, Goto, At
<1> QED
  BY <1>1, <1>2, <1>3, <1>4, <1>5, <1>6 DEF Next, Coroutine

(* A coroutine has one test until the next one starts.                       *)
LEMMA KeepsTest ==
    ASSUME [Next]_vars, ~StartTest
    PROVE  test' = test
<1>1. CityToken \/ CityCreds \/ CityCredsHalf \/ CityRenew \/ CityList \/ AskCities
        \/ Create \/ StartContainer \/ LocalProbe \/ Token \/ Creds \/ CredsHalf
        => test' = test
  BY DEF CityToken, CityCreds, CityCredsHalf, CityRenew, CityList, AskCities, Create,
    StartContainer, LocalProbe, Token, Creds, CredsHalf, Pass, Goto
<1>2. Renew \/ LoadsKey \/ PrivateKey \/ PublicKey \/ Activate \/ ServersListed
        \/ Spawn \/ InitRead \/ InitOver \/ Connects => test' = test
  BY DEF Renew, LoadsKey, PrivateKey, PublicKey, Activate, ServersListed, Spawn, InitRead,
    InitOver, Connects, Pass, Goto
<1>3. KillLate \/ ActivatedUnheard \/ NoServer \/ SameAddress \/ OtherAddress \/ Resolve
        \/ TargetProbe \/ TargetFound \/ SpeedTest \/ AddRun => test' = test
  BY DEF KillLate, ActivatedUnheard, NoServer, SameAddress, OtherAddress, Resolve,
    TargetProbe, TargetFound, SpeedTest, AddRun, Pass, Goto
<1>4. Stop \/ StopFails \/ Delete \/ Handle \/ Cancel \/ NewCredentials \/ TimePasses
        \/ UNCHANGED vars => test' = test
  BY DEF Stop, StopFails, Delete, Handle, Cancel, NewCredentials, TimePasses, vars,
    sessionVars, Pass, Goto
<1>5. CityFails \/ LoginFails \/ ConnectFails \/ NotConnected \/ NoTarget
        \/ SpeedTestFails \/ ProbeFails \/ ContainerRaises \/ Cancelled \/ CancelLost
        => test' = test
  BY DEF CityFails, LoginFails, ConnectFails, NotConnected, NoTarget, SpeedTestFails,
    ProbeFails, ContainerRaises, Cancelled, CancelLost, Raise
<1> QED
  BY <1>1, <1>2, <1>3, <1>4, <1>5 DEF Next, Coroutine

(* ContainerEnvironment.__aexit__ runs on every way out of an open session:  *)
(* no handler, and not the owner either, finds the container of the test.    *)
THEOREM NoContainerLeft == Spec => LeavesNoContainer
<1> DEFINE Leaves == at' \in Handlers \/ (at' = "idle" /\ at \in InContainer \cup Handlers)
                       => test.tech \notin containers'
<1>1. SessionInv /\ [Next]_vars => [Leaves]_vars
  <2> SUFFICES ASSUME SessionInv, [Next]_vars,
                      at' \in Handlers \/ (at' = "idle" /\ at \in InContainer \cup Handlers)
               PROVE  test.tech \notin containers'
    OBVIOUS
  <2>1. CASE at' \in Handlers
    <3>1. test'.tech \notin containers'
      BY <2>1, StepErrorInv DEF SessionInv, ErrorInv, Errors
    <3>2. test' = test
      BY <2>1, KeepsTest DEF StartTest
    <3> QED
      BY <3>1, <3>2
  <2>2. CASE at' = "idle" /\ at \in InContainer \cup Handlers
    BY <2>2, EndsInHandler DEF SessionInv, ErrorInv, Errors
  <2> QED
    BY <2>1, <2>2
<1> QED
  BY <1>1, SessionInvAlways, PTL DEF Spec, LeavesNoContainer

===============================================================================
