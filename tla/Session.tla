-------------------------------- MODULE Session -------------------------------
(*****************************************************************************)
(* The inside of a test: Runner._run_case with ContainerEnvironment,         *)
(* VPNSession, the probes and SpeedTestCliTester, on the provider Surfshark, *)
(* and the lookup of a city that may come before it.                         *)
(*                                                                           *)
(* One coroutine; "at" is the await at which it is suspended.  Repeated      *)
(* attempts of one request are one action with their last outcome.           *)
(*****************************************************************************)
EXTENDS Surfshark

CONSTANTS
    MaxTests,     \* bound on the tests
    Tries         \* how often the connection is checked, and OpenVPN's log read

ASSUME SessionAssumption ==
    {MaxKeys, MaxDay, MaxTests, Tries} \subseteq Nat \ {0} /\ MaxTests <= MaxKeys

VARIABLES
    at,
    test,         \* [tech, country, target]: which of the two are not "auto"
    number,       \* of the test: tells the containers apart
    containers,   \* technologies whose container exists: names are vpn_technology
    err,          \* the exception on its way to a handler: [kind, stage]
    tries, since, \* of the loops; the day on which connect began
    cancelling, counted, sent

sessionVars == <<at, test, number, containers, err, tries, since, cancelling, counted, sent>>
vars == <<sessionVars, surfVars>>

NoError == [kind |-> "none", stage |-> "none"]
Tests == [tech : Techs, country : {"auto", "set"}, target : {"auto", "set"}]

(* The awaits of the city lookup, of login, connect and what follows them,   *)
(* and those within the two "async with" blocks.                             *)
InCity == {"city_token", "city_creds", "city_renew", "city_list"}
InLogin == {"token", "creds"}
InConnect == {"renew", "wg_renew", "private", "public", "activate", "servers", "spawn",
              "init", "kill", "up"}
InSession == {"check", "resolve", "target_probe", "validate", "speedtest", "add_run"}
InContainer == {"local", "stop"} \cup InLogin \cup InConnect \cup InSession
Handlers == {"fail_run", "fail_group", "fail_case", "delay"}

Stage ==
    IF err # NoError THEN err.stage
    ELSE CASE at \in InCity -> "city"
           [] at \in {"create", "start", "local"} -> "env"
           [] at \in InLogin -> "login"
           [] at \in InConnect \cup (InSession \ {"add_run"}) -> "vpn"
           [] at \in {"stop", "delete"} -> "exit"
           [] OTHER -> at

Init ==
    /\ SurfInit
    /\ at = "idle" /\ test \in Tests /\ number = 0 /\ containers = {} /\ err = NoError
    /\ tries = 0 /\ since = 1
    /\ cancelling = FALSE /\ counted = FALSE /\ sent = FALSE

-------------------------------------------------------------------------------
Goto(place) ==
    /\ at' = place
    /\ UNCHANGED <<test, number, containers, err, tries, since, cancelling, counted, sent>>

At(place) == at = place /\ ~cancelling
Pass(from, to) == At(from) /\ Goto(to) /\ UNCHANGED surfVars

(* An exception: the blocks that were entered are left in turn.              *)
Exit_Undeleted(place) == IF place \in InSession THEN "stop" ELSE "idle"
Exit_AlwaysStop(place) ==
    IF place \in InSession \cup InConnect THEN "stop"
    ELSE IF place \in InContainer THEN "delete" ELSE "idle"
Exit(place) ==
    IF place \in InSession THEN "stop"
    ELSE IF place \in InContainer THEN "delete" ELSE "idle"

(* Docker may have done what it was asked to and was interrupted in.         *)
Interrupted ==
    {containers} \cup (IF at = "create" THEN {containers \cup {test.tech}}
                      ELSE IF at = "delete" THEN {containers \ {test.tech}} ELSE {})

Raise(kind) ==
    /\ at' = Exit(at)
    /\ err' = IF at' = "idle" THEN NoError ELSE [kind |-> kind, stage |-> Stage]
    /\ containers' \in Interrupted
    /\ cancelling' = FALSE
    /\ UNCHANGED <<test, number, tries, since, counted, sent, surfVars>>

-------------------------------------------------------------------------------
(* random_city_check of the runner: SurfShark.get_cities.                    *)
AskCities ==
    /\ At("idle")
    /\ at' = IF HasLogin THEN "city_renew" ELSE "city_token"
    /\ counted' = FALSE /\ sent' = FALSE
    /\ UNCHANGED <<test, number, containers, err, tries, since, cancelling, surfVars>>

CityToken == At("city_token") /\ Goto("city_creds") /\ GetToken
CityCreds == At("city_creds") /\ Goto("city_list") /\ GetCredentials
CityCredsHalf == At("city_creds") /\ Goto("idle") /\ GetCredentialsHalf
CityRenew == Pass("city_renew", "city_list")
CityList == Pass("city_list", "idle")
CityFails == ~cancelling /\ at \in InCity /\ Raise("env")

-------------------------------------------------------------------------------
(* _run_case up to the session: the container and the probe from within it.  *)
StartTest ==
    /\ At("idle") /\ number < MaxTests
    /\ number' = number + 1 /\ test' \in Tests
    /\ at' = "create" /\ counted' = FALSE /\ sent' = FALSE
    /\ UNCHANGED <<containers, err, tries, since, cancelling, surfVars>>

(* A leftover of the same name is replaced or used again.                    *)
Create ==
    /\ At("create") /\ at' = "start"
    /\ containers' = containers \cup {test.tech}
    /\ UNCHANGED <<test, number, err, tries, since, cancelling, counted, sent, surfVars>>

StartContainer == Pass("start", "local")

(* VPNSession.__aenter__: SurfShark.login does not suspend once it has the   *)
(* credentials, or half of them.                                             *)
LocalProbe ==
    /\ At("local")
    /\ at' = IF HasLogin THEN "renew" ELSE "token"
    /\ since' = day /\ Login
    /\ UNCHANGED <<test, number, containers, err, tries, cancelling, counted, sent>>

Token == At("token") /\ Goto("creds") /\ GetToken
Creds == At("creds") /\ at' = "renew" /\ since' = day /\ GetCredentials
         /\ UNCHANGED <<test, number, containers, err, tries, cancelling, counted, sent>>
CredsHalf ==
    /\ At("creds") /\ GetCredentialsHalf
    /\ at' = Exit(at) /\ err' = [kind |-> "run", stage |-> Stage]
    /\ UNCHANGED <<test, number, containers, tries, since, cancelling, counted, sent>>

(* SurfShark.connect.                                                        *)
Renew == Pass("renew", IF test.tech = "wireguard" THEN "wg_renew" ELSE "servers")
LoadsKey ==
    /\ At("wg_renew") /\ Goto(IF SavedKeyGood THEN "servers" ELSE "private")
    /\ LoadKey
PrivateKey == At("private") /\ Goto("public") /\ GenerateKey
PublicKey == Pass("public", "activate")
Activate == At("activate") /\ Goto("servers") /\ ActivateKey

ServersListed ==
    /\ At("servers") /\ tries' = 0
    /\ at' = IF test.tech = "openvpn" THEN "spawn" ELSE "up"
    /\ Configure(test.tech, number)
    /\ UNCHANGED <<test, number, containers, err, since, cancelling, counted, sent>>

(* OpenVPN.start reads the log of its process until it is up or time is over,*)
(* WireGuard and IPSec run one command.                                      *)
Spawn == At("spawn") /\ Goto("init") /\ OpenVPNSpawned(number)
InitRead_NoTimeout ==
    /\ At("init") /\ tries' = (tries + 1) % Tries
    /\ UNCHANGED <<at, test, number, containers, err, since, cancelling, counted, sent, surfVars>>
InitRead ==
    /\ At("init") /\ tries < Tries /\ tries' = tries + 1
    /\ UNCHANGED <<at, test, number, containers, err, since, cancelling, counted, sent, surfVars>>
InitOver ==
    /\ At("init") /\ tries = Tries /\ Goto("kill") /\ UNCHANGED surfVars
KillLate ==
    /\ At("kill")
    /\ at' = "delete" /\ err' = [kind |-> "run", stage |-> Stage] /\ surf' = OpenVPNKilled
    /\ UNCHANGED <<test, number, containers, tries, since, cancelling, counted, sent,
                   service, config, day>>

Connects ==
    /\ At("init") \/ At("up")
    /\ at' = "check" /\ tries' = 0
    /\ UNCHANGED <<test, number, containers, err, since, cancelling, counted, sent, surfVars>>

(* A connection fails in whatever way: VPNSession maps every exception, also *)
(* those of the container, to errors of the run; but what was done is done.  *)
ConnectFails == ~cancelling /\ at \in InConnect /\ Raise("run")
ActivatedUnheard ==
    /\ At("activate") /\ ActivateKeyUnheard
    /\ at' = Exit(at) /\ err' = [kind |-> "run", stage |-> Stage]
    /\ UNCHANGED <<test, number, containers, tries, since, cancelling, counted, sent>>
NoServer ==
    /\ At("servers") /\ ConfigureFails(test.tech)
    /\ at' = Exit(at) /\ err' = [kind |-> "run", stage |-> Stage]
    /\ UNCHANGED <<test, number, containers, tries, since, cancelling, counted, sent>>

LoginFails_Case == ~cancelling /\ at \in InLogin /\ Raise("case")
LoginFails == ~cancelling /\ at \in InLogin /\ Raise("run")

-------------------------------------------------------------------------------
(* The connection is checked with backoff, then the country, then the speed. *)
SameAddress ==
    /\ At("check") /\ tries + 1 < Tries /\ tries' = tries + 1
    /\ UNCHANGED <<at, test, number, containers, err, since, cancelling, counted, sent, surfVars>>
NotConnected ==
    At("check") /\ (tries + 1 = Tries \/ test.country = "set") /\ Raise("run")
OtherAddress == Pass("check", IF test.target = "set" THEN "resolve" ELSE "speedtest")

Resolve == Pass("resolve", "target_probe")
TargetProbe == Pass("target_probe", "validate")
TargetFound == Pass("validate", "speedtest")
NoTarget == At("validate") /\ Raise("group")
SpeedTest == Pass("speedtest", "add_run")
SpeedTestFails == At("speedtest") /\ Raise("case")
ProbeFails == ~cancelling /\ at \in {"local", "check", "target_probe", "resolve"} /\ Raise("run")

AddRun ==
    /\ At("add_run") /\ at' = "stop" /\ counted' = TRUE
    /\ UNCHANGED <<test, number, containers, err, tries, since, cancelling, sent, surfVars>>

-------------------------------------------------------------------------------
(* The way out.  An exception of disconnect is logged and forgotten.         *)
Stop == At("stop") /\ Goto("delete") /\ Disconnect
StopFails == Pass("stop", "delete")

AfterTest == IF err = NoError THEN "delay"
             ELSE CASE err.kind \in {"run", "lost"} -> "fail_run" [] err.kind = "group" -> "fail_group"
                    [] err.kind = "case" -> "fail_case" [] OTHER -> "idle"
Delete ==
    /\ At("delete")
    /\ containers' = containers \ {test.tech}
    /\ at' = AfterTest /\ err' = NoError
    /\ sent' = (err = NoError)
    /\ UNCHANGED <<test, number, tries, since, cancelling, counted, surfVars>>

Handle == \/ Pass("fail_run", "delay") \/ Pass("fail_group", "idle")
          \/ Pass("fail_case", "idle") \/ Pass("delay", "idle")

(* The container layer raises something else; it ends Runner.run.            *)
ContainerRaises ==
    /\ ~cancelling
    /\ at \in {"create", "start", "local", "delete"} \cup (InSession \ {"add_run"})
    /\ Raise("env")

-------------------------------------------------------------------------------
(* Service._stop.                                                            *)
Cancel ==
    /\ at # "idle" /\ cancelling' = TRUE
    /\ UNCHANGED <<at, test, number, containers, err, tries, since, counted, sent, surfVars>>

Cancelled == cancelling /\ at \notin InLogin /\ Raise("cancelled")

(* The bare except around login.                                             *)
CancelLost == cancelling /\ at \in InLogin /\ Raise("lost")

(* up -u with new credentials: add_providers makes a new object.  A session  *)
(* that is open keeps the old one until it ends.                             *)
NewCredentials ==
    /\ At("idle") /\ surf' = NewProvider
    /\ UNCHANGED <<sessionVars, service, config, day>>

TimePasses == NextDay /\ UNCHANGED sessionVars

Coroutine ==
    \/ CityToken \/ CityCreds \/ CityCredsHalf \/ CityRenew \/ CityList \/ CityFails
    \/ Create \/ StartContainer \/ LocalProbe \/ Token \/ Creds \/ CredsHalf
    \/ LoginFails
    \/ Renew \/ LoadsKey \/ PrivateKey \/ PublicKey \/ Activate \/ ServersListed
    \/ Spawn \/ InitRead \/ InitOver \/ KillLate \/ Connects
    \/ ConnectFails \/ ActivatedUnheard \/ NoServer
    \/ SameAddress \/ NotConnected \/ OtherAddress \/ Resolve \/ TargetProbe
    \/ TargetFound \/ NoTarget \/ SpeedTest \/ SpeedTestFails \/ ProbeFails \/ AddRun
    \/ Stop \/ StopFails \/ Delete \/ Handle \/ ContainerRaises
    \/ Cancelled \/ CancelLost

Next ==
    \/ Coroutine \/ AskCities \/ StartTest \/ Cancel \/ NewCredentials \/ TimePasses

Spec == Init /\ [][Next]_vars
FairSpec == Spec /\ WF_vars(Coroutine)

-------------------------------------------------------------------------------
(* Every variable has its type.                                              *)
Places == {"idle", "create", "start", "delete"} \cup InCity \cup InContainer \cup Handlers

TestTypeOK ==
    /\ at \in Places /\ test \in Tests /\ number \in 0..MaxTests /\ containers \subseteq Techs
    /\ err \in [kind : {"none", "run", "group", "case", "env", "cancelled", "lost"},
                stage : {"none", "env", "login", "vpn", "add_run", "exit"}]
    /\ tries \in 0..Tries /\ since \in 1..MaxDay
    /\ cancelling \in BOOLEAN /\ counted \in BOOLEAN /\ sent \in BOOLEAN

SurfTypeOK ==
    /\ surf \in [user : {"none", "half", "whole"}, creds : {"account", "half", "whole"},
                 key : 0..MaxKeys, file : [key : 0..MaxKeys, expires : 0..MaxDay + 1],
                 current : Techs \cup {"none"}, env : [Techs -> 0..MaxTests],
                 proc : 0..MaxTests]
    /\ service \in [Keys -> 0..MaxDay + 1]
    /\ config \in [creds : {"none", "account", "half", "whole"}, key : 0..MaxKeys]
    /\ day \in 1..MaxDay

TypeOK == TestTypeOK /\ SurfTypeOK

(* Whatever happens inside, to its owner a test is one of the outcomes that  *)
(* Runner is built on.  An exception on its way out still counts as the      *)
(* stage that raised it.                                                     *)
Outcome == INSTANCE Outcomes WITH
    stage <- Stage,
    cancelling <- cancelling \/ err.kind \in {"cancelled", "lost"}
OutcomesSpec == Outcome!Spec

(* What disconnect and a late OpenVPN are stopped by is the technology of    *)
(* this test, in its container and with its process, not one that an earlier *)
(* test has left in the provider's objects.                                  *)
StopsItsOwn ==
    /\ at = "stop" => surf.current = test.tech /\ surf.env[test.tech] = number
    /\ at \in {"stop", "kill"} /\ test.tech = "openvpn" => surf.proc = number

Configured == at \in {"spawn", "init", "kill", "up"} \cup InSession

(* What a connection is made with, whichever requests failed and whatever
   earlier tests saved.  The credentials are those that the provider holds
   from the service, never the account's: the whole of them, or the user name
   alone once an answer had no password, since no later login asks again.
   WireGuard's key was activated and does not expire before the day on which
   connect began.                                                            *)
Authorised ==
    Configured =>
        /\ config.creds # "account" /\ config.creds = surf.user
        /\ test.tech = "wireguard" => config.key # 0 /\ service[config.key] >= since

(* From every await inside a test, by success, error or cancellation, the    *)
(* way out leads by the deletion of the container.                           *)
LeavesNoContainer ==
    [][at' \in Handlers \/ (at' = "idle" /\ at \in InContainer \cup Handlers)
         => test.tech \notin containers']_vars

(* Every test ends: the coroutine always gets back to its owner.             *)
TestEnds == []<>(at = "idle")

===============================================================================
