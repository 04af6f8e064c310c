-------------------------------- MODULE Service -------------------------------
(*****************************************************************************)
(* service/service.py: the service behind the API, which changes the runner, *)
(* the providers and the sinks while the task of the runner may be at work.  *)
(*                                                                           *)
(* Everything runs on one asyncio event loop.  "cpu" says who has it: "loop" *)
(* lets the runner, the done callback or a suspended update go on, "update"  *)
(* means that Service.update is between two of its awaits.  Requests are     *)
(* handled one at a time, under Service._clock.                              *)
(*                                                                           *)
(* Runner.remove_groups, add_groups, remove_cases and add_cases suspend once *)
(* when they take Runner._clock and are atomic after that.  Starting and     *)
(* stopping a sink suspends too.  DynamicVPN's operations do not.            *)
(*****************************************************************************)
EXTENDS Runner, Sequences

CONSTANTS
    Clients,      \* sorts of clients: [requests: the contexts they post, each with
                  \* an update flag, faults: what goes wrong meanwhile]
    MaxRequests,  \* bound: how many requests are posted
    SinkNames,    \* names of data sinks
    BadSinks      \* names for which no sink plugin exists

INSTANCE Diff

(* What the command line posts: "up" a state and a configuration, "down" and *)
(* "stop" only a state; a field that the file leaves out is None.            *)
Modes == {"once", "continuous"}
IsVpns(vpns) ==
    /\ DOMAIN vpns \subseteq Providers
    /\ \A v \in DOMAIN vpns : vpns[v] \subseteq {c \in Cases : ProviderOf[c] = v}
    /\ IsFiniteSet(ToCases(vpns))
IsConfig(config) ==
    /\ config.mode \in Modes \cup {None}
    /\ config.repeats \in (Nat \ {0}) \cup {None}
    /\ config.common \in BOOLEAN
    /\ config.vpns # None => IsVpns(config.vpns)
    /\ config.groups # None => config.groups \subseteq Pairs /\ IsFiniteSet(config.groups)
    /\ config.sinks # None => DOMAIN config.sinks \subseteq SinkNames
IsRequest(r) ==
    IF r.context.config = None
    THEN r.update = FALSE /\ r.context.state \in {"idle", "quit"}
    ELSE r.update \in BOOLEAN /\ r.context.state = "run" /\ IsConfig(r.context.config)

ASSUME ServiceAssumption ==
    /\ MaxRequests \in Nat
    /\ None \notin Modes \cup {"idle", "run", "quit"} /\ None # DefaultContext.config
    /\ \A k \in Clients :
         k.faults \subseteq FaultKinds /\ \A r \in k.requests : IsRequest(r)

VARIABLES
    ctx,       \* Service._context
    sinks,     \* MasterSink._sinks: name -> settings
    upc,       \* where Service.update is, see UpdatePoints
    cleaning,  \* update is at its first execute, which cleans the configuration
    request,   \* the request it handles
    queue,     \* the sorted actions still to execute
    cpu,       \* "loop" or "update"
    callback,  \* the done callback _idle: "none", "queued" or "due"
    requests,  \* the requests that the clients of this behaviour post
    posted,    \* how many of them were posted
    failed     \* an update has raised: the client got an error

clientVars == <<requests, posted>>
updateVars == <<ctx, sinks, upc, cleaning, request, queue, cpu, clientVars, failed>>
vars == <<runnerVars, updateVars, callback>>

(* "idle": no request; "exec": executing queue; "await": suspended before    *)
(* the body of the first action; "stopping": awaiting the cancelled task;    *)
(* "quit": the event loop is stopped.                                        *)
UpdatePoints == {"idle", "exec", "await", "stopping", "quit"}
Suspending == {"RemoveGroups", "RemoveCases", "AddCases", "AddGroups",
               "RemoveDataSinks", "UpdateDataSinks", "AddDataSinks"}

ServiceTypeOK ==
    /\ RunnerTypeOK
    /\ ctx.state \in {"idle", "run", "quit"}
    /\ DOMAIN ctx.config.vpns \subseteq Providers /\ ctx.config.groups \subseteq Pairs
    /\ upc \in UpdatePoints /\ cleaning \in BOOLEAN /\ cpu \in {"loop", "update"}
    /\ callback \in {"none", "queued", "due"}
    /\ posted \in 0..MaxRequests /\ failed \in BOOLEAN
    /\ upc \in {"await", "stopping"} => queue # <<>>

Init ==
    /\ groups = Empty /\ stats = Empty /\ group_index = Empty /\ case_index = Empty
    /\ test_cases = {} /\ failing_cases = {}
    /\ common_cities = FALSE /\ providers = {}
    /\ pc = "off" /\ mode = "continuous" /\ repeats = 1
    /\ runs = 0 /\ group = None /\ no_options = FALSE /\ case = None /\ left = 0
    /\ cancelling = FALSE /\ outcome = "none"
    /\ sent = [x \in Pairs \X Cases |-> 0]
    /\ ctx = [state |-> "idle",
              config |-> [mode |-> "continuous", repeats |-> 1, common |-> FALSE,
                          vpns |-> Empty, groups |-> {}, sinks |-> Empty]]
    /\ sinks = Empty
    /\ upc = "idle" /\ cleaning = FALSE /\ request = None /\ queue = <<>>
    /\ cpu = "loop" /\ callback = "none" /\ posted = 0 /\ failed = FALSE
    /\ \E k \in Clients : requests = k.requests /\ faults = k.faults

-------------------------------------------------------------------------------
(* The event loop.  A callback that was queued runs before anything that     *)
(* becomes ready later: at most one segment of the update that was ready     *)
(* already goes first, and no task created meanwhile.                        *)

Resume ==
    /\ cpu = "loop" /\ callback # "due"
    /\ callback' = IF callback = "queued" THEN "due" ELSE "none"

RunnerStep ==
    /\ cpu = "loop" /\ callback = "none" /\ upc # "quit"
    /\ Step
    /\ callback' = IF pc' = "off" THEN "queued" ELSE "none"
    /\ UNCHANGED updateVars

(* Mutants, here and below: slips that show a property notices them.         *)
Idle_StateKept ==
    /\ cpu = "loop" /\ callback # "none" /\ upc # "quit"
    /\ callback' = "none"
    /\ UNCHANGED <<runnerVars, updateVars>>

Idle ==
    /\ cpu = "loop" /\ callback # "none" /\ upc # "quit"
    /\ callback' = "none"
    /\ ctx' = [ctx EXCEPT !.state = "idle"]
    /\ UNCHANGED <<runnerVars, sinks, upc, cleaning, request, queue, cpu, clientVars, failed>>

-------------------------------------------------------------------------------
(* Service.update.                                                           *)

Take(context) ==
    /\ ctx' = DiffContext(ctx, context)
    /\ queue' = Actions(ctx, context)

SetContextParams ==
    common_cities' = ctx'.config.common /\ UNCHANGED <<providers, faults>>

Enter ==
    /\ upc = "idle" /\ Resume
    /\ posted < MaxRequests /\ posted' = posted + 1
    /\ \E r \in requests :
         /\ request' = r /\ cleaning' = ~r.update
         /\ IF r.update
            THEN Take(r.context) /\ SetContextParams
            ELSE Take(DefaultContext) /\ UNCHANGED confVars
    /\ upc' = "exec" /\ cpu' = "update"
    /\ UNCHANGED <<dataVars, taskVars, sinks, requests, failed>>

Executing == cpu = "update" /\ upc = "exec"
Doing(mark) == Executing /\ queue # <<>> /\ Head(queue).mark = mark
Arg == Head(queue).arg

(* The configuration is clean: now set the new one.                          *)
Cleaned ==
    /\ Executing /\ queue = <<>> /\ cleaning
    /\ cleaning' = FALSE
    /\ Take(request.context) /\ SetContextParams
    /\ UNCHANGED <<dataVars, taskVars, sinks, upc, request, cpu, callback, clientVars, failed>>

Return ==
    /\ Executing /\ queue = <<>> /\ ~cleaning
    /\ upc' = "idle" /\ request' = None /\ cpu' = "loop"
    /\ UNCHANGED <<runnerVars, ctx, sinks, cleaning, queue, callback, clientVars, failed>>

(* The next await of the update.                                             *)
Await ==
    /\ Executing /\ queue # <<>> /\ Head(queue).mark \in Suspending
    /\ upc' = "await" /\ cpu' = "loop"
    /\ UNCHANGED <<runnerVars, ctx, sinks, cleaning, request, queue, callback,
                   clientVars, failed>>

Awaited(mark) == upc = "await" /\ Head(queue).mark = mark /\ Resume

Done ==
    /\ upc' = "exec" /\ cpu' = "update" /\ queue' = Tail(queue)
    /\ UNCHANGED <<ctx, cleaning, request, clientVars, failed>>

(* An exception ends the update; the context already is the new one.         *)
Raise ==
    /\ upc' = "idle" /\ request' = None /\ queue' = <<>> /\ cleaning' = FALSE
    /\ cpu' = "loop" /\ failed' = TRUE
    /\ UNCHANGED <<ctx, clientVars>>

-------------------------------------------------------------------------------
(* _stop, _start and _quit.                                                  *)

StopCancels_NotAwaited ==
    /\ Executing /\ queue # <<>> /\ Head(queue).mark = "Stop"
    /\ pc # "off" /\ Cancel
    /\ Done
    /\ UNCHANGED <<dataVars, confVars, sinks, callback>>

StopCancels_NotCancelled ==
    /\ Executing /\ queue # <<>> /\ Head(queue).mark \in {"Stop", "Start", "Quit"}
    /\ pc # "off"
    /\ upc' = "stopping" /\ cpu' = "loop"
    /\ UNCHANGED <<runnerVars, ctx, sinks, cleaning, request, queue, callback,
                   clientVars, failed>>

(* _stop: a task that is not done is cancelled and awaited.  _start and      *)
(* _quit begin with it.                                                      *)
StopCancels ==
    /\ Executing /\ queue # <<>> /\ Head(queue).mark \in {"Stop", "Start", "Quit"}
    /\ pc # "off" /\ Cancel
    /\ upc' = "stopping" /\ cpu' = "loop"
    /\ UNCHANGED <<dataVars, confVars, ctx, sinks, cleaning, request, queue, callback,
                   clientVars, failed>>

(* However the task has ended, Runner.run has caught it: the await returns.  *)
Stopped ==
    /\ upc = "stopping" /\ pc = "off" /\ cpu = "loop" /\ callback = "none"
    /\ upc' = "exec" /\ cpu' = "update"
    /\ UNCHANGED <<runnerVars, ctx, sinks, cleaning, request, queue, callback,
                   clientVars, failed>>

StopDone ==
    /\ Doing("Stop") /\ pc = "off"
    /\ Done
    /\ UNCHANGED <<runnerVars, sinks, callback>>

Start ==
    /\ Doing("Start") /\ pc = "off"
    /\ Begin(ctx.config.mode, ctx.config.repeats)
    /\ ctx' = [ctx EXCEPT !.state = "run"]
    /\ queue' = Tail(queue)
    /\ UNCHANGED <<dataVars, confVars, sinks, upc, cleaning, request, cpu, callback,
                   clientVars, failed>>

Quit ==
    /\ Doing("Quit") /\ pc = "off"
    /\ upc' = "quit" /\ cpu' = "loop"
    /\ UNCHANGED <<runnerVars, ctx, sinks, cleaning, request, queue, callback,
                   clientVars, failed>>

-------------------------------------------------------------------------------
(* Groups and cases: the operations of the runner.                           *)

Operated == Done /\ UNCHANGED <<confVars, taskVars, sinks>>

RemoveGroups == Awaited("RemoveGroups") /\ remove_groups(Arg) /\ Operated
RemoveGroupsLookup ==
    /\ Awaited("RemoveGroups") /\ remove_groups_lookup(Arg)
    /\ Raise
    /\ UNCHANGED <<confVars, taskVars, sinks>>
AddGroups == Awaited("AddGroups") /\ add_groups(Arg) /\ Operated
RemoveCases == Awaited("RemoveCases") /\ remove_cases(Arg) /\ Operated
AddCases == Awaited("AddCases") /\ add_cases(Arg) /\ Operated

-------------------------------------------------------------------------------
(* Providers and sinks.                                                      *)

Providing(new) ==
    /\ providers' = new
    /\ UNCHANGED <<dataVars, common_cities, faults, taskVars, sinks, callback>>

AddVPNs_Replacing ==
    /\ \E m \in {"AddVPNs", "UpdateVPNs"} : Doing(m)
    /\ Providing(Arg) /\ Done

AddVPNs ==
    /\ \E m \in {"AddVPNs", "UpdateVPNs"} : Doing(m)
    /\ Providing(providers \cup Arg) /\ Done

RemoveVPNs ==
    /\ Doing("RemoveVPNs") /\ Arg \subseteq providers
    /\ Providing(providers \ Arg) /\ Done

RemoveVPNsLookup ==
    /\ Doing("RemoveVPNs") /\ ~(Arg \subseteq providers)
    /\ \E gone \in SUBSET (Arg \cap providers) : Providing(providers \ gone)
    /\ Raise

Settings(names) == [n \in names |-> ctx.config.sinks[n]]

(* A sink whose type is unknown raises ValueError; those before it are in.   *)
AddSinks ==
    /\ Awaited("AddDataSinks")
    /\ IF Arg \cap BadSinks = {}
       THEN sinks' = Overlay(sinks, Settings(Arg)) /\ Done
       ELSE /\ \E before \in SUBSET (Arg \ BadSinks) :
                 sinks' = Overlay(sinks, Settings(before))
            /\ Raise
    /\ UNCHANGED runnerVars

(* A sink that was never added raises KeyError.                              *)
UpdateSinks ==
    /\ Awaited("UpdateDataSinks")
    /\ IF Arg \subseteq DOMAIN sinks
       THEN sinks' = Overlay(sinks, Settings(Arg)) /\ Done
       ELSE /\ \E before \in SUBSET (Arg \cap DOMAIN sinks) :
                 sinks' = Overlay(sinks, Settings(before))
            /\ Raise
    /\ UNCHANGED runnerVars

RemoveSinks ==
    /\ Awaited("RemoveDataSinks")
    /\ IF Arg \subseteq DOMAIN sinks
       THEN sinks' = Without(sinks, Arg) /\ Done
       ELSE /\ \E before \in SUBSET (Arg \cap DOMAIN sinks) :
                 sinks' = Without(sinks, before)
            /\ Raise
    /\ UNCHANGED runnerVars

-------------------------------------------------------------------------------
UpdateStep ==
    \/ Cleaned \/ Return \/ Await
    \/ StopCancels \/ Stopped \/ StopDone \/ Start \/ Quit
    \/ RemoveGroups \/ RemoveGroupsLookup \/ AddGroups \/ RemoveCases \/ AddCases
    \/ AddVPNs \/ RemoveVPNs \/ RemoveVPNsLookup
    \/ AddSinks \/ UpdateSinks \/ RemoveSinks

Next == Enter \/ UpdateStep \/ RunnerStep \/ Idle

Spec == Init /\ [][Next]_vars

(* The event loop runs whatever is ready, in order.                          *)
FairSpec ==
    Spec /\ WF_vars(UpdateStep) /\ WF_vars(RunnerStep) /\ WF_vars(Idle)

-------------------------------------------------------------------------------
(* Between updates, while no callback is pending.                            *)
Settled == upc = "idle" /\ callback = "none"

(* What the clients keep to.  The promises below that do not hold without    *)
(* one of these are stated without it too, for the runs that show why.       *)
Asked == {r.context.config : r \in {q \in requests : q.context.config # None}}
SameMode == \A x, y \in Asked : x.mode = y.mode
OnceOnly == \A x \in Asked : x.mode = "once"
Replacing == \A r \in requests : ~r.update
CitiesOff == \A x \in Asked : ~x.common
WithGroups == \A x \in Asked : x.groups \notin {None, {}}
WithCases == \A x \in Asked : x.vpns # None /\ ToCases(x.vpns) # {}

(* Then no update starts a task behind the callback of the one before: the   *)
(* runner is restarted only where the configuration that was cleaned had     *)
(* groups, and to remove these the update has awaited.                       *)
OneTask == SameMode /\ WithGroups

(* Every variable has its type.                                              *)
TypeOK == ServiceTypeOK

(* README, vpnspeed context state: "see if probe is running or idling".      *)
(* The state of the context says whether the task of the runner is alive.    *)
StateTrue == Settled /\ ~failed => (ctx.state = "run" <=> pc # "off")

(* The state is told truly as long as the clients keep to one mode and to
   configurations with groups.  Also after an update that failed no task goes
   on unseen, so that the next "vpnspeed down" or "up" stops it.             *)
StateTold ==
    OneTask /\ Settled =>
        /\ pc # "off" => ctx.state = "run"
        /\ ~failed => StateTrue

(* "Clean current configuration and set new context": after an update the    *)
(* runner has exactly the groups of the configuration, one object each.      *)
GroupsApplied ==
    upc = "idle" /\ ~failed =>
        /\ {g.pair : g \in DOMAIN groups} = ctx.config.groups
        /\ \A g, h \in DOMAIN groups : g.pair = h.pair => g = h

(* After an update every group has exactly the test cases of the configured  *)
(* VPNs, and every test case of a group has a provider to be run with.       *)
CasesApplied ==
    upc = "idle" /\ ~failed =>
        /\ \A g \in DOMAIN groups : {o.case : o \in CasesOf(g)} = ToCases(ctx.config.vpns)
        /\ providers = DOMAIN ctx.config.vpns

(* "Clean current configuration and set new context" (service.py:88): after  *)
(* an update the runner has the groups and the cases it was given.           *)
ConfigApplied == GroupsApplied /\ CasesApplied

(* What holds of it.  Without common cities the groups are applied, by "up"
   and by "up -u"; if every "up" also replaces the configuration the cases
   are, and within one mode the task works with the mode and the repeats of
   the configuration, even after an update that failed.                      *)
AppliedAsGiven ==
    /\ CitiesOff => GroupsApplied
    /\ CitiesOff /\ Replacing => CasesApplied
    /\ OneTask /\ Replacing /\ Settled /\ pc # "off" =>
         mode = ctx.config.mode /\ repeats = ctx.config.repeats

(* Cleaning the configuration: groups and cases are taken out only while no  *)
(* task of the runner is alive, as long as its state is told truly.          *)
CleanedWhileStopped ==
    [][OneTask /\ upc = "await" /\ cleaning /\ dataVars' # dataVars => pc = "off"]_vars

(* While clients replace the whole configuration, whatever they change in
   it, no lookup kills the runner before an update fails; nor does a group
   without cases, if every configuration has some; nor a division by zero, if
   there are not both group and case errors.                                 *)
NoBookkeepingCrash ==
    /\ OneTask /\ Replacing /\ CitiesOff /\ ~failed =>
         /\ outcome # "lookup"
         /\ WithCases => outcome # "nocases"
    /\ outcome = "zerodiv" => {"case", "group"} \subseteq faults

(* README, vpnspeed down: "stop probe".  Once the task is being stopped it   *)
(* does not select another test.                                             *)
NoTestAfterStop ==
    [][upc = "stopping" /\ pc = "top" => pc' \notin {"city", "env"}]_vars

(* Every request is answered in the once mode: even a task that swallowed    *)
(* its cancellation ends, and the update that waits for it goes on.  In the  *)
(* continuous mode such a task, see NoTestAfterStop, goes on testing.        *)
UpdateCompletes ==
    OnceOnly /\ upc # "idle" ~> upc \in {"idle", "quit"}

===============================================================================
