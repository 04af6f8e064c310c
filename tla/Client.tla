--------------------------------- MODULE Client -------------------------------
(*****************************************************************************)
(* The command line (vpnspeed_cli.py) and cron against the API of the        *)
(* daemon: "up", "up -u", "down", "schedule" and requests for reports, each  *)
(* a process of its own, in any interleaving.  A post is decoded (Codec) and *)
(* taken over (Diff); what the service does on the way is Service, so here   *)
(* an update is one step, with what it changes for the reports, the backup,  *)
(* and with what it leaves behind when it raises.                            *)
(*****************************************************************************)
EXTENDS Reports

CONSTANTS
    Code, TruthValues, Supported,  \* see Codec
    Clients,     \* the processes, 1..n, in the order in which they begin
    Files,       \* the names of configuration files
    Relative,    \* those that are no absolute paths
    Removes,     \* which jobs "down" takes from the crontab: the files whose
                 \* jobs contain the text "vpnspeed up " and its argument
    Scenes       \* what may happen in a behaviour, see Init

INSTANCE Codec

VARIABLES
    ctx,      \* Service._context
    crontab,  \* the jobs: [file, by], the schedule command that made it
    files,    \* what the configuration files hold
    clients,  \* the processes, see NewClient
    origin,   \* the client whose post was taken over last
    scene

clientVars == <<ctx, crontab, files, clients, origin, scene>>
vars == <<reportVars, clientVars>>

(* What a document says of the state, see Codec, and what a scene chooses.   *)
IsDocument(doc) ==
    /\ doc.mode \in {None, "continuous", "once"} /\ doc.common \in BOOLEAN
    /\ doc.sinks \in {None, <<>>} \cup [{"sqlite"} -> Databases]
    /\ Accepts(doc) => None # Decode(doc, "run").config

IsScene(s) ==
    /\ s.ups \cup s.schedules \subseteq Files /\ s.downs \subseteq Files \cup {None}
    /\ s.updates \subseteq BOOLEAN /\ s.faults \in BOOLEAN /\ s.raises \in BOOLEAN
    /\ DOMAIN s.files = Files /\ \A f \in Files : IsDocument(s.files[f])
    /\ DOMAIN s.edits \subseteq Files /\ \A f \in DOMAIN s.edits : IsDocument(s.edits[f])
    /\ s.stored \in [Databases -> SUBSET Runs] /\ s.runs \subseteq Runs
    /\ \A d \in Databases : IsFiniteSet(s.stored[d])

ASSUME ClientAssumption ==
    /\ Cardinality(Clients) \in Nat /\ Clients = 1..Cardinality(Clients)
    /\ Relative \subseteq Files /\ None \notin Files
    /\ Removes \in [Files \cup {None} -> SUBSET Files] /\ Removes[None] = Files
    /\ None \notin {"continuous", "once", "idle", "run"} /\ None # 1 /\ None # <<>>
    /\ None # DefaultContext.config
    /\ \A s \in Scenes : IsScene(s)

(* "post": to post a context; "tab", "write": to read and to write the cron  *)
(* table; "raised": the update raised on its way.  doc is what was loaded    *)
(* from the file, tab what was read from the table, with the clients that    *)
(* were at work at the same time.                                            *)
NewClient ==
    [at |-> "none", cmd |-> "none", file |-> None, update |-> FALSE, cron |-> FALSE,
     doc |-> None, tab |-> {}, with |-> {}]

Working == {"post", "tab", "write"}
Jobs == [file : Files, by : Clients]

TypeOK ==
    /\ ReportTypeOK
    /\ ctx.state \in {"idle", "run"} /\ ctx.config.mode \in {"continuous", "once"}
    /\ DOMAIN ctx.config.sinks \subseteq {"sqlite"}
    /\ crontab \subseteq Jobs
    /\ \A c \in Clients :
         /\ clients[c].at \in Working \cup {"none", "done", "failed", "raised"}
         /\ clients[c].tab \subseteq Jobs /\ clients[c].with \subseteq Clients \ {c}
    /\ origin \in Clients \cup {None}

Init ==
    /\ scene \in Scenes
    /\ clock = 0 /\ stored = scene.stored /\ plugins = <<DefaultDatabase>> /\ backup = 1
    /\ folders = {} /\ zips = [s \in Seconds |-> None] /\ ink = [r \in Requests |-> {}]
    /\ reports = [r \in Requests |-> NewReport] /\ faults = scene.faults
    /\ ctx = [state |-> "idle",
              config |-> [mode |-> "continuous", repeats |-> 1, common |-> FALSE,
                          vpns |-> <<>>, groups |-> {}, sinks |-> <<>>]]
    /\ crontab = {} /\ files = scene.files
    /\ clients = [c \in Clients |-> NewClient] /\ origin = None

-------------------------------------------------------------------------------
(* Processes begin in the order of their numbers, as many as the scene has.  *)

Begun == {c \in Clients : clients[c].at # "none"}
Active == {c \in Clients : clients[c].at \in Working}
Newest == Cardinality(Begun) + 1

Launch(client) ==
    /\ Newest \in Clients /\ Newest <= scene.clients
    /\ clients' = [c \in Clients |->
         CASE c = Newest -> [client EXCEPT !.with = IF client.at \in Working THEN Active ELSE {}]
           [] c \in Active /\ client.at \in Working ->
                [clients[c] EXCEPT !.with = @ \cup {Newest}]
           [] OTHER -> clients[c]]
    /\ UNCHANGED <<ctx, crontab, files, origin, scene>>

Command(cmd, file, at) ==
    [NewClient EXCEPT !.cmd = cmd, !.file = file, !.at = at,
                      !.doc = IF file = None THEN None ELSE files[file]]

Up ==
    \E file \in scene.ups, update \in scene.updates :
       Launch([Command("up", file, "post") EXCEPT !.update = update])

Down == \E file \in scene.downs : Launch(Command("down", file, "post"))

MaySchedule_AnyMode(file) == file \notin Relative

(* An absolute path and the mode "once" are required.                        *)
MaySchedule(file) == file \notin Relative /\ files[file].mode = "once"

Schedule ==
    \E file \in scene.schedules :
       Launch(Command("schedule", file, IF MaySchedule(file) THEN "tab" ELSE "failed"))

CronFires ==
    \E job \in crontab :
       Launch([Command("up", job.file, "post") EXCEPT !.cron = TRUE])

-------------------------------------------------------------------------------
(* POST /context and /context_config_update.                                 *)

Settle(c, at) == [clients EXCEPT ![c].at = at]

Updated_NotCleaned(context, update) == DiffContext(ctx, context)

(* The context after the update, which first cleans the configuration unless *)
(* -u was given.                                                             *)
Cleaned == DiffContext(ctx, DefaultContext)
Updated(context, update) == DiffContext(IF update THEN ctx ELSE Cleaned, context)

Sqlite(config) == IF config.sinks = <<>> THEN None ELSE config.sinks["sqlite"]

(* A sink that an earlier update did not come to add cannot be found.        *)
ChangeSinks(was, now) ==
    \/ was = now /\ UNCHANGED <<plugins, backup, reports>>
    \/ was = None /\ now # None /\ ConnectSink(now)
    \/ was # None /\ now = None /\ backup # 1 /\ DropSink
    \/ was # None /\ now # None /\ was # now /\ backup # 1 /\ MoveSink(now)

TakeOver(c, context, at) ==
    /\ ctx' = Updated(context, clients[c].update)
    /\ ChangeSinks(Sqlite(ctx.config), Sqlite(ctx'.config))
    /\ clients' = Settle(c, at) /\ origin' = c
    /\ UNCHANGED <<clock, stored, fileVars, faults, crontab, files, scene>>

PostUp(c) ==
    /\ clients[c].at = "post" /\ clients[c].cmd = "up" /\ Accepts(clients[c].doc)
    /\ TakeOver(c, Decode(clients[c].doc, "run"), "done")

PostDown(c) ==
    /\ clients[c].at = "post" /\ clients[c].cmd = "down"
    /\ TakeOver(c, [state |-> "idle", config |-> None], "tab")

(* Service.update replaces the context before it executes the actions.  One  *)
(* that raises ends at a group while it cleans the configuration, or on the  *)
(* way to the new one, before the sinks are changed or after that.           *)
PostRaises(c) ==
    /\ clients[c].at = "post" /\ scene.raises
    /\ clients[c].cmd = "up" => Accepts(clients[c].doc)
    /\ \/ /\ ~clients[c].update /\ ctx.config.groups # {}
          /\ ctx' = Cleaned /\ UNCHANGED <<plugins, backup, reports>>
       \/ /\ clients[c].cmd = "up"
          /\ ctx' = Updated(Decode(clients[c].doc, "run"), clients[c].update)
          /\ \/ UNCHANGED <<plugins, backup, reports>>
             \/ ChangeSinks(Sqlite(ctx.config), Sqlite(ctx'.config))
    /\ clients' = Settle(c, "raised") /\ origin' = c
    /\ UNCHANGED <<clock, stored, fileVars, faults, crontab, files, scene>>

(* The done callback of a task, when it has ended or was stopped; Service    *)
(* says when that is.                                                        *)
Idle ==
    /\ ctx.state = "run" /\ ctx' = [ctx EXCEPT !.state = "idle"]
    /\ UNCHANGED <<crontab, files, clients, origin, scene>>

(* The document is refused, or the daemon does not answer.                   *)
PostFails(c) ==
    /\ clients[c].at = "post"
    /\ faults \/ (clients[c].cmd = "up" /\ ~Accepts(clients[c].doc))
    /\ clients' = Settle(c, "failed")
    /\ UNCHANGED <<ctx, crontab, files, origin, scene>>

(* CronTab(user="root"), and its write.                                      *)
ReadTab(c) ==
    /\ clients[c].at = "tab"
    /\ clients' = [clients EXCEPT ![c] = [@ EXCEPT !.at = "write", !.tab = crontab]]
    /\ UNCHANGED <<ctx, crontab, files, origin, scene>>

Removed_Exact(c, job) == job.file = clients[c].file

(* remove_all(command=...) looks for a part of the job's command.            *)
Removed(c, job) == job.file \in Removes[clients[c].file]

WriteTab(c) ==
    /\ clients[c].at = "write"
    /\ crontab' = IF clients[c].cmd = "down"
                  THEN {job \in clients[c].tab : ~Removed(c, job)}
                  ELSE clients[c].tab \cup {[file |-> clients[c].file, by |-> c]}
    /\ clients' = Settle(c, "done")
    /\ UNCHANGED <<ctx, files, origin, scene>>

(* The cron string is invalid.                                               *)
BadTimes(c) ==
    /\ clients[c].at = "write" /\ clients[c].cmd = "schedule" /\ faults
    /\ clients' = Settle(c, "failed")
    /\ UNCHANGED <<ctx, crontab, files, origin, scene>>

(* Somebody edits a configuration file.                                      *)
Edit ==
    \E file \in DOMAIN scene.edits :
      /\ files[file] # scene.edits[file]
      /\ files' = [files EXCEPT ![file] = scene.edits[file]]
      /\ UNCHANGED <<ctx, crontab, clients, origin, scene>>

(* The runner, which is StaticRunner and its like, has sent a result of a    *)
(* group that was configured; it may arrive after the runner was stopped.    *)
Taken == {c \in Clients : clients[c].cmd = "up" /\ clients[c].at \in {"done", "raised"}}
Tested == UNION {Or(Decode(clients[c].doc, "run").config.groups, {}) : c \in Taken}
StoreRun ==
    /\ \E x \in scene.runs : <<x.group.vpn, x.group.target>> \in Tested /\ Store(x)
    /\ UNCHANGED clientVars

AskReport(r) ==
    /\ r \in 1..scene.reports /\ \A q \in 1..r - 1 : reports[q].at # "none"
    /\ \E f \in scene.filters : Ask(r, f)
    /\ UNCHANGED clientVars

ClientStep(c) ==
    \/ PostUp(c) \/ PostDown(c) \/ PostRaises(c)
    \/ (PostFails(c) \/ ReadTab(c) \/ WriteTab(c) \/ BadTimes(c)) /\ UNCHANGED reportVars

Next ==
    \/ (Up \/ Down \/ Schedule \/ CronFires \/ Edit \/ Idle) /\ UNCHANGED reportVars
    \/ \E c \in Clients : ClientStep(c)
    \/ StoreRun
    \/ \E r \in Requests : AskReport(r)
    \/ clock < scene.seconds /\ Tick /\ UNCHANGED clientVars
    \/ (\E r \in Requests : ReportStep(r)) /\ UNCHANGED clientVars

Spec == Init /\ [][Next]_vars

(* The event loop runs what is ready, and aiosqlite answers every statement. *)
FairSpec ==
    Spec /\ \A r \in Requests : WF_vars(ReportStep(r) /\ UNCHANGED clientVars)

-------------------------------------------------------------------------------
(* Properties.                                                               *)

Done(c, cmd) == clients[c].cmd = cmd /\ clients[c].at = "done"

(* After "down" without a file has succeeded, with no other command at work
   meanwhile or begun since, nothing will start by itself: the state of the
   service is idle and the cron table has no job left (down_command).        *)
DownStops ==
    \A c \in Clients :
       Done(c, "down") /\ clients[c].file = None /\ clients[c].with = {} /\ c + 1 = Newest
         => ctx.state = "idle" /\ crontab = {}

Tabular == {c \in Clients : clients[c].cmd \in {"down", "schedule"}}

(* If no two commands that rewrite the cron table overlap, it holds the jobs
   of all schedule commands that no later "down" was to remove, and no other
   (schedule_command, down_command).                                         *)
TableIsHistory ==
    (\A c \in Tabular : clients[c].with \cap Tabular = {}) =>
      crontab = {[file |-> clients[c].file, by |-> c] : c \in
                  {c \in Clients : /\ Done(c, "schedule")
                                   /\ \A d \in Clients : d > c /\ Done(d, "down")
                                        => clients[c].file \notin Removes[clients[d].file]}}

(* What the file of client c makes of the configuration.                     *)
Replaced(c) ==
    LET new == Decode(clients[c].doc, "run").config
    IN /\ ctx.config.mode = Or(new.mode, "continuous")
       /\ ctx.config.repeats = Or(new.repeats, 1)
       /\ ctx.config.groups = Or(new.groups, {}) /\ ctx.config.sinks = new.sinks
       /\ new.vpns # None => ctx.config.vpns = new.vpns
       /\ (\A d \in Taken \ {c} : ~clients[d].doc.common) => ctx.config.common = new.common

Unraised == \A c \in Clients : clients[c].at # "raised"
BackedBy(sinks) ==
    IF sinks = <<>> THEN backup = 1 ELSE backup # 1 /\ plugins[backup] = sinks["sqlite"]

(* After an "up" without -u that succeeded, and until the next update, the
   configuration is that of its file, whatever was posted before and whichever
   updates raised, except that VPNs stay if the file has none and common cities
   stay wanted once they were.  Unless an update has raised, reports read from
   the sink of the file (Service.update, diff_config, MasterSink.backup).    *)
UpReplaces ==
    origin # None /\ Done(origin, "up") /\ ~clients[origin].update =>
      Replaced(origin) /\ (Unraised => BackedBy(ctx.config.sinks))

(* Cron starts tests in the mode "once" only, which it was scheduled for, as
   long as nobody edits the file after that (schedule_command, up_command),
   also when the update raises.                                              *)
ScheduledOnce ==
    origin # None /\ clients[origin].cron /\ (Done(origin, "up") \/ ctx.state = "run") =>
      LET file == clients[origin].file
      IN files[file] = scene.files[file] => ctx.config.mode = "once"

(* Every request for a report comes to an end, with a report or an error
   (_make_report, make_plots).                                               *)
RequestsEnd ==
    \A r \in Requests : reports[r].at \in Reading ~> reports[r].at \in Over

===============================================================================
