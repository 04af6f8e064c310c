-------------------------------- MODULE Reports -------------------------------
(*****************************************************************************)
(* POST /report: api.py's _make_report, reporting/report.py and the readers  *)
(* of the backup sink.  A request reads the test groups and then the runs of *)
(* each group, statement by statement, while results are stored and sinks    *)
(* change; it draws its plots into a folder and packs them into a zip file.  *)
(* Both are named by the second in which the request began, so requests of   *)
(* one second share them.                                                    *)
(*                                                                           *)
(* A file is an inode, named by the request that created it: opening it for  *)
(* writing empties it but keeps it, and who holds it open goes on with it    *)
(* when its name is removed.                                                 *)
(*****************************************************************************)
EXTENDS Integers, FiniteSets, Sequences

CONSTANTS
    None,
    Requests,   \* the requests for reports
    Runs,       \* the runs that are or may be stored:
                \* [group |-> [vpn, target, city], case, speed, day]
    Databases,  \* the files of the backup sinks
    DefaultDatabase,  \* DEFAULT_BACKUP_URL
    Today,      \* the day on which requests are made
    Week,       \* the days of a report: 7
    MaxSecond   \* bound: the last second

ASSUME ReportsAssumption ==
    /\ DefaultDatabase \in Databases /\ None \notin Databases \cup Requests \cup (0..MaxSecond)
    /\ \A x \in Runs : x.speed \in Nat /\ x.day \in Int
    /\ \A x \in Runs : x.group = [vpn |-> x.group.vpn, target |-> x.group.target,
                                  city |-> x.group.city]
    /\ Today \in Int /\ Week \in Nat \ {0} /\ MaxSecond \in Nat

VARIABLES
    clock,     \* the second
    stored,    \* what each database holds
    plugins,   \* the backups' plugins and their databases, None once stopped;
               \* the first one is MasterSink._backup_default
    backup,    \* which of them MasterSink.backup returns
    folders,   \* the folders, by their second
    zips,      \* the zip files' names: second -> inode
    ink,       \* the contents of an inode: the requests that wrote into it
    reports,   \* the requests, see ReportTypeOK
    faults     \* requests may be given up and plots may fail

fileVars == <<folders, zips, ink>>
sinkVars == <<stored, plugins, backup>>
reportVars == <<clock, sinkVars, fileVars, reports, faults>>

Seconds == 0..MaxSecond

(* "groups", "rows": awaiting the database; "send": FileResponse is to open  *)
(* the file; "body": to send it; "answered": the client has it; "failed":    *)
(* an error before the file was ready; "lost": the file was gone;  "closed": *)
(* the connection has ended after "answered" or "lost".                      *)
Reading == {"groups", "rows"}
Over == {"failed", "closed"}

(* asked, owed and moved are for the properties: the second in which the     *)
(* request came, the runs it must report, whether its database was changed.  *)
NewReport ==
    [at |-> "none", filter |-> None, asked |-> None, second |-> None, plugin |-> None, left |-> {},
     counted |-> [x \in Runs |-> 0], file |-> None, got |-> None, owed |-> {},
     moved |-> FALSE]

ReportTypeOK ==
    /\ clock \in Seconds /\ stored \in [Databases -> SUBSET Runs]
    /\ \A p \in DOMAIN plugins : plugins[p] \in Databases \cup {None}
    /\ backup \in DOMAIN plugins
    /\ folders \subseteq Seconds /\ zips \in [Seconds -> Requests \cup {None}]
    /\ ink \in [Requests -> SUBSET Requests]
    /\ \A r \in Requests :
         /\ reports[r].at \in Reading \cup Over \cup {"none", "send", "body", "answered", "lost"}
         /\ reports[r].counted \in [Runs -> Nat]
         /\ reports[r].at \in Reading \cup {"send"} =>
              /\ reports[r].second \in Seconds /\ reports[r].file \in Requests
              /\ reports[r].plugin \in DOMAIN plugins
    /\ faults \in BOOLEAN

-------------------------------------------------------------------------------
(* The filter.  Its start, end and outliers (in percent) are what the client *)
(* gave; _make_report fills in the rest.                                     *)

Values == {"download_speed", "upload_speed"}

Start(f) ==
    IF f.start # None THEN f.start
    ELSE IF f.end # None THEN f.end - Week ELSE Today - Week
End(f) ==
    IF f.end # None THEN f.end
    ELSE IF f.start # None THEN f.start + Week ELSE Today

Valid(f) == f.value \in Values /\ f.outliers \in 0..100 /\ Start(f) < End(f)

(* retrieve: a field of the group that is None is no condition.              *)
Matches(group, other) ==
    /\ group.vpn = other.vpn /\ group.target = other.target
    /\ group.city \in {None, other.city}

Retrieved(group, f, rows) ==
    {x \in rows : Matches(group, x.group) /\ x.day \in Start(f)..End(f)}

(* make_reports leaves out groups that test to another country.              *)
AtHome(group) == group.vpn = group.target

-------------------------------------------------------------------------------
(* _filter_outliers, for the runs of one case; times counts each of them.    *)

Many(runs, times) == Cardinality(UNION {{x} \X (1..times[x]) : x \in runs})

(* The speed at place i, from 0, in the order of the speeds.                 *)
Nth(runs, times, i) ==
    CHOOSE v \in {x.speed : x \in runs} :
       /\ Many({x \in runs : x.speed < v}, times) <= i
       /\ Many({x \in runs : x.speed <= v}, times) > i

(* Series.quantile of p percent, which interpolates, times 100.              *)
Quantile(runs, times, p) ==
    LET place == p * (Many(runs, times) - 1)
        low == Nth(runs, times, place \div 100)
    IN IF place % 100 = 0 THEN 100 * low
       ELSE 100 * low + (place % 100) * (Nth(runs, times, place \div 100 + 1) - low)

InCase(r, country, case) ==
    {x \in Runs : reports[r].counted[x] > 0 /\ x.group.vpn = country /\ x.case = case}

(* Mutants, here and below: slips that show a property notices them.         *)
FilterOutliers_KeepsMax(r, runs) ==
    LET times == reports[r].counted
        o == reports[r].filter.outliers
    IN {x \in runs : /\ 100 * x.speed > Quantile(runs, times, o)
                     /\ 100 * x.speed <= Quantile(runs, times, 100 - o)}

FilterOutliers(r, runs) ==
    LET times == reports[r].counted
        o == reports[r].filter.outliers
    IN {x \in runs : /\ 100 * x.speed > Quantile(runs, times, o)
                     /\ 100 * x.speed < Quantile(runs, times, 100 - o)}

(* The percentiles are labelled by the numbers; with half of the runs for    *)
(* outliers none is called 50th, by which they are sorted.                   *)
Plottable(r) ==
    \/ reports[r].filter.outliers # 50
    \/ \A x \in Runs : reports[r].counted[x] = 0

-------------------------------------------------------------------------------
(* A request.                                                                *)

Rows_Now(r) == stored[plugins[backup]]

To(r, at) == reports' = [reports EXCEPT ![r].at = at]
Rows(r) == stored[plugins[reports[r].plugin]]

Stamp_Minute(time) == 0

(* strftime with "%S".                                                       *)
Stamp(time) == time

Begin(r, f, second, inode) ==
    /\ reports' = [reports EXCEPT ![r] =
         [@ EXCEPT !.at = "groups", !.filter = f, !.asked = clock, !.second = second,
                   !.plugin = backup, !.file = inode,
                   !.owed = IF plugins[backup] = None THEN {}
                            ELSE {x \in stored[plugins[backup]] :
                                    AtHome(x.group) /\ x.day \in Start(f)..End(f)}]]
    /\ folders' = folders \cup {second}
    /\ zips' = [zips EXCEPT ![second] = inode]
    /\ ink' = [ink EXCEPT ![inode] = {}]

Ask(r, f) ==
    /\ reports[r].at = "none"
    /\ IF Valid(f)
       THEN LET second == Stamp(clock)
            IN Begin(r, f, second, IF zips[second] = None THEN r ELSE zips[second])
       ELSE To(r, "failed") /\ UNCHANGED fileVars
    /\ UNCHANGED <<clock, sinkVars, faults>>

ReadGroups(r) ==
    /\ reports[r].at = "groups" /\ plugins[reports[r].plugin] # None
    /\ reports' = [reports EXCEPT ![r] =
         [@ EXCEPT !.at = "rows", !.left = {g \in {x.group : x \in Rows(r)} : AtHome(g)}]]
    /\ UNCHANGED <<clock, sinkVars, fileVars, faults>>

(* Frames of one country are appended to each other.                         *)
ReadRows(r) ==
    /\ reports[r].at = "rows" /\ plugins[reports[r].plugin] # None
    /\ \E g \in reports[r].left :
         LET found == Retrieved(g, reports[r].filter, Rows(r))
         IN reports' = [reports EXCEPT
              ![r].left = @ \ {g},
              ![r].counted = [x \in Runs |-> @[x] + (IF x \in found THEN 1 ELSE 0)]]
    /\ UNCHANGED <<clock, sinkVars, fileVars, faults>>

Leave_FolderKept(r, at) ==
    /\ To(r, at)
    /\ ink' = [ink EXCEPT ![reports[r].file] = @ \cup {r}]
    /\ folders' = IF at = "failed" THEN folders ELSE folders \ {reports[r].second}
    /\ UNCHANGED <<clock, sinkVars, zips, faults>>

(* The zip file is closed, with what was written, and the folder removed.    *)
Leave(r, at) ==
    /\ To(r, at)
    /\ ink' = [ink EXCEPT ![reports[r].file] = @ \cup {r}]
    /\ folders' = folders \ {reports[r].second}
    /\ UNCHANGED <<clock, sinkVars, zips, faults>>

AllRead(r) == reports[r].at = "rows" /\ reports[r].left = {}
InFolder(r) == reports[r].second \in folders

Draw(r) ==
    /\ AllRead(r) /\ InFolder(r) /\ Plottable(r)
    /\ Leave(r, "send")

(* Another request has removed the folder, or a plot fails.                  *)
DrawFails(r) ==
    /\ AllRead(r) /\ (~InFolder(r) \/ ~Plottable(r) \/ faults)
    /\ Leave(r, "failed")

(* The plugin was stopped, or the client has gone.                           *)
GiveUp(r) ==
    /\ reports[r].at \in Reading /\ (plugins[reports[r].plugin] = None \/ faults)
    /\ Leave(r, "failed")

Open_Waits(r) ==
    /\ reports[r].at = "send" /\ zips[reports[r].second] # None
    /\ reports' = [reports EXCEPT ![r] =
                    [@ EXCEPT !.at = "body", !.file = zips[reports[r].second]]]
    /\ UNCHANGED <<clock, sinkVars, fileVars, faults>>

Open(r) ==
    /\ reports[r].at = "send"
    /\ IF zips[reports[r].second] = None THEN To(r, "lost")
       ELSE reports' = [reports EXCEPT ![r] =
                    [@ EXCEPT !.at = "body", !.file = zips[reports[r].second]]]
    /\ UNCHANGED <<clock, sinkVars, fileVars, faults>>

SendBody(r) ==
    /\ reports[r].at = "body"
    /\ reports' = [reports EXCEPT ![r] =
         [@ EXCEPT !.at = "answered", !.got = ink[reports[r].file]]]
    /\ UNCHANGED <<clock, sinkVars, fileVars, faults>>

(* _clean, when the connection's task is done.                               *)
Disconnect(r) ==
    /\ \/ reports[r].at \in {"answered", "lost"}
       \/ faults /\ reports[r].at \in {"send", "body"}
    /\ To(r, "closed")
    /\ zips' = [zips EXCEPT ![reports[r].second] = None]
    /\ UNCHANGED <<clock, sinkVars, folders, ink, faults>>

ReportStep(r) ==
    \/ ReadGroups(r) \/ ReadRows(r) \/ Draw(r) \/ DrawFails(r) \/ GiveUp(r)
    \/ Open(r) \/ SendBody(r) \/ Disconnect(r)

Tick ==
    /\ clock < MaxSecond /\ clock' = clock + 1
    /\ UNCHANGED <<sinkVars, fileVars, reports, faults>>

(* MasterSink.add_sinks, update_sinks, remove_sinks and the property backup, *)
(* for one sink that is marked as_backup.                                    *)
ConnectSink(database) ==
    /\ plugins' = Append(plugins, database) /\ backup' = Len(plugins) + 1
    /\ UNCHANGED reports

MoveSink(database) ==
    /\ plugins' = [plugins EXCEPT ![backup] = database] /\ UNCHANGED backup
    /\ reports' = [r \in Requests |->
                     [reports[r] EXCEPT !.moved = @ \/ reports[r].plugin = backup]]

DropSink ==
    /\ plugins' = [plugins EXCEPT ![backup] = None] /\ backup' = 1
    /\ UNCHANGED reports

(* A result reaches the sink that is configured.                             *)
Store(x) ==
    /\ backup # 1 /\ \A d \in Databases : x \notin stored[d]
    /\ stored' = [stored EXCEPT ![plugins[backup]] = @ \cup {x}]
    /\ UNCHANGED <<clock, plugins, backup, fileVars, reports, faults>>

-------------------------------------------------------------------------------
(* Properties.                                                               *)

Answered(r) == reports[r].got # None
Alone(r) == \A q \in Requests \ {r} : reports[q].asked # reports[r].asked
Counted(r) == {x \in Runs : reports[r].counted[x] > 0}

(* A client whose request was the only one in its second gets its own report,
   whole, whatever requests came before and after it (make_plots, _clean).   *)
AnswerIsOwn == \A r \in Requests : Answered(r) /\ Alone(r) => reports[r].got = {r}

(* Unless its sink was moved meanwhile, a report has every run of its days
   that was stored when it was asked for, of every city of a country, and all
   its runs come from one database, however often sinks are added and removed.
   No run is counted twice, except next to a group of the same countries
   without a city, which stands for all cities (make_reports, retrieve).     *)
RunsRight ==
    \A r \in Requests :
      /\ ~reports[r].moved =>
           /\ Answered(r) => reports[r].owed \subseteq Counted(r)
           /\ \E d \in Databases : Counted(r) \subseteq stored[d]
      /\ \A x \in Runs :
           reports[r].counted[x] > 1 =>
             \E y \in UNION {stored[d] : d \in Databases} :
                AtHome(y.group) /\ y.group.city = None /\ y.group.vpn = x.group.vpn

(* What is left out of the runs of a case on either side.                    *)
Below(runs, kept) == {x \in runs \ kept : \A y \in kept : x.speed < y.speed}
Above(runs, kept) == {x \in runs \ kept : \A y \in kept : x.speed > y.speed}
Balances(r, runs, kept) ==
    /\ Cardinality(Below(runs, kept)) = Cardinality(Above(runs, kept))
    /\ runs = Below(runs, kept) \cup kept \cup Above(runs, kept)
    /\ 100 * Cardinality(Below(runs, kept))
         <= reports[r].filter.outliers * (Cardinality(runs) - 1) + 100

(* The averages leave out the worst and the best runs of a case alike: as many
   on either side, at most one more than the share asked for, and none in the
   middle, if the speeds differ (_filter_outliers).                          *)
OutliersBalanced ==
    \A r \in Requests : Answered(r) =>
      \A s \in {InCase(r, x.group.vpn, x.case) : x \in Counted(r)} :
         /\ \A x \in s : reports[r].counted[x] = 1
         /\ Cardinality({x.speed : x \in s}) = Cardinality(s)
         /\ FilterOutliers(r, s) # {}
         => Balances(r, s, FilterOutliers(r, s))

(* Every folder belongs to a request that is at work, and once the requests of
   a second are over its zip file is left only if one of them failed.        *)
NothingLeftBehind ==
    /\ \A s \in folders :
         \E r \in Requests : reports[r].at \in Reading /\ reports[r].second = s
    /\ \A s \in Seconds : zips[s] # None =>
         \E r \in Requests : reports[r].second = s /\ reports[r].at # "closed"

===============================================================================
