-------------------------------- MODULE Sinks ---------------------------------
(*****************************************************************************)
(* datasink/: MasterSink and its plugins, SQLite and CSV.                    *)
(*                                                                           *)
(* A result is sent by one task per sink that nobody awaits; meanwhile the   *)
(* service adds, updates and removes sinks, one await at a time.  Each await *)
(* of a coroutine ends an action here; a SQLite plugin awaits the answers of *)
(* its connection, see Connections.                                          *)
(*                                                                           *)
(* A list of sinks is handled as one request after the other.  Requests that *)
(* raise before they change anything are left out: a plugin nobody knows, a  *)
(* sink that is not there.                                                   *)
(*****************************************************************************)
EXTENDS Connections

CONSTANTS
    Results,      \* test runs
    GroupOf,      \* the test group of each result, with the city of its probe
    CaseOf,       \* the test case of each result
    Lives,        \* what may happen: [configs, results, probes, plugins, conns,
                  \* restarts]: sinks of configurations as [name, url, type,
                  \* as_backup], test runs, arguments of set_probe, and bounds: the
                  \* plugins and connections made since the daemon was started, and
                  \* its restarts
    BadUrls,      \* urls that start rejects
    None          \* Python's None

Kinds == {"sqlite", "csv"}      \* the registered plugins, all of them backups
Configs == UNION {l.configs : l \in Lives}
ConnIds == UNION {1..l.conns : l \in Lives}
Names == {cfg.name : cfg \in Configs}
Urls == {cfg.url : cfg \in Configs}
Tasks == Results \X Names

ASSUME SinksAssumption ==
    /\ None \notin Urls /\ DOMAIN GroupOf = Results /\ DOMAIN CaseOf = Results
    /\ \A cfg \in Configs : DOMAIN cfg = {"name", "url", "type", "as_backup"}
    /\ \A l \in Lives : l.results \subseteq Results /\ {l.plugins, l.conns, l.restarts} \subseteq Nat

VARIABLES
    sinks,      \* MasterSink._sinks: name -> plugin
    backups,    \* MasterSink._backups: name -> plugin
    probe,      \* MasterSink._probe
    plugins,    \* the plugin objects: [kind, conn, path]
    files,      \* the results in each csv file, in order
    sends,      \* the tasks of send_data: (result, name of the sink) -> task
    update,     \* the request the service is executing, and where it waits
    life,       \* the element of Lives
    restarts

sinkVars == <<sinks, backups, probe, plugins, update, life, restarts>>
vars == <<sinkVars, connVars, files, sends>>

(* Who awaits an answer: a task <<result, name>>, or the update.             *)
TheUpdate == <<>>
Idle == [do |-> "none", at |-> "idle", cfg |-> None, plugin |-> 0, table |-> 0]
Ended == {"done", "lost"}

(* The plugin takes results.  plugin.conn is SQLite._db, plugin.path is      *)
(* CSV._path: 0 and None while there is no such attribute.                   *)
Stopping(p) == update.at = "shut" /\ update.plugin = p
Up(p) == IF plugins[p].kind = "csv" THEN plugins[p].path # None
         ELSE /\ plugins[p].conn # 0 /\ conns[plugins[p].conn].live = "open"
              /\ ~Stopping(p)
(* The url a sink was last started with, None while it is not started.       *)
UrlOf(p) == IF plugins[p].kind = "csv" THEN plugins[p].path
            ELSE IF plugins[p].conn = 0 THEN None ELSE conns[plugins[p].conn].url

Init ==
    /\ sinks = [x \in {} |-> 0] /\ backups = [x \in {} |-> 0] /\ life \in Lives /\ probe \in life.probes
    /\ plugins = <<>> /\ conns = <<>> /\ answers = <<>> /\ update = Idle
    /\ saved = [u \in Urls |-> NoTables] /\ files = [u \in Urls |-> <<>>]
    /\ sends = [x \in {} |-> 0]
    /\ restarts = 0

-------------------------------------------------------------------------------
(* MasterSink.send_data and SQLite.send, CSV.send.                           *)

(* One task per sink; disturbed remembers for the properties whether the     *)
(* plugin has been down since the task was created.                          *)
SendData ==
    /\ \E r \in life.results \ {t[1] : t \in DOMAIN sends} :
         sends' = [t \in DOMAIN sends \cup {<<r, n>> : n \in DOMAIN sinks} |->
                     IF t \in DOMAIN sends THEN sends[t]
                     ELSE [plugin |-> sinks[t[2]], probe |-> probe, at |-> "new",
                           conn |-> 0, table |-> 0, parent |-> 0, id |-> 0,
                           why |-> "none", disturbed |-> ~Up(sinks[t[2]])]]
    /\ UNCHANGED <<sinkVars, conns, saved, files, answers>>

(* DynamicDataSink.send swallows every exception.                            *)
Lose(t, why) == sends' = [sends EXCEPT ![t].at = "lost", ![t].why = why]

Row(t, n, parent) ==
    [key |-> <<sends[t].probe, GroupOf[t[1]], CaseOf[t[1]], t[1]>>[n], parent |-> parent]

(* self._db is read anew for each row and for the commit.                    *)
Db(t) == plugins[sends[t].plugin].conn

Insert(t, n, parent) ==
    IF Running(Db(t))
    THEN /\ conns' = Put(conns, Db(t), Op(t, "insert", n, Row(t, n, parent)))
         /\ sends' = [sends EXCEPT ![t].at = "insert", ![t].conn = Db(t), ![t].table = n,
                                   ![t].parent = parent]
    ELSE Lose(t, "closed") /\ UNCHANGED conns

(* The next statement of the cursor.                                         *)
Continue(t, do, id) ==
    IF Running(sends[t].conn)
    THEN /\ conns' = Put(conns, sends[t].conn,
                         Op(t, do, sends[t].table, Row(t, sends[t].table, sends[t].parent)))
         /\ sends' = [sends EXCEPT ![t].at = do, ![t].id = id]
    ELSE Lose(t, "closed") /\ UNCHANGED conns

Commit(t) ==
    IF Running(Db(t))
    THEN /\ conns' = Put(conns, Db(t), Op(t, "commit", 0, None))
         /\ sends' = [sends EXCEPT ![t].at = "commit", ![t].conn = Db(t)]
    ELSE Lose(t, "closed") /\ UNCHANGED conns

SendFirst ==
    /\ \E t \in DOMAIN sends :
         /\ sends[t].at = "new" /\ plugins[sends[t].plugin].kind = "sqlite"
         /\ Insert(t, 1, 0)
    /\ UNCHANGED <<sinkVars, saved, files, answers>>

(* CSV.send contains no await.                                               *)
SendCSV ==
    /\ \E t \in DOMAIN sends :
         LET path == plugins[sends[t].plugin].path
         IN /\ sends[t].at = "new" /\ plugins[sends[t].plugin].kind = "csv"
            /\ IF path = None
               THEN Lose(t, "closed") /\ UNCHANGED files
               ELSE /\ files' = [files EXCEPT ![path] = Append(@, t[1])]
                    /\ sends' = [sends EXCEPT ![t].at = "done"]
    /\ UNCHANGED <<sinkVars, conns, saved, answers>>

(* The event loop resumes the coroutine whose answer came first.             *)
Resumes(do) == answers # <<>> /\ Head(answers).do = do /\ Head(answers).how = "ok"
SendResumes(do) ==
    /\ Resumes(do) /\ Head(answers).to # TheUpdate
    /\ answers' = Tail(answers)
    /\ UNCHANGED <<sinkVars, saved, files>>

Inserted ==
    /\ SendResumes("insert")
    /\ Continue(Head(answers).to, IF Head(answers).id = 0 THEN "select" ELSE "close",
                Head(answers).id)

Selected ==
    /\ SendResumes("select")
    /\ Continue(Head(answers).to, "close", Head(answers).id)

LastTable_Early == 3
LastTable == 4

CursorClosed ==
    /\ SendResumes("close")
    /\ LET t == Head(answers).to
       IN IF sends[t].table < LastTable THEN Insert(t, sends[t].table + 1, sends[t].id)
          ELSE Commit(t)

Committed ==
    /\ SendResumes("commit")
    /\ sends' = [sends EXCEPT ![Head(answers).to].at = "done"]
    /\ UNCHANGED conns

SendFails ==
    /\ answers # <<>> /\ Head(answers).how # "ok" /\ Head(answers).to # TheUpdate
    /\ Lose(Head(answers).to, Head(answers).how)
    /\ answers' = Tail(answers)
    /\ UNCHANGED <<sinkVars, conns, saved, files>>

-------------------------------------------------------------------------------
(* MasterSink.add_sinks, update_sinks, remove_sinks.                         *)

With(f, x, v) == [y \in DOMAIN f \cup {x} |-> IF y = x THEN v ELSE f[y]]
Without(f, x) == [y \in DOMAIN f \ {x} |-> f[y]]
Unbacked_Kept(n) == backups
Unbacked(n) == Without(backups, n)
Backed(n, p) == With(backups, n, p)

PluginName(cfg) == IF cfg.type # None THEN cfg.type ELSE cfg.name
UrlFree(cfg) == \A n \in DOMAIN sinks \ {cfg.name} : UrlOf(sinks[n]) # cfg.url

WithinBound(kind, cfg) ==
    kind = "sqlite" /\ cfg.url \notin BadUrls => Len(conns) < life.conns
Registered(do, cfg, p) == IF do = "add" THEN With(sinks, cfg.name, p) ELSE sinks

Rejected(url) == url \in BadUrls

(* plugin.start: ps are the plugins and cs the connections before it.        *)
StartPlugin(do, cfg, p, ps, cs) ==
    \/ /\ Rejected(cfg.url)           \* ValueError, swallowed
       /\ plugins' = ps /\ conns' = cs
       /\ sinks' = Registered(do, cfg, p) /\ update' = Idle
    \/ /\ ~Rejected(cfg.url) /\ ps[p].kind = "csv"
       /\ plugins' = [ps EXCEPT ![p].path = cfg.url] /\ conns' = cs
       /\ sinks' = Registered(do, cfg, p) /\ update' = Idle
    \/ /\ ~Rejected(cfg.url) /\ ps[p].kind = "sqlite"
       /\ conns' = Append(cs, NewConn(cfg.url, Op(TheUpdate, "connect", 0, None)))
       /\ update' = [do |-> do, at |-> "connect", cfg |-> cfg, plugin |-> p, table |-> 0]
       /\ plugins' = ps /\ sinks' = sinks

(* A sink is made a backup here only if it has the name of a plugin.         *)
AddSink ==
    /\ update = Idle /\ Len(plugins) < life.plugins
    /\ \E cfg \in life.configs :
         LET p == Len(plugins) + 1
         IN /\ cfg.name \notin DOMAIN sinks /\ PluginName(cfg) \in Kinds
            /\ UrlFree(cfg) /\ WithinBound(PluginName(cfg), cfg)
            /\ backups' = IF cfg.name \in Kinds /\ cfg.as_backup
                          THEN Backed(cfg.name, p) ELSE backups
            /\ StartPlugin("add", cfg, p,
                           Append(plugins, [kind |-> PluginName(cfg), conn |-> 0, path |-> None]),
                           conns)
    /\ UNCHANGED <<probe, saved, files, sends, answers, life, restarts>>

(* Behind plugin.stop: the rest of update_sinks and remove_sinks.            *)
AfterStop(do, cfg, cs) ==
    LET p == sinks[cfg.name]
    IN \/ /\ do = "update"
          /\ backups' = IF ~cfg.as_backup THEN Unbacked(cfg.name)
                        ELSE IF cfg.name \in DOMAIN backups THEN backups ELSE Backed(cfg.name, p)
          /\ StartPlugin(do, cfg, p, plugins, cs)
       \/ /\ do = "remove"
          /\ sinks' = Without(sinks, cfg.name) /\ backups' = Unbacked(cfg.name)
          /\ update' = Idle /\ plugins' = plugins /\ conns' = cs

Disturb(p) ==
    sends' = [t \in DOMAIN sends |->
                IF sends[t].plugin = p THEN [sends[t] EXCEPT !.disturbed = TRUE] ELSE sends[t]]

(* plugin.stop: only a connection that still runs has to be waited for; the  *)
(* exceptions of the others are swallowed.                                   *)
StopSink ==
    /\ update = Idle
    /\ \E cfg \in life.configs, do \in {"update", "remove"} :
         /\ cfg.name \in DOMAIN sinks
         /\ do = "update" => UrlFree(cfg) /\ WithinBound(plugins[sinks[cfg.name]].kind, cfg)
         /\ LET p == sinks[cfg.name]
                c == plugins[p].conn
            IN /\ IF Running(c)
                  THEN /\ conns' = Put(conns, c, Op(TheUpdate, "shut", 0, None))
                       /\ update' = [do |-> do, at |-> "shut", cfg |-> cfg, plugin |-> p,
                                     table |-> 0]
                       /\ UNCHANGED <<sinks, backups, plugins>>
                  ELSE AfterStop(do, cfg, conns)
               /\ Disturb(p)
    /\ UNCHANGED <<probe, saved, files, answers, life, restarts>>

UpdateResumes(do) ==
    /\ Resumes(do) /\ Head(answers).to = TheUpdate
    /\ answers' = Tail(answers)
    /\ UNCHANGED <<probe, saved, files, life, restarts>>

Stopped ==
    /\ UpdateResumes("shut")
    /\ AfterStop(update.do, update.cfg,
                 [conns EXCEPT ![plugins[update.plugin].conn].live = "gone"])
    /\ UNCHANGED sends

Table_ChildrenFirst(n) == 5 - n
Table(n) == n
CreateTable(c, n) ==
    /\ conns' = Put(conns, c, Op(TheUpdate, "create", Table(n), None))
    /\ update' = [update EXCEPT !.at = "create", !.table = n]

(* The new connection is the last one that was made.                         *)
Connected ==
    /\ UpdateResumes("connect")
    /\ plugins' = [plugins EXCEPT ![update.plugin].conn = Len(conns)]
    /\ CreateTable(Len(conns), 1)
    /\ UNCHANGED <<sinks, backups, sends>>

Created ==
    /\ UpdateResumes("create")
    /\ conns' = Put(conns, plugins[update.plugin].conn, Op(TheUpdate, "close", 0, None))
    /\ update' = [update EXCEPT !.at = "close"]
    /\ UNCHANGED <<sinks, backups, plugins, sends>>

CreatedNext ==
    /\ UpdateResumes("close")
    /\ IF update.table < 4
       THEN CreateTable(plugins[update.plugin].conn, update.table + 1) /\ sinks' = sinks
       ELSE /\ sinks' = Registered(update.do, update.cfg, update.plugin)
            /\ update' = Idle /\ UNCHANGED conns
    /\ UNCHANGED <<backups, plugins, sends>>

(* Service.update, when it is done with the sinks.                           *)
SetProbe ==
    /\ update = Idle
    /\ probe' \in life.probes
    /\ UNCHANGED <<sinks, backups, plugins, conns, saved, files, sends, answers, update,
                   life, restarts>>

(* The daemon ends at any moment and is started again without sinks.         *)
Restart ==
    /\ restarts < life.restarts
    /\ restarts' = restarts + 1
    /\ sinks' = [x \in {} |-> 0] /\ backups' = [x \in {} |-> 0] /\ plugins' = <<>>
    /\ conns' = <<>> /\ answers' = <<>> /\ update' = Idle /\ probe' \in life.probes
    /\ sends' = [t \in DOMAIN sends |->
                   IF sends[t].at \in Ended THEN sends[t]
                   ELSE [sends[t] EXCEPT !.at = "lost", !.why = "restart", !.disturbed = TRUE]]
    /\ UNCHANGED <<saved, files, life>>

Coroutine ==
    \/ SendFirst \/ SendCSV \/ Inserted \/ Selected \/ CursorClosed \/ Committed
    \/ SendFails \/ Stopped \/ Connected \/ Created \/ CreatedNext

ThreadStep ==
    /\ \E c \in ConnIds : Thread(c)
    /\ UNCHANGED <<sinkVars, files, sends>>

Next ==
    \/ ThreadStep
    \/ Coroutine \/ SendData \/ AddSink \/ StopSink \/ SetProbe \/ Restart

Spec == Init /\ [][Next]_vars
FairSpec ==
    /\ Spec /\ WF_vars(Coroutine)
    /\ \A c \in ConnIds : WF_vars(Thread(c) /\ UNCHANGED <<sinkVars, files, sends>>)

-------------------------------------------------------------------------------
(* Every variable has its type: sinks and tasks name plugins that exist, and *)
(* plugins connections that exist.                                           *)
TypeOK ==
    /\ DOMAIN sinks \subseteq Names
    /\ \A n \in DOMAIN sinks : sinks[n] \in DOMAIN plugins
    /\ DOMAIN backups \subseteq Names
    /\ \A p \in DOMAIN plugins :
         /\ plugins[p].kind \in Kinds /\ plugins[p].conn \in {0} \cup DOMAIN conns
         /\ plugins[p].path \in Urls \cup {None}
    /\ \A c \in DOMAIN conns :
         /\ conns[c].url \in Urls \ BadUrls /\ conns[c].live \in {"new", "open", "shut", "gone"}
         /\ conns[c].work.made \subseteq 1..4
    /\ DOMAIN sends \subseteq Tasks
    /\ \A t \in DOMAIN sends :
         /\ sends[t].at \in {"new", "insert", "select", "close", "commit"} \cup Ended
         /\ sends[t].table \in 0..4
    /\ update.at \in {"idle", "shut", "connect", "create", "close"}
    /\ probe \in life.probes /\ restarts \in 0..life.restarts

(* The tables that are on disk, and those that a connection sees.            *)
Contents == {saved[u].rows : u \in Urls} \cup {conns[c].work.rows : c \in DOMAIN conns}

(* A stored run leads by its foreign keys to its own case, that to its own   *)
(* group and that to the probe that was set when the result was sent, also   *)
(* after a crash and whatever other sends and edits of the sink came between *)
(* the rows.                                                                 *)
OwnRows ==
    \A rows \in Contents : \A i \in DOMAIN rows[4] :
        LET run == rows[4][i]
        IN /\ run.parent \in DOMAIN rows[3]
           /\ rows[3][run.parent].key = CaseOf[run.key]
           /\ rows[3][run.parent].parent \in DOMAIN rows[2]
           /\ LET group == rows[2][rows[3][run.parent].parent]
              IN /\ group.key = GroupOf[run.key]
                 /\ group.parent \in DOMAIN rows[1]
                 /\ rows[1][group.parent].key \in
                        {sends[t].probe : t \in {x \in DOMAIN sends : x[1] = run.key}}

(* A sink loses a result only if it has been stopped or down since the       *)
(* result was sent, or the database cannot look its keys up.  In particular  *)
(* a send that comes while start is creating the tables of a new database    *)
(* never gets ahead of it.                                                   *)
LostOnlyWhenStopped ==
    \A t \in DOMAIN sends :
        sends[t].at = "lost" =>
            \/ sends[t].disturbed /\ sends[t].why # "missing"
            \/ sends[t].why = "syntax"

CountIn(seq, x) == Cardinality({i \in DOMAIN seq : seq[i] = x})
RunsOf(rows, r) == Cardinality({i \in DOMAIN rows[4] : rows[4][i].key = r})
Stored(r, u) == RunsOf(saved[u].rows, r) + CountIn(files[u], r)

UrlsOf(n) == {cfg.url : cfg \in {cfg \in life.configs : cfg.name = n}}

(* Unless configurations hand a file from one sink to another, no result is in
   it twice, and what a send has ended for is in a file of its sink, for good. *)
StoredOnce ==
    (\A a, b \in life.configs : a.url = b.url => a.name = b.name) =>
        /\ \A u \in Urls, r \in Results : Stored(r, u) <= 1
        /\ \A t \in DOMAIN sends :
             sends[t].at = "done" => \E u \in UrlsOf(t[2]) : Stored(t[1], u) = 1

(* The data for reports never comes from a plugin that is not, or no longer, *)
(* the sink of its name, except during an update.                            *)
BackupsAreSinks ==
    update = Idle =>
        \A n \in DOMAIN backups : n \in DOMAIN sinks /\ sinks[n] = backups[n]

(* Every send and every update ends, whatever closes the connection.  There  *)
(* are finitely many results, so all of them come to their end together.     *)
AllEnd ==
    /\ <>[](\A t \in DOMAIN sends : sends[t].at \in Ended)
    /\ []<>(update = Idle)

(* src/README.md:222: "All test results acquired are sent to any data sinks  *)
(* that are specified in the config."                                        *)
AllStored ==
    \A t \in DOMAIN sends :
        /\ sends[t].at \in Ended /\ restarts = 0 /\ update = Idle
        /\ t[2] \in DOMAIN sinks /\ sinks[t[2]] = sends[t].plugin
        => \E u \in Urls : Stored(t[1], u) > 0

===============================================================================
