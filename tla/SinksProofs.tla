------------------------------ MODULE SinksProofs -----------------------------
(*****************************************************************************)
(* Proofs that what a sink stores stays connected as it was sent, that a     *)
(* result is lost for one of a few reasons only, and that it is stored once, *)
(* for any number of sinks, results, edits, crashes and restarts.            *)
(*                                                                           *)
(* A coroutine awaits one answer at a time (Pending), and it has the answer  *)
(* of a connection before the update that closes this connection goes on     *)
(* (Punctual).  So an id is only ever used on the connection that it came    *)
(* from, where it stands for the rows that led to it (Led).  A send comes to *)
(* no table before the update has created it, since it is a statement behind *)
(* at every table (Behind).                                                  *)
(*****************************************************************************)
EXTENDS Sinks, SequenceTheorems, FiniteSetTheorems, TLAPS

InFlight == {"insert", "select", "close", "commit"}
Flying(t) == t \in DOMAIN sends /\ sends[t].at \in InFlight

-------------------------------------------------------------------------------
(* Types.                                                                    *)

Probes == UNION {l.probes : l \in Lives}
GroupKeys == {GroupOf[r] : r \in Results}
CaseKeys == {CaseOf[r] : r \in Results}
Keys == Probes \cup GroupKeys \cup CaseKeys \cup Results
RowSet == [key : Keys, parent : Nat]
Tables == [made : SUBSET (1..4), rows : [1..4 -> Seq(RowSet)]]
Ops == [to : Tasks \cup {TheUpdate}, do : {"insert", "select", "close", "commit", "connect",
                                           "create", "shut"},
        table : 0..4, row : RowSet \cup {None}]
ConnSet == [url : Urls, live : {"new", "open", "shut", "gone"}, tx : BOOLEAN, work : Tables,
            queue : Seq(Ops)]
AnswerSet == [to : Tasks \cup {TheUpdate}, do : {"insert", "select", "close", "commit", "connect",
                                                 "create", "shut"},
              id : Nat, how : {"ok", "missing", "syntax", "closed"}]
Whys == {"none", "ok", "missing", "syntax", "closed", "restart"}
PluginSet == [kind : Kinds, conn : Nat, path : Urls \cup {None}]
TaskSet == [plugin : Nat, probe : Probes,
            at : InFlight \cup Ended \cup {"new"}, conn : Nat, table : 0..4, parent : Nat,
            id : Nat, why : Whys, disturbed : BOOLEAN]

Typed ==
    /\ life \in Lives /\ probe \in life.probes
    /\ DOMAIN sinks \subseteq Names /\ \A n \in DOMAIN sinks : sinks[n] \in DOMAIN plugins
    /\ plugins \in Seq(PluginSet)
    /\ \A p \in DOMAIN plugins :
         /\ plugins[p].conn <= Len(conns)
         /\ plugins[p].kind = "csv" => plugins[p].conn = 0
    /\ conns \in Seq(ConnSet) /\ answers \in Seq(AnswerSet)
    /\ saved \in [Urls -> Tables]
    /\ DOMAIN sends \subseteq Tasks /\ \A t \in DOMAIN sends : sends[t] \in TaskSet
    /\ \A t \in DOMAIN sends :
         /\ sends[t].at \notin Ended => sends[t].plugin \in DOMAIN plugins
         /\ sends[t].at \in InFlight => /\ plugins[sends[t].plugin].kind = "sqlite"
                                        /\ sends[t].conn \in DOMAIN conns
                                        /\ sends[t].table \in 1..4
    /\ update.do \in {"none", "add", "update", "remove"}
    /\ update.at \in {"idle", "shut", "connect", "create", "close"}
    /\ update = [do |-> update.do, at |-> update.at, cfg |-> update.cfg,
                  plugin |-> update.plugin, table |-> update.table]
    /\ update.table \in 0..4
    /\ update.at = "idle" <=> update = Idle
    /\ update.at # "idle" => /\ update.plugin \in DOMAIN plugins /\ update.cfg \in life.configs
                             /\ update.do # "none" /\ plugins[update.plugin].kind = "sqlite"
    /\ update.at # "idle" /\ update.do # "add" =>
         update.cfg.name \in DOMAIN sinks /\ sinks[update.cfg.name] = update.plugin
    /\ update.at = "shut" => update.do # "add"
    /\ update.at \in {"create", "close"} => update.table \in 1..4

(* The connection that the update has to do with.                            *)
Site == IF update.at = "connect" THEN Len(conns) ELSE plugins[update.plugin].conn

(* Where connections are in their lives.                                     *)
Sites ==
    /\ \A p, q \in DOMAIN plugins :
         plugins[p].conn = plugins[q].conn /\ plugins[p].conn # 0 => p = q
    /\ \A c \in DOMAIN conns :
         /\ conns[c].live = "new" => update.at = "connect" /\ c = Len(conns)
         /\ conns[c].live = "shut" => update.at = "shut" /\ c = Site
    /\ update.at = "connect" =>
         /\ Len(conns) # 0 /\ conns[Len(conns)].live \in {"new", "open"}
         /\ \A p \in DOMAIN plugins : plugins[p].conn # Len(conns)
         /\ plugins[update.plugin].conn # 0 => conns[plugins[update.plugin].conn].live = "gone"
    /\ update.at \in {"create", "close"} => Site # 0 /\ conns[Site].live = "open"
    /\ update.at = "shut" => Site # 0 /\ conns[Site].live \in {"open", "shut"}
    /\ \A t \in DOMAIN sends : Flying(t) =>
         /\ conns[sends[t].conn].live # "new"
         /\ conns[sends[t].conn].live # "gone" => Db(t) = sends[t].conn

(* A coroutine has one statement or one answer under way.                    *)
Fits(c, op) ==
    IF op.to = TheUpdate
    THEN update.at = op.do /\ c = Site /\ (op.do = "create" => op.table = update.table)
    ELSE /\ Flying(op.to) /\ sends[op.to].at = op.do /\ sends[op.to].conn = c
         /\ op.do # "commit" => /\ op.table = sends[op.to].table
                                /\ op.row = Row(op.to, sends[op.to].table, sends[op.to].parent)
Suits(a) ==
    IF a.to = TheUpdate THEN update.at = a.do /\ a.how = "ok"
    ELSE Flying(a.to) /\ sends[a.to].at = a.do

Queue(c) == conns[c].queue
Pending ==
    /\ \A c \in DOMAIN conns : \A i \in DOMAIN Queue(c) :
         /\ Fits(c, Queue(c)[i])
         /\ \A j \in DOMAIN Queue(c) : Queue(c)[i].to = Queue(c)[j].to => i = j
         /\ \A j \in DOMAIN answers : answers[j].to # Queue(c)[i].to
    /\ \A i \in DOMAIN answers :
         /\ Suits(answers[i])
         /\ \A j \in DOMAIN answers : answers[i].to = answers[j].to => i = j
    /\ update.at # "idle" => \/ \E j \in DOMAIN answers : answers[j].to = TheUpdate
                             \/ \E i \in DOMAIN Queue(Site) : Queue(Site)[i].to = TheUpdate
    /\ \A c \in DOMAIN conns : conns[c].live = "new" =>
         \E i \in DOMAIN Queue(c) : Queue(c)[i].to = TheUpdate
    /\ \A c \in DOMAIN conns : conns[c].live = "shut" =>
         \E j \in DOMAIN answers : answers[j].to = TheUpdate
    /\ update.at = "shut" /\ conns[Site].live = "open" =>
         \E i \in DOMAIN Queue(Site) : Queue(Site)[i].to = TheUpdate

(* An answer of a connection that is closed comes before that of the close.  *)
Punctual ==
    \A i \in DOMAIN answers :
      LET t == answers[i].to
      IN t # TheUpdate /\ answers[i].how = "ok" /\ conns[sends[t].conn].live # "open" =>
           /\ conns[sends[t].conn].live = "shut"
           /\ \E j \in DOMAIN answers : i < j /\ answers[j].to = TheUpdate

-------------------------------------------------------------------------------
(* A row of a table that leads to the probe, the group and the case of a     *)
(* result that was sent for this probe.                                      *)
IsProbe(rows, b, i) == i \in DOMAIN rows[1] /\ rows[1][i].key = b
IsGroup(rows, r, b, i) ==
    /\ i \in DOMAIN rows[2] /\ rows[2][i].key = GroupOf[r] /\ IsProbe(rows, b, rows[2][i].parent)
IsCase(rows, r, b, i) ==
    /\ i \in DOMAIN rows[3] /\ rows[3][i].key = CaseOf[r] /\ IsGroup(rows, r, b, rows[3][i].parent)

Leads(rows, r, b, n, i) ==
    /\ n = 1 => IsProbe(rows, b, i)
    /\ n = 2 => IsGroup(rows, r, b, i)
    /\ n = 3 => IsCase(rows, r, b, i)

Own(rows) ==
    \A i \in DOMAIN rows[4] :
       \E t \in DOMAIN sends : /\ t[1] = rows[4][i].key
                               /\ IsCase(rows, t[1], sends[t].probe, rows[4][i].parent)

(* What the ids of a send stand for on the connection that it uses.          *)
Ids(t) ==
    LET rows == conns[sends[t].conn].work.rows
        leads(n, i) == Leads(rows, t[1], sends[t].probe, n, i)
    IN /\ sends[t].at # "commit" => leads(sends[t].table - 1, sends[t].parent)
       /\ sends[t].at = "close" => leads(sends[t].table, sends[t].id)
       /\ \A j \in DOMAIN answers :
            answers[j].to = t /\ answers[j].how = "ok" =>
               /\ answers[j].do = "insert" /\ answers[j].id # 0 => leads(sends[t].table, answers[j].id)
               /\ answers[j].do = "select" => leads(sends[t].table, answers[j].id)

Led ==
    /\ \A u \in Urls : Own(saved[u].rows)
    /\ \A c \in DOMAIN conns : Own(conns[c].work.rows)
    /\ \A t \in DOMAIN sends : Flying(t) /\ conns[sends[t].conn].live = "open" => Ids(t)

-------------------------------------------------------------------------------
Building(c) == update.at \in {"create", "close"} /\ c = Site

(* The tables that an open connection has.                                   *)
Made ==
    \A c \in DOMAIN conns :
      conns[c].live = "open" =>
        IF Building(c)
        THEN /\ 1..update.table - 1 \subseteq conns[c].work.made
             /\ \/ update.table \in conns[c].work.made
                \/ /\ update.at = "create"
                   /\ \E i \in DOMAIN Queue(c) : Queue(c)[i].to = TheUpdate
        ELSE 1..4 \subseteq conns[c].work.made \/ (update.at = "connect" /\ c = Len(conns))

(* The update's statement or answer comes before the one of t.               *)
Ahead(c, t) ==
    /\ \A i, j \in DOMAIN Queue(c) : Queue(c)[i].to = t /\ Queue(c)[j].to = TheUpdate => j < i
    /\ \A i \in DOMAIN answers :
         answers[i].to = t => \E j \in DOMAIN answers : j < i /\ answers[j].to = TheUpdate

Behind ==
    \A t \in DOMAIN sends :
      Flying(t) /\ Building(sends[t].conn) =>
        \/ sends[t].table < update.table
        \/ /\ sends[t].table = update.table
           /\ \/ sends[t].at = "insert" /\ update.at = "create" /\ Ahead(sends[t].conn, t)
              \/ sends[t].at \in {"insert", "select"} /\ update.at = "close"
              \/ sends[t].at = "close" /\ update.at = "close" /\ Ahead(sends[t].conn, t)

(* A task whose plugin was never stopped.                                    *)
Safe ==
    /\ \A t \in DOMAIN sends :
         sends[t].at \notin Ended /\ ~sends[t].disturbed =>
            Up(sends[t].plugin) /\ (Flying(t) => sends[t].conn = Db(t))
    /\ \A j \in DOMAIN answers :
         LET t == answers[j].to
         IN t # TheUpdate => /\ answers[j].how # "missing"
                             /\ answers[j].how = "closed" => sends[t].disturbed
    /\ LostOnlyWhenStopped

Mapped ==
    /\ \A n \in DOMAIN backups :
       \/ n \in DOMAIN sinks /\ sinks[n] = backups[n]
       \/ update.do = "add" /\ n = update.cfg.name /\ backups[n] = update.plugin
    /\ update.do = "add" => update.cfg.name \notin DOMAIN sinks

Limits == (\A c \in DOMAIN conns : conns[c].url \notin BadUrls) /\ restarts \in 0..life.restarts

SinksInv ==
    /\ Typed /\ Sites /\ Pending /\ Punctual
    /\ Led /\ Made /\ Behind /\ Safe
    /\ Mapped /\ Limits

-------------------------------------------------------------------------------
(* Files belong to names, and an open connection to a sink or to the update. *)
OneSinkEach == \A a, b \in life.configs : a.url = b.url => a.name = b.name

Active(t) == t \in DOMAIN sends /\ sends[t].at \notin Ended

Serves(p, n) ==
    /\ plugins[p].conn # 0 => conns[plugins[p].conn].url \in UrlsOf(n)
    /\ plugins[p].path # None => plugins[p].path \in UrlsOf(n)

(* A plugin never changes its name.                                          *)
Belongs(p, n) ==
    /\ Serves(p, n)
    /\ \A m \in DOMAIN sinks : sinks[m] = p => m = n
    /\ \A t \in DOMAIN sends : Active(t) /\ sends[t].plugin = p => t[2] = n
    /\ update.at # "idle" /\ update.plugin = p => update.cfg.name = n

Held(c) ==
    \/ \E n \in DOMAIN sinks : plugins[sinks[n]].conn = c
    \/ update.at # "idle" /\ c = Site

Owned ==
    /\ \A p \in DOMAIN plugins : \E n \in Names : Belongs(p, n)
    /\ update.at = "connect" => conns[Len(conns)].url = update.cfg.url
    /\ \A c \in DOMAIN conns : conns[c].live \in {"new", "open"} => Held(c)

(* Results in tables and files.                                              *)
RunKeys(rows) == {rows[4][i].key : i \in DOMAIN rows[4]}
InFile(u) == {files[u][i] : i \in DOMAIN files[u]}

Beyond(t) ==
    /\ t \in DOMAIN sends
    /\ \/ sends[t].at \in Ended
       \/ /\ Flying(t) /\ sends[t].table = 4
          /\ \A i \in DOMAIN Queue(sends[t].conn) :
               Queue(sends[t].conn)[i].to = t => sends[t].at # "insert"

Claimed(r, u) == r \notin InFile(u) /\ \E n \in Names : u \in UrlsOf(n) /\ Beyond(<<r, n>>)
Single(rows, u) ==
    /\ \A i, j \in DOMAIN rows[4] : rows[4][i].key = rows[4][j].key => i = j
    /\ \A r \in RunKeys(rows) : Claimed(r, u)

Written(t) ==
    \/ sends[t].at \in {"select", "close", "commit"}
    \/ \E j \in DOMAIN answers : answers[j].to = t /\ answers[j].how = "ok"

OnDisk(t) == \E u \in UrlsOf(t[2]) : t[1] \in RunKeys(saved[u].rows)

OneEach ==
    /\ \A u \in Urls : Single(saved[u].rows, u)
    /\ \A c \in DOMAIN conns : conns[c].live = "open" =>
         /\ Single(conns[c].work.rows, conns[c].url)
         /\ RunKeys(saved[conns[c].url].rows) \subseteq RunKeys(conns[c].work.rows)

Filed ==
    /\ files \in [Urls -> Seq(Results)]
    /\ \A u \in Urls :
         /\ \A i, j \in DOMAIN files[u] : files[u][i] = files[u][j] => i = j
         /\ \A r \in InFile(u) : \E n \in Names :
              u \in UrlsOf(n) /\ <<r, n>> \in DOMAIN sends /\ sends[<<r, n>>].at = "done"

Shown(t) ==
    /\ Flying(t) /\ sends[t].table = 4 /\ conns[sends[t].conn].live = "open" /\ Written(t) =>
         t[1] \in RunKeys(conns[sends[t].conn].work.rows)
    /\ sends[t].at = "commit" => sends[t].table = 4
    /\ sends[t].at = "done" => OnDisk(t) \/ \E u \in UrlsOf(t[2]) : t[1] \in InFile(u)

Kept ==
    /\ OneEach /\ Filed /\ \A t \in DOMAIN sends : Shown(t)
    /\ \A j \in DOMAIN answers :
         answers[j].do = "commit" /\ answers[j].how = "ok" => OnDisk(answers[j].to)

StoredInv == Owned /\ (OneSinkEach => Kept)

-------------------------------------------------------------------------------
(* What a step does to queues, answers and tasks.                            *)

LEMMA SeqFacts ==
    ASSUME NEW S, NEW s \in Seq(S)
    PROVE  /\ Len(s) \in Nat /\ DOMAIN s = 1..Len(s) /\ \A i \in DOMAIN s : s[i] \in S
           /\ s # <<>> <=> Len(s) > 0
           /\ s # <<>> => /\ 1 \in DOMAIN s /\ Head(s) = s[1] /\ Tail(s) \in Seq(S)
                          /\ Len(Tail(s)) = Len(s) - 1
                          /\ \A i \in 1..Len(s) - 1 : Tail(s)[i] = s[i + 1]
BY EmptySeq, LenProperties, HeadTailProperties, ElementOfSeq

LEMMA AppendFacts ==
    ASSUME NEW S, NEW s \in Seq(S), NEW x \in S
    PROVE  /\ Append(s, x) \in Seq(S) /\ Len(Append(s, x)) = Len(s) + 1
           /\ \A i \in 1..Len(s) : Append(s, x)[i] = s[i]
           /\ Append(s, x)[Len(s) + 1] = x
OBVIOUS

Puts(c, op) ==
    /\ conns' \in Seq(ConnSet) /\ Len(conns') = Len(conns)
    /\ \A d \in DOMAIN conns : /\ conns'[d].url = conns[d].url /\ conns'[d].live = conns[d].live
                               /\ conns'[d].work = conns[d].work
    /\ \A d \in DOMAIN conns \ {c} : conns'[d].queue = Queue(d)
    /\ Len(conns'[c].queue) = Len(Queue(c)) + 1
    /\ \A i \in 1..Len(Queue(c)) : conns'[c].queue[i] = Queue(c)[i]
    /\ conns'[c].queue[Len(Queue(c)) + 1] = op

Takes(x) ==
    /\ answers' \in Seq(AnswerSet) /\ Len(answers) \in Nat \ {0} /\ Len(answers') = Len(answers) - 1
    /\ \A i \in 1..Len(answers) - 1 : answers'[i] = answers[i + 1]
    /\ answers[1].to = x

LEMMA ConnFields ==
    ASSUME NEW conn \in ConnSet
    PROVE  /\ conn.url \in Urls /\ conn.live \in {"new", "open", "shut", "gone"}
           /\ conn.tx \in BOOLEAN /\ conn.work \in Tables /\ conn.queue \in Seq(Ops)
BY DEF ConnSet

LEMMA PutIs ==
    ASSUME Typed, NEW c \in DOMAIN conns, NEW op \in Ops, conns' = Put(conns, c, op)
    PROVE  Puts(c, op)
<1> DEFINE conn == [conns[c] EXCEPT !.queue = Append(Queue(c), op)]
<1>1. conns \in Seq(ConnSet)
  BY DEF Typed
<1>2. c \in 1..Len(conns) /\ conns[c] \in ConnSet /\ DOMAIN conns = 1..Len(conns)
  BY <1>1, SeqFacts
<1>3. Queue(c) \in Seq(Ops)
  BY <1>2, ConnFields DEF Queue
<1>4. Append(Queue(c), op) \in Seq(Ops)
  BY <1>3, AppendFacts
<1>5. /\ conn \in ConnSet /\ conn.queue = Append(Queue(c), op) /\ conn.url = conns[c].url
      /\ conn.live = conns[c].live /\ conn.work = conns[c].work
  BY <1>2, <1>4 DEF ConnSet
<1>6. conns' = [conns EXCEPT ![c] = conn]
  BY DEF Put, Queue
<1> HIDE DEF conn
<1>7. conns' \in Seq(ConnSet) /\ Len(conns') = Len(conns)
      /\ \A d \in 1..Len(conns) : conns'[d] = IF d = c THEN conn ELSE conns[d]
  BY <1>1, <1>2, <1>5, <1>6, ExceptSeq
<1>8. conns'[c].queue = Append(Queue(c), op)
  BY <1>2, <1>5, <1>7 DEF Queue
<1>9. /\ Len(conns'[c].queue) = Len(Queue(c)) + 1
      /\ \A i \in 1..Len(Queue(c)) : conns'[c].queue[i] = Queue(c)[i]
      /\ conns'[c].queue[Len(Queue(c)) + 1] = op
  BY <1>3, <1>8, AppendFacts
<1> QED
  BY <1>2, <1>5, <1>7, <1>9 DEF Puts, Queue

LEMMA TakeIs ==
    ASSUME Typed, answers # <<>>, answers' = Tail(answers)
    PROVE  Takes(Head(answers).to) /\ Head(answers) = answers[1] /\ 1 \in DOMAIN answers
           /\ answers[1] \in AnswerSet
BY SeqFacts DEF Typed, Takes

LEMMA UpdateIsNoTask ==
    \A t \in Tasks : t # TheUpdate
<1> SUFFICES ASSUME NEW r \in Results, NEW n \in Names PROVE <<r, n>> # TheUpdate
  BY DEF Tasks
<1> QED
  BY DEF TheUpdate

LEMMA TaskFields ==
    ASSUME NEW k \in TaskSet
    PROVE  /\ DOMAIN k = {"plugin", "probe", "at", "conn", "table", "parent", "id", "why",
                          "disturbed"}
           /\ k.plugin \in Nat /\ k.probe \in Probes
           /\ k.at \in InFlight \cup Ended \cup {"new"} /\ k.conn \in Nat /\ k.table \in 0..4
           /\ k.parent \in Nat /\ k.id \in Nat /\ k.why \in Whys /\ k.disturbed \in BOOLEAN
BY DEF TaskSet

LEMMA RowIs ==
    ASSUME Typed, NEW t \in DOMAIN sends, NEW n \in 1..4, NEW parent \in Nat
    PROVE  /\ Row(t, n, parent) \in RowSet /\ Row(t, n, parent).parent = parent
           /\ n = 1 => Row(t, n, parent).key = sends[t].probe
           /\ n = 2 => Row(t, n, parent).key = GroupOf[t[1]]
           /\ n = 3 => Row(t, n, parent).key = CaseOf[t[1]]
           /\ n = 4 => Row(t, n, parent).key = t[1]
<1> DEFINE keys == <<sends[t].probe, GroupOf[t[1]], CaseOf[t[1]], t[1]>>
<1>1. t[1] \in Results /\ sends[t].probe \in Probes
  BY TaskFields DEF Typed, Tasks
<1>2. /\ sends[t].probe \in Keys /\ GroupOf[t[1]] \in Keys /\ CaseOf[t[1]] \in Keys /\ t[1] \in Keys
  <2>1. GroupOf[t[1]] \in GroupKeys /\ CaseOf[t[1]] \in CaseKeys
    BY <1>1 DEF GroupKeys, CaseKeys
  <2> QED
    BY <1>1, <2>1 DEF Keys
<1>3. /\ keys[1] = sends[t].probe /\ keys[2] = GroupOf[t[1]] /\ keys[3] = CaseOf[t[1]]
      /\ keys[4] = t[1]
  OBVIOUS
<1>4. Row(t, n, parent) = [key |-> keys[n], parent |-> parent]
  BY DEF Row
<1>5. keys[n] \in Keys
  BY <1>2, <1>3
<1> HIDE DEF keys
<1>6. Row(t, n, parent) \in RowSet
  BY <1>4, <1>5 DEF RowSet
<1>7. Row(t, n, parent).key = keys[n] /\ Row(t, n, parent).parent = parent
  BY <1>4
<1> QED
  BY <1>3, <1>6, <1>7

(* The statement that t awaits, once it has put it.                          *)
Statement(t) ==
    Op(t, sends[t].at, IF sends[t].at = "commit" THEN 0 ELSE sends[t].table,
       IF sends[t].at = "commit" THEN None ELSE Row(t, sends[t].table, sends[t].parent))

(* A send goes on with the next statement.                                   *)
GoesOn(t) ==
    /\ Active(t) /\ DOMAIN sends' = DOMAIN sends
    /\ \A x \in DOMAIN sends \ {t} : sends'[x] = sends[x]
    /\ sends'[t] \in TaskSet /\ sends'[t].at \in InFlight /\ sends'[t].table \in 1..4
    /\ sends'[t].plugin = sends[t].plugin /\ sends'[t].probe = sends[t].probe
    /\ sends'[t].disturbed = sends[t].disturbed /\ sends'[t].why = sends[t].why
    /\ sends'[t].conn \in DOMAIN conns /\ conns[sends'[t].conn].live # "gone"
    /\ Puts(sends'[t].conn, Statement(t)')
    /\ UNCHANGED <<sinkVars, saved, files>>
    /\ \/ /\ sends[t].at = "new" /\ plugins[sends[t].plugin].kind = "sqlite"
          /\ answers' = answers
          /\ sends'[t].at = "insert" /\ sends'[t].table = 1 /\ sends'[t].parent = 0
          /\ sends'[t].conn = Db(t)
       \/ /\ Takes(t) /\ answers[1].how = "ok" /\ Flying(t) /\ sends[t].at = answers[1].do
          /\ \/ /\ sends[t].at = "insert" /\ answers[1].id = 0
                /\ sends'[t].at = "select" /\ sends'[t].id = 0
                /\ sends'[t].table = sends[t].table /\ sends'[t].parent = sends[t].parent
                /\ sends'[t].conn = sends[t].conn
             \/ /\ sends[t].at \in {"insert", "select"}
                /\ sends[t].at = "insert" => answers[1].id # 0
                /\ sends'[t].at = "close" /\ sends'[t].id = answers[1].id
                /\ sends'[t].table = sends[t].table /\ sends'[t].parent = sends[t].parent
                /\ sends'[t].conn = sends[t].conn
             \/ /\ sends[t].at = "close" /\ sends[t].table < 4
                /\ sends'[t].at = "insert" /\ sends'[t].table = sends[t].table + 1
                /\ sends'[t].parent = sends[t].id /\ sends'[t].conn = Db(t)
             \/ /\ sends[t].at = "close" /\ sends[t].table = 4
                /\ sends'[t].at = "commit" /\ sends'[t].table = 4
                /\ sends'[t].conn = Db(t)

(* A send ends.                                                              *)
Ends(t) ==
    /\ Active(t) /\ DOMAIN sends' = DOMAIN sends
    /\ \A x \in DOMAIN sends \ {t} : sends'[x] = sends[x]
    /\ sends'[t] \in TaskSet
    /\ sends'[t].plugin = sends[t].plugin /\ sends'[t].probe = sends[t].probe
    /\ sends'[t].disturbed = sends[t].disturbed
    /\ conns' = conns /\ UNCHANGED <<sinkVars, saved>>
    /\ \/ /\ sends[t].at = "new" /\ answers' = answers
       \/ /\ Takes(t) /\ Flying(t) /\ sends[t].at = answers[1].do
    /\ \/ /\ files' = files /\ sends'[t].at = "lost" /\ sends'[t].why = "closed"
          /\ answers[1].how = "ok" \/ sends[t].at = "new"
          /\ \/ ~Running(Db(t)) /\ plugins[sends[t].plugin].kind = "sqlite"
             \/ Flying(t) /\ ~Running(sends[t].conn)
             \/ plugins[sends[t].plugin].path = None /\ plugins[sends[t].plugin].kind = "csv"
       \/ /\ files' = files /\ sends'[t].at = "lost" /\ Flying(t)
          /\ answers[1].how # "ok" /\ sends'[t].why = answers[1].how
       \/ /\ files' = files /\ sends'[t].at = "done" /\ Flying(t)
          /\ sends[t].at = "commit" /\ answers[1].how = "ok"
       \/ LET path == plugins[sends[t].plugin].path
          IN /\ sends[t].at = "new" /\ sends'[t].at = "done"
             /\ plugins[sends[t].plugin].kind = "csv" /\ path # None
             /\ files' = [files EXCEPT ![path] = Append(@, t[1])]

LEMMA OpIs ==
    ASSUME Typed, NEW t \in DOMAIN sends, NEW at \in InFlight, NEW n \in 1..4, NEW parent \in Nat
    PROVE  /\ Op(t, at, n, Row(t, n, parent)) \in Ops
           /\ Op(t, "commit", 0, None) \in Ops
<1>1. Row(t, n, parent) \in RowSet /\ t \in Tasks
  BY RowIs DEF Typed
<1>2. at \in {"insert", "select", "close", "commit"}
  BY DEF InFlight
<1> QED
  BY <1>1, <1>2 DEF Op, Ops

(* A statement of t is put, and t awaits it.                                 *)
PutsAs(t, at, c, n, parent, id) ==
    /\ DOMAIN sends' = DOMAIN sends /\ \A x \in DOMAIN sends \ {t} : sends'[x] = sends[x]
    /\ sends'[t] \in TaskSet
    /\ sends'[t].plugin = sends[t].plugin /\ sends'[t].probe = sends[t].probe
    /\ sends'[t].disturbed = sends[t].disturbed /\ sends'[t].why = sends[t].why
    /\ sends'[t].at = at /\ sends'[t].conn = c /\ sends'[t].table = n
    /\ sends'[t].parent = parent /\ sends'[t].id = id
    /\ Puts(c, Statement(t)')

LEMMA PutsStatement ==
    ASSUME Typed, NEW t \in DOMAIN sends, NEW at \in InFlight, NEW c \in DOMAIN conns,
           NEW n \in 1..4, NEW parent \in Nat, NEW id \in Nat,
           NEW k, k = [sends[t] EXCEPT !.at = at, !.conn = c, !.table = n, !.parent = parent,
                                       !.id = id],
           sends' = [sends EXCEPT ![t] = k],
           NEW m, m = IF at = "commit" THEN 0 ELSE n,
           NEW row, row = IF at = "commit" THEN None ELSE Row(t, n, parent),
           conns' = Put(conns, c, Op(t, at, m, row))
    PROVE  PutsAs(t, at, c, n, parent, id)
<1>1. c \in Nat /\ n \in 0..4
  BY SeqFacts DEF Typed
<1>2. sends[t] \in TaskSet
  BY DEF Typed
<1>3. k \in TaskSet
  BY <1>1, <1>2 DEF TaskSet
<1>4. /\ DOMAIN sends' = DOMAIN sends /\ \A x \in DOMAIN sends \ {t} : sends'[x] = sends[x]
      /\ sends'[t] = k
  OBVIOUS
<1>5. DOMAIN sends[t] = {"plugin", "probe", "at", "conn", "table", "parent", "id", "why",
                         "disturbed"}
  BY <1>2, TaskFields
<1>6. /\ k.plugin = sends[t].plugin /\ k.probe = sends[t].probe
      /\ k.disturbed = sends[t].disturbed /\ k.why = sends[t].why
      /\ k.at = at /\ k.conn = c /\ k.table = n /\ k.parent = parent /\ k.id = id
  BY <1>5
<1>7. Row(t, n, parent)' = Row(t, n, parent)
  BY <1>4, <1>6 DEF Row
<1>8. Statement(t)' = Op(t, at, m, row)
  BY <1>4, <1>6, <1>7 DEF Statement, Row
<1>9. Op(t, at, m, row) \in Ops
  BY OpIs
<1>10. Puts(c, Op(t, at, m, row))
  BY <1>9, PutIs
<1> QED
  BY <1>3, <1>4, <1>6, <1>8, <1>10 DEF PutsAs

EndsAs(t, at, why) ==
    /\ DOMAIN sends' = DOMAIN sends /\ \A x \in DOMAIN sends \ {t} : sends'[x] = sends[x]
    /\ sends'[t] \in TaskSet
    /\ sends'[t].plugin = sends[t].plugin /\ sends'[t].probe = sends[t].probe
    /\ sends'[t].disturbed = sends[t].disturbed /\ sends'[t].why = why
    /\ sends'[t].at = at

LEMMA Endings ==
    ASSUME Typed, NEW t \in DOMAIN sends, NEW at \in Ended, NEW why \in Whys,
           NEW k, k = [sends[t] EXCEPT !.at = at, !.why = why], sends' = [sends EXCEPT ![t] = k]
    PROVE  EndsAs(t, at, why)
<1>1. sends[t] \in TaskSet
  BY DEF Typed
<1>2. k \in TaskSet
  BY <1>1 DEF TaskSet
<1>3. DOMAIN sends[t] = {"plugin", "probe", "at", "conn", "table", "parent", "id", "why",
                         "disturbed"}
  BY <1>1, TaskFields
<1>4. /\ k.plugin = sends[t].plugin /\ k.probe = sends[t].probe
      /\ k.disturbed = sends[t].disturbed /\ k.why = why /\ k.at = at
  BY <1>3
<1>5. /\ DOMAIN sends' = DOMAIN sends /\ \A x \in DOMAIN sends \ {t} : sends'[x] = sends[x]
      /\ sends'[t] = k
  OBVIOUS
<1> QED
  BY <1>2, <1>4, <1>5 DEF EndsAs

LEMMA Conns ==
    ASSUME Typed
    PROVE  /\ DOMAIN conns = 1..Len(conns) /\ Len(conns) \in Nat
           /\ DOMAIN plugins = 1..Len(plugins) /\ Len(plugins) \in Nat
           /\ DOMAIN answers = 1..Len(answers) /\ Len(answers) \in Nat
           /\ \A c \in DOMAIN conns :
                /\ conns[c] \in ConnSet /\ Queue(c) \in Seq(Ops)
                /\ DOMAIN Queue(c) = 1..Len(Queue(c)) /\ Len(Queue(c)) \in Nat
                /\ \A i \in DOMAIN Queue(c) : Queue(c)[i] \in Ops
           /\ \A p \in DOMAIN plugins : plugins[p] \in PluginSet /\ plugins[p].conn \in 0..Len(conns)
           /\ \A i \in DOMAIN answers : answers[i] \in AnswerSet
           /\ \A c \in Nat : Running(c) /\ c <= Len(conns) => c \in DOMAIN conns
<1>1. conns \in Seq(ConnSet) /\ plugins \in Seq(PluginSet) /\ answers \in Seq(AnswerSet)
  BY DEF Typed
<1>2. /\ DOMAIN conns = 1..Len(conns) /\ Len(conns) \in Nat
      /\ \A c \in DOMAIN conns : conns[c] \in ConnSet
  BY <1>1, SeqFacts
<1>3. /\ DOMAIN plugins = 1..Len(plugins) /\ Len(plugins) \in Nat
      /\ \A p \in DOMAIN plugins : plugins[p] \in PluginSet
  BY <1>1, SeqFacts
<1>4. /\ DOMAIN answers = 1..Len(answers) /\ Len(answers) \in Nat
      /\ \A i \in DOMAIN answers : answers[i] \in AnswerSet
  BY <1>1, SeqFacts
<1>5. ASSUME NEW c \in DOMAIN conns
      PROVE  /\ Queue(c) \in Seq(Ops) /\ DOMAIN Queue(c) = 1..Len(Queue(c)) /\ Len(Queue(c)) \in Nat
             /\ \A i \in DOMAIN Queue(c) : Queue(c)[i] \in Ops
  <2>1. Queue(c) \in Seq(Ops)
    BY <1>2, <1>5, ConnFields DEF Queue
  <2> QED
    BY <2>1, SeqFacts
<1>6. ASSUME NEW p \in DOMAIN plugins PROVE plugins[p].conn \in 0..Len(conns)
  <2>1. plugins[p].conn \in Nat
    BY <1>3 DEF PluginSet
  <2>2. plugins[p].conn <= Len(conns)
    BY DEF Typed
  <2> QED
    BY <1>2, <1>6, <2>1, <2>2
<1>7. \A c \in Nat : Running(c) /\ c <= Len(conns) => c \in DOMAIN conns
  BY <1>2 DEF Running
<1> QED
  BY <1>2, <1>3, <1>4, <1>5, <1>6, <1>7

LEMMA DbIs ==
    ASSUME Typed, NEW t \in DOMAIN sends, Active(t)
    PROVE  /\ Db(t) \in 0..Len(conns) /\ sends[t].plugin \in DOMAIN plugins
           /\ plugins[sends[t].plugin] \in PluginSet
           /\ Running(Db(t)) => Db(t) \in DOMAIN conns /\ conns[Db(t)].live # "gone"
<1>1. sends[t].plugin \in DOMAIN plugins
  BY DEF Typed, Active
<1>2. Db(t) \in 0..Len(conns) /\ plugins[sends[t].plugin] \in PluginSet
  BY <1>1, Conns DEF Db
<1> QED
  BY <1>1, <1>2, Conns DEF Running

(* The coroutine to which the first answer belongs.                          *)
LEMMA Resumed ==
    ASSUME Typed, Pending, answers # <<>>, Head(answers).to # TheUpdate
    PROVE  LET t == Head(answers).to
           IN /\ t \in DOMAIN sends /\ Flying(t) /\ Active(t) /\ sends[t].at = answers[1].do
              /\ sends[t] \in TaskSet /\ sends[t].conn \in DOMAIN conns
              /\ sends[t].table \in 1..4 /\ Head(answers) = answers[1] /\ answers[1].to = t
              /\ answers[1].id \in Nat /\ answers[1].how \in Whys
              /\ plugins[sends[t].plugin].kind = "sqlite"
<1>1. answers \in Seq(AnswerSet)
  BY DEF Typed
<1>2. Head(answers) = answers[1] /\ 1 \in DOMAIN answers /\ answers[1] \in AnswerSet
  BY <1>1, SeqFacts
<1>3. Suits(answers[1])
  BY <1>2 DEF Pending
<1>4. Flying(answers[1].to) /\ sends[answers[1].to].at = answers[1].do
  BY <1>2, <1>3 DEF Suits
<1>5. answers[1].id \in Nat /\ answers[1].how \in Whys
  <2>1. answers[1].id \in Nat /\ answers[1].how \in {"ok", "missing", "syntax", "closed"}
    BY <1>2 DEF AnswerSet
  <2> QED
    BY <2>1 DEF Whys
<1> DEFINE t == answers[1].to
<1>6. t \in DOMAIN sends /\ sends[t] \in TaskSet /\ sends[t].at \in InFlight
  BY <1>4 DEF Flying, Typed
<1>7. sends[t].conn \in DOMAIN conns /\ sends[t].table \in 1..4
      /\ plugins[sends[t].plugin].kind = "sqlite"
  BY <1>6 DEF Typed
<1>8. Active(t)
  BY <1>6 DEF Active, InFlight, Ended
<1> QED
  BY <1>2, <1>4, <1>5, <1>6, <1>7, <1>8

Loses(t, why) == EndsAs(t, "lost", why)

LEMMA LoseIs ==
    ASSUME Typed, NEW t \in DOMAIN sends, NEW why \in Whys, Lose(t, why)
    PROVE  Loses(t, why)
<1>1. PICK k : k = [sends[t] EXCEPT !.at = "lost", !.why = why]
  OBVIOUS
<1>2. sends' = [sends EXCEPT ![t] = k]
  BY <1>1 DEF Lose
<1>3. "lost" \in Ended
  BY DEF Ended
<1> QED
  BY <1>1, <1>2, <1>3, Endings DEF Loses

(* Insert, Continue and Commit put a statement or lose the result.           *)
LEMMA InsertIs ==
    ASSUME Typed, NEW t \in DOMAIN sends, Active(t), NEW n \in 1..4, NEW parent \in Nat,
           Insert(t, n, parent)
    PROVE  \/ /\ PutsAs(t, "insert", Db(t), n, parent, sends[t].id)
              /\ Db(t) \in DOMAIN conns /\ conns[Db(t)].live # "gone"
           \/ ~Running(Db(t)) /\ Loses(t, "closed") /\ conns' = conns
<1>1. CASE Running(Db(t))
  <2>1. Db(t) \in DOMAIN conns /\ conns[Db(t)].live # "gone"
    BY <1>1, DbIs
  <2>2. conns' = Put(conns, Db(t), Op(t, "insert", n, Row(t, n, parent)))
    BY <1>1 DEF Insert
  <2>3. sends[t].id \in Nat /\ sends[t] \in TaskSet
    BY TaskFields DEF Typed
  <2> DEFINE new == [sends[t] EXCEPT !.at = "insert", !.conn = Db(t), !.table = n,
                                     !.parent = parent, !.id = sends[t].id]
  <2>4. PICK k : k = new /\ sends' = [sends EXCEPT ![t] = k]
    <3>1. [sends[t] EXCEPT !.at = "insert", !.conn = Db(t), !.table = n, !.parent = parent,
                           !.id = sends[t].id]
            = [sends[t] EXCEPT !.at = "insert", !.conn = Db(t), !.table = n, !.parent = parent]
      BY <2>3 DEF TaskSet
    <3> QED
      BY <1>1, <3>1 DEF Insert
  <2>5. "insert" \in InFlight /\ Db(t) \in Nat
    BY <2>1, Conns DEF InFlight
  <2>6. PICK row : row = Row(t, n, parent)
    OBVIOUS
  <2>7. PutsAs(t, "insert", Db(t), n, parent, sends[t].id)
    BY <2>1, <2>2, <2>3, <2>4, <2>5, <2>6, PutsStatement
  <2> QED
    BY <2>1, <2>7
<1>2. CASE ~Running(Db(t))
  <2>1. Lose(t, "closed") /\ conns' = conns
    BY <1>2 DEF Insert
  <2>2. "closed" \in Whys
    BY DEF Whys
  <2> QED
    BY <1>2, <2>1, <2>2, LoseIs
<1> QED
  BY <1>1, <1>2

LEMMA ContinueIs ==
    ASSUME Typed, NEW t \in DOMAIN sends, Flying(t), NEW at \in {"select", "close"},
           NEW id \in Nat, Continue(t, at, id)
    PROVE  \/ /\ PutsAs(t, at, sends[t].conn, sends[t].table, sends[t].parent, id)
              /\ conns[sends[t].conn].live # "gone"
           \/ ~Running(sends[t].conn) /\ Loses(t, "closed") /\ conns' = conns
<1>1. sends[t] \in TaskSet /\ sends[t].conn \in DOMAIN conns /\ sends[t].table \in 1..4
      /\ sends[t].parent \in Nat
  BY TaskFields DEF Typed, Flying
<1>2. CASE Running(sends[t].conn)
  <2>1. conns' = Put(conns, sends[t].conn,
                     Op(t, at, sends[t].table, Row(t, sends[t].table, sends[t].parent)))
    BY <1>2 DEF Continue
  <2> DEFINE new == [sends[t] EXCEPT !.at = at, !.conn = sends[t].conn, !.table = sends[t].table,
                                     !.parent = sends[t].parent, !.id = id]
  <2>2. PICK k : k = new /\ sends' = [sends EXCEPT ![t] = k]
    <3>1. [sends[t] EXCEPT !.at = at, !.conn = sends[t].conn, !.table = sends[t].table,
                           !.parent = sends[t].parent, !.id = id]
            = [sends[t] EXCEPT !.at = at, !.id = id]
      BY <1>1 DEF TaskSet
    <3> QED
      BY <1>2, <3>1 DEF Continue
  <2>3. at \in InFlight /\ at # "commit"
    BY DEF InFlight
  <2>4. conns[sends[t].conn].live # "gone"
    BY <1>2 DEF Running
  <2>5. PICK row : row = Row(t, sends[t].table, sends[t].parent)
    OBVIOUS
  <2>6. PICK c \in DOMAIN conns, n \in 1..4, parent \in Nat :
          c = sends[t].conn /\ n = sends[t].table /\ parent = sends[t].parent
    BY <1>1
  <2>7. PutsAs(t, at, c, n, parent, id)
    BY <2>1, <2>2, <2>3, <2>5, <2>6, PutsStatement
  <2> QED
    BY <2>4, <2>6, <2>7
<1>3. CASE ~Running(sends[t].conn)
  <2>1. Lose(t, "closed") /\ conns' = conns
    BY <1>3 DEF Continue
  <2>2. "closed" \in Whys
    BY DEF Whys
  <2> QED
    BY <1>3, <2>1, <2>2, LoseIs
<1> QED
  BY <1>2, <1>3

LEMMA CommitIs ==
    ASSUME Typed, NEW t \in DOMAIN sends, Flying(t), Commit(t)
    PROVE  \/ /\ PutsAs(t, "commit", Db(t), sends[t].table, sends[t].parent, sends[t].id)
              /\ Db(t) \in DOMAIN conns /\ conns[Db(t)].live # "gone"
           \/ ~Running(Db(t)) /\ Loses(t, "closed") /\ conns' = conns
<1>1. sends[t] \in TaskSet /\ sends[t].table \in 1..4 /\ sends[t].parent \in Nat
      /\ sends[t].id \in Nat /\ Active(t)
  BY TaskFields DEF Typed, Flying, Active, InFlight, Ended
<1>2. CASE Running(Db(t))
  <2>1. Db(t) \in DOMAIN conns /\ conns[Db(t)].live # "gone"
    BY <1>1, <1>2, DbIs
  <2>2. conns' = Put(conns, Db(t), Op(t, "commit", 0, None))
    BY <1>2 DEF Commit
  <2> DEFINE new == [sends[t] EXCEPT !.at = "commit", !.conn = Db(t), !.table = sends[t].table,
                                     !.parent = sends[t].parent, !.id = sends[t].id]
  <2>3. PICK k : k = new /\ sends' = [sends EXCEPT ![t] = k]
    <3>1. [sends[t] EXCEPT !.at = "commit", !.conn = Db(t), !.table = sends[t].table,
                           !.parent = sends[t].parent, !.id = sends[t].id]
            = [sends[t] EXCEPT !.at = "commit", !.conn = Db(t)]
      BY <1>1 DEF TaskSet
    <3> QED
      BY <1>2, <3>1 DEF Commit
  <2>4. PICK at \in InFlight : at = "commit"
    BY DEF InFlight
  <2>5. PICK c \in DOMAIN conns, n \in 1..4, parent \in Nat, id \in Nat :
          c = Db(t) /\ n = sends[t].table /\ parent = sends[t].parent /\ id = sends[t].id
    BY <1>1, <2>1
  <2>6. PICK m, row : m = 0 /\ row = None
    OBVIOUS
  <2>7. PutsAs(t, at, c, n, parent, id)
    BY <2>2, <2>3, <2>4, <2>5, <2>6, PutsStatement
  <2> QED
    BY <2>1, <2>4, <2>5, <2>7
<1>3. CASE ~Running(Db(t))
  <2>1. Lose(t, "closed") /\ conns' = conns
    BY <1>3 DEF Commit
  <2>2. "closed" \in Whys
    BY DEF Whys
  <2> QED
    BY <1>3, <2>1, <2>2, LoseIs
<1> QED
  BY <1>2, <1>3

(* Every step of a coroutine that sends is one of the two.                   *)
Sending == SendFirst \/ SendCSV \/ Inserted \/ Selected \/ CursorClosed \/ Committed \/ SendFails

LEMMA NewSends ==
    ASSUME Typed, SendFirst
    PROVE  \E t \in DOMAIN sends : GoesOn(t) \/ Ends(t)
<1>1. PICK t \in DOMAIN sends :
        /\ sends[t].at = "new" /\ plugins[sends[t].plugin].kind = "sqlite"
        /\ Insert(t, 1, 0)
  BY DEF SendFirst
<1>2. UNCHANGED <<sinkVars, saved, files, answers>>
  BY DEF SendFirst
<1>3. Active(t)
  BY <1>1 DEF Active, Ended
<1>4. PICK n \in 1..4, parent \in Nat : n = 1 /\ parent = 0
  OBVIOUS
<1>5. Insert(t, n, parent)
  BY <1>1, <1>4
<1>6. CASE ~Running(Db(t)) /\ Loses(t, "closed") /\ conns' = conns
  BY <1>1, <1>2, <1>3, <1>6 DEF Ends, Loses, EndsAs
<1>7. CASE ~(~Running(Db(t)) /\ Loses(t, "closed") /\ conns' = conns)
  <2>1. PutsAs(t, "insert", Db(t), n, parent, sends[t].id)
        /\ Db(t) \in DOMAIN conns /\ conns[Db(t)].live # "gone"
    BY <1>3, <1>5, <1>7, InsertIs
  <2>2. "insert" \in InFlight
    BY DEF InFlight
  <2>3. GoesOn(t)
    BY <1>1, <1>2, <1>3, <1>4, <2>1, <2>2 DEF GoesOn, PutsAs
  <2> QED
    BY <2>3
<1> QED
  BY <1>6, <1>7

LEMMA CSVSends ==
    ASSUME Typed, SendCSV
    PROVE  \E t \in DOMAIN sends : GoesOn(t) \/ Ends(t)
<1>1. PICK t \in DOMAIN sends :
        LET path == plugins[sends[t].plugin].path
        IN /\ sends[t].at = "new" /\ plugins[sends[t].plugin].kind = "csv"
           /\ IF path = None
              THEN Lose(t, "closed") /\ UNCHANGED files
              ELSE /\ files' = [files EXCEPT ![path] = Append(@, t[1])]
                   /\ sends' = [sends EXCEPT ![t].at = "done"]
  BY DEF SendCSV
<1>2. UNCHANGED <<sinkVars, conns, saved, answers>>
  BY DEF SendCSV
<1>3. Active(t)
  BY <1>1 DEF Active, Ended
<1>4. CASE plugins[sends[t].plugin].path = None
  <2>1. Lose(t, "closed") /\ UNCHANGED files
    BY <1>1, <1>4
  <2>2. "closed" \in Whys
    BY DEF Whys
  <2>3. Loses(t, "closed")
    BY <2>1, <2>2, LoseIs
  <2>4. Ends(t)
    BY <1>1, <1>2, <1>3, <1>4, <2>1, <2>3 DEF Ends, Loses, EndsAs
  <2> QED
    BY <2>4
<1>5. CASE plugins[sends[t].plugin].path # None
  <2>1. sends[t] \in TaskSet
    BY DEF Typed
  <2>2. PICK k : k = [sends[t] EXCEPT !.at = "done", !.why = sends[t].why]
    OBVIOUS
  <2>3. k = [sends[t] EXCEPT !.at = "done"]
    BY <2>1, <2>2 DEF TaskSet
  <2>4. sends' = [sends EXCEPT ![t] = k]
    BY <1>1, <1>5, <2>3
  <2>5. PICK at \in Ended, why \in Whys : at = "done" /\ why = sends[t].why
    BY <2>1, TaskFields DEF Ended
  <2>6. EndsAs(t, at, why)
    BY <2>2, <2>4, <2>5, Endings
  <2>7. Ends(t)
    BY <1>1, <1>2, <1>3, <1>5, <2>5, <2>6 DEF Ends, EndsAs
  <2> QED
    BY <2>7
<1> QED
  BY <1>4, <1>5

LEMMA OthersSend ==
    ASSUME Typed, Pending, Inserted \/ Selected \/ CursorClosed \/ Committed \/ SendFails
    PROVE  \E t \in DOMAIN sends : GoesOn(t) \/ Ends(t)
<1> DEFINE t == answers[1].to
<1>1. /\ answers # <<>> /\ Head(answers).to # TheUpdate /\ answers' = Tail(answers)
      /\ UNCHANGED <<sinkVars, saved, files>>
  BY DEF Inserted, Selected, CursorClosed, Committed, SendFails, SendResumes, Resumes
<1>2. /\ t \in DOMAIN sends /\ Flying(t) /\ Active(t) /\ sends[t].at = answers[1].do
      /\ sends[t] \in TaskSet /\ sends[t].conn \in DOMAIN conns
      /\ sends[t].table \in 1..4 /\ Head(answers) = answers[1]
      /\ answers[1].id \in Nat /\ answers[1].how \in Whys
      /\ plugins[sends[t].plugin].kind = "sqlite"
  BY <1>1, Resumed
<1>3. Takes(t)
  BY <1>1, <1>2, TakeIs
<1>4. sends[t].id \in Nat /\ sends[t].parent \in Nat
  BY <1>2, TaskFields
<1> HIDE DEF t
<1>5. ASSUME answers[1].how = "ok", Loses(t, "closed"), conns' = conns,
             ~Running(Db(t)) \/ ~Running(sends[t].conn)
      PROVE  Ends(t)
  BY <1>1, <1>2, <1>3, <1>5 DEF Ends, Loses, EndsAs
<1>6. ASSUME Inserted \/ Selected
      PROVE  GoesOn(t) \/ Ends(t)
  <2>1. PICK at \in {"select", "close"}, id \in Nat :
          /\ Continue(t, at, id) /\ id = answers[1].id /\ answers[1].how = "ok"
          /\ \/ sends[t].at = "insert" /\ answers[1].id = 0 /\ at = "select"
             \/ sends[t].at = "insert" /\ answers[1].id # 0 /\ at = "close"
             \/ sends[t].at = "select" /\ at = "close"
    BY <1>2, <1>6 DEF Inserted, Selected, SendResumes, Resumes, t
  <2>2. CASE ~Running(sends[t].conn) /\ Loses(t, "closed") /\ conns' = conns
    BY <1>5, <2>1, <2>2
  <2>3. CASE ~(~Running(sends[t].conn) /\ Loses(t, "closed") /\ conns' = conns)
    <3>1. PutsAs(t, at, sends[t].conn, sends[t].table, sends[t].parent, id)
          /\ conns[sends[t].conn].live # "gone"
      BY <1>2, <2>1, <2>3, ContinueIs
    <3>2. at \in InFlight
      BY DEF InFlight
    <3>3. GoesOn(t)
      BY <1>1, <1>2, <1>3, <2>1, <3>1, <3>2 DEF GoesOn, PutsAs
    <3> QED
      BY <3>3
  <2> QED
    BY <2>2, <2>3
<1>7. ASSUME CursorClosed, sends[t].table < 4
      PROVE  GoesOn(t) \/ Ends(t)
  <2>1. /\ answers[1].how = "ok" /\ sends[t].at = "close"
        /\ Insert(t, sends[t].table + 1, sends[t].id)
    BY <1>2, <1>7 DEF CursorClosed, SendResumes, Resumes, t, LastTable
  <2>2. PICK n \in 1..4, parent \in Nat : n = sends[t].table + 1 /\ parent = sends[t].id
    BY <1>2, <1>4, <1>7
  <2>3. Insert(t, n, parent)
    BY <2>1, <2>2
  <2>4. CASE ~Running(Db(t)) /\ Loses(t, "closed") /\ conns' = conns
    BY <1>5, <2>1, <2>4
  <2>5. CASE ~(~Running(Db(t)) /\ Loses(t, "closed") /\ conns' = conns)
    <3>1. PutsAs(t, "insert", Db(t), n, parent, sends[t].id)
          /\ Db(t) \in DOMAIN conns /\ conns[Db(t)].live # "gone"
      BY <1>2, <2>3, <2>5, InsertIs
    <3>2. "insert" \in InFlight
      BY DEF InFlight
    <3>3. GoesOn(t)
      BY <1>1, <1>2, <1>3, <1>7, <2>1, <2>2, <3>1, <3>2 DEF GoesOn, PutsAs
    <3> QED
      BY <3>3
  <2> QED
    BY <2>4, <2>5
<1>8. ASSUME CursorClosed, ~(sends[t].table < 4)
      PROVE  GoesOn(t) \/ Ends(t)
  <2>1. answers[1].how = "ok" /\ sends[t].at = "close" /\ Commit(t) /\ sends[t].table = 4
    BY <1>2, <1>8 DEF CursorClosed, SendResumes, Resumes, t, LastTable
  <2>2. CASE ~Running(Db(t)) /\ Loses(t, "closed") /\ conns' = conns
    BY <1>5, <2>1, <2>2
  <2>3. CASE ~(~Running(Db(t)) /\ Loses(t, "closed") /\ conns' = conns)
    <3>1. PutsAs(t, "commit", Db(t), sends[t].table, sends[t].parent, sends[t].id)
          /\ Db(t) \in DOMAIN conns /\ conns[Db(t)].live # "gone"
      BY <1>2, <2>1, <2>3, CommitIs
    <3>2. "commit" \in InFlight
      BY DEF InFlight
    <3>3. GoesOn(t)
      BY <1>1, <1>2, <1>3, <2>1, <3>1, <3>2 DEF GoesOn, PutsAs
    <3> QED
      BY <3>3
  <2> QED
    BY <2>2, <2>3
<1>9. ASSUME Committed
      PROVE  Ends(t)
  <2>1. /\ answers[1].how = "ok" /\ sends[t].at = "commit" /\ conns' = conns
        /\ sends' = [sends EXCEPT ![t].at = "done"]
    BY <1>2, <1>9 DEF Committed, SendResumes, Resumes, t
  <2>2. PICK k : k = [sends[t] EXCEPT !.at = "done", !.why = sends[t].why]
    OBVIOUS
  <2>3. k = [sends[t] EXCEPT !.at = "done"]
    BY <1>2, <2>2 DEF TaskSet
  <2>4. sends' = [sends EXCEPT ![t] = k]
    BY <2>1, <2>3
  <2>5. PICK at \in Ended, why \in Whys : at = "done" /\ why = sends[t].why
    BY <1>2, TaskFields DEF Ended
  <2>6. EndsAs(t, at, why)
    BY <1>2, <2>2, <2>4, <2>5, Endings
  <2> QED
    BY <1>1, <1>2, <1>3, <2>1, <2>5, <2>6 DEF Ends, EndsAs
<1>10. ASSUME SendFails
      PROVE  Ends(t)
  <2>1. answers[1].how # "ok" /\ Lose(t, answers[1].how) /\ conns' = conns
    BY <1>2, <1>10 DEF SendFails, t
  <2>2. Loses(t, answers[1].how)
    BY <1>2, <2>1, LoseIs
  <2> QED
    BY <1>1, <1>2, <1>3, <2>1, <2>2 DEF Ends, Loses, EndsAs
<1> QED
  BY <1>2, <1>6, <1>7, <1>8, <1>9, <1>10

LEMMA SendSteps ==
    ASSUME Typed, Pending, Sending
    PROVE  \E t \in DOMAIN sends : GoesOn(t) \/ Ends(t)
BY NewSends, CSVSends, OthersSend DEF Sending

-------------------------------------------------------------------------------
(* What a thread does with the first statement of its queue.                 *)
First(c) == Queue(c)[1]

Steps(c, live, work) ==
    /\ conns' \in Seq(ConnSet) /\ Len(conns') = Len(conns)
    /\ \A d \in DOMAIN conns \ {c} : conns'[d] = conns[d]
    /\ conns'[c].url = conns[c].url /\ conns'[c].live = live /\ conns'[c].work = work
    /\ Len(conns'[c].queue) = Len(Queue(c)) - 1
    /\ \A i \in 1..Len(Queue(c)) - 1 : conns'[c].queue[i] = Queue(c)[i + 1]

Answers(c, id, how) ==
    /\ answers' \in Seq(AnswerSet) /\ Len(answers') = Len(answers) + 1
    /\ \A i \in 1..Len(answers) : answers'[i] = answers[i]
    /\ answers'[Len(answers) + 1] = [to |-> First(c).to, do |-> First(c).do, id |-> id, how |-> how]

LEMMA FirstIs ==
    ASSUME Typed, NEW c \in DOMAIN conns, conns[c].queue # <<>>
    PROVE  /\ Len(Queue(c)) \in Nat \ {0} /\ 1 \in DOMAIN Queue(c)
           /\ Head(conns[c].queue) = First(c) /\ First(c) \in Ops
           /\ Tail(conns[c].queue) \in Seq(Ops)
           /\ Len(Tail(conns[c].queue)) = Len(Queue(c)) - 1
           /\ \A i \in 1..Len(Queue(c)) - 1 : Tail(conns[c].queue)[i] = Queue(c)[i + 1]
<1>1. Queue(c) \in Seq(Ops)
  BY Conns
<1>2. conns[c].queue \in Seq(Ops)
  BY <1>1 DEF Queue
<1> QED
  BY <1>2, SeqFacts DEF Queue, First

LEMMA StepsAre ==
    ASSUME Typed, NEW c \in DOMAIN conns, conns[c].queue # <<>>,
           NEW live \in {"open", "shut", "gone"}, NEW tx \in BOOLEAN, NEW work \in Tables,
           NEW k, k = [conns[c] EXCEPT !.queue = Tail(conns[c].queue), !.live = live, !.tx = tx,
                                       !.work = work],
           conns' = [conns EXCEPT ![c] = k]
    PROVE  Steps(c, live, work)
<1>1. conns \in Seq(ConnSet) /\ conns[c] \in ConnSet /\ DOMAIN conns = 1..Len(conns)
  BY Conns DEF Typed
<1>2. Tail(conns[c].queue) \in Seq(Ops)
  BY FirstIs
<1>3. /\ k \in ConnSet /\ k.queue = Tail(conns[c].queue) /\ k.url = conns[c].url
      /\ k.live = live /\ k.work = work
  BY <1>1, <1>2 DEF ConnSet
<1>4. c \in 1..Len(conns)
  BY <1>1
<1>5. conns' \in Seq(ConnSet) /\ Len(conns') = Len(conns)
      /\ \A d \in 1..Len(conns) : conns'[d] = IF d = c THEN k ELSE conns[d]
  BY <1>1, <1>3, <1>4, ExceptSeq
<1>6. conns'[c] = k /\ \A d \in DOMAIN conns \ {c} : conns'[d] = conns[d]
  BY <1>1, <1>4, <1>5
<1> QED
  BY <1>3, <1>5, <1>6, FirstIs DEF Steps

LEMMA AnsweredIs ==
    ASSUME Typed, NEW c \in DOMAIN conns, conns[c].queue # <<>>, NEW id \in Nat,
           NEW how \in {"ok", "missing", "syntax", "closed"}, Answered(c, id, how)
    PROVE  Answers(c, id, how)
<1>1. PICK x : x = [to |-> First(c).to, do |-> First(c).do, id |-> id, how |-> how]
  OBVIOUS
<1>2. answers' = Append(answers, x)
  BY <1>1, FirstIs DEF Answered
<1>3. x \in AnswerSet
  BY <1>1, FirstIs DEF AnswerSet, Ops
<1>4. answers \in Seq(AnswerSet)
  BY DEF Typed
<1>5. /\ answers' \in Seq(AnswerSet) /\ Len(answers') = Len(answers) + 1
      /\ \A i \in 1..Len(answers) : answers'[i] = answers[i]
      /\ answers'[Len(answers) + 1] = x
  BY <1>2, <1>3, <1>4, AppendFacts
<1> QED
  BY <1>1, <1>5 DEF Answers

LEMMA ExecutedIs ==
    ASSUME Typed, NEW c \in DOMAIN conns, conns[c].queue # <<>>, NEW tx \in BOOLEAN,
           NEW work \in Tables, NEW disk \in Tables, Executed(c, tx, work, disk)
    PROVE  /\ Steps(c, "open", work) /\ saved' = [saved EXCEPT ![conns[c].url] = disk]
           /\ saved' \in [Urls -> Tables]
<1>1. conns[c] \in ConnSet /\ saved \in [Urls -> Tables]
  BY Conns DEF Typed
<1>2. PICK k : k = [conns[c] EXCEPT !.queue = Tail(conns[c].queue), !.live = "open", !.tx = tx,
                                    !.work = work]
  OBVIOUS
<1>3. conns' = [conns EXCEPT ![c] = k]
  BY <1>1, <1>2 DEF Executed, ConnSet
<1>4. PICK live \in {"open", "shut", "gone"} : live = "open"
  OBVIOUS
<1>5. Steps(c, live, work)
  BY <1>2, <1>3, <1>4, StepsAre
<1>6. saved' = [saved EXCEPT ![conns[c].url] = disk]
  BY DEF Executed
<1>7. saved' \in [Urls -> Tables]
  BY <1>1, <1>6, ConnFields
<1> QED
  BY <1>4, <1>5, <1>6, <1>7

LEMMA TableFields ==
    ASSUME NEW work \in Tables
    PROVE  /\ work.made \subseteq 1..4 /\ work.rows \in [1..4 -> Seq(RowSet)]
           /\ \A n \in 1..4 : work.rows[n] \in Seq(RowSet)
BY DEF Tables

LEMMA TableAdded ==
    ASSUME NEW work \in Tables, NEW n \in 1..4, NEW new, new = [work EXCEPT !.made = @ \cup {n}]
    PROVE  new \in Tables /\ new.rows = work.rows /\ new.made = work.made \cup {n}
BY DEF Tables

Added(work, n, row) == [work EXCEPT !.rows[n] = Append(@, row)]

LEMMA RowAdded ==
    ASSUME NEW work \in Tables, NEW n \in 1..4, NEW row \in RowSet
    PROVE  /\ Added(work, n, row) \in Tables /\ Added(work, n, row).made = work.made
           /\ Added(work, n, row).rows = [work.rows EXCEPT ![n] = Append(work.rows[n], row)]
<1>1. work.rows \in [1..4 -> Seq(RowSet)] /\ work.made \in SUBSET (1..4)
      /\ work = [made |-> work.made, rows |-> work.rows]
  BY DEF Tables
<1>2. Append(work.rows[n], row) \in Seq(RowSet)
  BY <1>1, AppendFacts
<1>3. PICK rows : rows = [work.rows EXCEPT ![n] = Append(work.rows[n], row)]
  OBVIOUS
<1>4. rows \in [1..4 -> Seq(RowSet)]
  BY <1>1, <1>2, <1>3
<1>5. Added(work, n, row) = [made |-> work.made, rows |-> rows]
  <2>1. PICK old : old = [made |-> work.made, rows |-> work.rows]
    OBVIOUS
  <2>2. [old EXCEPT !.rows = rows] = [made |-> work.made, rows |-> rows]
    BY <2>1
  <2>3. Added(work, n, row) = [work EXCEPT !.rows = rows]
    BY <1>3 DEF Added
  <2> QED
    BY <1>1, <2>1, <2>2, <2>3
<1> QED
  BY <1>1, <1>3, <1>4, <1>5 DEF Tables

LEMMA NoTablesAre ==
    NoTables \in Tables /\ \A n \in 1..4 : NoTables.rows[n] = <<>>
BY EmptySeq DEF NoTables, Tables

(* What a statement is tells who awaits it.                                  *)
LEMMA FirstFits ==
    ASSUME Typed, Pending, NEW c \in DOMAIN conns, conns[c].queue # <<>>
    PROVE  LET op == First(c)
           IN /\ op.do \in {"insert", "select", "commit"} =>
                   op.to # TheUpdate /\ Flying(op.to) /\ op.to \in DOMAIN sends
              /\ op.do \in {"insert", "select"} => op.table \in 1..4 /\ op.row \in RowSet
              /\ op.do \in {"connect", "create", "shut"} =>
                   op.to = TheUpdate /\ update.at = op.do /\ c = Site
              /\ op.do = "create" => op.table \in 1..4
<1>1. Fits(c, First(c))
  BY FirstIs DEF Pending, First
<1>2. CASE First(c).to = TheUpdate
  <2>1. /\ update.at = First(c).do /\ c = Site
        /\ First(c).do = "create" => First(c).table = update.table
    BY <1>1, <1>2 DEF Fits
  <2>2. /\ update.at \in {"idle", "shut", "connect", "create", "close"}
        /\ update.at \in {"create", "close"} => update.table \in 1..4
    BY DEF Typed
  <2> QED
    BY <1>2, <2>1, <2>2
<1>3. CASE First(c).to # TheUpdate
  <2> DEFINE t == First(c).to
  <2>1. /\ Flying(t) /\ sends[t].at = First(c).do /\ sends[t].conn = c
        /\ First(c).do # "commit" =>
             /\ First(c).table = sends[t].table
             /\ First(c).row = Row(t, sends[t].table, sends[t].parent)
    BY <1>1, <1>3 DEF Fits
  <2>2. t \in DOMAIN sends /\ sends[t].at \in InFlight /\ sends[t] \in TaskSet
    BY <2>1 DEF Flying, Typed
  <2>3. sends[t].table \in 1..4 /\ sends[t].parent \in Nat
    BY <2>2, TaskFields DEF Typed
  <2>4. Row(t, sends[t].table, sends[t].parent) \in RowSet
    BY <2>2, <2>3, RowIs
  <2>5. First(c).do \in {"insert", "select", "close", "commit"}
    BY <2>1, <2>2 DEF InFlight
  <2> QED
    BY <1>3, <2>1, <2>2, <2>3, <2>4, <2>5
<1> QED
  BY <1>2, <1>3

Rows(c) == conns[c].work.rows

(* The ways to execute a statement: the tables, the answer and the disk.     *)
Opening(c, id, how) ==
    /\ First(c).do = "connect" /\ conns[c].live = "new" /\ how = "ok" /\ saved' = saved
    /\ Steps(c, "open", saved[conns[c].url])
Creating(c, id, how) ==
    /\ First(c).do = "create" /\ conns[c].live = "open" /\ how = "ok"
    /\ \A u \in Urls : saved'[u].rows = saved[u].rows
    /\ \E work \in Tables : /\ Steps(c, "open", work) /\ work.rows = Rows(c)
                            /\ work.made = conns[c].work.made \cup {First(c).table}
Inserting(c, id, how) ==
    /\ First(c).do = "insert" /\ conns[c].live = "open" /\ how = "ok" /\ saved' = saved
    /\ First(c).table \in conns[c].work.made /\ First(c).table \in 1..4 /\ First(c).row \in RowSet
    /\ id = Len(Rows(c)[First(c).table]) + 1
    /\ \E work \in Tables : /\ Steps(c, "open", work) /\ work.made = conns[c].work.made
                            /\ work.rows = [Rows(c) EXCEPT ![First(c).table] =
                                              Append(Rows(c)[First(c).table], First(c).row)]
Keeping(c, id, how) ==
    /\ conns[c].live = "open" /\ saved' = saved /\ Steps(c, "open", conns[c].work)
    /\ \/ First(c).do = "insert" /\ how = "ok" /\ id = 0 /\ First(c).table # 4
       \/ First(c).do = "insert" /\ how = "missing" /\ First(c).table \notin conns[c].work.made
       \/ First(c).do = "select" /\ how = "syntax"
       \/ /\ First(c).do = "select" /\ how = "ok" /\ First(c).table \in 1..3
          /\ id \in DOMAIN Rows(c)[First(c).table] /\ Rows(c)[First(c).table][id] = First(c).row
       \/ First(c).do = "close" /\ how = "ok"
Committing(c, id, how) ==
    /\ First(c).do = "commit" /\ conns[c].live = "open" /\ how = "ok"
    /\ Steps(c, "open", conns[c].work)
    /\ saved' = [saved EXCEPT ![conns[c].url] = conns[c].work]
Shutting(c, id, how) ==
    /\ First(c).do = "shut" /\ conns[c].live = "open" /\ how = "ok" /\ saved' = saved
    /\ Steps(c, "shut", NoTables)
Refusing(c, id, how) ==
    /\ conns[c].live \in {"shut", "gone"} /\ how = "closed" /\ saved' = saved
    /\ Steps(c, conns[c].live, conns[c].work)

Executes(c, id, how) ==
    /\ c \in DOMAIN conns /\ conns[c].queue # <<>> /\ Answers(c, id, how)
    /\ id \in Nat /\ how \in {"ok", "missing", "syntax", "closed"}
    /\ saved' \in [Urls -> Tables] /\ UNCHANGED <<sinkVars, files, sends>>
    /\ \/ Opening(c, id, how) \/ Creating(c, id, how) \/ Inserting(c, id, how)
       \/ Keeping(c, id, how) \/ Committing(c, id, how) \/ Shutting(c, id, how)
       \/ Refusing(c, id, how)

LEMMA ThreadSteps ==
    ASSUME Typed, Pending, ThreadStep
    PROVE  \E c \in DOMAIN conns, id \in Nat, how \in {"ok", "missing", "syntax", "closed"} :
              Executes(c, id, how)
<1>1. PICK c \in DOMAIN conns :
        /\ UNCHANGED <<sinkVars, files, sends>>
        /\ \/ Connects(c) \/ Creates(c) \/ Inserts(c) \/ Selects(c) \/ ClosesCursor(c)
           \/ Commits(c) \/ Closes(c) \/ Refuses(c)
  BY DEF ThreadStep, Thread
<1>2. conns[c].queue # <<>>
  BY <1>1 DEF Connects, Creates, Inserts, Selects, ClosesCursor, Commits, Closes, Refuses, Asked
<1>3. /\ conns[c] \in ConnSet /\ conns[c].url \in Urls /\ conns[c].work \in Tables
      /\ conns[c].tx \in BOOLEAN /\ conns[c].live \in {"new", "open", "shut", "gone"}
      /\ saved \in [Urls -> Tables] /\ Disk(c) = saved[conns[c].url] /\ Disk(c) \in Tables
      /\ Head(conns[c].queue) = First(c) /\ First(c) \in Ops
  BY <1>2, Conns, ConnFields, FirstIs DEF Typed, Disk
<1>4. [saved EXCEPT ![conns[c].url] = saved[conns[c].url]] = saved
  BY <1>3
<1>5. ASSUME NEW id \in Nat, NEW how \in {"ok", "missing", "syntax", "closed"},
             Answered(c, id, how), saved' \in [Urls -> Tables],
             \/ Opening(c, id, how) \/ Creating(c, id, how) \/ Inserting(c, id, how)
             \/ Keeping(c, id, how) \/ Committing(c, id, how) \/ Shutting(c, id, how)
             \/ Refusing(c, id, how)
      PROVE  Executes(c, id, how)
  <2>1. Answers(c, id, how)
    BY <1>2, <1>5, AnsweredIs
  <2> QED
    BY <1>1, <1>2, <1>5, <2>1 DEF Executes
<1>6. ASSUME Unmoved(c)
      PROVE  Steps(c, "open", conns[c].work) /\ saved' = saved /\ saved' \in [Urls -> Tables]
  <2>1. Executed(c, conns[c].tx, conns[c].work, Disk(c))
    BY <1>6 DEF Unmoved
  <2> QED
    BY <1>2, <1>3, <1>4, <2>1, ExecutedIs
<1>7. PICK zero \in Nat, ok \in {"ok", "missing", "syntax", "closed"} : zero = 0 /\ ok = "ok"
  OBVIOUS
<1>8. CASE Connects(c)
  <2>1. /\ First(c).do = "connect" /\ conns[c].live = "new" /\ Answered(c, zero, ok)
        /\ Executed(c, FALSE, Disk(c), Disk(c))
    BY <1>3, <1>7, <1>8 DEF Connects, Asked
  <2>2. Steps(c, "open", Disk(c)) /\ saved' = [saved EXCEPT ![conns[c].url] = Disk(c)]
        /\ saved' \in [Urls -> Tables]
    BY <1>2, <1>3, <2>1, ExecutedIs
  <2>3. Opening(c, zero, ok)
    BY <1>3, <1>4, <1>7, <2>1, <2>2 DEF Opening
  <2> QED
    BY <1>5, <2>1, <2>2, <2>3
<1>9. CASE Creates(c)
  <2> DEFINE made(t) == [t EXCEPT !.made = @ \cup {First(c).table}]
  <2>1. /\ First(c).do = "create" /\ conns[c].live = "open" /\ Answered(c, zero, ok)
        /\ Executed(c, conns[c].tx, made(conns[c].work),
                    IF conns[c].tx THEN Disk(c) ELSE made(Disk(c)))
    BY <1>3, <1>7, <1>9 DEF Creates, Asked
  <2>2. First(c).table \in 1..4
    BY <1>2, <2>1, FirstFits
  <2>3. PICK work \in Tables : /\ work = made(conns[c].work) /\ work.rows = Rows(c)
                               /\ work.made = conns[c].work.made \cup {First(c).table}
    <3>1. PICK w : w = made(conns[c].work)
      OBVIOUS
    <3>2. w \in Tables /\ w.rows = conns[c].work.rows
          /\ w.made = conns[c].work.made \cup {First(c).table}
      BY <1>3, <2>2, <3>1, TableAdded
    <3> QED
      BY <3>1, <3>2 DEF Rows
  <2>4. PICK disk \in Tables : /\ disk = IF conns[c].tx THEN Disk(c) ELSE made(Disk(c))
                               /\ disk.rows = Disk(c).rows
    <3>1. PICK w : w = made(Disk(c))
      OBVIOUS
    <3>2. w \in Tables /\ w.rows = Disk(c).rows
      BY <1>3, <2>2, <3>1, TableAdded
    <3> QED
      BY <1>3, <3>1, <3>2
  <2>5. Executed(c, conns[c].tx, work, disk)
    BY <2>1, <2>3, <2>4
  <2>6. Steps(c, "open", work) /\ saved' = [saved EXCEPT ![conns[c].url] = disk]
        /\ saved' \in [Urls -> Tables]
    BY <1>2, <1>3, <2>5, ExecutedIs
  <2>7. \A u \in Urls : saved'[u].rows = saved[u].rows
    BY <1>3, <2>4, <2>6
  <2>8. Creating(c, zero, ok)
    BY <1>7, <2>1, <2>3, <2>6, <2>7 DEF Creating
  <2> QED
    BY <1>5, <2>1, <2>6, <2>8
<1>10. CASE Inserts(c)
  <2>1. First(c).do = "insert" /\ conns[c].live = "open"
    BY <1>3, <1>10 DEF Inserts, Asked
  <2>2. First(c).table \in 1..4 /\ First(c).row \in RowSet
    BY <1>2, <2>1, FirstFits
  <2>3. CASE First(c).table \notin conns[c].work.made
    <3>1. Unmoved(c) /\ Answered(c, 0, "missing")
      BY <1>3, <1>10, <2>3 DEF Inserts
    <3>2. PICK how \in {"ok", "missing", "syntax", "closed"} : how = "missing"
      OBVIOUS
    <3>3. Keeping(c, zero, how)
      BY <1>6, <2>1, <2>3, <3>1, <3>2 DEF Keeping
    <3> QED
      BY <1>5, <1>6, <1>7, <3>1, <3>2, <3>3
  <2>4. CASE First(c).table \in conns[c].work.made
                /\ Same(Rows(c)[First(c).table], First(c).table, First(c).row) = {}
    <3>1. PICK work : work = Added(conns[c].work, First(c).table, First(c).row)
      OBVIOUS
    <3>2. PICK id : id = Len(Rows(c)[First(c).table]) + 1
      OBVIOUS
    <3>3. Executed(c, TRUE, work, Disk(c)) /\ Answered(c, id, ok)
      BY <1>3, <1>7, <1>10, <2>4, <3>1, <3>2 DEF Inserts, Rows, Added
    <3>4. /\ work \in Tables /\ work.made = conns[c].work.made
          /\ work.rows = [Rows(c) EXCEPT ![First(c).table] =
                            Append(Rows(c)[First(c).table], First(c).row)]
      BY <1>3, <2>2, <3>1, RowAdded DEF Rows
    <3>5. id \in Nat
      <4>1. Rows(c)[First(c).table] \in Seq(RowSet)
        BY <1>3, <2>2, TableFields DEF Rows
      <4> QED
        BY <3>2, <4>1, SeqFacts
    <3>6. Steps(c, "open", work) /\ saved' = [saved EXCEPT ![conns[c].url] = Disk(c)]
          /\ saved' \in [Urls -> Tables]
      BY <1>2, <1>3, <3>3, <3>4, ExecutedIs
    <3>7. Inserting(c, id, ok)
      BY <1>3, <1>4, <1>7, <2>1, <2>2, <2>4, <3>2, <3>4, <3>6 DEF Inserting
    <3> QED
      BY <1>5, <3>3, <3>5, <3>6, <3>7
  <2>5. CASE First(c).table \in conns[c].work.made
                /\ Same(Rows(c)[First(c).table], First(c).table, First(c).row) # {}
    <3>1. Executed(c, TRUE, conns[c].work, Disk(c)) /\ Answered(c, zero, ok)
      BY <1>3, <1>7, <1>10, <2>5 DEF Inserts, Rows
    <3>2. Steps(c, "open", conns[c].work) /\ saved' = [saved EXCEPT ![conns[c].url] = Disk(c)]
          /\ saved' \in [Urls -> Tables]
      BY <1>2, <1>3, <3>1, ExecutedIs
    <3>3. First(c).table # 4
      BY <2>5 DEF Same
    <3>4. Keeping(c, zero, ok)
      BY <1>3, <1>4, <1>7, <2>1, <3>2, <3>3 DEF Keeping
    <3> QED
      BY <1>5, <3>1, <3>2, <3>4
  <2> QED
    BY <2>3, <2>4, <2>5
<1>11. CASE Selects(c)
  <2>1. First(c).do = "select" /\ conns[c].live = "open" /\ Unmoved(c)
    BY <1>3, <1>11 DEF Selects, Asked
  <2>2. First(c).table \in 1..4
    BY <1>2, <2>1, FirstFits
  <2>3. CASE First(c).row.key \in Unfindable
    <3>1. Answered(c, 0, "syntax")
      BY <1>3, <1>11, <2>3 DEF Selects
    <3>2. PICK how \in {"ok", "missing", "syntax", "closed"} : how = "syntax"
      OBVIOUS
    <3>3. Keeping(c, zero, how)
      BY <1>6, <2>1, <3>2 DEF Keeping
    <3> QED
      BY <1>5, <1>6, <1>7, <2>1, <3>1, <3>2, <3>3
  <2>4. CASE First(c).row.key \notin Unfindable
    <3>1. PICK id \in Same(Rows(c)[First(c).table], First(c).table, First(c).row) :
            Answered(c, id, ok)
      BY <1>3, <1>7, <1>11, <2>4 DEF Selects, Rows
    <3>2. /\ id \in DOMAIN Rows(c)[First(c).table] /\ First(c).table # 4
          /\ Rows(c)[First(c).table][id] = First(c).row
      BY DEF Same
    <3>3. id \in Nat
      <4>1. Rows(c)[First(c).table] \in Seq(RowSet)
        BY <1>3, <2>2, TableFields DEF Rows
      <4> QED
        BY <3>2, <4>1, SeqFacts
    <3>4. First(c).table \in 1..3
      BY <2>2, <3>2
    <3>5. Keeping(c, id, ok)
      BY <1>6, <1>7, <2>1, <3>2, <3>4 DEF Keeping
    <3> QED
      BY <1>5, <1>6, <2>1, <3>1, <3>3, <3>5
  <2> QED
    BY <2>3, <2>4
<1>12. CASE ClosesCursor(c)
  <2>1. First(c).do = "close" /\ conns[c].live = "open" /\ Unmoved(c) /\ Answered(c, zero, ok)
    BY <1>3, <1>7, <1>12 DEF ClosesCursor, Asked
  <2>2. Keeping(c, zero, ok)
    BY <1>6, <1>7, <2>1 DEF Keeping
  <2> QED
    BY <1>5, <1>6, <2>1, <2>2
<1>13. CASE Commits(c)
  <2>1. /\ First(c).do = "commit" /\ conns[c].live = "open" /\ Answered(c, zero, ok)
        /\ Executed(c, FALSE, conns[c].work, conns[c].work)
    BY <1>3, <1>7, <1>13 DEF Commits, Asked
  <2>2. Steps(c, "open", conns[c].work) /\ saved' = [saved EXCEPT ![conns[c].url] = conns[c].work]
        /\ saved' \in [Urls -> Tables]
    BY <1>2, <1>3, <2>1, ExecutedIs
  <2>3. Committing(c, zero, ok)
    BY <1>7, <2>1, <2>2 DEF Committing
  <2> QED
    BY <1>5, <2>1, <2>2, <2>3
<1>14. CASE Closes(c)
  <2>1. /\ First(c).do = "shut" /\ conns[c].live = "open" /\ Answered(c, zero, ok)
        /\ saved' = saved
    BY <1>3, <1>7, <1>14 DEF Closes, Asked
  <2>2. PICK k : k = [conns[c] EXCEPT !.queue = Tail(conns[c].queue), !.live = "shut", !.tx = FALSE,
                                      !.work = NoTables]
    OBVIOUS
  <2>3. conns' = [conns EXCEPT ![c] = k]
    BY <1>3, <1>14, <2>2 DEF Closes, Rest, ConnSet
  <2>4. PICK live \in {"open", "shut", "gone"}, tx \in BOOLEAN, work \in Tables :
          live = "shut" /\ tx = FALSE /\ work = NoTables
    BY NoTablesAre
  <2>5. Steps(c, live, work)
    BY <1>2, <2>2, <2>3, <2>4, StepsAre
  <2>6. Shutting(c, zero, ok)
    BY <1>7, <2>1, <2>4, <2>5 DEF Shutting
  <2> QED
    BY <1>3, <1>5, <2>1, <2>6
<1>15. CASE Refuses(c)
  <2>1. /\ conns[c].live \in {"shut", "gone"} /\ Answered(c, 0, "closed") /\ saved' = saved
        /\ conns' = [conns EXCEPT ![c].queue = Tail(@)]
    BY <1>15 DEF Refuses
  <2>2. PICK live \in {"open", "shut", "gone"} : live = conns[c].live
    BY <2>1
  <2>3. PICK k : k = [conns[c] EXCEPT !.queue = Tail(conns[c].queue), !.live = live,
                                      !.tx = conns[c].tx, !.work = conns[c].work]
    OBVIOUS
  <2>4. conns' = [conns EXCEPT ![c] = k]
    BY <1>3, <2>1, <2>2, <2>3 DEF ConnSet
  <2>5. Steps(c, live, conns[c].work)
    BY <1>2, <1>3, <2>3, <2>4, StepsAre
  <2>6. PICK how \in {"ok", "missing", "syntax", "closed"} : how = "closed"
    OBVIOUS
  <2>7. Refusing(c, zero, how)
    BY <2>1, <2>2, <2>5, <2>6 DEF Refusing
  <2> QED
    BY <1>3, <1>5, <1>7, <2>1, <2>6, <2>7
<1> QED
  BY <1>1, <1>8, <1>9, <1>10, <1>11, <1>12, <1>13, <1>14, <1>15

-------------------------------------------------------------------------------
(* What an update does.                                                      *)
LEMMA ConfigIs ==
    ASSUME Typed, NEW cfg \in life.configs
    PROVE  cfg.name \in Names /\ cfg.url \in Urls
<1>1. cfg \in Configs
  BY DEF Typed, Configs
<1> QED
  BY <1>1 DEF Names, Urls

IsUpdate(do, at, cfg, p, table) ==
    update' = [do |-> do, at |-> at, cfg |-> cfg, plugin |-> p, table |-> table]

(* The tasks of p are disturbed, all others stay as they are.                *)
Downs(p) ==
    /\ DOMAIN sends' = DOMAIN sends
    /\ \A t \in DOMAIN sends :
         /\ sends'[t] \in TaskSet
         /\ sends'[t].plugin = sends[t].plugin /\ sends'[t].probe = sends[t].probe
         /\ sends'[t].at = sends[t].at /\ sends'[t].conn = sends[t].conn
         /\ sends'[t].table = sends[t].table /\ sends'[t].parent = sends[t].parent
         /\ sends'[t].id = sends[t].id /\ sends'[t].why = sends[t].why
         /\ sends'[t].disturbed = (sends[t].disturbed \/ sends[t].plugin = p)

LEMMA DisturbIs ==
    ASSUME Typed, NEW p, Disturb(p)
    PROVE  Downs(p)
<1>1. DOMAIN sends' = DOMAIN sends
  BY DEF Disturb
<1>2. ASSUME NEW t \in DOMAIN sends
      PROVE  /\ sends'[t] \in TaskSet
             /\ sends'[t].plugin = sends[t].plugin /\ sends'[t].probe = sends[t].probe
             /\ sends'[t].at = sends[t].at /\ sends'[t].conn = sends[t].conn
             /\ sends'[t].table = sends[t].table /\ sends'[t].parent = sends[t].parent
             /\ sends'[t].id = sends[t].id /\ sends'[t].why = sends[t].why
             /\ sends'[t].disturbed = (sends[t].disturbed \/ sends[t].plugin = p)
  <2>1. sends[t] \in TaskSet
    BY DEF Typed
  <2>2. CASE sends[t].plugin = p
    <3>1. sends'[t] = [sends[t] EXCEPT !.disturbed = TRUE]
      BY <2>2 DEF Disturb
    <3>2. PICK k : k = sends[t]
      OBVIOUS
    <3>3. k \in TaskSet /\ sends'[t] = [k EXCEPT !.disturbed = TRUE]
      BY <2>1, <3>1, <3>2
    <3>4. /\ sends'[t] \in TaskSet
          /\ sends'[t].plugin = k.plugin /\ sends'[t].probe = k.probe
          /\ sends'[t].at = k.at /\ sends'[t].conn = k.conn
          /\ sends'[t].table = k.table /\ sends'[t].parent = k.parent
          /\ sends'[t].id = k.id /\ sends'[t].why = k.why /\ sends'[t].disturbed = TRUE
      BY <3>3 DEF TaskSet
    <3> QED
      BY <2>2, <3>2, <3>4
  <2>3. CASE sends[t].plugin # p
    <3>1. sends'[t] = sends[t]
      BY <2>3 DEF Disturb
    <3>2. sends[t].disturbed \in BOOLEAN
      BY <2>1, TaskFields
    <3> QED
      BY <2>1, <2>3, <3>1, <3>2
  <2> QED
    BY <2>2, <2>3
<1> QED
  BY <1>1, <1>2 DEF Downs

(* A sink is about to be stopped.                                            *)
Shuts(p) ==
    /\ update = Idle /\ p \in DOMAIN plugins
    /\ plugins[p].conn \in DOMAIN conns /\ conns[plugins[p].conn].live = "open"
    /\ \E op \in Ops : /\ op.to = TheUpdate /\ op.do = "shut" /\ Puts(plugins[p].conn, op)
    /\ \E do \in {"update", "remove"}, cfg \in life.configs :
         /\ IsUpdate(do, "shut", cfg, p, 0) /\ cfg.name \in DOMAIN sinks /\ sinks[cfg.name] = p
    /\ Downs(p)
    /\ UNCHANGED <<sinks, backups, plugins, probe, saved, files, answers, life, restarts>>

(* What becomes of the sinks when p is started for a configuration.           *)
Registers(p) ==
    \E cfg \in life.configs :
       /\ \A m \in DOMAIN sinks' : \/ m \in DOMAIN sinks /\ sinks'[m] = sinks[m]
                                   \/ m = cfg.name /\ sinks'[m] = p
       /\ \A m \in DOMAIN sinks : sinks[m] # p => m \in DOMAIN sinks' /\ sinks'[m] = sinks[m]
       /\ p \in DOMAIN plugins => cfg.name \in DOMAIN sinks /\ sinks[cfg.name] = p
       /\ \/ plugins'[p].path \in {None, cfg.url}
          \/ p \in DOMAIN plugins /\ plugins'[p].path = plugins[p].path
       /\ update'.at = "connect" => update'.cfg = cfg /\ conns'[Len(conns')].url = cfg.url

(* A plugin p is started; connection g has come to its end before.  Both are
   0 if there is none. *)
Renews(p, g) ==
    /\ \/ update = Idle /\ answers' = answers /\ g = 0
       \/ update.at = "shut" /\ Takes(TheUpdate) /\ g = Site /\ g \in DOMAIN conns
    /\ \/ Len(plugins') = Len(plugins)
       \/ Len(plugins') = Len(plugins) + 1 /\ p = Len(plugins')
    /\ plugins' \in Seq(PluginSet)
    /\ \A q \in DOMAIN plugins : /\ plugins'[q].kind = plugins[q].kind
                                 /\ plugins'[q].conn = plugins[q].conn
                                 /\ q # p => plugins'[q] = plugins[q]
    /\ Len(plugins') # Len(plugins) => plugins'[p].conn = 0
    /\ conns' \in Seq(ConnSet)
    /\ \A c \in DOMAIN conns :
         /\ conns'[c].url = conns[c].url /\ conns'[c].work = conns[c].work
         /\ conns'[c].queue = conns[c].queue
         /\ conns'[c].live = IF c = g THEN "gone" ELSE conns[c].live
    /\ \/ Len(conns') = Len(conns) /\ update' = Idle
       \/ /\ Len(conns') = Len(conns) + 1
          /\ \E cfg \in life.configs, do \in {"add", "update"} :
               /\ IsUpdate(do, "connect", cfg, p, 0)
               /\ conns'[Len(conns')].url = cfg.url /\ cfg.url \notin BadUrls
               /\ do = "add" => update = Idle
               /\ do = "update" => /\ sinks' = sinks /\ cfg.name \in DOMAIN sinks
                                   /\ sinks[cfg.name] = p
          /\ conns'[Len(conns')].live = "new"
          /\ conns'[Len(conns')].queue = <<Op(TheUpdate, "connect", 0, None)>>
          /\ conns'[Len(conns')].work = NoTables
          /\ p \in DOMAIN plugins' /\ plugins'[p].kind = "sqlite"
    /\ p \in DOMAIN plugins => plugins[p].conn = 0 \/ conns'[plugins[p].conn].live = "gone"
    /\ \/ sends' = sends /\ (p \notin DOMAIN plugins \/ (update.at = "shut" /\ p = update.plugin))
       \/ Downs(p) /\ p \in DOMAIN plugins
    /\ DOMAIN sinks' \subseteq Names /\ \A n \in DOMAIN sinks' : sinks'[n] \in DOMAIN plugins'
    /\ Registers(p)
    /\ UNCHANGED <<probe, saved, files, life, restarts>>

(* The update puts its next statement.                                       *)
Asks ==
    /\ Takes(TheUpdate) /\ answers[1].do = update.at
    /\ \E op \in Ops : /\ op.to = TheUpdate /\ op.do = update'.at /\ Puts(Site', op)
                       /\ op.do = "create" => op.table = update'.table
    /\ Site' \in DOMAIN conns /\ Site' = Site
    /\ \/ /\ update.at = "connect" /\ update'.at = "create" /\ update'.table = 1
          /\ plugins' = [plugins EXCEPT ![update.plugin].conn = Len(conns)]
       \/ /\ update.at = "create" /\ update'.at = "close" /\ update'.table = update.table
          /\ plugins' = plugins
       \/ /\ update.at = "close" /\ update.table < 4 /\ update'.at = "create"
          /\ update'.table = update.table + 1 /\ plugins' = plugins
    /\ IsUpdate(update.do, update'.at, update.cfg, update.plugin, update'.table)
    /\ UNCHANGED <<sinks, backups, sends, saved, files, probe, life, restarts>>

(* The database has all its tables.                                          *)
Finishes ==
    /\ Takes(TheUpdate) /\ answers[1].do = update.at /\ update.at = "close" /\ update.table = 4
    /\ update' = Idle /\ sinks' = Registered(update.do, update.cfg, update.plugin)
    /\ UNCHANGED <<backups, plugins, conns, sends, saved, files, probe, life, restarts>>

(* A plugin p of ps is started, with a new connection behind cs if it is a   *)
(* database.                                                                 *)
Begins(do, cfg, p, ps, cs) ==
    /\ plugins' \in Seq(PluginSet) /\ Len(plugins') = Len(ps)
    /\ \A q \in DOMAIN ps : /\ plugins'[q].kind = ps[q].kind /\ plugins'[q].conn = ps[q].conn
                            /\ q # p => plugins'[q] = ps[q]
    /\ plugins'[p].path \in {ps[p].path, cfg.url}
    /\ conns' \in Seq(ConnSet) /\ \A c \in DOMAIN cs : conns'[c] = cs[c]
    /\ \/ /\ Len(conns') = Len(cs) /\ update' = Idle /\ sinks' = Registered(do, cfg, p)
       \/ /\ Len(conns') = Len(cs) + 1 /\ IsUpdate(do, "connect", cfg, p, 0) /\ sinks' = sinks
          /\ conns'[Len(conns')].url = cfg.url /\ conns'[Len(conns')].live = "new"
          /\ conns'[Len(conns')].queue = <<Op(TheUpdate, "connect", 0, None)>>
          /\ conns'[Len(conns')].work = NoTables /\ ps[p].kind = "sqlite"
          /\ cfg.url \notin BadUrls

LEMMA NewConnIs ==
    ASSUME NEW url \in Urls
    PROVE  LET new == NewConn(url, Op(TheUpdate, "connect", 0, None))
           IN /\ new \in ConnSet /\ new.url = url /\ new.live = "new" /\ new.work = NoTables
              /\ new.queue = <<Op(TheUpdate, "connect", 0, None)>>
<1>1. PICK op : op = Op(TheUpdate, "connect", 0, None)
  OBVIOUS
<1>2. op \in Ops
  BY <1>1 DEF Op, Ops
<1>3. <<op>> \in Seq(Ops)
  BY <1>2
<1>4. NoTables \in Tables
  BY NoTablesAre
<1>5. PICK new : new = NewConn(url, op)
  OBVIOUS
<1>6. new = [url |-> url, live |-> "new", tx |-> FALSE, work |-> NoTables, queue |-> <<op>>]
  BY <1>5 DEF NewConn
<1>7. new \in ConnSet
  BY <1>3, <1>4, <1>6 DEF ConnSet
<1> QED
  BY <1>1, <1>5, <1>6, <1>7

LEMMA BeginIs ==
    ASSUME Typed, NEW do, NEW cfg \in life.configs, NEW ps \in Seq(PluginSet), NEW p \in DOMAIN ps,
           NEW cs \in Seq(ConnSet), StartPlugin(do, cfg, p, ps, cs)
    PROVE  Begins(do, cfg, p, ps, cs)
<1>1. cfg.url \in Urls
  BY ConfigIs
<1>2. DOMAIN ps = 1..Len(ps) /\ Len(ps) \in Nat /\ \A q \in DOMAIN ps : ps[q] \in PluginSet
      /\ DOMAIN cs = 1..Len(cs) /\ Len(cs) \in Nat
  BY SeqFacts
<1>3. CASE /\ plugins' = ps /\ conns' = cs
           /\ sinks' = Registered(do, cfg, p) /\ update' = Idle
  BY <1>3 DEF Begins
<1>4. CASE /\ plugins' = [ps EXCEPT ![p].path = cfg.url] /\ conns' = cs
           /\ sinks' = Registered(do, cfg, p) /\ update' = Idle
  <2>1. PICK k : k = [ps[p] EXCEPT !.path = cfg.url]
    OBVIOUS
  <2>2. ps[p] \in PluginSet
    BY <1>2
  <2>3. k \in PluginSet /\ k.kind = ps[p].kind /\ k.conn = ps[p].conn /\ k.path = cfg.url
    BY <1>1, <2>1, <2>2 DEF PluginSet
  <2>4. plugins' = [ps EXCEPT ![p] = k]
    BY <1>4, <2>1
  <2>5. p \in 1..Len(ps)
    BY <1>2
  <2>6. plugins' \in Seq(PluginSet) /\ Len(plugins') = Len(ps)
        /\ \A q \in 1..Len(ps) : plugins'[q] = IF q = p THEN k ELSE ps[q]
    BY <2>3, <2>4, <2>5, ExceptSeq
  <2> QED
    BY <1>2, <1>4, <2>3, <2>6 DEF Begins
<1>5. CASE /\ ps[p].kind = "sqlite" /\ cfg.url \notin BadUrls
           /\ conns' = Append(cs, NewConn(cfg.url, Op(TheUpdate, "connect", 0, None)))
           /\ update' = [do |-> do, at |-> "connect", cfg |-> cfg, plugin |-> p, table |-> 0]
           /\ plugins' = ps /\ sinks' = sinks
  <2>1. PICK new : new = NewConn(cfg.url, Op(TheUpdate, "connect", 0, None))
    OBVIOUS
  <2>2. /\ new \in ConnSet /\ new.url = cfg.url /\ new.live = "new" /\ new.work = NoTables
        /\ new.queue = <<Op(TheUpdate, "connect", 0, None)>>
    BY <1>1, <2>1, NewConnIs
  <2>3. conns' = Append(cs, new)
    BY <1>5, <2>1
  <2>4. conns' \in Seq(ConnSet) /\ Len(conns') = Len(cs) + 1
        /\ (\A c \in 1..Len(cs) : conns'[c] = cs[c]) /\ conns'[Len(cs) + 1] = new
    BY <2>2, <2>3, AppendFacts
  <2> QED
    BY <1>2, <1>5, <2>2, <2>4 DEF Begins, IsUpdate
<1> QED
  BY <1>3, <1>4, <1>5 DEF StartPlugin, Rejected

LEMMA RegisteredIs ==
    ASSUME Typed, NEW do, NEW cfg \in life.configs, NEW p
    PROVE  /\ DOMAIN Registered(do, cfg, p) \subseteq Names
           /\ \A n \in DOMAIN Registered(do, cfg, p) :
                 Registered(do, cfg, p)[n] \in DOMAIN plugins \cup {p}
<1>1. cfg.name \in Names
  BY ConfigIs
<1> QED
  BY <1>1 DEF Registered, With, Typed

LEMMA AddSteps ==
    ASSUME Typed, Sites, AddSink
    PROVE  Renews(Len(plugins) + 1, 0)
<1> DEFINE p == Len(plugins) + 1
<1>1. PICK cfg \in life.configs :
        /\ PluginName(cfg) \in Kinds /\ cfg.name \notin DOMAIN sinks
        /\ StartPlugin("add", cfg, p,
                       Append(plugins, [kind |-> PluginName(cfg), conn |-> 0, path |-> None]),
                       conns)
  BY DEF AddSink
<1>2. update = Idle /\ UNCHANGED <<probe, saved, files, sends, answers, life, restarts>>
  BY DEF AddSink
<1>3. PICK new : new = [kind |-> PluginName(cfg), conn |-> 0, path |-> None]
  OBVIOUS
<1>4. new \in PluginSet /\ new.conn = 0
  BY <1>1, <1>3 DEF PluginSet
<1>5. PICK ps : ps = Append(plugins, new)
  OBVIOUS
<1>6. plugins \in Seq(PluginSet) /\ conns \in Seq(ConnSet) /\ Len(plugins) \in Nat
      /\ DOMAIN plugins = 1..Len(plugins) /\ DOMAIN conns = 1..Len(conns) /\ Len(conns) \in Nat
  BY Conns DEF Typed
<1>7. ps \in Seq(PluginSet) /\ Len(ps) = p /\ (\A q \in 1..Len(plugins) : ps[q] = plugins[q])
      /\ ps[p] = new
  BY <1>4, <1>5, <1>6, AppendFacts
<1>8. DOMAIN ps = 1..p /\ p \in DOMAIN ps
  BY <1>6, <1>7, SeqFacts
<1>9. PICK do : do = "add"
  OBVIOUS
<1>10. StartPlugin(do, cfg, p, ps, conns)
  BY <1>1, <1>3, <1>5, <1>9
<1> HIDE DEF p
<1>11. Begins(do, cfg, p, ps, conns)
  BY <1>6, <1>7, <1>8, <1>10, BeginIs
<1>12. p = Len(plugins) + 1
  BY DEF p
<1>13. /\ plugins' \in Seq(PluginSet) /\ Len(plugins') = Len(plugins) + 1 /\ p = Len(plugins')
       /\ \A q \in DOMAIN plugins : plugins'[q] = plugins[q]
       /\ plugins'[p].conn = 0 /\ plugins'[p].kind = ps[p].kind
       /\ DOMAIN plugins' = 1..p
  <2>1. plugins' \in Seq(PluginSet) /\ Len(plugins') = p
        /\ \A q \in DOMAIN ps : /\ plugins'[q].kind = ps[q].kind /\ plugins'[q].conn = ps[q].conn
                                /\ q # p => plugins'[q] = ps[q]
    BY <1>7, <1>11 DEF Begins
  <2>2. DOMAIN plugins' = 1..p
    BY <2>1, SeqFacts
  <2> QED
    BY <1>4, <1>6, <1>7, <1>8, <1>12, <2>1, <2>2
<1>14. /\ DOMAIN sinks' \subseteq Names /\ \A n \in DOMAIN sinks' : sinks'[n] \in DOMAIN plugins'
  <2>1. sinks' \in {sinks, Registered(do, cfg, p)}
    BY <1>11 DEF Begins
  <2>2. DOMAIN plugins \cup {p} \subseteq DOMAIN plugins'
    BY <1>6, <1>12, <1>13
  <2>3. DOMAIN sinks \subseteq Names /\ \A n \in DOMAIN sinks : sinks[n] \in DOMAIN plugins
    BY DEF Typed
  <2> QED
    BY <2>1, <2>2, <2>3, RegisteredIs
<1>15. /\ conns' \in Seq(ConnSet) /\ \A c \in DOMAIN conns : conns'[c] = conns[c]
       /\ 0 \notin DOMAIN conns
  BY <1>6, <1>11 DEF Begins
<1>16. \/ Len(conns') = Len(conns) /\ update' = Idle
       \/ /\ Len(conns') = Len(conns) + 1 /\ IsUpdate(do, "connect", cfg, p, 0)
          /\ conns'[Len(conns')].url = cfg.url /\ conns'[Len(conns')].live = "new"
          /\ conns'[Len(conns')].queue = <<Op(TheUpdate, "connect", 0, None)>>
          /\ conns'[Len(conns')].work = NoTables /\ plugins'[p].kind = "sqlite"
          /\ cfg.url \notin BadUrls
  BY <1>11, <1>13 DEF Begins
<1>17. p \notin DOMAIN plugins /\ p \in DOMAIN plugins'
  BY <1>6, <1>12, <1>13
<1>18. Registers(p)
  <2>1. cfg.name \notin DOMAIN sinks /\ sinks' \in {sinks, With(sinks, cfg.name, p)}
    BY <1>1, <1>9, <1>11 DEF Begins, Registered
  <2>2. plugins'[p].path \in {None, cfg.url}
    <3>1. plugins'[p].path \in {ps[p].path, cfg.url}
      BY <1>11 DEF Begins
    <3> QED
      BY <1>3, <1>7, <3>1
  <2>3. /\ \A m \in DOMAIN sinks' : \/ m \in DOMAIN sinks /\ sinks'[m] = sinks[m]
                                    \/ m = cfg.name /\ sinks'[m] = p
        /\ \A m \in DOMAIN sinks : m \in DOMAIN sinks' /\ sinks'[m] = sinks[m]
    BY <2>1 DEF With
  <2>4. update'.at = "connect" => update'.cfg = cfg /\ conns'[Len(conns')].url = cfg.url
    BY <1>16 DEF IsUpdate, Idle
  <2> QED
    BY <1>17, <2>2, <2>3, <2>4 DEF Registers
<1>19. Renews(p, 0)
  BY <1>2, <1>6, <1>9, <1>13, <1>14, <1>15, <1>16, <1>17, <1>18 DEF Renews
<1> QED
  BY <1>12, <1>19

(* Behind plugin.stop.                                                       *)
LEMMA AfterStopIs ==
    ASSUME Typed, NEW do \in {"update", "remove"}, NEW cfg \in life.configs,
           cfg.name \in DOMAIN sinks, NEW cs \in Seq(ConnSet), Len(cs) = Len(conns),
           AfterStop(do, cfg, cs)
    PROVE  /\ \/ Begins(do, cfg, sinks[cfg.name], plugins, cs)
              \/ plugins' = plugins /\ conns' = cs /\ update' = Idle
           /\ DOMAIN sinks' \subseteq Names /\ \A n \in DOMAIN sinks' : sinks'[n] \in DOMAIN plugins'
<1>1. sinks[cfg.name] \in DOMAIN plugins /\ plugins \in Seq(PluginSet)
      /\ DOMAIN sinks \subseteq Names /\ \A n \in DOMAIN sinks : sinks[n] \in DOMAIN plugins
  BY DEF Typed
<1>2. CASE do = "update"
  <2>1. StartPlugin(do, cfg, sinks[cfg.name], plugins, cs)
    BY <1>2 DEF AfterStop
  <2>2. Begins(do, cfg, sinks[cfg.name], plugins, cs)
    BY <1>1, <2>1, BeginIs
  <2>3. sinks' = sinks
    BY <1>2, <2>2 DEF Begins, Registered
  <2>4. DOMAIN plugins' = DOMAIN plugins
    BY <1>1, <2>2, SeqFacts DEF Begins
  <2> QED
    BY <1>1, <2>2, <2>3, <2>4
<1>3. CASE do = "remove"
  <2>1. /\ sinks' = Without(sinks, cfg.name) /\ update' = Idle /\ plugins' = plugins
        /\ conns' = cs
    BY <1>3 DEF AfterStop
  <2> QED
    BY <1>1, <2>1 DEF Without
<1> QED
  BY <1>2, <1>3

LEMMA RenewsAgain ==
    ASSUME Typed, NEW do \in {"update", "remove"}, NEW cfg \in life.configs,
           cfg.name \in DOMAIN sinks, NEW p, p = sinks[cfg.name], NEW g \in Nat,
           NEW cs \in Seq(ConnSet), Len(cs) = Len(conns),
           \A c \in DOMAIN conns : /\ cs[c].url = conns[c].url /\ cs[c].work = conns[c].work
                                   /\ cs[c].queue = conns[c].queue
                                   /\ cs[c].live = IF c = g THEN "gone" ELSE conns[c].live,
           plugins[p].conn = 0 \/ cs[plugins[p].conn].live = "gone",
           AfterStop(do, cfg, cs),
           UNCHANGED <<probe, saved, files, life, restarts>>,
           \/ update = Idle /\ answers' = answers /\ g = 0
           \/ update.at = "shut" /\ Takes(TheUpdate) /\ g = Site /\ g \in DOMAIN conns,
           \/ sends' = sends /\ update.at = "shut" /\ p = update.plugin
           \/ Downs(p)
    PROVE  Renews(p, g)
<1>1. /\ \/ Begins(do, cfg, p, plugins, cs)
         \/ plugins' = plugins /\ conns' = cs /\ update' = Idle
      /\ DOMAIN sinks' \subseteq Names /\ \A n \in DOMAIN sinks' : sinks'[n] \in DOMAIN plugins'
  BY AfterStopIs
<1>2. /\ plugins \in Seq(PluginSet) /\ conns \in Seq(ConnSet)
      /\ DOMAIN conns = 1..Len(conns) /\ DOMAIN cs = 1..Len(conns) /\ Len(conns) \in Nat
      /\ DOMAIN plugins = 1..Len(plugins) /\ p \in DOMAIN plugins
  BY Conns, SeqFacts DEF Typed
<1>3. /\ plugins' \in Seq(PluginSet) /\ Len(plugins') = Len(plugins)
      /\ \A q \in DOMAIN plugins : /\ plugins'[q].kind = plugins[q].kind
                                   /\ plugins'[q].conn = plugins[q].conn
                                   /\ q # p => plugins'[q] = plugins[q]
      /\ DOMAIN plugins' = DOMAIN plugins
  <2>1. plugins' \in Seq(PluginSet) /\ Len(plugins') = Len(plugins)
    BY <1>1, <1>2 DEF Begins
  <2>2. DOMAIN plugins' = 1..Len(plugins')
    BY <2>1, SeqFacts
  <2> QED
    BY <1>1, <1>2, <2>1, <2>2 DEF Begins
<1>4. /\ conns' \in Seq(ConnSet) /\ \A c \in DOMAIN conns : conns'[c] = cs[c]
      /\ plugins[p].conn \in 0..Len(conns)
  BY <1>1, <1>2, Conns DEF Begins
<1>5. \A c \in DOMAIN conns :
         /\ conns'[c].url = conns[c].url /\ conns'[c].work = conns[c].work
         /\ conns'[c].queue = conns[c].queue
         /\ conns'[c].live = IF c = g THEN "gone" ELSE conns[c].live
  BY <1>4
<1>6. plugins[p].conn = 0 \/ conns'[plugins[p].conn].live = "gone"
  BY <1>2, <1>4
<1>7. \/ Len(conns') = Len(conns) /\ update' = Idle
      \/ /\ Len(conns') = Len(conns) + 1 /\ IsUpdate(do, "connect", cfg, p, 0) /\ do = "update"
         /\ sinks' = sinks
         /\ conns'[Len(conns')].url = cfg.url /\ conns'[Len(conns')].live = "new"
         /\ conns'[Len(conns')].queue = <<Op(TheUpdate, "connect", 0, None)>>
         /\ conns'[Len(conns')].work = NoTables /\ plugins'[p].kind = "sqlite"
         /\ cfg.url \notin BadUrls
  <2>1. CASE plugins' = plugins /\ conns' = cs /\ update' = Idle
    BY <2>1
  <2>2. CASE ~(plugins' = plugins /\ conns' = cs /\ update' = Idle)
    <3>1. Begins(do, cfg, p, plugins, cs)
      BY <1>1, <2>2
    <3>2. do = "update"
      BY <2>2 DEF AfterStop
    <3>3. sinks' = sinks
      BY <3>1, <3>2 DEF Begins, Registered
    <3> QED
      BY <1>2, <1>3, <3>1, <3>2, <3>3 DEF Begins
  <2> QED
    BY <2>1, <2>2
<1>8. Registers(p)
  <2>1. sinks' = sinks \/ (sinks' = Without(sinks, cfg.name))
    <3>1. CASE do = "update"
      BY <3>1 DEF AfterStop, StartPlugin, Registered
    <3>2. CASE do = "remove"
      BY <3>2 DEF AfterStop
    <3> QED
      BY <3>1, <3>2
  <2>2. /\ \A m \in DOMAIN sinks' : m \in DOMAIN sinks /\ sinks'[m] = sinks[m]
        /\ \A m \in DOMAIN sinks : sinks[m] # p => m \in DOMAIN sinks' /\ sinks'[m] = sinks[m]
    BY <2>1 DEF Without
  <2>3. plugins'[p].path \in {plugins[p].path, cfg.url}
    BY <1>1 DEF Begins
  <2>4. update'.at = "connect" => update'.cfg = cfg /\ conns'[Len(conns')].url = cfg.url
    BY <1>7 DEF IsUpdate, Idle
  <2> QED
    BY <1>2, <2>2, <2>3, <2>4 DEF Registers
<1> QED
  BY <1>1, <1>2, <1>3, <1>4, <1>5, <1>6, <1>7, <1>8 DEF Renews

LEMMA UpdateOps ==
    /\ Op(TheUpdate, "shut", 0, None) \in Ops
    /\ Op(TheUpdate, "close", 0, None) \in Ops
    /\ \A n \in 1..4 : Op(TheUpdate, "create", n, None) \in Ops
<1>1. ASSUME NEW do \in {"shut", "close", "create"}, NEW n \in 0..4
      PROVE  Op(TheUpdate, do, n, None) \in Ops
  <2>1. PICK op : op = Op(TheUpdate, do, n, None)
    OBVIOUS
  <2>2. op \in Ops
    BY <2>1 DEF Op, Ops
  <2> QED
    BY <2>1, <2>2
<1> QED
  BY <1>1

LEMMA StopSteps ==
    ASSUME Typed, Sites, StopSink
    PROVE  \E p \in DOMAIN plugins : Shuts(p) \/ Renews(p, 0)
<1>1. PICK cfg \in life.configs, do \in {"update", "remove"} :
         /\ cfg.name \in DOMAIN sinks
         /\ LET p == sinks[cfg.name]
                c == plugins[p].conn
            IN /\ IF Running(c)
                  THEN /\ conns' = Put(conns, c, Op(TheUpdate, "shut", 0, None))
                       /\ update' = [do |-> do, at |-> "shut", cfg |-> cfg, plugin |-> p,
                                     table |-> 0]
                       /\ UNCHANGED <<sinks, backups, plugins>>
                  ELSE AfterStop(do, cfg, conns)
               /\ Disturb(p)
  BY DEF StopSink
<1>2. update = Idle /\ UNCHANGED <<probe, saved, files, answers, life, restarts>>
  BY DEF StopSink
<1>3. PICK p \in DOMAIN plugins : p = sinks[cfg.name]
  BY <1>1 DEF Typed
<1>4. Downs(p)
  BY <1>1, <1>3, DisturbIs
<1>5. plugins[p].conn \in 0..Len(conns) /\ DOMAIN conns = 1..Len(conns) /\ Len(conns) \in Nat
      /\ conns \in Seq(ConnSet)
  BY Conns DEF Typed
<1>6. CASE Running(plugins[p].conn)
  <2>1. plugins[p].conn \in DOMAIN conns /\ conns[plugins[p].conn].live # "gone"
    BY <1>5, <1>6 DEF Running
  <2>2. conns[plugins[p].conn].live \in {"new", "open", "shut", "gone"}
    BY <2>1, Conns, ConnFields
  <2>3. conns[plugins[p].conn].live = "open"
    BY <1>2, <2>1, <2>2 DEF Sites, Idle
  <2>4. PICK op \in Ops : op = Op(TheUpdate, "shut", 0, None)
    BY UpdateOps
  <2>5. conns' = Put(conns, plugins[p].conn, op)
    BY <1>1, <1>3, <1>6, <2>4
  <2>6. Puts(plugins[p].conn, op)
    BY <2>1, <2>5, PutIs
  <2>7. op.to = TheUpdate /\ op.do = "shut"
    BY <2>4 DEF Op
  <2>8. IsUpdate(do, "shut", cfg, p, 0) /\ UNCHANGED <<sinks, backups, plugins>>
    BY <1>1, <1>3, <1>6 DEF IsUpdate
  <2>9. Shuts(p)
    BY <1>1, <1>2, <1>3, <1>4, <2>1, <2>3, <2>6, <2>7, <2>8 DEF Shuts
  <2> QED
    BY <2>9
<1>7. CASE ~Running(plugins[p].conn)
  <2>1. AfterStop(do, cfg, conns)
    BY <1>1, <1>3, <1>7
  <2>2. plugins[p].conn = 0 \/ conns[plugins[p].conn].live = "gone"
    BY <1>7 DEF Running
  <2>3. PICK g \in Nat : g = 0
    OBVIOUS
  <2>4. \A c \in DOMAIN conns : conns[c].live = IF c = g THEN "gone" ELSE conns[c].live
    BY <1>5, <2>3
  <2>5. Renews(p, g)
    BY <1>1, <1>2, <1>3, <1>4, <1>5, <2>1, <2>2, <2>3, <2>4, RenewsAgain
  <2> QED
    BY <2>3, <2>5
<1> QED
  BY <1>6, <1>7

(* Stopped, Connected, Created and CreatedNext.                              *)
LEMMA Answer ==
    ASSUME Typed, Pending, NEW do, UpdateResumes(do)
    PROVE  /\ Takes(TheUpdate) /\ answers[1].do = do /\ update.at = do
           /\ UNCHANGED <<probe, saved, files, life, restarts>>
<1>1. answers # <<>> /\ Head(answers).to = TheUpdate /\ Head(answers).do = do
      /\ answers' = Tail(answers) /\ UNCHANGED <<probe, saved, files, life, restarts>>
  BY DEF UpdateResumes, Resumes
<1>2. Takes(TheUpdate) /\ Head(answers) = answers[1] /\ 1 \in DOMAIN answers
  BY <1>1, TakeIs
<1>3. Suits(answers[1])
  BY <1>2 DEF Pending
<1> QED
  BY <1>1, <1>2, <1>3 DEF Suits

LEMMA StoppedSteps ==
    ASSUME Typed, Sites, Pending, Stopped
    PROVE  Renews(update.plugin, Site)
<1>1. /\ Takes(TheUpdate) /\ update.at = "shut"
      /\ UNCHANGED <<probe, saved, files, life, restarts>>
  BY Answer DEF Stopped
<1>2. /\ AfterStop(update.do, update.cfg,
                   [conns EXCEPT ![plugins[update.plugin].conn].live = "gone"])
      /\ sends' = sends
  BY DEF Stopped
<1>3. /\ update.plugin \in DOMAIN plugins /\ update.cfg \in life.configs
      /\ update.do \in {"update", "remove"}
      /\ update.cfg.name \in DOMAIN sinks /\ sinks[update.cfg.name] = update.plugin
  BY <1>1 DEF Typed
<1>4. Site = plugins[update.plugin].conn /\ Site # 0
  BY <1>1 DEF Site, Sites
<1>5. conns \in Seq(ConnSet) /\ DOMAIN conns = 1..Len(conns) /\ Len(conns) \in Nat
      /\ Site \in 0..Len(conns) /\ \A c \in DOMAIN conns : conns[c] \in ConnSet
  BY <1>3, <1>4, Conns DEF Typed
<1>6. PICK g \in DOMAIN conns : g = Site
  BY <1>4, <1>5
<1>7. PICK k : k = [conns[g] EXCEPT !.live = "gone"]
  OBVIOUS
<1>8. /\ k \in ConnSet /\ k.live = "gone" /\ k.url = conns[g].url /\ k.work = conns[g].work
      /\ k.queue = conns[g].queue
  BY <1>5, <1>7 DEF ConnSet
<1>9. PICK cs : cs = [conns EXCEPT ![g] = k]
  OBVIOUS
<1>10. cs \in Seq(ConnSet) /\ Len(cs) = Len(conns)
       /\ \A c \in 1..Len(conns) : cs[c] = IF c = g THEN k ELSE conns[c]
  BY <1>5, <1>8, <1>9, ExceptSeq
<1>11. \A c \in DOMAIN conns : /\ cs[c].url = conns[c].url /\ cs[c].work = conns[c].work
                               /\ cs[c].queue = conns[c].queue
                               /\ cs[c].live = IF c = g THEN "gone" ELSE conns[c].live
  BY <1>5, <1>8, <1>10
<1>12. AfterStop(update.do, update.cfg, cs)
  BY <1>2, <1>4, <1>6, <1>7, <1>9
<1>13. PICK do \in {"update", "remove"}, cfg \in life.configs, p \in DOMAIN plugins :
         do = update.do /\ cfg = update.cfg /\ p = update.plugin
  BY <1>3
<1>14. g \in Nat /\ cs[plugins[p].conn].live = "gone"
  BY <1>4, <1>5, <1>6, <1>11, <1>13
<1>15. Renews(p, g)
  BY <1>1, <1>2, <1>3, <1>6, <1>10, <1>11, <1>12, <1>13, <1>14, RenewsAgain
<1> QED
  BY <1>6, <1>13, <1>15

LEMMA AskSteps ==
    ASSUME Typed, Sites, Pending, Connected \/ Created \/ CreatedNext
    PROVE  Asks \/ Finishes
<1>1. /\ Takes(TheUpdate) /\ answers[1].do = update.at
      /\ update.at \in {"connect", "create", "close"}
      /\ Connected => update.at = "connect"
      /\ Created => update.at = "create"
      /\ CreatedNext => update.at = "close"
      /\ UNCHANGED <<probe, saved, files, life, restarts>>
  BY Answer DEF Connected, Created, CreatedNext
<1>2. /\ update.plugin \in DOMAIN plugins
      /\ update.at # "connect" => update.table \in 1..4
      /\ DOMAIN plugins = 1..Len(plugins) /\ plugins \in Seq(PluginSet)
  BY <1>1, Conns DEF Typed
<1>3. /\ Site # 0 /\ DOMAIN conns = 1..Len(conns) /\ Len(conns) \in Nat
      /\ Site \in DOMAIN conns
  <2>1. Site # 0
    BY <1>1 DEF Sites, Site
  <2>2. DOMAIN conns = 1..Len(conns) /\ Len(conns) \in Nat
        /\ plugins[update.plugin].conn \in 0..Len(conns)
    BY <1>2, Conns
  <2> QED
    BY <2>1, <2>2 DEF Site
<1>4. ASSUME NEW n \in 1..4, CreateTable(Site, n)
      PROVE  \E op \in Ops : /\ op.to = TheUpdate /\ op.do = "create" /\ op.table = n
                             /\ Puts(Site, op)
  <2>1. PICK op \in Ops : op = Op(TheUpdate, "create", n, None)
    BY UpdateOps
  <2>2. op.to = TheUpdate /\ op.do = "create" /\ op.table = n
    BY <2>1 DEF Op
  <2>3. conns' = Put(conns, Site, op)
    BY <1>4, <2>1 DEF CreateTable, Table
  <2>4. Puts(Site, op)
    BY <1>3, <2>3, PutIs
  <2> QED
    BY <2>2, <2>4
<1>5. ASSUME NEW n, NEW c, CreateTable(c, n)
      PROVE  /\ IsUpdate(update.do, "create", update.cfg, update.plugin, n)
             /\ update'.at = "create" /\ update'.table = n /\ update'.plugin = update.plugin
  <2>1. update = [do |-> update.do, at |-> update.at, cfg |-> update.cfg,
                  plugin |-> update.plugin, table |-> update.table]
    BY DEF Typed, IsUpdate, Idle
  <2>2. PICK k : k = update /\ update' = [k EXCEPT !.at = "create", !.table = n]
    BY <1>5 DEF CreateTable
  <2> QED
    BY <2>1, <2>2 DEF IsUpdate
<1>6. CASE Connected
  <2>1. PICK n \in 1..4 : n = 1
    OBVIOUS
  <2>2. /\ plugins' = [plugins EXCEPT ![update.plugin].conn = Len(conns)]
        /\ CreateTable(Site, n) /\ UNCHANGED <<sinks, backups, sends>>
    BY <1>1, <1>6, <2>1 DEF Connected, Site
  <2>3. PICK op \in Ops : /\ op.to = TheUpdate /\ op.do = "create" /\ op.table = n
                          /\ Puts(Site, op)
    BY <1>4, <2>2
  <2>4. /\ IsUpdate(update.do, "create", update.cfg, update.plugin, n)
        /\ update'.at = "create" /\ update'.table = n /\ update'.plugin = update.plugin
    BY <1>5, <2>2
  <2>5. Site' = Site
    <3>1. plugins[update.plugin] \in PluginSet
      BY <1>2, Conns
    <3>2. plugins'[update.plugin].conn = Len(conns)
      BY <1>2, <2>2, <3>1 DEF PluginSet
    <3> QED
      BY <1>1, <1>6, <2>4, <3>2 DEF Site
  <2>6. Asks
    BY <1>1, <1>3, <1>6, <2>1, <2>2, <2>3, <2>4, <2>5 DEF Asks
  <2> QED
    BY <2>6
<1>7. CASE Created
  <2>1. /\ conns' = Put(conns, Site, Op(TheUpdate, "close", 0, None))
        /\ update' = [update EXCEPT !.at = "close"]
        /\ UNCHANGED <<sinks, backups, plugins, sends>>
    BY <1>1, <1>7 DEF Created, Site
  <2>2. PICK op \in Ops : op = Op(TheUpdate, "close", 0, None)
    BY UpdateOps
  <2>3. op.to = TheUpdate /\ op.do = "close"
    BY <2>2 DEF Op
  <2>4. Puts(Site, op)
    BY <1>3, <2>1, <2>2, PutIs
  <2>5. /\ IsUpdate(update.do, "close", update.cfg, update.plugin, update.table)
        /\ update'.at = "close" /\ update'.table = update.table /\ update'.plugin = update.plugin
    <3>1. update = [do |-> update.do, at |-> update.at, cfg |-> update.cfg,
                    plugin |-> update.plugin, table |-> update.table]
      BY DEF Typed, IsUpdate, Idle
    <3>2. PICK k : k = update /\ update' = [k EXCEPT !.at = "close"]
      BY <2>1
    <3> QED
      BY <3>1, <3>2 DEF IsUpdate
  <2>6. Site' = Site
    BY <1>1, <1>7, <2>1, <2>5 DEF Site
  <2>7. Asks
    BY <1>1, <1>3, <1>7, <2>1, <2>3, <2>4, <2>5, <2>6 DEF Asks
  <2> QED
    BY <2>7
<1>8. CASE CreatedNext /\ update.table < 4
  <2>1. PICK n \in 1..4 : n = update.table + 1
    BY <1>1, <1>2, <1>8
  <2>2. CreateTable(Site, n) /\ UNCHANGED <<sinks, backups, plugins, sends>>
    BY <1>1, <1>8, <2>1 DEF CreatedNext, Site
  <2>3. PICK op \in Ops : /\ op.to = TheUpdate /\ op.do = "create" /\ op.table = n
                          /\ Puts(Site, op)
    BY <1>4, <2>2
  <2>4. /\ IsUpdate(update.do, "create", update.cfg, update.plugin, n)
        /\ update'.at = "create" /\ update'.table = n /\ update'.plugin = update.plugin
    BY <1>5, <2>2
  <2>5. Site' = Site
    BY <1>1, <1>8, <2>2, <2>4 DEF Site
  <2>6. Asks
    BY <1>1, <1>3, <1>8, <2>1, <2>2, <2>3, <2>4, <2>5 DEF Asks
  <2> QED
    BY <2>6
<1>9. CASE CreatedNext /\ ~(update.table < 4)
  <2>1. Finishes
    BY <1>1, <1>2, <1>9 DEF CreatedNext, Finishes
  <2> QED
    BY <2>1
<1> QED
  BY <1>6, <1>7, <1>8, <1>9

(* The remaining steps: new tasks, another probe, and a restart.             *)
Fresh ==
    /\ DOMAIN sends \subseteq DOMAIN sends' /\ DOMAIN sends' \subseteq Tasks
    /\ \A t \in DOMAIN sends : sends'[t] = sends[t]
    /\ \A t \in DOMAIN sends' \ DOMAIN sends :
         /\ sends'[t] \in TaskSet /\ sends'[t].at = "new" /\ sends'[t].plugin \in DOMAIN plugins
         /\ t[2] \in DOMAIN sinks /\ sends'[t].plugin = sinks[t[2]]
         /\ ~sends'[t].disturbed => Up(sends'[t].plugin)
    /\ UNCHANGED <<sinkVars, conns, saved, files, answers>>

Quiet ==
    /\ probe' \in life.probes
    /\ UNCHANGED <<sinks, backups, plugins, conns, saved, files, sends, answers, update, life,
                   restarts>>

Again ==
    /\ DOMAIN sinks' = {} /\ plugins' = <<>> /\ conns' = <<>> /\ answers' = <<>> /\ update' = Idle
    /\ probe' \in life.probes /\ DOMAIN sends' = DOMAIN sends
    /\ \A t \in DOMAIN sends :
         /\ sends'[t] \in TaskSet /\ sends'[t].at \in Ended /\ sends'[t].probe = sends[t].probe
         /\ \/ sends'[t] = sends[t]
            \/ /\ sends'[t].why = "restart" /\ sends'[t].disturbed
               /\ sends'[t].at = "lost" /\ sends[t].at \notin Ended
    /\ restarts < life.restarts /\ restarts' = restarts + 1
    /\ UNCHANGED <<saved, files, life>>

LEMMA FreshIs ==
    ASSUME Typed, SendData
    PROVE  Fresh
<1>1. PICK r \in life.results :
        sends' = [t \in DOMAIN sends \cup {<<r, n>> : n \in DOMAIN sinks} |->
                     IF t \in DOMAIN sends THEN sends[t]
                     ELSE [plugin |-> sinks[t[2]], probe |-> probe, at |-> "new",
                           conn |-> 0, table |-> 0, parent |-> 0, id |-> 0,
                           why |-> "none", disturbed |-> ~Up(sinks[t[2]])]]
  BY DEF SendData
<1>2. UNCHANGED <<sinkVars, conns, saved, files, answers>>
  BY DEF SendData
<1>3. /\ life \in Lives /\ probe \in life.probes /\ DOMAIN sinks \subseteq Names
      /\ \A n \in DOMAIN sinks : sinks[n] \in DOMAIN plugins
      /\ DOMAIN sends \subseteq Tasks
  BY DEF Typed
<1>4. r \in Results /\ probe \in Probes
  BY <1>3, SinksAssumption DEF Probes
<1>5. DOMAIN sends' = DOMAIN sends \cup {<<r, n>> : n \in DOMAIN sinks}
  BY <1>1
<1>6. DOMAIN sends' \subseteq Tasks
  BY <1>3, <1>4, <1>5 DEF Tasks
<1>7. \A t \in DOMAIN sends : sends'[t] = sends[t]
  BY <1>1
<1>8. ASSUME NEW t \in DOMAIN sends' \ DOMAIN sends
      PROVE  /\ sends'[t] \in TaskSet /\ sends'[t].at = "new" /\ sends'[t].plugin \in DOMAIN plugins
             /\ t[2] \in DOMAIN sinks /\ sends'[t].plugin = sinks[t[2]]
             /\ ~sends'[t].disturbed => Up(sends'[t].plugin)
  <2>1. PICK n \in DOMAIN sinks : t = <<r, n>>
    BY <1>5, <1>8
  <2>2. t[2] \in DOMAIN sinks
    BY <2>1
  <2>3. PICK d \in BOOLEAN : d = ~Up(sinks[t[2]])
    OBVIOUS
  <2>4. PICK why \in Whys, at \in {"new"} : why = "none" /\ at = "new"
    BY DEF Whys
  <2>5. sends'[t] = [plugin |-> sinks[t[2]], probe |-> probe, at |-> at,
                     conn |-> 0, table |-> 0, parent |-> 0, id |-> 0,
                     why |-> why, disturbed |-> d]
    BY <1>1, <1>5, <2>3, <2>4
  <2>6. sinks[t[2]] \in DOMAIN plugins /\ sinks[t[2]] \in Nat
    BY <1>3, <2>2, Conns
  <2>7. sends'[t] \in TaskSet
    BY <1>4, <2>5, <2>6 DEF TaskSet
  <2>8. sends'[t].at = "new" /\ sends'[t].plugin = sinks[t[2]] /\ sends'[t].disturbed = d
    BY <2>4, <2>5
  <2> QED
    BY <2>2, <2>3, <2>6, <2>7, <2>8
<1> QED
  BY <1>2, <1>5, <1>6, <1>7, <1>8 DEF Fresh

LEMMA AgainIs ==
    ASSUME Typed, Restart
    PROVE  Again
<1>1. sends' = [t \in DOMAIN sends |->
                   IF sends[t].at \in Ended THEN sends[t]
                   ELSE [sends[t] EXCEPT !.at = "lost", !.why = "restart", !.disturbed = TRUE]]
  BY DEF Restart
<1>2. ASSUME NEW t \in DOMAIN sends
      PROVE  /\ sends'[t] \in TaskSet /\ sends'[t].at \in Ended /\ sends'[t].probe = sends[t].probe
             /\ \/ sends'[t] = sends[t]
                \/ /\ sends'[t].why = "restart" /\ sends'[t].disturbed
                   /\ sends'[t].at = "lost" /\ sends[t].at \notin Ended
  <2>1. sends[t] \in TaskSet
    BY DEF Typed
  <2>2. CASE sends[t].at \in Ended
    BY <1>1, <2>1, <2>2
  <2>3. CASE sends[t].at \notin Ended
    <3>0. PICK k : k = sends[t]
      OBVIOUS
    <3>1. PICK at \in Ended, why \in Whys : at = "lost" /\ why = "restart"
      BY DEF Ended, Whys
    <3>2. sends'[t] = [k EXCEPT !.at = at, !.why = why, !.disturbed = TRUE]
      BY <1>1, <2>3, <3>0, <3>1
    <3>3. /\ sends'[t] \in TaskSet /\ sends'[t].at = at /\ sends'[t].probe = k.probe
          /\ sends'[t].why = why /\ sends'[t].disturbed = TRUE
      BY <2>1, <3>0, <3>2 DEF TaskSet
    <3> QED
      BY <2>3, <3>0, <3>1, <3>3
  <2> QED
    BY <2>2, <2>3
<1>3. /\ sinks' = [x \in {} |-> 0] /\ plugins' = <<>> /\ conns' = <<>> /\ answers' = <<>>
      /\ update' = Idle /\ probe' \in life.probes /\ UNCHANGED <<saved, files, life>>
      /\ restarts < life.restarts /\ restarts' = restarts + 1
  BY DEF Restart
<1>4. DOMAIN sinks' = {} /\ DOMAIN sends' = DOMAIN sends
  BY <1>1, <1>3
<1> QED
  BY <1>2, <1>3, <1>4 DEF Again

(* Every step is one of these.                                               *)
LEMMA StepIs ==
    ASSUME Typed, Sites, Pending, [Next]_vars
    PROVE  \/ \E t \in DOMAIN sends : GoesOn(t) \/ Ends(t)
           \/ \E c \in DOMAIN conns, id \in Nat, how \in {"ok", "missing", "syntax", "closed"} :
                 Executes(c, id, how)
           \/ \E p \in DOMAIN plugins : Shuts(p)
           \/ \E p, g : Renews(p, g)
           \/ Asks \/ Finishes \/ Fresh \/ Quiet \/ Again
<1>1. CASE ThreadStep
  BY <1>1, ThreadSteps
<1>2. CASE Coroutine
  <2>1. CASE Sending
    BY <2>1, SendSteps
  <2>2. CASE Stopped
    BY <2>2, StoppedSteps
  <2>3. CASE Connected \/ Created \/ CreatedNext
    BY <2>3, AskSteps
  <2> QED
    BY <1>2, <2>1, <2>2, <2>3 DEF Coroutine, Sending
<1>3. CASE SendData
  BY <1>3, FreshIs
<1>4. CASE AddSink
  BY <1>4, AddSteps
<1>5. CASE StopSink
  BY <1>5, StopSteps
<1>6. CASE SetProbe
  BY <1>6 DEF SetProbe, Quiet
<1>7. CASE Restart
  BY <1>7, AgainIs
<1>8. CASE UNCHANGED vars
  BY <1>8 DEF vars, sinkVars, connVars, Quiet, Typed
<1> QED
  BY <1>1, <1>2, <1>3, <1>4, <1>5, <1>6, <1>7, <1>8 DEF Next

-------------------------------------------------------------------------------
(* What the steps do to queues and answers, in terms of their elements.      *)
Shifted(x) ==
    /\ 1 \in DOMAIN answers /\ answers[1].to = x
    /\ DOMAIN answers' \subseteq Nat \ {0} /\ DOMAIN answers \subseteq Nat \ {0}
    /\ \A i \in DOMAIN answers' :
         /\ i + 1 \in DOMAIN answers /\ answers'[i] = answers[i + 1] /\ answers'[i].to # x
    /\ \A j \in DOMAIN answers :
         answers[j].to # x => /\ j - 1 \in DOMAIN answers' /\ answers'[j - 1] = answers[j]
                              /\ j # 1
    /\ \A c \in DOMAIN conns : \A i \in DOMAIN Queue(c) : Queue(c)[i].to # x

LEMMA TakesFacts ==
    ASSUME Typed, Pending, NEW x, Takes(x)
    PROVE  Shifted(x)
<1>1. /\ answers' \in Seq(AnswerSet) /\ Len(answers) \in Nat \ {0}
      /\ Len(answers') = Len(answers) - 1
      /\ \A i \in 1..Len(answers) - 1 : answers'[i] = answers[i + 1]
      /\ answers[1].to = x
  BY DEF Takes
<1>2. DOMAIN answers' = 1..Len(answers) - 1 /\ DOMAIN answers = 1..Len(answers)
  BY <1>1, SeqFacts DEF Typed
<1>3. 1 \in DOMAIN answers
  BY <1>1, <1>2
<1>4. \A j \in DOMAIN answers : answers[j].to = x => j = 1
  BY <1>1, <1>3 DEF Pending
<1>5. \A c \in DOMAIN conns : \A i \in DOMAIN Queue(c) : Queue(c)[i].to # x
  BY <1>1, <1>3 DEF Pending
<1>6. ASSUME NEW i \in DOMAIN answers'
      PROVE  i + 1 \in DOMAIN answers /\ answers'[i] = answers[i + 1] /\ answers'[i].to # x
  <2>1. i + 1 \in DOMAIN answers /\ answers'[i] = answers[i + 1] /\ i + 1 # 1
    BY <1>1, <1>2
  <2> QED
    BY <1>4, <2>1
<1>7. ASSUME NEW j \in DOMAIN answers, answers[j].to # x
      PROVE  j - 1 \in DOMAIN answers' /\ answers'[j - 1] = answers[j] /\ j # 1
  <2>1. j # 1
    BY <1>1, <1>7
  <2>2. j - 1 \in 1..Len(answers) - 1 /\ j - 1 + 1 = j
    BY <1>1, <1>2, <2>1
  <2> QED
    BY <1>1, <1>2, <2>1, <2>2
<1>8. DOMAIN answers' \subseteq Nat \ {0} /\ DOMAIN answers \subseteq Nat \ {0}
  BY <1>1, <1>2
<1> QED
  BY <1>1, <1>3, <1>5, <1>6, <1>7, <1>8 DEF Shifted

PutAt(c, op) ==
    /\ DOMAIN conns' = DOMAIN conns /\ Len(conns') = Len(conns)
    /\ \A d \in DOMAIN conns :
         /\ conns'[d].url = conns[d].url /\ conns'[d].live = conns[d].live
         /\ conns'[d].work = conns[d].work
         /\ \A i \in DOMAIN Queue(d) : /\ i \in DOMAIN conns'[d].queue
                                       /\ conns'[d].queue[i] = Queue(d)[i]
         /\ \A i \in DOMAIN conns'[d].queue :
              \/ i \in DOMAIN Queue(d) /\ conns'[d].queue[i] = Queue(d)[i]
              \/ /\ d = c /\ i = Len(Queue(d)) + 1 /\ conns'[d].queue[i] = op
                 /\ \A j \in DOMAIN Queue(d) : j < i
    /\ Len(Queue(c)) + 1 \in DOMAIN conns'[c].queue
    /\ conns'[c].queue[Len(Queue(c)) + 1] = op

LEMMA PutsFacts ==
    ASSUME Typed, NEW c \in DOMAIN conns, NEW op, Puts(c, op)
    PROVE  PutAt(c, op)
<1>1. /\ conns' \in Seq(ConnSet) /\ Len(conns') = Len(conns)
      /\ \A d \in DOMAIN conns : /\ conns'[d].url = conns[d].url /\ conns'[d].live = conns[d].live
                                 /\ conns'[d].work = conns[d].work
      /\ \A d \in DOMAIN conns \ {c} : conns'[d].queue = Queue(d)
      /\ Len(conns'[c].queue) = Len(Queue(c)) + 1
      /\ \A i \in 1..Len(Queue(c)) : conns'[c].queue[i] = Queue(c)[i]
      /\ conns'[c].queue[Len(Queue(c)) + 1] = op
  BY DEF Puts
<1>2. /\ DOMAIN conns' = 1..Len(conns') /\ DOMAIN conns = 1..Len(conns)
      /\ \A d \in DOMAIN conns' : conns'[d] \in ConnSet
  BY <1>1, SeqFacts DEF Typed
<1>3. DOMAIN conns' = DOMAIN conns
  BY <1>1, <1>2
<1>4. /\ conns'[c].queue \in Seq(Ops) /\ Queue(c) \in Seq(Ops)
      /\ DOMAIN Queue(c) = 1..Len(Queue(c)) /\ Len(Queue(c)) \in Nat
  BY <1>2, <1>3, ConnFields, Conns
<1>5. DOMAIN conns'[c].queue = 1..Len(Queue(c)) + 1
  BY <1>1, <1>4, SeqFacts
<1>6. ASSUME NEW d \in DOMAIN conns
      PROVE  /\ \A i \in DOMAIN Queue(d) : /\ i \in DOMAIN conns'[d].queue
                                           /\ conns'[d].queue[i] = Queue(d)[i]
             /\ \A i \in DOMAIN conns'[d].queue :
                  \/ i \in DOMAIN Queue(d) /\ conns'[d].queue[i] = Queue(d)[i]
                  \/ /\ d = c /\ i = Len(Queue(d)) + 1 /\ conns'[d].queue[i] = op
                     /\ \A j \in DOMAIN Queue(d) : j < i
  <2>1. CASE d = c
    <3>1. \A i \in DOMAIN Queue(c) : i \in DOMAIN conns'[c].queue /\ conns'[c].queue[i] = Queue(c)[i]
      BY <1>1, <1>4, <1>5
    <3>2. ASSUME NEW i \in DOMAIN conns'[c].queue
          PROVE  \/ i \in DOMAIN Queue(c) /\ conns'[c].queue[i] = Queue(c)[i]
                 \/ /\ i = Len(Queue(c)) + 1 /\ conns'[c].queue[i] = op
                    /\ \A j \in DOMAIN Queue(c) : j < i
      BY <1>1, <1>4, <1>5
    <3> QED
      BY <2>1, <3>1, <3>2
  <2>2. CASE d # c
    BY <1>1, <2>2
  <2> QED
    BY <2>1, <2>2
<1>7. Len(Queue(c)) + 1 \in DOMAIN conns'[c].queue
  BY <1>4, <1>5
<1> QED
  BY <1>1, <1>3, <1>6, <1>7 DEF PutAt

(* The first statement of queue c is answered.                               *)
Moved(c, x, do, id, how) ==
    /\ DOMAIN conns' = DOMAIN conns /\ Len(conns') = Len(conns) /\ 1 \in DOMAIN Queue(c)
    /\ Queue(c)[1].to = x /\ Queue(c)[1].do = do
    /\ \A d \in DOMAIN conns \ {c} : conns'[d] = conns[d]
    /\ conns'[c].url = conns[c].url
    /\ DOMAIN Queue(c) \subseteq Nat \ {0} /\ DOMAIN conns'[c].queue \subseteq Nat \ {0}
    /\ \A i \in DOMAIN conns'[c].queue :
         /\ i + 1 \in DOMAIN Queue(c) /\ conns'[c].queue[i] = Queue(c)[i + 1]
         /\ conns'[c].queue[i].to # x
    /\ \A j \in DOMAIN Queue(c) :
         Queue(c)[j].to # x => /\ j - 1 \in DOMAIN conns'[c].queue /\ j # 1
                               /\ conns'[c].queue[j - 1] = Queue(c)[j]
    /\ \A d \in DOMAIN conns \ {c} : \A i \in DOMAIN Queue(d) : Queue(d)[i].to # x
    /\ DOMAIN answers \subseteq Nat
    /\ \A i \in DOMAIN answers : /\ i \in DOMAIN answers' /\ answers'[i] = answers[i]
                                 /\ answers[i].to # x
    /\ \A i \in DOMAIN answers' :
         \/ i \in DOMAIN answers /\ answers'[i] = answers[i]
         \/ /\ i = Len(answers) + 1 /\ \A j \in DOMAIN answers : j < i
            /\ answers'[i] = [to |-> x, do |-> do, id |-> id, how |-> how]
    /\ Len(answers) + 1 \in DOMAIN answers'
    /\ answers'[Len(answers) + 1] = [to |-> x, do |-> do, id |-> id, how |-> how]

LEMMA FitsOnce ==
    ASSUME Pending, NEW c \in DOMAIN conns, NEW d \in DOMAIN conns, NEW i \in DOMAIN Queue(c),
           NEW j \in DOMAIN Queue(d), Queue(c)[i].to = Queue(d)[j].to
    PROVE  c = d /\ i = j
<1>1. Fits(c, Queue(c)[i]) /\ Fits(d, Queue(d)[j])
  BY DEF Pending
<1>2. c = d
  BY <1>1 DEF Fits
<1> QED
  BY <1>2 DEF Pending

LEMMA MovedIs ==
    ASSUME Typed, Pending, NEW c \in DOMAIN conns, NEW id, NEW how, Executes(c, id, how)
    PROVE  Moved(c, First(c).to, First(c).do, id, how)
<1>1. conns[c].queue # <<>> /\ Answers(c, id, how)
  BY DEF Executes
<1>2. PICK live, work : Steps(c, live, work)
  BY DEF Executes, Opening, Creating, Inserting, Keeping, Committing, Shutting, Refusing
<1>3. /\ DOMAIN conns = 1..Len(conns) /\ Queue(c) \in Seq(Ops) /\ Len(Queue(c)) \in Nat
      /\ DOMAIN Queue(c) = 1..Len(Queue(c)) /\ DOMAIN answers = 1..Len(answers)
      /\ Len(answers) \in Nat
  BY Conns
<1>4. Len(Queue(c)) > 0
  BY <1>1, <1>3, SeqFacts DEF Queue
<1>5. 1 \in DOMAIN Queue(c)
  BY <1>3, <1>4
<1>6. /\ DOMAIN conns' = DOMAIN conns /\ Len(conns') = Len(conns)
      /\ (\A d \in DOMAIN conns \ {c} : conns'[d] = conns[d]) /\ conns'[c].url = conns[c].url
      /\ Len(conns'[c].queue) = Len(Queue(c)) - 1 /\ conns'[c] \in ConnSet
      /\ \A i \in 1..Len(Queue(c)) - 1 : conns'[c].queue[i] = Queue(c)[i + 1]
  <2>1. DOMAIN conns' = 1..Len(conns') /\ \A d \in DOMAIN conns' : conns'[d] \in ConnSet
    BY <1>2, SeqFacts DEF Steps
  <2> QED
    BY <1>2, <1>3, <2>1 DEF Steps
<1>7. DOMAIN conns'[c].queue = 1..Len(Queue(c)) - 1
  BY <1>6, ConnFields, SeqFacts
<1>8. /\ \A i \in DOMAIN Queue(c) : Queue(c)[i].to = First(c).to => i = 1
      /\ \A d \in DOMAIN conns \ {c} : \A i \in DOMAIN Queue(d) : Queue(d)[i].to # First(c).to
  BY <1>5, FitsOnce DEF First
<1>9. ASSUME NEW i \in DOMAIN conns'[c].queue
      PROVE  /\ i + 1 \in DOMAIN Queue(c) /\ conns'[c].queue[i] = Queue(c)[i + 1]
             /\ conns'[c].queue[i].to # First(c).to
  <2>1. i \in 1..Len(Queue(c)) - 1
    BY <1>7, <1>9
  <2>2. i + 1 \in DOMAIN Queue(c) /\ i + 1 # 1
    BY <1>3, <2>1
  <2>3. conns'[c].queue[i] = Queue(c)[i + 1]
    BY <1>6, <2>1
  <2> QED
    BY <1>8, <2>2, <2>3
<1>10. ASSUME NEW j \in DOMAIN Queue(c), Queue(c)[j].to # First(c).to
       PROVE  j - 1 \in DOMAIN conns'[c].queue /\ conns'[c].queue[j - 1] = Queue(c)[j] /\ j # 1
  <2>1. j # 1
    BY <1>10 DEF First
  <2>2. j - 1 \in 1..Len(Queue(c)) - 1 /\ j - 1 + 1 = j
    BY <1>3, <2>1
  <2> QED
    BY <1>6, <1>7, <2>1, <2>2
<1>11. DOMAIN answers' = 1..Len(answers) + 1
  BY <1>1, SeqFacts DEF Answers
<1>12. /\ \A i \in DOMAIN answers : /\ i \in DOMAIN answers' /\ answers'[i] = answers[i]
                                    /\ answers[i].to # First(c).to
       /\ Len(answers) + 1 \in DOMAIN answers'
  <2>1. \A i \in DOMAIN answers : answers[i].to # First(c).to
    BY <1>5 DEF Pending, First
  <2> QED
    BY <1>1, <1>3, <1>11, <2>1 DEF Answers
<1>13. answers'[Len(answers) + 1] = [to |-> First(c).to, do |-> First(c).do, id |-> id, how |-> how]
  BY <1>1 DEF Answers
<1>14. \A i \in DOMAIN answers' :
         \/ i \in DOMAIN answers /\ answers'[i] = answers[i]
         \/ /\ i = Len(answers) + 1 /\ \A j \in DOMAIN answers : j < i
            /\ answers'[i] = [to |-> First(c).to, do |-> First(c).do, id |-> id, how |-> how]
  BY <1>3, <1>11, <1>12, <1>13
<1>15. DOMAIN Queue(c) \subseteq Nat \ {0} /\ DOMAIN conns'[c].queue \subseteq Nat \ {0}
       /\ DOMAIN answers \subseteq Nat
  BY <1>3, <1>7
<1> QED
  BY <1>5, <1>6, <1>8, <1>9, <1>10, <1>12, <1>13, <1>14, <1>15 DEF Moved, First

-------------------------------------------------------------------------------
(* Types are preserved.                                                      *)
LEMMA TypedWhenSending ==
    ASSUME Typed, NEW t \in DOMAIN sends, GoesOn(t) \/ Ends(t)
    PROVE  Typed'
<1>1. /\ UNCHANGED <<sinkVars, saved>> /\ DOMAIN sends' = DOMAIN sends /\ sends'[t] \in TaskSet
      /\ \A x \in DOMAIN sends \ {t} : sends'[x] = sends[x]
      /\ sends'[t].plugin = sends[t].plugin
  BY DEF GoesOn, Ends
<1>2. conns' \in Seq(ConnSet) /\ DOMAIN conns' = DOMAIN conns /\ Len(conns') = Len(conns)
  <2>1. conns' \in Seq(ConnSet) /\ Len(conns') = Len(conns)
    BY DEF GoesOn, Ends, Puts, Typed
  <2> QED
    BY <2>1, SeqFacts DEF Typed
<1>3. answers' \in Seq(AnswerSet)
  BY DEF GoesOn, Ends, Takes, Typed
<1>4. Active(t)
  BY DEF GoesOn, Ends
<1>5. /\ sends'[t].at \notin Ended => sends'[t].plugin \in DOMAIN plugins
      /\ sends'[t].at \in InFlight => /\ plugins[sends'[t].plugin].kind = "sqlite"
                                      /\ sends'[t].conn \in DOMAIN conns
                                      /\ sends'[t].table \in 1..4
  <2>1. sends[t].plugin \in DOMAIN plugins
    BY <1>4 DEF Typed, Active
  <2>2. CASE GoesOn(t)
    <3>1. sends'[t].conn \in DOMAIN conns /\ sends'[t].table \in 1..4
      BY <2>2 DEF GoesOn
    <3>2. (sends[t].at = "new" /\ plugins[sends[t].plugin].kind = "sqlite") \/ Flying(t)
      BY <2>2 DEF GoesOn
    <3>3. plugins[sends[t].plugin].kind = "sqlite"
      BY <3>2 DEF Typed, Flying
    <3> QED
      BY <1>1, <2>1, <3>1, <3>3
  <2>3. CASE Ends(t)
    <3>1. sends'[t].at \in {"lost", "done"}
      BY <2>3 DEF Ends
    <3> QED
      BY <3>1 DEF Ended, InFlight
  <2> QED
    BY <2>2, <2>3
<1>6. \A x \in DOMAIN sends' :
         /\ sends'[x] \in TaskSet
         /\ sends'[x].at \notin Ended => sends'[x].plugin \in DOMAIN plugins
         /\ sends'[x].at \in InFlight => /\ plugins[sends'[x].plugin].kind = "sqlite"
                                         /\ sends'[x].conn \in DOMAIN conns
                                         /\ sends'[x].table \in 1..4
  BY <1>1, <1>5 DEF Typed
<1>7. UNCHANGED <<sinks, backups, probe, plugins, update, life, restarts>>
  BY <1>1 DEF sinkVars
<1> QED
  BY <1>1, <1>2, <1>3, <1>6, <1>7 DEF Typed

LEMMA TypedWhenExecuting ==
    ASSUME Typed, NEW c \in DOMAIN conns, NEW id, NEW how, Executes(c, id, how)
    PROVE  Typed'
<1>1. /\ answers' \in Seq(AnswerSet) /\ saved' \in [Urls -> Tables]
      /\ UNCHANGED <<sinks, backups, probe, plugins, update, life, restarts, files, sends>>
  BY DEF Executes, Answers, sinkVars
<1>2. PICK live, work : Steps(c, live, work)
  BY DEF Executes, Opening, Creating, Inserting, Keeping, Committing, Shutting, Refusing
<1>3. conns' \in Seq(ConnSet) /\ Len(conns') = Len(conns) /\ DOMAIN conns' = DOMAIN conns
  <2>1. conns' \in Seq(ConnSet) /\ Len(conns') = Len(conns)
    BY <1>2 DEF Steps
  <2> QED
    BY <2>1, SeqFacts DEF Typed
<1> QED
  BY <1>1, <1>3 DEF Typed

(* The tasks have their types if they differ in being disturbed only.        *)
LEMMA TypedTasks ==
    ASSUME Typed, NEW p, sends' = sends \/ Downs(p),
           DOMAIN plugins \subseteq DOMAIN plugins', DOMAIN conns \subseteq DOMAIN conns',
           \A q \in DOMAIN plugins : plugins'[q].kind = plugins[q].kind
    PROVE  /\ DOMAIN sends' \subseteq Tasks
           /\ \A t \in DOMAIN sends' :
                /\ sends'[t] \in TaskSet
                /\ sends'[t].at \notin Ended => sends'[t].plugin \in DOMAIN plugins'
                /\ sends'[t].at \in InFlight => /\ plugins'[sends'[t].plugin].kind = "sqlite"
                                                /\ sends'[t].conn \in DOMAIN conns'
                                                /\ sends'[t].table \in 1..4
<1>1. DOMAIN sends' = DOMAIN sends
  BY DEF Downs
<1>2. \A t \in DOMAIN sends :
         /\ sends'[t] \in TaskSet /\ sends'[t].plugin = sends[t].plugin
         /\ sends'[t].at = sends[t].at /\ sends'[t].conn = sends[t].conn
         /\ sends'[t].table = sends[t].table
  BY DEF Downs, Typed
<1>3. InFlight \cap Ended = {}
  BY DEF InFlight, Ended
<1> QED
  BY <1>1, <1>2, <1>3 DEF Typed

LEMMA TypedWhenShut ==
    ASSUME Typed, NEW p, Shuts(p)
    PROVE  Typed'
<1>1. /\ p \in DOMAIN plugins /\ plugins[p].conn \in DOMAIN conns /\ Downs(p)
      /\ UNCHANGED <<sinks, backups, plugins, probe, saved, files, answers, life, restarts>>
  BY DEF Shuts
<1>2. PICK op \in Ops : Puts(plugins[p].conn, op)
  BY DEF Shuts
<1>3. PICK do \in {"update", "remove"}, cfg \in life.configs :
        IsUpdate(do, "shut", cfg, p, 0) /\ cfg.name \in DOMAIN sinks /\ sinks[cfg.name] = p
  BY DEF Shuts
<1>4. conns' \in Seq(ConnSet) /\ Len(conns') = Len(conns) /\ DOMAIN conns' = DOMAIN conns
  <2>1. conns' \in Seq(ConnSet) /\ Len(conns') = Len(conns)
    BY <1>2 DEF Puts
  <2> QED
    BY <2>1, SeqFacts DEF Typed
<1>5. plugins[p].kind = "sqlite"
  <2>1. plugins[p].kind \in {"sqlite", "csv"} /\ plugins[p].conn # 0
    BY <1>1, Conns DEF PluginSet, Kinds
  <2> QED
    BY <1>1, <2>1 DEF Typed
<1>6. /\ DOMAIN sends' \subseteq Tasks
      /\ \A t \in DOMAIN sends' :
           /\ sends'[t] \in TaskSet
           /\ sends'[t].at \notin Ended => sends'[t].plugin \in DOMAIN plugins'
           /\ sends'[t].at \in InFlight => /\ plugins'[sends'[t].plugin].kind = "sqlite"
                                           /\ sends'[t].conn \in DOMAIN conns'
                                           /\ sends'[t].table \in 1..4
  BY <1>1, <1>4, TypedTasks
<1>7. /\ update'.do = do /\ update'.at = "shut" /\ update'.cfg = cfg /\ update'.plugin = p
      /\ update'.table = 0
      /\ update' = [do |-> update'.do, at |-> update'.at, cfg |-> update'.cfg,
                    plugin |-> update'.plugin, table |-> update'.table]
  BY <1>3 DEF IsUpdate
<1>8. update' # Idle
  BY <1>7 DEF Idle
<1> QED
  BY <1>1, <1>3, <1>4, <1>5, <1>6, <1>7, <1>8 DEF Typed

LEMMA Longer ==
    ASSUME NEW S, NEW s \in Seq(S), NEW t \in Seq(S), Len(t) = Len(s) \/ Len(t) = Len(s) + 1
    PROVE  /\ DOMAIN s \subseteq DOMAIN t
           /\ \A q \in DOMAIN t : q \notin DOMAIN s => q = Len(t) /\ Len(t) # Len(s)
<1>1. PICK m \in Nat, n \in Nat : m = Len(s) /\ n = Len(t)
  BY SeqFacts
<1>2. DOMAIN s = 1..m
  BY <1>1, SeqFacts
<1>3. DOMAIN t = 1..n
  BY <1>1, SeqFacts
<1>4. n = m \/ n = m + 1
  BY <1>1
<1>5. 1..m \subseteq 1..n /\ \A q \in 1..n : q \notin 1..m => q = n /\ n # m
  BY <1>4
<1> QED
  BY <1>1, <1>2, <1>3, <1>5

LEMMA TypedWhenRenewed ==
    ASSUME Typed, NEW p, NEW g, Renews(p, g)
    PROVE  Typed'
<1>1. /\ UNCHANGED <<probe, saved, files, life, restarts>>
      /\ plugins' \in Seq(PluginSet) /\ conns' \in Seq(ConnSet)
      /\ DOMAIN sinks' \subseteq Names /\ \A n \in DOMAIN sinks' : sinks'[n] \in DOMAIN plugins'
  BY DEF Renews
<1>2. answers' \in Seq(AnswerSet)
  BY DEF Renews, Takes, Typed
<1>3. Len(plugins) \in Nat /\ Len(conns) \in Nat
  BY Conns
<1>4. /\ Len(conns') = Len(conns) \/ Len(conns') = Len(conns) + 1
      /\ Len(plugins') = Len(plugins) \/ Len(plugins') = Len(plugins) + 1
      /\ Len(plugins') # Len(plugins) => p = Len(plugins') /\ plugins'[p].conn = 0
  <2>1. Len(plugins) # Len(plugins) + 1
    BY <1>3
  <2> QED
    BY <2>1 DEF Renews
<1>5. /\ DOMAIN plugins \subseteq DOMAIN plugins'
      /\ \A q \in DOMAIN plugins' : q \notin DOMAIN plugins => q = p /\ plugins'[p].conn = 0
  <2>1. plugins \in Seq(PluginSet)
    BY DEF Typed
  <2>2. /\ DOMAIN plugins \subseteq DOMAIN plugins'
        /\ \A q \in DOMAIN plugins' :
             q \notin DOMAIN plugins => q = Len(plugins') /\ Len(plugins') # Len(plugins)
    BY <1>1, <1>4, <2>1, Longer
  <2> QED
    BY <1>4, <2>2
<1>6. /\ \A q \in DOMAIN plugins : /\ plugins'[q].kind = plugins[q].kind
                                   /\ plugins'[q].conn = plugins[q].conn
      /\ DOMAIN conns \subseteq DOMAIN conns'
  <2>1. conns \in Seq(ConnSet)
    BY DEF Typed
  <2>2. DOMAIN conns \subseteq DOMAIN conns'
    BY <1>1, <1>4, <2>1, Longer
  <2> QED
    BY <2>2 DEF Renews
<1>7. ASSUME NEW q \in DOMAIN plugins'
      PROVE  plugins'[q].conn <= Len(conns') /\ (plugins'[q].kind = "csv" => plugins'[q].conn = 0)
  <2>1. CASE q \in DOMAIN plugins
    <3>1. plugins[q].conn \in 0..Len(conns) /\ (plugins[q].kind = "csv" => plugins[q].conn = 0)
      BY <2>1, Conns DEF Typed
    <3>2. plugins'[q].kind = plugins[q].kind /\ plugins'[q].conn = plugins[q].conn
      BY <1>6, <2>1
    <3> QED
      BY <1>3, <1>4, <3>1, <3>2
  <2>2. CASE q \notin DOMAIN plugins
    BY <1>3, <1>4, <1>5, <2>2
  <2> QED
    BY <2>1, <2>2
<1>8. sends' = sends \/ Downs(p)
  BY DEF Renews
<1>9. /\ DOMAIN sends' \subseteq Tasks
      /\ \A t \in DOMAIN sends' :
           /\ sends'[t] \in TaskSet
           /\ sends'[t].at \notin Ended => sends'[t].plugin \in DOMAIN plugins'
           /\ sends'[t].at \in InFlight => /\ plugins'[sends'[t].plugin].kind = "sqlite"
                                           /\ sends'[t].conn \in DOMAIN conns'
                                           /\ sends'[t].table \in 1..4
  BY <1>5, <1>6, <1>8, TypedTasks
<1>10. /\ update'.do \in {"none", "add", "update", "remove"}
       /\ update'.at \in {"idle", "shut", "connect", "create", "close"}
       /\ update' = [do |-> update'.do, at |-> update'.at, cfg |-> update'.cfg,
                     plugin |-> update'.plugin, table |-> update'.table]
       /\ update'.table \in 0..4
       /\ update'.at = "idle" <=> update' = Idle
       /\ update'.at # "idle" => /\ update'.plugin \in DOMAIN plugins'
                                 /\ update'.cfg \in life.configs
                                 /\ update'.do # "none"
                                 /\ plugins'[update'.plugin].kind = "sqlite"
       /\ update'.at # "idle" /\ update'.do # "add" =>
            update'.cfg.name \in DOMAIN sinks' /\ sinks'[update'.cfg.name] = update'.plugin
       /\ update'.at = "shut" => update'.do # "add"
       /\ update'.at \in {"create", "close"} => update'.table \in 1..4
  <2>1. CASE update' = Idle
    BY <2>1 DEF Idle
  <2>2. CASE update' # Idle
    <3>1. PICK cfg \in life.configs, do \in {"add", "update"} :
            /\ IsUpdate(do, "connect", cfg, p, 0)
            /\ do = "update" => /\ sinks' = sinks /\ cfg.name \in DOMAIN sinks
                                /\ sinks[cfg.name] = p
      BY <2>2 DEF Renews
    <3>2. p \in DOMAIN plugins' /\ plugins'[p].kind = "sqlite"
      BY <2>2 DEF Renews
    <3>3. /\ update'.do = do /\ update'.at = "connect" /\ update'.cfg = cfg
          /\ update'.plugin = p /\ update'.table = 0
          /\ update' = [do |-> update'.do, at |-> update'.at, cfg |-> update'.cfg,
                        plugin |-> update'.plugin, table |-> update'.table]
      BY <3>1 DEF IsUpdate
    <3> QED
      BY <2>2, <3>1, <3>2, <3>3
  <2> QED
    BY <2>1, <2>2
<1>11. life \in Lives /\ probe \in life.probes /\ saved \in [Urls -> Tables]
  BY DEF Typed
<1> QED
  BY <1>1, <1>2, <1>7, <1>9, <1>10, <1>11 DEF Typed

LEMMA TypedWhenAsking ==
    ASSUME Typed, Sites, Asks
    PROVE  Typed'
<1>1. /\ answers' \in Seq(AnswerSet) /\ Site' \in DOMAIN conns /\ Site' = Site
      /\ IsUpdate(update.do, update'.at, update.cfg, update.plugin, update'.table)
      /\ UNCHANGED <<sinks, backups, sends, saved, files, probe, life, restarts>>
  BY DEF Asks, Takes
<1>2. PICK op \in Ops : Puts(Site, op)
  BY DEF Asks
<1>3. conns' \in Seq(ConnSet) /\ Len(conns') = Len(conns) /\ DOMAIN conns' = DOMAIN conns
  <2>1. conns' \in Seq(ConnSet) /\ Len(conns') = Len(conns)
    BY <1>2 DEF Puts
  <2> QED
    BY <2>1, SeqFacts DEF Typed
<1>4. update.plugin \in DOMAIN plugins /\ plugins[update.plugin].kind = "sqlite"
      /\ update.cfg \in life.configs /\ update.do # "none"
      /\ update.at \in {"connect", "create", "close"}
      /\ (update.do # "add" =>
            update.cfg.name \in DOMAIN sinks /\ sinks[update.cfg.name] = update.plugin)
  <2>1. update.at \in {"connect", "create", "close"}
    BY DEF Asks
  <2> QED
    BY <2>1 DEF Typed
<1>5. /\ plugins' \in Seq(PluginSet) /\ DOMAIN plugins' = DOMAIN plugins
      /\ \A q \in DOMAIN plugins :
           /\ plugins'[q].kind = plugins[q].kind /\ plugins'[q].conn <= Len(conns)
           /\ plugins'[q].kind = "csv" => plugins'[q].conn = 0
  <2>1. /\ DOMAIN plugins = 1..Len(plugins) /\ plugins \in Seq(PluginSet) /\ Len(conns) \in Nat
        /\ \A q \in DOMAIN plugins :
             /\ plugins[q] \in PluginSet /\ plugins[q].conn <= Len(conns)
             /\ plugins[q].kind = "csv" => plugins[q].conn = 0
    BY Conns DEF Typed
  <2>2. CASE plugins' = plugins
    BY <2>1, <2>2
  <2>3. CASE plugins' # plugins
    <3>1. PICK k : k = [plugins[update.plugin] EXCEPT !.conn = Len(conns)]
      OBVIOUS
    <3>2. plugins' = [plugins EXCEPT ![update.plugin] = k]
      BY <2>3, <3>1 DEF Asks
    <3>3. k \in PluginSet /\ k.conn = Len(conns) /\ k.kind = plugins[update.plugin].kind
      BY <1>4, <2>1, <3>1 DEF PluginSet
    <3>4. plugins' \in Seq(PluginSet) /\ Len(plugins') = Len(plugins)
          /\ \A q \in 1..Len(plugins) : plugins'[q] = IF q = update.plugin THEN k ELSE plugins[q]
      BY <1>4, <2>1, <3>2, <3>3, ExceptSeq
    <3>5. DOMAIN plugins' = DOMAIN plugins
      BY <2>1, <3>2
    <3> QED
      BY <1>4, <2>1, <3>3, <3>4, <3>5
  <2> QED
    BY <2>2, <2>3
<1>6. sends' = sends
  BY <1>1
<1>7. PICK p : p = 0
  OBVIOUS
<1>8. /\ DOMAIN sends' \subseteq Tasks
      /\ \A t \in DOMAIN sends' :
           /\ sends'[t] \in TaskSet
           /\ sends'[t].at \notin Ended => sends'[t].plugin \in DOMAIN plugins'
           /\ sends'[t].at \in InFlight => /\ plugins'[sends'[t].plugin].kind = "sqlite"
                                           /\ sends'[t].conn \in DOMAIN conns'
                                           /\ sends'[t].table \in 1..4
  BY <1>3, <1>5, <1>6, TypedTasks
<1>9. update'.at \in {"create", "close"} /\ update'.table \in 1..4
  <2>1. update.table \in 0..4 /\ (update.at \in {"create", "close"} => update.table \in 1..4)
    BY DEF Typed
  <2> QED
    BY <2>1 DEF Asks
<1>10. /\ update'.do = update.do /\ update'.cfg = update.cfg /\ update'.plugin = update.plugin
       /\ update' = [do |-> update'.do, at |-> update'.at, cfg |-> update'.cfg,
                     plugin |-> update'.plugin, table |-> update'.table]
  BY <1>1 DEF IsUpdate
<1>11. update' # Idle
  BY <1>9 DEF Idle
<1>12. /\ life \in Lives /\ probe \in life.probes /\ saved \in [Urls -> Tables]
       /\ DOMAIN sinks \subseteq Names /\ \A n \in DOMAIN sinks : sinks[n] \in DOMAIN plugins
       /\ update.do \in {"none", "add", "update", "remove"}
  BY DEF Typed
<1> QED
  BY <1>1, <1>3, <1>4, <1>5, <1>8, <1>9, <1>10, <1>11, <1>12 DEF Typed

LEMMA TypedWhenFinished ==
    ASSUME Typed, Finishes
    PROVE  Typed'
<1>1. /\ answers' \in Seq(AnswerSet) /\ update' = Idle
      /\ sinks' = Registered(update.do, update.cfg, update.plugin)
      /\ UNCHANGED <<backups, plugins, conns, sends, saved, files, probe, life, restarts>>
  BY DEF Finishes, Takes
<1>2. update.plugin \in DOMAIN plugins /\ update.cfg \in life.configs
  BY DEF Finishes, Typed
<1>3. DOMAIN sinks' \subseteq Names /\ \A n \in DOMAIN sinks' : sinks'[n] \in DOMAIN plugins
  BY <1>1, <1>2, RegisteredIs
<1>4. /\ Idle.do = "none" /\ Idle.at = "idle" /\ Idle.table = 0
      /\ Idle = [do |-> Idle.do, at |-> Idle.at, cfg |-> Idle.cfg, plugin |-> Idle.plugin,
                 table |-> Idle.table]
  BY DEF Idle
<1> QED
  BY <1>1, <1>3, <1>4 DEF Typed

LEMMA TypedWhenFresh ==
    ASSUME Typed, Fresh
    PROVE  Typed'
<1>1. /\ UNCHANGED <<sinks, backups, probe, plugins, update, life, restarts>>
      /\ UNCHANGED <<conns, saved, files, answers>>
  BY DEF Fresh, sinkVars
<1>2. DOMAIN sends' \subseteq Tasks
  BY DEF Fresh
<1>3. ASSUME NEW t \in DOMAIN sends'
      PROVE  /\ sends'[t] \in TaskSet
             /\ sends'[t].at \notin Ended => sends'[t].plugin \in DOMAIN plugins
             /\ sends'[t].at \in InFlight => /\ plugins[sends'[t].plugin].kind = "sqlite"
                                             /\ sends'[t].conn \in DOMAIN conns
                                             /\ sends'[t].table \in 1..4
  <2>1. CASE t \in DOMAIN sends
    BY <2>1 DEF Fresh, Typed
  <2>2. CASE t \notin DOMAIN sends
    BY <2>2 DEF Fresh, InFlight
  <2> QED
    BY <2>1, <2>2
<1> QED
  BY <1>1, <1>2, <1>3 DEF Typed

LEMMA TypedWhenQuiet ==
    ASSUME Typed, Quiet
    PROVE  Typed'
BY DEF Typed, Quiet

LEMMA TypedWhenAgain ==
    ASSUME Typed, Again
    PROVE  Typed'
<1>1. /\ DOMAIN sinks' = {} /\ plugins' = <<>> /\ conns' = <<>> /\ answers' = <<>> /\ update' = Idle
      /\ probe' \in life.probes /\ DOMAIN sends' = DOMAIN sends
      /\ \A t \in DOMAIN sends : sends'[t] \in TaskSet /\ sends'[t].at \in Ended
      /\ UNCHANGED <<saved, files, life>>
  BY DEF Again
<1>2. /\ plugins' \in Seq(PluginSet) /\ conns' \in Seq(ConnSet) /\ answers' \in Seq(AnswerSet)
      /\ DOMAIN plugins' = {}
  BY <1>1, EmptySeq
<1>3. /\ Idle.do = "none" /\ Idle.at = "idle" /\ Idle.table = 0
      /\ Idle = [do |-> Idle.do, at |-> Idle.at, cfg |-> Idle.cfg, plugin |-> Idle.plugin,
                 table |-> Idle.table]
  BY DEF Idle
<1>4. InFlight \cap Ended = {}
  BY DEF InFlight, Ended
<1> QED
  BY <1>1, <1>2, <1>3, <1>4 DEF Typed

-------------------------------------------------------------------------------
(* The lives of connections.                                                 *)
LEMMA SiteStays ==
    ASSUME UNCHANGED <<update, plugins>>, Len(conns') = Len(conns)
    PROVE  Site' = Site
BY DEF Site

LEMMA SiteIs ==
    ASSUME Typed, Sites, update.at # "idle"
    PROVE  /\ Site \in DOMAIN conns /\ update.plugin \in DOMAIN plugins
           /\ plugins[update.plugin].kind = "sqlite"
           /\ update.at # "connect" => /\ plugins[update.plugin].conn = Site
                                       /\ conns[Site].live # "gone" /\ Site # 0
<1>1. update.plugin \in DOMAIN plugins /\ plugins[update.plugin].kind = "sqlite"
      /\ update.at \in {"shut", "connect", "create", "close"}
  BY DEF Typed
<1>2. /\ plugins[update.plugin].conn \in 0..Len(conns) /\ DOMAIN conns = 1..Len(conns)
      /\ Len(conns) \in Nat
  BY <1>1, Conns
<1>3. CASE update.at = "connect"
  BY <1>1, <1>2, <1>3 DEF Site, Sites
<1>4. CASE update.at # "connect"
  <2>1. Site = plugins[update.plugin].conn
    BY <1>4 DEF Site
  <2>2. Site # 0 /\ conns[Site].live # "gone"
    BY <1>1, <1>4 DEF Sites
  <2> QED
    BY <1>1, <1>2, <1>4, <2>1, <2>2
<1> QED
  BY <1>3, <1>4

(* Nobody sends on the connection that is being made.                        *)
LEMMA FlightIs ==
    ASSUME Typed, Sites, NEW t \in DOMAIN sends, Flying(t)
    PROVE  /\ sends[t].conn \in DOMAIN conns /\ sends[t].plugin \in DOMAIN plugins
           /\ plugins[sends[t].plugin].kind = "sqlite" /\ sends[t].table \in 1..4
           /\ conns[sends[t].conn].live # "new"
           /\ conns[sends[t].conn].live # "gone" => Db(t) = sends[t].conn
           /\ update.at = "connect" /\ sends[t].conn = Len(conns) => FALSE
<1>1. /\ sends[t].conn \in DOMAIN conns /\ sends[t].plugin \in DOMAIN plugins
      /\ plugins[sends[t].plugin].kind = "sqlite" /\ sends[t].table \in 1..4
  <2>1. sends[t].at \in InFlight /\ sends[t].at \notin Ended
    BY DEF Flying, InFlight, Ended
  <2> QED
    BY <2>1 DEF Typed
<1>2. /\ conns[sends[t].conn].live # "new"
      /\ conns[sends[t].conn].live # "gone" => Db(t) = sends[t].conn
  BY DEF Sites
<1>3. ASSUME update.at = "connect", sends[t].conn = Len(conns) PROVE FALSE
  <2>1. conns[sends[t].conn].live # "gone"
    BY <1>3 DEF Sites
  <2>2. Db(t) = Len(conns)
    BY <1>2, <1>3, <2>1
  <2> QED
    BY <1>1, <1>3, <2>2 DEF Sites, Db
<1> QED
  BY <1>1, <1>2, <1>3

(* What a step of t leaves as it is.                                         *)
Sent(t) ==
    /\ UNCHANGED <<sinks, backups, probe, plugins, update, life, restarts, saved>>
    /\ DOMAIN sends' = DOMAIN sends /\ \A x \in DOMAIN sends \ {t} : sends'[x] = sends[x]
    /\ sends'[t].plugin = sends[t].plugin /\ sends'[t].probe = sends[t].probe
    /\ sends'[t].disturbed = sends[t].disturbed
    /\ DOMAIN conns' = DOMAIN conns /\ Len(conns') = Len(conns) /\ Site' = Site
    /\ \A c \in DOMAIN conns :
         /\ conns'[c].live = conns[c].live /\ conns'[c].work = conns[c].work
         /\ conns'[c].url = conns[c].url
         /\ \A i \in DOMAIN Queue(c) : i \in DOMAIN conns'[c].queue
                                      /\ conns'[c].queue[i] = Queue(c)[i]
         /\ \A i \in DOMAIN conns'[c].queue :
              \/ i \in DOMAIN Queue(c) /\ conns'[c].queue[i] = Queue(c)[i]
              \/ /\ GoesOn(t) /\ c = sends'[t].conn /\ conns'[c].queue[i] = Statement(t)'
                 /\ i = Len(Queue(c)) + 1 /\ \A j \in DOMAIN Queue(c) : j < i
    /\ \/ answers' = answers /\ sends[t].at = "new"
       \/ Shifted(t) /\ Flying(t) /\ sends[t].at = answers[1].do

LEMMA SentIs ==
    ASSUME Typed, Pending, NEW t \in DOMAIN sends, GoesOn(t) \/ Ends(t)
    PROVE  Sent(t)
<1>1. /\ UNCHANGED <<sinks, backups, probe, plugins, update, life, restarts, saved>>
      /\ DOMAIN sends' = DOMAIN sends /\ \A x \in DOMAIN sends \ {t} : sends'[x] = sends[x]
      /\ sends'[t].plugin = sends[t].plugin /\ sends'[t].probe = sends[t].probe
      /\ sends'[t].disturbed = sends[t].disturbed
  BY DEF GoesOn, Ends, sinkVars
<1>2. /\ DOMAIN conns' = DOMAIN conns /\ Len(conns') = Len(conns)
      /\ \A c \in DOMAIN conns :
           /\ conns'[c].live = conns[c].live /\ conns'[c].work = conns[c].work
           /\ conns'[c].url = conns[c].url
           /\ \A i \in DOMAIN Queue(c) : i \in DOMAIN conns'[c].queue
                                        /\ conns'[c].queue[i] = Queue(c)[i]
           /\ \A i \in DOMAIN conns'[c].queue :
                \/ i \in DOMAIN Queue(c) /\ conns'[c].queue[i] = Queue(c)[i]
                \/ /\ GoesOn(t) /\ c = sends'[t].conn /\ conns'[c].queue[i] = Statement(t)'
                   /\ i = Len(Queue(c)) + 1 /\ \A j \in DOMAIN Queue(c) : j < i
  <2>1. CASE GoesOn(t)
    <3>1. sends'[t].conn \in DOMAIN conns /\ Puts(sends'[t].conn, Statement(t)')
      BY <2>1 DEF GoesOn
    <3>2. PICK d \in DOMAIN conns : d = sends'[t].conn
      BY <3>1
    <3>3. PICK op : op = Statement(t)'
      OBVIOUS
    <3>4. PutAt(d, op)
      BY <3>1, <3>2, <3>3, PutsFacts
    <3>5. \A c \in DOMAIN conns : DOMAIN Queue(c) = 1..Len(Queue(c)) /\ Len(Queue(c)) \in Nat
      BY Conns
    <3>6. \A c \in DOMAIN conns : Len(Queue(c)) + 1 \notin DOMAIN Queue(c)
      BY <3>5
    <3> QED
      BY <2>1, <3>2, <3>3, <3>4, <3>6 DEF PutAt
  <2>2. CASE Ends(t)
    BY <2>2 DEF Ends, Queue
  <2> QED
    BY <2>1, <2>2
<1>3. Site' = Site
  BY <1>1, <1>2, SiteStays
<1>4. \/ answers' = answers /\ sends[t].at = "new"
      \/ Takes(t) /\ Flying(t) /\ sends[t].at = answers[1].do
  BY DEF GoesOn, Ends
<1>5. Takes(t) => Shifted(t)
  BY TakesFacts
<1> QED
  BY <1>1, <1>2, <1>3, <1>4, <1>5 DEF Sent

LEMMA SitesWhenSending ==
    ASSUME Typed, Sites, Pending, NEW t \in DOMAIN sends, GoesOn(t) \/ Ends(t)
    PROVE  Sites'
<1>1. /\ UNCHANGED <<sinks, backups, probe, plugins, update, life, restarts>>
      /\ DOMAIN sends' = DOMAIN sends /\ \A x \in DOMAIN sends \ {t} : sends'[x] = sends[x]
      /\ sends'[t].plugin = sends[t].plugin
  BY SentIs DEF Sent
<1>2. /\ DOMAIN conns' = DOMAIN conns /\ Len(conns') = Len(conns)
      /\ \A c \in DOMAIN conns : conns'[c].live = conns[c].live
  BY SentIs DEF Sent
<1>3. Site' = Site
  BY SentIs DEF Sent
<1>4. \A x \in DOMAIN sends : Db(x)' = Db(x)
  BY <1>1 DEF Db
<1>5. ASSUME NEW x \in DOMAIN sends, Flying(x)'
      PROVE  /\ sends'[x].conn \in DOMAIN conns /\ conns[sends'[x].conn].live # "new"
             /\ conns[sends'[x].conn].live # "gone" => Db(x) = sends'[x].conn
  <2>1. CASE x # t
    <3>1. sends'[x] = sends[x] /\ Flying(x)
      BY <1>1, <1>5, <2>1 DEF Flying
    <3> QED
      BY <3>1, FlightIs
  <2>2. CASE x = t
    <3>1. GoesOn(t)
      BY <1>5, <2>2 DEF Ends, Flying, InFlight
    <3>2. sends'[t].conn = Db(t) \/ (Flying(t) /\ sends'[t].conn = sends[t].conn)
      BY <3>1 DEF GoesOn
    <3>3. sends'[t].conn \in DOMAIN conns
      BY <3>1 DEF GoesOn
    <3>4. CASE sends'[t].conn = Db(t)
      <4>1. sends[t].plugin \in DOMAIN plugins
        BY <3>1 DEF GoesOn, Active, Typed
      <4>2. conns[Db(t)].live # "new"
        BY <3>3, <3>4, <4>1 DEF Sites, Db
      <4> QED
        BY <2>2, <3>3, <3>4, <4>2
    <3>5. CASE Flying(t) /\ sends'[t].conn = sends[t].conn
      BY <2>2, <3>5, FlightIs
    <3> QED
      BY <3>2, <3>4, <3>5
  <2> QED
    BY <2>1, <2>2
<1>6. \A c \in DOMAIN conns :
         /\ conns'[c].live = "new" => update'.at = "connect" /\ c = Len(conns')
         /\ conns'[c].live = "shut" => update'.at = "shut" /\ c = Site'
  BY <1>1, <1>2, <1>3 DEF Sites
<1>7. /\ update'.at = "connect" =>
           /\ Len(conns') # 0 /\ conns'[Len(conns')].live \in {"new", "open"}
           /\ \A p \in DOMAIN plugins : plugins[p].conn # Len(conns')
           /\ plugins[update'.plugin].conn # 0 => conns'[plugins[update'.plugin].conn].live = "gone"
      /\ update'.at \in {"create", "close"} => Site' # 0 /\ conns'[Site'].live = "open"
      /\ update'.at = "shut" => Site' # 0 /\ conns'[Site'].live \in {"open", "shut"}
  <2>1. CASE update.at = "idle"
    BY <1>1, <2>1
  <2>2. CASE update.at # "idle"
    <3>1. Site \in DOMAIN conns /\ update.plugin \in DOMAIN plugins
      BY <2>2, SiteIs
    <3>2. conns'[Site].live = conns[Site].live
      BY <1>2, <3>1
    <3>3. DOMAIN conns = 1..Len(conns) /\ Len(conns) \in Nat
          /\ plugins[update.plugin].conn \in 0..Len(conns)
      BY <3>1, Conns
    <3>4. CASE update.at = "connect"
      <4>1. Site = Len(conns)
        BY <3>4 DEF Site
      <4>2. plugins[update.plugin].conn # 0 =>
              conns'[plugins[update.plugin].conn].live = conns[plugins[update.plugin].conn].live
        BY <1>2, <3>3
      <4> QED
        BY <1>1, <1>2, <3>1, <3>2, <3>4, <4>1, <4>2 DEF Sites
    <3>5. CASE update.at # "connect"
      BY <1>1, <1>3, <3>2, <3>5 DEF Sites
    <3> QED
      BY <3>4, <3>5
  <2> QED
    BY <2>1, <2>2
<1>8. \A p, q \in DOMAIN plugins :
         plugins[p].conn = plugins[q].conn /\ plugins[p].conn # 0 => p = q
  BY DEF Sites
<1> QED
  BY <1>1, <1>2, <1>4, <1>5, <1>6, <1>7, <1>8 DEF Sites

(* What a statement does to the life of its connection.                      *)
Lived(c) ==
    \/ conns[c].live = "new" /\ conns'[c].live = "open" /\ First(c).do = "connect"
    \/ conns[c].live = "open" /\ conns'[c].live = "open" /\ First(c).do \notin {"connect", "shut"}
    \/ conns[c].live = "open" /\ conns'[c].live = "shut" /\ First(c).do = "shut"
    \/ conns[c].live \in {"shut", "gone"} /\ conns'[c].live = conns[c].live

LEMMA RanIs ==
    ASSUME Typed, Pending, NEW c \in DOMAIN conns, NEW id, NEW how, Executes(c, id, how)
    PROVE  /\ Lived(c) /\ Site' = Site /\ Moved(c, First(c).to, First(c).do, id, how)
           /\ UNCHANGED <<sinks, backups, probe, plugins, update, life, restarts, files, sends>>
           /\ \A d \in DOMAIN conns : d # c => conns'[d] = conns[d]
           /\ DOMAIN conns' = DOMAIN conns /\ Len(conns') = Len(conns)
<1>1. UNCHANGED <<sinks, backups, probe, plugins, update, life, restarts, files, sends>>
  BY DEF Executes, sinkVars
<1>2. Moved(c, First(c).to, First(c).do, id, how)
  BY MovedIs
<1>3. Len(conns') = Len(conns) /\ DOMAIN conns' = DOMAIN conns
      /\ \A d \in DOMAIN conns : d # c => conns'[d] = conns[d]
  BY <1>2 DEF Moved
<1>4. Site' = Site
  BY <1>1, <1>3, SiteStays
<1>5. Lived(c)
  <2>1. CASE Opening(c, id, how)
    BY <2>1 DEF Opening, Steps, Lived
  <2>2. CASE Creating(c, id, how)
    BY <2>2 DEF Creating, Steps, Lived
  <2>3. CASE Inserting(c, id, how)
    BY <2>3 DEF Inserting, Steps, Lived
  <2>4. CASE Keeping(c, id, how)
    BY <2>4 DEF Keeping, Steps, Lived
  <2>5. CASE Committing(c, id, how)
    BY <2>5 DEF Committing, Steps, Lived
  <2>6. CASE Shutting(c, id, how)
    BY <2>6 DEF Shutting, Steps, Lived
  <2>7. CASE Refusing(c, id, how)
    BY <2>7 DEF Refusing, Steps, Lived
  <2> QED
    BY <2>1, <2>2, <2>3, <2>4, <2>5, <2>6, <2>7 DEF Executes
<1> QED
  BY <1>1, <1>2, <1>3, <1>4, <1>5

LEMMA SitesWhenExecuting ==
    ASSUME Typed, Sites, Pending, NEW c \in DOMAIN conns, NEW id, NEW how, Executes(c, id, how)
    PROVE  Sites'
<1>1. /\ Lived(c) /\ Site' = Site /\ DOMAIN conns' = DOMAIN conns /\ Len(conns') = Len(conns)
      /\ \A d \in DOMAIN conns : d # c => conns'[d] = conns[d]
      /\ UNCHANGED <<plugins, update, sends>>
  BY RanIs
<1>2. /\ First(c).do = "connect" => update.at = "connect" /\ c = Site
      /\ First(c).do = "shut" => update.at = "shut" /\ c = Site
  BY FirstFits DEF Executes
<1>3. ASSUME NEW d \in DOMAIN conns
      PROVE  /\ conns'[d].live = "new" => conns[d].live = "new"
             /\ conns'[d].live = "shut" =>
                   conns[d].live = "shut" \/ (update.at = "shut" /\ d = Site)
             /\ conns'[d].live = "gone" <=> conns[d].live = "gone"
             /\ conns[d].live = "open" =>
                   conns'[d].live = "open" \/ (update.at = "shut" /\ d = Site /\ conns'[d].live = "shut")
             /\ conns[d].live = "new" => conns'[d].live \in {"new", "open"}
             /\ conns[d].live = "shut" => conns'[d].live = "shut"
  BY <1>1, <1>2 DEF Lived
<1>4. \A d \in DOMAIN conns :
         /\ conns'[d].live = "new" => update.at = "connect" /\ d = Len(conns)
         /\ conns'[d].live = "shut" => update.at = "shut" /\ d = Site
  BY <1>3 DEF Sites
<1>5. \A x \in DOMAIN sends : Flying(x) =>
         /\ conns'[sends[x].conn].live # "new"
         /\ conns'[sends[x].conn].live # "gone" => Db(x) = sends[x].conn
  <2> SUFFICES ASSUME NEW x \in DOMAIN sends, Flying(x)
               PROVE  /\ conns'[sends[x].conn].live # "new"
                      /\ conns'[sends[x].conn].live # "gone" => Db(x) = sends[x].conn
    OBVIOUS
  <2>1. /\ sends[x].conn \in DOMAIN conns /\ conns[sends[x].conn].live # "new"
        /\ conns[sends[x].conn].live # "gone" => Db(x) = sends[x].conn
    BY FlightIs
  <2> QED
    BY <1>3, <2>1
<1>6. /\ update.at = "connect" =>
           /\ Len(conns) # 0 /\ conns'[Len(conns)].live \in {"new", "open"}
           /\ \A p \in DOMAIN plugins : plugins[p].conn # Len(conns)
           /\ plugins[update.plugin].conn # 0 => conns'[plugins[update.plugin].conn].live = "gone"
      /\ update.at \in {"create", "close"} => Site # 0 /\ conns'[Site].live = "open"
      /\ update.at = "shut" => Site # 0 /\ conns'[Site].live \in {"open", "shut"}
  <2>1. CASE update.at = "idle"
    BY <2>1
  <2>2. CASE update.at = "connect"
    <3>1. Site \in DOMAIN conns /\ update.plugin \in DOMAIN plugins /\ Site = Len(conns)
      BY <2>2, SiteIs DEF Site
    <3>2. conns'[Len(conns)].live \in {"new", "open"}
      BY <1>3, <2>2, <3>1 DEF Sites
    <3>3. plugins[update.plugin].conn \in 0..Len(conns) /\ DOMAIN conns = 1..Len(conns)
          /\ Len(conns) \in Nat
      BY <3>1, Conns
    <3>4. plugins[update.plugin].conn # 0 => conns'[plugins[update.plugin].conn].live = "gone"
      BY <1>3, <2>2, <3>3 DEF Sites
    <3> QED
      BY <2>2, <3>2, <3>4 DEF Sites
  <2>3. CASE update.at \in {"create", "close", "shut"}
    <3>1. Site \in DOMAIN conns
      BY <2>3, SiteIs
    <3> QED
      BY <1>3, <2>3, <3>1 DEF Sites
  <2> QED
    BY <2>1, <2>2, <2>3 DEF Typed
<1>7. \A p, q \in DOMAIN plugins :
         plugins[p].conn = plugins[q].conn /\ plugins[p].conn # 0 => p = q
  BY DEF Sites
<1>8. \A x \in DOMAIN sends : (Flying(x)' <=> Flying(x)) /\ Db(x)' = Db(x)
  BY <1>1 DEF Flying, Db
<1> QED
  BY <1>1, <1>4, <1>5, <1>6, <1>7, <1>8 DEF Sites

(* What stays of tasks that are disturbed.                                   *)
LEMMA DownIs ==
    ASSUME NEW p, sends' = sends \/ Downs(p)
    PROVE  /\ DOMAIN sends' = DOMAIN sends
           /\ \A t : Flying(t)' = Flying(t)
           /\ \A t \in DOMAIN sends :
                /\ sends'[t].plugin = sends[t].plugin /\ sends'[t].probe = sends[t].probe
                /\ sends'[t].at = sends[t].at /\ sends'[t].conn = sends[t].conn
                /\ sends'[t].table = sends[t].table /\ sends'[t].parent = sends[t].parent
                /\ sends'[t].id = sends[t].id /\ sends'[t].why = sends[t].why
                /\ sends'[t].disturbed \in {sends[t].disturbed, TRUE} \/ Downs(p)
<1>1. DOMAIN sends' = DOMAIN sends
  BY DEF Downs
<1>2. \A t \in DOMAIN sends :
         /\ sends'[t].plugin = sends[t].plugin /\ sends'[t].probe = sends[t].probe
         /\ sends'[t].at = sends[t].at /\ sends'[t].conn = sends[t].conn
         /\ sends'[t].table = sends[t].table /\ sends'[t].parent = sends[t].parent
         /\ sends'[t].id = sends[t].id /\ sends'[t].why = sends[t].why
  BY DEF Downs
<1>3. \A t : Flying(t)' = Flying(t)
  BY <1>1, <1>2 DEF Flying
<1> QED
  BY <1>1, <1>2, <1>3

(* A sink is about to be stopped: what the update puts, and what stays.      *)
ShutAt(p) ==
    LET c == plugins[p].conn
    IN /\ c \in DOMAIN conns /\ conns[c].live = "open" /\ update = Idle /\ c # 0
       /\ update'.at = "shut" /\ update'.plugin = p /\ Site' = c /\ update'.do # "add"
       /\ UNCHANGED <<sinks, backups, plugins, probe, saved, files, answers, life, restarts>>
       /\ Downs(p) /\ p \in DOMAIN plugins
       /\ \E op : op.to = TheUpdate /\ op.do = "shut" /\ PutAt(c, op)

LEMMA ShutIs ==
    ASSUME Typed, NEW p, Shuts(p)
    PROVE  ShutAt(p)
<1>1. /\ plugins[p].conn \in DOMAIN conns /\ conns[plugins[p].conn].live = "open"
      /\ UNCHANGED <<sinks, backups, plugins, probe, saved, files, answers, life, restarts>>
      /\ Downs(p) /\ p \in DOMAIN plugins /\ update = Idle
  BY DEF Shuts
<1>2. PICK op \in Ops : op.to = TheUpdate /\ op.do = "shut" /\ Puts(plugins[p].conn, op)
  BY DEF Shuts
<1>3. PutAt(plugins[p].conn, op)
  BY <1>1, <1>2, PutsFacts
<1>4. PICK do \in {"update", "remove"}, cfg \in life.configs : IsUpdate(do, "shut", cfg, p, 0)
  BY DEF Shuts
<1>5. update'.at = "shut" /\ update'.plugin = p /\ update'.do = do
  BY <1>4 DEF IsUpdate
<1>6. Site' = plugins[p].conn
  BY <1>1, <1>5 DEF Site
<1>7. plugins[p].conn # 0
  BY <1>1, Conns
<1> QED
  BY <1>1, <1>2, <1>3, <1>5, <1>6, <1>7 DEF ShutAt

LEMMA SitesWhenShut ==
    ASSUME Typed, Sites, NEW p, Shuts(p)
    PROVE  Sites'
<1>1. ShutAt(p)
  BY ShutIs
<1>2. PICK op : PutAt(plugins[p].conn, op)
  BY <1>1 DEF ShutAt
<1>3. /\ DOMAIN conns' = DOMAIN conns /\ Len(conns') = Len(conns)
      /\ \A c \in DOMAIN conns : conns'[c].live = conns[c].live
  BY <1>2 DEF PutAt
<1>4. \A c \in DOMAIN conns : conns[c].live \notin {"new", "shut"}
  BY <1>1 DEF ShutAt, Sites, Idle
<1>5. \A t \in DOMAIN sends : /\ sends'[t].conn = sends[t].conn /\ Flying(t)' = Flying(t)
                              /\ Db(t)' = Db(t)
  BY <1>1, DownIs DEF ShutAt, Db
<1>6. DOMAIN sends' = DOMAIN sends
  BY <1>1, DownIs DEF ShutAt
<1>7. \A t \in DOMAIN sends : Flying(t) =>
         /\ sends[t].conn \in DOMAIN conns
         /\ conns[sends[t].conn].live # "gone" => Db(t) = sends[t].conn
  BY FlightIs
<1>8. /\ \A t \in DOMAIN sends' : Flying(t)' =>
           /\ conns'[sends'[t].conn].live # "new"
           /\ conns'[sends'[t].conn].live # "gone" => Db(t)' = sends'[t].conn
  BY <1>3, <1>4, <1>5, <1>6, <1>7
<1> QED
  BY <1>1, <1>3, <1>4, <1>8 DEF Sites, ShutAt

(* A plugin is started: what is new, and what stays.                         *)
NewComer(c) ==
    /\ c = Len(conns') /\ conns'[c].live = "new" /\ conns'[c].work = NoTables
    /\ update'.at = "connect"
    /\ 1 \in DOMAIN conns'[c].queue
    /\ \A i \in DOMAIN conns'[c].queue :
         i = 1 /\ conns'[c].queue[i].to = TheUpdate /\ conns'[c].queue[i].do = "connect"

Renewed(p, g) ==
    /\ DOMAIN plugins \subseteq DOMAIN plugins'
    /\ \A q \in DOMAIN plugins' : q \notin DOMAIN plugins => q = p /\ plugins'[q].conn = 0
    /\ \A q \in DOMAIN plugins : /\ plugins'[q].kind = plugins[q].kind
                                 /\ plugins'[q].conn = plugins[q].conn
                                 /\ q # p => plugins'[q] = plugins[q]
    /\ DOMAIN conns \subseteq DOMAIN conns'
    /\ \A c \in DOMAIN conns :
         /\ conns'[c].url = conns[c].url /\ conns'[c].work = conns[c].work
         /\ conns'[c].queue = conns[c].queue
         /\ conns'[c].live = IF c = g THEN "gone" ELSE conns[c].live
    /\ \A c \in DOMAIN conns' : c \notin DOMAIN conns => NewComer(c)
    /\ update'.at \in {"idle", "connect"}
    /\ update'.at = "connect" => /\ Len(conns') \in DOMAIN conns' /\ Len(conns') \notin DOMAIN conns
                                 /\ Len(conns') # 0 /\ update'.plugin = p /\ p \in DOMAIN plugins'
                                 /\ Site' = Len(conns')
    /\ \/ update.at = "idle" /\ answers' = answers /\ g = 0
       \/ update.at = "shut" /\ Shifted(TheUpdate) /\ g = Site /\ g \in DOMAIN conns
    /\ p \in DOMAIN plugins => plugins[p].conn = 0 \/ conns'[plugins[p].conn].live = "gone"
    /\ sends' = sends \/ Downs(p)
    /\ UNCHANGED <<probe, saved, files, life, restarts>>

LEMMA RenewIs ==
    ASSUME Typed, Pending, NEW p, NEW g, Renews(p, g)
    PROVE  Renewed(p, g)
<1>1. /\ plugins' \in Seq(PluginSet) /\ conns' \in Seq(ConnSet)
      /\ plugins \in Seq(PluginSet) /\ conns \in Seq(ConnSet)
      /\ Len(plugins) \in Nat /\ Len(conns) \in Nat
  BY Conns DEF Renews, Typed
<1>2. /\ Len(conns') = Len(conns) \/ Len(conns') = Len(conns) + 1
      /\ Len(plugins') = Len(plugins) \/ Len(plugins') = Len(plugins) + 1
      /\ Len(plugins') # Len(plugins) => p = Len(plugins') /\ plugins'[p].conn = 0
  <2>1. Len(plugins) # Len(plugins) + 1
    BY <1>1
  <2> QED
    BY <2>1 DEF Renews
<1>3. /\ DOMAIN plugins \subseteq DOMAIN plugins'
      /\ \A q \in DOMAIN plugins' :
           q \notin DOMAIN plugins => q = Len(plugins') /\ Len(plugins') # Len(plugins)
  BY <1>1, <1>2, Longer
<1>4. /\ DOMAIN conns \subseteq DOMAIN conns'
      /\ \A c \in DOMAIN conns' :
           c \notin DOMAIN conns => c = Len(conns') /\ Len(conns') # Len(conns)
  BY <1>1, <1>2, Longer
<1>5. /\ \A c \in DOMAIN conns' : c \notin DOMAIN conns => NewComer(c)
      /\ update'.at \in {"idle", "connect"}
      /\ update'.at = "connect" => /\ Len(conns') \in DOMAIN conns' /\ Len(conns') \notin DOMAIN conns
                                   /\ Len(conns') # 0 /\ update'.plugin = p /\ p \in DOMAIN plugins'
                                   /\ Site' = Len(conns')
  <2>1. CASE Len(conns') = Len(conns)
    <3>1. update'.at = "idle"
      BY <1>1, <2>1 DEF Renews, Idle
    <3> QED
      BY <1>4, <2>1, <3>1
  <2>2. CASE Len(conns') = Len(conns) + 1
    <3>1. PICK cfg, do : IsUpdate(do, "connect", cfg, p, 0)
      BY <1>1, <2>2 DEF Renews
    <3>2. update'.at = "connect" /\ update'.plugin = p
      BY <3>1 DEF IsUpdate
    <3>3. PICK op : op = Op(TheUpdate, "connect", 0, None)
      OBVIOUS
    <3>4. /\ conns'[Len(conns')].live = "new" /\ conns'[Len(conns')].queue = <<op>>
          /\ conns'[Len(conns')].work = NoTables /\ p \in DOMAIN plugins'
      BY <1>1, <2>2, <3>3 DEF Renews
    <3>5. op.to = TheUpdate /\ op.do = "connect"
      BY <3>3 DEF Op
    <3>6. PICK queue : queue = <<op>>
      OBVIOUS
    <3>7. 1 \in DOMAIN queue /\ \A i \in DOMAIN queue : i = 1 /\ queue[i] = op
      BY <3>6
    <3>8. NewComer(Len(conns'))
      BY <3>2, <3>4, <3>5, <3>6, <3>7 DEF NewComer
    <3>9. Len(conns') \in DOMAIN conns' /\ Len(conns') # 0
      <4>1. DOMAIN conns' = 1..Len(conns')
        BY <1>1, SeqFacts
      <4> QED
        BY <1>1, <2>2, <4>1
    <3>10. Len(conns') \notin DOMAIN conns
      <4>1. DOMAIN conns = 1..Len(conns)
        BY Conns
      <4> QED
        BY <1>1, <2>2, <4>1
    <3>11. Site' = Len(conns')
      BY <3>2 DEF Site
    <3> QED
      BY <1>4, <3>2, <3>4, <3>8, <3>9, <3>10, <3>11
  <2> QED
    BY <1>2, <2>1, <2>2
<1>6. \/ update.at = "idle" /\ answers' = answers /\ g = 0
      \/ update.at = "shut" /\ Shifted(TheUpdate) /\ g = Site /\ g \in DOMAIN conns
  BY TakesFacts DEF Renews, Idle
<1>7. /\ \A q \in DOMAIN plugins : /\ plugins'[q].kind = plugins[q].kind
                                   /\ plugins'[q].conn = plugins[q].conn
                                   /\ q # p => plugins'[q] = plugins[q]
      /\ \A c \in DOMAIN conns :
           /\ conns'[c].url = conns[c].url /\ conns'[c].work = conns[c].work
           /\ conns'[c].queue = conns[c].queue
           /\ conns'[c].live = IF c = g THEN "gone" ELSE conns[c].live
      /\ p \in DOMAIN plugins => plugins[p].conn = 0 \/ conns'[plugins[p].conn].live = "gone"
      /\ sends' = sends \/ Downs(p)
      /\ UNCHANGED <<probe, saved, files, life, restarts>>
  BY DEF Renews
<1> QED
  BY <1>2, <1>3, <1>4, <1>5, <1>6, <1>7 DEF Renewed

LEMMA SitesWhenRenewed ==
    ASSUME Typed, Sites, Pending, NEW p, NEW g, Renews(p, g)
    PROVE  Sites'
<1>1. Renewed(p, g)
  BY RenewIs
<1>2. \A c \in DOMAIN conns : /\ conns[c].live # "new"
                              /\ conns[c].live = "shut" => update.at = "shut" /\ c = Site
  BY <1>1 DEF Sites, Renewed
<1>3. \A c \in DOMAIN conns : /\ conns'[c].live \notin {"new", "shut"}
                              /\ conns'[c].live # "gone" => conns[c].live # "gone"
  BY <1>1, <1>2 DEF Renewed
<1>4. \A c \in DOMAIN conns' :
         /\ conns'[c].live = "new" => update'.at = "connect" /\ c = Len(conns')
         /\ conns'[c].live = "shut" => update'.at = "shut" /\ c = Site'
  <2> SUFFICES ASSUME NEW c \in DOMAIN conns'
               PROVE  /\ conns'[c].live = "new" => update'.at = "connect" /\ c = Len(conns')
                      /\ conns'[c].live = "shut" => update'.at = "shut" /\ c = Site'
    OBVIOUS
  <2>1. CASE c \in DOMAIN conns
    BY <1>3, <2>1
  <2>2. CASE c \notin DOMAIN conns
    BY <1>1, <2>2 DEF Renewed, NewComer
  <2> QED
    BY <2>1, <2>2
<1>5. \A q \in DOMAIN plugins' : /\ q \in DOMAIN plugins => plugins'[q].conn = plugins[q].conn
                                 /\ q \notin DOMAIN plugins => plugins'[q].conn = 0 /\ q = p
  BY <1>1 DEF Renewed
<1>6. \A q \in DOMAIN plugins : plugins[q].conn \in DOMAIN conns \/ plugins[q].conn = 0
  <2>1. DOMAIN conns = 1..Len(conns) /\ Len(conns) \in Nat
        /\ \A q \in DOMAIN plugins : plugins[q].conn \in 0..Len(conns)
    BY Conns
  <2> QED
    BY <2>1
<1>7. \A q, r \in DOMAIN plugins' :
         plugins'[q].conn = plugins'[r].conn /\ plugins'[q].conn # 0 => q = r
  BY <1>5 DEF Sites
<1>8. update'.at = "connect" =>
         /\ Len(conns') # 0 /\ conns'[Len(conns')].live \in {"new", "open"}
         /\ \A q \in DOMAIN plugins' : plugins'[q].conn # Len(conns')
         /\ plugins'[update'.plugin].conn # 0 => conns'[plugins'[update'.plugin].conn].live = "gone"
  <2> SUFFICES ASSUME update'.at = "connect"
               PROVE  /\ Len(conns') # 0 /\ conns'[Len(conns')].live \in {"new", "open"}
                      /\ \A q \in DOMAIN plugins' : plugins'[q].conn # Len(conns')
                      /\ plugins'[update'.plugin].conn # 0 =>
                            conns'[plugins'[update'.plugin].conn].live = "gone"
    OBVIOUS
  <2>1. /\ Len(conns') \in DOMAIN conns' /\ Len(conns') \notin DOMAIN conns
        /\ Len(conns') # 0 /\ update'.plugin = p /\ p \in DOMAIN plugins'
    BY <1>1 DEF Renewed
  <2>2. conns'[Len(conns')].live = "new"
    BY <1>1, <2>1 DEF Renewed, NewComer
  <2>3. \A q \in DOMAIN plugins' : plugins'[q].conn # Len(conns')
    BY <1>5, <1>6, <2>1
  <2>4. plugins'[p].conn # 0 => conns'[plugins'[p].conn].live = "gone"
    <3>1. CASE p \in DOMAIN plugins
      BY <1>1, <1>5, <2>1, <3>1 DEF Renewed
    <3>2. CASE p \notin DOMAIN plugins
      BY <1>5, <2>1, <3>2
    <3> QED
      BY <3>1, <3>2
  <2> QED
    BY <2>1, <2>2, <2>3, <2>4
<1>9. sends' = sends \/ Downs(p)
  BY <1>1 DEF Renewed
<1>10. /\ DOMAIN sends' = DOMAIN sends
       /\ \A t \in DOMAIN sends : /\ Flying(t)' = Flying(t) /\ sends'[t].conn = sends[t].conn
                                  /\ sends'[t].plugin = sends[t].plugin
  BY <1>9, DownIs
<1>11. ASSUME NEW t \in DOMAIN sends, Flying(t)
       PROVE  /\ conns'[sends'[t].conn].live # "new"
              /\ conns'[sends'[t].conn].live # "gone" => Db(t)' = sends'[t].conn
  <2>1. /\ sends[t].conn \in DOMAIN conns /\ sends[t].plugin \in DOMAIN plugins
        /\ conns[sends[t].conn].live # "gone" => Db(t) = sends[t].conn
    BY <1>11, FlightIs
  <2>2. Db(t)' = Db(t)
    BY <1>1, <1>5, <1>10, <2>1 DEF Db, Renewed
  <2> QED
    BY <1>3, <1>10, <2>1, <2>2
<1>12. \A t \in DOMAIN sends' : Flying(t)' =>
         /\ conns'[sends'[t].conn].live # "new"
         /\ conns'[sends'[t].conn].live # "gone" => Db(t)' = sends'[t].conn
  BY <1>10, <1>11
<1>13. update'.at \in {"idle", "connect"}
  BY <1>1 DEF Renewed
<1> QED
  BY <1>4, <1>7, <1>8, <1>12, <1>13 DEF Sites

(* The update goes on with its next statement.                               *)
Goes ==
    /\ Shifted(TheUpdate) /\ update.at \in {"connect", "create", "close"}
    /\ Site' = Site /\ Site \in DOMAIN conns /\ Site # 0 /\ conns[Site].live = "open"
    /\ \E op : /\ op.to = TheUpdate /\ op.do = update'.at /\ PutAt(Site, op)
               /\ op.do = "create" => op.table = update'.table
    /\ DOMAIN plugins' = DOMAIN plugins /\ update'.plugin = update.plugin
    /\ plugins'[update.plugin].conn = Site /\ update.plugin \in DOMAIN plugins
    /\ \A q \in DOMAIN plugins : /\ plugins'[q].kind = plugins[q].kind
                                 /\ plugins'[q].path = plugins[q].path
                                 /\ q # update.plugin => plugins'[q] = plugins[q]
    /\ update.at # "connect" => plugins' = plugins
    /\ \/ update.at = "connect" /\ update'.at = "create" /\ update'.table = 1
       \/ update.at = "create" /\ update'.at = "close" /\ update'.table = update.table
       \/ /\ update.at = "close" /\ update.table < 4 /\ update'.at = "create"
          /\ update'.table = update.table + 1
    /\ UNCHANGED <<sinks, backups, sends, saved, files, probe, life, restarts>>

LEMMA GoesIs ==
    ASSUME Typed, Sites, Pending, Asks
    PROVE  Goes
<1>1. /\ Shifted(TheUpdate) /\ answers[1].do = update.at
      /\ UNCHANGED <<sinks, backups, sends, saved, files, probe, life, restarts>>
      /\ IsUpdate(update.do, update'.at, update.cfg, update.plugin, update'.table)
      /\ Site' = Site
  BY TakesFacts DEF Asks
<1>2. /\ \/ update.at = "connect" /\ update'.at = "create" /\ update'.table = 1
         \/ update.at = "create" /\ update'.at = "close" /\ update'.table = update.table
         \/ /\ update.at = "close" /\ update.table < 4 /\ update'.at = "create"
            /\ update'.table = update.table + 1
      /\ update.at \in {"connect", "create", "close"}
      /\ update.at = "connect" => plugins' = [plugins EXCEPT ![update.plugin].conn = Len(conns)]
      /\ update.at # "connect" => plugins' = plugins
  BY DEF Asks
<1>3. /\ Site \in DOMAIN conns /\ update.plugin \in DOMAIN plugins
      /\ update.at # "connect" => plugins[update.plugin].conn = Site
  BY <1>2, SiteIs
<1>4. Site # 0
  BY <1>3, Conns
<1>5. PICK op : /\ op.to = TheUpdate /\ op.do = update'.at /\ Puts(Site, op)
                /\ op.do = "create" => op.table = update'.table
  BY <1>1 DEF Asks
<1>6. PutAt(Site, op)
  BY <1>3, <1>5, PutsFacts
<1>7. conns[Site].live = "open"
  <2>1. CASE update.at = "connect"
    <3>1. Site = Len(conns) /\ conns[Len(conns)].live \in {"new", "open"}
      BY <2>1 DEF Site, Sites
    <3>2. \A i \in DOMAIN Queue(Site) : Queue(Site)[i].to # TheUpdate
      BY <1>1, <1>3 DEF Shifted
    <3>3. conns[Site].live # "new"
      BY <1>3, <3>2 DEF Pending
    <3> QED
      BY <3>1, <3>3
  <2>2. CASE update.at # "connect"
    BY <1>2, <2>2 DEF Sites
  <2> QED
    BY <2>1, <2>2
<1>8. /\ DOMAIN plugins' = DOMAIN plugins /\ plugins'[update.plugin].conn = Site
      /\ \A q \in DOMAIN plugins : /\ plugins'[q].kind = plugins[q].kind
                                   /\ plugins'[q].path = plugins[q].path
                                   /\ q # update.plugin => plugins'[q] = plugins[q]
  <2>1. CASE update.at = "connect"
    <3>1. Site = Len(conns) /\ plugins[update.plugin] \in PluginSet
      BY <1>3, <2>1, Conns DEF Site
    <3>2. PICK k : k = [plugins[update.plugin] EXCEPT !.conn = Len(conns)]
      OBVIOUS
    <3>3. k.conn = Site /\ k.kind = plugins[update.plugin].kind /\ k.path = plugins[update.plugin].path
      BY <3>1, <3>2 DEF PluginSet
    <3>4. plugins' = [plugins EXCEPT ![update.plugin] = k]
      BY <1>2, <2>1, <3>2
    <3> QED
      BY <1>3, <3>3, <3>4
  <2>2. CASE update.at # "connect"
    BY <1>2, <1>3, <2>2
  <2> QED
    BY <2>1, <2>2
<1>9. update'.plugin = update.plugin
  BY <1>1 DEF IsUpdate
<1> QED
  BY <1>1, <1>2, <1>3, <1>4, <1>5, <1>6, <1>7, <1>8, <1>9 DEF Goes

LEMMA SitesWhenAsking ==
    ASSUME Typed, Sites, Pending, Asks
    PROVE  Sites'
<1>1. Goes
  BY GoesIs
<1>2. PICK op : PutAt(Site, op)
  BY <1>1 DEF Goes
<1>3. /\ DOMAIN conns' = DOMAIN conns /\ Len(conns') = Len(conns)
      /\ \A c \in DOMAIN conns : conns'[c].live = conns[c].live
  BY <1>2 DEF PutAt
<1>4. /\ update'.at \in {"create", "close"} /\ Site' # 0 /\ conns'[Site'].live = "open"
  BY <1>1, <1>3 DEF Goes
<1>5. \A c \in DOMAIN conns : conns[c].live \notin {"new", "shut"}
  <2> SUFFICES ASSUME NEW c \in DOMAIN conns PROVE conns[c].live \notin {"new", "shut"}
    OBVIOUS
  <2>1. conns[c].live # "shut"
    BY <1>1 DEF Goes, Sites
  <2>2. CASE conns[c].live = "new"
    <3>1. c = Site
      BY <2>2 DEF Sites, Site
    <3> QED
      BY <1>1, <2>2, <3>1 DEF Goes
  <2> QED
    BY <2>1, <2>2
<1>6. \A q, r \in DOMAIN plugins' :
         plugins'[q].conn = plugins'[r].conn /\ plugins'[q].conn # 0 => q = r
  <2>1. CASE update.at = "connect"
    <3>1. Site = Len(conns) /\ \A q \in DOMAIN plugins : plugins[q].conn # Site
      BY <2>1 DEF Site, Sites
    <3>2. \A q \in DOMAIN plugins : /\ q # update.plugin => plugins'[q].conn = plugins[q].conn
                                    /\ q = update.plugin => plugins'[q].conn = Site
      BY <1>1 DEF Goes
    <3> QED
      BY <1>1, <3>1, <3>2 DEF Goes, Sites
  <2>2. CASE update.at # "connect"
    BY <1>1, <2>2 DEF Goes, Sites
  <2> QED
    BY <2>1, <2>2
<1>7. ASSUME NEW t \in DOMAIN sends, Flying(t), conns[sends[t].conn].live # "gone"
      PROVE  Db(t)' = sends[t].conn
  <2>1. sends[t].plugin \in DOMAIN plugins /\ Db(t) = sends[t].conn
        /\ ~(update.at = "connect" /\ sends[t].conn = Len(conns))
    BY <1>7, FlightIs
  <2>2. sends' = sends
    BY <1>1 DEF Goes
  <2>3. CASE sends[t].plugin = update.plugin /\ update.at = "connect"
    <3>1. plugins[update.plugin].conn = sends[t].conn
      BY <2>1, <2>3 DEF Db
    <3>2. sends[t].conn # 0
      BY <1>7, FlightIs, Conns
    <3> QED
      BY <1>7, <2>3, <3>1, <3>2 DEF Sites
  <2>4. CASE ~(sends[t].plugin = update.plugin /\ update.at = "connect")
    <3>1. plugins'[sends[t].plugin] = plugins[sends[t].plugin]
      BY <1>1, <2>1, <2>4 DEF Goes
    <3> QED
      BY <2>1, <2>2, <3>1 DEF Db
  <2> QED
    BY <2>3, <2>4
<1>8. \A t \in DOMAIN sends : Flying(t) => sends[t].conn \in DOMAIN conns
  BY FlightIs
<1>9. \A t \in DOMAIN sends' : Flying(t)' =>
         /\ conns'[sends'[t].conn].live # "new"
         /\ conns'[sends'[t].conn].live # "gone" => Db(t)' = sends'[t].conn
  <2>1. sends' = sends
    BY <1>1 DEF Goes
  <2>2. \A t : Flying(t)' = Flying(t)
    BY <2>1 DEF Flying
  <2> QED
    BY <1>3, <1>5, <1>7, <1>8, <2>1, <2>2
<1> QED
  BY <1>3, <1>4, <1>5, <1>6, <1>9 DEF Sites

LEMMA SitesWhenFinished ==
    ASSUME Typed, Sites, Finishes
    PROVE  Sites'
<1>1. update.at = "close" /\ update' = Idle /\ UNCHANGED <<plugins, conns, sends>>
  BY DEF Finishes
<1>2. update'.at = "idle"
  BY <1>1 DEF Idle
<1>3. \A c \in DOMAIN conns : conns[c].live \notin {"new", "shut"}
  BY <1>1 DEF Sites
<1>4. \A t \in DOMAIN sends : Flying(t) =>
         /\ conns[sends[t].conn].live # "new"
         /\ conns[sends[t].conn].live # "gone" => Db(t) = sends[t].conn
  BY DEF Sites
<1>5. \A t \in DOMAIN sends' : Flying(t)' =>
         /\ conns'[sends'[t].conn].live # "new"
         /\ conns'[sends'[t].conn].live # "gone" => Db(t)' = sends'[t].conn
  BY <1>1, <1>4 DEF Flying, Db
<1> QED
  BY <1>1, <1>2, <1>3, <1>5 DEF Sites

LEMMA SitesWhenFresh ==
    ASSUME Typed, Sites, Fresh
    PROVE  Sites'
<1>1. UNCHANGED <<plugins, conns, update>> /\ Site' = Site
  BY DEF Fresh, sinkVars, Site
<1>2. \A t \in DOMAIN sends' : Flying(t)' => t \in DOMAIN sends /\ sends'[t] = sends[t] /\ Flying(t)
  BY DEF Fresh, Flying, InFlight
<1>3. \A t \in DOMAIN sends' : Flying(t)' =>
         /\ conns'[sends'[t].conn].live # "new"
         /\ conns'[sends'[t].conn].live # "gone" => Db(t)' = sends'[t].conn
  BY <1>1, <1>2 DEF Sites, Db
<1> QED
  BY <1>1, <1>3 DEF Sites

LEMMA SitesWhenQuiet ==
    ASSUME Sites, Quiet
    PROVE  Sites'
BY DEF Sites, Quiet, Site, Flying, Db

LEMMA SitesWhenAgain ==
    ASSUME Again
    PROVE  Sites'
<1>1. /\ plugins' = <<>> /\ conns' = <<>> /\ update' = Idle /\ DOMAIN sends' = DOMAIN sends
      /\ \A t \in DOMAIN sends : sends'[t].at \in Ended
  BY DEF Again
<1>2. update'.at = "idle" /\ DOMAIN plugins' = {} /\ DOMAIN conns' = {}
  BY <1>1 DEF Idle
<1>3. \A t \in DOMAIN sends' : ~Flying(t)'
  BY <1>1 DEF Flying, InFlight, Ended
<1> QED
  BY <1>1, <1>2, <1>3 DEF Sites

-------------------------------------------------------------------------------
(* One statement or answer under way.                                        *)

(* The answers but that to x, which has been taken.                          *)
Remain(x) ==
    /\ \A i \in DOMAIN answers' : \E k \in DOMAIN answers : /\ answers'[i] = answers[k]
                                                            /\ answers[k].to # x
    /\ \A i, j \in DOMAIN answers' : answers'[i].to = answers'[j].to => i = j
    /\ \A k \in DOMAIN answers :
         answers[k].to # x => \E j \in DOMAIN answers' : answers'[j] = answers[k]
    /\ \A c \in DOMAIN conns : \A i \in DOMAIN Queue(c) : Queue(c)[i].to # x

LEMMA RemainIs ==
    ASSUME Pending, NEW x, Shifted(x)
    PROVE  Remain(x)
<1>1. ASSUME NEW i \in DOMAIN answers'
      PROVE  \E k \in DOMAIN answers : answers'[i] = answers[k] /\ answers[k].to # x
  BY DEF Shifted
<1>2. ASSUME NEW i \in DOMAIN answers', NEW j \in DOMAIN answers', answers'[i].to = answers'[j].to
      PROVE  i = j
  <2>1. /\ i + 1 \in DOMAIN answers /\ answers'[i] = answers[i + 1]
        /\ j + 1 \in DOMAIN answers /\ answers'[j] = answers[j + 1] /\ i \in Nat /\ j \in Nat
    BY DEF Shifted
  <2>2. i + 1 = j + 1
    BY <1>2, <2>1 DEF Pending
  <2> QED
    BY <2>1, <2>2
<1>3. ASSUME NEW k \in DOMAIN answers, answers[k].to # x
      PROVE  \E j \in DOMAIN answers' : answers'[j] = answers[k]
  BY <1>3 DEF Shifted
<1>4. \A c \in DOMAIN conns : \A i \in DOMAIN Queue(c) : Queue(c)[i].to # x
  BY DEF Shifted
<1> QED
  BY <1>1, <1>2, <1>3, <1>4 DEF Remain

LEMMA RemainNew ==
    ASSUME Pending, NEW t, t # TheUpdate, ~Flying(t), answers' = answers
    PROVE  Remain(t)
<1>1. \A k \in DOMAIN answers : answers[k].to # t
  BY DEF Pending, Suits
<1>2. \A c \in DOMAIN conns : \A i \in DOMAIN Queue(c) : Queue(c)[i].to # t
  BY DEF Pending, Fits
<1>3. \A i, j \in DOMAIN answers : answers[i].to = answers[j].to => i = j
  BY DEF Pending
<1> QED
  BY <1>1, <1>2, <1>3 DEF Remain

LEMMA SentRemains ==
    ASSUME Typed, Pending, NEW t \in DOMAIN sends, Sent(t)
    PROVE  Remain(t) /\ t # TheUpdate
<1>1. t # TheUpdate
  BY UpdateIsNoTask DEF Typed
<1>2. CASE Shifted(t)
  BY <1>1, <1>2, RemainIs
<1>3. CASE answers' = answers /\ sends[t].at = "new"
  <2>1. ~Flying(t)
    BY <1>3 DEF Flying, InFlight
  <2> QED
    BY <1>1, <1>3, <2>1, RemainNew
<1> QED
  BY <1>2, <1>3 DEF Sent

LEMMA FitsStays ==
    ASSUME NEW t, Sent(t), NEW c, NEW op, op.to # t, Fits(c, op)
    PROVE  Fits(c, op)'
<1>1. CASE op.to = TheUpdate
  BY <1>1 DEF Sent, Fits
<1>2. CASE op.to # TheUpdate
  <2>1. PICK x : x = op.to
    OBVIOUS
  <2>2. x \in DOMAIN sends /\ x # t
    BY <1>2, <2>1 DEF Fits, Flying
  <2>3. sends'[x] = sends[x] /\ x \in DOMAIN sends'
    BY <2>2 DEF Sent
  <2>4. Flying(x)' = Flying(x)
    BY <2>2, <2>3 DEF Flying
  <2>5. Row(x, sends[x].table, sends[x].parent)' = Row(x, sends[x].table, sends[x].parent)
    BY <2>3 DEF Row
  <2> QED
    BY <1>2, <2>1, <2>3, <2>4, <2>5 DEF Fits
<1> QED
  BY <1>1, <1>2

LEMMA SuitsStays ==
    ASSUME NEW t, Sent(t), NEW a, a.to # t, Suits(a)
    PROVE  Suits(a)'
<1>1. CASE a.to = TheUpdate
  BY <1>1 DEF Sent, Suits
<1>2. CASE a.to # TheUpdate
  <2>1. PICK x : x = a.to
    OBVIOUS
  <2>2. x \in DOMAIN sends /\ x # t
    BY <1>2, <2>1 DEF Suits, Flying
  <2>3. sends'[x] = sends[x] /\ x \in DOMAIN sends'
    BY <2>2 DEF Sent
  <2> QED
    BY <1>2, <2>1, <2>3 DEF Suits, Flying
<1> QED
  BY <1>1, <1>2

LEMMA StatementFits ==
    ASSUME NEW t, t # TheUpdate, GoesOn(t)
    PROVE  Fits(sends[t].conn, Statement(t))' /\ Statement(t)'.to = t
<1>1. PICK k : k = sends'[t]
  OBVIOUS
<1>2. k.at \in InFlight /\ t \in DOMAIN sends'
  BY <1>1 DEF GoesOn, Active
<1>3. Flying(t)'
  BY <1>1, <1>2 DEF Flying
<1>4. PICK n, row : /\ n = (IF k.at = "commit" THEN 0 ELSE k.table)
                    /\ row = (IF k.at = "commit" THEN None ELSE Row(t, k.table, k.parent)')
  OBVIOUS
<1>5. Statement(t)' = [to |-> t, do |-> k.at, table |-> n, row |-> row]
  BY <1>1, <1>4 DEF Statement, Op, Row
<1>6. Row(t, sends[t].table, sends[t].parent)' = Row(t, k.table, k.parent)'
  BY <1>1 DEF Row
<1>7. /\ Statement(t)'.to = t /\ Statement(t)'.do = k.at /\ Statement(t)'.table = n
      /\ Statement(t)'.row = row
  BY <1>5
<1>8. k.at # "commit" => /\ Statement(t)'.table = k.table
                         /\ Statement(t)'.row = Row(t, sends[t].table, sends[t].parent)'
  BY <1>4, <1>6, <1>7
<1> QED
  BY <1>1, <1>3, <1>7, <1>8 DEF Fits

LEMMA PendingWhenSending ==
    ASSUME Typed, Sites, Pending, NEW t \in DOMAIN sends, GoesOn(t) \/ Ends(t)
    PROVE  Pending'
<1>1. Sent(t) /\ Remain(t) /\ t # TheUpdate
  BY SentIs, SentRemains
<1>2. DOMAIN conns' = DOMAIN conns
  BY <1>1 DEF Sent
<1>3. ASSUME NEW c \in DOMAIN conns, NEW i \in DOMAIN conns'[c].queue
      PROVE  \/ /\ i \in DOMAIN Queue(c) /\ conns'[c].queue[i] = Queue(c)[i]
                /\ Queue(c)[i].to # t
             \/ /\ i = Len(Queue(c)) + 1 /\ conns'[c].queue[i].to = t
                /\ \E op : op = conns'[c].queue[i] /\ Fits(c, op)'
  <2>1. CASE i \in DOMAIN Queue(c) /\ conns'[c].queue[i] = Queue(c)[i]
    BY <1>1, <2>1 DEF Remain
  <2>2. CASE GoesOn(t) /\ c = sends'[t].conn /\ conns'[c].queue[i] = Statement(t)'
             /\ i = Len(Queue(c)) + 1
    <3>1. Fits(sends[t].conn, Statement(t))' /\ Statement(t)'.to = t
      BY <1>1, <2>2, StatementFits
    <3>2. PICK op : op = Statement(t)'
      OBVIOUS
    <3>3. Fits(c, op)'
      BY <2>2, <3>1, <3>2 DEF Fits, Site, Flying, Row
    <3> QED
      BY <2>2, <3>1, <3>2, <3>3
  <2> QED
    BY <1>1, <2>1, <2>2 DEF Sent
<1>4. ASSUME NEW c \in DOMAIN conns, NEW i \in DOMAIN conns'[c].queue
      PROVE  Fits(c, Queue(c)[i])'
  <2>1. CASE i \in DOMAIN Queue(c) /\ conns'[c].queue[i] = Queue(c)[i] /\ Queue(c)[i].to # t
    <3>1. PICK op : op = Queue(c)[i]
      OBVIOUS
    <3>2. Fits(c, op)
      BY <2>1, <3>1 DEF Pending
    <3>3. Fits(c, op)'
      BY <1>1, <2>1, <3>1, <3>2, FitsStays
    <3> QED
      BY <2>1, <3>1, <3>3 DEF Fits, Queue, Site, Flying, Row
  <2>2. CASE \E op : op = conns'[c].queue[i] /\ Fits(c, op)'
    <3>1. PICK op : op = conns'[c].queue[i] /\ Fits(c, op)'
      BY <2>2
    <3> QED
      BY <3>1 DEF Fits, Queue, Site, Flying, Row
  <2> QED
    BY <1>3, <2>1, <2>2
<1>5. ASSUME NEW c \in DOMAIN conns, NEW i \in DOMAIN conns'[c].queue,
             NEW j \in DOMAIN conns'[c].queue, conns'[c].queue[i].to = conns'[c].queue[j].to
      PROVE  i = j
  <2>1. \A k, l \in DOMAIN Queue(c) : Queue(c)[k].to = Queue(c)[l].to => k = l
    BY DEF Pending
  <2> QED
    BY <1>3, <1>5, <2>1
<1>6. ASSUME NEW j \in DOMAIN answers'
      PROVE  \E k \in DOMAIN answers : answers'[j] = answers[k] /\ answers[k].to # t
  BY <1>1 DEF Remain
<1>7. ASSUME NEW c \in DOMAIN conns, NEW i \in DOMAIN conns'[c].queue, NEW j \in DOMAIN answers'
      PROVE  answers'[j].to # conns'[c].queue[i].to
  BY <1>3, <1>6 DEF Pending
<1>8. ASSUME NEW i \in DOMAIN answers'
      PROVE  Suits(answers[i])'
  <2>1. PICK k \in DOMAIN answers : answers'[i] = answers[k] /\ answers[k].to # t
    BY <1>6
  <2>2. PICK a : a = answers[k]
    OBVIOUS
  <2>3. Suits(a)
    BY <2>2 DEF Pending
  <2>4. Suits(a)'
    BY <1>1, <2>1, <2>2, <2>3, SuitsStays
  <2> QED
    BY <2>1, <2>2, <2>4 DEF Suits, Flying
<1>9. \A i, j \in DOMAIN answers' : answers'[i].to = answers'[j].to => i = j
  BY <1>1 DEF Remain
<1>10. (\E j \in DOMAIN answers : answers[j].to = TheUpdate) =>
          \E j \in DOMAIN answers' : answers'[j].to = TheUpdate
  BY <1>1 DEF Remain
<1>11. \A c \in DOMAIN conns :
         (\E i \in DOMAIN Queue(c) : Queue(c)[i].to = TheUpdate) =>
            \E i \in DOMAIN conns'[c].queue : conns'[c].queue[i].to = TheUpdate
  BY <1>1 DEF Sent
<1>12. Site' = Site /\ UNCHANGED update /\ \A c \in DOMAIN conns : conns'[c].live = conns[c].live
  BY <1>1 DEF Sent
<1>13. update.at # "idle" => Site \in DOMAIN conns
  BY SiteIs
<1>14. update'.at # "idle" => \/ \E j \in DOMAIN answers' : answers'[j].to = TheUpdate
                              \/ \E i \in DOMAIN conns'[Site].queue : conns'[Site].queue[i].to = TheUpdate
  BY <1>10, <1>11, <1>12, <1>13 DEF Pending
<1>15. update'.at = "shut" /\ conns'[Site].live = "open" =>
         \E i \in DOMAIN conns'[Site].queue : conns'[Site].queue[i].to = TheUpdate
  BY <1>11, <1>12, <1>13 DEF Pending
<1>16. \A c \in DOMAIN conns : conns'[c].live = "new" =>
         \E i \in DOMAIN conns'[c].queue : conns'[c].queue[i].to = TheUpdate
  BY <1>11, <1>12 DEF Pending
<1>17. \A c \in DOMAIN conns : conns'[c].live = "shut" =>
         \E j \in DOMAIN answers' : answers'[j].to = TheUpdate
  BY <1>10, <1>12 DEF Pending
<1> QED
  BY <1>2, <1>4, <1>5, <1>7, <1>8, <1>9, <1>12, <1>14, <1>15, <1>16, <1>17 DEF Pending, Queue

(* What Fits and Suits say is the same while nobody changes.                 *)
LEMMA FitsSame ==
    ASSUME UNCHANGED <<update, sends>>, Site' = Site, NEW c, NEW op
    PROVE  Fits(c, op)' <=> Fits(c, op)
<1>1. \A x : Flying(x)' = Flying(x)
  BY DEF Flying
<1>2. \A x, n, m : Row(x, n, m)' = Row(x, n, m)
  BY DEF Row
<1>3. Row(op.to, sends[op.to].table, sends[op.to].parent)' =
         Row(op.to, sends[op.to].table, sends[op.to].parent)
  BY DEF Row
<1> QED
  BY <1>1, <1>3 DEF Fits

LEMMA SuitsSame ==
    ASSUME UNCHANGED <<update, sends>>, NEW a
    PROVE  Suits(a)' <=> Suits(a)
BY DEF Suits, Flying

LEMMA UpdateAnswered ==
    ASSUME Typed, Sites, Pending, NEW c \in DOMAIN conns, NEW id, NEW how, Executes(c, id, how),
           First(c).to = TheUpdate
    PROVE  how = "ok"
<1>1. conns[c].queue # <<>> /\ 1 \in DOMAIN Queue(c) /\ First(c) = Queue(c)[1]
  BY MovedIs DEF Executes, Moved, First
<1>2. Fits(c, First(c))
  BY <1>1 DEF Pending
<1>3. c = Site /\ update.at = First(c).do
  BY <1>2 DEF Fits
<1>4. First(c).do \notin {"insert", "select", "commit"}
  BY <1>1, FirstFits
<1>5. ~Refusing(c, id, how)
  <2> SUFFICES ASSUME conns[c].live \in {"shut", "gone"} PROVE FALSE
    BY DEF Refusing
  <2>1. conns[c].live # "shut"
    <3> SUFFICES ASSUME conns[c].live = "shut" PROVE FALSE
      OBVIOUS
    <3>1. PICK j \in DOMAIN answers : answers[j].to = TheUpdate
      BY DEF Pending
    <3> QED
      BY <1>1, <3>1 DEF Pending
  <2>2. update.at \in {"shut", "connect", "create", "close"}
    <3>1. update.at # "idle"
      <4>1. First(c) \in Ops
        BY <1>1, Conns
      <4>2. First(c).do # "idle"
        BY <4>1 DEF Ops
      <4> QED
        BY <1>3, <4>2
    <3> QED
      BY <3>1 DEF Typed
  <2>3. CASE update.at = "connect"
    BY <1>3, <2>1, <2>3 DEF Site, Sites
  <2>4. CASE update.at # "connect"
    BY <1>3, <2>1, <2>2, <2>4 DEF Sites
  <2> QED
    BY <2>3, <2>4
<1> QED
  BY <1>4, <1>5 DEF Executes, Opening, Creating, Inserting, Keeping, Committing, Shutting

LEMMA PendingWhenExecuting ==
    ASSUME Typed, Sites, Pending, NEW c \in DOMAIN conns, NEW id, NEW how, Executes(c, id, how)
    PROVE  Pending'
<1>1. PICK x, do : x = First(c).to /\ do = First(c).do
  OBVIOUS
<1>2. /\ Lived(c) /\ Site' = Site /\ Moved(c, x, do, id, how) /\ UNCHANGED <<update, sends>>
      /\ DOMAIN conns' = DOMAIN conns /\ \A d \in DOMAIN conns : d # c => conns'[d] = conns[d]
  BY <1>1, RanIs
<1>3. Queue(c)[1] = First(c) /\ 1 \in DOMAIN Queue(c) /\ conns[c].queue # <<>>
  BY <1>2 DEF Moved, First, Executes
<1>4. ASSUME NEW d \in DOMAIN conns, NEW i \in DOMAIN conns'[d].queue
      PROVE  \E k \in DOMAIN Queue(d) : /\ conns'[d].queue[i] = Queue(d)[k] /\ Queue(d)[k].to # x
                                        /\ d # c => k = i
                                        /\ d = c => k = i + 1 /\ i \in Nat
  <2>1. CASE d = c
    BY <1>2, <2>1 DEF Moved
  <2>2. CASE d # c
    BY <1>2, <2>2 DEF Moved, Queue
  <2> QED
    BY <2>1, <2>2
<1>5. ASSUME NEW d \in DOMAIN conns, NEW i \in DOMAIN conns'[d].queue
      PROVE  Fits(d, Queue(d)[i])'
  <2>1. PICK k \in DOMAIN Queue(d) : conns'[d].queue[i] = Queue(d)[k]
    BY <1>4
  <2>2. PICK op : op = Queue(d)[k]
    OBVIOUS
  <2>3. Fits(d, op)
    BY <2>2 DEF Pending
  <2>4. Fits(d, op)'
    BY <1>2, <2>3, FitsSame
  <2> QED
    BY <2>1, <2>2, <2>4 DEF Fits, Queue, Site, Flying, Row
<1>6. ASSUME NEW d \in DOMAIN conns, NEW i \in DOMAIN conns'[d].queue,
             NEW j \in DOMAIN conns'[d].queue, conns'[d].queue[i].to = conns'[d].queue[j].to
      PROVE  i = j
  <2>1. PICK k \in DOMAIN Queue(d) : /\ conns'[d].queue[i] = Queue(d)[k]
                                     /\ d # c => k = i
                                     /\ d = c => k = i + 1 /\ i \in Nat
    BY <1>4
  <2>2. PICK l \in DOMAIN Queue(d) : /\ conns'[d].queue[j] = Queue(d)[l]
                                     /\ d # c => l = j
                                     /\ d = c => l = j + 1 /\ j \in Nat
    BY <1>4
  <2>3. k = l
    BY <1>6, <2>1, <2>2 DEF Pending
  <2> QED
    BY <2>1, <2>2, <2>3
<1>7. PICK a : a = [to |-> x, do |-> do, id |-> id, how |-> how]
  OBVIOUS
<1>8. a.to = x /\ a.do = do /\ a.how = how
  BY <1>7
<1>9. \A i \in DOMAIN answers' :
         \/ i \in DOMAIN answers /\ answers'[i] = answers[i] /\ answers[i].to # x
         \/ i = Len(answers) + 1 /\ answers'[i] = a
  BY <1>2, <1>7 DEF Moved
<1>10. /\ \A i \in DOMAIN answers : i \in DOMAIN answers' /\ answers'[i] = answers[i]
       /\ Len(answers) + 1 \in DOMAIN answers' /\ answers'[Len(answers) + 1] = a
  BY <1>2, <1>7 DEF Moved
<1>11. ASSUME NEW d \in DOMAIN conns, NEW i \in DOMAIN conns'[d].queue, NEW j \in DOMAIN answers'
       PROVE  answers'[j].to # conns'[d].queue[i].to
  <2>1. PICK k \in DOMAIN Queue(d) : conns'[d].queue[i] = Queue(d)[k] /\ Queue(d)[k].to # x
    BY <1>4
  <2> QED
    BY <1>8, <1>9, <2>1 DEF Pending
<1>12. Suits(a)
  <2>1. Fits(c, First(c))
    BY <1>3 DEF Pending
  <2>2. x = TheUpdate => how = "ok"
    BY <1>1, UpdateAnswered
  <2> QED
    BY <1>1, <1>8, <2>1, <2>2 DEF Fits, Suits
<1>13. ASSUME NEW i \in DOMAIN answers'
       PROVE  Suits(answers[i])'
  <2>1. PICK b : b = answers'[i]
    OBVIOUS
  <2>2. Suits(b)
    BY <1>9, <1>12, <2>1 DEF Pending
  <2>3. Suits(b)'
    BY <1>2, <2>2, SuitsSame
  <2> QED
    BY <2>1, <2>3 DEF Suits, Flying
<1>14. ASSUME NEW i \in DOMAIN answers', NEW j \in DOMAIN answers', answers'[i].to = answers'[j].to
       PROVE  i = j
  BY <1>8, <1>9, <1>14 DEF Pending
<1>15. (\E j \in DOMAIN answers : answers[j].to = TheUpdate) =>
          \E j \in DOMAIN answers' : answers'[j].to = TheUpdate
  BY <1>10
<1>16. x = TheUpdate => \E j \in DOMAIN answers' : answers'[j].to = TheUpdate
  BY <1>8, <1>10
<1>17. ASSUME NEW d \in DOMAIN conns, \E j \in DOMAIN Queue(d) : Queue(d)[j].to = TheUpdate,
              d # c \/ x # TheUpdate
       PROVE  \E j \in DOMAIN conns'[d].queue : conns'[d].queue[j].to = TheUpdate
  <2>1. PICK j \in DOMAIN Queue(d) : Queue(d)[j].to = TheUpdate
    BY <1>17
  <2>2. CASE d # c
    BY <1>2, <2>1, <2>2 DEF Queue
  <2>3. CASE d = c
    BY <1>2, <1>17, <2>1, <2>3 DEF Moved
  <2> QED
    BY <2>2, <2>3
<1>18. update.at # "idle" => Site \in DOMAIN conns
  BY SiteIs
<1>19. update.at # "idle" => \/ \E j \in DOMAIN answers' : answers'[j].to = TheUpdate
                             \/ \E i \in DOMAIN conns'[Site].queue : conns'[Site].queue[i].to = TheUpdate
  BY <1>15, <1>16, <1>17, <1>18 DEF Pending
<1>20. ASSUME NEW d \in DOMAIN conns, conns'[d].live = "new"
       PROVE  \E i \in DOMAIN conns'[d].queue : conns'[d].queue[i].to = TheUpdate
  <2>1. d # c
    BY <1>2, <1>20 DEF Lived
  <2> QED
    BY <1>2, <1>20, <2>1 DEF Pending, Queue
<1>21. ASSUME NEW d \in DOMAIN conns, conns'[d].live = "shut"
       PROVE  \E j \in DOMAIN answers' : answers'[j].to = TheUpdate
  <2>1. CASE conns[d].live = "shut"
    BY <1>15, <2>1 DEF Pending
  <2>2. CASE conns[d].live # "shut"
    <3>1. First(c).do = "shut"
      BY <1>2, <1>21, <2>2 DEF Lived
    <3>2. x = TheUpdate
      BY <1>1, <1>3, <3>1, FirstFits
    <3> QED
      BY <1>16, <3>2
  <2> QED
    BY <2>1, <2>2
<1>22. ASSUME update.at = "shut", conns'[Site].live = "open"
       PROVE  \E i \in DOMAIN conns'[Site].queue : conns'[Site].queue[i].to = TheUpdate
  <2>1. Site \in DOMAIN conns
    BY <1>18, <1>22
  <2>2. conns[Site].live = "open"
    BY <1>2, <1>22, <2>1 DEF Lived, Sites
  <2>3. x = TheUpdate => Site # c
    <3> SUFFICES ASSUME x = TheUpdate, Site = c PROVE FALSE
      OBVIOUS
    <3>1. Fits(c, First(c))
      BY <1>3 DEF Pending
    <3>2. First(c).do = "shut"
      BY <1>1, <1>22, <3>1 DEF Fits
    <3> QED
      BY <1>2, <1>22, <2>2, <3>2 DEF Lived
  <2> QED
    BY <1>17, <1>22, <2>1, <2>2, <2>3 DEF Pending
<1> QED
  BY <1>2, <1>5, <1>6, <1>11, <1>13, <1>14, <1>19, <1>20, <1>21, <1>22 DEF Pending, Queue

LEMMA IdleWaits ==
    ASSUME Typed, Pending, update.at = "idle"
    PROVE  /\ \A i \in DOMAIN answers : answers[i].to # TheUpdate
           /\ \A c \in DOMAIN conns : \A i \in DOMAIN Queue(c) : Queue(c)[i].to # TheUpdate
<1>1. ASSUME NEW i \in DOMAIN answers PROVE answers[i].to # TheUpdate
  <2>1. answers[i].do # "idle"
    BY Conns DEF AnswerSet
  <2> QED
    BY <2>1 DEF Pending, Suits
<1>2. ASSUME NEW c \in DOMAIN conns, NEW i \in DOMAIN Queue(c) PROVE Queue(c)[i].to # TheUpdate
  <2>1. Queue(c)[i].do # "idle"
    BY Conns DEF Ops
  <2> QED
    BY <2>1 DEF Pending, Fits
<1> QED
  BY <1>1, <1>2

LEMMA RemainIdle ==
    ASSUME Typed, Pending, update.at = "idle", answers' = answers
    PROVE  Remain(TheUpdate)
<1>1. \A i, j \in DOMAIN answers : answers[i].to = answers[j].to => i = j
  BY DEF Pending
<1> QED
  BY <1>1, IdleWaits DEF Remain

LEMMA FitsDown ==
    ASSUME NEW p, sends' = sends \/ Downs(p), NEW c, NEW op, op.to # TheUpdate, Fits(c, op)
    PROVE  Fits(c, op)'
<1>1. PICK x : x = op.to
  OBVIOUS
<1>2. x \in DOMAIN sends /\ Flying(x)
  BY <1>1 DEF Fits, Flying
<1>3. /\ Flying(x)' /\ sends'[x].at = sends[x].at /\ sends'[x].conn = sends[x].conn
      /\ sends'[x].table = sends[x].table /\ sends'[x].parent = sends[x].parent
      /\ sends'[x].probe = sends[x].probe
  BY <1>2, DownIs
<1>4. Row(x, sends[x].table, sends[x].parent)' = Row(x, sends[x].table, sends[x].parent)
  BY <1>3 DEF Row
<1> QED
  BY <1>1, <1>3, <1>4 DEF Fits

LEMMA SuitsDown ==
    ASSUME NEW p, sends' = sends \/ Downs(p), NEW a, a.to # TheUpdate, Suits(a)
    PROVE  Suits(a)'
<1>1. PICK x : x = a.to
  OBVIOUS
<1>2. x \in DOMAIN sends /\ Flying(x)
  BY <1>1 DEF Suits, Flying
<1>3. Flying(x)' /\ sends'[x].at = sends[x].at
  BY <1>2, DownIs
<1> QED
  BY <1>1, <1>3 DEF Suits

(* The update has no answer left, and queues a statement at its site or none.*)
LEMMA PendingWhenPut ==
    ASSUME Typed, Pending, Remain(TheUpdate), NEW p, sends' = sends \/ Downs(p),
           NEW c \in DOMAIN conns, NEW op, PutAt(c, op), op.to = TheUpdate, Site' = c, Fits(c, op)',
           \A d \in DOMAIN conns : conns[d].live \notin {"new", "shut"}
    PROVE  Pending'
<1>1. DOMAIN conns' = DOMAIN conns /\ \A d \in DOMAIN conns : conns'[d].live = conns[d].live
  BY DEF PutAt
<1>2. ASSUME NEW d \in DOMAIN conns, NEW i \in DOMAIN conns'[d].queue
      PROVE  \/ /\ i \in DOMAIN Queue(d) /\ conns'[d].queue[i] = Queue(d)[i]
                /\ Queue(d)[i].to # TheUpdate
             \/ d = c /\ i = Len(Queue(d)) + 1 /\ conns'[d].queue[i] = op
  BY DEF PutAt, Remain
<1>3. ASSUME NEW d \in DOMAIN conns, NEW i \in DOMAIN conns'[d].queue
      PROVE  Fits(d, Queue(d)[i])'
  <2>1. CASE /\ i \in DOMAIN Queue(d) /\ conns'[d].queue[i] = Queue(d)[i]
             /\ Queue(d)[i].to # TheUpdate
    <3>1. PICK o : o = Queue(d)[i]
      OBVIOUS
    <3>2. Fits(d, o)
      BY <2>1, <3>1 DEF Pending
    <3>3. Fits(d, o)'
      BY <2>1, <3>1, <3>2, FitsDown
    <3> QED
      BY <2>1, <3>1, <3>3 DEF Fits, Queue, Site, Flying, Row
  <2>2. CASE d = c /\ conns'[d].queue[i] = op
    BY <2>2 DEF Fits, Queue, Site, Flying, Row
  <2> QED
    BY <1>2, <2>1, <2>2
<1>4. ASSUME NEW d \in DOMAIN conns, NEW i \in DOMAIN conns'[d].queue,
             NEW j \in DOMAIN conns'[d].queue, conns'[d].queue[i].to = conns'[d].queue[j].to
      PROVE  i = j
  <2>1. \A k, l \in DOMAIN Queue(d) : Queue(d)[k].to = Queue(d)[l].to => k = l
    BY DEF Pending
  <2> QED
    BY <1>2, <1>4, <2>1
<1>5. \A j \in DOMAIN answers' : \E k \in DOMAIN answers : /\ answers'[j] = answers[k]
                                                           /\ answers[k].to # TheUpdate
  BY DEF Remain
<1>6. ASSUME NEW d \in DOMAIN conns, NEW i \in DOMAIN conns'[d].queue, NEW j \in DOMAIN answers'
      PROVE  answers'[j].to # conns'[d].queue[i].to
  BY <1>2, <1>5 DEF Pending
<1>7. ASSUME NEW i \in DOMAIN answers'
      PROVE  Suits(answers[i])'
  <2>1. PICK k \in DOMAIN answers : answers'[i] = answers[k] /\ answers[k].to # TheUpdate
    BY <1>5
  <2>2. PICK a : a = answers[k]
    OBVIOUS
  <2>3. Suits(a)
    BY <2>2 DEF Pending
  <2>4. Suits(a)'
    BY <2>1, <2>2, <2>3, SuitsDown
  <2> QED
    BY <2>1, <2>2, <2>4 DEF Suits, Flying
<1>8. \A i, j \in DOMAIN answers' : answers'[i].to = answers'[j].to => i = j
  BY DEF Remain
<1>9. \E i \in DOMAIN conns'[c].queue : conns'[c].queue[i].to = TheUpdate
  BY DEF PutAt
<1> QED
  BY <1>1, <1>3, <1>4, <1>6, <1>7, <1>8, <1>9 DEF Pending, Queue

LEMMA PendingWhenShut ==
    ASSUME Typed, Sites, Pending, NEW p, Shuts(p)
    PROVE  Pending'
<1>1. ShutAt(p)
  BY ShutIs
<1>2. PICK op : op.to = TheUpdate /\ op.do = "shut" /\ PutAt(plugins[p].conn, op)
  BY <1>1 DEF ShutAt
<1>3. /\ plugins[p].conn \in DOMAIN conns /\ Site' = plugins[p].conn /\ update'.at = "shut"
      /\ update.at = "idle" /\ answers' = answers /\ Downs(p)
  BY <1>1 DEF ShutAt, Idle
<1>4. \A d \in DOMAIN conns : conns[d].live \notin {"new", "shut"}
  BY <1>3 DEF Sites
<1>5. Fits(plugins[p].conn, op)'
  <2>1. PICK c \in DOMAIN conns : c = plugins[p].conn
    BY <1>3
  <2>2. plugins' = plugins
    BY <1>1 DEF ShutAt
  <2>3. Fits(c, op)'
    BY <1>2, <1>3, <2>1 DEF Fits
  <2> QED
    BY <2>1, <2>2, <2>3 DEF Fits, Site, Flying, Row
<1>6. PICK c \in DOMAIN conns : c = plugins[p].conn /\ Fits(c, op)'
  <2>1. PICK c \in DOMAIN conns : c = plugins[p].conn
    BY <1>3
  <2>2. Fits(c, op)'
    BY <1>2, <1>3, <2>1 DEF Fits
  <2> QED
    BY <2>1, <2>2
<1> QED
  BY <1>2, <1>3, <1>4, <1>6, RemainIdle, PendingWhenPut

LEMMA PendingWhenAsking ==
    ASSUME Typed, Sites, Pending, Asks
    PROVE  Pending'
<1>1. Goes
  BY GoesIs
<1>2. PICK op : /\ op.to = TheUpdate /\ op.do = update'.at /\ PutAt(Site, op)
                /\ op.do = "create" => op.table = update'.table
  BY <1>1 DEF Goes
<1>3. PICK c \in DOMAIN conns : c = Site
  BY <1>1 DEF Goes
<1>4. c = Site' /\ sends' = sends /\ Shifted(TheUpdate)
  BY <1>1, <1>3 DEF Goes
<1>5. Fits(c, op)'
  BY <1>2, <1>4 DEF Fits
<1>6. \A d \in DOMAIN conns : conns[d].live \notin {"new", "shut"}
  <2> SUFFICES ASSUME NEW d \in DOMAIN conns PROVE conns[d].live \notin {"new", "shut"}
    OBVIOUS
  <2>1. conns[d].live # "shut"
    BY <1>1 DEF Goes, Sites
  <2>2. CASE conns[d].live = "new"
    <3>1. d = Site
      BY <2>2 DEF Sites, Site
    <3> QED
      BY <1>1, <2>2, <3>1 DEF Goes
  <2> QED
    BY <2>1, <2>2
<1>7. Remain(TheUpdate)
  BY <1>4, RemainIs
<1> QED
  BY <1>2, <1>3, <1>4, <1>5, <1>6, <1>7, PendingWhenPut

(* The update has no answer left, and there may be a new connection.         *)
LEMMA PendingWhenLeft ==
    ASSUME Typed, Pending, Remain(TheUpdate), NEW p, sends' = sends \/ Downs(p),
           DOMAIN conns \subseteq DOMAIN conns',
           \A c \in DOMAIN conns : conns'[c].queue = Queue(c) /\ conns'[c].live \notin {"new", "shut"},
           \A c \in DOMAIN conns' : c \notin DOMAIN conns => NewComer(c) /\ Site' = c,
           update'.at \in {"idle", "connect"},
           update'.at = "connect" => Site' \in DOMAIN conns' /\ Site' \notin DOMAIN conns
    PROVE  Pending'
<1>1. ASSUME NEW d \in DOMAIN conns, NEW i \in DOMAIN conns'[d].queue
      PROVE  /\ i \in DOMAIN Queue(d) /\ conns'[d].queue[i] = Queue(d)[i]
             /\ Queue(d)[i].to # TheUpdate
  BY DEF Remain
<1>2. ASSUME NEW d \in DOMAIN conns', d \notin DOMAIN conns, NEW i \in DOMAIN conns'[d].queue
      PROVE  /\ i = 1 /\ conns'[d].queue[i].to = TheUpdate /\ conns'[d].queue[i].do = "connect"
             /\ update'.at = "connect" /\ Site' = d
  BY <1>2 DEF NewComer
<1>3. ASSUME NEW d \in DOMAIN conns', NEW i \in DOMAIN conns'[d].queue
      PROVE  Fits(d, Queue(d)[i])'
  <2>1. CASE d \in DOMAIN conns
    <3>1. PICK o : o = Queue(d)[i]
      OBVIOUS
    <3>2. Fits(d, o) /\ o.to # TheUpdate
      BY <1>1, <2>1, <3>1 DEF Pending
    <3>3. Fits(d, o)'
      BY <3>2, FitsDown
    <3> QED
      BY <1>1, <2>1, <3>1, <3>3 DEF Fits, Queue, Site, Flying, Row
  <2>2. CASE d \notin DOMAIN conns
    <3>1. PICK o : o = conns'[d].queue[i]
      OBVIOUS
    <3>2. o.to = TheUpdate /\ o.do = "connect" /\ update'.at = "connect" /\ Site' = d
      BY <1>2, <2>2, <3>1
    <3>3. Fits(d, o)'
      BY <3>2 DEF Fits
    <3> QED
      BY <3>1, <3>3 DEF Fits, Queue, Site, Flying, Row
  <2> QED
    BY <2>1, <2>2
<1>4. ASSUME NEW d \in DOMAIN conns', NEW i \in DOMAIN conns'[d].queue,
             NEW j \in DOMAIN conns'[d].queue, conns'[d].queue[i].to = conns'[d].queue[j].to
      PROVE  i = j
  <2>1. CASE d \in DOMAIN conns
    BY <1>1, <1>4, <2>1 DEF Pending
  <2>2. CASE d \notin DOMAIN conns
    BY <1>2, <2>2
  <2> QED
    BY <2>1, <2>2
<1>5. \A j \in DOMAIN answers' : \E k \in DOMAIN answers : /\ answers'[j] = answers[k]
                                                           /\ answers[k].to # TheUpdate
  BY DEF Remain
<1>6. ASSUME NEW d \in DOMAIN conns', NEW i \in DOMAIN conns'[d].queue, NEW j \in DOMAIN answers'
      PROVE  answers'[j].to # conns'[d].queue[i].to
  <2>1. CASE d \in DOMAIN conns
    BY <1>1, <1>5, <2>1 DEF Pending
  <2>2. CASE d \notin DOMAIN conns
    BY <1>2, <1>5, <2>2
  <2> QED
    BY <2>1, <2>2
<1>7. ASSUME NEW i \in DOMAIN answers'
      PROVE  Suits(answers[i])'
  <2>1. PICK k \in DOMAIN answers : answers'[i] = answers[k] /\ answers[k].to # TheUpdate
    BY <1>5
  <2>2. PICK a : a = answers[k]
    OBVIOUS
  <2>3. Suits(a)
    BY <2>2 DEF Pending
  <2>4. Suits(a)'
    BY <2>1, <2>2, <2>3, SuitsDown
  <2> QED
    BY <2>1, <2>2, <2>4 DEF Suits, Flying
<1>8. \A i, j \in DOMAIN answers' : answers'[i].to = answers'[j].to => i = j
  BY DEF Remain
<1>9. ASSUME NEW d \in DOMAIN conns', d \notin DOMAIN conns
      PROVE  /\ conns'[d].live = "new"
             /\ \E i \in DOMAIN conns'[d].queue : conns'[d].queue[i].to = TheUpdate
  BY <1>9 DEF NewComer
<1>10. update'.at # "idle" =>
         \E i \in DOMAIN conns'[Site'].queue : conns'[Site'].queue[i].to = TheUpdate
  BY <1>9
<1>11. \A d \in DOMAIN conns' : conns'[d].live = "new" =>
         \E i \in DOMAIN conns'[d].queue : conns'[d].queue[i].to = TheUpdate
  BY <1>9
<1>12. \A d \in DOMAIN conns' : conns'[d].live # "shut"
  BY <1>9
<1> QED
  BY <1>3, <1>4, <1>6, <1>7, <1>8, <1>10, <1>11, <1>12 DEF Pending, Queue

LEMMA PendingWhenRenewed ==
    ASSUME Typed, Sites, Pending, NEW p, NEW g, Renews(p, g)
    PROVE  Pending'
<1>1. Renewed(p, g)
  BY RenewIs
<1>2. Remain(TheUpdate)
  <2>1. CASE update.at = "idle" /\ answers' = answers
    BY <2>1, RemainIdle
  <2>2. CASE Shifted(TheUpdate)
    BY <2>2, RemainIs
  <2> QED
    BY <1>1, <2>1, <2>2 DEF Renewed
<1>3. \A c \in DOMAIN conns : conns'[c].queue = Queue(c) /\ conns'[c].live \notin {"new", "shut"}
  <2> SUFFICES ASSUME NEW c \in DOMAIN conns
               PROVE  conns'[c].queue = Queue(c) /\ conns'[c].live \notin {"new", "shut"}
    OBVIOUS
  <2>1. conns[c].live # "new" /\ (conns[c].live = "shut" => update.at = "shut" /\ c = Site)
    BY <1>1 DEF Renewed, Sites
  <2> QED
    BY <1>1, <2>1 DEF Renewed, Queue
<1>4. \A c \in DOMAIN conns' : c \notin DOMAIN conns => NewComer(c) /\ Site' = c
  BY <1>1 DEF Renewed, NewComer
<1>5. /\ sends' = sends \/ Downs(p)
      /\ DOMAIN conns \subseteq DOMAIN conns' /\ update'.at \in {"idle", "connect"}
      /\ update'.at = "connect" => Site' \in DOMAIN conns' /\ Site' \notin DOMAIN conns
  BY <1>1 DEF Renewed
<1> QED
  BY <1>2, <1>3, <1>4, <1>5, PendingWhenLeft

LEMMA PendingWhenFinished ==
    ASSUME Typed, Sites, Pending, Finishes
    PROVE  Pending'
<1>1. /\ Shifted(TheUpdate) /\ update.at = "close" /\ update' = Idle
      /\ UNCHANGED <<conns, sends>>
  BY TakesFacts DEF Finishes
<1>2. Remain(TheUpdate)
  BY <1>1, RemainIs
<1>3. \A c \in DOMAIN conns : conns'[c].queue = Queue(c) /\ conns'[c].live \notin {"new", "shut"}
  BY <1>1 DEF Queue, Sites
<1>4. update'.at = "idle"
  BY <1>1 DEF Idle
<1>5. PICK p : p = 0
  OBVIOUS
<1> QED
  BY <1>1, <1>2, <1>3, <1>4, <1>5, PendingWhenLeft

LEMMA PendingWhenFresh ==
    ASSUME Pending, Fresh
    PROVE  Pending'
<1>1. UNCHANGED <<plugins, conns, update, answers>> /\ Site' = Site
  BY DEF Fresh, sinkVars, Site
<1>2. ASSUME NEW t, Flying(t)
      PROVE  /\ Flying(t)' /\ sends'[t] = sends[t]
             /\ Row(t, sends[t].table, sends[t].parent)' = Row(t, sends[t].table, sends[t].parent)
  BY <1>2 DEF Fresh, Flying, Row
<1>3. ASSUME NEW c \in DOMAIN conns, NEW i \in DOMAIN Queue(c)
      PROVE  Fits(c, Queue(c)[i])'
  <2>1. PICK op : op = Queue(c)[i]
    OBVIOUS
  <2>2. Fits(c, op)
    BY <2>1 DEF Pending
  <2>3. Fits(c, op)'
    BY <1>1, <1>2, <2>2 DEF Fits
  <2> QED
    BY <1>1, <2>1, <2>3 DEF Fits, Queue, Site, Flying, Row
<1>4. ASSUME NEW i \in DOMAIN answers
      PROVE  Suits(answers[i])'
  <2>1. PICK a : a = answers[i]
    OBVIOUS
  <2>2. Suits(a)
    BY <2>1 DEF Pending
  <2>3. Suits(a)'
    BY <1>1, <1>2, <2>2 DEF Suits
  <2> QED
    BY <1>1, <2>1, <2>3 DEF Suits, Flying
<1> QED
  BY <1>1, <1>3, <1>4 DEF Pending, Queue

LEMMA PendingWhenQuiet ==
    ASSUME Pending, Quiet
    PROVE  Pending'
<1>1. UNCHANGED <<plugins, conns, update, answers, sends>> /\ Site' = Site
  BY DEF Quiet, Site
<1>2. ASSUME NEW c \in DOMAIN conns, NEW i \in DOMAIN Queue(c)
      PROVE  Fits(c, Queue(c)[i])'
  <2>1. PICK op : op = Queue(c)[i]
    OBVIOUS
  <2>2. Fits(c, op)
    BY <2>1 DEF Pending
  <2>3. Fits(c, op)'
    BY <1>1, <2>2, FitsSame
  <2> QED
    BY <1>1, <2>1, <2>3 DEF Fits, Queue, Site, Flying, Row
<1>3. ASSUME NEW i \in DOMAIN answers
      PROVE  Suits(answers[i])'
  BY <1>1 DEF Suits, Flying, Pending
<1> QED
  BY <1>1, <1>2, <1>3 DEF Pending, Queue

LEMMA PendingWhenAgain ==
    ASSUME Again
    PROVE  Pending'
<1>1. conns' = <<>> /\ answers' = <<>> /\ update' = Idle
  BY DEF Again
<1>2. update'.at = "idle" /\ DOMAIN conns' = {} /\ DOMAIN answers' = {}
  BY <1>1 DEF Idle
<1> QED
  BY <1>2 DEF Pending

-------------------------------------------------------------------------------
(* Answers come before that of the close.                                    *)
LEMMA AnswersOf ==
    ASSUME Typed, Sites, Pending, NEW i \in DOMAIN answers, answers[i].to # TheUpdate
    PROVE  /\ answers[i].to \in DOMAIN sends /\ Flying(answers[i].to)
           /\ sends[answers[i].to].conn \in DOMAIN conns /\ sends[answers[i].to].at = answers[i].do
<1>1. Flying(answers[i].to) /\ sends[answers[i].to].at = answers[i].do
  BY DEF Pending, Suits
<1>2. answers[i].to \in DOMAIN sends
  BY <1>1 DEF Flying
<1> QED
  BY <1>1, <1>2, FlightIs

LEMMA PunctualWhenSending ==
    ASSUME Typed, Sites, Pending, Punctual, NEW t \in DOMAIN sends, GoesOn(t) \/ Ends(t)
    PROVE  Punctual'
<1>1. Sent(t) /\ Remain(t) /\ t # TheUpdate
  BY SentIs, SentRemains
<1>2. ASSUME NEW i \in DOMAIN answers'
      PROVE  \E k \in DOMAIN answers :
                /\ answers'[i] = answers[k] /\ answers[k].to # t
                /\ (\E j \in DOMAIN answers : k < j /\ answers[j].to = TheUpdate) =>
                      \E j \in DOMAIN answers' : i < j /\ answers'[j].to = TheUpdate
  <2>1. CASE answers' = answers
    BY <1>1, <2>1 DEF Remain
  <2>2. CASE Shifted(t)
    <3>1. /\ i + 1 \in DOMAIN answers /\ answers'[i] = answers[i + 1] /\ answers'[i].to # t
          /\ i \in Nat /\ DOMAIN answers \subseteq Nat
      BY <2>2 DEF Shifted
    <3>2. ASSUME NEW j \in DOMAIN answers, i + 1 < j, answers[j].to = TheUpdate
          PROVE  j - 1 \in DOMAIN answers' /\ answers'[j - 1].to = TheUpdate /\ i < j - 1
      <4>1. j - 1 \in DOMAIN answers' /\ answers'[j - 1] = answers[j]
        BY <1>1, <2>2, <3>2 DEF Shifted
      <4> QED
        BY <3>1, <3>2, <4>1
    <3> QED
      BY <3>1, <3>2
  <2> QED
    BY <1>1, <2>1, <2>2 DEF Sent
<1>3. ASSUME NEW i \in DOMAIN answers', NEW x, x = answers'[i].to, x # TheUpdate,
             answers'[i].how = "ok", conns'[sends'[x].conn].live # "open"
      PROVE  /\ conns'[sends'[x].conn].live = "shut"
             /\ \E j \in DOMAIN answers' : i < j /\ answers'[j].to = TheUpdate
  <2>1. PICK k \in DOMAIN answers :
           /\ answers'[i] = answers[k] /\ answers[k].to # t
           /\ (\E j \in DOMAIN answers : k < j /\ answers[j].to = TheUpdate) =>
                 \E j \in DOMAIN answers' : i < j /\ answers'[j].to = TheUpdate
    BY <1>2
  <2>2. x \in DOMAIN sends /\ sends[x].conn \in DOMAIN conns /\ x # t
    BY <1>3, <2>1, AnswersOf
  <2>3. sends'[x] = sends[x] /\ conns'[sends[x].conn].live = conns[sends[x].conn].live
    BY <1>1, <2>2 DEF Sent
  <2>4. /\ conns[sends[x].conn].live = "shut"
        /\ \E j \in DOMAIN answers : k < j /\ answers[j].to = TheUpdate
    BY <1>3, <2>1, <2>3 DEF Punctual
  <2> QED
    BY <2>1, <2>3, <2>4
<1> QED
  BY <1>3 DEF Punctual

LEMMA PunctualWhenExecuting ==
    ASSUME Typed, Sites, Pending, Punctual, NEW c \in DOMAIN conns, NEW id, NEW how,
           Executes(c, id, how)
    PROVE  Punctual'
<1>1. PICK x, do : x = First(c).to /\ do = First(c).do
  OBVIOUS
<1>2. /\ Lived(c) /\ Moved(c, x, do, id, how) /\ sends' = sends
      /\ \A d \in DOMAIN conns : d # c => conns'[d] = conns[d]
  BY <1>1, RanIs
<1>3. Queue(c)[1] = First(c) /\ 1 \in DOMAIN Queue(c) /\ conns[c].queue # <<>>
  BY <1>2 DEF Moved, First, Executes
<1>4. PICK a : a = [to |-> x, do |-> do, id |-> id, how |-> how]
  OBVIOUS
<1>5. /\ \A i \in DOMAIN answers : i \in DOMAIN answers' /\ answers'[i] = answers[i]
      /\ \A i \in DOMAIN answers' : \/ i \in DOMAIN answers /\ answers'[i] = answers[i]
                                    \/ i = Len(answers) + 1 /\ answers'[i] = a
      /\ Len(answers) + 1 \in DOMAIN answers' /\ answers'[Len(answers) + 1] = a
      /\ \A i \in DOMAIN answers : i < Len(answers) + 1
  BY <1>2, <1>4 DEF Moved
<1>6. do \in {"connect", "shut"} => x = TheUpdate
  BY <1>1, <1>3, FirstFits
<1>7. ASSUME NEW i \in DOMAIN answers, NEW y, y = answers[i].to, y # TheUpdate,
             answers[i].how = "ok", conns'[sends[y].conn].live # "open"
      PROVE  /\ conns'[sends[y].conn].live = "shut"
             /\ \E j \in DOMAIN answers' : i < j /\ answers'[j].to = TheUpdate
  <2>1. y \in DOMAIN sends /\ sends[y].conn \in DOMAIN conns
    BY <1>7, AnswersOf
  <2>2. CASE conns[sends[y].conn].live = "open"
    <3>1. sends[y].conn = c /\ conns'[c].live = "shut" /\ do = "shut"
      BY <1>1, <1>2, <1>7, <2>1, <2>2 DEF Lived
    <3>2. a.to = TheUpdate
      BY <1>4, <1>6, <3>1
    <3> QED
      BY <1>5, <1>7, <3>1, <3>2
  <2>3. CASE conns[sends[y].conn].live # "open"
    <3>1. /\ conns[sends[y].conn].live = "shut"
          /\ \E j \in DOMAIN answers : i < j /\ answers[j].to = TheUpdate
      BY <1>7, <2>3 DEF Punctual
    <3>2. conns'[sends[y].conn].live = "shut"
      BY <1>2, <2>1, <3>1 DEF Lived
    <3> QED
      BY <1>5, <3>1, <3>2
  <2> QED
    BY <2>2, <2>3
<1>8. ASSUME x # TheUpdate, how = "ok"
      PROVE  conns'[sends[x].conn].live = "open"
  <2>1. Fits(c, First(c))
    BY <1>3 DEF Pending
  <2>2. sends[x].conn = c
    BY <1>1, <1>8, <2>1 DEF Fits
  <2>3. ~Refusing(c, id, how)
    BY <1>8 DEF Refusing
  <2>4. conns[c].live \notin {"shut", "gone"}
    BY <2>3 DEF Executes, Opening, Creating, Inserting, Keeping, Committing, Shutting
  <2> QED
    BY <1>1, <1>2, <1>6, <1>8, <2>2, <2>4 DEF Lived
<1>9. ASSUME NEW i \in DOMAIN answers', NEW y, y = answers'[i].to, y # TheUpdate,
             answers'[i].how = "ok", conns'[sends'[y].conn].live # "open"
      PROVE  /\ conns'[sends'[y].conn].live = "shut"
             /\ \E j \in DOMAIN answers' : i < j /\ answers'[j].to = TheUpdate
  <2>1. CASE i \in DOMAIN answers /\ answers'[i] = answers[i]
    BY <1>2, <1>7, <1>9, <2>1
  <2>2. CASE answers'[i] = a
    <3>1. a.to = x /\ a.how = how
      BY <1>4
    <3> QED
      BY <1>2, <1>8, <1>9, <2>2, <3>1
  <2> QED
    BY <1>5, <2>1, <2>2
<1> QED
  BY <1>9 DEF Punctual

LEMMA PunctualWhenShut ==
    ASSUME Typed, Sites, Pending, Punctual, NEW p, Shuts(p)
    PROVE  Punctual'
<1>1. ShutAt(p) /\ answers' = answers /\ Downs(p)
  BY ShutIs DEF ShutAt
<1>2. PICK op : PutAt(plugins[p].conn, op)
  BY <1>1 DEF ShutAt
<1>3. \A d \in DOMAIN conns : conns'[d].live = conns[d].live
  BY <1>2 DEF PutAt
<1>4. \A x \in DOMAIN sends : sends'[x].conn = sends[x].conn
  BY <1>1 DEF Downs
<1>5. \A i \in DOMAIN answers : answers[i].to # TheUpdate =>
         /\ answers[i].to \in DOMAIN sends /\ sends[answers[i].to].conn \in DOMAIN conns
  BY AnswersOf
<1> QED
  BY <1>1, <1>3, <1>4, <1>5 DEF Punctual

(* The update has taken its answer: nobody else has one of a closed          *)
(* connection.                                                               *)
LEMMA PunctualFacts ==
    ASSUME Pending, Punctual, Remain(TheUpdate),
           answers' = answers \/ Shifted(TheUpdate)
    PROVE  \A i \in DOMAIN answers' :
              /\ answers'[i].to # TheUpdate
              /\ \E k \in DOMAIN answers : answers'[i] = answers[k]
              /\ answers'[i].how = "ok" => conns[sends[answers'[i].to].conn].live = "open"
<1> SUFFICES ASSUME NEW i \in DOMAIN answers'
             PROVE  /\ answers'[i].to # TheUpdate
                    /\ \E k \in DOMAIN answers : answers'[i] = answers[k]
                    /\ answers'[i].how = "ok" => conns[sends[answers'[i].to].conn].live = "open"
  OBVIOUS
<1>1. answers'[i].to # TheUpdate
  BY DEF Remain
<1>2. CASE answers' = answers
  <2>1. \A j \in DOMAIN answers : answers[j].to # TheUpdate
    BY <1>2 DEF Remain
  <2> QED
    BY <1>1, <1>2, <2>1 DEF Punctual
<1>3. CASE Shifted(TheUpdate)
  <2>1. /\ i + 1 \in DOMAIN answers /\ answers'[i] = answers[i + 1]
        /\ 1 \in DOMAIN answers /\ answers[1].to = TheUpdate /\ i \in Nat \ {0}
    BY <1>3 DEF Shifted
  <2>2. ASSUME NEW j \in DOMAIN answers, answers[j].to = TheUpdate, i + 1 < j
        PROVE  FALSE
    <3>1. j = 1
      BY <2>1, <2>2 DEF Pending
    <3> QED
      BY <2>1, <2>2, <3>1
  <2> QED
    BY <1>1, <2>1, <2>2 DEF Punctual
<1> QED
  BY <1>2, <1>3

LEMMA PunctualWhenRenewed ==
    ASSUME Typed, Sites, Pending, Punctual, NEW p, NEW g, Renews(p, g)
    PROVE  Punctual'
<1>1. Renewed(p, g)
  BY RenewIs
<1>2. Remain(TheUpdate)
  <2>1. CASE update.at = "idle" /\ answers' = answers
    BY <2>1, RemainIdle
  <2>2. CASE Shifted(TheUpdate)
    BY <2>2, RemainIs
  <2> QED
    BY <1>1, <2>1, <2>2 DEF Renewed
<1>3. answers' = answers \/ Shifted(TheUpdate)
  BY <1>1 DEF Renewed
<1>4. ASSUME NEW i \in DOMAIN answers', answers'[i].how = "ok"
      PROVE  conns'[sends'[answers'[i].to].conn].live = "open"
  <2>1. PICK k \in DOMAIN answers : answers'[i] = answers[k]
    BY <1>2, <1>3, PunctualFacts
  <2>2. PICK x : x = answers'[i].to
    OBVIOUS
  <2>3. x # TheUpdate /\ conns[sends[x].conn].live = "open"
    BY <1>2, <1>3, <1>4, <2>2, PunctualFacts
  <2>4. x \in DOMAIN sends /\ sends[x].conn \in DOMAIN conns
    BY <2>1, <2>2, <2>3, AnswersOf
  <2>5. sends'[x].conn = sends[x].conn
    BY <1>1, <2>4, DownIs DEF Renewed
  <2>6. sends[x].conn # g
    <3>1. CASE g = 0
      BY <2>4, <3>1, Conns
    <3>2. CASE g = Site /\ update.at = "shut"
      <4>1. \A d \in DOMAIN conns : \A j \in DOMAIN Queue(d) : Queue(d)[j].to # TheUpdate
        BY <1>2 DEF Remain
      <4>2. Site \in DOMAIN conns
        BY <3>2, SiteIs
      <4>3. conns[Site].live # "open"
        BY <3>2, <4>1, <4>2 DEF Pending
      <4> QED
        BY <2>3, <3>2, <4>3
    <3> QED
      BY <1>1, <3>1, <3>2 DEF Renewed
  <2> QED
    BY <1>1, <2>2, <2>3, <2>4, <2>5, <2>6 DEF Renewed
<1> QED
  BY <1>4 DEF Punctual

LEMMA PunctualWhenAsking ==
    ASSUME Typed, Sites, Pending, Punctual, Asks
    PROVE  Punctual'
<1>1. Goes /\ Shifted(TheUpdate) /\ sends' = sends
  BY GoesIs DEF Goes
<1>2. PICK op : PutAt(Site, op)
  BY <1>1 DEF Goes
<1>3. \A d \in DOMAIN conns : conns'[d].live = conns[d].live
  BY <1>2 DEF PutAt
<1>4. Remain(TheUpdate)
  BY <1>1, RemainIs
<1>5. ASSUME NEW i \in DOMAIN answers', answers'[i].how = "ok"
      PROVE  conns'[sends'[answers'[i].to].conn].live = "open"
  <2>1. PICK k \in DOMAIN answers : answers'[i] = answers[k]
    BY <1>1, <1>4, PunctualFacts
  <2>2. /\ answers'[i].to # TheUpdate
        /\ conns[sends[answers'[i].to].conn].live = "open"
    BY <1>1, <1>4, <1>5, PunctualFacts
  <2>3. sends[answers'[i].to].conn \in DOMAIN conns
    BY <2>1, <2>2, AnswersOf
  <2> QED
    BY <1>1, <1>3, <2>2, <2>3
<1> QED
  BY <1>5 DEF Punctual

LEMMA PunctualWhenFinished ==
    ASSUME Typed, Sites, Pending, Punctual, Finishes
    PROVE  Punctual'
<1>1. Shifted(TheUpdate) /\ UNCHANGED <<conns, sends>>
  BY TakesFacts DEF Finishes
<1>2. Remain(TheUpdate)
  BY <1>1, RemainIs
<1>3. \A i \in DOMAIN answers' :
         answers'[i].how = "ok" => conns[sends[answers'[i].to].conn].live = "open"
  BY <1>1, <1>2, PunctualFacts
<1> QED
  BY <1>1, <1>3 DEF Punctual

LEMMA PunctualWhenFresh ==
    ASSUME Typed, Sites, Pending, Punctual, Fresh
    PROVE  Punctual'
<1>1. UNCHANGED <<conns, answers>> /\ \A t \in DOMAIN sends : sends'[t] = sends[t]
  BY DEF Fresh
<1>2. \A i \in DOMAIN answers : answers[i].to # TheUpdate => answers[i].to \in DOMAIN sends
  BY AnswersOf
<1> QED
  BY <1>1, <1>2 DEF Punctual

LEMMA PunctualWhenQuiet ==
    ASSUME Punctual, Quiet
    PROVE  Punctual'
BY DEF Punctual, Quiet

LEMMA PunctualWhenAgain ==
    ASSUME Again
    PROVE  Punctual'
<1>1. answers' = <<>>
  BY DEF Again
<1>2. DOMAIN answers' = {}
  BY <1>1
<1> QED
  BY <1>2 DEF Punctual

-------------------------------------------------------------------------------
(* Ids stand for the rows that led to them.                                  *)
Probed ==
    \A t \in DOMAIN sends : t \in DOMAIN sends' /\ sends'[t].probe = sends[t].probe

LEMMA OwnStays ==
    ASSUME NEW rows, Own(rows), Probed
    PROVE  Own(rows)'
<1> SUFFICES ASSUME NEW i \in DOMAIN rows[4]
             PROVE  \E t \in DOMAIN sends' :
                       /\ t[1] = rows[4][i].key
                       /\ IsCase(rows, t[1], sends'[t].probe, rows[4][i].parent)
  BY DEF Own
<1>1. PICK t \in DOMAIN sends : /\ t[1] = rows[4][i].key
                                /\ IsCase(rows, t[1], sends[t].probe, rows[4][i].parent)
  BY DEF Own
<1> QED
  BY <1>1 DEF Probed

(* Tables with more rows.                                                    *)
Grown(rows, new) ==
    \A n \in 1..4 : \A i \in DOMAIN rows[n] : i \in DOMAIN new[n] /\ new[n][i] = rows[n][i]

LEMMA LeadsGrow ==
    ASSUME NEW rows, NEW new, Grown(rows, new), NEW r, NEW b, NEW i
    PROVE  /\ IsCase(rows, r, b, i) => IsCase(new, r, b, i)
           /\ \A n : Leads(rows, r, b, n, i) => Leads(new, r, b, n, i)
<1>1. \A j : IsProbe(rows, b, j) => IsProbe(new, b, j)
  BY DEF Grown, IsProbe
<1>2. \A j : IsGroup(rows, r, b, j) => IsGroup(new, r, b, j)
  BY <1>1 DEF Grown, IsGroup
<1>3. \A j : IsCase(rows, r, b, j) => IsCase(new, r, b, j)
  BY <1>2 DEF Grown, IsCase
<1> QED
  BY <1>1, <1>2, <1>3 DEF Leads

LEMMA OwnGrows ==
    ASSUME NEW rows, NEW new, Grown(rows, new), Own(rows),
           \A i \in DOMAIN new[4] :
              \/ i \in DOMAIN rows[4]
              \/ \E t \in DOMAIN sends : /\ t[1] = new[4][i].key
                                         /\ IsCase(new, t[1], sends[t].probe, new[4][i].parent)
    PROVE  Own(new)
<1> SUFFICES ASSUME NEW i \in DOMAIN new[4]
             PROVE  \E t \in DOMAIN sends :
                       /\ t[1] = new[4][i].key
                       /\ IsCase(new, t[1], sends[t].probe, new[4][i].parent)
  BY DEF Own
<1>1. CASE i \in DOMAIN rows[4]
  <2>1. new[4][i] = rows[4][i]
    BY <1>1 DEF Grown
  <2>2. PICK t \in DOMAIN sends : /\ t[1] = rows[4][i].key
                                  /\ IsCase(rows, t[1], sends[t].probe, rows[4][i].parent)
    BY <1>1 DEF Own
  <2>3. IsCase(new, t[1], sends[t].probe, rows[4][i].parent)
    BY <2>2, LeadsGrow
  <2> QED
    BY <2>1, <2>2, <2>3
<1>2. CASE i \notin DOMAIN rows[4]
  BY <1>2
<1> QED
  BY <1>1, <1>2

(* A row that leads on to what its parent leads to.                          *)
LEMMA RowLeads ==
    ASSUME Typed, NEW t \in DOMAIN sends, NEW n \in 1..4, NEW parent \in Nat, NEW rows, NEW i,
           i \in DOMAIN rows[n], rows[n][i] = Row(t, n, parent),
           Leads(rows, t[1], sends[t].probe, n - 1, parent)
    PROVE  Leads(rows, t[1], sends[t].probe, n, i)
<1>1. /\ Row(t, n, parent).parent = parent
      /\ n = 1 => Row(t, n, parent).key = sends[t].probe
      /\ n = 2 => Row(t, n, parent).key = GroupOf[t[1]]
      /\ n = 3 => Row(t, n, parent).key = CaseOf[t[1]]
  BY RowIs
<1>2. CASE n = 1
  BY <1>1, <1>2 DEF Leads, IsProbe
<1>3. CASE n = 2
  BY <1>1, <1>3 DEF Leads, IsGroup
<1>4. CASE n = 3
  BY <1>1, <1>4 DEF Leads, IsCase
<1>5. CASE n = 4
  BY <1>5 DEF Leads
<1> QED
  BY <1>2, <1>3, <1>4, <1>5

(* Nothing changes for t but that rows may be added.                         *)
Alike(t) ==
    /\ sends'[t].at = sends[t].at /\ sends'[t].conn = sends[t].conn
    /\ sends'[t].table = sends[t].table /\ sends'[t].parent = sends[t].parent
    /\ sends'[t].id = sends[t].id /\ sends'[t].probe = sends[t].probe

LEMMA IdsStay ==
    ASSUME NEW t, Ids(t), Alike(t), Grown(Rows(sends[t].conn), Rows(sends[t].conn)'),
           \A j \in DOMAIN answers' : answers'[j].to = t =>
              \E k \in DOMAIN answers : answers'[j] = answers[k]
    PROVE  Ids(t)'
<1>1. PICK rows, new : rows = Rows(sends[t].conn) /\ new = Rows(sends[t].conn)'
  OBVIOUS
<1>2. PICK k : k = sends[t]
  OBVIOUS
<1>3. /\ sends'[t].at = k.at /\ sends'[t].conn = k.conn
      /\ sends'[t].table = k.table /\ sends'[t].parent = k.parent
      /\ sends'[t].id = k.id /\ sends'[t].probe = k.probe
  BY <1>2 DEF Alike
<1>4. \A n, i : Leads(rows, t[1], k.probe, n, i) => Leads(new, t[1], k.probe, n, i)
  BY <1>1, LeadsGrow
<1>5. new = conns'[sends'[t].conn].work.rows
  BY <1>1, <1>2, <1>3 DEF Rows
<1>6. /\ k.at # "commit" => Leads(rows, t[1], k.probe, k.table - 1, k.parent)
      /\ k.at = "close" => Leads(rows, t[1], k.probe, k.table, k.id)
      /\ \A j \in DOMAIN answers :
           answers[j].to = t /\ answers[j].how = "ok" =>
              /\ answers[j].do = "insert" /\ answers[j].id # 0 =>
                    Leads(rows, t[1], k.probe, k.table, answers[j].id)
              /\ answers[j].do = "select" => Leads(rows, t[1], k.probe, k.table, answers[j].id)
  BY <1>1, <1>2 DEF Ids, Rows
<1>7. /\ k.at # "commit" => Leads(new, t[1], k.probe, k.table - 1, k.parent)
      /\ k.at = "close" => Leads(new, t[1], k.probe, k.table, k.id)
  BY <1>4, <1>6
<1>8. \A j \in DOMAIN answers' :
           answers'[j].to = t /\ answers'[j].how = "ok" =>
              /\ answers'[j].do = "insert" /\ answers'[j].id # 0 =>
                    Leads(new, t[1], k.probe, k.table, answers'[j].id)
              /\ answers'[j].do = "select" => Leads(new, t[1], k.probe, k.table, answers'[j].id)
  BY <1>4, <1>6
<1> QED
  BY <1>3, <1>5, <1>7, <1>8 DEF Ids

LEMMA GrownSame ==
    \A rows : Grown(rows, rows)
BY DEF Grown

(* The answers to others are the same as before.                             *)
OldAnswers(t) ==
    \A j \in DOMAIN answers' : answers'[j].to = t =>
       \E k \in DOMAIN answers : answers'[j] = answers[k]

(* Steps that neither write nor give ids to anybody.                         *)
LEMMA LedKept ==
    ASSUME Typed, Sites, Led, Probed, saved' = saved,
           \A c \in DOMAIN conns : /\ c \in DOMAIN conns' /\ conns'[c].work = conns[c].work
                                   /\ conns'[c].live = "open" => conns[c].live = "open",
           \A c \in DOMAIN conns' : c \notin DOMAIN conns => conns'[c].work = NoTables,
           \A t \in DOMAIN sends' : Flying(t)' => Flying(t) /\ Alike(t) /\ OldAnswers(t)
    PROVE  Led'
<1>1. ASSUME NEW u \in Urls
      PROVE  Own(saved[u].rows)'
  <2>1. PICK rows : rows = saved[u].rows
    OBVIOUS
  <2>2. Own(rows)
    BY <2>1 DEF Led
  <2>3. Own(rows)'
    BY <2>2, OwnStays
  <2> QED
    BY <2>1, <2>3 DEF Own
<1>2. ASSUME NEW c \in DOMAIN conns'
      PROVE  Own(conns[c].work.rows)'
  <2>1. PICK rows : rows = conns'[c].work.rows
    OBVIOUS
  <2>2. Own(rows)'
    <3>1. CASE c \in DOMAIN conns
      <4>1. rows = conns[c].work.rows
        BY <2>1, <3>1
      <4>2. Own(rows)
        BY <3>1, <4>1 DEF Led
      <4> QED
        BY <4>2, OwnStays
    <3>2. CASE c \notin DOMAIN conns
      <4>1. rows[4] = <<>>
        BY <2>1, <3>2, NoTablesAre
      <4>2. DOMAIN rows[4] = {}
        BY <4>1
      <4> QED
        BY <4>2 DEF Own
    <3> QED
      BY <3>1, <3>2
  <2> QED
    BY <2>1, <2>2 DEF Own
<1>3. ASSUME NEW t \in DOMAIN sends', Flying(t)', conns'[sends'[t].conn].live = "open"
      PROVE  Ids(t)'
  <2>1. Flying(t) /\ Alike(t) /\ OldAnswers(t) /\ t \in DOMAIN sends
    BY <1>3 DEF Flying
  <2>2. sends[t].conn \in DOMAIN conns /\ sends'[t].conn = sends[t].conn
    BY <2>1, FlightIs DEF Alike
  <2>3. conns[sends[t].conn].live = "open" /\ conns'[sends[t].conn].work = conns[sends[t].conn].work
    BY <1>3, <2>2
  <2>4. Ids(t)
    BY <2>1, <2>3 DEF Led
  <2>5. Rows(sends[t].conn)' = Rows(sends[t].conn)
    BY <2>2, <2>3 DEF Rows
  <2>6. Grown(Rows(sends[t].conn), Rows(sends[t].conn)')
    BY <2>5, GrownSame
  <2> QED
    BY <2>1, <2>4, <2>6, IdsStay DEF OldAnswers
<1> QED
  BY <1>1, <1>2, <1>3 DEF Led

LEMMA LedWhenSending ==
    ASSUME Typed, Sites, Pending, Punctual, Led, NEW t \in DOMAIN sends, GoesOn(t) \/ Ends(t)
    PROVE  Led'
<1>1. Sent(t) /\ Remain(t) /\ t # TheUpdate
  BY SentIs, SentRemains
<1>2. /\ saved' = saved /\ DOMAIN conns' = DOMAIN conns /\ DOMAIN sends' = DOMAIN sends
      /\ \A c \in DOMAIN conns : conns'[c].work = conns[c].work /\ conns'[c].live = conns[c].live
      /\ \A x \in DOMAIN sends \ {t} : sends'[x] = sends[x]
      /\ sends'[t].probe = sends[t].probe
  BY <1>1 DEF Sent
<1>3. Probed
  BY <1>2 DEF Probed
<1>4. ASSUME NEW u \in Urls
      PROVE  Own(saved[u].rows)'
  <2>1. PICK rows : rows = saved[u].rows
    OBVIOUS
  <2>2. Own(rows)
    BY <2>1 DEF Led
  <2>3. Own(rows)'
    BY <1>3, <2>2, OwnStays
  <2> QED
    BY <1>2, <2>1, <2>3 DEF Own
<1>5. ASSUME NEW c \in DOMAIN conns
      PROVE  Own(conns[c].work.rows)'
  <2>1. PICK rows : rows = conns[c].work.rows
    OBVIOUS
  <2>2. Own(rows)
    BY <2>1 DEF Led
  <2>3. Own(rows)'
    BY <1>3, <2>2, OwnStays
  <2> QED
    BY <1>2, <2>1, <2>3 DEF Own
<1>6. \A x : OldAnswers(x)
  BY <1>1 DEF Remain, OldAnswers
<1>7. ASSUME NEW x \in DOMAIN sends, x # t, Flying(x)', conns'[sends'[x].conn].live = "open"
      PROVE  Ids(x)'
  <2>1. sends'[x] = sends[x]
    BY <1>2, <1>7
  <2>2. Flying(x) /\ Alike(x)
    BY <1>7, <2>1 DEF Flying, Alike
  <2>3. sends[x].conn \in DOMAIN conns
    BY <2>2, FlightIs
  <2>4. conns[sends[x].conn].live = "open" /\ Rows(sends[x].conn)' = Rows(sends[x].conn)
    BY <1>2, <1>7, <2>1, <2>3 DEF Rows
  <2>5. Ids(x)
    BY <2>2, <2>4 DEF Led
  <2>6. Grown(Rows(sends[x].conn), Rows(sends[x].conn)')
    BY <2>4, GrownSame
  <2> QED
    BY <1>6, <2>2, <2>5, <2>6, IdsStay DEF OldAnswers
<1>8. ASSUME Flying(t)', conns'[sends'[t].conn].live = "open"
      PROVE  Ids(t)'
  <2>1. GoesOn(t)
    BY <1>8 DEF Ends, Flying, InFlight
  <2>2. PICK new : new = sends'[t]
    OBVIOUS
  <2>3. new.conn \in DOMAIN conns /\ conns[new.conn].live = "open" /\ new.probe = sends[t].probe
    BY <1>2, <1>8, <2>1, <2>2 DEF GoesOn
  <2>4. PICK rows : rows = Rows(new.conn)
    OBVIOUS
  <2>5. rows = conns'[sends'[t].conn].work.rows
    BY <1>2, <2>2, <2>3, <2>4 DEF Rows
  <2>6. \A j \in DOMAIN answers' : answers'[j].to # t
    BY <1>1 DEF Remain
  <2>7. /\ new.at # "commit" => Leads(rows, t[1], new.probe, new.table - 1, new.parent)
        /\ new.at = "close" => Leads(rows, t[1], new.probe, new.table, new.id)
    <3>1. CASE sends[t].at = "new"
      <4>1. new.at = "insert" /\ new.table = 1
        BY <2>1, <2>2, <3>1 DEF GoesOn, Flying, InFlight
      <4> QED
        BY <4>1 DEF Leads
    <3>2. CASE sends[t].at # "new"
      <4>1. /\ Flying(t) /\ answers[1].how = "ok" /\ answers[1].to = t /\ 1 \in DOMAIN answers
            /\ sends[t].at = answers[1].do /\ Shifted(t)
        BY <1>1, <2>1, <3>2 DEF GoesOn, Takes, Sent, Shifted
      <4>2. conns[sends[t].conn].live # "gone"
        BY <1>1, <4>1 DEF Punctual
      <4>3. Db(t) = sends[t].conn
        BY <4>1, <4>2, FlightIs
      <4>4. new.conn = sends[t].conn
        BY <2>1, <2>2, <3>2, <4>3 DEF GoesOn
      <4>5. Ids(t)
        BY <2>3, <4>1, <4>4 DEF Led
      <4>6. sends[t].at # "commit" => Leads(rows, t[1], new.probe, sends[t].table - 1, sends[t].parent)
        BY <2>3, <2>4, <4>4, <4>5 DEF Ids, Rows
      <4>7. sends[t].at = "close" => Leads(rows, t[1], new.probe, sends[t].table, sends[t].id)
        BY <2>3, <2>4, <4>4, <4>5 DEF Ids, Rows
      <4>8. sends[t].at = "select" \/ (sends[t].at = "insert" /\ answers[1].id # 0) =>
               Leads(rows, t[1], new.probe, sends[t].table, answers[1].id)
        BY <2>3, <2>4, <4>1, <4>4, <4>5 DEF Ids, Rows
      <4>9. CASE /\ sends[t].at = "insert" /\ new.at = "select"
                 /\ new.table = sends[t].table /\ new.parent = sends[t].parent
        BY <4>6, <4>9
      <4>10. CASE /\ sends[t].at \in {"insert", "select"}
                  /\ sends[t].at = "insert" => answers[1].id # 0
                  /\ new.at = "close" /\ new.id = answers[1].id
                  /\ new.table = sends[t].table /\ new.parent = sends[t].parent
        BY <4>6, <4>8, <4>10
      <4>11. CASE /\ sends[t].at = "close" /\ new.at = "insert"
                  /\ new.table = sends[t].table + 1 /\ new.parent = sends[t].id
        <5>1. new.table - 1 = sends[t].table
          BY <4>1, <4>11, FlightIs
        <5> QED
          BY <4>7, <4>11, <5>1
      <4>12. CASE new.at = "commit"
        BY <4>12
      <4> QED
        BY <2>1, <2>2, <3>2, <4>9, <4>10, <4>11, <4>12 DEF GoesOn
    <3> QED
      BY <3>1, <3>2
  <2> QED
    BY <2>2, <2>5, <2>6, <2>7 DEF Ids
<1> QED
  BY <1>2, <1>4, <1>5, <1>7, <1>8 DEF Led

(* A statement that inserts a row, and the row that it is.                   *)
Grows(c, id) ==
    /\ First(c).table \in 1..4 /\ First(c).do = "insert" /\ conns[c].live = "open"
    /\ Grown(Rows(c), Rows(c)')
    /\ id \in DOMAIN Rows(c)'[First(c).table] /\ Rows(c)'[First(c).table][id] = First(c).row
    /\ \A m \in 1..4 : \A i \in DOMAIN Rows(c)'[m] :
         i \in DOMAIN Rows(c)[m] \/ (m = First(c).table /\ i = id)

LEMMA InsertGrows ==
    ASSUME Typed, NEW c \in DOMAIN conns, NEW id, NEW how, Inserting(c, id, how)
    PROVE  Grows(c, id)
<1>1. PICK n \in 1..4, row \in RowSet : n = First(c).table /\ row = First(c).row
  BY DEF Inserting
<1>2. PICK work \in Tables : /\ Steps(c, "open", work)
                             /\ work.rows = [Rows(c) EXCEPT ![n] = Append(Rows(c)[n], row)]
  BY <1>1 DEF Inserting
<1>3. conns[c].work \in Tables
  BY Conns, ConnFields
<1>4. Rows(c) \in [1..4 -> Seq(RowSet)]
  BY <1>3, TableFields DEF Rows
<1>5. PICK old : old = Rows(c)[n]
  OBVIOUS
<1>6. old \in Seq(RowSet)
  BY <1>4, <1>5
<1>7. PICK new : new = Append(old, row)
  OBVIOUS
<1>8. /\ new \in Seq(RowSet) /\ Len(new) = Len(old) + 1 /\ \A i \in 1..Len(old) : new[i] = old[i]
      /\ new[Len(old) + 1] = row /\ DOMAIN old = 1..Len(old) /\ Len(old) \in Nat
  BY <1>6, <1>7, AppendFacts, SeqFacts
<1>9. DOMAIN new = 1..Len(old) + 1
  BY <1>8, SeqFacts
<1>10. id = Len(old) + 1
  BY <1>1, <1>5 DEF Inserting
<1>11. Rows(c)' = work.rows
  BY <1>2 DEF Steps, Rows
<1>12. PICK rows : rows = Rows(c)
  OBVIOUS
<1>13. Rows(c)' = [rows EXCEPT ![n] = new]
  BY <1>2, <1>5, <1>7, <1>11, <1>12
<1>14. rows \in [1..4 -> Seq(RowSet)] /\ rows[n] = old
  BY <1>4, <1>5, <1>12
<1>15. PICK next : next = Rows(c)'
  OBVIOUS
<1>16. next[n] = new /\ \A m \in 1..4 \ {n} : next[m] = rows[m]
  BY <1>13, <1>14, <1>15
<1>17. \A i \in DOMAIN old : i \in DOMAIN new /\ new[i] = old[i]
  BY <1>8, <1>9
<1>18. Grown(rows, next)
  BY <1>14, <1>16, <1>17 DEF Grown
<1>19. id \in DOMAIN new /\ new[id] = row
  BY <1>8, <1>9, <1>10
<1>20. \A i \in DOMAIN new : i \in DOMAIN old \/ i = id
  BY <1>8, <1>9, <1>10
<1>21. \A m \in 1..4 : \A i \in DOMAIN next[m] : i \in DOMAIN rows[m] \/ (m = n /\ i = id)
  BY <1>14, <1>16, <1>20
<1>22. First(c).do = "insert" /\ conns[c].live = "open"
  BY DEF Inserting
<1> QED
  BY <1>1, <1>12, <1>15, <1>16, <1>18, <1>19, <1>21, <1>22 DEF Grows

(* What a statement does to the rows that its connection sees.               *)
Seen(c, id, how) ==
    \/ conns[c].live = "new" /\ conns'[c].work = saved[conns[c].url]
    \/ Grows(c, id)
    \/ conns'[c].live = "shut" /\ conns'[c].work = NoTables
    \/ /\ Rows(c)' = Rows(c)
       /\ how = "ok" /\ First(c).do = "insert" => id = 0
       /\ how = "ok" /\ First(c).do = "select" =>
            /\ First(c).table \in 1..3 /\ id \in DOMAIN Rows(c)[First(c).table]
            /\ Rows(c)[First(c).table][id] = First(c).row

LEMMA SeenIs ==
    ASSUME Typed, NEW c \in DOMAIN conns, NEW id, NEW how, Executes(c, id, how)
    PROVE  /\ Seen(c, id, how)
           /\ \A u \in Urls : saved'[u].rows = saved[u].rows \/ saved'[u].rows = Rows(c)
<1>1. CASE Opening(c, id, how)
  BY <1>1 DEF Opening, Steps, Seen
<1>2. CASE Creating(c, id, how)
  <2>1. First(c).do = "create" /\ \A u \in Urls : saved'[u].rows = saved[u].rows
    BY <1>2 DEF Creating
  <2>2. Rows(c)' = Rows(c)
    BY <1>2 DEF Creating, Steps, Rows
  <2> QED
    BY <2>1, <2>2 DEF Seen
<1>3. CASE Inserting(c, id, how)
  BY <1>3, InsertGrows DEF Inserting, Seen
<1>4. CASE Keeping(c, id, how)
  <2>1. Rows(c)' = Rows(c) /\ saved' = saved
    BY <1>4 DEF Keeping, Steps, Rows
  <2> QED
    BY <1>4, <2>1 DEF Keeping, Seen
<1>5. CASE Committing(c, id, how)
  <2>1. Rows(c)' = Rows(c) /\ First(c).do = "commit"
    BY <1>5 DEF Committing, Steps, Rows
  <2>2. saved \in [Urls -> Tables] /\ saved' = [saved EXCEPT ![conns[c].url] = conns[c].work]
    BY <1>5 DEF Committing, Typed
  <2>3. \A u \in Urls : saved'[u].rows = saved[u].rows \/ saved'[u].rows = Rows(c)
    BY <2>2 DEF Rows
  <2> QED
    BY <2>1, <2>3 DEF Seen
<1>6. CASE Shutting(c, id, how)
  BY <1>6 DEF Shutting, Steps, Seen
<1>7. CASE Refusing(c, id, how)
  <2>1. Rows(c)' = Rows(c) /\ saved' = saved /\ how = "closed"
    BY <1>7 DEF Refusing, Steps, Rows
  <2> QED
    BY <2>1 DEF Seen
<1> QED
  BY <1>1, <1>2, <1>3, <1>4, <1>5, <1>6, <1>7 DEF Executes

(* The send whose statement comes first.                                     *)
LEMMA FirstSends ==
    ASSUME Typed, Sites, Pending, NEW c \in DOMAIN conns, conns[c].queue # <<>>,
           NEW t, t = First(c).to, t # TheUpdate
    PROVE  /\ t \in DOMAIN sends /\ Flying(t) /\ sends[t].conn = c /\ sends[t].at = First(c).do
           /\ sends[t].table \in 1..4 /\ sends[t].parent \in Nat /\ conns[c].live # "new"
           /\ First(c).do # "commit" =>
                First(c).table = sends[t].table /\ First(c).row = Row(t, sends[t].table, sends[t].parent)
<1>1. Fits(c, First(c))
  BY FirstIs DEF Pending, First
<1>2. /\ Flying(t) /\ sends[t].conn = c /\ sends[t].at = First(c).do
      /\ First(c).do # "commit" =>
           First(c).table = sends[t].table /\ First(c).row = Row(t, sends[t].table, sends[t].parent)
  BY <1>1 DEF Fits
<1>3. t \in DOMAIN sends
  BY <1>2 DEF Flying
<1>4. sends[t].parent \in Nat
  BY <1>3, TaskFields DEF Typed
<1>5. sends[t].table \in 1..4 /\ conns[sends[t].conn].live # "new"
  BY <1>2, <1>3, FlightIs
<1> QED
  BY <1>2, <1>3, <1>4, <1>5

LEMMA LedWhenExecuting ==
    ASSUME Typed, Sites, Pending, Led, NEW c \in DOMAIN conns, NEW id, NEW how,
           Executes(c, id, how)
    PROVE  Led'
<1>1. PICK x, do : x = First(c).to /\ do = First(c).do
  OBVIOUS
<1>2. /\ Lived(c) /\ Moved(c, x, do, id, how) /\ sends' = sends /\ DOMAIN conns' = DOMAIN conns
      /\ \A d \in DOMAIN conns : d # c => conns'[d] = conns[d]
  BY <1>1, RanIs
<1>3. conns[c].queue # <<>> /\ conns[c].url \in Urls
  BY Conns, ConnFields DEF Executes
<1>4. Seen(c, id, how) /\ \A u \in Urls : saved'[u].rows = saved[u].rows \/ saved'[u].rows = Rows(c)
  BY SeenIs
<1>5. Probed
  BY <1>2 DEF Probed
<1>6. Own(Rows(c)) /\ \A u \in Urls : Own(saved[u].rows)
  BY DEF Led, Rows
<1>7. do = "insert" => x # TheUpdate
  BY <1>1, <1>3, FirstFits
<1>8. PICK n, row, parent : n = sends[x].table /\ parent = sends[x].parent /\ row = First(c).row
  OBVIOUS
<1>9. x # TheUpdate =>
         /\ x \in DOMAIN sends /\ Flying(x) /\ sends[x].conn = c /\ sends[x].at = do
         /\ n \in 1..4 /\ parent \in Nat /\ conns[c].live # "new"
         /\ do # "commit" => First(c).table = n /\ row = Row(x, n, parent)
  BY <1>1, <1>3, <1>8, FirstSends
<1>10. ASSUME x # TheUpdate, conns[c].live = "open", do # "commit"
       PROVE  Leads(Rows(c), x[1], sends[x].probe, n - 1, parent)
  BY <1>8, <1>9, <1>10 DEF Led, Ids, Rows
<1>11. PICK rows, new : rows = Rows(c) /\ new = Rows(c)'
  OBVIOUS
<1>12. ASSUME Grows(c, id)
       PROVE  /\ Own(new) /\ Grown(rows, new)
              /\ Leads(new, x[1], sends[x].probe, n, id)
  <2>1. /\ Grown(rows, new) /\ do = "insert" /\ conns[c].live = "open"
        /\ id \in DOMAIN new[First(c).table] /\ new[First(c).table][id] = First(c).row
        /\ \A m \in 1..4 : \A i \in DOMAIN new[m] :
              i \in DOMAIN rows[m] \/ (m = First(c).table /\ i = id)
    BY <1>1, <1>11, <1>12 DEF Grows
  <2>2. /\ x \in DOMAIN sends /\ n \in 1..4 /\ parent \in Nat
        /\ First(c).table = n /\ row = Row(x, n, parent)
    BY <1>7, <1>9, <2>1
  <2>3. Leads(rows, x[1], sends[x].probe, n - 1, parent)
    BY <1>7, <1>10, <1>11, <2>1
  <2>4. Leads(new, x[1], sends[x].probe, n - 1, parent)
    BY <2>1, <2>3, LeadsGrow
  <2>5. id \in DOMAIN new[n] /\ new[n][id] = Row(x, n, parent)
    BY <1>8, <2>1, <2>2
  <2>6. Leads(new, x[1], sends[x].probe, n, id)
    BY <2>2, <2>4, <2>5, RowLeads
  <2>7. ASSUME NEW i \in DOMAIN new[4], i \notin DOMAIN rows[4]
        PROVE  \E t \in DOMAIN sends : /\ t[1] = new[4][i].key
                                       /\ IsCase(new, t[1], sends[t].probe, new[4][i].parent)
    <3>1. n = 4 /\ i = id
      BY <2>1, <2>2, <2>7
    <3>2. n - 1 = 3
      BY <3>1
    <3>3. new[4][i] = Row(x, n, parent)
      BY <2>5, <3>1
    <3>4. IsCase(new, x[1], sends[x].probe, parent)
      BY <2>4, <3>2 DEF Leads
    <3>5. Row(x, n, parent).key = x[1] /\ Row(x, n, parent).parent = parent
      BY <2>2, <3>1, RowIs
    <3> QED
      BY <2>2, <3>3, <3>4, <3>5
  <2>8. Own(rows)
    BY <1>6, <1>11
  <2>9. Own(new)
    BY <2>1, <2>7, <2>8, OwnGrows
  <2> QED
    BY <2>1, <2>6, <2>9
<1>13. Own(new)
  <2>1. CASE conns'[c].work = saved[conns[c].url]
    BY <1>3, <1>6, <1>11, <2>1 DEF Rows
  <2>2. CASE conns'[c].work = NoTables
    <3>1. new[4] = <<>>
      BY <1>11, <2>2, NoTablesAre DEF Rows
    <3>2. DOMAIN new[4] = {}
      BY <3>1
    <3> QED
      BY <3>2 DEF Own
  <2>3. CASE new = rows
    BY <1>6, <1>11, <2>3
  <2> QED
    BY <1>4, <1>11, <1>12, <2>1, <2>2, <2>3 DEF Seen
<1>14. ASSUME NEW u \in Urls
       PROVE  Own(saved[u].rows)'
  <2>1. PICK disk : disk = saved'[u].rows
    OBVIOUS
  <2>2. Own(disk)
    BY <1>4, <1>6, <2>1
  <2>3. Own(disk)'
    BY <1>5, <2>2, OwnStays
  <2> QED
    BY <2>1, <2>3 DEF Own
<1>15. ASSUME NEW d \in DOMAIN conns
       PROVE  Own(conns[d].work.rows)'
  <2>1. PICK work : work = conns'[d].work.rows
    OBVIOUS
  <2>2. Own(work)
    <3>1. CASE d = c
      BY <1>11, <1>13, <2>1, <3>1 DEF Rows
    <3>2. CASE d # c
      BY <1>2, <2>1, <3>2 DEF Led
    <3> QED
      BY <3>1, <3>2
  <2>3. Own(work)'
    BY <1>5, <2>2, OwnStays
  <2> QED
    BY <2>1, <2>3 DEF Own
<1>16. PICK a : a = [to |-> x, do |-> do, id |-> id, how |-> how]
  OBVIOUS
<1>17. /\ a.to = x /\ a.do = do /\ a.id = id /\ a.how = how
       /\ \A i \in DOMAIN answers' : \/ i \in DOMAIN answers /\ answers'[i] = answers[i]
                                     \/ answers'[i] = a
  <2>1. \A i \in DOMAIN answers' : \/ i \in DOMAIN answers /\ answers'[i] = answers[i]
                                   \/ answers'[i] = a
    BY <1>2, <1>16 DEF Moved
  <2> QED
    BY <1>16, <2>1
<1>18. ASSUME NEW t \in DOMAIN sends, Flying(t), t # x, conns'[sends[t].conn].live = "open"
       PROVE  Ids(t)'
  <2>1. sends[t].conn \in DOMAIN conns /\ conns[sends[t].conn].live # "new"
    BY <1>18, FlightIs
  <2>2. conns[sends[t].conn].live = "open"
    BY <1>2, <1>18, <2>1 DEF Lived
  <2>3. Ids(t)
    BY <1>18, <2>2 DEF Led
  <2>4. Grown(Rows(sends[t].conn), Rows(sends[t].conn)')
    <3>1. CASE sends[t].conn # c
      <4>1. Rows(sends[t].conn)' = Rows(sends[t].conn)
        BY <1>2, <2>1, <3>1 DEF Rows
      <4> QED
        BY <4>1, GrownSame
    <3>2. CASE sends[t].conn = c
      <4>1. Grows(c, id) \/ new = rows
        BY <1>4, <1>11, <1>18, <2>2, <3>2 DEF Seen
      <4>2. Grown(rows, new)
        BY <1>12, <4>1, GrownSame
      <4>3. Rows(sends[t].conn)' = new /\ Rows(sends[t].conn) = rows
        BY <1>2, <1>11, <3>2 DEF Rows
      <4> QED
        BY <4>2, <4>3
    <3> QED
      BY <3>1, <3>2
  <2>5. \A j \in DOMAIN answers' : answers'[j].to = t =>
           \E k \in DOMAIN answers : answers'[j] = answers[k]
    BY <1>17, <1>18
  <2>6. Alike(t)
    BY <1>2 DEF Alike
  <2> QED
    BY <2>3, <2>4, <2>5, <2>6, IdsStay
<1>19. ASSUME x # TheUpdate, conns'[c].live = "open"
       PROVE  Ids(x)'
  <2>1. /\ x \in DOMAIN sends /\ Flying(x) /\ sends[x].conn = c /\ sends[x].at = do
        /\ n \in 1..4 /\ parent \in Nat /\ conns[c].live # "new"
        /\ do # "commit" => First(c).table = n /\ row = Row(x, n, parent)
    BY <1>9, <1>19
  <2>2. conns[c].live = "open"
    BY <1>2, <1>19, <2>1 DEF Lived
  <2>3. Grows(c, id) \/ new = rows
    BY <1>4, <1>11, <1>19, <2>2 DEF Seen
  <2>4. Grown(rows, new)
    BY <1>12, <2>3, GrownSame
  <2>5. Ids(x)
    BY <2>1, <2>2 DEF Led
  <2>6. PICK k : k = sends[x]
    OBVIOUS
  <2>7. /\ k.at # "commit" => Leads(rows, x[1], k.probe, k.table - 1, k.parent)
        /\ k.at = "close" => Leads(rows, x[1], k.probe, k.table, k.id)
    BY <1>11, <2>1, <2>5, <2>6 DEF Ids, Rows
  <2>8. /\ k.at # "commit" => Leads(new, x[1], k.probe, k.table - 1, k.parent)
        /\ k.at = "close" => Leads(new, x[1], k.probe, k.table, k.id)
    BY <2>4, <2>7, LeadsGrow
  <2>9. how = "ok" => /\ do = "insert" /\ id # 0 => Leads(new, x[1], k.probe, k.table, id)
                      /\ do = "select" => Leads(new, x[1], k.probe, k.table, id)
    <3>1. CASE Grows(c, id)
      BY <1>8, <1>12, <2>6, <3>1
    <3>2. CASE ~Grows(c, id)
      <4>1. /\ how = "ok" /\ do = "insert" => id = 0
            /\ how = "ok" /\ do = "select" =>
                 /\ First(c).table \in 1..3 /\ id \in DOMAIN Rows(c)[First(c).table]
                 /\ Rows(c)[First(c).table][id] = First(c).row
            /\ new = rows
        BY <1>1, <1>4, <1>11, <1>19, <2>2, <3>2 DEF Seen
      <4>2. ASSUME how = "ok", do = "select"
            PROVE  Leads(new, x[1], k.probe, k.table, id)
        <5>1. id \in DOMAIN new[n] /\ new[n][id] = Row(x, n, parent)
          BY <1>8, <1>11, <2>1, <4>1, <4>2
        <5>2. Leads(new, x[1], sends[x].probe, n - 1, parent)
          BY <1>8, <2>1, <2>6, <2>8, <4>2
        <5>3. Leads(new, x[1], sends[x].probe, n, id)
          BY <2>1, <5>1, <5>2, RowLeads
        <5> QED
          BY <1>8, <2>6, <5>3
      <4> QED
        BY <4>1, <4>2
    <3> QED
      BY <3>1, <3>2
  <2>10. new = conns'[sends'[x].conn].work.rows /\ k = sends'[x]
    BY <1>2, <1>11, <2>1, <2>6 DEF Rows
  <2>11. ASSUME NEW j \in DOMAIN answers', answers'[j].to = x
         PROVE  answers'[j] = a
    <3>1. \A i \in DOMAIN answers : answers[i].to # x
      BY <1>2 DEF Moved
    <3> QED
      BY <1>17, <2>11, <3>1
  <2> QED
    BY <1>17, <2>8, <2>9, <2>10, <2>11 DEF Ids
<1>20. ASSUME NEW t \in DOMAIN sends', Flying(t)', conns'[sends'[t].conn].live = "open"
       PROVE  Ids(t)'
  <2>1. Flying(t) /\ t \in DOMAIN sends /\ conns'[sends[t].conn].live = "open"
    BY <1>2, <1>20 DEF Flying
  <2>2. t # TheUpdate
    BY <2>1, UpdateIsNoTask DEF Typed
  <2>3. CASE t # x
    BY <1>18, <2>1, <2>3
  <2>4. CASE t = x
    BY <1>9, <1>19, <2>1, <2>2, <2>4
  <2> QED
    BY <2>3, <2>4
<1> QED
  BY <1>2, <1>14, <1>15, <1>20 DEF Led

LEMMA OldWhenRemain ==
    ASSUME Remain(TheUpdate) \/ answers' = answers
    PROVE  \A t : OldAnswers(t)
BY DEF Remain, OldAnswers

LEMMA LedWhenShut ==
    ASSUME Typed, Sites, Led, NEW p, Shuts(p)
    PROVE  Led'
<1>1. ShutAt(p) /\ answers' = answers /\ Downs(p) /\ saved' = saved
  BY ShutIs DEF ShutAt
<1>2. PICK op : PutAt(plugins[p].conn, op)
  BY <1>1 DEF ShutAt
<1>3. /\ DOMAIN conns' = DOMAIN conns
      /\ \A c \in DOMAIN conns : conns'[c].work = conns[c].work /\ conns'[c].live = conns[c].live
  BY <1>2 DEF PutAt
<1>4. Probed
  BY <1>1, DownIs DEF Probed
<1>5. \A t \in DOMAIN sends' : Flying(t)' => Flying(t) /\ Alike(t) /\ OldAnswers(t)
  <2>1. \A t \in DOMAIN sends' : Alike(t) /\ (Flying(t)' = Flying(t))
    BY <1>1, DownIs DEF Alike
  <2> QED
    BY <1>1, <2>1, OldWhenRemain
<1> QED
  BY <1>1, <1>3, <1>4, <1>5, LedKept

LEMMA LedWhenRenewed ==
    ASSUME Typed, Sites, Pending, Led, NEW p, NEW g, Renews(p, g)
    PROVE  Led'
<1>1. Renewed(p, g) /\ saved' = saved /\ (sends' = sends \/ Downs(p))
  BY RenewIs DEF Renewed
<1>2. Remain(TheUpdate) \/ answers' = answers
  BY <1>1, RemainIs DEF Renewed
<1>3. \A c \in DOMAIN conns : /\ c \in DOMAIN conns' /\ conns'[c].work = conns[c].work
                              /\ conns'[c].live = "open" => conns[c].live = "open"
  BY <1>1 DEF Renewed
<1>4. \A c \in DOMAIN conns' : c \notin DOMAIN conns => conns'[c].work = NoTables
  BY <1>1 DEF Renewed, NewComer
<1>5. Probed
  BY <1>1, DownIs DEF Probed
<1>6. \A t \in DOMAIN sends' : Flying(t)' => Flying(t) /\ Alike(t) /\ OldAnswers(t)
  <2>1. \A t \in DOMAIN sends' : Alike(t) /\ (Flying(t)' = Flying(t))
    BY <1>1, DownIs DEF Alike
  <2> QED
    BY <1>2, <2>1, OldWhenRemain
<1> QED
  BY <1>1, <1>3, <1>4, <1>5, <1>6, LedKept

LEMMA LedWhenAsking ==
    ASSUME Typed, Sites, Pending, Led, Asks
    PROVE  Led'
<1>1. Goes /\ Shifted(TheUpdate) /\ sends' = sends /\ saved' = saved
  BY GoesIs DEF Goes
<1>2. PICK op : PutAt(Site, op)
  BY <1>1 DEF Goes
<1>3. /\ DOMAIN conns' = DOMAIN conns
      /\ \A c \in DOMAIN conns : conns'[c].work = conns[c].work /\ conns'[c].live = conns[c].live
  BY <1>2 DEF PutAt
<1>4. Probed
  BY <1>1 DEF Probed
<1>5. \A t \in DOMAIN sends' : Flying(t)' => Flying(t) /\ Alike(t) /\ OldAnswers(t)
  BY <1>1, RemainIs, OldWhenRemain DEF Flying, Alike
<1> QED
  BY <1>1, <1>3, <1>4, <1>5, LedKept

LEMMA LedWhenFinished ==
    ASSUME Typed, Sites, Pending, Led, Finishes
    PROVE  Led'
<1>1. Shifted(TheUpdate) /\ UNCHANGED <<conns, sends, saved>>
  BY TakesFacts DEF Finishes
<1>2. Probed
  BY <1>1 DEF Probed
<1>3. \A t \in DOMAIN sends' : Flying(t)' => Flying(t) /\ Alike(t) /\ OldAnswers(t)
  BY <1>1, RemainIs, OldWhenRemain DEF Flying, Alike
<1> QED
  BY <1>1, <1>2, <1>3, LedKept

LEMMA LedWhenFresh ==
    ASSUME Typed, Sites, Led, Fresh
    PROVE  Led'
<1>1. /\ UNCHANGED <<conns, saved, answers>> /\ DOMAIN sends \subseteq DOMAIN sends'
      /\ \A t \in DOMAIN sends : sends'[t] = sends[t]
      /\ \A t \in DOMAIN sends' \ DOMAIN sends : sends'[t].at = "new"
  BY DEF Fresh
<1>2. Probed
  BY <1>1 DEF Probed
<1>3. \A t \in DOMAIN sends' : Flying(t)' => Flying(t) /\ Alike(t) /\ OldAnswers(t)
  <2>1. \A t \in DOMAIN sends' : Flying(t)' => t \in DOMAIN sends
    BY <1>1 DEF Flying, InFlight
  <2>2. \A t \in DOMAIN sends : Flying(t)' => Flying(t) /\ Alike(t)
    BY <1>1 DEF Flying, Alike
  <2> QED
    BY <1>1, <2>1, <2>2, OldWhenRemain
<1> QED
  BY <1>1, <1>2, <1>3, LedKept

LEMMA LedWhenQuiet ==
    ASSUME Typed, Sites, Led, Quiet
    PROVE  Led'
<1>1. UNCHANGED <<conns, saved, answers, sends>>
  BY DEF Quiet
<1>2. Probed
  BY <1>1 DEF Probed
<1>3. \A t \in DOMAIN sends' : Flying(t)' => Flying(t) /\ Alike(t) /\ OldAnswers(t)
  BY <1>1, OldWhenRemain DEF Flying, Alike
<1> QED
  BY <1>1, <1>2, <1>3, LedKept

LEMMA LedWhenAgain ==
    ASSUME Led, Again
    PROVE  Led'
<1>1. /\ conns' = <<>> /\ saved' = saved /\ DOMAIN sends' = DOMAIN sends
      /\ \A t \in DOMAIN sends : sends'[t].at \in Ended /\ sends'[t].probe = sends[t].probe
  BY DEF Again
<1>2. Probed
  BY <1>1 DEF Probed
<1>3. \A t \in DOMAIN sends' : ~Flying(t)'
  BY <1>1 DEF Flying, InFlight, Ended
<1>4. DOMAIN conns' = {}
  BY <1>1
<1>5. ASSUME NEW u \in Urls
      PROVE  Own(saved[u].rows)'
  <2>1. PICK rows : rows = saved[u].rows
    OBVIOUS
  <2>2. Own(rows)
    BY <2>1 DEF Led
  <2>3. Own(rows)'
    BY <1>2, <2>2, OwnStays
  <2> QED
    BY <1>1, <2>1, <2>3 DEF Own
<1> QED
  BY <1>3, <1>4, <1>5 DEF Led

-------------------------------------------------------------------------------
(* The tables of an open connection.                                         *)
LEMMA MadeGrows ==
    ASSUME Typed, NEW c \in DOMAIN conns, NEW id, NEW how, Executes(c, id, how),
           conns[c].live = "open", conns'[c].live = "open"
    PROVE  /\ conns[c].work.made \subseteq conns'[c].work.made
           /\ First(c).do = "create" => First(c).table \in conns'[c].work.made
<1>1. CASE Creating(c, id, how)
  BY <1>1 DEF Creating, Steps
<1>2. CASE Inserting(c, id, how)
  BY <1>2 DEF Inserting, Steps
<1>3. CASE Keeping(c, id, how)
  BY <1>3 DEF Keeping, Steps
<1>4. CASE Committing(c, id, how)
  BY <1>4 DEF Committing, Steps
<1>5. CASE Opening(c, id, how) \/ Shutting(c, id, how) \/ Refusing(c, id, how)
  BY <1>5 DEF Opening, Shutting, Refusing, Steps
<1> QED
  BY <1>1, <1>2, <1>3, <1>4, <1>5 DEF Executes

LEMMA MadeWhenSending ==
    ASSUME Typed, Sites, Pending, Made, NEW t \in DOMAIN sends, GoesOn(t) \/ Ends(t)
    PROVE  Made'
<1>1. Sent(t)
  BY SentIs
<1>2. /\ update' = update /\ Site' = Site /\ DOMAIN conns' = DOMAIN conns
      /\ Len(conns') = Len(conns)
      /\ \A c \in DOMAIN conns : conns'[c].work = conns[c].work /\ conns'[c].live = conns[c].live
  BY <1>1 DEF Sent
<1>3. \A c \in DOMAIN conns :
         (\E i \in DOMAIN Queue(c) : Queue(c)[i].to = TheUpdate) =>
            \E i \in DOMAIN Queue(c)' : Queue(c)'[i].to = TheUpdate
  BY <1>1 DEF Sent, Queue
<1>4. \A c : Building(c)' = Building(c)
  BY <1>2 DEF Building
<1> QED
  BY <1>2, <1>3, <1>4 DEF Made

LEMMA MadeWhenExecuting ==
    ASSUME Typed, Sites, Pending, Made, NEW c \in DOMAIN conns, NEW id, NEW how,
           Executes(c, id, how)
    PROVE  Made'
<1>1. PICK x, do : x = First(c).to /\ do = First(c).do
  OBVIOUS
<1>2. /\ Lived(c) /\ Moved(c, x, do, id, how) /\ update' = update /\ DOMAIN conns' = DOMAIN conns
      /\ \A d \in DOMAIN conns : d # c => conns'[d] = conns[d]
      /\ Site' = Site /\ Len(conns') = Len(conns)
  BY <1>1, RanIs
<1>3. \A d : Building(d)' = Building(d)
  BY <1>2 DEF Building
<1>4. Queue(c)[1] = First(c) /\ 1 \in DOMAIN Queue(c) /\ conns[c].queue # <<>>
  BY <1>2 DEF Moved, First, Executes
<1>5. Fits(c, First(c))
  BY <1>4 DEF Pending
<1>6. CASE conns[c].live = "new"
  <2>1. update.at = "connect" /\ c = Len(conns)
    BY <1>6 DEF Sites
  <2>2. \A d : ~Building(d)
    BY <2>1 DEF Building
  <2> QED
    BY <1>2, <1>3, <2>1, <2>2 DEF Made
<1>7. CASE conns'[c].live # "open"
  BY <1>2, <1>3, <1>7 DEF Made, Queue
<1>8. CASE conns[c].live = "open" /\ conns'[c].live = "open"
  <2>1. /\ conns[c].work.made \subseteq conns'[c].work.made
        /\ do = "create" => First(c).table \in conns'[c].work.made
    BY <1>1, <1>8, MadeGrows
  <2>2. CASE ~Building(c)
    BY <1>2, <1>3, <1>8, <2>1, <2>2 DEF Made, Queue
  <2>3. CASE Building(c)
    <3>1. /\ 1..update.table - 1 \subseteq conns[c].work.made
          /\ \/ update.table \in conns[c].work.made
             \/ /\ update.at = "create"
                /\ \E i \in DOMAIN Queue(c) : Queue(c)[i].to = TheUpdate
      BY <1>8, <2>3 DEF Made
    <3>2. \/ update.table \in conns'[c].work.made
          \/ /\ update.at = "create"
             /\ \E i \in DOMAIN Queue(c)' : Queue(c)'[i].to = TheUpdate
      <4>1. CASE update.table \in conns[c].work.made
        BY <2>1, <4>1
      <4>2. CASE update.at = "create" /\ x = TheUpdate
        <5>1. do = "create" /\ First(c).table = update.table
          BY <1>1, <1>5, <4>2 DEF Fits
        <5> QED
          BY <2>1, <5>1
      <4>3. CASE /\ update.at = "create" /\ x # TheUpdate
                 /\ \E i \in DOMAIN Queue(c) : Queue(c)[i].to = TheUpdate
        <5>1. PICK i \in DOMAIN Queue(c) : Queue(c)[i].to = TheUpdate
          BY <4>3
        <5>2. i - 1 \in DOMAIN conns'[c].queue /\ conns'[c].queue[i - 1] = Queue(c)[i]
          BY <1>2, <4>3, <5>1 DEF Moved
        <5> QED
          BY <4>3, <5>1, <5>2 DEF Queue
      <4> QED
        BY <3>1, <4>1, <4>2, <4>3
    <3> QED
      BY <1>2, <1>3, <1>8, <2>1, <2>3, <3>1, <3>2 DEF Made, Queue
  <2> QED
    BY <2>2, <2>3
<1> QED
  BY <1>2, <1>6, <1>7, <1>8 DEF Lived

LEMMA MadeWhenShut ==
    ASSUME Typed, Made, NEW p, Shuts(p)
    PROVE  Made'
<1>1. ShutAt(p) /\ update.at = "idle" /\ update'.at = "shut"
  BY ShutIs DEF ShutAt, Idle
<1>2. PICK op : PutAt(plugins[p].conn, op)
  BY <1>1 DEF ShutAt
<1>3. /\ DOMAIN conns' = DOMAIN conns
      /\ \A c \in DOMAIN conns : conns'[c].work = conns[c].work /\ conns'[c].live = conns[c].live
  BY <1>2 DEF PutAt
<1>4. \A c : ~Building(c) /\ ~Building(c)'
  BY <1>1 DEF Building
<1> QED
  BY <1>1, <1>3, <1>4 DEF Made

LEMMA MadeWhenRenewed ==
    ASSUME Typed, Pending, Made, NEW p, NEW g, Renews(p, g)
    PROVE  Made'
<1>1. Renewed(p, g)
  BY RenewIs
<1>2. update.at \in {"idle", "shut"} /\ update'.at \in {"idle", "connect"}
  BY <1>1 DEF Renewed
<1>3. \A c : ~Building(c) /\ ~Building(c)'
  BY <1>2 DEF Building
<1>4. \A c \in DOMAIN conns' : conns'[c].live = "open" =>
         c \in DOMAIN conns /\ conns[c].live = "open" /\ conns'[c].work = conns[c].work
  BY <1>1 DEF Renewed, NewComer
<1> QED
  BY <1>2, <1>3, <1>4 DEF Made

LEMMA MadeWhenAsking ==
    ASSUME Typed, Sites, Pending, Made, Asks
    PROVE  Made'
<1>1. Goes /\ Shifted(TheUpdate)
  BY GoesIs DEF Goes
<1>2. PICK op : op.to = TheUpdate /\ op.do = update'.at /\ PutAt(Site, op)
  BY <1>1 DEF Goes
<1>3. /\ DOMAIN conns' = DOMAIN conns
      /\ \A c \in DOMAIN conns : conns'[c].work = conns[c].work /\ conns'[c].live = conns[c].live
      /\ \E i \in DOMAIN Queue(Site)' : Queue(Site)'[i].to = TheUpdate
  BY <1>1, <1>2 DEF PutAt, Queue, Goes
<1>4. /\ Site' = Site /\ Site \in DOMAIN conns /\ conns[Site].live = "open"
      /\ update'.at \in {"create", "close"} /\ update.at \in {"connect", "create", "close"}
  BY <1>1 DEF Goes
<1>5. ASSUME NEW c \in DOMAIN conns, conns[c].live = "open", c # Site
      PROVE  1..4 \subseteq conns[c].work.made
  <2>1. ~Building(c) /\ ~(update.at = "connect" /\ c = Len(conns))
    BY <1>5 DEF Building, Site
  <2> QED
    BY <1>5, <2>1 DEF Made
<1>6. /\ 1..update'.table - 1 \subseteq conns[Site].work.made
      /\ \/ update'.table \in conns[Site].work.made
         \/ update'.at = "create"
  <2>1. CASE update.at = "connect"
    <3>1. update'.at = "create" /\ update'.table = 1
      BY <1>1, <2>1 DEF Goes
    <3> QED
      BY <3>1
  <2>2. CASE update.at \in {"create", "close"}
    <3>1. Building(Site) /\ \A i \in DOMAIN Queue(Site) : Queue(Site)[i].to # TheUpdate
      BY <1>1, <1>4, <2>2 DEF Building, Shifted
    <3>2. 1..update.table - 1 \subseteq conns[Site].work.made /\ update.table \in conns[Site].work.made
      BY <1>4, <3>1 DEF Made
    <3>3. update.table \in 1..4
      BY <2>2 DEF Typed
    <3>4. 1..update.table \subseteq conns[Site].work.made
      BY <3>2, <3>3
    <3>5. CASE update'.at = "close" /\ update'.table = update.table
      BY <3>2, <3>5
    <3>6. CASE update'.at = "create" /\ update'.table = update.table + 1
      <4>1. update'.table - 1 = update.table
        BY <3>3, <3>6
      <4> QED
        BY <3>4, <3>6, <4>1
    <3> QED
      BY <1>1, <2>2, <3>5, <3>6 DEF Goes
  <2> QED
    BY <1>4, <2>1, <2>2
<1>7. Building(Site)' /\ \A c : c # Site => ~Building(c)'
  BY <1>4 DEF Building
<1>8. \A c \in DOMAIN conns : conns'[c].live = "open" =>
         IF Building(c)'
         THEN /\ 1..update'.table - 1 \subseteq conns'[c].work.made
              /\ \/ update'.table \in conns'[c].work.made
                 \/ /\ update'.at = "create"
                    /\ \E i \in DOMAIN Queue(c)' : Queue(c)'[i].to = TheUpdate
         ELSE 1..4 \subseteq conns'[c].work.made
  BY <1>3, <1>4, <1>5, <1>6, <1>7
<1> QED
  BY <1>3, <1>8 DEF Made

LEMMA MadeWhenFinished ==
    ASSUME Typed, Sites, Pending, Made, Finishes
    PROVE  Made'
<1>1. /\ Shifted(TheUpdate) /\ UNCHANGED conns /\ update.at = "close" /\ update.table = 4
      /\ update' = Idle
  BY TakesFacts DEF Finishes
<1>2. \A c : ~Building(c)'
  BY <1>1 DEF Building, Idle
<1>3. ASSUME NEW c \in DOMAIN conns, conns[c].live = "open"
      PROVE  1..4 \subseteq conns[c].work.made
  <2>1. CASE Building(c)
    <3>1. 1..3 \subseteq conns[c].work.made /\ 4 \in conns[c].work.made
      BY <1>1, <1>3, <2>1 DEF Made
    <3>2. 1..4 = 1..3 \cup {4}
      OBVIOUS
    <3> QED
      BY <3>1, <3>2
  <2>2. CASE ~Building(c)
    BY <1>1, <1>3, <2>2 DEF Made
  <2> QED
    BY <2>1, <2>2
<1> QED
  BY <1>1, <1>2, <1>3 DEF Made

LEMMA MadeWhenOthers ==
    ASSUME Made, Fresh \/ Quiet \/ Again
    PROVE  Made'
<1>1. CASE Fresh \/ Quiet
  <2>1. UNCHANGED <<conns, update, plugins>>
    BY <1>1 DEF Fresh, Quiet, sinkVars
  <2> QED
    BY <2>1 DEF Made, Building, Site, Queue
<1>2. CASE Again
  <2>1. conns' = <<>>
    BY <1>2 DEF Again
  <2>2. DOMAIN conns' = {}
    BY <2>1
  <2> QED
    BY <2>2 DEF Made
<1> QED
  BY <1>1, <1>2

-------------------------------------------------------------------------------
(* No send comes to a table before the update.                               *)
After(t) ==
    \/ sends[t].table < update.table
    \/ /\ sends[t].table = update.table
       /\ \/ sends[t].at = "insert" /\ update.at = "create" /\ Ahead(sends[t].conn, t)
          \/ sends[t].at \in {"insert", "select"} /\ update.at = "close"
          \/ sends[t].at = "close" /\ update.at = "close" /\ Ahead(sends[t].conn, t)

LEMMA BehindIs ==
    Behind <=> \A t \in DOMAIN sends : Flying(t) /\ Building(sends[t].conn) => After(t)
BY DEF Behind, After

LEMMA AheadStays ==
    ASSUME NEW t \in DOMAIN sends, Sent(t), t # TheUpdate, Remain(t),
           NEW c \in DOMAIN conns, NEW x, x # t, x # TheUpdate, Ahead(c, x)
    PROVE  Ahead(c, x)'
<1>1. ASSUME NEW i \in DOMAIN conns'[c].queue, conns'[c].queue[i].to # t
      PROVE  i \in DOMAIN Queue(c) /\ conns'[c].queue[i] = Queue(c)[i]
  <2> SUFFICES ASSUME GoesOn(t), conns'[c].queue[i] = Statement(t)' PROVE FALSE
    BY DEF Sent
  <2>1. Statement(t)'.to = t
    BY StatementFits
  <2> QED
    BY <1>1, <2>1
<1>2. ASSUME NEW i \in DOMAIN conns'[c].queue, NEW j \in DOMAIN conns'[c].queue,
             conns'[c].queue[i].to = x, conns'[c].queue[j].to = TheUpdate
      PROVE  j < i
  BY <1>1, <1>2 DEF Ahead
<1>3. ASSUME NEW i \in DOMAIN answers', answers'[i].to = x
      PROVE  \E j \in DOMAIN answers' : j < i /\ answers'[j].to = TheUpdate
  <2>1. CASE answers' = answers
    BY <1>3, <2>1 DEF Ahead
  <2>2. CASE Shifted(t)
    <3>1. /\ i + 1 \in DOMAIN answers /\ answers'[i] = answers[i + 1] /\ i \in Nat
          /\ DOMAIN answers \subseteq Nat
      BY <2>2 DEF Shifted
    <3>2. PICK j \in DOMAIN answers : j < i + 1 /\ answers[j].to = TheUpdate
      BY <1>3, <3>1 DEF Ahead
    <3>3. j - 1 \in DOMAIN answers' /\ answers'[j - 1] = answers[j]
      BY <2>2, <3>2 DEF Shifted
    <3>4. j - 1 < i
      BY <3>1, <3>2
    <3> QED
      BY <3>2, <3>3, <3>4
  <2> QED
    BY <2>1, <2>2 DEF Sent
<1> QED
  BY <1>2, <1>3 DEF Ahead, Queue

(* The next statement of t comes behind that of the update.                  *)
LEMMA AheadWhenPut ==
    ASSUME NEW t \in DOMAIN sends, Sent(t), t # TheUpdate, Remain(t), NEW c \in DOMAIN conns
    PROVE  Ahead(c, t)'
<1>1. ASSUME NEW i \in DOMAIN conns'[c].queue, NEW j \in DOMAIN conns'[c].queue,
             conns'[c].queue[i].to = t, conns'[c].queue[j].to = TheUpdate
      PROVE  j < i
  <2>1. i \notin DOMAIN Queue(c) \/ conns'[c].queue[i] # Queue(c)[i]
    BY <1>1 DEF Remain
  <2>2. \A k \in DOMAIN Queue(c) : k < i
    BY <2>1 DEF Sent
  <2>3. j \in DOMAIN Queue(c)
    <3> SUFFICES ASSUME GoesOn(t), conns'[c].queue[j] = Statement(t)' PROVE FALSE
      BY DEF Sent
    <3>1. Statement(t)'.to = t
      BY StatementFits
    <3> QED
      BY <1>1, <3>1
  <2> QED
    BY <2>2, <2>3
<1>2. \A i \in DOMAIN answers' : answers'[i].to # t
  BY DEF Remain
<1> QED
  BY <1>1, <1>2 DEF Ahead, Queue

LEMMA BehindWhenSending ==
    ASSUME Typed, Sites, Pending, Punctual, Behind, NEW t \in DOMAIN sends, GoesOn(t) \/ Ends(t)
    PROVE  Behind'
<1>1. Sent(t) /\ Remain(t) /\ t # TheUpdate
  BY SentIs, SentRemains
<1>2. /\ update' = update /\ Site' = Site /\ DOMAIN conns' = DOMAIN conns
      /\ DOMAIN sends' = DOMAIN sends /\ \A x \in DOMAIN sends \ {t} : sends'[x] = sends[x]
  BY <1>1 DEF Sent
<1>3. \A c : Building(c)' = Building(c)
  BY <1>2 DEF Building
<1>4. ASSUME NEW x \in DOMAIN sends, x # t, Flying(x)', Building(sends'[x].conn)
      PROVE  After(x)'
  <2>1. sends'[x] = sends[x] /\ Flying(x) /\ x # TheUpdate
    BY <1>2, <1>4, UpdateIsNoTask DEF Flying, Typed
  <2>2. sends[x].conn \in DOMAIN conns /\ After(x)
    BY <1>4, <2>1, FlightIs, BehindIs
  <2>3. PICK c \in DOMAIN conns : c = sends[x].conn
    BY <2>2
  <2>4. Ahead(c, x) => Ahead(c, x)'
    BY <1>1, <1>4, <2>1, AheadStays
  <2>5. Ahead(c, x)' = Ahead(sends[x].conn, x)'
    BY <2>1, <2>3 DEF Ahead, Queue
  <2> QED
    BY <1>2, <2>1, <2>2, <2>3, <2>4, <2>5 DEF After
<1>5. ASSUME Flying(t)', Building(sends'[t].conn)
      PROVE  After(t)'
  <2>1. GoesOn(t)
    BY <1>5 DEF Ends, Flying, InFlight
  <2>2. PICK new : new = sends'[t]
    OBVIOUS
  <2>3. /\ new.conn = Site /\ update.at \in {"create", "close"} /\ conns[Site].live = "open"
        /\ new.conn \in DOMAIN conns /\ update.table \in 1..4
    BY <1>5, <2>1, <2>2 DEF Building, Sites, Typed, GoesOn
  <2>4. PICK c \in DOMAIN conns : c = new.conn
    BY <2>3
  <2>5. Ahead(c, t)'
    BY <1>1, AheadWhenPut
  <2>6. Ahead(sends[t].conn, t)'
    BY <2>2, <2>4, <2>5 DEF Ahead, Queue
  <2>7. \/ new.table < update.table
        \/ new.table = update.table /\ new.at = "insert"
        \/ new.table = update.table /\ new.at \in {"select", "close"} /\ update.at = "close"
    <3>1. CASE sends[t].at = "new"
      <4>1. new.at = "insert" /\ new.table = 1
        BY <2>1, <2>2, <3>1 DEF GoesOn, Flying, InFlight
      <4> QED
        BY <2>3, <4>1
    <3>2. CASE sends[t].at # "new"
      <4>1. /\ Flying(t) /\ answers[1].how = "ok" /\ answers[1].to = t /\ 1 \in DOMAIN answers
            /\ Shifted(t) /\ DOMAIN answers \subseteq Nat \ {0}
        BY <1>1, <2>1, <3>2 DEF GoesOn, Takes, Sent, Shifted
      <4>2. conns[sends[t].conn].live # "gone"
        BY <1>1, <4>1 DEF Punctual
      <4>3. Db(t) = sends[t].conn /\ sends[t].table \in 1..4
        BY <4>1, <4>2, FlightIs
      <4>4. new.conn = sends[t].conn
        BY <2>1, <2>2, <3>2, <4>3 DEF GoesOn
      <4>5. After(t)
        BY <1>3, <1>5, <2>2, <4>1, <4>4, BehindIs
      <4>6. ~Ahead(sends[t].conn, t)
        BY <4>1 DEF Ahead
      <4>7. \/ sends[t].table < update.table
            \/ /\ sends[t].table = update.table
               /\ sends[t].at \in {"insert", "select"} /\ update.at = "close"
        BY <4>5, <4>6 DEF After
      <4>8. CASE /\ sends[t].at \in {"insert", "select"} /\ new.table = sends[t].table
                 /\ new.at \in {"select", "close"}
        BY <4>7, <4>8
      <4>9. CASE /\ sends[t].at = "close" /\ new.at = "insert"
                 /\ new.table = sends[t].table + 1
        BY <2>3, <4>3, <4>7, <4>9
      <4>10. CASE sends[t].at = "close" /\ sends[t].table = 4
        BY <2>3, <4>7, <4>10
      <4> QED
        BY <2>1, <2>2, <3>2, <4>8, <4>9, <4>10 DEF GoesOn
    <3> QED
      BY <3>1, <3>2
  <2> QED
    BY <1>2, <2>2, <2>3, <2>6, <2>7 DEF After
<1>6. \A x \in DOMAIN sends' : Flying(x)' /\ Building(sends[x].conn)' => After(x)'
  <2>1. \A x \in DOMAIN sends' : Building(sends[x].conn)' = Building(sends'[x].conn)
    BY <1>2 DEF Building
  <2> QED
    BY <1>2, <1>4, <1>5, <2>1
<1> QED
  BY <1>6 DEF Behind, After

LEMMA BehindWhenExecuting ==
    ASSUME Typed, Sites, Pending, Behind, NEW c \in DOMAIN conns, NEW id, NEW how,
           Executes(c, id, how)
    PROVE  Behind'
<1>1. PICK x, do : x = First(c).to /\ do = First(c).do
  OBVIOUS
<1>2. /\ Moved(c, x, do, id, how) /\ UNCHANGED <<update, sends>> /\ Site' = Site
      /\ \A d \in DOMAIN conns : d # c => conns'[d] = conns[d]
  BY <1>1, RanIs
<1>3. Queue(c)[1] = First(c) /\ 1 \in DOMAIN Queue(c) /\ conns[c].queue # <<>>
  BY <1>2 DEF Moved, First, Executes
<1>4. ASSUME NEW t \in DOMAIN sends, Flying(t), Building(sends[t].conn), Ahead(sends[t].conn, t)
      PROVE  Ahead(sends[t].conn, t)'
  <2>1. PICK d \in DOMAIN conns : d = sends[t].conn
    BY <1>4, FlightIs
  <2>2. /\ \A i, j \in DOMAIN Queue(d) : Queue(d)[i].to = t /\ Queue(d)[j].to = TheUpdate => j < i
        /\ \A i \in DOMAIN answers :
             answers[i].to = t => \E j \in DOMAIN answers : j < i /\ answers[j].to = TheUpdate
    BY <1>4, <2>1 DEF Ahead
  <2>3. \A i, j \in DOMAIN conns'[d].queue :
           conns'[d].queue[i].to = t /\ conns'[d].queue[j].to = TheUpdate => j < i
    <3>1. CASE d # c
      BY <1>2, <2>2, <3>1 DEF Queue
    <3>2. CASE d = c
      <4> SUFFICES ASSUME NEW i \in DOMAIN conns'[c].queue, NEW j \in DOMAIN conns'[c].queue,
                          conns'[c].queue[i].to = t, conns'[c].queue[j].to = TheUpdate
                   PROVE  j < i
        BY <3>2
      <4>1. /\ i + 1 \in DOMAIN Queue(c) /\ conns'[c].queue[i] = Queue(c)[i + 1]
            /\ j + 1 \in DOMAIN Queue(c) /\ conns'[c].queue[j] = Queue(c)[j + 1]
            /\ i \in Nat /\ j \in Nat
        BY <1>2 DEF Moved
      <4>2. j + 1 < i + 1
        BY <2>2, <3>2, <4>1
      <4> QED
        BY <4>1, <4>2
    <3> QED
      BY <3>1, <3>2
  <2>4. ASSUME NEW i \in DOMAIN answers', answers'[i].to = t
        PROVE  \E j \in DOMAIN answers' : j < i /\ answers'[j].to = TheUpdate
    <3>1. \A j \in DOMAIN answers : j \in DOMAIN answers' /\ answers'[j] = answers[j]
      BY <1>2 DEF Moved
    <3>2. CASE i \in DOMAIN answers
      BY <2>2, <2>4, <3>1, <3>2
    <3>3. CASE i \notin DOMAIN answers
      <4>1. /\ answers'[i] = [to |-> x, do |-> do, id |-> id, how |-> how]
            /\ \A j \in DOMAIN answers : j < i
        BY <1>2, <3>3 DEF Moved
      <4>2. x = t
        BY <2>4, <4>1
      <4>3. t # TheUpdate /\ First(c).to = t
        BY <1>1, <4>2, UpdateIsNoTask DEF Typed
      <4>4. sends[t].conn = c
        BY <1>3, <4>3, FirstSends
      <4>5. ASSUME NEW j \in DOMAIN Queue(c), Queue(c)[j].to = TheUpdate
            PROVE  FALSE
        <5>1. j < 1
          BY <1>3, <2>1, <2>2, <4>3, <4>4, <4>5
        <5>2. j \in Nat \ {0}
          BY <1>2, <4>5 DEF Moved
        <5> QED
          BY <5>1, <5>2
      <4>6. Site = c /\ update.at # "idle"
        BY <1>4, <4>4 DEF Building
      <4>7. \E j \in DOMAIN answers : answers[j].to = TheUpdate
        BY <4>5, <4>6 DEF Pending
      <4> QED
        BY <3>1, <4>1, <4>7
    <3> QED
      BY <3>2, <3>3
  <2> QED
    BY <1>2, <2>1, <2>3, <2>4 DEF Ahead, Queue
<1>5. \A t \in DOMAIN sends : Flying(t) /\ Building(sends[t].conn) => After(t)'
  <2> SUFFICES ASSUME NEW t \in DOMAIN sends, Flying(t), Building(sends[t].conn) PROVE After(t)'
    OBVIOUS
  <2>1. After(t)
    BY BehindIs
  <2> QED
    BY <1>2, <1>4, <2>1 DEF After
<1>6. \A t : Flying(t)' = Flying(t) /\ Building(sends[t].conn)' = Building(sends[t].conn)
  BY <1>2 DEF Flying, Building
<1> QED
  BY <1>2, <1>5, <1>6 DEF Behind, After

LEMMA BehindWhenAsking ==
    ASSUME Typed, Sites, Pending, Behind, Asks
    PROVE  Behind'
<1>1. Goes
  BY GoesIs
<1>2. sends' = sends /\ Site' = Site /\ update.at \in {"connect", "create", "close"}
  BY <1>1 DEF Goes
<1>3. ASSUME NEW t \in DOMAIN sends, Flying(t), sends[t].conn = Site
      PROVE  After(t)'
  <2>1. CASE update.at = "connect"
    BY <1>3, <2>1, FlightIs DEF Site
  <2>2. CASE update.at # "connect"
    <3>1. After(t)
      BY <1>2, <1>3, <2>2, BehindIs DEF Building
    <3>2. sends[t].table \in 1..4 /\ update.table \in 1..4
      BY <1>2, <1>3, <2>2, FlightIs DEF Typed
    <3>3. CASE update.at = "create" /\ update'.at = "close" /\ update'.table = update.table
      BY <1>2, <3>1, <3>2, <3>3 DEF After
    <3>4. CASE update'.table = update.table + 1
      BY <1>2, <3>1, <3>2, <3>4 DEF After
    <3> QED
      BY <1>1, <2>2, <3>3, <3>4 DEF Goes
  <2> QED
    BY <2>1, <2>2
<1>4. \A t : Flying(t)' = Flying(t)
  BY <1>2 DEF Flying
<1> QED
  BY <1>2, <1>3, <1>4 DEF Behind, Building, After

LEMMA BehindWhenOthers ==
    ASSUME Typed, Sites, Pending, Behind,
           \/ \E p : Shuts(p)
           \/ \E p, g : Renews(p, g)
           \/ Finishes \/ Fresh \/ Quiet \/ Again
    PROVE  Behind'
<1>1. CASE update'.at \notin {"create", "close"}
  BY <1>1 DEF Behind, Building
<1>2. ASSUME NEW p, Shuts(p) PROVE update'.at = "shut"
  BY <1>2, ShutIs DEF ShutAt
<1>3. ASSUME NEW p, NEW g, Renews(p, g) PROVE update'.at \in {"idle", "connect"}
  BY <1>3, RenewIs DEF Renewed
<1>4. Finishes \/ Again => update'.at = "idle"
  BY DEF Finishes, Again, Idle
<1>5. CASE Fresh \/ Quiet
  <2>1. /\ UNCHANGED <<update, plugins, conns, answers>> /\ Site' = Site
    BY <1>5 DEF Fresh, Quiet, sinkVars, Site
  <2>2. \A t \in DOMAIN sends' : Flying(t)' => t \in DOMAIN sends /\ sends'[t] = sends[t] /\ Flying(t)
    BY <1>5 DEF Fresh, Quiet, Flying, InFlight
  <2>3. \A c, t : Ahead(c, t)' = Ahead(c, t)
    BY <2>1 DEF Ahead, Queue
  <2>4. ASSUME NEW t \in DOMAIN sends', Flying(t)', Building(sends[t].conn)'
        PROVE  After(t)'
    <3>1. After(t) /\ sends'[t] = sends[t]
      BY <2>1, <2>2, <2>4, BehindIs DEF Building
    <3>2. Ahead(sends[t].conn, t)' = Ahead(sends[t].conn, t)
      BY <2>1, <3>1 DEF Ahead, Queue
    <3> QED
      BY <2>1, <3>1, <3>2 DEF After
  <2> QED
    BY <2>4 DEF Behind, After
<1> QED
  BY <1>1, <1>2, <1>3, <1>4, <1>5

-------------------------------------------------------------------------------
(* A result is lost only by a task whose plugin was stopped.                 *)
LEMMA UpStays ==
    ASSUME NEW p, Up(p), plugins'[p] = plugins[p], ~Stopping(p)',
           plugins[p].kind # "csv" => conns'[plugins[p].conn].live = "open"
    PROVE  Up(p)'
BY DEF Up

(* A task that is not disturbed, and nothing happens to its plugin.          *)
Sure(t) == Up(sends[t].plugin) /\ (Flying(t) => sends[t].conn = Db(t))

LEMMA SafeIs ==
    Safe <=> /\ \A t \in DOMAIN sends : Active(t) /\ ~sends[t].disturbed => Sure(t)
             /\ \A j \in DOMAIN answers :
                  answers[j].to # TheUpdate =>
                     /\ answers[j].how # "missing"
                     /\ answers[j].how = "closed" => sends[answers[j].to].disturbed
             /\ \A t \in DOMAIN sends : sends[t].at = "lost" =>
                  \/ sends[t].disturbed /\ sends[t].why # "missing"
                  \/ sends[t].why = "syntax"
BY DEF Safe, LostOnlyWhenStopped, Active, Sure

LEMMA SureIs ==
    ASSUME Typed, NEW t \in DOMAIN sends, Active(t), Up(sends[t].plugin)
    PROVE  LET p == sends[t].plugin
           IN /\ p \in DOMAIN plugins /\ Db(t) = plugins[p].conn
              /\ plugins[p].kind = "csv" => plugins[p].path # None
              /\ plugins[p].kind # "csv" => /\ Db(t) \in DOMAIN conns /\ conns[Db(t)].live = "open"
                                            /\ ~Stopping(p) /\ Running(Db(t))
              /\ Flying(t) => plugins[p].kind # "csv"
<1>1. sends[t].plugin \in DOMAIN plugins /\ Db(t) \in 0..Len(conns)
      /\ (Running(Db(t)) => Db(t) \in DOMAIN conns)
  BY DbIs
<1>2. Flying(t) => plugins[sends[t].plugin].kind # "csv"
  BY DEF Flying, Typed
<1> QED
  BY <1>1, <1>2 DEF Up, Db, Running

LEMMA SafeWhenSending ==
    ASSUME Typed, Sites, Pending, Safe, NEW t \in DOMAIN sends, GoesOn(t) \/ Ends(t)
    PROVE  Safe'
<1>1. Sent(t) /\ Remain(t) /\ t # TheUpdate
  BY SentIs, SentRemains
<1>2. /\ UNCHANGED <<update, plugins>> /\ DOMAIN conns' = DOMAIN conns
      /\ \A c \in DOMAIN conns : conns'[c].live = conns[c].live
      /\ DOMAIN sends' = DOMAIN sends /\ \A x \in DOMAIN sends \ {t} : sends'[x] = sends[x]
      /\ sends'[t].plugin = sends[t].plugin /\ sends'[t].disturbed = sends[t].disturbed
  BY <1>1 DEF Sent
<1>3. Active(t)
  BY DEF GoesOn, Ends
<1>4. \A x \in DOMAIN sends : Active(x) /\ ~sends[x].disturbed => Sure(x)
  BY SafeIs
<1>5. ASSUME NEW x \in DOMAIN sends, Active(x), Up(sends[x].plugin)
      PROVE  Up(sends[x].plugin)'
  <2>1. PICK p : p = sends[x].plugin
    OBVIOUS
  <2>2. plugins[p].kind # "csv" => conns'[plugins[p].conn].live = "open" /\ ~Stopping(p)
    BY <1>2, <1>5, <2>1, SureIs
  <2>3. Up(p)'
    BY <1>2, <1>5, <2>1, <2>2 DEF Up, Stopping
  <2>4. sends'[x].plugin = p
    BY <1>2, <2>1
  <2> QED
    BY <2>3, <2>4 DEF Up, Stopping
<1>6. ASSUME NEW x \in DOMAIN sends, Active(x)', ~sends'[x].disturbed
      PROVE  Sure(x)'
  <2>1. CASE x # t
    <3>1. sends'[x] = sends[x] /\ Active(x) /\ (Flying(x)' = Flying(x))
      BY <1>2, <1>6, <2>1 DEF Active, Flying
    <3>2. Sure(x)
      BY <1>4, <1>6, <3>1
    <3> QED
      BY <1>2, <1>5, <3>1, <3>2 DEF Sure, Db
  <2>2. CASE x = t
    <3>1. Sure(t) /\ GoesOn(t)
      BY <1>2, <1>3, <1>4, <1>6, <2>2 DEF Ends, Active, Ended
    <3>2. sends'[t].conn = Db(t)
      BY <3>1 DEF GoesOn, Sure
    <3>3. Up(sends[t].plugin)'
      BY <1>3, <1>5, <3>1 DEF Sure
    <3> QED
      BY <1>2, <2>2, <3>2, <3>3 DEF Sure, Db
  <2> QED
    BY <2>1, <2>2
<1>7. ASSUME NEW j \in DOMAIN answers', answers'[j].to # TheUpdate
      PROVE  /\ answers'[j].how # "missing"
             /\ answers'[j].how = "closed" => sends'[answers'[j].to].disturbed
  <2>1. PICK k \in DOMAIN answers : answers'[j] = answers[k] /\ answers[k].to # t
    BY <1>1 DEF Remain
  <2>2. answers[k].to \in DOMAIN sends \ {t}
    BY <1>7, <2>1, AnswersOf
  <2>3. sends'[answers[k].to] = sends[answers[k].to]
    BY <1>2, <2>2
  <2> QED
    BY <1>7, <2>1, <2>3, SafeIs
<1>8. ASSUME NEW x \in DOMAIN sends, sends'[x].at = "lost"
      PROVE  \/ sends'[x].disturbed /\ sends'[x].why # "missing"
             \/ sends'[x].why = "syntax"
  <2>1. CASE x # t
    BY <1>2, <1>8, <2>1, SafeIs
  <2>2. CASE x = t
    <3>1. Ends(t)
      BY <1>8, <2>2 DEF GoesOn, InFlight
    <3>2. ~sends[t].disturbed => Sure(t)
      BY <1>3, <1>4
    <3>3. CASE /\ sends'[t].why = "closed"
               /\ \/ ~Running(Db(t)) /\ plugins[sends[t].plugin].kind = "sqlite"
                  \/ Flying(t) /\ ~Running(sends[t].conn)
                  \/ plugins[sends[t].plugin].path = None /\ plugins[sends[t].plugin].kind = "csv"
      <4>1. ~Sure(t)
        BY <1>3, <3>3, SureIs DEF Sure
      <4> QED
        BY <1>2, <2>2, <3>2, <3>3, <4>1
    <3>4. CASE Flying(t) /\ answers[1].how # "ok" /\ sends'[t].why = answers[1].how
      <4>1. Shifted(t)
        BY <1>1, <3>4 DEF Sent, Flying, InFlight
      <4>2. 1 \in DOMAIN answers /\ answers[1].to = t
        BY <4>1 DEF Shifted
      <4>3. answers[1] \in AnswerSet
        BY <4>2, Conns
      <4>4. answers[1].how \in {"ok", "missing", "syntax", "closed"}
        BY <4>3 DEF AnswerSet
      <4>5. answers[1].how # "missing" /\ (answers[1].how = "closed" => sends[t].disturbed)
        BY <1>1, <4>2, SafeIs
      <4> QED
        BY <1>2, <2>2, <3>4, <4>4, <4>5
    <3> QED
      BY <1>8, <2>2, <3>1, <3>3, <3>4 DEF Ends
  <2> QED
    BY <2>1, <2>2
<1>9. \A x \in DOMAIN sends' : Active(x)' /\ ~sends'[x].disturbed => Sure(x)'
  BY <1>2, <1>6
<1> QED
  BY <1>2, <1>7, <1>8, <1>9 DEF Safe, LostOnlyWhenStopped, Active, Sure

(* The table of an insert is there when its turn comes.                      *)
LEMMA MadeBefore ==
    ASSUME Typed, Sites, Pending, Made, Behind, NEW c \in DOMAIN conns, conns[c].queue # <<>>,
           conns[c].live = "open", First(c).do = "insert"
    PROVE  First(c).table \in conns[c].work.made
<1>1. PICK t : t = First(c).to
  OBVIOUS
<1>2. t # TheUpdate /\ Flying(t) /\ t \in DOMAIN sends /\ First(c).table \in 1..4
  BY <1>1, FirstFits
<1>3. 1 \in DOMAIN Queue(c) /\ Fits(c, First(c)) /\ Queue(c)[1] = First(c)
  BY FirstIs DEF Pending, First
<1>4. sends[t].at = "insert" /\ sends[t].conn = c /\ First(c).table = sends[t].table
  BY <1>1, <1>2, <1>3 DEF Fits
<1>5. CASE ~Building(c)
  <2>1. ~(update.at = "connect" /\ c = Len(conns))
    BY <1>2, <1>4, FlightIs
  <2> QED
    BY <1>2, <1>5, <2>1 DEF Made
<1>6. CASE Building(c)
  <2>1. /\ 1..update.table - 1 \subseteq conns[c].work.made
        /\ \/ update.table \in conns[c].work.made
           \/ /\ update.at = "create"
              /\ \E i \in DOMAIN Queue(c) : Queue(c)[i].to = TheUpdate
    BY <1>6 DEF Made
  <2>2. After(t) /\ update.table \in 0..4
    BY <1>2, <1>4, <1>6, BehindIs DEF Typed
  <2>3. CASE sends[t].table < update.table
    BY <1>2, <1>4, <2>1, <2>2, <2>3
  <2>4. CASE sends[t].table = update.table /\ update.at = "close"
    BY <1>4, <2>1, <2>4
  <2>5. CASE sends[t].table = update.table /\ Ahead(c, t)
    <3>1. \A j \in DOMAIN Queue(c) : Queue(c)[j].to = TheUpdate => j < 1
      BY <1>1, <1>3, <2>5 DEF Ahead
    <3>2. DOMAIN Queue(c) = 1..Len(Queue(c)) /\ Len(Queue(c)) \in Nat
      BY Conns
    <3>3. \A j \in DOMAIN Queue(c) : ~(j < 1)
      BY <3>2
    <3>4. \A j \in DOMAIN Queue(c) : Queue(c)[j].to # TheUpdate
      BY <3>1, <3>3
    <3> QED
      BY <1>4, <2>1, <2>5, <3>4
  <2> QED
    BY <1>4, <2>2, <2>3, <2>4, <2>5 DEF After
<1> QED
  BY <1>5, <1>6

LEMMA SafeWhenExecuting ==
    ASSUME Typed, Sites, Pending, Made, Behind, Safe, NEW c \in DOMAIN conns, NEW id, NEW how,
           Executes(c, id, how)
    PROVE  Safe'
<1>1. PICK x, do : x = First(c).to /\ do = First(c).do
  OBVIOUS
<1>2. /\ Lived(c) /\ Moved(c, x, do, id, how) /\ UNCHANGED <<update, plugins, sends>>
      /\ DOMAIN conns' = DOMAIN conns /\ \A d \in DOMAIN conns : d # c => conns'[d] = conns[d]
  BY <1>1, RanIs
<1>3. conns[c].queue # <<>>
  BY DEF Executes
<1>4. \A t \in DOMAIN sends : Active(t) /\ ~sends[t].disturbed => Sure(t)
  BY SafeIs
<1>5. ASSUME NEW t \in DOMAIN sends, Active(t), Up(sends[t].plugin)
      PROVE  Up(sends[t].plugin)'
  <2>1. PICK p : p = sends[t].plugin
    OBVIOUS
  <2>2. CASE plugins[p].kind = "csv"
    BY <1>2, <1>5, <2>1, <2>2 DEF Up
  <2>3. CASE plugins[p].kind # "csv"
    <3>1. /\ p \in DOMAIN plugins /\ plugins[p].conn \in DOMAIN conns /\ plugins[p].conn # 0
          /\ conns[plugins[p].conn].live = "open" /\ ~Stopping(p)
      BY <1>5, <2>1, <2>3, SureIs DEF Running
    <3>2. CASE plugins[p].conn # c
      BY <1>2, <1>5, <2>1, <3>1, <3>2 DEF Up, Stopping
    <3>3. CASE plugins[p].conn = c /\ First(c).do = "shut"
      <4>1. update.at = "shut" /\ c = Site /\ update.plugin \in DOMAIN plugins
        BY <1>3, <3>3, FirstFits DEF Typed
      <4>2. plugins[update.plugin].conn = plugins[p].conn
        BY <3>3, <4>1 DEF Site
      <4>3. update.plugin = p
        BY <3>1, <4>1, <4>2 DEF Sites
      <4> QED
        BY <3>1, <4>1, <4>3 DEF Stopping
    <3>4. CASE plugins[p].conn = c /\ First(c).do # "shut"
      <4>1. conns'[c].live = "open"
        BY <1>2, <3>1, <3>4 DEF Lived
      <4> QED
        BY <1>2, <1>5, <2>1, <3>1, <3>4, <4>1 DEF Up, Stopping
    <3> QED
      BY <3>2, <3>3, <3>4
  <2> QED
    BY <2>2, <2>3
<1>6. \A t \in DOMAIN sends' : Active(t)' /\ ~sends'[t].disturbed => Sure(t)'
  BY <1>2, <1>4, <1>5 DEF Active, Sure, Flying, Db
<1>7. x # TheUpdate => how # "missing"
  <2>1. CASE how = "missing"
    <3>1. /\ First(c).do = "insert" /\ conns[c].live = "open"
          /\ First(c).table \notin conns[c].work.made
      BY <2>1 DEF Executes, Opening, Creating, Inserting, Keeping, Committing, Shutting, Refusing
    <3> QED
      BY <1>3, <3>1, MadeBefore
  <2> QED
    BY <2>1
<1>8. x # TheUpdate /\ how = "closed" => sends[x].disturbed
  <2> SUFFICES ASSUME x # TheUpdate, how = "closed", ~sends[x].disturbed PROVE FALSE
    OBVIOUS
  <2>1. conns[c].live \in {"shut", "gone"}
    BY DEF Executes, Opening, Creating, Inserting, Keeping, Committing, Shutting, Refusing
  <2>2. Fits(c, First(c))
    BY <1>3, FirstIs DEF Pending, First
  <2>3. Flying(x) /\ sends[x].conn = c /\ x \in DOMAIN sends
    BY <1>1, <2>2 DEF Fits, Flying
  <2>4. Active(x)
    BY <2>3 DEF Active, Flying, InFlight, Ended
  <2>5. Sure(x)
    BY <1>4, <2>3, <2>4
  <2>6. conns[Db(x)].live = "open" /\ Db(x) = c
    BY <2>3, <2>4, <2>5, SureIs DEF Sure
  <2> QED
    BY <2>1, <2>6
<1>9. ASSUME NEW j \in DOMAIN answers', answers'[j].to # TheUpdate
      PROVE  /\ answers'[j].how # "missing"
             /\ answers'[j].how = "closed" => sends'[answers'[j].to].disturbed
  <2>1. CASE j \in DOMAIN answers /\ answers'[j] = answers[j]
    BY <1>2, <1>9, <2>1, SafeIs
  <2>2. CASE answers'[j] = [to |-> x, do |-> do, id |-> id, how |-> how]
    <3>1. answers'[j].to = x /\ answers'[j].how = how
      BY <2>2
    <3> QED
      BY <1>2, <1>7, <1>8, <1>9, <3>1
  <2> QED
    BY <1>2, <2>1, <2>2 DEF Moved
<1>10. LostOnlyWhenStopped'
  BY <1>2 DEF Safe, LostOnlyWhenStopped
<1> QED
  BY <1>6, <1>9, <1>10 DEF Safe, Active, Sure

(* Steps of the update: no task moves, and a plugin that is up stays up.     *)
StaysUp(t) == Up(sends[t].plugin)' /\ Db(t)' = Db(t)

LEMMA SafeKept ==
    ASSUME Typed, Sites, Pending, Safe, DOMAIN sends' = DOMAIN sends,
           \A t \in DOMAIN sends :
              /\ sends'[t].plugin = sends[t].plugin /\ sends'[t].at = sends[t].at
              /\ sends'[t].conn = sends[t].conn /\ sends'[t].why = sends[t].why
              /\ sends[t].disturbed => sends'[t].disturbed
              /\ Active(t) /\ Up(sends[t].plugin) /\ ~sends'[t].disturbed => StaysUp(t),
           \A j \in DOMAIN answers' :
              answers'[j].to # TheUpdate => \E k \in DOMAIN answers : answers'[j] = answers[k]
    PROVE  Safe'
<1>1. ASSUME NEW t \in DOMAIN sends, Active(t)', ~sends'[t].disturbed
      PROVE  Sure(t)'
  <2>1. Active(t) /\ (Flying(t)' = Flying(t)) /\ ~sends[t].disturbed
    BY <1>1 DEF Active, Flying
  <2>2. Sure(t)
    BY <2>1, SafeIs
  <2>3. StaysUp(t)
    BY <1>1, <2>1, <2>2 DEF Sure
  <2>4. sends'[t].plugin = sends[t].plugin /\ sends'[t].conn = sends[t].conn
    OBVIOUS
  <2>5. Up(sends[t].plugin)'
    BY <2>3 DEF StaysUp
  <2>6. Flying(t)' => sends'[t].conn = Db(t)'
    BY <2>1, <2>2, <2>3, <2>4 DEF Sure, StaysUp
  <2> QED
    BY <2>5, <2>6 DEF Sure
<1>2. ASSUME NEW j \in DOMAIN answers', answers'[j].to # TheUpdate
      PROVE  /\ answers'[j].how # "missing"
             /\ answers'[j].how = "closed" => sends'[answers'[j].to].disturbed
  <2>1. PICK k \in DOMAIN answers : answers'[j] = answers[k]
    BY <1>2
  <2>2. answers[k].to \in DOMAIN sends
    BY <1>2, <2>1, AnswersOf
  <2> QED
    BY <1>2, <2>1, <2>2, SafeIs
<1>3. LostOnlyWhenStopped'
  BY DEF Safe, LostOnlyWhenStopped
<1>4. \A t \in DOMAIN sends' : Active(t)' /\ ~sends'[t].disturbed => Sure(t)'
  BY <1>1
<1> QED
  BY <1>2, <1>3, <1>4 DEF Safe, Active, Sure

LEMMA UpThrough ==
    ASSUME Typed, NEW t \in DOMAIN sends, Active(t), Up(sends[t].plugin),
           sends'[t].plugin = sends[t].plugin,
           plugins'[sends[t].plugin].kind = plugins[sends[t].plugin].kind,
           plugins'[sends[t].plugin].conn = plugins[sends[t].plugin].conn,
           plugins'[sends[t].plugin].path = plugins[sends[t].plugin].path,
           \/ plugins[sends[t].plugin].kind = "csv"
           \/ /\ conns'[plugins[sends[t].plugin].conn].live = "open"
              /\ update'.at # "shut" \/ update'.plugin # sends[t].plugin
    PROVE  StaysUp(t)
<1>1. PICK p : p = sends[t].plugin
  OBVIOUS
<1>2. plugins[p].kind # "csv" => plugins[p].conn # 0
  BY <1>1 DEF Up
<1>3. Up(p)'
  BY <1>1, <1>2 DEF Up, Stopping
<1>4. sends'[t].plugin = p
  BY <1>1
<1> QED
  BY <1>1, <1>3, <1>4 DEF StaysUp, Db, Up, Stopping

LEMMA SafeWhenShut ==
    ASSUME Typed, Sites, Pending, Safe, NEW p, Shuts(p)
    PROVE  Safe'
<1>1. ShutAt(p) /\ Downs(p)
  BY ShutIs DEF ShutAt
<1>2. PICK op : PutAt(plugins[p].conn, op)
  BY <1>1 DEF ShutAt
<1>3. /\ plugins' = plugins /\ answers' = answers /\ update'.plugin = p
      /\ \A c \in DOMAIN conns : conns'[c].live = conns[c].live
  BY <1>1, <1>2 DEF ShutAt, PutAt
<1>4. /\ DOMAIN sends' = DOMAIN sends
      /\ \A t \in DOMAIN sends :
           /\ sends'[t].plugin = sends[t].plugin /\ sends'[t].at = sends[t].at
           /\ sends'[t].conn = sends[t].conn /\ sends'[t].why = sends[t].why
           /\ sends'[t].disturbed = (sends[t].disturbed \/ sends[t].plugin = p)
  BY <1>1 DEF Downs
<1>5. ASSUME NEW t \in DOMAIN sends, Active(t), Up(sends[t].plugin), ~sends'[t].disturbed
      PROVE  StaysUp(t)
  <2>1. sends[t].plugin # p
    BY <1>4, <1>5
  <2>2. plugins[sends[t].plugin].kind # "csv" =>
          conns'[plugins[sends[t].plugin].conn].live = "open"
    BY <1>3, <1>5, SureIs
  <2> QED
    BY <1>3, <1>4, <1>5, <2>1, <2>2, UpThrough
<1> QED
  BY <1>3, <1>4, <1>5, SafeKept

LEMMA SafeWhenRenewed ==
    ASSUME Typed, Sites, Pending, Safe, NEW p, NEW g, Renews(p, g)
    PROVE  Safe'
<1>1. Renewed(p, g)
  BY RenewIs
<1>2. \/ sends' = sends /\ (p \notin DOMAIN plugins \/ (update.at = "shut" /\ p = update.plugin))
      \/ Downs(p)
  BY DEF Renews
<1>3. /\ DOMAIN sends' = DOMAIN sends
      /\ \A t \in DOMAIN sends :
           /\ sends'[t].plugin = sends[t].plugin /\ sends'[t].at = sends[t].at
           /\ sends'[t].conn = sends[t].conn /\ sends'[t].why = sends[t].why
           /\ sends[t].disturbed => sends'[t].disturbed
  BY <1>2 DEF Downs
<1>4. ASSUME NEW t \in DOMAIN sends, Active(t), Up(sends[t].plugin), ~sends'[t].disturbed
      PROVE  StaysUp(t)
  <2>1. PICK q : q = sends[t].plugin
    OBVIOUS
  <2>2. /\ q \in DOMAIN plugins
        /\ plugins[q].kind # "csv" => /\ plugins[q].conn \in DOMAIN conns
                                      /\ conns[plugins[q].conn].live = "open" /\ ~Stopping(q)
    BY <1>4, <2>1, SureIs
  <2>3. q # p
    <3>1. CASE Downs(p)
      BY <1>4, <2>1, <3>1 DEF Downs
    <3>2. CASE p \notin DOMAIN plugins
      BY <2>2, <3>2
    <3>3. CASE update.at = "shut" /\ p = update.plugin
      <4>1. plugins[p].kind = "sqlite"
        BY <3>3 DEF Typed
      <4> QED
        BY <2>2, <3>3, <4>1 DEF Stopping
    <3> QED
      BY <1>2, <3>1, <3>2, <3>3
  <2>4. plugins'[q] = plugins[q] /\ update'.at # "shut"
    BY <1>1, <2>2, <2>3 DEF Renewed
  <2>5. plugins[q].kind # "csv" => conns'[plugins[q].conn].live = "open"
    <3> SUFFICES ASSUME plugins[q].kind # "csv", plugins[q].conn = g PROVE FALSE
      BY <1>1, <2>2 DEF Renewed
    <3>1. CASE g = 0
      BY <2>2, <3>1, Conns
    <3>2. CASE update.at = "shut" /\ g = Site /\ g # 0
      <4>1. update.plugin \in DOMAIN plugins /\ plugins[update.plugin].conn = g
        BY <3>2 DEF Typed, Site
      <4>2. update.plugin = q
        BY <2>2, <3>2, <4>1 DEF Sites
      <4> QED
        BY <2>2, <3>2, <4>2 DEF Stopping
    <3> QED
      BY <1>1, <3>1, <3>2 DEF Renewed
  <2> QED
    BY <1>3, <1>4, <2>1, <2>4, <2>5, UpThrough
<1>5. \A j \in DOMAIN answers' : \E k \in DOMAIN answers : answers'[j] = answers[k]
  BY <1>1 DEF Renewed, Shifted
<1> QED
  BY <1>3, <1>4, <1>5, SafeKept

LEMMA SafeWhenAsking ==
    ASSUME Typed, Sites, Pending, Safe, Asks
    PROVE  Safe'
<1>1. Goes /\ Shifted(TheUpdate)
  BY GoesIs DEF Goes
<1>2. PICK op : PutAt(Site, op)
  BY <1>1 DEF Goes
<1>3. /\ sends' = sends /\ update'.at # "shut"
      /\ \A c \in DOMAIN conns : conns'[c].live = conns[c].live
  BY <1>1, <1>2 DEF Goes, PutAt
<1>4. ASSUME NEW t \in DOMAIN sends, Active(t), Up(sends[t].plugin)
      PROVE  StaysUp(t)
  <2>1. PICK q : q = sends[t].plugin
    OBVIOUS
  <2>2. /\ q \in DOMAIN plugins
        /\ plugins[q].kind # "csv" => /\ plugins[q].conn \in DOMAIN conns /\ plugins[q].conn # 0
                                      /\ conns[plugins[q].conn].live = "open"
    BY <1>4, <2>1, SureIs DEF Running
  <2>3. plugins'[q] = plugins[q]
    <3>1. CASE q # update.plugin \/ update.at # "connect"
      BY <1>1, <2>2, <3>1 DEF Goes
    <3>2. CASE q = update.plugin /\ update.at = "connect"
      <4>1. plugins[q].kind = "sqlite"
        BY <3>2 DEF Typed
      <4>2. plugins[q].conn # 0 => conns[plugins[q].conn].live = "gone"
        BY <3>2 DEF Sites
      <4> QED
        BY <2>2, <4>1, <4>2
    <3> QED
      BY <3>1, <3>2
  <2>4. plugins[q].kind # "csv" => conns'[plugins[q].conn].live = "open"
    BY <1>3, <2>2
  <2> QED
    BY <1>3, <1>4, <2>1, <2>3, <2>4, UpThrough
<1>5. \A j \in DOMAIN answers' : \E k \in DOMAIN answers : answers'[j] = answers[k]
  BY <1>1 DEF Shifted
<1> QED
  BY <1>3, <1>4, <1>5, SafeKept

LEMMA SafeWhenFinished ==
    ASSUME Typed, Sites, Pending, Safe, Finishes
    PROVE  Safe'
<1>1. Shifted(TheUpdate) /\ UNCHANGED <<plugins, conns, sends>> /\ update'.at # "shut"
  BY TakesFacts DEF Finishes, Idle
<1>2. ASSUME NEW t \in DOMAIN sends, Active(t), Up(sends[t].plugin)
      PROVE  StaysUp(t)
  <2>1. plugins[sends[t].plugin].kind # "csv" => conns[plugins[sends[t].plugin].conn].live = "open"
    BY <1>2, SureIs
  <2> QED
    BY <1>1, <1>2, <2>1, UpThrough
<1>3. \A j \in DOMAIN answers' : \E k \in DOMAIN answers : answers'[j] = answers[k]
  BY <1>1 DEF Shifted
<1> QED
  BY <1>1, <1>2, <1>3, SafeKept

LEMMA SafeWhenFresh ==
    ASSUME Typed, Sites, Pending, Safe, Fresh
    PROVE  Safe'
<1>1. /\ UNCHANGED <<plugins, conns, answers, update>>
      /\ \A t \in DOMAIN sends : t \in DOMAIN sends' /\ sends'[t] = sends[t]
      /\ \A t \in DOMAIN sends' \ DOMAIN sends :
           sends'[t].at = "new" /\ (~sends'[t].disturbed => Up(sends'[t].plugin))
  BY DEF Fresh, sinkVars
<1>2. \A p : Up(p)' = Up(p)
  BY <1>1 DEF Up, Stopping
<1>3. ASSUME NEW t \in DOMAIN sends', Active(t)', ~sends'[t].disturbed
      PROVE  Sure(t)'
  <2>1. CASE t \in DOMAIN sends
    <3>1. Active(t) /\ (Flying(t)' = Flying(t)) /\ sends'[t] = sends[t]
      BY <1>1, <1>3, <2>1 DEF Active, Flying
    <3>2. Sure(t)
      BY <1>3, <2>1, <3>1, SafeIs
    <3> QED
      BY <1>1, <1>2, <3>1, <3>2 DEF Sure, Db, Up, Stopping
  <2>2. CASE t \notin DOMAIN sends
    <3>1. ~Flying(t)' /\ Up(sends'[t].plugin)
      BY <1>1, <1>3, <2>2 DEF Flying, InFlight
    <3> QED
      BY <1>1, <3>1 DEF Sure, Up, Stopping
  <2> QED
    BY <2>1, <2>2
<1>4. ASSUME NEW j \in DOMAIN answers', answers'[j].to # TheUpdate
      PROVE  /\ answers'[j].how # "missing"
             /\ answers'[j].how = "closed" => sends'[answers'[j].to].disturbed
  <2>1. answers[j].to \in DOMAIN sends
    BY <1>1, <1>4, AnswersOf
  <2> QED
    BY <1>1, <1>4, <2>1, SafeIs
<1>5. ASSUME NEW t \in DOMAIN sends', sends'[t].at = "lost"
      PROVE  \/ sends'[t].disturbed /\ sends'[t].why # "missing"
             \/ sends'[t].why = "syntax"
  <2>1. t \in DOMAIN sends
    BY <1>1, <1>5
  <2> QED
    BY <1>1, <1>5, <2>1, SafeIs
<1> QED
  BY <1>3, <1>4, <1>5 DEF Safe, LostOnlyWhenStopped, Active, Sure

LEMMA SafeWhenQuiet ==
    ASSUME Safe, Quiet
    PROVE  Safe'
<1>1. UNCHANGED <<plugins, conns, answers, update, sends>>
  BY DEF Quiet
<1> QED
  BY <1>1 DEF Safe, LostOnlyWhenStopped, Up, Stopping, Flying, Db

LEMMA SafeWhenAgain ==
    ASSUME Safe, Again
    PROVE  Safe'
<1>1. /\ answers' = <<>> /\ DOMAIN sends' = DOMAIN sends
      /\ \A t \in DOMAIN sends :
           /\ sends'[t].at \in Ended
           /\ \/ sends'[t] = sends[t]
              \/ sends'[t].why = "restart" /\ sends'[t].disturbed
  BY DEF Again
<1>2. DOMAIN answers' = {}
  BY <1>1
<1>3. LostOnlyWhenStopped'
  BY <1>1 DEF Safe, LostOnlyWhenStopped
<1> QED
  BY <1>1, <1>2, <1>3 DEF Safe

-------------------------------------------------------------------------------
(* Backups are sinks, or the one that is being added.                        *)
LEMMA MapIs ==
    ASSUME Mapped, update.do # "add"
    PROVE  \A n \in DOMAIN backups : n \in DOMAIN sinks /\ sinks[n] = backups[n]
BY DEF Mapped

LEMMA MapsWhenEqual ==
    ASSUME \A n \in DOMAIN backups' : n \in DOMAIN sinks' /\ sinks'[n] = backups'[n],
           update'.do # "add"
    PROVE  Mapped'
BY DEF Mapped

LEMMA MappedWhenSame ==
    ASSUME Mapped, UNCHANGED <<sinks, backups>>, update'.do = update.do,
           update'.cfg = update.cfg, update'.plugin = update.plugin
    PROVE  Mapped'
BY DEF Mapped

LEMMA MappedWhenAdded ==
    ASSUME Mapped, AddSink
    PROVE  Mapped'
<1> DEFINE p == Len(plugins) + 1
<1>1. PICK cfg \in life.configs :
        /\ cfg.name \notin DOMAIN sinks
        /\ backups' = IF cfg.name \in Kinds /\ cfg.as_backup
                      THEN Backed(cfg.name, p) ELSE backups
        /\ StartPlugin("add", cfg, p,
                       Append(plugins, [kind |-> PluginName(cfg), conn |-> 0, path |-> None]),
                       conns)
  BY DEF AddSink
<1> HIDE DEF p
<1>2. update = Idle
  BY DEF AddSink
<1>3. \A n \in DOMAIN backups : n \in DOMAIN sinks /\ sinks[n] = backups[n]
  BY <1>2, MapIs DEF Idle
<1>4. \A n \in DOMAIN backups' :
         \/ n \in DOMAIN sinks /\ sinks[n] = backups'[n] /\ n # cfg.name
         \/ n = cfg.name /\ backups'[n] = p
  <2>1. CASE backups' = backups
    BY <1>1, <1>3, <2>1
  <2>2. CASE backups' = Backed(cfg.name, p)
    BY <1>1, <1>3, <2>2 DEF Backed, With
  <2> QED
    BY <1>1, <2>1, <2>2
<1>5. CASE sinks' = Registered("add", cfg, p) /\ update' = Idle
  <2>1. sinks' = With(sinks, cfg.name, p)
    BY <1>5 DEF Registered
  <2>2. \A n \in DOMAIN backups' : n \in DOMAIN sinks' /\ sinks'[n] = backups'[n]
    BY <1>4, <2>1 DEF With
  <2> QED
    BY <1>5, <2>2, MapsWhenEqual DEF Idle
<1>6. CASE /\ sinks' = sinks
           /\ update' = [do |-> "add", at |-> "connect", cfg |-> cfg, plugin |-> p, table |-> 0]
  BY <1>1, <1>4, <1>6 DEF Mapped
<1> QED
  BY <1>1, <1>5, <1>6 DEF StartPlugin

LEMMA MappedWhenStopped ==
    ASSUME Mapped, update.do # "add", NEW do, NEW cfg, NEW cs, cfg.name \in DOMAIN sinks,
           AfterStop(do, cfg, cs)
    PROVE  Mapped'
<1>1. \A n \in DOMAIN backups : n \in DOMAIN sinks /\ sinks[n] = backups[n]
  BY MapIs
<1>2. CASE do = "update"
  <2>1. PICK p : p = sinks[cfg.name]
    OBVIOUS
  <2>2. /\ backups' = IF ~cfg.as_backup THEN Unbacked(cfg.name)
                      ELSE IF cfg.name \in DOMAIN backups THEN backups ELSE Backed(cfg.name, p)
        /\ StartPlugin(do, cfg, p, plugins, cs)
    BY <1>2, <2>1 DEF AfterStop
  <2>3. sinks' = sinks /\ update'.do # "add"
    <3>1. CASE sinks' = Registered(do, cfg, p) /\ update' = Idle
      BY <1>2, <3>1 DEF Registered, Idle
    <3>2. CASE /\ sinks' = sinks
               /\ update' = [do |-> do, at |-> "connect", cfg |-> cfg, plugin |-> p, table |-> 0]
      BY <1>2, <3>2
    <3> QED
      BY <2>2, <3>1, <3>2 DEF StartPlugin
  <2>4. \A n \in DOMAIN backups' : n \in DOMAIN sinks /\ sinks[n] = backups'[n]
    <3>1. CASE backups' = Unbacked(cfg.name)
      BY <1>1, <3>1 DEF Unbacked, Without
    <3>2. CASE backups' = backups
      BY <1>1, <3>2
    <3>3. CASE backups' = Backed(cfg.name, p)
      BY <1>1, <2>1, <3>3 DEF Backed, With
    <3> QED
      BY <2>2, <3>1, <3>2, <3>3
  <2> QED
    BY <2>3, <2>4, MapsWhenEqual
<1>3. CASE do = "remove"
  <2>1. sinks' = Without(sinks, cfg.name) /\ backups' = Unbacked(cfg.name) /\ update' = Idle
    BY <1>3 DEF AfterStop
  <2>2. \A n \in DOMAIN backups' : n \in DOMAIN sinks' /\ sinks'[n] = backups'[n]
    BY <1>1, <2>1 DEF Unbacked, Without
  <2> QED
    BY <2>1, <2>2, MapsWhenEqual DEF Idle
<1> QED
  BY <1>2, <1>3 DEF AfterStop

LEMMA MappedNext ==
    ASSUME Typed, Pending, Mapped, [Next]_vars
    PROVE  Mapped'
<1>1. CASE /\ UNCHANGED <<sinks, backups>> /\ update'.do = update.do
           /\ update'.cfg = update.cfg /\ update'.plugin = update.plugin
  BY <1>1, MappedWhenSame
<1>2. CASE \/ ThreadStep \/ SendFirst \/ SendCSV \/ Inserted \/ Selected \/ CursorClosed
           \/ Committed \/ SendFails \/ SendData \/ SetProbe \/ UNCHANGED vars
  <2>1. UNCHANGED <<sinks, backups, update>>
    BY <1>2 DEF ThreadStep, SendFirst, SendCSV, Inserted, Selected, CursorClosed, Committed,
                SendResumes, SendFails, SendData, SetProbe, vars, sinkVars
  <2> QED
    BY <1>1, <2>1
<1>3. CASE AddSink
  BY <1>3, MappedWhenAdded
<1>4. CASE StopSink
  <2>1. PICK cfg \in life.configs, do \in {"update", "remove"} :
          /\ cfg.name \in DOMAIN sinks
          /\ \/ /\ UNCHANGED <<sinks, backups>>
                /\ update' = [do |-> do, at |-> "shut", cfg |-> cfg,
                              plugin |-> sinks[cfg.name], table |-> 0]
             \/ AfterStop(do, cfg, conns)
    BY <1>4 DEF StopSink
  <2>2. update.do # "add"
    BY <1>4 DEF StopSink, Idle
  <2>3. CASE AfterStop(do, cfg, conns)
    BY <2>1, <2>2, <2>3, MappedWhenStopped
  <2>4. CASE /\ UNCHANGED <<sinks, backups>>
             /\ update' = [do |-> do, at |-> "shut", cfg |-> cfg,
                           plugin |-> sinks[cfg.name], table |-> 0]
    <3>1. update'.do # "add"
      BY <2>4
    <3>2. \A n \in DOMAIN backups : n \in DOMAIN sinks /\ sinks[n] = backups[n]
      BY <2>2, MapIs
    <3> QED
      BY <2>4, <3>1, <3>2, MapsWhenEqual
  <2> QED
    BY <2>1, <2>3, <2>4
<1>5. CASE Stopped
  <2>1. update.at = "shut"
    BY <1>5, Answer DEF Stopped, UpdateResumes
  <2>2. update.do # "add" /\ update.cfg.name \in DOMAIN sinks
    BY <2>1 DEF Typed
  <2> QED
    BY <1>5, <2>2, MappedWhenStopped DEF Stopped
<1>6. CASE Connected \/ Created
  <2>1. UNCHANGED <<sinks, backups>> /\ \E at, n : update' = [update EXCEPT !.at = at, !.table = n]
                                     \/ update' = [update EXCEPT !.at = at]
    BY <1>6 DEF Connected, Created, CreateTable
  <2>2. update = [do |-> update.do, at |-> update.at, cfg |-> update.cfg,
                  plugin |-> update.plugin, table |-> update.table]
    BY DEF Typed
  <2>3. update'.do = update.do /\ update'.cfg = update.cfg /\ update'.plugin = update.plugin
    BY <2>1, <2>2
  <2> QED
    BY <1>1, <2>1, <2>3
<1>7. CASE CreatedNext
  <2>1. CASE sinks' = sinks /\ \E at, n : update' = [update EXCEPT !.at = at, !.table = n]
    <3>1. update = [do |-> update.do, at |-> update.at, cfg |-> update.cfg,
                    plugin |-> update.plugin, table |-> update.table]
      BY DEF Typed
    <3>2. update'.do = update.do /\ update'.cfg = update.cfg /\ update'.plugin = update.plugin
      BY <2>1, <3>1
    <3> QED
      BY <1>1, <1>7, <2>1, <3>2 DEF CreatedNext
  <2>2. CASE sinks' = Registered(update.do, update.cfg, update.plugin) /\ update' = Idle
    <3>1. backups' = backups
      BY <1>7 DEF CreatedNext
    <3>2. \A n \in DOMAIN backups : n \in DOMAIN sinks' /\ sinks'[n] = backups[n]
      <4>1. CASE update.do = "add"
        BY <2>2, <4>1 DEF Registered, With, Mapped
      <4>2. CASE update.do # "add"
        BY <2>2, <4>2, MapIs DEF Registered
      <4> QED
        BY <4>1, <4>2
    <3> QED
      BY <2>2, <3>1, <3>2, MapsWhenEqual DEF Idle
  <2> QED
    BY <1>7, <2>1, <2>2 DEF CreatedNext, CreateTable
<1>8. CASE Restart
  <2>1. DOMAIN backups' = {} /\ update'.do # "add"
    BY <1>8 DEF Restart, Idle
  <2> QED
    BY <2>1, MapsWhenEqual
<1> QED
  BY <1>2, <1>3, <1>4, <1>5, <1>6, <1>7, <1>8 DEF Next, Coroutine

-------------------------------------------------------------------------------
(* No connection has a url that start rejects.                               *)
LEMMA LimitsNext ==
    ASSUME Typed, Sites, Pending, Limits, [Next]_vars
    PROVE  Limits'
<1> DEFINE Good == \A c \in DOMAIN conns' : conns'[c].url \notin BadUrls
<1>1. ASSUME NEW t \in DOMAIN sends, GoesOn(t) \/ Ends(t)
      PROVE  Limits'
  <2>1. Sent(t)
    BY <1>1, SentIs
  <2> QED
    BY <2>1 DEF Sent, Limits
<1>2. ASSUME NEW c \in DOMAIN conns, NEW id, NEW how, Executes(c, id, how)
      PROVE  Limits'
  <2>1. PICK x, do : x = First(c).to /\ do = First(c).do
    OBVIOUS
  <2>2. /\ Moved(c, x, do, id, how) /\ UNCHANGED <<life, restarts>> /\ DOMAIN conns' = DOMAIN conns
        /\ \A d \in DOMAIN conns : d # c => conns'[d] = conns[d]
    BY <1>2, <2>1, RanIs
  <2>3. conns'[c].url = conns[c].url
    BY <2>2 DEF Moved
  <2> QED
    BY <2>2, <2>3 DEF Limits
<1>3. ASSUME NEW p, Shuts(p)
      PROVE  Limits'
  <2>1. PICK op : PutAt(plugins[p].conn, op)
    BY <1>3, ShutIs DEF ShutAt
  <2>2. UNCHANGED <<life, restarts>>
    BY <1>3 DEF Shuts
  <2> QED
    BY <2>1, <2>2 DEF PutAt, Limits
<1>4. ASSUME NEW p, NEW g, Renews(p, g)
      PROVE  Limits'
  <2>1. Renewed(p, g)
    BY <1>4, RenewIs
  <2>2. /\ UNCHANGED <<life, restarts>>
        /\ \A c \in DOMAIN conns : conns'[c].url = conns[c].url
        /\ \A c \in DOMAIN conns' : c \notin DOMAIN conns => c = Len(conns') /\ update'.at = "connect"
    BY <2>1 DEF Renewed, NewComer
  <2>3. update'.at = "connect" => conns'[Len(conns')].url \notin BadUrls
    BY <1>4 DEF Renews, Idle
  <2> QED
    BY <2>2, <2>3 DEF Limits
<1>5. ASSUME Asks
      PROVE  Limits'
  <2>1. Goes
    BY <1>5, GoesIs
  <2>2. PICK op : PutAt(Site, op)
    BY <2>1 DEF Goes
  <2>3. UNCHANGED <<life, restarts>>
    BY <2>1 DEF Goes
  <2> QED
    BY <2>2, <2>3 DEF PutAt, Limits
<1>6. CASE Finishes \/ Fresh \/ Quiet
  <2>1. UNCHANGED <<conns, life, restarts>>
    BY <1>6 DEF Finishes, Fresh, Quiet, sinkVars
  <2> QED
    BY <2>1 DEF Limits
<1>7. CASE Again
  <2>1. DOMAIN conns' = {}
    BY <1>7 DEF Again
  <2>2. restarts' \in 0..life'.restarts
    <3>1. life' = life /\ restarts' = restarts + 1 /\ restarts < life.restarts /\ life \in Lives
      BY <1>7 DEF Again, Typed
    <3>2. life.restarts \in Nat
      BY <3>1, SinksAssumption
    <3> QED
      BY <3>1, <3>2 DEF Limits
  <2> QED
    BY <2>1, <2>2 DEF Limits
<1> QED
  BY <1>1, <1>2, <1>3, <1>4, <1>5, <1>6, <1>7, StepIs

-------------------------------------------------------------------------------
(* The invariant, and what follows from it.                                  *)
LEMMA TypedNext ==
    ASSUME Typed, Sites, Pending, [Next]_vars
    PROVE  Typed'
<1>1. ASSUME NEW t \in DOMAIN sends, GoesOn(t) \/ Ends(t) PROVE Typed'
  BY <1>1, TypedWhenSending
<1>2. ASSUME NEW c \in DOMAIN conns, NEW id, NEW how, Executes(c, id, how) PROVE Typed'
  BY <1>2, TypedWhenExecuting
<1>3. ASSUME NEW p, Shuts(p) PROVE Typed'
  BY <1>3, TypedWhenShut
<1>4. ASSUME NEW p, NEW g, Renews(p, g) PROVE Typed'
  BY <1>4, TypedWhenRenewed
<1>5. CASE Asks \/ Finishes \/ Fresh \/ Quiet \/ Again
  BY <1>5, TypedWhenAsking, TypedWhenFinished, TypedWhenFresh, TypedWhenQuiet, TypedWhenAgain
<1> QED
  BY <1>1, <1>2, <1>3, <1>4, <1>5, StepIs

LEMMA SitesNext ==
    ASSUME Typed, Sites, Pending, [Next]_vars
    PROVE  Sites'
<1>1. ASSUME NEW t \in DOMAIN sends, GoesOn(t) \/ Ends(t) PROVE Sites'
  BY <1>1, SitesWhenSending
<1>2. ASSUME NEW c \in DOMAIN conns, NEW id, NEW how, Executes(c, id, how) PROVE Sites'
  BY <1>2, SitesWhenExecuting
<1>3. ASSUME NEW p, Shuts(p) PROVE Sites'
  BY <1>3, SitesWhenShut
<1>4. ASSUME NEW p, NEW g, Renews(p, g) PROVE Sites'
  BY <1>4, SitesWhenRenewed
<1>5. CASE Asks \/ Finishes \/ Fresh \/ Quiet \/ Again
  BY <1>5, SitesWhenAsking, SitesWhenFinished, SitesWhenFresh, SitesWhenQuiet, SitesWhenAgain
<1> QED
  BY <1>1, <1>2, <1>3, <1>4, <1>5, StepIs

LEMMA PendingNext ==
    ASSUME Typed, Sites, Pending, [Next]_vars
    PROVE  Pending'
<1>1. ASSUME NEW t \in DOMAIN sends, GoesOn(t) \/ Ends(t) PROVE Pending'
  BY <1>1, PendingWhenSending
<1>2. ASSUME NEW c \in DOMAIN conns, NEW id, NEW how, Executes(c, id, how) PROVE Pending'
  BY <1>2, PendingWhenExecuting
<1>3. ASSUME NEW p, Shuts(p) PROVE Pending'
  BY <1>3, PendingWhenShut
<1>4. ASSUME NEW p, NEW g, Renews(p, g) PROVE Pending'
  BY <1>4, PendingWhenRenewed
<1>5. CASE Asks \/ Finishes \/ Fresh \/ Quiet \/ Again
  BY <1>5, PendingWhenAsking, PendingWhenFinished, PendingWhenFresh, PendingWhenQuiet, PendingWhenAgain
<1> QED
  BY <1>1, <1>2, <1>3, <1>4, <1>5, StepIs

LEMMA PunctualNext ==
    ASSUME Typed, Sites, Pending, Punctual, [Next]_vars
    PROVE  Punctual'
<1>1. ASSUME NEW t \in DOMAIN sends, GoesOn(t) \/ Ends(t) PROVE Punctual'
  BY <1>1, PunctualWhenSending
<1>2. ASSUME NEW c \in DOMAIN conns, NEW id, NEW how, Executes(c, id, how) PROVE Punctual'
  BY <1>2, PunctualWhenExecuting
<1>3. ASSUME NEW p, Shuts(p) PROVE Punctual'
  BY <1>3, PunctualWhenShut
<1>4. ASSUME NEW p, NEW g, Renews(p, g) PROVE Punctual'
  BY <1>4, PunctualWhenRenewed
<1>5. CASE Asks \/ Finishes \/ Fresh \/ Quiet \/ Again
  BY <1>5, PunctualWhenAsking, PunctualWhenFinished, PunctualWhenFresh, PunctualWhenQuiet, PunctualWhenAgain
<1> QED
  BY <1>1, <1>2, <1>3, <1>4, <1>5, StepIs

LEMMA LedNext ==
    ASSUME Typed, Sites, Pending, Punctual, Led, [Next]_vars
    PROVE  Led'
<1>1. ASSUME NEW t \in DOMAIN sends, GoesOn(t) \/ Ends(t) PROVE Led'
  BY <1>1, LedWhenSending
<1>2. ASSUME NEW c \in DOMAIN conns, NEW id, NEW how, Executes(c, id, how) PROVE Led'
  BY <1>2, LedWhenExecuting
<1>3. ASSUME NEW p, Shuts(p) PROVE Led'
  BY <1>3, LedWhenShut
<1>4. ASSUME NEW p, NEW g, Renews(p, g) PROVE Led'
  BY <1>4, LedWhenRenewed
<1>5. CASE Asks \/ Finishes \/ Fresh \/ Quiet \/ Again
  BY <1>5, LedWhenAsking, LedWhenFinished, LedWhenFresh, LedWhenQuiet, LedWhenAgain
<1> QED
  BY <1>1, <1>2, <1>3, <1>4, <1>5, StepIs

LEMMA MadeNext ==
    ASSUME Typed, Sites, Pending, Made, [Next]_vars
    PROVE  Made'
<1>1. ASSUME NEW t \in DOMAIN sends, GoesOn(t) \/ Ends(t) PROVE Made'
  BY <1>1, MadeWhenSending
<1>2. ASSUME NEW c \in DOMAIN conns, NEW id, NEW how, Executes(c, id, how) PROVE Made'
  BY <1>2, MadeWhenExecuting
<1>3. ASSUME NEW p, Shuts(p) PROVE Made'
  BY <1>3, MadeWhenShut
<1>4. ASSUME NEW p, NEW g, Renews(p, g) PROVE Made'
  BY <1>4, MadeWhenRenewed
<1>5. CASE Asks \/ Finishes \/ Fresh \/ Quiet \/ Again
  BY <1>5, MadeWhenAsking, MadeWhenFinished, MadeWhenOthers
<1> QED
  BY <1>1, <1>2, <1>3, <1>4, <1>5, StepIs

LEMMA BehindNext ==
    ASSUME Typed, Sites, Pending, Punctual, Behind, [Next]_vars
    PROVE  Behind'
<1>1. ASSUME NEW t \in DOMAIN sends, GoesOn(t) \/ Ends(t) PROVE Behind'
  BY <1>1, BehindWhenSending
<1>2. ASSUME NEW c \in DOMAIN conns, NEW id, NEW how, Executes(c, id, how) PROVE Behind'
  BY <1>2, BehindWhenExecuting
<1>3. ASSUME NEW p, Shuts(p) PROVE Behind'
  BY <1>3, BehindWhenOthers
<1>4. ASSUME NEW p, NEW g, Renews(p, g) PROVE Behind'
  BY <1>4, BehindWhenOthers
<1>5. CASE Asks \/ Finishes \/ Fresh \/ Quiet \/ Again
  BY <1>5, BehindWhenAsking, BehindWhenOthers
<1> QED
  BY <1>1, <1>2, <1>3, <1>4, <1>5, StepIs

LEMMA SafeNext ==
    ASSUME Typed, Sites, Pending, Made, Behind, Safe, [Next]_vars
    PROVE  Safe'
<1>1. ASSUME NEW t \in DOMAIN sends, GoesOn(t) \/ Ends(t) PROVE Safe'
  BY <1>1, SafeWhenSending
<1>2. ASSUME NEW c \in DOMAIN conns, NEW id, NEW how, Executes(c, id, how) PROVE Safe'
  BY <1>2, SafeWhenExecuting
<1>3. ASSUME NEW p, Shuts(p) PROVE Safe'
  BY <1>3, SafeWhenShut
<1>4. ASSUME NEW p, NEW g, Renews(p, g) PROVE Safe'
  BY <1>4, SafeWhenRenewed
<1>5. CASE Asks \/ Finishes \/ Fresh \/ Quiet \/ Again
  BY <1>5, SafeWhenAsking, SafeWhenFinished, SafeWhenFresh, SafeWhenQuiet, SafeWhenAgain
<1> QED
  BY <1>1, <1>2, <1>3, <1>4, <1>5, StepIs

LEMMA InitSinksInv ==
    ASSUME Init
    PROVE  SinksInv
<1>1. /\ sinks = [x \in {} |-> 0] /\ backups = [x \in {} |-> 0] /\ life \in Lives /\ probe \in life.probes
      /\ plugins = <<>> /\ conns = <<>> /\ answers = <<>> /\ update = Idle
      /\ saved = [u \in Urls |-> NoTables] /\ sends = [x \in {} |-> 0] /\ restarts = 0
  BY DEF Init
<1>2. /\ plugins \in Seq(PluginSet) /\ conns \in Seq(ConnSet) /\ answers \in Seq(AnswerSet)
      /\ DOMAIN plugins = {} /\ DOMAIN conns = {} /\ DOMAIN answers = {} /\ DOMAIN sends = {}
      /\ DOMAIN sinks = {} /\ DOMAIN backups = {} /\ Len(conns) = 0
  BY <1>1, EmptySeq
<1>3. /\ Idle.do = "none" /\ Idle.at = "idle" /\ Idle.table = 0
      /\ Idle = [do |-> Idle.do, at |-> Idle.at, cfg |-> Idle.cfg, plugin |-> Idle.plugin,
                 table |-> Idle.table]
  BY DEF Idle
<1>4. saved \in [Urls -> Tables]
  BY <1>1, NoTablesAre
<1>5. Typed
  BY <1>1, <1>2, <1>3, <1>4 DEF Typed
<1>6. Sites
  BY <1>1, <1>2, <1>3 DEF Sites
<1>7. Pending /\ Punctual
  BY <1>1, <1>2, <1>3 DEF Pending, Punctual
<1>8. Led
  <2>1. ASSUME NEW u \in Urls
        PROVE  Own(saved[u].rows)
    <3>1. saved[u].rows[4] = <<>>
      BY <1>1, NoTablesAre
    <3>2. DOMAIN saved[u].rows[4] = {}
      BY <3>1
    <3> QED
      BY <3>2 DEF Own
  <2> QED
    BY <1>2, <2>1 DEF Led
<1>9. Made /\ Behind /\ Safe
  BY <1>1, <1>2, <1>3 DEF Made, Behind, Safe, LostOnlyWhenStopped
<1>10. Mapped
  BY <1>1, <1>2, <1>3 DEF Mapped
<1>11. Limits
  <2>1. life.restarts \in Nat
    BY <1>1, SinksAssumption
  <2> QED
    BY <1>1, <1>2, <2>1 DEF Limits
<1> QED
  BY <1>5, <1>6, <1>7, <1>8, <1>9, <1>10, <1>11 DEF SinksInv

LEMMA SinksInvNext ==
    ASSUME SinksInv, [Next]_vars
    PROVE  SinksInv'
<1>1. /\ Typed /\ Sites /\ Pending /\ Punctual /\ Led /\ Made /\ Behind /\ Safe /\ Mapped
      /\ Limits
  BY DEF SinksInv
<1>2. Typed' /\ Sites' /\ Pending'
  BY <1>1, TypedNext, SitesNext, PendingNext
<1>3. Punctual' /\ Led' /\ Made'
  BY <1>1, PunctualNext, LedNext, MadeNext
<1>4. Behind' /\ Safe'
  BY <1>1, BehindNext, SafeNext
<1>5. Mapped' /\ Limits'
  BY <1>1, MappedNext, LimitsNext
<1> QED
  BY <1>2, <1>3, <1>4, <1>5 DEF SinksInv

LEMMA SinksInvAlways ==
    Spec => []SinksInv
<1>1. Init => SinksInv
  BY InitSinksInv
<1>2. SinksInv /\ [Next]_vars => SinksInv'
  BY SinksInvNext
<1> QED
  BY <1>1, <1>2, PTL DEF Spec

(* The types of MasterSink, of its plugins and of the tasks of send_data:    *)
(* sinks and tasks name plugins that exist, and plugins connections.         *)
THEOREM TypesCorrect == Spec => []TypeOK
<1>1. ASSUME SinksInv
      PROVE  TypeOK
  <2>1. Typed /\ Mapped /\ Limits
    BY <1>1 DEF SinksInv
  <2>2. /\ DOMAIN sinks \subseteq Names
        /\ \A n \in DOMAIN sinks : sinks[n] \in DOMAIN plugins
        /\ DOMAIN sends \subseteq Tasks /\ probe \in life.probes
        /\ update.at \in {"idle", "shut", "connect", "create", "close"}
    BY <2>1 DEF Typed
  <2>3. DOMAIN backups \subseteq Names
    <3>1. update.do = "add" => update.cfg.name \in Names
      <4> SUFFICES ASSUME update.do = "add" PROVE update.cfg.name \in Names
        OBVIOUS
      <4>1. update.at # "idle"
        BY <2>1 DEF Typed, Idle
      <4>2. update.cfg \in life.configs
        BY <2>1, <4>1 DEF Typed
      <4> QED
        BY <2>1, <4>2, ConfigIs
    <3> QED
      BY <2>1, <2>2, <3>1 DEF Mapped
  <2>4. ASSUME NEW p \in DOMAIN plugins
        PROVE  /\ plugins[p].kind \in Kinds /\ plugins[p].conn \in {0} \cup DOMAIN conns
               /\ plugins[p].path \in Urls \cup {None}
    <3>1. plugins[p] \in PluginSet /\ plugins[p].conn \in 0..Len(conns)
          /\ DOMAIN conns = 1..Len(conns) /\ Len(conns) \in Nat
      BY <2>1, Conns
    <3> QED
      BY <3>1 DEF PluginSet
  <2>5. ASSUME NEW c \in DOMAIN conns
        PROVE  /\ conns[c].url \in Urls \ BadUrls /\ conns[c].live \in {"new", "open", "shut", "gone"}
               /\ conns[c].work.made \subseteq 1..4
    <3>1. conns[c] \in ConnSet /\ conns[c].url \notin BadUrls
      BY <2>1, Conns DEF Limits
    <3>2. conns[c].work \in Tables
      BY <3>1, ConnFields
    <3> QED
      BY <3>1, <3>2, ConnFields, TableFields
  <2>6. ASSUME NEW t \in DOMAIN sends
        PROVE  /\ sends[t].at \in {"new", "insert", "select", "close", "commit"} \cup Ended
               /\ sends[t].table \in 0..4
    <3>1. sends[t] \in TaskSet
      BY <2>1 DEF Typed
    <3> QED
      BY <3>1 DEF TaskSet, InFlight
  <2> QED
    BY <2>1, <2>2, <2>3, <2>4, <2>5, <2>6 DEF TypeOK, Limits
<1> QED
  BY <1>1, SinksInvAlways, PTL

(* SQLite._insert: an id is that of a row the same send has found or made, so*)
(* whatever other sends, edits of the sink and crashes come between its rows,*)
(* a stored run leads to its own case, group and probe.                      *)
THEOREM RowsAreOwn == Spec => []OwnRows
<1>1. ASSUME SinksInv
      PROVE  OwnRows
  <2>1. Led
    BY <1>1 DEF SinksInv
  <2> SUFFICES ASSUME NEW rows \in Contents, NEW i \in DOMAIN rows[4]
               PROVE  LET run == rows[4][i]
                      IN /\ run.parent \in DOMAIN rows[3]
                         /\ rows[3][run.parent].key = CaseOf[run.key]
                         /\ rows[3][run.parent].parent \in DOMAIN rows[2]
                         /\ LET group == rows[2][rows[3][run.parent].parent]
                            IN /\ group.key = GroupOf[run.key]
                               /\ group.parent \in DOMAIN rows[1]
                               /\ rows[1][group.parent].key \in
                                    {sends[t].probe : t \in {x \in DOMAIN sends : x[1] = run.key}}
    BY DEF OwnRows
  <2>2. Own(rows)
    BY <2>1 DEF Contents, Led
  <2>3. PICK t \in DOMAIN sends : /\ t[1] = rows[4][i].key
                                  /\ IsCase(rows, t[1], sends[t].probe, rows[4][i].parent)
    BY <2>2 DEF Own
  <2> QED
    BY <2>3 DEF IsCase, IsGroup, IsProbe
<1> QED
  BY <1>1, SinksInvAlways, PTL

(* SQLite.send and CSV.send raise only when the plugin has been stopped or   *)
(* down since the result was sent, or when the database cannot look a key up;*)
(* never because a table that start creates is not there yet.                *)
THEOREM LossesExplained == Spec => []LostOnlyWhenStopped
<1>1. SinksInv => LostOnlyWhenStopped
  BY DEF SinksInv, Safe
<1> QED
  BY <1>1, SinksInvAlways, PTL

(* MasterSink._backups names the plugins of _sinks, whatever the order in    *)
(* which sinks are added, updated and removed and whether their start fails. *)
THEOREM BackupsCorrect == Spec => []BackupsAreSinks
<1>1. ASSUME SinksInv
      PROVE  BackupsAreSinks
  <2>1. Mapped /\ Idle.do # "add"
    BY <1>1 DEF SinksInv, Idle
  <2> QED
    BY <2>1 DEF Mapped, BackupsAreSinks
<1> QED
  BY <1>1, SinksInvAlways, PTL

-------------------------------------------------------------------------------
(* A plugin belongs to one name.                                             *)
LEMMA UrlsIs ==
    ASSUME Typed, NEW cfg \in life.configs
    PROVE  cfg.url \in UrlsOf(cfg.name) /\ UrlsOf(cfg.name) \subseteq Urls
<1>1. \A c \in life.configs : c.url \in Urls
  BY ConfigIs
<1> QED
  BY <1>1 DEF UrlsOf

LEMMA BelongsStays ==
    ASSUME NEW p, NEW n, Belongs(p, n), life' = life,
           plugins'[p].conn # 0 => conns'[plugins'[p].conn].url \in UrlsOf(n),
           plugins'[p].path \in {None, plugins[p].path} \/ plugins'[p].path \in UrlsOf(n),
           \A m \in DOMAIN sinks' : sinks'[m] = p => m = n \/ (m \in DOMAIN sinks /\ sinks[m] = p),
           \A t : Active(t)' /\ sends'[t].plugin = p =>
                     t[2] = n \/ (Active(t) /\ sends[t].plugin = p),
           update'.at # "idle" /\ update'.plugin = p =>
              \/ update'.cfg.name = n
              \/ update.at # "idle" /\ update.plugin = p /\ update'.cfg = update.cfg
    PROVE  Belongs(p, n)'
<1>1. UrlsOf(n)' = UrlsOf(n)
  BY DEF UrlsOf
<1>2. Serves(p, n)'
  BY <1>1 DEF Belongs, Serves
<1>3. \A m \in DOMAIN sinks' : sinks'[m] = p => m = n
  BY DEF Belongs
<1>4. \A t \in DOMAIN sends' : Active(t)' /\ sends'[t].plugin = p => t[2] = n
  BY DEF Belongs, Active
<1>5. update'.at # "idle" /\ update'.plugin = p => update'.cfg.name = n
  BY DEF Belongs
<1> QED
  BY <1>2, <1>3, <1>4, <1>5 DEF Belongs

(* Steps that leave the sinks and the plugins as they are.                   *)
LEMMA OwnedKept ==
    ASSUME Typed, Sites, Owned, UNCHANGED <<sinks, plugins, life>>,
           DOMAIN conns' = DOMAIN conns, Len(conns') = Len(conns),
           \A c \in DOMAIN conns :
              /\ conns'[c].url = conns[c].url
              /\ conns'[c].live \in {"new", "open"} => conns[c].live \in {"new", "open"},
           \A t : Active(t)' =>
              \/ t[2] \in DOMAIN sinks /\ sends'[t].plugin = sinks[t[2]]
              \/ Active(t) /\ sends'[t].plugin = sends[t].plugin,
           \/ update' = update
           \/ /\ update.at = "idle" /\ update'.at \notin {"idle", "connect"}
              /\ update'.cfg.name \in DOMAIN sinks /\ sinks[update'.cfg.name] = update'.plugin
    PROVE  Owned'
<1>1. ASSUME NEW p \in DOMAIN plugins'
      PROVE  \E n \in Names : Belongs(p, n)'
  <2>1. PICK n \in Names : Belongs(p, n)
    BY <1>1 DEF Owned
  <2>2. /\ plugins'[p].conn # 0 => conns[plugins'[p].conn].url \in UrlsOf(n)
        /\ \A m \in DOMAIN sinks : sinks[m] = p => m = n
    BY <2>1 DEF Belongs, Serves
  <2>3. plugins'[p].conn # 0 => plugins'[p].conn \in DOMAIN conns
    <3>1. plugins[p].conn \in 0..Len(conns) /\ DOMAIN conns = 1..Len(conns) /\ Len(conns) \in Nat
      BY <1>1, Conns
    <3> QED
      BY <3>1
  <2>4. plugins'[p].conn # 0 => conns'[plugins'[p].conn].url \in UrlsOf(n)
    BY <2>2, <2>3
  <2>5. \A t : Active(t)' /\ sends'[t].plugin = p =>
                  t[2] = n \/ (Active(t) /\ sends[t].plugin = p)
    BY <2>2
  <2>6. update'.at # "idle" /\ update'.plugin = p =>
           \/ update'.cfg.name = n
           \/ update.at # "idle" /\ update.plugin = p /\ update'.cfg = update.cfg
    BY <2>2
  <2> QED
    BY <2>1, <2>4, <2>5, <2>6, BelongsStays
<1>2. update'.at = "connect" => conns'[Len(conns')].url = update'.cfg.url
  <2>1. update'.at = "connect" => update' = update /\ conns[Len(conns)].url = update.cfg.url
    BY DEF Owned
  <2>2. update'.at = "connect" => Len(conns) \in DOMAIN conns
    BY <2>1, SiteIs DEF Site
  <2> QED
    BY <2>1, <2>2
<1>3. ASSUME NEW c \in DOMAIN conns', conns'[c].live \in {"new", "open"}
      PROVE  Held(c)'
  <2>1. Held(c)
    BY <1>3 DEF Owned
  <2>2. update.at # "idle" => update' = update /\ Site' = Site
    BY DEF Site
  <2> QED
    BY <2>1, <2>2 DEF Held
<1> QED
  BY <1>1, <1>2, <1>3 DEF Owned

LEMMA OwnedWhenRenewed ==
    ASSUME Typed, Sites, Pending, Owned, NEW p, NEW g, Renews(p, g)
    PROVE  Owned'
<1>1. Renewed(p, g) /\ Registers(p)
  BY RenewIs DEF Renews
<1>2. PICK cfg \in life.configs :
         /\ \A m \in DOMAIN sinks' : \/ m \in DOMAIN sinks /\ sinks'[m] = sinks[m]
                                     \/ m = cfg.name /\ sinks'[m] = p
         /\ \A m \in DOMAIN sinks : sinks[m] # p => m \in DOMAIN sinks' /\ sinks'[m] = sinks[m]
         /\ p \in DOMAIN plugins => cfg.name \in DOMAIN sinks /\ sinks[cfg.name] = p
         /\ \/ plugins'[p].path \in {None, cfg.url}
            \/ p \in DOMAIN plugins /\ plugins'[p].path = plugins[p].path
         /\ update'.at = "connect" => update'.cfg = cfg /\ conns'[Len(conns')].url = cfg.url
  BY <1>1 DEF Registers
<1>3. /\ DOMAIN plugins \subseteq DOMAIN plugins'
      /\ \A q \in DOMAIN plugins' : q \notin DOMAIN plugins => q = p /\ plugins'[q].conn = 0
      /\ \A q \in DOMAIN plugins : /\ plugins'[q].conn = plugins[q].conn
                                   /\ q # p => plugins'[q] = plugins[q]
      /\ DOMAIN conns \subseteq DOMAIN conns'
      /\ \A c \in DOMAIN conns : /\ conns'[c].url = conns[c].url
                                 /\ conns'[c].live = IF c = g THEN "gone" ELSE conns[c].live
      /\ \A c \in DOMAIN conns' : c \notin DOMAIN conns => c = Len(conns') /\ update'.at = "connect"
      /\ update'.at \in {"idle", "connect"}
      /\ update'.at = "connect" => update'.plugin = p /\ Site' = Len(conns')
      /\ update.at = "idle" \/ (update.at = "shut" /\ g = Site)
      /\ life' = life
      /\ p \in DOMAIN plugins => plugins[p].conn = 0 \/ conns'[plugins[p].conn].live = "gone"
      /\ sends' = sends \/ Downs(p)
  BY <1>1 DEF Renewed, NewComer
<1>4. \A t : /\ Active(t)' => Active(t) /\ sends'[t].plugin = sends[t].plugin
             /\ Active(t) => sends[t].plugin \in DOMAIN plugins
  <2>1. \A t : Active(t)' => Active(t) /\ sends'[t].plugin = sends[t].plugin
    BY <1>3, DownIs DEF Active
  <2> QED
    BY <2>1 DEF Active, Typed
<1>5. \A q \in DOMAIN plugins : plugins[q].conn # 0 => plugins[q].conn \in DOMAIN conns
  BY Conns
<1>6. cfg.name \in Names /\ cfg.url \in UrlsOf(cfg.name) /\ UrlsOf(cfg.name)' = UrlsOf(cfg.name)
  BY <1>3, ConfigIs, UrlsIs DEF UrlsOf
<1>7. ASSUME NEW q \in DOMAIN plugins
      PROVE  \E n \in Names : Belongs(q, n)'
  <2>1. PICK n \in Names : Belongs(q, n)
    BY DEF Owned
  <2>2. q = p => n = cfg.name
    BY <1>2, <2>1 DEF Belongs
  <2>3. plugins'[q].conn # 0 => conns'[plugins'[q].conn].url \in UrlsOf(n)
    BY <1>3, <1>5, <2>1 DEF Belongs, Serves
  <2>4. plugins'[q].path \in {None, plugins[q].path} \/ plugins'[q].path \in UrlsOf(n)
    BY <1>2, <1>3, <1>6, <2>2
  <2>5. \A m \in DOMAIN sinks' : sinks'[m] = q => m = n \/ (m \in DOMAIN sinks /\ sinks[m] = q)
    BY <1>2, <2>2
  <2>6. \A t : Active(t)' /\ sends'[t].plugin = q => Active(t) /\ sends[t].plugin = q
    BY <1>4
  <2>7. update'.at # "idle" /\ update'.plugin = q => update'.cfg.name = n
    BY <1>2, <1>3, <2>2
  <2> QED
    BY <1>3, <2>1, <2>3, <2>4, <2>5, <2>6, <2>7, BelongsStays
<1>8. ASSUME NEW q \in DOMAIN plugins', q \notin DOMAIN plugins
      PROVE  Belongs(q, cfg.name)'
  <2>1. q = p /\ plugins'[q].conn = 0 /\ plugins'[q].path \in {None, cfg.url}
    BY <1>2, <1>3, <1>8
  <2>2. Serves(q, cfg.name)'
    BY <1>6, <2>1 DEF Serves
  <2>3. \A m \in DOMAIN sinks' : sinks'[m] = q => m = cfg.name
    BY <1>2, <1>8 DEF Typed
  <2>4. \A t \in DOMAIN sends' : Active(t)' /\ sends'[t].plugin = q => t[2] = cfg.name
    BY <1>4, <1>8
  <2>5. update'.at # "idle" /\ update'.plugin = q => update'.cfg.name = cfg.name
    BY <1>2, <1>3
  <2> QED
    BY <2>2, <2>3, <2>4, <2>5 DEF Belongs
<1>9. ASSUME NEW c \in DOMAIN conns', conns'[c].live \in {"new", "open"}
      PROVE  Held(c)'
  <2>1. CASE c \in DOMAIN conns
    <3>1. c # g /\ conns'[c].live = conns[c].live
      BY <1>3, <1>9, <2>1
    <3>2. Held(c)
      BY <1>9, <2>1, <3>1 DEF Owned
    <3>3. PICK n \in DOMAIN sinks : plugins[sinks[n]].conn = c
      BY <1>3, <3>1, <3>2 DEF Held
    <3>4. sinks[n] \in DOMAIN plugins /\ c # 0
      BY <2>1, Conns DEF Typed
    <3>5. sinks[n] # p
      BY <1>3, <1>9, <3>3, <3>4
    <3>6. n \in DOMAIN sinks' /\ sinks'[n] = sinks[n]
      BY <1>2, <3>5
    <3>7. plugins'[sinks'[n]].conn = c
      BY <1>3, <3>3, <3>4, <3>6
    <3> QED
      BY <3>6, <3>7 DEF Held
  <2>2. CASE c \notin DOMAIN conns
    <3>1. c = Len(conns') /\ update'.at = "connect" /\ Site' = Len(conns')
      BY <1>3, <2>2
    <3> QED
      BY <3>1 DEF Held
  <2> QED
    BY <2>1, <2>2
<1>10. update'.at = "connect" => conns'[Len(conns')].url = update'.cfg.url
  BY <1>2
<1>11. \A q \in DOMAIN plugins' : \E n \in Names : Belongs(q, n)'
  BY <1>6, <1>7, <1>8
<1> QED
  BY <1>9, <1>10, <1>11 DEF Owned

LEMMA OwnedWhenAsking ==
    ASSUME Typed, Sites, Pending, Owned, Asks
    PROVE  Owned'
<1>1. Goes
  BY GoesIs
<1>2. PICK op : PutAt(Site, op)
  BY <1>1 DEF Goes
<1>3. /\ DOMAIN conns' = DOMAIN conns /\ Len(conns') = Len(conns)
      /\ \A c \in DOMAIN conns : conns'[c].url = conns[c].url /\ conns'[c].live = conns[c].live
  BY <1>2 DEF PutAt
<1>4. /\ Site' = Site /\ Site \in DOMAIN conns /\ Site # 0 /\ update.plugin \in DOMAIN plugins
      /\ DOMAIN plugins' = DOMAIN plugins /\ plugins'[update.plugin].conn = Site
      /\ \A q \in DOMAIN plugins : /\ plugins'[q].path = plugins[q].path
                                   /\ q # update.plugin => plugins'[q] = plugins[q]
      /\ update.at # "connect" => plugins' = plugins
      /\ update.at \in {"connect", "create", "close"} /\ update'.at \in {"create", "close"}
      /\ update'.plugin = update.plugin
      /\ UNCHANGED <<sinks, sends, life>>
  BY <1>1 DEF Goes
<1>5. update'.cfg = update.cfg
  BY DEF Asks, IsUpdate
<1>6. /\ update.cfg \in life.configs
      /\ update.cfg.name \in Names /\ update.cfg.url \in UrlsOf(update.cfg.name)
  BY <1>4, ConfigIs, UrlsIs DEF Typed
<1>7. \A t : Active(t)' = Active(t)
  BY <1>4 DEF Active
<1>8. ASSUME NEW q \in DOMAIN plugins
      PROVE  \E n \in Names : Belongs(q, n)'
  <2>1. PICK n \in Names : Belongs(q, n)
    BY DEF Owned
  <2>2. q = update.plugin => n = update.cfg.name
    BY <1>4, <2>1 DEF Belongs
  <2>3. plugins'[q].conn # 0 => conns'[plugins'[q].conn].url \in UrlsOf(n)
    <3>1. CASE plugins'[q].conn = plugins[q].conn
      <4>1. plugins[q].conn # 0 => plugins[q].conn \in DOMAIN conns
        BY Conns
      <4> QED
        BY <1>3, <2>1, <3>1, <4>1 DEF Belongs, Serves
    <3>2. CASE plugins'[q].conn # plugins[q].conn
      <4>1. q = update.plugin /\ update.at = "connect" /\ Site = Len(conns)
        BY <1>4, <3>2 DEF Site
      <4>2. conns[Site].url = update.cfg.url
        BY <4>1 DEF Owned
      <4> QED
        BY <1>3, <1>4, <1>6, <2>2, <4>1, <4>2
    <3> QED
      BY <3>1, <3>2
  <2> QED
    BY <1>4, <1>5, <1>7, <2>1, <2>2, <2>3, BelongsStays
<1>9. ASSUME NEW c \in DOMAIN conns', conns'[c].live \in {"new", "open"}
      PROVE  Held(c)'
  <2>1. Held(c)
    BY <1>3, <1>9 DEF Owned
  <2>2. CASE c = Site
    BY <1>4, <2>2 DEF Held
  <2>3. CASE c # Site
    <3>1. PICK n \in DOMAIN sinks : plugins[sinks[n]].conn = c
      BY <2>1, <2>3 DEF Held
    <3>2. sinks[n] \in DOMAIN plugins
      BY DEF Typed
    <3>3. sinks[n] # update.plugin
      <4>1. CASE update.at = "connect"
        <5>1. c \in DOMAIN conns /\ conns[c].live # "gone" /\ c # 0
          BY <1>3, <1>9, Conns
        <5>2. plugins[update.plugin].conn # 0 => conns[plugins[update.plugin].conn].live = "gone"
          BY <4>1 DEF Sites
        <5> QED
          BY <3>1, <5>1, <5>2
      <4>2. CASE update.at # "connect"
        BY <2>3, <3>1, <4>2 DEF Site
      <4> QED
        BY <4>1, <4>2
    <3> QED
      BY <1>4, <3>1, <3>2, <3>3 DEF Held
  <2> QED
    BY <2>2, <2>3
<1> QED
  BY <1>4, <1>8, <1>9 DEF Owned

LEMMA OwnedWhenFinished ==
    ASSUME Typed, Sites, Mapped, Owned, Finishes
    PROVE  Owned'
<1>1. /\ update.at = "close" /\ update' = Idle
      /\ sinks' = Registered(update.do, update.cfg, update.plugin)
      /\ UNCHANGED <<plugins, conns, sends, life>>
  BY DEF Finishes
<1>2. PICK n : n = update.cfg.name
  OBVIOUS
<1>3. /\ \A m \in DOMAIN sinks : m \in DOMAIN sinks' /\ sinks'[m] = sinks[m]
      /\ n \in DOMAIN sinks' /\ sinks'[n] = update.plugin
      /\ \A m \in DOMAIN sinks' : m # n => m \in DOMAIN sinks /\ sinks'[m] = sinks[m]
  <2>1. CASE update.do = "add"
    <3>1. sinks' = With(sinks, n, update.plugin) /\ n \notin DOMAIN sinks
      BY <1>1, <1>2, <2>1 DEF Registered, Mapped
    <3> QED
      BY <3>1 DEF With
  <2>2. CASE update.do # "add"
    <3>1. sinks' = sinks
      BY <1>1, <2>2 DEF Registered
    <3>2. n \in DOMAIN sinks /\ sinks[n] = update.plugin
      BY <1>1, <1>2, <2>2 DEF Typed
    <3> QED
      BY <3>1, <3>2
  <2> QED
    BY <2>1, <2>2
<1>4. \A t : Active(t)' = Active(t)
  BY <1>1 DEF Active
<1>5. update'.at = "idle"
  BY <1>1 DEF Idle
<1>6. ASSUME NEW q \in DOMAIN plugins
      PROVE  \E m \in Names : Belongs(q, m)'
  <2>1. PICK m \in Names : Belongs(q, m)
    BY DEF Owned
  <2>2. q = update.plugin => m = n
    BY <1>1, <1>2, <2>1 DEF Belongs
  <2>3. plugins'[q].conn # 0 => conns'[plugins'[q].conn].url \in UrlsOf(m)
    BY <1>1, <2>1 DEF Belongs, Serves
  <2>4. \A k \in DOMAIN sinks' : sinks'[k] = q => k = m \/ (k \in DOMAIN sinks /\ sinks[k] = q)
    BY <1>3, <2>2
  <2> QED
    BY <1>1, <1>4, <1>5, <2>1, <2>3, <2>4, BelongsStays
<1>7. ASSUME NEW c \in DOMAIN conns', conns'[c].live \in {"new", "open"}
      PROVE  Held(c)'
  <2>1. Held(c)
    BY <1>1, <1>7 DEF Owned
  <2>2. c = Site => plugins'[sinks'[n]].conn = c
    BY <1>1, <1>3 DEF Site
  <2> QED
    BY <1>1, <1>3, <2>1, <2>2 DEF Held
<1> QED
  BY <1>1, <1>5, <1>6, <1>7 DEF Owned

LEMMA OwnedWhenOthers ==
    ASSUME Typed, Sites, Pending, Owned
    PROVE  /\ \A t \in DOMAIN sends : GoesOn(t) \/ Ends(t) => Owned'
           /\ \A c \in DOMAIN conns : \A id, how : Executes(c, id, how) => Owned'
           /\ \A p : Shuts(p) => Owned'
           /\ Fresh \/ Quiet \/ Again => Owned'
<1>1. ASSUME NEW t \in DOMAIN sends, GoesOn(t) \/ Ends(t)
      PROVE  Owned'
  <2>1. Sent(t)
    BY <1>1, SentIs
  <2>2. /\ UNCHANGED <<sinks, plugins, update, life>> /\ DOMAIN sends' = DOMAIN sends
        /\ \A x \in DOMAIN sends \ {t} : sends'[x] = sends[x]
        /\ sends'[t].plugin = sends[t].plugin
        /\ DOMAIN conns' = DOMAIN conns /\ Len(conns') = Len(conns)
        /\ \A c \in DOMAIN conns : conns'[c].live = conns[c].live /\ conns'[c].url = conns[c].url
    BY <2>1 DEF Sent
  <2>3. Active(t)
    BY <1>1 DEF GoesOn, Ends
  <2>4. \A x : Active(x)' => Active(x) /\ sends'[x].plugin = sends[x].plugin
    BY <2>2, <2>3 DEF Active
  <2> QED
    BY <2>2, <2>4, OwnedKept
<1>2. ASSUME NEW c \in DOMAIN conns, NEW id, NEW how, Executes(c, id, how)
      PROVE  Owned'
  <2>1. PICK x, do : x = First(c).to /\ do = First(c).do
    OBVIOUS
  <2>2. /\ Lived(c) /\ Moved(c, x, do, id, how) /\ UNCHANGED <<sinks, plugins, update, life, sends>>
        /\ DOMAIN conns' = DOMAIN conns /\ Len(conns') = Len(conns)
        /\ \A d \in DOMAIN conns : d # c => conns'[d] = conns[d]
    BY <1>2, <2>1, RanIs
  <2>3. \A d \in DOMAIN conns :
           /\ conns'[d].url = conns[d].url
           /\ conns'[d].live \in {"new", "open"} => conns[d].live \in {"new", "open"}
    BY <2>2 DEF Moved, Lived
  <2>4. \A t : Active(t)' => Active(t) /\ sends'[t].plugin = sends[t].plugin
    BY <2>2 DEF Active
  <2> QED
    BY <2>2, <2>3, <2>4, OwnedKept
<1>3. ASSUME NEW p, Shuts(p)
      PROVE  Owned'
  <2>1. ShutAt(p)
    BY <1>3, ShutIs
  <2>2. PICK op : PutAt(plugins[p].conn, op)
    BY <2>1 DEF ShutAt
  <2>3. /\ DOMAIN conns' = DOMAIN conns /\ Len(conns') = Len(conns)
        /\ \A c \in DOMAIN conns : conns'[c].live = conns[c].live /\ conns'[c].url = conns[c].url
    BY <2>2 DEF PutAt
  <2>4. PICK cfg \in life.configs, do \in {"update", "remove"} :
           IsUpdate(do, "shut", cfg, p, 0) /\ cfg.name \in DOMAIN sinks /\ sinks[cfg.name] = p
    BY <1>3 DEF Shuts
  <2>5. update'.at = "shut" /\ update'.cfg = cfg /\ update'.plugin = p /\ update.at = "idle"
    BY <2>1, <2>4 DEF IsUpdate, ShutAt, Idle
  <2>6. UNCHANGED <<sinks, plugins, life>> /\ Downs(p)
    BY <2>1 DEF ShutAt
  <2>7. \A t : Active(t)' => Active(t) /\ sends'[t].plugin = sends[t].plugin
    BY <2>6, DownIs DEF Active
  <2> QED
    BY <2>3, <2>4, <2>5, <2>6, <2>7, OwnedKept
<1>4. CASE Fresh
  <2>1. UNCHANGED <<sinks, plugins, update, life, conns>>
    BY <1>4 DEF Fresh, sinkVars
  <2>2. \A t : Active(t)' =>
           \/ t[2] \in DOMAIN sinks /\ sends'[t].plugin = sinks[t[2]]
           \/ Active(t) /\ sends'[t].plugin = sends[t].plugin
    BY <1>4 DEF Fresh, Active
  <2> QED
    BY <2>1, <2>2, OwnedKept
<1>5. CASE Quiet
  <2>1. UNCHANGED <<sinks, plugins, update, life, conns, sends>>
    BY <1>5 DEF Quiet
  <2>2. \A t : Active(t)' => Active(t) /\ sends'[t].plugin = sends[t].plugin
    BY <2>1 DEF Active
  <2> QED
    BY <2>1, <2>2, OwnedKept
<1>6. CASE Again
  <2>1. plugins' = <<>> /\ conns' = <<>> /\ update' = Idle
    BY <1>6 DEF Again
  <2>2. DOMAIN plugins' = {} /\ DOMAIN conns' = {} /\ update'.at = "idle"
    BY <2>1 DEF Idle
  <2> QED
    BY <2>2 DEF Owned
<1> QED
  BY <1>1, <1>2, <1>3, <1>4, <1>5, <1>6

LEMMA OwnedNext ==
    ASSUME Typed, Sites, Pending, Mapped, Owned, [Next]_vars
    PROVE  Owned'
<1>1. ASSUME NEW p, NEW g, Renews(p, g) PROVE Owned'
  BY <1>1, OwnedWhenRenewed
<1>2. CASE Asks \/ Finishes
  BY <1>2, OwnedWhenAsking, OwnedWhenFinished
<1> QED
  BY <1>1, <1>2, OwnedWhenOthers, StepIs

(* A file belongs to one name, and is open once.                             *)
LEMMA OneName ==
    ASSUME OneSinkEach, NEW u, NEW m, NEW n, u \in UrlsOf(m), u \in UrlsOf(n)
    PROVE  m = n
BY DEF OneSinkEach, UrlsOf

(* Who has connection c, and under which name.                               *)
Holds(c, p, n) ==
    /\ p \in DOMAIN plugins /\ conns[c].url \in UrlsOf(n)
    /\ \/ plugins[p].conn = c
       \/ update.at = "connect" /\ p = update.plugin /\ c = Len(conns)
    /\ \/ n \in DOMAIN sinks /\ sinks[n] = p
       \/ update.at # "idle" /\ n = update.cfg.name /\ p = update.plugin

LEMMA HolderIs ==
    ASSUME Typed, Sites, Owned, NEW c \in DOMAIN conns, conns[c].live \in {"new", "open"}
    PROVE  \E p, n : Holds(c, p, n)
<1>1. Held(c) /\ c # 0
  BY Conns DEF Owned
<1>2. CASE \E n \in DOMAIN sinks : plugins[sinks[n]].conn = c
  <2>1. PICK n \in DOMAIN sinks : plugins[sinks[n]].conn = c
    BY <1>2
  <2>2. sinks[n] \in DOMAIN plugins
    BY DEF Typed
  <2>3. PICK m : Belongs(sinks[n], m)
    BY <2>2 DEF Owned
  <2>4. m = n /\ conns[c].url \in UrlsOf(n)
    BY <1>1, <2>1, <2>3 DEF Belongs, Serves
  <2>5. Holds(c, sinks[n], n)
    BY <2>1, <2>2, <2>4 DEF Holds
  <2> QED
    BY <2>5
<1>3. CASE update.at # "idle" /\ c = Site
  <2>1. update.plugin \in DOMAIN plugins /\ update.cfg \in life.configs
    BY <1>3 DEF Typed
  <2>2. CASE update.at = "connect"
    <3>1. c = Len(conns) /\ conns[c].url = update.cfg.url
      BY <1>3, <2>2 DEF Site, Owned
    <3>2. conns[c].url \in UrlsOf(update.cfg.name)
      BY <2>1, <3>1, UrlsIs
    <3>3. Holds(c, update.plugin, update.cfg.name)
      BY <1>3, <2>1, <2>2, <3>1, <3>2 DEF Holds
    <3> QED
      BY <3>3
  <2>3. CASE update.at # "connect"
    <3>1. plugins[update.plugin].conn = c
      BY <1>3, <2>3 DEF Site
    <3>2. PICK m : Belongs(update.plugin, m)
      BY <2>1 DEF Owned
    <3>3. m = update.cfg.name /\ conns[c].url \in UrlsOf(m)
      BY <1>1, <1>3, <3>1, <3>2 DEF Belongs, Serves
    <3>4. Holds(c, update.plugin, update.cfg.name)
      BY <1>3, <2>1, <3>1, <3>3 DEF Holds
    <3> QED
      BY <3>4
  <2> QED
    BY <2>2, <2>3
<1> QED
  BY <1>1, <1>2, <1>3 DEF Held

LEMMA OneOpen ==
    ASSUME Typed, Sites, Mapped, Owned, OneSinkEach, NEW c \in DOMAIN conns, NEW d \in DOMAIN conns,
           conns[c].live \in {"new", "open"}, conns[d].live \in {"new", "open"},
           conns[c].url = conns[d].url
    PROVE  c = d
<1>1. PICK p, n : Holds(c, p, n)
  BY HolderIs
<1>2. PICK q, m : Holds(d, q, m)
  BY HolderIs
<1>3. m = n
  BY <1>1, <1>2, OneName DEF Holds
<1>4. c # 0 /\ d # 0
  BY Conns
<1>5. ASSUME update.at # "idle", update.cfg.name \in DOMAIN sinks
      PROVE  sinks[update.cfg.name] = update.plugin
  BY <1>5 DEF Typed, Mapped
<1>6. p = q
  BY <1>1, <1>2, <1>3, <1>5 DEF Holds
<1>7. update.at = "connect" /\ plugins[update.plugin].conn # 0 =>
         conns[plugins[update.plugin].conn].live = "gone"
  BY DEF Sites
<1>8. \/ plugins[p].conn = c
      \/ update.at = "connect" /\ p = update.plugin /\ c = Len(conns)
  BY <1>1 DEF Holds
<1>9. \/ plugins[p].conn = d
      \/ update.at = "connect" /\ p = update.plugin /\ d = Len(conns)
  BY <1>2, <1>6 DEF Holds
<1>10. CASE plugins[p].conn = c
  BY <1>4, <1>7, <1>9, <1>10
<1>11. CASE plugins[p].conn = d
  BY <1>4, <1>7, <1>8, <1>11
<1> QED
  BY <1>8, <1>9, <1>10, <1>11

(* A send writes to files of its name.                                       *)
LEMMA SendsTo ==
    ASSUME Typed, Sites, Owned, NEW t \in DOMAIN sends
    PROVE  /\ Flying(t) /\ conns[sends[t].conn].live = "open" =>
                conns[sends[t].conn].url \in UrlsOf(t[2])
           /\ Active(t) /\ plugins[sends[t].plugin].path # None =>
                plugins[sends[t].plugin].path \in UrlsOf(t[2])
<1>1. ASSUME Active(t)
      PROVE  Serves(sends[t].plugin, t[2])
  <2>1. sends[t].plugin \in DOMAIN plugins
    BY <1>1 DEF Typed, Active
  <2>2. PICK n : Belongs(sends[t].plugin, n)
    BY <2>1 DEF Owned
  <2> QED
    BY <1>1, <2>2 DEF Belongs
<1>2. ASSUME Flying(t), conns[sends[t].conn].live = "open"
      PROVE  conns[sends[t].conn].url \in UrlsOf(t[2])
  <2>1. Active(t)
    BY <1>2 DEF Flying, Active, InFlight, Ended
  <2>2. Db(t) = sends[t].conn /\ sends[t].conn # 0
    BY <1>2, FlightIs, Conns
  <2> QED
    BY <1>1, <2>1, <2>2 DEF Serves, Db
<1> QED
  BY <1>1, <1>2 DEF Serves

-------------------------------------------------------------------------------
(* No result twice.                                                          *)
StayClaimed == \A r, u : Claimed(r, u) => Claimed(r, u)'

LEMMA ClaimsStay ==
    ASSUME UNCHANGED <<files, life>>, \A x : Beyond(x) => Beyond(x)'
    PROVE  StayClaimed
<1>1. \A u : InFile(u)' = InFile(u)
  BY DEF InFile
<1>2. \A n : UrlsOf(n)' = UrlsOf(n)
  BY DEF UrlsOf
<1> QED
  BY <1>1, <1>2 DEF StayClaimed, Claimed

LEMMA OneEachStays ==
    ASSUME Typed, OneEach, StayClaimed, \A u \in Urls : saved'[u].rows = saved[u].rows,
           \A c \in DOMAIN conns' : conns'[c].live = "open" =>
              /\ c \in DOMAIN conns /\ conns'[c].url = conns[c].url
              /\ \/ conns[c].live = "open" /\ Rows(c)'[4] = Rows(c)[4]
                 \/ Rows(c)'[4] = saved[conns[c].url].rows[4]
    PROVE  OneEach'
<1>1. ASSUME NEW rows, NEW u, Single(rows, u), NEW new, new[4] = rows[4]
      PROVE  /\ \A i, j \in DOMAIN new[4] : new[4][i].key = new[4][j].key => i = j
             /\ \A r \in RunKeys(new) : Claimed(r, u)'
             /\ RunKeys(new) = RunKeys(rows)
  BY <1>1 DEF Single, StayClaimed, RunKeys
<1>2. ASSUME NEW u \in Urls
      PROVE  Single(saved[u].rows, u)'
  <2>1. Single(saved[u].rows, u)
    BY DEF OneEach
  <2>2. PICK rows : rows = saved[u].rows
    OBVIOUS
  <2>3. /\ \A i, j \in DOMAIN rows[4] : rows[4][i].key = rows[4][j].key => i = j
        /\ \A r \in RunKeys(rows) : Claimed(r, u)'
    BY <1>1, <2>1, <2>2
  <2>4. saved'[u].rows = rows
    BY <2>2
  <2> QED
    BY <2>3, <2>4 DEF Single, RunKeys
<1>3. ASSUME NEW c \in DOMAIN conns', conns'[c].live = "open"
      PROVE  /\ Single(conns[c].work.rows, conns[c].url)'
             /\ RunKeys(saved'[conns'[c].url].rows) \subseteq RunKeys(conns'[c].work.rows)
  <2>1. PICK u \in Urls : u = conns[c].url /\ c \in DOMAIN conns /\ conns'[c].url = u
    BY <1>3, Conns, ConnFields
  <2>2. PICK rows : rows = conns'[c].work.rows
    OBVIOUS
  <2>3. PICK old : Single(old, u) /\ RunKeys(saved[u].rows) \subseteq RunKeys(old) /\ rows[4] = old[4]
    <3>1. CASE conns[c].live = "open" /\ Rows(c)'[4] = Rows(c)[4]
      <4>1. Single(Rows(c), u) /\ RunKeys(saved[u].rows) \subseteq RunKeys(Rows(c))
        BY <2>1, <3>1 DEF OneEach, Rows
      <4>2. rows[4] = Rows(c)[4]
        BY <2>2, <3>1 DEF Rows
      <4> QED
        BY <4>1, <4>2
    <3>2. CASE Rows(c)'[4] = saved[u].rows[4]
      <4>1. Single(saved[u].rows, u) /\ rows[4] = saved[u].rows[4]
        BY <2>1, <2>2, <3>2 DEF OneEach, Rows
      <4> QED
        BY <4>1
    <3> QED
      BY <1>3, <2>1, <3>1, <3>2
  <2>4. /\ \A i, j \in DOMAIN rows[4] : rows[4][i].key = rows[4][j].key => i = j
        /\ \A r \in RunKeys(rows) : Claimed(r, u)'
        /\ RunKeys(rows) = RunKeys(old)
    BY <1>1, <2>3
  <2>5. saved'[u].rows = saved[u].rows
    OBVIOUS
  <2>6. Single(conns[c].work.rows, conns[c].url)'
    BY <2>1, <2>2, <2>4 DEF Single, RunKeys
  <2> QED
    BY <2>1, <2>2, <2>3, <2>4, <2>5, <2>6
<1> QED
  BY <1>2, <1>3 DEF OneEach, RunKeys

(* What a send needs to go on being shown.                                   *)
StaysShown(x) ==
    /\ Flying(x)' /\ sends'[x].table = 4 /\ conns'[sends'[x].conn].live = "open" /\ Written(x)' =>
         /\ Flying(x) /\ sends[x].table = 4 /\ sends'[x].conn = sends[x].conn
         /\ conns[sends[x].conn].live = "open" /\ Written(x)
         /\ RunKeys(Rows(sends[x].conn)) \subseteq RunKeys(Rows(sends[x].conn)')
    /\ sends'[x].at = "commit" => sends'[x].table = 4
    /\ sends'[x].at = "done" => x \in DOMAIN sends /\ (sends[x].at = "done" \/ OnDisk(x))

DiskGrows == \A u \in Urls : RunKeys(saved[u].rows) \subseteq RunKeys(saved'[u].rows)

LEMMA OnDiskStays ==
    ASSUME Typed, DiskGrows, life' = life
    PROVE  \A x : OnDisk(x) => OnDisk(x)'
<1>1. \A n : UrlsOf(n)' = UrlsOf(n)
  BY DEF UrlsOf
<1>2. \A n : UrlsOf(n) \subseteq Urls
  BY ConfigIs DEF UrlsOf
<1>3. \A u \in Urls : RunKeys(saved[u].rows) \subseteq RunKeys(saved[u].rows)'
  BY DEF DiskGrows, RunKeys
<1> QED
  BY <1>1, <1>2, <1>3 DEF OnDisk

LEMMA ShownStays ==
    ASSUME Typed, Kept, DiskGrows, UNCHANGED <<files, life>>,
           NEW x \in DOMAIN sends', StaysShown(x)
    PROVE  Shown(x)'
<1>1. \A u : InFile(u)' = InFile(u)
  BY DEF InFile
<1>2. \A n : UrlsOf(n)' = UrlsOf(n)
  BY DEF UrlsOf
<1>3. OnDisk(x) => OnDisk(x)'
  BY OnDiskStays
<1>4. x \in DOMAIN sends => Shown(x)
  BY DEF Kept
<1>5. sends'[x].at = "done" => OnDisk(x)' \/ \E u \in UrlsOf(x[2])' : x[1] \in InFile(u)'
  BY <1>1, <1>2, <1>3, <1>4 DEF StaysShown, Shown
<1>6. ASSUME Flying(x)', sends'[x].table = 4, conns'[sends'[x].conn].live = "open", Written(x)'
      PROVE  x[1] \in RunKeys(conns[sends[x].conn].work.rows)'
  <2>1. /\ Flying(x) /\ sends[x].table = 4 /\ sends'[x].conn = sends[x].conn
        /\ conns[sends[x].conn].live = "open" /\ Written(x)
        /\ RunKeys(Rows(sends[x].conn)) \subseteq RunKeys(Rows(sends[x].conn)')
    BY <1>6 DEF StaysShown
  <2>2. x[1] \in RunKeys(Rows(sends[x].conn))
    BY <1>4, <2>1 DEF Shown, Flying, Rows
  <2>3. PICK c : c = sends[x].conn
    OBVIOUS
  <2>4. x[1] \in RunKeys(Rows(c)')
    BY <2>1, <2>2, <2>3
  <2>5. x[1] \in RunKeys(conns'[c].work.rows)
    BY <2>4 DEF Rows
  <2> QED
    BY <2>1, <2>3, <2>5 DEF RunKeys
<1> QED
  BY <1>5, <1>6 DEF Shown, StaysShown

LEMMA FiledStays ==
    ASSUME Filed, UNCHANGED <<files, life>>,
           \A x \in DOMAIN sends : sends[x].at = "done" =>
              x \in DOMAIN sends' /\ sends'[x].at = "done"
    PROVE  Filed'
<1>1. \A u : InFile(u)' = InFile(u)
  BY DEF InFile
<1>2. \A n : UrlsOf(n)' = UrlsOf(n)
  BY DEF UrlsOf
<1> QED
  BY <1>1, <1>2 DEF Filed

(* Steps that store nothing.                                                 *)
LEMMA KeptStays ==
    ASSUME Typed, Kept, UNCHANGED <<files, life>>,
           \A u \in Urls : saved'[u].rows = saved[u].rows,
           \A x : Beyond(x) => Beyond(x)',
           \A c \in DOMAIN conns' : conns'[c].live = "open" =>
              /\ c \in DOMAIN conns /\ conns'[c].url = conns[c].url
              /\ \/ conns[c].live = "open" /\ Rows(c)'[4] = Rows(c)[4]
                 \/ Rows(c)'[4] = saved[conns[c].url].rows[4],
           \A x \in DOMAIN sends : sends[x].at = "done" =>
              x \in DOMAIN sends' /\ sends'[x].at = "done",
           \A x \in DOMAIN sends' : StaysShown(x),
           \A j \in DOMAIN answers' : answers'[j].do = "commit" /\ answers'[j].how = "ok" =>
              \E k \in DOMAIN answers : answers'[j] = answers[k]
    PROVE  Kept'
<1>1. StayClaimed
  BY ClaimsStay
<1>2. OneEach'
  BY <1>1, OneEachStays DEF Kept
<1>3. Filed'
  BY FiledStays DEF Kept
<1>4. DiskGrows
  BY DEF DiskGrows, RunKeys
<1>5. \A x \in DOMAIN sends' : Shown(x)'
  BY <1>4, ShownStays
<1>6. \A x : OnDisk(x) => OnDisk(x)'
  BY <1>4, OnDiskStays
<1>7. ASSUME NEW j \in DOMAIN answers', answers'[j].do = "commit", answers'[j].how = "ok"
      PROVE  OnDisk(answers[j].to)'
  <2>1. PICK x : x = answers'[j].to
    OBVIOUS
  <2>2. OnDisk(x)
    BY <1>7, <2>1 DEF Kept
  <2>3. OnDisk(x)'
    BY <1>6, <2>2
  <2> QED
    BY <2>1, <2>3 DEF OnDisk
<1> QED
  BY <1>2, <1>3, <1>5, <1>7 DEF Kept

(* What happens to the others does not matter for a send.                    *)
LEMMA BeyondWhenSending ==
    ASSUME Typed, Sites, Pending, NEW t \in DOMAIN sends, GoesOn(t) \/ Ends(t)
    PROVE  \A x : Beyond(x) => Beyond(x)'
<1>1. Sent(t)
  BY SentIs
<1>2. /\ DOMAIN sends' = DOMAIN sends /\ \A x \in DOMAIN sends \ {t} : sends'[x] = sends[x]
      /\ DOMAIN conns' = DOMAIN conns
      /\ \A c \in DOMAIN conns : \A i \in DOMAIN conns'[c].queue :
           \/ i \in DOMAIN Queue(c) /\ conns'[c].queue[i] = Queue(c)[i]
           \/ GoesOn(t) /\ conns'[c].queue[i].to = t
  <2>1. Statement(t)'.to = t
    BY DEF Statement, Op
  <2> QED
    BY <1>1, <2>1 DEF Sent
<1>3. ASSUME NEW x, Beyond(x), x # t
      PROVE  Beyond(x)'
  <2>1. x \in DOMAIN sends /\ sends'[x] = sends[x] /\ x \in DOMAIN sends' /\ Flying(x)' = Flying(x)
    BY <1>2, <1>3 DEF Beyond, Flying
  <2>2. CASE sends[x].at \in Ended
    BY <2>1, <2>2 DEF Beyond
  <2>3. CASE sends[x].at \notin Ended
    <3>1. /\ Flying(x) /\ sends[x].table = 4
          /\ \A i \in DOMAIN Queue(sends[x].conn) :
               Queue(sends[x].conn)[i].to = x => sends[x].at # "insert"
      BY <1>3, <2>3 DEF Beyond
    <3>2. PICK c \in DOMAIN conns : c = sends[x].conn
      BY <2>1, <3>1, FlightIs
    <3>3. \A i \in DOMAIN conns'[c].queue : conns'[c].queue[i].to = x => sends[x].at # "insert"
      BY <1>2, <1>3, <3>1, <3>2
    <3> QED
      BY <2>1, <3>1, <3>2, <3>3 DEF Beyond, Queue
  <2> QED
    BY <2>2, <2>3
<1>4. ASSUME Beyond(t)
      PROVE  Beyond(t)'
  <2>1. t \in DOMAIN sends' /\ sends[t].at \notin Ended
    BY <1>2 DEF GoesOn, Ends, Active
  <2>2. Flying(t) /\ sends[t].table = 4
    BY <1>4, <2>1 DEF Beyond
  <2>3. CASE Ends(t)
    <3>1. sends'[t].at \in Ended
      BY <2>3 DEF Ends, Ended
    <3> QED
      BY <2>1, <3>1 DEF Beyond
  <2>4. CASE GoesOn(t)
    <3>1. sends[t].at # "new"
      BY <2>2 DEF Flying, InFlight
    <3>2. sends'[t].at \in InFlight /\ sends'[t].at # "insert" /\ sends'[t].table = 4
      BY <2>2, <2>4, <3>1 DEF GoesOn
    <3>3. Flying(t)'
      BY <2>1, <3>2 DEF Flying
    <3> QED
      BY <2>1, <3>2, <3>3 DEF Beyond
  <2> QED
    BY <2>3, <2>4
<1> QED
  BY <1>3, <1>4

LEMMA ShownWhenSending ==
    ASSUME Typed, Sites, Pending, Punctual, Kept, NEW t \in DOMAIN sends, GoesOn(t) \/ Ends(t),
           sends'[t].at # "done" \/ sends[t].at = "commit"
    PROVE  \A x \in DOMAIN sends' : StaysShown(x)
<1>1. Sent(t) /\ Remain(t) /\ t # TheUpdate
  BY SentIs, SentRemains
<1>2. /\ DOMAIN sends' = DOMAIN sends /\ \A x \in DOMAIN sends \ {t} : sends'[x] = sends[x]
      /\ DOMAIN conns' = DOMAIN conns
      /\ \A c \in DOMAIN conns : conns'[c].live = conns[c].live /\ conns'[c].work = conns[c].work
  BY <1>1 DEF Sent
<1>3. \A j \in DOMAIN answers' : \E k \in DOMAIN answers : /\ answers'[j] = answers[k]
                                                           /\ answers[k].to # t
  BY <1>1 DEF Remain
<1>4. \A c \in DOMAIN conns : RunKeys(Rows(c)) \subseteq RunKeys(Rows(c)')
  BY <1>2 DEF Rows, RunKeys
<1>5. ASSUME NEW x \in DOMAIN sends, x # t
      PROVE  StaysShown(x)
  <2>1. sends'[x] = sends[x] /\ Flying(x)' = Flying(x)
    BY <1>2, <1>5 DEF Flying
  <2>2. Written(x)' => Written(x)
    BY <1>3, <2>1 DEF Written
  <2>3. Flying(x) => sends[x].conn \in DOMAIN conns
    BY FlightIs
  <2>4. sends[x].at = "commit" => sends[x].table = 4
    BY DEF Kept, Shown
  <2> QED
    BY <1>2, <1>4, <2>1, <2>2, <2>3, <2>4 DEF StaysShown
<1>6. StaysShown(t)
  <2>1. CASE Ends(t)
    <3>1. sends'[t].at \in {"lost", "done"} /\ ~Flying(t)'
      BY <2>1 DEF Ends, Flying, InFlight
    <3>2. sends'[t].at = "done" => OnDisk(t)
      <4> SUFFICES ASSUME sends'[t].at = "done" PROVE OnDisk(t)
        OBVIOUS
      <4>1. sends[t].at = "commit"
        OBVIOUS
      <4>2. Shifted(t) /\ answers[1].do = "commit"
        BY <1>1, <4>1 DEF Sent
      <4>3. 1 \in DOMAIN answers /\ answers[1].to = t
        BY <4>2 DEF Shifted
      <4>4. answers[1].how = "ok"
        BY <2>1, <4>1 DEF Ends
      <4> QED
        BY <4>2, <4>3, <4>4 DEF Kept
    <3> QED
      BY <3>1, <3>2 DEF StaysShown
  <2>2. CASE GoesOn(t)
    <3>1. /\ sends'[t].at \in InFlight /\ sends'[t].conn \in DOMAIN conns
          /\ conns[sends'[t].conn].live # "gone" /\ sends'[t].at \notin {"done"}
      BY <2>2 DEF GoesOn, InFlight
    <3>2. sends'[t].at = "commit" => sends'[t].table = 4
      BY <2>2 DEF GoesOn
    <3>3. ASSUME sends'[t].table = 4, conns'[sends'[t].conn].live = "open", Written(t)'
          PROVE  /\ Flying(t) /\ sends[t].table = 4 /\ sends'[t].conn = sends[t].conn
                 /\ conns[sends[t].conn].live = "open" /\ Written(t)
      <4>1. sends'[t].at # "insert"
        BY <1>3, <3>3 DEF Written
      <4>2. sends[t].at # "new"
        BY <2>2, <4>1 DEF GoesOn
      <4>3. Takes(t) /\ answers[1].how = "ok" /\ Flying(t)
        BY <2>2, <4>2 DEF GoesOn
      <4>4. sends[t].table = 4 /\ sends'[t].conn \in {sends[t].conn, Db(t)}
        BY <2>2, <3>3, <4>1, <4>2 DEF GoesOn
      <4>5. Shifted(t)
        BY <4>3, TakesFacts
      <4>6. 1 \in DOMAIN answers /\ answers[1].to = t
        BY <4>5 DEF Shifted
      <4>7. Written(t)
        BY <4>3, <4>6 DEF Written
      <4>8. conns[sends[t].conn].live # "gone"
        BY <1>1, <4>3, <4>6 DEF Punctual
      <4>9. sends'[t].conn = sends[t].conn
        BY <4>3, <4>4, <4>8 DEF Sites
      <4>10. conns[sends[t].conn].live = "open"
        BY <1>2, <3>1, <3>3, <4>9
      <4> QED
        BY <4>3, <4>4, <4>7, <4>9, <4>10
    <3> QED
      BY <1>4, <3>1, <3>2, <3>3 DEF StaysShown
  <2> QED
    BY <2>1, <2>2
<1> QED
  BY <1>2, <1>5, <1>6

LEMMA KeptWhenSending ==
    ASSUME Typed, Sites, Pending, Punctual, Kept, NEW t \in DOMAIN sends, GoesOn(t) \/ Ends(t),
           sends'[t].at # "done" \/ sends[t].at = "commit", files' = files
    PROVE  Kept'
<1>1. Sent(t) /\ Remain(t)
  BY SentIs, SentRemains
<1>2. /\ UNCHANGED <<saved, life>> /\ DOMAIN sends' = DOMAIN sends
      /\ \A x \in DOMAIN sends \ {t} : sends'[x] = sends[x]
      /\ DOMAIN conns' = DOMAIN conns
      /\ \A c \in DOMAIN conns : /\ conns'[c].live = conns[c].live /\ conns'[c].url = conns[c].url
                                 /\ conns'[c].work = conns[c].work
  BY <1>1 DEF Sent
<1>3. \A x : Beyond(x) => Beyond(x)'
  BY BeyondWhenSending
<1>4. \A x \in DOMAIN sends' : StaysShown(x)
  BY ShownWhenSending
<1>5. sends[t].at # "done"
  BY DEF GoesOn, Ends, Active, Ended
<1>6. \A c \in DOMAIN conns : Rows(c)' = Rows(c)
  BY <1>2 DEF Rows
<1>7. \A j \in DOMAIN answers' : \E k \in DOMAIN answers : answers'[j] = answers[k]
  BY <1>1 DEF Remain
<1>8. \A x \in DOMAIN sends : sends[x].at = "done" =>
         x \in DOMAIN sends' /\ sends'[x].at = "done"
  BY <1>2, <1>5
<1>9. /\ \A u \in Urls : saved'[u].rows = saved[u].rows
      /\ \A c \in DOMAIN conns' : conns'[c].live = "open" =>
              /\ c \in DOMAIN conns /\ conns'[c].url = conns[c].url
              /\ conns[c].live = "open" /\ Rows(c)' = Rows(c)
  BY <1>2, <1>6
<1> QED
  BY <1>2, <1>3, <1>4, <1>7, <1>8, <1>9, KeptStays

LEMMA AppendedIs ==
    ASSUME NEW s \in Seq(Results), NEW r \in Results, NEW new, new = Append(s, r),
           \A i, j \in DOMAIN s : s[i] = s[j] => i = j, \A i \in DOMAIN s : s[i] # r
    PROVE  /\ new \in Seq(Results) /\ \A i, j \in DOMAIN new : new[i] = new[j] => i = j
           /\ {new[i] : i \in DOMAIN new} = {s[i] : i \in DOMAIN s} \cup {r}
<1>1. /\ new \in Seq(Results) /\ Len(new) = Len(s) + 1 /\ \A i \in 1..Len(s) : new[i] = s[i]
      /\ new[Len(s) + 1] = r /\ DOMAIN s = 1..Len(s) /\ Len(s) \in Nat
  BY AppendFacts, SeqFacts
<1>2. DOMAIN new = 1..Len(s) + 1
  BY <1>1, SeqFacts
<1>3. /\ \A i \in DOMAIN new : (i \in DOMAIN s /\ new[i] = s[i]) \/ (i = Len(s) + 1 /\ new[i] = r)
      /\ \A i \in DOMAIN s : i \in DOMAIN new /\ new[i] = s[i]
      /\ Len(s) + 1 \in DOMAIN new
  BY <1>1, <1>2
<1>4. \A i, j \in DOMAIN new : new[i] = new[j] => i = j
  BY <1>3
<1>5. {new[i] : i \in DOMAIN new} = {s[i] : i \in DOMAIN s} \cup {r}
  BY <1>1, <1>3
<1> QED
  BY <1>1, <1>4, <1>5

(* CSV.send: a new result for a file of its own name.                        *)
LEMMA KeptWhenWritten ==
    ASSUME Typed, Sites, Pending, Punctual, Mapped, Owned, OneSinkEach, Kept,
           NEW t \in DOMAIN sends, Ends(t), sends[t].at = "new", sends'[t].at = "done"
    PROVE  Kept'
<1>1. PICK path : path = plugins[sends[t].plugin].path
  OBVIOUS
<1>2. path # None /\ files' = [files EXCEPT ![path] = Append(@, t[1])] /\ conns' = conns
      /\ answers' = answers
  BY <1>1 DEF Ends, Flying, InFlight
<1>3. Sent(t) /\ Active(t) /\ t \in Tasks
  BY SentIs DEF Ends, Typed
<1>4. /\ UNCHANGED <<saved, life>> /\ DOMAIN sends' = DOMAIN sends
      /\ \A x \in DOMAIN sends \ {t} : sends'[x] = sends[x]
  BY <1>3 DEF Sent
<1>5. path \in UrlsOf(t[2])
  BY <1>1, <1>2, <1>3, SendsTo
<1>6. path \in Urls
  BY <1>5, ConfigIs DEF UrlsOf
<1>7. t[1] \in Results /\ t[2] \in Names /\ t = <<t[1], t[2]>>
  BY <1>3 DEF Tasks
<1>8. files \in [Urls -> Seq(Results)] /\ Filed
  BY DEF Kept, Filed
<1>9. ASSUME NEW n, path \in UrlsOf(n)
      PROVE  n = t[2]
  BY <1>5, <1>9, OneName
<1>10. t[1] \notin InFile(path)
  <2> SUFFICES ASSUME t[1] \in InFile(path) PROVE FALSE
    OBVIOUS
  <2>1. PICK n \in Names : path \in UrlsOf(n) /\ sends[<<t[1], n>>].at = "done"
    BY <1>6, <1>8 DEF Filed
  <2>2. <<t[1], n>> = t
    BY <1>7, <1>9, <2>1
  <2> QED
    BY <2>1, <2>2
<1>11. ~Claimed(t[1], path)
  <2> SUFFICES ASSUME Claimed(t[1], path) PROVE FALSE
    OBVIOUS
  <2>1. PICK n \in Names : path \in UrlsOf(n) /\ Beyond(<<t[1], n>>)
    BY DEF Claimed
  <2>2. Beyond(t)
    BY <1>7, <1>9, <2>1
  <2> QED
    BY <2>2 DEF Beyond, Flying, InFlight, Ended
<1>12. /\ files' \in [Urls -> Seq(Results)] /\ InFile(path)' = InFile(path) \cup {t[1]}
       /\ \A u \in Urls : u # path => files'[u] = files[u] /\ InFile(u)' = InFile(u)
       /\ \A i, j \in DOMAIN files'[path] : files'[path][i] = files'[path][j] => i = j
  <2>0. PICK s \in Seq(Results) : s = files[path]
    BY <1>6, <1>8
  <2>1. PICK new : new = Append(s, t[1])
    OBVIOUS
  <2>2. /\ \A i, j \in DOMAIN s : s[i] = s[j] => i = j
        /\ \A i \in DOMAIN s : s[i] # t[1]
    BY <1>6, <1>8, <1>10, <2>0 DEF Filed, InFile
  <2>3. /\ new \in Seq(Results) /\ \A i, j \in DOMAIN new : new[i] = new[j] => i = j
        /\ {new[i] : i \in DOMAIN new} = {s[i] : i \in DOMAIN s} \cup {t[1]}
    BY <1>7, <2>1, <2>2, AppendedIs
  <2>4. files' = [files EXCEPT ![path] = new]
    BY <1>2, <2>0, <2>1
  <2>5. files'[path] = new /\ \A u \in Urls : u # path => files'[u] = files[u]
    BY <1>6, <1>8, <2>4
  <2>6. files' \in [Urls -> Seq(Results)]
    BY <1>8, <2>3, <2>4
  <2>7. InFile(path)' = {new[i] : i \in DOMAIN new} /\ InFile(path) = {s[i] : i \in DOMAIN s}
    BY <2>0, <2>5 DEF InFile
  <2>8. \A u \in Urls : u # path => InFile(u)' = InFile(u)
    BY <2>5 DEF InFile
  <2> QED
    BY <2>3, <2>5, <2>6, <2>7, <2>8
<1>13. ASSUME NEW r, NEW u \in Urls, Claimed(r, u)
       PROVE  Claimed(r, u)'
  <2>1. r \notin InFile(u)'
    BY <1>11, <1>12, <1>13 DEF Claimed
  <2>2. \A x : Beyond(x) => Beyond(x)'
    BY BeyondWhenSending
  <2>3. \A n : UrlsOf(n)' = UrlsOf(n)
    BY <1>4 DEF UrlsOf
  <2> QED
    BY <1>13, <2>1, <2>2, <2>3 DEF Claimed
<1>14. OneEach'
  <2>1. OneEach /\ \A c \in DOMAIN conns : conns[c].url \in Urls
    BY Conns, ConnFields DEF Kept
  <2>2. ASSUME NEW u \in Urls, NEW rows, Single(rows, u)
        PROVE  /\ \A i, j \in DOMAIN rows[4] : rows[4][i].key = rows[4][j].key => i = j
               /\ \A r \in RunKeys(rows) : Claimed(r, u)'
    BY <1>13, <2>2 DEF Single
  <2>3. ASSUME NEW u \in Urls
        PROVE  Single(saved[u].rows, u)'
    <3>1. PICK rows : rows = saved[u].rows
      OBVIOUS
    <3>2. rows = saved'[u].rows /\ Single(rows, u)
      BY <1>4, <2>1, <3>1 DEF OneEach
    <3> QED
      BY <2>2, <3>2 DEF Single, RunKeys
  <2>4. ASSUME NEW c \in DOMAIN conns', conns'[c].live = "open"
        PROVE  Single(conns[c].work.rows, conns[c].url)'
    <3>1. PICK rows : rows = conns[c].work.rows
      OBVIOUS
    <3>2. PICK u \in Urls : u = conns[c].url
      BY <1>2, <2>1, <2>4
    <3>3. rows = conns'[c].work.rows /\ u = conns'[c].url /\ Single(rows, u)
      BY <1>2, <2>1, <2>4, <3>1, <3>2 DEF OneEach
    <3> QED
      BY <2>2, <3>3 DEF Single, RunKeys
  <2>5. ASSUME NEW c \in DOMAIN conns', conns'[c].live = "open"
        PROVE  RunKeys(saved'[conns'[c].url].rows) \subseteq RunKeys(conns'[c].work.rows)
    <3>1. RunKeys(saved[conns[c].url].rows) \subseteq RunKeys(conns[c].work.rows)
      BY <1>2, <2>1, <2>5 DEF OneEach
    <3>2. saved' = saved
      BY <1>4
    <3>3. saved'[conns'[c].url].rows = saved[conns[c].url].rows
          /\ conns'[c].work.rows = conns[c].work.rows
      BY <1>2, <3>2
    <3> QED
      BY <3>1, <3>3
  <2> QED
    BY <2>3, <2>4, <2>5 DEF OneEach, RunKeys
<1>15. Filed'
  <2>1. ASSUME NEW u \in Urls, NEW r \in InFile(u)'
        PROVE  \E n \in Names : /\ u \in UrlsOf(n)' /\ <<r, n>> \in DOMAIN sends'
                                /\ sends'[<<r, n>>].at = "done"
    <3>1. CASE r \in InFile(u)
      <4>1. PICK n \in Names : /\ u \in UrlsOf(n) /\ <<r, n>> \in DOMAIN sends
                               /\ sends[<<r, n>>].at = "done"
        BY <1>8, <3>1 DEF Filed
      <4>2. <<r, n>> # t
        BY <4>1
      <4> QED
        BY <1>4, <4>1, <4>2 DEF UrlsOf
    <3>2. CASE r \notin InFile(u)
      <4>1. u = path /\ r = t[1]
        BY <1>12, <2>1, <3>2
      <4>2. u \in UrlsOf(t[2])' /\ <<r, t[2]>> = t
        BY <1>4, <1>5, <1>7, <4>1 DEF UrlsOf
      <4> QED
        BY <1>4, <1>7, <4>2
    <3> QED
      BY <3>1, <3>2
  <2>2. \A u \in Urls : \A i, j \in DOMAIN files'[u] : files'[u][i] = files'[u][j] => i = j
    BY <1>8, <1>12 DEF Filed
  <2> QED
    BY <1>12, <2>1, <2>2 DEF Filed
<1>16. \A n : UrlsOf(n)' = UrlsOf(n)
  BY <1>4 DEF UrlsOf
<1>17. \A x : OnDisk(x)' = OnDisk(x)
  BY <1>4, <1>16 DEF OnDisk, RunKeys
<1>18. \A u : InFile(u) \subseteq InFile(u)' \/ u \notin Urls
  BY <1>12
<1>19. ASSUME NEW x \in DOMAIN sends'
       PROVE  Shown(x)'
  <2>1. CASE x = t
    <3>1. ~Flying(x)' /\ sends'[x].at = "done"
      BY <2>1 DEF Flying, InFlight
    <3>2. x[1] \in InFile(path)' /\ path \in UrlsOf(x[2])'
      BY <1>5, <1>12, <1>16, <2>1
    <3> QED
      BY <3>1, <3>2 DEF Shown
  <2>2. CASE x # t
    <3>1. x \in DOMAIN sends /\ sends'[x] = sends[x] /\ Flying(x)' = Flying(x) /\ Shown(x)
      BY <1>4, <2>2 DEF Flying, Kept
    <3>2. Written(x)' = Written(x)
      BY <1>2, <3>1 DEF Written
    <3>3. UrlsOf(x[2]) \subseteq Urls
      BY ConfigIs DEF UrlsOf
    <3> QED
      BY <1>2, <1>16, <1>17, <1>18, <3>1, <3>2, <3>3 DEF Shown, RunKeys
  <2> QED
    BY <2>1, <2>2
<1>20. ASSUME NEW j \in DOMAIN answers', answers'[j].do = "commit", answers'[j].how = "ok"
       PROVE  OnDisk(answers[j].to)'
  <2>1. OnDisk(answers[j].to)
    BY <1>2, <1>20 DEF Kept
  <2> QED
    BY <1>2, <1>4, <2>1 DEF OnDisk, UrlsOf, RunKeys
<1> QED
  BY <1>14, <1>15, <1>19, <1>20 DEF Kept

LEMMA BeyondWhenExecuting ==
    ASSUME Typed, Sites, Pending, NEW c \in DOMAIN conns, NEW id, NEW how, Executes(c, id, how)
    PROVE  \A x : Beyond(x) => Beyond(x)'
<1>1. PICK y, do : y = First(c).to /\ do = First(c).do
  OBVIOUS
<1>2. /\ Moved(c, y, do, id, how) /\ sends' = sends
      /\ \A d \in DOMAIN conns : d # c => conns'[d] = conns[d]
  BY <1>1, RanIs
<1>3. \A d \in DOMAIN conns : \A i \in DOMAIN conns'[d].queue :
         \E j \in DOMAIN Queue(d) : conns'[d].queue[i] = Queue(d)[j]
  BY <1>2 DEF Moved, Queue
<1>4. ASSUME NEW x, Beyond(x), sends[x].at \notin Ended
      PROVE  Beyond(x)'
  <2>1. /\ Flying(x) /\ sends[x].table = 4 /\ x \in DOMAIN sends
        /\ \A i \in DOMAIN Queue(sends[x].conn) :
             Queue(sends[x].conn)[i].to = x => sends[x].at # "insert"
    BY <1>4 DEF Beyond
  <2>2. sends[x].conn \in DOMAIN conns
    BY <2>1, FlightIs
  <2>3. \A i \in DOMAIN conns'[sends[x].conn].queue :
           conns'[sends[x].conn].queue[i].to = x => sends[x].at # "insert"
    BY <1>3, <2>1, <2>2
  <2>4. Flying(x)'
    BY <1>2, <2>1 DEF Flying
  <2> QED
    BY <1>2, <2>1, <2>3, <2>4 DEF Beyond, Queue
<1>5. ASSUME NEW x, Beyond(x), sends[x].at \in Ended
      PROVE  Beyond(x)'
  BY <1>2, <1>5 DEF Beyond
<1> QED
  BY <1>4, <1>5

(* What a statement does to the runs.                                        *)
Plain(c, how) ==
    /\ \A u \in Urls : saved'[u].rows = saved[u].rows
    /\ conns'[c].live = "open" =>
         \/ conns[c].live = "open" /\ Rows(c)'[4] = Rows(c)[4]
         \/ conns[c].live = "new" /\ Rows(c)'[4] = saved[conns[c].url].rows[4]
    /\ how = "ok" =>
         \/ First(c).to = TheUpdate
         \/ First(c).do \in {"insert", "select"} /\ First(c).table # 4
         \/ First(c).do = "close"
Adds(c, id, how) ==
    /\ Grows(c, id) /\ First(c).table = 4 /\ saved' = saved /\ how = "ok"
    /\ conns'[c].live = "open"

LEMMA RunsAre ==
    ASSUME Typed, Pending, NEW c \in DOMAIN conns, NEW id, NEW how, Executes(c, id, how)
    PROVE  Plain(c, how) \/ Adds(c, id, how) \/ Committing(c, id, how)
<1>1. /\ First(c).do \in {"connect", "create", "shut"} => First(c).to = TheUpdate
      /\ First(c).do = "insert" => First(c).table \in 1..4
  BY FirstFits DEF Executes
<1>2. CASE Opening(c, id, how)
  <2>1. Rows(c)' = saved[conns[c].url].rows
    BY <1>2 DEF Opening, Steps, Rows
  <2> QED
    BY <1>1, <1>2, <2>1 DEF Opening, Plain
<1>3. CASE Creating(c, id, how)
  <2>1. Rows(c)' = Rows(c)
    BY <1>3 DEF Creating, Steps, Rows
  <2> QED
    BY <1>1, <1>3, <2>1 DEF Creating, Plain
<1>4. CASE Inserting(c, id, how)
  <2>1. Grows(c, id) /\ saved' = saved /\ how = "ok" /\ conns[c].live = "open"
        /\ conns'[c].live = "open" /\ First(c).do = "insert" /\ First(c).table \in 1..4
    BY <1>4, InsertGrows DEF Inserting, Steps
  <2>2. CASE First(c).table = 4
    BY <2>1, <2>2 DEF Adds
  <2>3. CASE First(c).table # 4
    <3>1. PICK work : /\ Steps(c, "open", work)
                      /\ work.rows = [Rows(c) EXCEPT ![First(c).table] =
                                        Append(Rows(c)[First(c).table], First(c).row)]
      BY <1>4 DEF Inserting
    <3>2. Rows(c) \in [1..4 -> Seq(RowSet)]
      BY Conns, ConnFields, TableFields DEF Rows
    <3>3. Rows(c)' = work.rows
      BY <3>1 DEF Steps, Rows
    <3>4. work.rows[4] = Rows(c)[4]
      BY <2>3, <3>1, <3>2
    <3> QED
      BY <2>1, <2>3, <3>3, <3>4 DEF Plain
  <2> QED
    BY <2>2, <2>3
<1>5. CASE Keeping(c, id, how)
  <2>1. Rows(c)' = Rows(c) /\ saved' = saved /\ conns[c].live = "open"
    BY <1>5 DEF Keeping, Steps, Rows
  <2>2. how = "ok" => \/ First(c).do \in {"insert", "select"} /\ First(c).table # 4
                      \/ First(c).do = "close"
    BY <1>5 DEF Keeping
  <2> QED
    BY <2>1, <2>2 DEF Plain
<1>6. CASE Shutting(c, id, how)
  BY <1>1, <1>6 DEF Shutting, Steps, Plain
<1>7. CASE Refusing(c, id, how)
  BY <1>7 DEF Refusing, Steps, Plain
<1> QED
  BY <1>2, <1>3, <1>4, <1>5, <1>6, <1>7 DEF Executes

LEMMA KeptWhenPlain ==
    ASSUME Typed, Sites, Pending, Kept, NEW c \in DOMAIN conns, NEW id, NEW how,
           Executes(c, id, how), Plain(c, how)
    PROVE  Kept'
<1>1. PICK y, do : y = First(c).to /\ do = First(c).do
  OBVIOUS
<1>2. /\ Lived(c) /\ Moved(c, y, do, id, how) /\ UNCHANGED <<life, files, sends>>
      /\ DOMAIN conns' = DOMAIN conns /\ \A d \in DOMAIN conns : d # c => conns'[d] = conns[d]
  BY <1>1, RanIs
<1>3. \A x : Beyond(x) => Beyond(x)'
  BY BeyondWhenExecuting
<1>4. /\ conns'[c].url = conns[c].url
      /\ \A j \in DOMAIN answers' :
           \/ \E k \in DOMAIN answers : answers'[j] = answers[k]
           \/ answers'[j].to = y /\ answers'[j].do = do /\ answers'[j].how = how
  <2>1. PICK a : a = [to |-> y, do |-> do, id |-> id, how |-> how]
    OBVIOUS
  <2>2. a.to = y /\ a.do = do /\ a.how = how
    BY <2>1
  <2>3. \A j \in DOMAIN answers' : (\E k \in DOMAIN answers : answers'[j] = answers[k])
                                   \/ answers'[j] = a
    BY <1>2, <2>1 DEF Moved
  <2> QED
    BY <1>2, <2>2, <2>3 DEF Moved
<1>5. conns[c].queue # <<>>
  BY DEF Executes
<1>6. do = "commit" => y # TheUpdate
  BY <1>1, <1>5, FirstFits
<1>7. \A j \in DOMAIN answers' : answers'[j].do = "commit" /\ answers'[j].how = "ok" =>
         \E k \in DOMAIN answers : answers'[j] = answers[k]
  BY <1>1, <1>4, <1>6 DEF Plain
<1>8. \A d \in DOMAIN conns' : conns'[d].live = "open" =>
         /\ d \in DOMAIN conns /\ conns'[d].url = conns[d].url
         /\ \/ conns[d].live = "open" /\ Rows(d)'[4] = Rows(d)[4]
            \/ conns[d].live = "new" /\ Rows(d)'[4] = saved[conns[d].url].rows[4]
  <2>1. \A d \in DOMAIN conns : d # c => Rows(d)' = Rows(d)
    BY <1>2 DEF Rows
  <2> QED
    BY <1>2, <1>4, <2>1 DEF Plain
<1>9. ASSUME NEW x \in DOMAIN sends'
      PROVE  StaysShown(x)
  <2>1. x \in DOMAIN sends /\ sends'[x] = sends[x] /\ Flying(x)' = Flying(x) /\ Shown(x)
    BY <1>2 DEF Flying, Kept
  <2>2. ASSUME Flying(x), sends[x].table = 4, conns'[sends[x].conn].live = "open", Written(x)'
        PROVE  /\ conns[sends[x].conn].live = "open" /\ Written(x)
               /\ RunKeys(Rows(sends[x].conn)) \subseteq RunKeys(Rows(sends[x].conn)')
    <3>1. PICK d \in DOMAIN conns : d = sends[x].conn /\ conns[d].live # "new"
      BY <2>1, <2>2, FlightIs
    <3>2. conns[d].live = "open" /\ Rows(d)'[4] = Rows(d)[4]
      BY <1>2, <1>8, <2>2, <3>1
    <3>2a. RunKeys(Rows(d)) \subseteq RunKeys(Rows(d)')
      <4>1. PICK rows, new : rows = Rows(d) /\ new = Rows(d)'
        OBVIOUS
      <4>2. new[4] = rows[4]
        BY <3>2, <4>1
      <4>3. RunKeys(rows) = RunKeys(new)
        BY <4>2 DEF RunKeys
      <4> QED
        BY <4>1, <4>3
    <3>3. CASE \E j \in DOMAIN answers : answers[j].to = x /\ answers[j].how = "ok"
      <4>1. Written(x)
        BY <3>3 DEF Written
      <4> QED
        BY <2>1, <3>1, <3>2, <3>2a, <4>1 DEF Rows
    <3>4. CASE sends[x].at \in {"select", "close", "commit"}
      <4>1. Written(x)
        BY <3>4 DEF Written
      <4> QED
        BY <2>1, <3>1, <3>2, <3>2a, <4>1 DEF Rows
    <3>5. CASE \E j \in DOMAIN answers' : /\ answers'[j].to = x /\ answers'[j].how = "ok"
                                          /\ ~\E k \in DOMAIN answers : answers'[j] = answers[k]
      <4>1. x = y /\ how = "ok"
        BY <1>4, <3>5
      <4>2. x # TheUpdate
        BY <2>1, UpdateIsNoTask DEF Typed
      <4>3. sends[x].at = do /\ (do # "commit" => First(c).table = sends[x].table)
        BY <1>1, <1>5, <4>1, <4>2, FirstSends
      <4>4. do = "close"
        BY <1>1, <2>2, <4>1, <4>2, <4>3 DEF Plain
      <4> QED
        BY <3>4, <4>3, <4>4
    <3> QED
      BY <2>1, <2>2, <3>3, <3>4, <3>5 DEF Written
  <2> QED
    BY <2>1, <2>2 DEF StaysShown, Shown
<1> QED
  BY <1>2, <1>3, <1>7, <1>8, <1>9, KeptStays DEF Plain
LEMMA SingleStays ==
    ASSUME StayClaimed, NEW rows, NEW u, Single(rows, u), NEW new, new[4] = rows[4]
    PROVE  /\ \A i, j \in DOMAIN new[4] : new[4][i].key = new[4][j].key => i = j
           /\ \A r \in RunKeys(new) : Claimed(r, u)'
           /\ RunKeys(new) = RunKeys(rows)
BY DEF Single, StayClaimed, RunKeys

(* A run that is added to its table.                                         *)
AddsRun(old, new, r) ==
    /\ RunKeys(new) = RunKeys(old) \cup {r}
    /\ \A i, j \in DOMAIN new[4] : new[4][i].key = new[4][j].key => i = j

LEMMA RunAdded ==
    ASSUME NEW old, NEW new, NEW id, NEW r, NEW u,
           Grown(old, new), Single(old, u), ~Claimed(r, u),
           id \in DOMAIN new[4], new[4][id].key = r,
           \A i \in DOMAIN new[4] : i \in DOMAIN old[4] \/ i = id
    PROVE  AddsRun(old, new, r)
<1>1. \A i \in DOMAIN old[4] : i \in DOMAIN new[4] /\ new[4][i] = old[4][i] /\ old[4][i].key # r
  BY DEF Grown, Single, RunKeys
<1>2. RunKeys(new) = RunKeys(old) \cup {r}
  BY <1>1 DEF RunKeys
<1>3. \A i, j \in DOMAIN new[4] : new[4][i].key = new[4][j].key => i = j
  BY <1>1 DEF Single
<1> QED
  BY <1>2, <1>3 DEF AddsRun

(* The statement of t comes to the table of runs.                            *)
LEMMA NewRun ==
    ASSUME Typed, Sites, Pending, Owned, OneSinkEach, Kept, NEW c \in DOMAIN conns, NEW id, NEW how,
           Executes(c, id, how), Adds(c, id, how), NEW t, t = First(c).to
    PROVE  /\ t \in DOMAIN sends /\ Flying(t) /\ sends[t].conn = c /\ sends[t].table = 4
           /\ sends[t].at = "insert" /\ First(c).row.key = t[1]
           /\ ~Claimed(t[1], conns[c].url) /\ Claimed(t[1], conns[c].url)'
           /\ \A i \in DOMAIN conns'[c].queue : conns'[c].queue[i].to # t
<1>1. /\ conns[c].queue # <<>> /\ First(c).do = "insert" /\ First(c).table = 4
      /\ conns[c].live = "open"
  BY DEF Executes, Adds, Grows
<1>2. t # TheUpdate
  BY <1>1, FirstFits
<1>3. /\ t \in DOMAIN sends /\ Flying(t) /\ sends[t].conn = c /\ sends[t].table = 4
      /\ sends[t].at = "insert" /\ First(c).row = Row(t, 4, sends[t].parent)
      /\ sends[t].parent \in Nat
  BY <1>1, <1>2, FirstSends
<1>4. First(c).row.key = t[1]
  BY <1>3, RowIs
<1>5. PICK u \in Urls : u = conns[c].url
  BY Conns, ConnFields
<1>6. u \in UrlsOf(t[2])
  BY <1>1, <1>3, <1>5, SendsTo
<1>7. t[2] \in Names /\ t = <<t[1], t[2]>>
  BY <1>3 DEF Typed, Tasks
<1>8. Moved(c, t, "insert", id, how) /\ UNCHANGED <<life, files, sends>>
  BY <1>1, RanIs
<1>9. /\ 1 \in DOMAIN Queue(c) /\ Queue(c)[1].to = t
      /\ \A i \in DOMAIN conns'[c].queue : conns'[c].queue[i].to # t
  BY <1>8 DEF Moved
<1>10. ~Beyond(t)
  BY <1>3, <1>9 DEF Beyond, Ended
<1>11. ~Claimed(t[1], u)
  <2> SUFFICES ASSUME Claimed(t[1], u) PROVE FALSE
    OBVIOUS
  <2>1. PICK n \in Names : u \in UrlsOf(n) /\ Beyond(<<t[1], n>>)
    BY DEF Claimed
  <2>2. n = t[2]
    BY <1>6, <2>1, OneName
  <2> QED
    BY <1>7, <1>10, <2>1, <2>2
<1>12. t[1] \notin InFile(u)
  <2> SUFFICES ASSUME t[1] \in InFile(u) PROVE FALSE
    OBVIOUS
  <2>1. PICK n \in Names : u \in UrlsOf(n) /\ sends[<<t[1], n>>].at = "done"
    BY DEF Kept, Filed
  <2>2. n = t[2]
    BY <1>6, <2>1, OneName
  <2> QED
    BY <1>3, <1>7, <2>1, <2>2
<1>13. Beyond(t)'
  <2>1. Flying(t)' /\ t \in DOMAIN sends' /\ sends'[t] = sends[t]
    BY <1>3, <1>8 DEF Flying
  <2>2. conns'[c].queue = conns'[sends'[t].conn].queue
    BY <1>3, <2>1
  <2> QED
    BY <1>3, <1>9, <2>1, <2>2 DEF Beyond, Queue
<1>14. Claimed(t[1], u)'
  <2>1. t[1] \notin InFile(u)' /\ u \in UrlsOf(t[2])'
    BY <1>6, <1>8, <1>12 DEF InFile, UrlsOf
  <2>2. Beyond(<<t[1], t[2]>>)'
    BY <1>7, <1>13
  <2> QED
    BY <1>7, <2>1, <2>2 DEF Claimed
<1>15. conns'[c].url = u
  BY <1>5, <1>8 DEF Moved
<1> QED
  BY <1>3, <1>4, <1>5, <1>9, <1>11, <1>14, <1>15 DEF Claimed

(* The executing of a statement answers to whoever made it.                  *)
OneAnswer(y, do, how) ==
    \A j \in DOMAIN answers' :
       \/ \E k \in DOMAIN answers : answers'[j] = answers[k]
       \/ answers'[j].to = y /\ answers'[j].do = do /\ answers'[j].how = how

LEMMA OneAnswerIs ==
    ASSUME NEW c, NEW y, NEW do, NEW id, NEW how, Moved(c, y, do, id, how)
    PROVE  OneAnswer(y, do, how)
<1>1. PICK a : a = [to |-> y, do |-> do, id |-> id, how |-> how]
  OBVIOUS
<1>2. a.to = y /\ a.do = do /\ a.how = how
  BY <1>1
<1>3. \A j \in DOMAIN answers' : (\E k \in DOMAIN answers : answers'[j] = answers[k])
                                 \/ answers'[j] = a
  BY <1>1 DEF Moved
<1> QED
  BY <1>2, <1>3 DEF OneAnswer

LEMMA KeptWhenAdds ==
    ASSUME Typed, Sites, Pending, Owned, OneSinkEach, Kept, NEW c \in DOMAIN conns, NEW id, NEW how,
           Executes(c, id, how), Adds(c, id, how)
    PROVE  Kept'
<1>1. PICK t : t = First(c).to
  OBVIOUS
<1>2. /\ t \in DOMAIN sends /\ Flying(t) /\ sends[t].conn = c /\ sends[t].table = 4
      /\ sends[t].at = "insert" /\ First(c).row.key = t[1]
      /\ ~Claimed(t[1], conns[c].url) /\ Claimed(t[1], conns[c].url)'
  BY <1>1, NewRun
<1>3. First(c).do = "insert" /\ First(c).table = 4 /\ conns[c].live = "open" /\ Grows(c, id)
  BY DEF Adds, Grows
<1>4. /\ Moved(c, t, "insert", id, how) /\ UNCHANGED <<life, files, sends>>
      /\ DOMAIN conns' = DOMAIN conns /\ \A d \in DOMAIN conns : d # c => conns'[d] = conns[d]
  BY <1>1, <1>3, RanIs
<1>5. conns'[c].url = conns[c].url /\ OneAnswer(t, "insert", how)
  BY <1>4, OneAnswerIs DEF Moved
<1>6. StayClaimed
  BY <1>4, BeyondWhenExecuting, ClaimsStay
<1>7. PICK old, new : old = Rows(c) /\ new = Rows(c)'
  OBVIOUS
<1>8. Grown(old, new) /\ id \in DOMAIN new[4] /\ new[4][id].key = t[1]
      /\ \A i \in DOMAIN new[4] : i \in DOMAIN old[4] \/ i = id
  BY <1>2, <1>3, <1>7 DEF Grows
<1>9. PICK u \in Urls : u = conns[c].url
  BY Conns, ConnFields
<1>10. Single(old, u) /\ RunKeys(saved[u].rows) \subseteq RunKeys(old)
  BY <1>3, <1>7, <1>9 DEF Kept, OneEach, Rows
<1>11. AddsRun(old, new, t[1])
  BY <1>2, <1>8, <1>9, <1>10, RunAdded
<1>12. saved' = saved
  BY DEF Adds
<1>13. ASSUME NEW v \in Urls
       PROVE  Single(saved[v].rows, v)'
  <2>1. PICK rows : rows = saved[v].rows
    OBVIOUS
  <2>2. rows = saved'[v].rows /\ Single(rows, v)
    BY <1>12, <2>1 DEF Kept, OneEach
  <2>3. /\ \A i, j \in DOMAIN rows[4] : rows[4][i].key = rows[4][j].key => i = j
        /\ \A r \in RunKeys(rows) : Claimed(r, v)'
    BY <1>6, <2>2, SingleStays
  <2> QED
    BY <2>2, <2>3 DEF Single, RunKeys
<1>14. ASSUME NEW d \in DOMAIN conns', conns'[d].live = "open"
       PROVE  /\ Single(conns[d].work.rows, conns[d].url)'
              /\ RunKeys(saved'[conns'[d].url].rows) \subseteq RunKeys(conns'[d].work.rows)
  <2>1. CASE d = c
    <3>1. new = conns'[d].work.rows /\ conns'[d].url = u
      BY <1>5, <1>7, <1>9, <2>1 DEF Rows
    <3>2. \A i, j \in DOMAIN new[4] : new[4][i].key = new[4][j].key => i = j
      BY <1>11 DEF AddsRun
    <3>3. \A r \in RunKeys(old) : Claimed(r, u)'
      BY <1>6, <1>10, SingleStays
    <3>4. \A r \in RunKeys(new) : Claimed(r, u)'
      <4>1. Claimed(t[1], u)'
        BY <1>2, <2>1, <3>1 DEF Claimed
      <4>2. PICK r : r = t[1]
        OBVIOUS
      <4>3. Claimed(r, u)'
        BY <4>1, <4>2
      <4> QED
        BY <1>11, <3>3, <4>2, <4>3 DEF AddsRun
    <3>5. Single(conns[d].work.rows, conns[d].url)'
      BY <3>1, <3>2, <3>4 DEF Single, RunKeys
    <3>6. RunKeys(saved[u].rows) \subseteq RunKeys(new)
      BY <1>10, <1>11 DEF AddsRun
    <3> QED
      BY <1>12, <3>1, <3>5, <3>6
  <2>2. CASE d # c
    <3>1. d \in DOMAIN conns /\ conns'[d] = conns[d]
      BY <1>4, <2>2
    <3>2. PICK rows : rows = conns'[d].work.rows
      OBVIOUS
    <3>3. Single(rows, conns[d].url) /\ RunKeys(saved[conns[d].url].rows) \subseteq RunKeys(rows)
      BY <1>14, <3>1, <3>2 DEF Kept, OneEach
    <3>4. PICK v : v = conns[d].url
      OBVIOUS
    <3>5. /\ \A i, j \in DOMAIN rows[4] : rows[4][i].key = rows[4][j].key => i = j
          /\ \A r \in RunKeys(rows) : Claimed(r, v)'
      BY <1>6, <3>3, <3>4, SingleStays
    <3>6. v = conns'[d].url
      BY <3>1, <3>4
    <3>7. Single(conns[d].work.rows, conns[d].url)'
      BY <3>2, <3>5, <3>6 DEF Single, RunKeys
    <3> QED
      BY <1>12, <3>1, <3>2, <3>3, <3>7
  <2> QED
    BY <2>1, <2>2
<1>15. OneEach'
  BY <1>13, <1>14 DEF OneEach, RunKeys
<1>16. Filed'
  BY <1>4, FiledStays DEF Kept
<1>17. DiskGrows
  BY <1>12 DEF DiskGrows
<1>18. \A x : OnDisk(x) => OnDisk(x)'
  BY <1>4, <1>17, OnDiskStays
<1>19. ASSUME NEW d \in DOMAIN conns
       PROVE  RunKeys(Rows(d)) \subseteq RunKeys(conns'[d].work.rows)
  <2>1. CASE d = c
    BY <1>7, <1>11, <2>1 DEF AddsRun, Rows
  <2>2. CASE d # c
    BY <1>4, <2>2 DEF Rows
  <2> QED
    BY <2>1, <2>2
<1>20. ASSUME NEW x \in DOMAIN sends', x # t
       PROVE  StaysShown(x)
  <2>1. x \in DOMAIN sends /\ sends'[x] = sends[x] /\ Flying(x)' = Flying(x) /\ Shown(x)
    BY <1>4 DEF Flying, Kept
  <2>2. Written(x)' => Written(x)
    BY <1>5, <1>20, <2>1 DEF Written, OneAnswer
  <2>3. ASSUME Flying(x), conns'[sends[x].conn].live = "open"
        PROVE  /\ conns[sends[x].conn].live = "open"
               /\ RunKeys(Rows(sends[x].conn)) \subseteq RunKeys(conns'[sends[x].conn].work.rows)
    <3>1. PICK d \in DOMAIN conns : d = sends[x].conn
      BY <2>1, <2>3, FlightIs
    <3>2. conns[d].live = "open"
      BY <1>3, <1>4, <2>3, <3>1
    <3> QED
      BY <1>19, <3>1, <3>2
  <2> QED
    BY <2>1, <2>2, <2>3 DEF StaysShown, Shown, Rows
<1>21. ASSUME NEW x \in DOMAIN sends'
       PROVE  Shown(x)'
  <2>1. CASE x # t
    BY <1>4, <1>17, <1>20, <2>1, ShownStays
  <2>2. CASE x = t
    <3>1. sends'[x] = sends[x] /\ sends[x].at = "insert" /\ sends[x].conn = c
      BY <1>2, <1>4, <2>2
    <3>2. x[1] \in RunKeys(conns'[c].work.rows)
      BY <1>7, <1>11, <2>2 DEF AddsRun, Rows
    <3>3. x[1] \in RunKeys(conns'[sends'[x].conn].work.rows)
      BY <3>1, <3>2
    <3> QED
      BY <3>1, <3>3 DEF Shown, RunKeys
  <2> QED
    BY <2>1, <2>2
<1>22. ASSUME NEW j \in DOMAIN answers', answers'[j].do = "commit", answers'[j].how = "ok"
       PROVE  OnDisk(answers[j].to)'
  <2>1. PICK x : x = answers'[j].to
    OBVIOUS
  <2>2. OnDisk(x)
    BY <1>5, <1>22, <2>1 DEF Kept, OneAnswer
  <2>3. OnDisk(x)'
    BY <1>18, <2>2
  <2> QED
    BY <2>1, <2>3 DEF OnDisk
<1> QED
  BY <1>15, <1>16, <1>21, <1>22 DEF Kept

LEMMA KeptWhenCommitted ==
    ASSUME Typed, Sites, Pending, Mapped, Owned, OneSinkEach, Kept, NEW c \in DOMAIN conns, NEW id,
           NEW how, Executes(c, id, how), Committing(c, id, how)
    PROVE  Kept'
<1>1. PICK t : t = First(c).to
  OBVIOUS
<1>2. /\ First(c).do = "commit" /\ conns[c].live = "open" /\ conns[c].queue # <<>>
      /\ Steps(c, "open", conns[c].work)
      /\ saved' = [saved EXCEPT ![conns[c].url] = conns[c].work]
  BY DEF Committing, Executes
<1>3. t # TheUpdate
  BY <1>1, <1>2, FirstFits
<1>4. t \in DOMAIN sends /\ Flying(t) /\ sends[t].conn = c /\ sends[t].at = "commit"
  BY <1>1, <1>2, <1>3, FirstSends
<1>5. /\ Moved(c, t, "commit", id, how) /\ UNCHANGED <<life, files, sends>>
      /\ DOMAIN conns' = DOMAIN conns /\ \A d \in DOMAIN conns : d # c => conns'[d] = conns[d]
  BY <1>1, <1>2, RanIs
<1>6. OneAnswer(t, "commit", how)
  BY <1>5, OneAnswerIs
<1>7. \A d \in DOMAIN conns : /\ conns'[d].live = conns[d].live /\ conns'[d].url = conns[d].url
                              /\ conns'[d].work = conns[d].work
  <2>1. conns'[c].live = "open" /\ conns'[c].url = conns[c].url /\ conns'[c].work = conns[c].work
    BY <1>2, <1>5 DEF Steps, Moved
  <2> QED
    BY <1>2, <1>5, <2>1
<1>8. StayClaimed
  BY <1>5, BeyondWhenExecuting, ClaimsStay
<1>9. PICK u \in Urls : u = conns[c].url
  BY Conns, ConnFields
<1>9a. PICK rows : rows = conns[c].work.rows
  OBVIOUS
<1>10. Single(rows, u) /\ RunKeys(saved[u].rows) \subseteq RunKeys(rows)
  BY <1>2, <1>9, <1>9a DEF Kept, OneEach
<1>11. saved'[u].rows = rows /\ \A v \in Urls : v # u => saved'[v] = saved[v]
  BY <1>2, <1>9, <1>9a DEF Typed
<1>12. ASSUME NEW v \in Urls
       PROVE  Single(saved[v].rows, v)'
  <2>1. PICK new : new = saved'[v].rows
    OBVIOUS
  <2>2. Single(new, v)
    BY <1>10, <1>11, <2>1 DEF Kept, OneEach
  <2>3. /\ \A i, j \in DOMAIN new[4] : new[4][i].key = new[4][j].key => i = j
        /\ \A r \in RunKeys(new) : Claimed(r, v)'
    BY <1>8, <2>2, SingleStays
  <2> QED
    BY <2>1, <2>3 DEF Single, RunKeys
<1>13. ASSUME NEW d \in DOMAIN conns', conns'[d].live = "open"
       PROVE  /\ Single(conns[d].work.rows, conns[d].url)'
              /\ RunKeys(saved'[conns'[d].url].rows) \subseteq RunKeys(conns'[d].work.rows)
  <2>0. PICK v \in Urls : v = conns[d].url /\ d \in DOMAIN conns
    BY <1>5, Conns, ConnFields
  <2>1. PICK new : v = conns[d].url /\ new = conns[d].work.rows /\ d \in DOMAIN conns
    BY <2>0
  <2>2. v = conns'[d].url /\ new = conns'[d].work.rows /\ conns[d].live = "open"
    BY <1>7, <1>13, <2>1
  <2>3. Single(new, v) /\ RunKeys(saved[v].rows) \subseteq RunKeys(new)
    BY <2>1, <2>2 DEF Kept, OneEach
  <2>4. /\ \A i, j \in DOMAIN new[4] : new[4][i].key = new[4][j].key => i = j
        /\ \A r \in RunKeys(new) : Claimed(r, v)'
    BY <1>8, <2>3, SingleStays
  <2>5. Single(conns[d].work.rows, conns[d].url)'
    BY <2>2, <2>4 DEF Single, RunKeys
  <2>6. CASE v = u
    <3>1. d = c
      BY <1>2, <1>9, <2>1, <2>2, <2>6, OneOpen
    <3> QED
      BY <1>9, <1>9a, <1>11, <2>1, <2>2, <2>5, <3>1
  <2>7. CASE v # u
    BY <1>11, <2>1, <2>2, <2>3, <2>5, <2>7
  <2> QED
    BY <2>6, <2>7
<1>14. OneEach'
  BY <1>12, <1>13 DEF OneEach, RunKeys
<1>15. Filed'
  BY <1>5, FiledStays DEF Kept
<1>16. DiskGrows
  BY <1>10, <1>11 DEF DiskGrows
<1>17. \A x : OnDisk(x) => OnDisk(x)'
  BY <1>5, <1>16, OnDiskStays
<1>18. ASSUME NEW x \in DOMAIN sends'
       PROVE  StaysShown(x)
  <2>1. x \in DOMAIN sends /\ sends'[x] = sends[x] /\ Flying(x)' = Flying(x) /\ Shown(x)
    BY <1>5 DEF Flying, Kept
  <2>2. Written(x)' => Written(x)
    BY <1>4, <1>6, <2>1 DEF Written, OneAnswer
  <2>3. ASSUME Flying(x), conns'[sends[x].conn].live = "open"
        PROVE  /\ conns[sends[x].conn].live = "open"
               /\ RunKeys(Rows(sends[x].conn)) \subseteq RunKeys(conns'[sends[x].conn].work.rows)
    <3>1. PICK d \in DOMAIN conns : d = sends[x].conn
      BY <2>1, <2>3, FlightIs
    <3>2. conns[d].live = "open" /\ Rows(d) = conns'[d].work.rows
      BY <1>7, <2>3, <3>1 DEF Rows
    <3> QED
      BY <3>1, <3>2
  <2> QED
    BY <2>1, <2>2, <2>3 DEF StaysShown, Shown, Rows
<1>19. \A x \in DOMAIN sends' : Shown(x)'
  BY <1>5, <1>16, <1>18, ShownStays
<1>20. OnDisk(t)'
  <2>1. Shown(t) /\ Written(t)
    BY <1>4 DEF Kept, Written
  <2>2. t[1] \in RunKeys(rows)
    BY <1>2, <1>4, <1>9a, <2>1 DEF Shown
  <2>3. u \in UrlsOf(t[2])
    BY <1>2, <1>4, <1>9, SendsTo
  <2>4. u \in UrlsOf(t[2])'
    BY <1>5, <2>3 DEF UrlsOf
  <2> QED
    BY <1>11, <2>2, <2>4 DEF OnDisk, RunKeys
<1>21. ASSUME NEW j \in DOMAIN answers', answers'[j].do = "commit", answers'[j].how = "ok"
       PROVE  OnDisk(answers[j].to)'
  <2>1. PICK x : x = answers'[j].to
    OBVIOUS
  <2>2. x = t \/ OnDisk(x)
    BY <1>6, <1>21, <2>1 DEF Kept, OneAnswer
  <2>3. OnDisk(x)'
    BY <1>17, <1>20, <2>2
  <2> QED
    BY <2>1, <2>3 DEF OnDisk
<1> QED
  BY <1>14, <1>15, <1>19, <1>21 DEF Kept

LEMMA KeptWhenExecuting ==
    ASSUME Typed, Sites, Pending, Mapped, Owned, OneSinkEach, Kept, NEW c \in DOMAIN conns, NEW id,
           NEW how, Executes(c, id, how)
    PROVE  Kept'
<1>1. Plain(c, how) \/ Adds(c, id, how) \/ Committing(c, id, how)
  BY RunsAre
<1> QED
  BY <1>1, KeptWhenPlain, KeptWhenAdds, KeptWhenCommitted

(* Steps that move no rows: statements of the update, new tasks, other sinks. *)
Calm ==
    /\ UNCHANGED <<files, life, saved>> /\ DOMAIN conns \subseteq DOMAIN conns'
    /\ \A c \in DOMAIN conns' : conns'[c].live = "open" =>
         /\ c \in DOMAIN conns /\ conns[c].live = "open" /\ conns'[c].url = conns[c].url
         /\ conns'[c].work = conns[c].work
    /\ \A c \in DOMAIN conns : \A i \in DOMAIN conns'[c].queue :
         \/ conns'[c].queue[i].to = TheUpdate
         \/ i \in DOMAIN Queue(c) /\ conns'[c].queue[i] = Queue(c)[i]
    /\ DOMAIN sends \subseteq DOMAIN sends'
    /\ \A x \in DOMAIN sends : /\ sends'[x].at = sends[x].at /\ sends'[x].conn = sends[x].conn
                               /\ sends'[x].table = sends[x].table
    /\ \A x \in DOMAIN sends' : x \notin DOMAIN sends => sends'[x].at = "new"
    /\ \A j \in DOMAIN answers' : \E k \in DOMAIN answers : answers'[j] = answers[k]

LEMMA KeptWhenCalm ==
    ASSUME Typed, Sites, Kept, Calm
    PROVE  Kept'
<1>1. /\ UNCHANGED <<files, life, saved>> /\ DOMAIN sends \subseteq DOMAIN sends'
      /\ \A x \in DOMAIN sends : /\ sends'[x].at = sends[x].at /\ sends'[x].conn = sends[x].conn
                                 /\ sends'[x].table = sends[x].table
      /\ \A j \in DOMAIN answers' : \E k \in DOMAIN answers : answers'[j] = answers[k]
  BY DEF Calm
<1>2. \A x \in DOMAIN sends : Flying(x)' = Flying(x)
  BY <1>1 DEF Flying
<1>3. \A c \in DOMAIN conns' : conns'[c].live = "open" =>
         /\ c \in DOMAIN conns /\ conns'[c].url = conns[c].url
         /\ conns[c].live = "open" /\ Rows(c)' = Rows(c)
  BY DEF Calm, Rows
<1>4. ASSUME NEW x, Beyond(x)
      PROVE  Beyond(x)'
  <2>1. x \in DOMAIN sends /\ x \in DOMAIN sends' /\ x # TheUpdate
    BY <1>1, <1>4, UpdateIsNoTask DEF Beyond, Typed
  <2>2. CASE sends[x].at \in Ended
    BY <1>1, <2>1, <2>2 DEF Beyond
  <2>3. CASE sends[x].at \notin Ended
    <3>1. /\ Flying(x) /\ sends[x].table = 4
          /\ \A i \in DOMAIN Queue(sends[x].conn) :
               Queue(sends[x].conn)[i].to = x => sends[x].at # "insert"
      BY <1>4, <2>3 DEF Beyond
    <3>2. PICK c \in DOMAIN conns : c = sends[x].conn
      BY <2>1, <3>1, FlightIs
    <3>3. \A i \in DOMAIN conns'[c].queue : conns'[c].queue[i].to = x => sends[x].at # "insert"
      BY <2>1, <3>1, <3>2 DEF Calm
    <3> QED
      BY <1>1, <1>2, <2>1, <3>1, <3>2, <3>3 DEF Beyond, Queue
  <2> QED
    BY <2>2, <2>3
<1>5. ASSUME NEW x \in DOMAIN sends'
      PROVE  StaysShown(x)
  <2>1. CASE x \notin DOMAIN sends
    <3>1. sends'[x].at = "new"
      BY <2>1 DEF Calm
    <3> QED
      BY <3>1 DEF StaysShown, Flying, InFlight
  <2>2. CASE x \in DOMAIN sends
    <3>1. /\ sends'[x].at = sends[x].at /\ sends'[x].conn = sends[x].conn
          /\ sends'[x].table = sends[x].table /\ Flying(x)' = Flying(x) /\ Shown(x)
      BY <1>1, <1>2, <2>2 DEF Kept
    <3>2. Written(x)' => Written(x)
      BY <1>1, <3>1 DEF Written
    <3>3. ASSUME Flying(x), conns'[sends[x].conn].live = "open"
          PROVE  /\ conns[sends[x].conn].live = "open"
                 /\ RunKeys(Rows(sends[x].conn)) \subseteq RunKeys(conns'[sends[x].conn].work.rows)
      <4>1. PICK d \in DOMAIN conns : d = sends[x].conn
        BY <2>2, <3>3, FlightIs
      <4>2. d \in DOMAIN conns'
        BY DEF Calm
      <4>3. conns[d].live = "open" /\ Rows(d) = conns'[d].work.rows
        BY <1>3, <3>3, <4>1, <4>2 DEF Rows
      <4> QED
        BY <4>1, <4>3
    <3> QED
      BY <2>2, <3>1, <3>2, <3>3 DEF StaysShown, Shown, Rows
  <2> QED
    BY <2>1, <2>2
<1>6. \A x \in DOMAIN sends : sends[x].at = "done" =>
         x \in DOMAIN sends' /\ sends'[x].at = "done"
  BY <1>1
<1>7. \A u \in Urls : saved'[u].rows = saved[u].rows
  BY <1>1
<1> QED
  BY <1>1, <1>3, <1>4, <1>5, <1>6, <1>7, KeptStays

LEMMA CalmWhenPut ==
    ASSUME Typed, NEW p, Shuts(p) \/ (Sites /\ Pending /\ Asks)
    PROVE  Calm
<1>1. /\ UNCHANGED <<files, life, saved>> /\ (sends' = sends \/ Downs(p))
      /\ (answers' = answers \/ Shifted(TheUpdate))
      /\ \E c, op : PutAt(c, op) /\ op.to = TheUpdate
  <2>1. CASE Shuts(p)
    BY <2>1, ShutIs DEF ShutAt
  <2>2. CASE Sites /\ Pending /\ Asks
    BY <2>2, GoesIs DEF Goes
  <2> QED
    BY <2>1, <2>2
<1>2. PICK c, op : PutAt(c, op) /\ op.to = TheUpdate
  BY <1>1
<1>3. /\ DOMAIN sends' = DOMAIN sends
      /\ \A x \in DOMAIN sends : /\ sends'[x].at = sends[x].at /\ sends'[x].conn = sends[x].conn
                                 /\ sends'[x].table = sends[x].table
  BY <1>1, DownIs
<1>4. /\ DOMAIN conns' = DOMAIN conns
      /\ \A d \in DOMAIN conns : /\ conns'[d].live = conns[d].live /\ conns'[d].url = conns[d].url
                                 /\ conns'[d].work = conns[d].work
      /\ \A d \in DOMAIN conns : \A i \in DOMAIN conns'[d].queue :
           \/ conns'[d].queue[i].to = TheUpdate
           \/ i \in DOMAIN Queue(d) /\ conns'[d].queue[i] = Queue(d)[i]
  BY <1>2 DEF PutAt, Queue
<1>5. \A j \in DOMAIN answers' : \E k \in DOMAIN answers : answers'[j] = answers[k]
  BY <1>1 DEF Shifted
<1>6. UNCHANGED <<files, life, saved>>
  BY <1>1
<1>7. /\ DOMAIN conns \subseteq DOMAIN conns'
      /\ \A d \in DOMAIN conns' : conns'[d].live = "open" =>
           /\ d \in DOMAIN conns /\ conns[d].live = "open" /\ conns'[d].url = conns[d].url
           /\ conns'[d].work = conns[d].work
  BY <1>4
<1>8. /\ DOMAIN sends \subseteq DOMAIN sends'
      /\ \A x \in DOMAIN sends' : x \notin DOMAIN sends => sends'[x].at = "new"
  BY <1>3
<1> QED
  BY <1>3, <1>4, <1>5, <1>6, <1>7, <1>8 DEF Calm

LEMMA CalmWhenRenewed ==
    ASSUME Typed, Pending, NEW p, NEW g, Renews(p, g)
    PROVE  Calm
<1>1. Renewed(p, g)
  BY RenewIs
<1>2. /\ UNCHANGED <<files, life, saved>> /\ (sends' = sends \/ Downs(p))
      /\ (answers' = answers \/ Shifted(TheUpdate))
  BY <1>1 DEF Renewed, Renews
<1>3. /\ DOMAIN sends' = DOMAIN sends
      /\ \A x \in DOMAIN sends : /\ sends'[x].at = sends[x].at /\ sends'[x].conn = sends[x].conn
                                 /\ sends'[x].table = sends[x].table
  BY <1>2, DownIs
<1>4. /\ DOMAIN conns \subseteq DOMAIN conns'
      /\ \A d \in DOMAIN conns' : conns'[d].live = "open" => d \in DOMAIN conns
      /\ \A d \in DOMAIN conns : /\ conns'[d].live \in {conns[d].live, "gone"}
                                 /\ conns'[d].url = conns[d].url /\ conns'[d].work = conns[d].work
                                 /\ conns'[d].queue = conns[d].queue
  BY <1>1 DEF Renewed, NewComer
<1>5. \A j \in DOMAIN answers' : \E k \in DOMAIN answers : answers'[j] = answers[k]
  BY <1>2 DEF Shifted
<1>6. \A d \in DOMAIN conns' : conns'[d].live = "open" =>
           /\ d \in DOMAIN conns /\ conns[d].live = "open" /\ conns'[d].url = conns[d].url
           /\ conns'[d].work = conns[d].work
  <2>1. "open" # "gone"
    OBVIOUS
  <2> QED
    BY <1>4, <2>1
<1>7. \A d \in DOMAIN conns : \A i \in DOMAIN conns'[d].queue :
           i \in DOMAIN Queue(d) /\ conns'[d].queue[i] = Queue(d)[i]
  BY <1>4 DEF Queue
<1>8. /\ DOMAIN sends \subseteq DOMAIN sends'
      /\ \A x \in DOMAIN sends' : x \notin DOMAIN sends => sends'[x].at = "new"
  BY <1>3
<1>9. DOMAIN conns \subseteq DOMAIN conns'
  BY <1>4
<1> QED
  BY <1>2, <1>3, <1>5, <1>6, <1>7, <1>8, <1>9 DEF Calm

LEMMA CalmWhenOthers ==
    ASSUME Typed, Pending, Finishes \/ Fresh \/ Quiet
    PROVE  Calm
<1>1. UNCHANGED <<files, life, saved, conns>> /\ (answers' = answers \/ Shifted(TheUpdate))
  BY TakesFacts DEF Finishes, Fresh, Quiet, sinkVars
<1>2. /\ DOMAIN sends \subseteq DOMAIN sends' /\ \A x \in DOMAIN sends : sends'[x] = sends[x]
      /\ \A x \in DOMAIN sends' : x \notin DOMAIN sends => sends'[x].at = "new"
  BY DEF Finishes, Fresh, Quiet
<1>3. \A j \in DOMAIN answers' : \E k \in DOMAIN answers : answers'[j] = answers[k]
  BY <1>1 DEF Shifted
<1> QED
  BY <1>1, <1>2, <1>3 DEF Calm, Queue

LEMMA KeptWhenAgain ==
    ASSUME Typed, Kept, Again
    PROVE  Kept'
<1>1. /\ UNCHANGED <<files, life, saved>> /\ conns' = <<>> /\ answers' = <<>>
      /\ DOMAIN sends' = DOMAIN sends
      /\ \A x \in DOMAIN sends : /\ sends'[x].at \in Ended
                                 /\ sends'[x] = sends[x] \/ (sends'[x].at = "lost" /\ ~(sends[x].at \in Ended))
  BY DEF Again
<1>2. DOMAIN conns' = {} /\ DOMAIN answers' = {}
  BY <1>1
<1>3. \A x : Beyond(x) => Beyond(x)'
  BY <1>1 DEF Beyond
<1>4. \A x \in DOMAIN sends : sends'[x].at = "done" <=> sends[x].at = "done"
  BY <1>1 DEF Ended
<1>5. ASSUME NEW x \in DOMAIN sends'
      PROVE  StaysShown(x)
  <2>1. ~Flying(x)' /\ sends'[x].at # "commit"
    BY <1>1 DEF Flying, InFlight, Ended
  <2> QED
    BY <1>1, <1>4, <2>1 DEF StaysShown
<1>6. \A x \in DOMAIN sends : sends[x].at = "done" =>
         x \in DOMAIN sends' /\ sends'[x].at = "done"
  BY <1>1, <1>4
<1>7. \A u \in Urls : saved'[u].rows = saved[u].rows
  BY <1>1
<1> QED
  BY <1>1, <1>2, <1>3, <1>5, <1>6, <1>7, KeptStays

LEMMA KeptNext ==
    ASSUME Typed, Sites, Pending, Punctual, Mapped, Owned, OneSinkEach, Kept, [Next]_vars
    PROVE  Kept'
<1>1. ASSUME NEW t \in DOMAIN sends, GoesOn(t) \/ Ends(t) PROVE Kept'
  <2>1. CASE Ends(t) /\ sends[t].at = "new" /\ sends'[t].at = "done"
    BY <2>1, KeptWhenWritten
  <2>2. CASE ~(Ends(t) /\ sends[t].at = "new" /\ sends'[t].at = "done")
    <3>1. files' = files /\ (sends'[t].at # "done" \/ sends[t].at = "commit")
      BY <1>1, <2>2 DEF GoesOn, Ends, InFlight
    <3> QED
      BY <1>1, <3>1, KeptWhenSending
  <2> QED
    BY <2>1, <2>2
<1>2. ASSUME NEW c \in DOMAIN conns, NEW id, NEW how, Executes(c, id, how) PROVE Kept'
  BY <1>2, KeptWhenExecuting
<1>3. ASSUME NEW p, Shuts(p) PROVE Kept'
  BY <1>3, CalmWhenPut, KeptWhenCalm
<1>4. ASSUME NEW p, NEW g, Renews(p, g) PROVE Kept'
  BY <1>4, CalmWhenRenewed, KeptWhenCalm
<1>5. CASE Asks
  BY <1>5, CalmWhenPut, KeptWhenCalm
<1>6. CASE Finishes \/ Fresh \/ Quiet
  BY <1>6, CalmWhenOthers, KeptWhenCalm
<1>7. CASE Again
  BY <1>7, KeptWhenAgain
<1> QED
  BY <1>1, <1>2, <1>3, <1>4, <1>5, <1>6, <1>7, StepIs

LEMMA SameLife ==
    ASSUME Typed, Sites, Pending, [Next]_vars
    PROVE  life' = life
<1>1. ASSUME NEW t \in DOMAIN sends, GoesOn(t) \/ Ends(t) PROVE life' = life
  BY <1>1 DEF GoesOn, Ends, sinkVars
<1>2. ASSUME NEW c \in DOMAIN conns, NEW id, NEW how, Executes(c, id, how) PROVE life' = life
  BY <1>2 DEF Executes, sinkVars
<1>3. ASSUME NEW p, Shuts(p) PROVE life' = life
  BY <1>3 DEF Shuts
<1>4. ASSUME NEW p, NEW g, Renews(p, g) PROVE life' = life
  BY <1>4 DEF Renews
<1>5. CASE Asks \/ Finishes \/ Fresh \/ Quiet \/ Again
  BY <1>5 DEF Asks, Finishes, Fresh, Quiet, Again, sinkVars
<1> QED
  BY <1>1, <1>2, <1>3, <1>4, <1>5, StepIs

LEMMA InitStored ==
    ASSUME Init
    PROVE  StoredInv
<1>1. /\ plugins = <<>> /\ conns = <<>> /\ answers = <<>> /\ update = Idle
      /\ saved = [u \in Urls |-> NoTables] /\ files = [u \in Urls |-> <<>>]
      /\ sends = [x \in {} |-> 0]
  BY DEF Init
<1>2. /\ DOMAIN plugins = {} /\ DOMAIN conns = {} /\ DOMAIN answers = {} /\ DOMAIN sends = {}
      /\ update.at = "idle"
  BY <1>1 DEF Idle
<1>3. Owned
  BY <1>2 DEF Owned
<1>4. ASSUME NEW u \in Urls
      PROVE  Single(saved[u].rows, u)
  <2>1. saved[u].rows[4] = <<>>
    BY <1>1, NoTablesAre
  <2>2. DOMAIN saved[u].rows[4] = {}
    BY <2>1
  <2> QED
    BY <2>2 DEF Single, RunKeys
<1>5. OneEach
  BY <1>2, <1>4 DEF OneEach
<1>6. Filed
  <2>1. PICK none : none = <<>>
    OBVIOUS
  <2>2. none \in Seq(Results) /\ DOMAIN none = {} /\ files = [u \in Urls |-> none]
    BY <1>1, <2>1, EmptySeq
  <2> QED
    BY <2>2 DEF Filed, InFile
<1> QED
  BY <1>2, <1>3, <1>5, <1>6 DEF StoredInv, Kept

LEMMA StoredInvNext ==
    ASSUME SinksInv, StoredInv, [Next]_vars
    PROVE  StoredInv'
<1>1. Typed /\ Sites /\ Pending /\ Punctual /\ Mapped /\ Owned
  BY DEF SinksInv, StoredInv
<1>2. Owned'
  BY <1>1, OwnedNext
<1>3. OneSinkEach' => OneSinkEach
  <2>1. life' = life
    BY <1>1, SameLife
  <2> QED
    BY <2>1 DEF OneSinkEach
<1>4. OneSinkEach => Kept'
  BY <1>1, KeptNext DEF StoredInv
<1> QED
  BY <1>2, <1>3, <1>4 DEF StoredInv

LEMMA AtMostOne ==
    ASSUME NEW S, \A i, j \in S : i = j
    PROVE  Cardinality(S) = IF S = {} THEN 0 ELSE 1
<1>1. CASE S = {}
  BY <1>1, FS_EmptySet
<1>2. CASE S # {}
  <2>1. PICK i \in S : S = {i}
    BY <1>2
  <2> QED
    BY <1>2, <2>1, FS_Singleton
<1> QED
  BY <1>1, <1>2

(* MasterSink.send_data hands a result to each sink once, SQLite.send and    *)
(* CSV.send write it once, and what a send has ended for stays in a file of  *)
(* its sink: whatever the order of sends, updates, crashes and restarts, as  *)
(* long as the configurations give no file to two names.                     *)
THEOREM ResultsStoredOnce == Spec => []StoredOnce
<1>1. Init => SinksInv /\ StoredInv
  BY InitSinksInv, InitStored
<1>2. SinksInv /\ StoredInv /\ [Next]_vars => (SinksInv /\ StoredInv)'
  BY SinksInvNext, StoredInvNext
<1>3. ASSUME SinksInv, StoredInv
      PROVE  StoredOnce
  <2> SUFFICES ASSUME Kept
               PROVE  /\ \A u \in Urls, r \in Results : Stored(r, u) <= 1
                      /\ \A t \in DOMAIN sends :
                           sends[t].at = "done" => \E u \in UrlsOf(t[2]) : Stored(t[1], u) = 1
    BY <1>3 DEF StoredOnce, StoredInv, OneSinkEach
  <2>1. ASSUME NEW u \in Urls, NEW r
        PROVE  Stored(r, u) = IF r \in RunKeys(saved[u].rows) \cup InFile(u) THEN 1 ELSE 0
    <3>1. Single(saved[u].rows, u) /\ \A i, j \in DOMAIN files[u] : files[u][i] = files[u][j] => i = j
      BY DEF Kept, OneEach, Filed
    <3>2. PICK runs, lines : /\ runs = {i \in DOMAIN saved[u].rows[4] : saved[u].rows[4][i].key = r}
                             /\ lines = {i \in DOMAIN files[u] : files[u][i] = r}
      OBVIOUS
    <3>3. Cardinality(runs) = IF runs = {} THEN 0 ELSE 1
      BY <3>1, <3>2, AtMostOne DEF Single
    <3>4. Cardinality(lines) = IF lines = {} THEN 0 ELSE 1
      BY <3>1, <3>2, AtMostOne
    <3>5. runs # {} <=> r \in RunKeys(saved[u].rows)
      BY <3>2 DEF RunKeys
    <3>6. lines # {} <=> r \in InFile(u)
      BY <3>2 DEF InFile
    <3>7. ~(r \in RunKeys(saved[u].rows) /\ r \in InFile(u))
      BY <3>1 DEF Single, Claimed
    <3>8. Stored(r, u) = Cardinality(runs) + Cardinality(lines)
      BY <3>2 DEF Stored, RunsOf, CountIn
    <3> QED
      BY <3>3, <3>4, <3>5, <3>6, <3>7, <3>8
  <2>2. ASSUME NEW t \in DOMAIN sends, sends[t].at = "done"
        PROVE  \E u \in UrlsOf(t[2]) : Stored(t[1], u) = 1
    <3>1. Shown(t)
      BY DEF Kept
    <3>2. PICK u \in UrlsOf(t[2]) : t[1] \in RunKeys(saved[u].rows) \cup InFile(u)
      BY <2>2, <3>1 DEF Shown, OnDisk
    <3>3. UrlsOf(t[2]) \subseteq Urls
      BY <1>3, ConfigIs DEF UrlsOf, SinksInv
    <3> QED
      BY <2>1, <3>2, <3>3
  <2> QED
    BY <2>1, <2>2
<1> QED
  BY <1>1, <1>2, <1>3, SinksInvAlways, PTL DEF Spec


===============================================================================
