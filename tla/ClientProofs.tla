------------------------------ MODULE ClientProofs ----------------------------
(*****************************************************************************)
(* Proofs about the command line, cron and the requests for reports, for any *)
(* number of processes, files, requests, sinks and results, in any order.    *)
(*                                                                           *)
(* CommandInv is about the processes: who overlaps with whom, what the cron  *)
(* table holds after the commands so far, and whose post stands.             *)
(*                                                                           *)
(* IInv is about the files of the requests.  What ties them to the requests  *)
(* is the second: every name leads to a file that was created in its second, *)
(* every request holds such a file, and only requests of that second have    *)
(* written into it (Ties).                                                   *)
(*                                                                           *)
(* ReadInv is about what the requests read: what a request owes is counted,  *)
(* or its group is still to be read from the sink that it began with.        *)
(*                                                                           *)
(* The last part is about the order of the runs: which ranks a quantile cuts *)
(* off on either side.                                                       *)
(*****************************************************************************)
EXTENDS Client, FiniteSetTheorems, FunctionTheorems, TLAPS

-------------------------------------------------------------------------------
(* The processes.                                                            *)

Settled == {"none", "done", "failed", "raised"}
ProcessFields == {"at", "cmd", "file", "update", "cron", "doc", "tab", "with"}

IsProcess(c) ==
    /\ DOMAIN clients[c] = ProcessFields
    /\ clients[c].at \in Working \cup Settled
    /\ clients[c].cmd \in {"none", "up", "down", "schedule"}
    /\ clients[c].update \in BOOLEAN /\ clients[c].cron \in BOOLEAN
    /\ clients[c].tab \subseteq Jobs /\ clients[c].with \subseteq Clients \ {c}
    /\ clients[c].at = "none" <=> clients[c].cmd = "none"
    /\ clients[c].at = "none" => ~clients[c].cron
    /\ clients[c].cmd = "up" =>
         /\ clients[c].file \in Files /\ IsDocument(clients[c].doc)
         /\ clients[c].at \in {"post", "done", "failed", "raised"}
    /\ clients[c].cmd = "down" => clients[c].file \in Files \cup {None}
    /\ clients[c].cmd = "schedule" =>
         clients[c].file \in Files /\ clients[c].at \in {"tab", "write", "done", "failed"}
    /\ clients[c].cron => clients[c].cmd = "up" /\ ~clients[c].update

Typed ==
    /\ scene \in Scenes
    /\ DOMAIN clients = Clients /\ \A c \in Clients : IsProcess(c)
    /\ crontab \subseteq Jobs
    /\ DOMAIN files = Files /\ \A f \in Files : IsDocument(files[f])
    /\ DOMAIN ctx = {"state", "config"}
    /\ DOMAIN ctx.config = {"mode", "repeats", "common", "vpns", "groups", "sinks"}
    /\ ctx.state \in {"idle", "run"} /\ ctx.config.mode \in {"continuous", "once"}
    /\ ctx.config.common \in BOOLEAN
    /\ ctx.config.sinks \in {<<>>} \cup [{"sqlite"} -> Databases]
    /\ origin \in Clients \cup {None}

Numbered == IsFiniteSet(Begun) /\ Begun = 1..Cardinality(Begun)

(* Processes at work at the same time know of each other.                    *)
Overlapping ==
    \A c \in Active : \A d \in Begun \ {c} :
       \/ d \in clients[c].with
       \/ d \notin Active /\ d < c
       \/ clients[d].cmd = "schedule" /\ clients[d].at = "failed"

(* The last process that began is alone, if nobody was at work at the time.  *)
Last(c) == clients[c].cmd = "down" /\ clients[c].with = {} /\ c + 1 = Newest
AloneAtWork == \A c \in Clients : Last(c) => Active \subseteq {c}

Stopping ==
    \A c \in Clients : Last(c) /\ clients[c].file = None =>
       /\ clients[c].at \in {"tab", "write", "done"} => ctx.state = "idle"
       /\ clients[c].at = "write" => clients[c].tab = crontab
       /\ clients[c].at = "done" => crontab = {}

Apart == \A c \in Tabular : clients[c].with \cap Tabular = {}
History ==
    {[file |-> clients[c].file, by |-> c] : c \in
       {c \in Clients : /\ Done(c, "schedule")
                        /\ \A d \in Clients : d > c /\ Done(d, "down")
                             => clients[c].file \notin Removes[clients[d].file]}}
Kept ==
    Apart => /\ crontab = History
             /\ \A c \in Clients : clients[c].at = "write" => clients[c].tab = crontab

(* A file as it was at first is one that was never edited.                   *)
Edited ==
    \A f \in Files : \/ files[f] = scene.files[f]
                     \/ f \in DOMAIN scene.edits /\ files[f] = scene.edits[f]
OnceIn(file) == files[file] = scene.files[file] => scene.files[file].mode = "once"
Scheduled ==
    /\ \A job \in crontab : OnceIn(job.file)
    /\ \A c \in Clients :
         /\ \A job \in clients[c].tab : OnceIn(job.file)
         /\ clients[c].cmd = "schedule" /\ clients[c].at # "failed" => OnceIn(clients[c].file)
         /\ clients[c].cron /\ files[clients[c].file] = scene.files[clients[c].file] =>
              clients[c].doc = scene.files[clients[c].file] /\ clients[c].doc.mode = "once"

(* What was posted last stands, also when the update raised on its way: a
   service that runs then has the mode that was asked for.  Common cities were
   somebody's wish.                                                          *)
Standing ==
    /\ ctx.config.common => \E c \in Taken : clients[c].doc.common
    /\ origin # None => clients[origin].cmd # "none"
    /\ origin # None /\ clients[origin].cmd = "up" => origin \in Taken
    /\ origin # None /\ clients[origin].cmd = "up" /\ ~clients[origin].update =>
         /\ clients[origin].at = "done" => Replaced(origin)
         /\ ctx.state = "run" =>
              ctx.config.mode = Or(Decode(clients[origin].doc, "run").config.mode, "continuous")

CommandInv == Typed /\ Numbered /\ Overlapping /\ AloneAtWork /\ Stopping /\ Kept
              /\ Edited /\ Scheduled /\ Standing
-------------------------------------------------------------------------------
LEMMA Numbers ==
    ASSUME Typed, Numbered
    PROVE  /\ Newest \in Nat \ {0} /\ Begun = 1..(Newest - 1) /\ Newest \notin Begun
           /\ Newest \in Clients => clients[Newest].at = "none" /\ clients[Newest].cmd = "none"
           /\ Active \subseteq Begun /\ Begun \subseteq Clients
           /\ Clients \subseteq Nat
<1>1. Cardinality(Begun) \in Nat
  BY FS_CardinalityType DEF Numbered
<1>2. Newest \in Nat \ {0} /\ Begun = 1..(Newest - 1) /\ Newest \notin Begun
  BY <1>1 DEF Numbered, Newest
<1>3. Newest \in Clients => clients[Newest].at = "none" /\ clients[Newest].cmd = "none"
  BY <1>2 DEF Begun, Typed, IsProcess
<1>4. Active \subseteq Begun /\ Begun \subseteq Clients
  BY DEF Active, Begun, Working
<1>5. Clients \subseteq Nat
  BY ClientAssumption
<1> QED
  BY <1>2, <1>3, <1>4, <1>5

(* What a new process is.                                                    *)
IsNew(client) ==
    /\ DOMAIN client = ProcessFields
    /\ client.tab = {} /\ client.cron \in BOOLEAN /\ client.update \in BOOLEAN
    /\ \/ /\ client.cmd = "up" /\ client.at = "post" /\ client.file \in Files
          /\ client.doc = files[client.file]
          /\ client.cron => ~client.update /\ \E job \in crontab : job.file = client.file
       \/ /\ client.cmd = "down" /\ client.at = "post" /\ client.file \in Files \cup {None}
          /\ ~client.cron
       \/ /\ client.cmd = "schedule" /\ client.file \in Files /\ ~client.cron
          /\ client.at \in {"tab", "failed"}
          /\ client.at = "tab" => MaySchedule(client.file)

LEMMA Beginning ==
    ASSUME Typed, Up \/ Down \/ Schedule \/ CronFires
    PROVE  \E client : IsNew(client) /\ Launch(client)
<1>1. IsScene(scene) /\ None \notin Files
  BY ClientAssumption DEF Typed
<1>2. CASE Up
  <2>1. PICK file \in scene.ups, update \in scene.updates :
          Launch([Command("up", file, "post") EXCEPT !.update = update])
    BY <1>2 DEF Up
  <2>2. file \in Files /\ update \in BOOLEAN
    BY <1>1 DEF IsScene
  <2>3. PICK client : client = [Command("up", file, "post") EXCEPT !.update = update]
    OBVIOUS
  <2>4. /\ DOMAIN client = ProcessFields /\ client.cmd = "up" /\ client.at = "post"
        /\ client.file = file /\ client.tab = {} /\ client.cron = FALSE
        /\ client.update = update /\ client.doc = files[file]
    BY <1>1, <2>2, <2>3 DEF ProcessFields, Command, NewClient
  <2>5. IsNew(client)
    BY <2>2, <2>4 DEF IsNew
  <2> QED
    BY <2>1, <2>3, <2>5
<1>3. CASE Down
  <2>1. PICK file \in scene.downs : Launch(Command("down", file, "post"))
    BY <1>3 DEF Down
  <2>2. file \in Files \cup {None}
    BY <1>1 DEF IsScene
  <2>3. PICK client : client = Command("down", file, "post")
    OBVIOUS
  <2>4. /\ DOMAIN client = ProcessFields /\ client.cmd = "down" /\ client.at = "post"
        /\ client.file = file /\ client.tab = {} /\ client.cron = FALSE /\ client.update = FALSE
    BY <2>3 DEF ProcessFields, Command, NewClient
  <2>5. IsNew(client)
    BY <2>2, <2>4 DEF IsNew
  <2> QED
    BY <2>1, <2>3, <2>5
<1>4. CASE Schedule
  <2>1. PICK file \in scene.schedules :
          Launch(Command("schedule", file, IF MaySchedule(file) THEN "tab" ELSE "failed"))
    BY <1>4 DEF Schedule
  <2>2. file \in Files
    BY <1>1 DEF IsScene
  <2>3. PICK at : at = IF MaySchedule(file) THEN "tab" ELSE "failed"
    OBVIOUS
  <2>4. PICK client : client = Command("schedule", file, at)
    OBVIOUS
  <2>5. /\ DOMAIN client = ProcessFields /\ client.cmd = "schedule" /\ client.at = at
        /\ client.file = file /\ client.tab = {} /\ client.cron = FALSE /\ client.update = FALSE
    BY <2>4 DEF ProcessFields, Command, NewClient
  <2>6. IsNew(client)
    BY <2>2, <2>3, <2>5 DEF IsNew
  <2> QED
    BY <2>1, <2>3, <2>4, <2>6
<1>5. CASE CronFires
  <2>1. PICK job \in crontab : Launch([Command("up", job.file, "post") EXCEPT !.cron = TRUE])
    BY <1>5 DEF CronFires
  <2>2. job.file \in Files
    BY DEF Typed, Jobs
  <2>3. PICK client : client = [Command("up", job.file, "post") EXCEPT !.cron = TRUE]
    OBVIOUS
  <2>4. /\ DOMAIN client = ProcessFields /\ client.cmd = "up" /\ client.at = "post"
        /\ client.file = job.file /\ client.tab = {} /\ client.cron = TRUE
        /\ client.update = FALSE /\ client.doc = files[job.file]
    BY <1>1, <2>2, <2>3 DEF ProcessFields, Command, NewClient
  <2>5. IsNew(client)
    BY <2>2, <2>4 DEF IsNew
  <2> QED
    BY <2>1, <2>3, <2>5
<1> QED
  BY <1>2, <1>3, <1>4, <1>5

(* Nothing of a process has changed but where it is at, what it read from    *)
(* the table and with whom it overlaps.                                      *)
Same(c) ==
    /\ clients'[c].cmd = clients[c].cmd /\ clients'[c].file = clients[c].file
    /\ clients'[c].update = clients[c].update /\ clients'[c].cron = clients[c].cron
    /\ clients'[c].doc = clients[c].doc

(* The step with which a process begins, as the invariants see it.           *)
Begins(n, client) ==
    /\ n = Newest /\ n \in Clients
    /\ DOMAIN clients' = Clients
    /\ DOMAIN clients'[n] = ProcessFields
    /\ clients'[n].at = client.at /\ clients'[n].cmd = client.cmd
    /\ clients'[n].file = client.file /\ clients'[n].update = client.update
    /\ clients'[n].cron = client.cron /\ clients'[n].doc = client.doc
    /\ clients'[n].tab = client.tab
    /\ clients'[n].with = IF client.at \in Working THEN Active ELSE {}
    /\ \A c \in Clients \ {n} :
         /\ DOMAIN clients'[c] = ProcessFields
         /\ Same(c) /\ clients'[c].at = clients[c].at /\ clients'[c].tab = clients[c].tab
         /\ clients'[c].with = IF c \in Active /\ client.at \in Working
                               THEN clients[c].with \cup {n} ELSE clients[c].with
    /\ UNCHANGED <<ctx, crontab, files, origin, scene>>

LEMMA Launched ==
    ASSUME Typed, Numbered, NEW client, IsNew(client), Launch(client)
    PROVE  Begins(Newest, client)
<1> DEFINE n == Newest
<1>1. n \in Clients /\ UNCHANGED <<ctx, crontab, files, origin, scene>>
  BY DEF Launch
<1>2. clients' = [c \in Clients |->
         CASE c = n -> [client EXCEPT !.with = IF client.at \in Working THEN Active ELSE {}]
           [] c \in Active /\ client.at \in Working ->
                [clients[c] EXCEPT !.with = @ \cup {n}]
           [] OTHER -> clients[c]]
  BY DEF Launch
<1>3. clients'[n] = [client EXCEPT !.with = IF client.at \in Working THEN Active ELSE {}]
  BY <1>1, <1>2, Numbers DEF Active, Working
<1>4. ASSUME NEW c \in Clients \ {n}
      PROVE  clients'[c] = IF c \in Active /\ client.at \in Working
                           THEN [clients[c] EXCEPT !.with = @ \cup {n}] ELSE clients[c]
  BY <1>2
<1>5. DOMAIN clients' = Clients /\ DOMAIN client = ProcessFields
      /\ \A c \in Clients : DOMAIN clients[c] = ProcessFields
  BY <1>2 DEF Typed, IsProcess, IsNew
<1> HIDE DEF n
<1>6. /\ DOMAIN clients'[n] = ProcessFields
      /\ clients'[n].at = client.at /\ clients'[n].cmd = client.cmd
      /\ clients'[n].file = client.file /\ clients'[n].update = client.update
      /\ clients'[n].cron = client.cron /\ clients'[n].doc = client.doc
      /\ clients'[n].tab = client.tab
      /\ clients'[n].with = IF client.at \in Working THEN Active ELSE {}
  BY <1>3, <1>5 DEF ProcessFields
<1>7. ASSUME NEW c \in Clients \ {n}
      PROVE  /\ DOMAIN clients'[c] = ProcessFields
             /\ Same(c) /\ clients'[c].at = clients[c].at /\ clients'[c].tab = clients[c].tab
             /\ clients'[c].with = IF c \in Active /\ client.at \in Working
                                   THEN clients[c].with \cup {n} ELSE clients[c].with
  <2>1. CASE c \in Active /\ client.at \in Working
    BY <1>4, <1>5, <2>1 DEF ProcessFields, Same
  <2>2. CASE ~(c \in Active /\ client.at \in Working)
    BY <1>4, <1>5, <2>2 DEF Same
  <2> QED
    BY <2>1, <2>2
<1> QED
  BY <1>1, <1>5, <1>6, <1>7 DEF Begins, n

(* A process goes on, or comes to its end.                                   *)
GoesOn(c) ==
    /\ DOMAIN clients' = Clients
    /\ clients[c].at \in Working /\ clients'[c].at \in {"tab", "write", "done", "failed", "raised"}
    /\ clients'[c].at \in Working => clients[c].cmd \in {"down", "schedule"}
    /\ clients'[c].at = "raised" => clients[c].cmd \in {"up", "down"}
    /\ \A d \in Clients :
         /\ DOMAIN clients'[d] = ProcessFields /\ Same(d) /\ clients'[d].with = clients[d].with
         /\ d # c => clients'[d].at = clients[d].at
         /\ d # c => clients'[d].tab = clients[d].tab
    /\ UNCHANGED <<files, scene>>

LEMMA Settling ==
    ASSUME Typed, NEW c \in Clients, NEW at, clients' = Settle(c, at)
    PROVE  /\ DOMAIN clients' = Clients /\ clients'[c].at = at
           /\ \A d \in Clients :
                /\ DOMAIN clients'[d] = ProcessFields /\ Same(d)
                /\ clients'[d].with = clients[d].with /\ clients'[d].tab = clients[d].tab
                /\ d # c => clients'[d].at = clients[d].at
BY DEF Typed, IsProcess, Settle, Same, ProcessFields

LEMMA Going ==
    ASSUME Typed, NEW c \in Clients, ClientStep(c)
    PROVE  GoesOn(c)
<1>1. CASE PostUp(c)
  <2>1. clients' = Settle(c, "done") /\ clients[c].at = "post" /\ UNCHANGED <<files, scene>>
    BY <1>1 DEF PostUp, TakeOver
  <2> QED
    BY <2>1, Settling DEF GoesOn, Working
<1>2. CASE PostDown(c)
  <2>1. clients' = Settle(c, "tab") /\ clients[c].at = "post" /\ UNCHANGED <<files, scene>>
        /\ clients[c].cmd = "down"
    BY <1>2 DEF PostDown, TakeOver
  <2> QED
    BY <2>1, Settling DEF GoesOn, Working
<1>3. CASE PostFails(c)
  <2>1. clients' = Settle(c, "failed") /\ clients[c].at = "post" /\ UNCHANGED <<files, scene>>
    BY <1>3 DEF PostFails
  <2> QED
    BY <2>1, Settling DEF GoesOn, Working
<1>4. CASE ReadTab(c)
  <2>1. clients' = [clients EXCEPT ![c] = [@ EXCEPT !.at = "write", !.tab = crontab]]
        /\ clients[c].at = "tab" /\ UNCHANGED <<files, scene>>
    BY <1>4 DEF ReadTab
  <2>2. clients[c].cmd \in {"down", "schedule"}
    BY <2>1 DEF Typed, IsProcess
  <2> QED
    BY <2>1, <2>2 DEF GoesOn, Working, Typed, IsProcess, Same, ProcessFields
<1>5. CASE WriteTab(c)
  <2>1. clients' = Settle(c, "done") /\ clients[c].at = "write" /\ UNCHANGED <<files, scene>>
    BY <1>5 DEF WriteTab
  <2> QED
    BY <2>1, Settling DEF GoesOn, Working
<1>6. CASE BadTimes(c)
  <2>1. clients' = Settle(c, "failed") /\ clients[c].at = "write" /\ UNCHANGED <<files, scene>>
    BY <1>6 DEF BadTimes
  <2> QED
    BY <2>1, Settling DEF GoesOn, Working
<1>7. CASE PostRaises(c)
  <2>1. clients' = Settle(c, "raised") /\ clients[c].at = "post" /\ UNCHANGED <<files, scene>>
    BY <1>7 DEF PostRaises
  <2>2. clients[c].cmd \in {"up", "down"}
    BY <2>1 DEF Typed, IsProcess
  <2> QED
    BY <2>1, <2>2, Settling DEF GoesOn, Working
<1> QED
  BY <1>1, <1>2, <1>3, <1>4, <1>5, <1>6, <1>7 DEF ClientStep

-------------------------------------------------------------------------------
LEMMA WhoBegan ==
    ASSUME Typed, Numbered, NEW client, IsNew(client), NEW n, Begins(n, client)
    PROVE  /\ Begun' = Begun \cup {n} /\ n \notin Begun /\ n \in Nat /\ Newest' = n + 1
           /\ Begun = 1..(n - 1) /\ Numbered'
           /\ Active' = IF client.at \in Working THEN Active \cup {n} ELSE Active
           /\ Tabular' = IF client.cmd = "up" THEN Tabular ELSE Tabular \cup {n}
           /\ Active \subseteq Begun /\ Tabular \subseteq Begun
<1>1. n = Newest /\ n \in Clients /\ n \notin Begun /\ n \in Nat /\ Begun = 1..(n - 1)
  BY Numbers DEF Begins
<1>2. Begun' = Begun \cup {n}
  BY <1>1 DEF Begun, Begins, IsNew
<1>3. /\ IsFiniteSet(Begun') /\ Cardinality(Begun') = Cardinality(Begun) + 1
      /\ Cardinality(Begun) \in Nat
  BY <1>1, <1>2, FS_AddElement, FS_CardinalityType DEF Numbered
<1>4. Newest' = n + 1
  BY <1>1, <1>3 DEF Newest
<1>5. Begun' = 1..n /\ n = Cardinality(Begun')
  <2>1. n = Cardinality(Begun) + 1
    BY <1>1 DEF Newest
  <2>2. 1..n = (1..(n - 1)) \cup {n}
    BY <1>1, <1>3, <2>1
  <2> QED
    BY <1>1, <1>2, <1>3, <2>1, <2>2
<1>6. Numbered'
  BY <1>3, <1>5 DEF Numbered
<1>7. Active' = IF client.at \in Working THEN Active \cup {n} ELSE Active
  BY <1>1 DEF Active, Begins, Begun, Working
<1>8. Tabular' = IF client.cmd = "up" THEN Tabular ELSE Tabular \cup {n}
  <2>1. \A c \in Clients \ {n} : clients'[c].cmd = clients[c].cmd
    BY DEF Begins, Same
  <2>2. clients[n].cmd = "none" /\ clients'[n].cmd = client.cmd
    BY <1>1, Numbers DEF Begins
  <2>3. client.cmd = "up" \/ client.cmd \in {"down", "schedule"}
    BY DEF IsNew
  <2>4. Tabular' = {c \in Clients : clients'[c].cmd \in {"down", "schedule"}}
    BY DEF Tabular
  <2> QED
    BY <1>1, <2>1, <2>2, <2>3, <2>4 DEF Tabular
<1>9. Active \subseteq Begun /\ Tabular \subseteq Begun
  BY DEF Active, Begun, Working, Tabular, Typed, IsProcess
<1> QED
  BY <1>1, <1>2, <1>4, <1>6, <1>7, <1>8, <1>9

LEMMA WhoGoesOn ==
    ASSUME Typed, Numbered, NEW c \in Clients, GoesOn(c)
    PROVE  /\ Begun' = Begun /\ Newest' = Newest /\ Numbered' /\ Tabular' = Tabular
           /\ Active' \subseteq Active /\ c \in Active /\ Active \ {c} \subseteq Active'
           /\ Active \subseteq Begun
<1>1. Begun' = Begun
  BY DEF Begun, GoesOn, Working
<1>2. Newest' = Newest /\ Numbered'
  BY <1>1 DEF Newest, Numbered
<1>3. Tabular' = Tabular
  BY DEF Tabular, GoesOn, Same
<1>4. Active' \subseteq Active /\ c \in Active /\ Active \ {c} \subseteq Active'
  BY DEF Active, GoesOn
<1>5. Active \subseteq Begun
  BY DEF Active, Begun, Working
<1> QED
  BY <1>1, <1>2, <1>3, <1>4, <1>5

LEMMA BeginningOverlaps ==
    ASSUME Typed, Numbered, Overlapping, AloneAtWork,
           NEW client, IsNew(client), NEW n, Begins(n, client)
    PROVE  Overlapping' /\ AloneAtWork'
<1>a. /\ Begun' = Begun \cup {n} /\ n \notin Begun /\ n \in Nat /\ Newest' = n + 1
      /\ Begun = 1..(n - 1) /\ Active \subseteq Begun
      /\ Active' = IF client.at \in Working THEN Active \cup {n} ELSE Active
  BY WhoBegan
<1>1. ASSUME NEW c \in Active', NEW d \in Begun' \ {c}
      PROVE  \/ d \in clients'[c].with
             \/ d \notin Active' /\ d < c
             \/ clients'[d].cmd = "schedule" /\ clients'[d].at = "failed"
  <2>1. CASE c = n
    <3>1. client.at \in Working /\ d \in Begun /\ d < n /\ d # n
      BY <1>a, <1>1, <2>1
    <3>2. clients'[n].with = Active /\ (d \in Active' <=> d \in Active)
      BY <1>a, <3>1 DEF Begins
    <3> QED
      BY <2>1, <3>1, <3>2
  <2>2. CASE c # n /\ d = n
    <3>1. c \in Active /\ c \in Clients
      BY <1>a, <2>2 DEF Active
    <3>2. CASE client.at \in Working
      BY <2>2, <3>1, <3>2 DEF Begins
    <3>3. CASE client.at \notin Working
      BY <2>2, <3>3 DEF Begins, IsNew, Working
    <3> QED
      BY <3>2, <3>3
  <2>3. CASE c # n /\ d # n
    <3>1. c \in Active /\ c \in Clients \ {n} /\ d \in Begun \ {c} /\ d \in Clients \ {n}
      BY <1>a, <1>1, <2>3 DEF Active, Begun
    <3>2. \/ d \in clients[c].with
          \/ d \notin Active /\ d < c
          \/ clients[d].cmd = "schedule" /\ clients[d].at = "failed"
      BY <3>1 DEF Overlapping
    <3>3. clients'[d].cmd = clients[d].cmd /\ clients'[d].at = clients[d].at
      BY <3>1 DEF Begins, Same
    <3>4. clients[c].with \subseteq clients'[c].with
      BY <3>1 DEF Begins
    <3> QED
      BY <1>a, <2>3, <3>2, <3>3, <3>4
  <2> QED
    BY <2>1, <2>2, <2>3
<1>2. ASSUME NEW c \in Clients, Last(c)' PROVE Active' \subseteq {c}
  <2>1. c = n
    BY <1>a, <1>2, ClientAssumption DEF Last
  <2>2. client.cmd = "down" /\ client.at = "post" /\ clients'[n].with = Active
    BY <1>2, <2>1 DEF Last, Begins, IsNew, Working
  <2> QED
    BY <1>a, <1>2, <2>1, <2>2 DEF Last
<1> QED
  BY <1>1, <1>2 DEF Overlapping, AloneAtWork

LEMMA GoingOverlaps ==
    ASSUME Typed, Numbered, Overlapping, AloneAtWork, NEW c \in Clients, GoesOn(c)
    PROVE  Overlapping' /\ AloneAtWork'
<1>a. /\ Begun' = Begun /\ Newest' = Newest /\ Active' \subseteq Active
  BY WhoGoesOn
<1>1. ASSUME NEW a \in Active', NEW d \in Begun' \ {a}
      PROVE  \/ d \in clients'[a].with
             \/ d \notin Active' /\ d < a
             \/ clients'[d].cmd = "schedule" /\ clients'[d].at = "failed"
  <2>1. a \in Active /\ d \in Begun \ {a} /\ a \in Clients /\ d \in Clients
    BY <1>a, <1>1 DEF Active, Begun
  <2>2. \/ d \in clients[a].with
        \/ d \notin Active /\ d < a
        \/ clients[d].cmd = "schedule" /\ clients[d].at = "failed"
    BY <2>1 DEF Overlapping
  <2>3. /\ clients'[a].with = clients[a].with /\ clients'[d].cmd = clients[d].cmd
        /\ clients[d].at = "failed" => clients'[d].at = "failed"
    BY <2>1 DEF GoesOn, Same, Working
  <2> QED
    BY <1>a, <2>2, <2>3
<1>2. ASSUME NEW d \in Clients, Last(d)' PROVE Active' \subseteq {d}
  <2>1. Last(d)
    BY <1>a, <1>2 DEF Last, GoesOn, Same
  <2> QED
    BY <1>a, <2>1 DEF AloneAtWork
<1> QED
  BY <1>1, <1>2 DEF Overlapping, AloneAtWork

-------------------------------------------------------------------------------
(* The context after a post.                                                 *)
IsContext(context) ==
    /\ DOMAIN context = {"state", "config"}
    /\ DOMAIN context.config = {"mode", "repeats", "common", "vpns", "groups", "sinks"}
    /\ context.state \in {"idle", "run"} /\ context.config.mode \in {"continuous", "once"}
    /\ context.config.common \in BOOLEAN
    /\ context.config.sinks \in {<<>>} \cup [{"sqlite"} -> Databases]

(* What the document of an update is compared with.                           *)
Before(update) == IF update THEN ctx ELSE Cleaned

LEMMA Cleaning ==
    ASSUME Typed, NEW update \in BOOLEAN
    PROVE  /\ IsContext(Before(update))
           /\ Before(update).config.sinks = ctx.config.sinks
           /\ Before(update).config.common = ctx.config.common
           /\ ~update => /\ Before(update).state = "idle"
                         /\ Before(update).config.mode = "continuous"
                         /\ Before(update).config.repeats = 1
                         /\ Before(update).config.groups = {}
<1>1. CASE update
  BY <1>1 DEF Typed, IsContext, Before
<1>2. CASE ~update
  <2>1. Before(update).state = "idle" /\ DOMAIN Before(update) = {"state", "config"}
        /\ Before(update).config = DiffConfig(ctx.config, DefaultContext.config)
    BY <1>2, ClientAssumption DEF Before, Cleaned, DiffContext, DefaultContext, Or
  <2>2. /\ DefaultContext.config # None
        /\ DefaultContext.config.mode = "continuous" /\ DefaultContext.config.repeats = 1
        /\ DefaultContext.config.common = FALSE
        /\ DefaultContext.config.groups = None /\ DefaultContext.config.sinks = None
    BY ClientAssumption DEF DefaultContext
  <2> QED
    BY <1>2, <2>1, <2>2, ClientAssumption DEF DiffConfig, Or, IsContext, Typed
<1> QED
  BY <1>1, <1>2

LEMMA PostedUp ==
    ASSUME Typed, NEW c \in Clients, clients[c].cmd = "up", Accepts(clients[c].doc),
           ctx' = Updated(Decode(clients[c].doc, "run"), clients[c].update)
    PROVE  LET doc == clients[c].doc
               new == Decode(doc, "run").config
               old == Before(clients[c].update).config
           IN /\ IsContext(ctx') /\ ctx'.state = "run"
              /\ ctx'.config.mode = Or(new.mode, old.mode)
              /\ ctx'.config.repeats = Or(new.repeats, old.repeats)
              /\ ctx'.config.groups = Or(new.groups, {}) /\ ctx'.config.sinks = new.sinks
              /\ new.vpns # None => ctx'.config.vpns = new.vpns
              /\ new.mode = doc.mode /\ new.common = doc.common
              /\ ctx'.config.common = (doc.common \/ ctx.config.common)
<1> DEFINE doc == clients[c].doc
           new == Decode(doc, "run").config
           old == Before(clients[c].update)
<1>1. /\ clients[c].update \in BOOLEAN /\ IsDocument(doc) /\ Accepts(doc)
  BY DEF Typed, IsProcess
<1>2. ctx' = DiffContext(old, Decode(doc, "run"))
  BY DEF Updated, Before
<1>3. /\ IsContext(old) /\ old.config.sinks = ctx.config.sinks
      /\ old.config.common = ctx.config.common
  BY <1>1, Cleaning
<1>4. /\ Decode(doc, "run").state = "run" /\ new.mode = doc.mode /\ new.common = doc.common
      /\ new.sinks = IF doc.sinks = None THEN <<>> ELSE doc.sinks
  BY DEF Decode
<1>5. new # None
  BY <1>1 DEF IsDocument
<1>6. new.sinks # None /\ new.sinks \in {<<>>} \cup [{"sqlite"} -> Databases]
  BY <1>1, <1>4, ClientAssumption DEF IsDocument
<1>7. doc.mode \in {None, "continuous", "once"} /\ doc.common \in BOOLEAN
  BY <1>1 DEF IsDocument
<1> HIDE DEF new, old, doc
<1>8. /\ ctx'.state = "run" /\ DOMAIN ctx' = {"state", "config"}
      /\ ctx'.config = DiffConfig(old.config, new)
  BY <1>2, <1>4, ClientAssumption DEF DiffContext, Or, new
<1>9. /\ DOMAIN ctx'.config = {"mode", "repeats", "common", "vpns", "groups", "sinks"}
      /\ ctx'.config.mode = Or(new.mode, old.config.mode)
      /\ ctx'.config.repeats = Or(new.repeats, old.config.repeats)
      /\ ctx'.config.common = (new.common \/ old.config.common)
      /\ ctx'.config.vpns = Or(new.vpns, old.config.vpns)
      /\ ctx'.config.groups = Or(new.groups, {})
      /\ ctx'.config.sinks = Or(new.sinks, old.config.sinks)
  BY <1>5, <1>8 DEF DiffConfig
<1>10. ctx'.config.sinks = new.sinks /\ (new.vpns # None => ctx'.config.vpns = new.vpns)
  BY <1>6, <1>9 DEF Or
<1>11. ctx'.config.mode \in {"continuous", "once"}
  BY <1>3, <1>4, <1>7, <1>9 DEF Or, IsContext
<1>12. ctx'.config.common \in BOOLEAN
  BY <1>3, <1>4, <1>7, <1>9 DEF IsContext
<1>13. IsContext(ctx')
  BY <1>6, <1>8, <1>9, <1>10, <1>11, <1>12 DEF IsContext
<1> QED
  BY <1>3, <1>4, <1>8, <1>9, <1>10, <1>13 DEF new, old, doc

(* How far an update that raised has come.                                   *)
LEMMA Raised ==
    ASSUME Typed, NEW c \in Clients, PostRaises(c)
    PROVE  /\ clients[c].at = "post" /\ clients' = Settle(c, "raised") /\ origin' = c
           /\ UNCHANGED <<clock, stored, fileVars, faults, crontab, files, scene>>
           /\ \/ /\ IsContext(ctx') /\ ctx'.state = "idle"
                 /\ ctx'.config.sinks = ctx.config.sinks
                 /\ ctx'.config.common = ctx.config.common
                 /\ UNCHANGED <<plugins, backup, reports>>
              \/ /\ clients[c].cmd = "up" /\ Accepts(clients[c].doc)
                 /\ ctx' = Updated(Decode(clients[c].doc, "run"), clients[c].update)
                 /\ \/ UNCHANGED <<plugins, backup, reports>>
                    \/ ChangeSinks(Sqlite(ctx.config), Sqlite(ctx'.config))
<1>1. Before(FALSE) = Cleaned
  BY DEF Before
<1>2. /\ IsContext(Cleaned) /\ Cleaned.state = "idle"
      /\ Cleaned.config.sinks = ctx.config.sinks /\ Cleaned.config.common = ctx.config.common
  BY <1>1, Cleaning
<1> QED
  BY <1>2 DEF PostRaises

LEMMA PostedDown ==
    ASSUME Typed, NEW c \in Clients, PostDown(c)
    PROVE  /\ IsContext(ctx') /\ ctx'.state = "idle"
           /\ ctx'.config.sinks = ctx.config.sinks /\ ctx'.config.common = ctx.config.common
<1> DEFINE old == Before(clients[c].update)
           asked == [state |-> "idle", config |-> None]
<1>1. clients[c].update \in BOOLEAN
  BY DEF Typed, IsProcess
<1>2. ctx' = DiffContext(old, asked)
  BY DEF PostDown, TakeOver, Updated, Before
<1>3. /\ IsContext(old) /\ old.config.sinks = ctx.config.sinks
      /\ old.config.common = ctx.config.common
  BY <1>1, Cleaning
<1> HIDE DEF old
<1>4. ctx'.state = "idle" /\ ctx'.config = old.config /\ DOMAIN ctx' = {"state", "config"}
  BY <1>2, ClientAssumption DEF DiffContext, DiffConfig, Or
<1> QED
  BY <1>3, <1>4 DEF IsContext

-------------------------------------------------------------------------------
(* Every step of Next, as the commands see it.                               *)
CommandStep ==
    \/ \E client, n : IsNew(client) /\ Begins(n, client)
    \/ \E c \in Clients : ClientStep(c)
    \/ Edit \/ Idle
    \/ UNCHANGED clientVars

(* What is told of the service, when a task has ended.                        *)
LEMMA IdleFrame ==
    ASSUME Typed, Idle
    PROVE  /\ UNCHANGED <<crontab, files, clients, origin, scene>>
           /\ ctx'.state = "idle" /\ ctx'.config = ctx.config
           /\ DOMAIN ctx' = {"state", "config"}
BY DEF Typed, Idle

LEMMA StepsOfCommands ==
    ASSUME Typed, Numbered, [Next]_vars
    PROVE  CommandStep
<1>1. CASE Up \/ Down \/ Schedule \/ CronFires
  <2>1. PICK client : IsNew(client) /\ Launch(client)
    BY <1>1, Beginning
  <2> QED
    BY <2>1, Launched DEF CommandStep
<1>2. CASE \E r \in Requests : AskReport(r)
  BY <1>2 DEF AskReport, CommandStep
<1> QED
  BY <1>1, <1>2 DEF Next, CommandStep, vars, StoreRun

LEMMA TypedKept ==
    ASSUME Typed, Numbered, CommandStep
    PROVE  Typed'
<1>a. /\ scene \in Scenes /\ DOMAIN clients = Clients /\ crontab \subseteq Jobs
      /\ DOMAIN files = Files /\ (\A f \in Files : IsDocument(files[f]))
      /\ IsContext(ctx) /\ origin \in Clients \cup {None}
      /\ \A c \in Clients : IsProcess(c)
  BY DEF Typed, IsContext
<1>b. IsContext(ctx)' => Typed' \/ ~(/\ scene' \in Scenes /\ DOMAIN clients' = Clients
                                  /\ crontab' \subseteq Jobs /\ DOMAIN files' = Files
                                  /\ (\A f \in Files : IsDocument(files[f])')
                                  /\ origin' \in Clients \cup {None}
                                  /\ \A c \in Clients : IsProcess(c)')
  BY DEF Typed, IsContext
<1>1. ASSUME NEW client, IsNew(client), NEW n, Begins(n, client) PROVE Typed'
  <2>1. n \in Clients /\ n \notin Begun /\ n \in Nat /\ Active \subseteq Begun /\ Begun \subseteq Clients
    BY <1>1, WhoBegan, Numbers DEF Begins
  <2>2. IsProcess(n)'
    <3>1. /\ DOMAIN clients'[n] = ProcessFields
          /\ clients'[n].at = client.at /\ clients'[n].cmd = client.cmd
          /\ clients'[n].file = client.file /\ clients'[n].update = client.update
          /\ clients'[n].cron = client.cron /\ clients'[n].doc = client.doc
          /\ clients'[n].tab = client.tab /\ clients'[n].with \subseteq Active
      BY <1>1 DEF Begins
    <3>2. clients'[n].with \subseteq Clients \ {n}
      BY <2>1, <3>1
    <3>3. client.cmd = "up" => IsDocument(client.doc)
      BY <1>a, <1>1 DEF IsNew
    <3> QED
      BY <1>1, <3>1, <3>2, <3>3 DEF IsProcess, IsNew, Working, Settled
  <2>3. ASSUME NEW c \in Clients \ {n} PROVE IsProcess(c)'
    <3>1. IsProcess(c)
      BY <1>a
    <3>2. /\ DOMAIN clients'[c] = ProcessFields /\ clients'[c].cmd = clients[c].cmd
          /\ clients'[c].file = clients[c].file /\ clients'[c].update = clients[c].update
          /\ clients'[c].cron = clients[c].cron /\ clients'[c].doc = clients[c].doc
          /\ clients'[c].at = clients[c].at /\ clients'[c].tab = clients[c].tab
          /\ clients'[c].with \subseteq clients[c].with \cup {n}
      BY <1>1, <2>3 DEF Begins, Same
    <3> QED
      BY <2>1, <3>1, <3>2 DEF IsProcess
  <2>4. UNCHANGED <<ctx, crontab, files, origin, scene>> /\ DOMAIN clients' = Clients
    BY <1>1 DEF Begins
  <2> QED
    BY <1>a, <1>b, <2>2, <2>3, <2>4
<1>2. ASSUME NEW c \in Clients, ClientStep(c) PROVE Typed'
  <2>1. GoesOn(c)
    BY <1>2, Going
  <2>2. ASSUME NEW d \in Clients \ {c} PROVE IsProcess(d)'
    BY <1>a, <2>1 DEF GoesOn, Same, IsProcess
  <2>3. clients'[c].tab \subseteq Jobs
    <3>1. CASE ReadTab(c)
      <4>1. clients'[c] = [clients[c] EXCEPT !.at = "write", !.tab = crontab]
        BY <1>a, <3>1 DEF ReadTab
      <4>2. DOMAIN clients[c] = ProcessFields
        BY <1>a DEF IsProcess
      <4> QED
        BY <1>a, <4>1, <4>2 DEF ProcessFields
    <3>2. CASE ~ReadTab(c)
      <4>1. \E at : clients' = Settle(c, at)
        BY <1>2, <3>2
           DEF ClientStep, PostUp, PostDown, PostRaises, PostFails, WriteTab, BadTimes, TakeOver
      <4>2. clients'[c].tab = clients[c].tab
        BY <4>1, Settling
      <4> QED
        BY <1>a, <4>2 DEF IsProcess
    <3> QED
      BY <3>1, <3>2
  <2>4. IsProcess(c)'
    <3>1. IsProcess(c)
      BY <1>a
    <3>2. /\ DOMAIN clients'[c] = ProcessFields /\ clients'[c].cmd = clients[c].cmd
          /\ clients'[c].file = clients[c].file /\ clients'[c].update = clients[c].update
          /\ clients'[c].cron = clients[c].cron /\ clients'[c].doc = clients[c].doc
          /\ clients'[c].with = clients[c].with
          /\ clients[c].at \in Working
          /\ clients'[c].at \in {"tab", "write", "done", "failed", "raised"}
          /\ clients'[c].at \in Working => clients[c].cmd \in {"down", "schedule"}
          /\ clients'[c].at = "raised" => clients[c].cmd \in {"up", "down"}
      BY <2>1 DEF GoesOn, Same
    <3> QED
      BY <2>3, <3>1, <3>2 DEF IsProcess, Working, Settled
  <2>5. IsContext(ctx)' /\ origin' \in Clients \cup {None}
    <3>1. CASE PostUp(c)
      BY <3>1, PostedUp DEF PostUp, TakeOver
    <3>2. CASE PostDown(c)
      BY <3>2, PostedDown DEF PostDown, TakeOver
    <3>3. CASE UNCHANGED <<ctx, origin>>
      BY <1>a, <3>3 DEF IsContext
    <3>4. CASE PostRaises(c)
      BY <3>4, Raised, PostedUp
    <3> QED
      BY <1>2, <3>1, <3>2, <3>3, <3>4 DEF ClientStep, PostFails, ReadTab, WriteTab, BadTimes
  <2>6. crontab' \subseteq Jobs
    <3>1. CASE WriteTab(c)
      <4>1. \/ crontab' \subseteq clients[c].tab
            \/ /\ clients[c].cmd = "schedule"
               /\ crontab' = clients[c].tab \cup {[file |-> clients[c].file, by |-> c]}
        BY <1>a, <3>1 DEF WriteTab, IsProcess
      <4> QED
        BY <1>a, <4>1 DEF IsProcess, Jobs
    <3>2. CASE ~WriteTab(c)
      BY <1>2, <1>a, <3>2
         DEF ClientStep, PostUp, PostDown, PostRaises, PostFails, ReadTab, BadTimes, TakeOver
    <3> QED
      BY <3>1, <3>2
  <2> QED
    BY <1>a, <1>b, <2>1, <2>2, <2>4, <2>5, <2>6 DEF GoesOn
<1>3. ASSUME Edit PROVE Typed'
  <2>1. PICK file \in DOMAIN scene.edits :
          /\ files' = [files EXCEPT ![file] = scene.edits[file]]
          /\ UNCHANGED <<ctx, crontab, clients, origin, scene>>
    BY <1>3 DEF Edit
  <2>2. IsScene(scene)
    BY <1>a, ClientAssumption
  <2>3. DOMAIN files' = Files /\ \A f \in Files : IsDocument(files'[f])
    BY <1>a, <2>1, <2>2 DEF IsScene
  <2>4. \A f \in Files : IsDocument(files[f])'
    BY <2>3
  <2>5. \A c \in Clients : IsProcess(c)'
    BY <1>a, <2>1 DEF IsProcess
  <2>6. IsContext(ctx)'
    BY <1>a, <2>1 DEF IsContext
  <2> QED
    BY <1>a, <1>b, <2>1, <2>3, <2>4, <2>5, <2>6
<1>4. ASSUME UNCHANGED clientVars PROVE Typed'
  BY <1>4 DEF clientVars, Typed, IsProcess, IsDocument
<1>5. ASSUME Idle PROVE Typed'
  <2>1. IsContext(ctx)'
    BY <1>a, <1>5, IdleFrame DEF IsContext
  <2>2. (\A f \in Files : IsDocument(files[f])') /\ \A c \in Clients : IsProcess(c)'
    BY <1>a, <1>5, IdleFrame DEF IsProcess
  <2> QED
    BY <1>a, <1>b, <1>5, <2>1, <2>2, IdleFrame
<1> QED
  BY <1>1, <1>2, <1>3, <1>4, <1>5 DEF CommandStep

LEMMA EditFrame ==
    ASSUME Typed, Edit
    PROVE  /\ UNCHANGED <<ctx, crontab, clients, origin, scene>> /\ IsScene(scene)
           /\ \E file \in Files : /\ file \in DOMAIN scene.edits
                                  /\ files[file] # scene.edits[file]
                                  /\ files'[file] = scene.edits[file]
                                  /\ \A f \in Files \ {file} : files'[f] = files[f]
<1>1. IsScene(scene)
  BY ClientAssumption DEF Typed
<1>2. PICK file \in DOMAIN scene.edits :
        /\ files[file] # scene.edits[file]
        /\ files' = [files EXCEPT ![file] = scene.edits[file]]
        /\ UNCHANGED <<ctx, crontab, clients, origin, scene>>
  BY DEF Edit
<1> QED
  BY <1>1, <1>2 DEF IsScene, Typed

LEMMA NumberedKept ==
    ASSUME Typed, Numbered, CommandStep
    PROVE  Numbered'
<1>1. ASSUME UNCHANGED clients PROVE Numbered'
  BY <1>1 DEF Numbered, Begun
<1> QED
  BY <1>1, WhoBegan, WhoGoesOn, Going, EditFrame, IdleFrame DEF CommandStep, clientVars

LEMMA OverlapKept ==
    ASSUME Typed, Numbered, Overlapping, AloneAtWork, CommandStep
    PROVE  Overlapping' /\ AloneAtWork'
<1>1. ASSUME UNCHANGED clients PROVE Overlapping' /\ AloneAtWork'
  BY <1>1 DEF Overlapping, AloneAtWork, Active, Begun, Last, Newest
<1> QED
  BY <1>1, BeginningOverlaps, GoingOverlaps, Going, EditFrame, IdleFrame
     DEF CommandStep, clientVars

LEMMA EditedKept ==
    ASSUME Typed, Numbered, Edited, CommandStep
    PROVE  Edited'
<1>1. ASSUME UNCHANGED <<files, scene>> PROVE Edited'
  BY <1>1 DEF Edited
<1>2. CASE Edit
  BY <1>2, EditFrame DEF Edited
<1> QED
  BY <1>1, <1>2, Going, IdleFrame DEF CommandStep, clientVars, Begins, GoesOn

(* Alone, a "down" without a file idles the service and empties the table.   *)
LEMMA StoppingKept ==
    ASSUME Typed, Numbered, Overlapping, AloneAtWork, Stopping, CommandStep
    PROVE  Stopping'
<1>1. ASSUME NEW client, IsNew(client), NEW n, Begins(n, client) PROVE Stopping'
  <2> SUFFICES ASSUME NEW c \in Clients, Last(c)', clients'[c].file = None
               PROVE  clients'[c].at \notin {"tab", "write", "done"}
    BY DEF Stopping
  <2>1. Newest' = n + 1 /\ n \in Nat
    BY <1>1, WhoBegan
  <2>2. c = n
    BY <2>1, ClientAssumption DEF Last
  <2>3. client.cmd = "down"
    BY <1>1, <2>2 DEF Last, Begins
  <2> QED
    BY <1>1, <2>2, <2>3 DEF Begins, IsNew
<1>2. ASSUME NEW c \in Clients, ClientStep(c) PROVE Stopping'
  <2>1. GoesOn(c)
    BY <1>2, Going
  <2>2. SUFFICES ASSUME NEW d \in Clients, Last(d)', clients'[d].file = None
        PROVE  /\ clients'[d].at \in {"tab", "write", "done"} => ctx'.state = "idle"
               /\ clients'[d].at = "write" => clients'[d].tab = crontab'
               /\ clients'[d].at = "done" => crontab' = {}
    BY DEF Stopping
  <2>3. Last(d) /\ clients[d].file = None /\ c \in Active
    BY <2>1, <2>2, WhoGoesOn DEF Last, GoesOn, Same
  <2>4. d = c
    BY <2>3 DEF AloneAtWork
  <2>5. /\ clients[c].cmd = "down" /\ clients[c].file = None
        /\ clients[c].at \in {"tab", "write"} => ctx.state = "idle"
        /\ clients[c].at = "write" => clients[c].tab = crontab
    BY <2>3, <2>4 DEF Last, Stopping
  <2>6. CASE PostDown(c)
    <3>1. clients'[c].at = "tab" /\ ctx'.state = "idle"
      BY <2>6, PostedDown, Settling DEF PostDown, TakeOver
    <3> QED
      BY <2>4, <3>1
  <2>7. CASE PostFails(c)
    <3>1. clients'[c].at = "failed"
      BY <2>7, Settling DEF PostFails
    <3> QED
      BY <2>4, <3>1
  <2>8. CASE ReadTab(c)
    <3>1. /\ clients'[c] = [clients[c] EXCEPT !.at = "write", !.tab = crontab]
          /\ DOMAIN clients[c] = ProcessFields /\ clients[c].at = "tab"
          /\ ctx' = ctx /\ crontab' = crontab
      BY <2>8 DEF ReadTab, Typed, IsProcess
    <3>2. clients'[c].at = "write" /\ clients'[c].tab = crontab
      BY <3>1 DEF ProcessFields
    <3> QED
      BY <2>4, <2>5, <3>1, <3>2
  <2>9. CASE WriteTab(c)
    <3>1. clients'[c].at = "done" /\ ctx' = ctx /\ clients[c].at = "write"
          /\ crontab' = {job \in clients[c].tab : ~Removed(c, job)}
      BY <2>5, <2>9, Settling DEF WriteTab
    <3>2. \A job \in clients[c].tab : Removed(c, job)
      BY <2>5, ClientAssumption DEF Removed, Typed, IsProcess, Jobs
    <3>3. crontab' = {}
      BY <3>1, <3>2
    <3> QED
      BY <2>4, <2>5, <3>1, <3>3
  <2>10. CASE PostRaises(c)
    <3>1. clients'[c].at = "raised"
      BY <2>10, Settling DEF PostRaises
    <3> QED
      BY <2>4, <3>1
  <2> QED
    BY <1>2, <2>5, <2>6, <2>7, <2>8, <2>9, <2>10 DEF ClientStep, PostUp, BadTimes
<1>3. ASSUME UNCHANGED <<crontab, clients>>, ctx' = ctx \/ ctx'.state = "idle" PROVE Stopping'
  BY <1>3 DEF Stopping, Last, Newest, Begun
<1> QED
  BY <1>1, <1>2, <1>3, EditFrame, IdleFrame DEF CommandStep, clientVars

-------------------------------------------------------------------------------
(* The cron table is the history of the commands that wrote it.              *)
Lasts(c) == /\ Done(c, "schedule")
            /\ \A d \in Clients : d > c /\ Done(d, "down")
                 => clients[c].file \notin Removes[clients[d].file]
JobOf(c) == [file |-> clients[c].file, by |-> c]

LEMMA InHistory ==
    \A job : job \in History <=> \E c \in Clients : Lasts(c) /\ job = JobOf(c)
BY DEF History, Lasts, JobOf

LEMMA SameHistory ==
    ASSUME \A c \in Clients : /\ Done(c, "schedule")' <=> Done(c, "schedule")
                              /\ Done(c, "down")' <=> Done(c, "down")
                              /\ Done(c, "schedule") \/ Done(c, "down") =>
                                   clients'[c].file = clients[c].file
    PROVE  History' = History
<1>1. ASSUME NEW c \in Clients PROVE Lasts(c)' <=> Lasts(c)
  BY DEF Lasts
<1>2. \A c \in Clients : Lasts(c) => JobOf(c)' = JobOf(c)
  BY DEF Lasts, JobOf
<1>3. \A job : job \in History' <=> \E c \in Clients : Lasts(c)' /\ job = JobOf(c)'
  BY DEF History, Lasts, JobOf
<1> QED
  BY <1>1, <1>2, <1>3, InHistory

LEMMA ApartBefore ==
    ASSUME Typed, Numbered, CommandStep, Apart'
    PROVE  Apart
<1>1. ASSUME NEW client, IsNew(client), NEW n, Begins(n, client) PROVE Apart
  <2>1. /\ Tabular \subseteq Tabular' /\ n \notin Tabular /\ Tabular \subseteq Clients
    BY <1>1, WhoBegan DEF Tabular
  <2>2. \A c \in Tabular : clients[c].with \subseteq clients'[c].with
    BY <1>1, <2>1 DEF Begins
  <2> QED
    BY <2>1, <2>2 DEF Apart
<1>2. ASSUME NEW c \in Clients, ClientStep(c) PROVE Apart
  <2>1. GoesOn(c)
    BY <1>2, Going
  <2>2. Tabular' = Tabular
    BY <2>1, WhoGoesOn
  <2>3. \A d \in Tabular : clients'[d].with = clients[d].with
    BY <2>1 DEF GoesOn, Tabular
  <2> QED
    BY <2>2, <2>3 DEF Apart
<1>3. ASSUME UNCHANGED clients PROVE Apart
  BY <1>3 DEF Apart, Tabular
<1> QED
  BY <1>1, <1>2, <1>3, EditFrame, IdleFrame DEF CommandStep, clientVars

(* While commands do not overlap, the one that writes is the last of them.   *)
LEMMA WritesLast ==
    ASSUME Typed, Numbered, Overlapping, Apart, NEW c \in Clients, clients[c].at = "write"
    PROVE  /\ \A d \in Tabular \ {c} : d \notin Active
           /\ \A d \in Clients \ {c} : Done(d, "schedule") \/ Done(d, "down") => d < c
<1>1. c \in Active /\ c \in Tabular
  BY DEF Active, Working, Tabular, Typed, IsProcess
<1>2. ASSUME NEW d \in Tabular \ {c} PROVE d \notin clients[c].with
  BY <1>1 DEF Apart
<1>3. Tabular \subseteq Begun
  BY DEF Tabular, Begun, Typed, IsProcess
<1>4. ASSUME NEW d \in Tabular \ {c}
      PROVE  d \notin Active /\ (d < c \/ clients[d].at = "failed")
  <2>1. d \in Begun \ {c}
    BY <1>3
  <2>2. \/ d \notin Active /\ d < c
        \/ clients[d].cmd = "schedule" /\ clients[d].at = "failed"
    BY <1>1, <1>2, <2>1 DEF Overlapping
  <2> QED
    BY <2>2 DEF Active, Working
<1>5. ASSUME NEW d \in Clients \ {c}, Done(d, "schedule") \/ Done(d, "down") PROVE d < c
  BY <1>4, <1>5 DEF Done, Tabular
<1> QED
  BY <1>4, <1>5

LEMMA KeptKept ==
    ASSUME Typed, Numbered, Overlapping, Kept, CommandStep
    PROVE  Kept'
<1> SUFFICES ASSUME Apart'
             PROVE  /\ crontab' = History'
                    /\ \A c \in Clients : clients'[c].at = "write" => clients'[c].tab = crontab'
  BY DEF Kept
<1>a. Apart /\ crontab = History
      /\ \A c \in Clients : clients[c].at = "write" => clients[c].tab = crontab
  BY ApartBefore DEF Kept
<1>1. ASSUME NEW client, IsNew(client), NEW n, Begins(n, client)
      PROVE  /\ crontab' = History'
             /\ \A c \in Clients : clients'[c].at = "write" => clients'[c].tab = crontab'
  <2>1. n \in Clients /\ clients[n].at = "none"
    BY <1>1, Numbers DEF Begins
  <2>2. clients'[n].at \in {"post", "tab", "failed"}
    BY <1>1 DEF Begins, IsNew
  <2>3. \A c \in Clients \ {n} :
           /\ clients'[c].at = clients[c].at /\ clients'[c].tab = clients[c].tab
           /\ clients'[c].cmd = clients[c].cmd /\ clients'[c].file = clients[c].file
    BY <1>1 DEF Begins, Same
  <2>4. History' = History
    BY <2>1, <2>2, <2>3, SameHistory DEF Done
  <2>5. crontab' = crontab
    BY <1>1 DEF Begins
  <2> QED
    BY <1>a, <2>1, <2>2, <2>3, <2>4, <2>5
<1>2. ASSUME NEW c \in Clients, ClientStep(c)
      PROVE  /\ crontab' = History'
             /\ \A d \in Clients : clients'[d].at = "write" => clients'[d].tab = crontab'
  <2>1. GoesOn(c)
    BY <1>2, Going
  <2>2. \A d \in Clients : clients'[d].cmd = clients[d].cmd /\ clients'[d].file = clients[d].file
    BY <2>1 DEF GoesOn, Same
  <2>3. \A d \in Clients \ {c} :
           clients'[d].at = clients[d].at /\ clients'[d].tab = clients[d].tab
    BY <2>1 DEF GoesOn
  <2>4. CASE ~WriteTab(c)
    <3>1. crontab' = crontab
      BY <1>2, <2>4
         DEF ClientStep, PostUp, PostDown, PostRaises, PostFails, ReadTab, BadTimes, TakeOver
    <3>a. clients[c].at # "done"
      BY <2>1 DEF GoesOn, Working
    <3>2. CASE ReadTab(c)
      <4>1. /\ clients'[c] = [clients[c] EXCEPT !.at = "write", !.tab = crontab]
            /\ DOMAIN clients[c] = ProcessFields
        BY <3>2 DEF ReadTab, Typed, IsProcess
      <4>2. clients'[c].at = "write" /\ clients'[c].tab = crontab
        BY <4>1 DEF ProcessFields
      <4> QED
        BY <1>a, <2>2, <2>3, <3>1, <3>a, <4>2, SameHistory DEF Done
    <3>3. CASE PostUp(c)
      <4>1. clients[c].cmd = "up" /\ clients'[c].at = "done"
        BY <3>3, Settling DEF PostUp, TakeOver
      <4> QED
        BY <1>a, <2>2, <2>3, <3>1, <3>a, <4>1, SameHistory DEF Done
    <3>4. CASE PostDown(c) \/ PostRaises(c) \/ PostFails(c) \/ BadTimes(c)
      <4>1. clients'[c].at \in {"tab", "failed", "raised"}
        BY <3>4, Settling DEF PostDown, PostRaises, PostFails, BadTimes, TakeOver
      <4> QED
        BY <1>a, <2>2, <2>3, <3>1, <3>a, <4>1, SameHistory DEF Done
    <3> QED
      BY <1>2, <2>4, <3>2, <3>3, <3>4 DEF ClientStep
  <2>5. CASE WriteTab(c)
    <3>1. /\ clients[c].at = "write" /\ clients'[c].at = "done"
          /\ clients[c].tab = crontab /\ clients[c].cmd \in {"down", "schedule"}
      BY <1>a, <2>5, Settling DEF WriteTab, Typed, IsProcess
    <3>2. /\ \A d \in Tabular \ {c} : d \notin Active
          /\ \A d \in Clients \ {c} : Done(d, "schedule") \/ Done(d, "down") => d < c
      BY <1>a, <3>1, WritesLast
    <3>3. \A d \in Clients : clients'[d].at # "write"
      <4>1. \A d \in Clients : clients[d].at = "write" => d \in Tabular /\ d \in Active
        BY DEF Tabular, Active, Working, Typed, IsProcess
      <4> QED
        BY <2>3, <3>1, <3>2, <4>1
    <3>4. /\ \A d \in Clients \ {c}, cmd \in {"schedule", "down"} : Done(d, cmd)' <=> Done(d, cmd)
          /\ \A cmd \in {"schedule", "down"} : Done(c, cmd)' <=> clients[c].cmd = cmd
          /\ \A cmd \in {"schedule", "down"} : ~Done(c, cmd)
      BY <2>2, <2>3, <3>1 DEF Done
    <3>5. Clients \subseteq Nat
      BY ClientAssumption
    <3>6. \A job : job \in History' <=> \E d \in Clients : Lasts(d)' /\ job = JobOf(d)'
      BY DEF History, Lasts, JobOf
    <3>7. \A d \in Clients : JobOf(d)' = JobOf(d)
      BY <2>2 DEF JobOf
    <3>8. CASE clients[c].cmd = "schedule"
      <4>1. crontab' = crontab \cup {JobOf(c)}
        BY <2>5, <3>1, <3>8 DEF WriteTab, JobOf
      <4>2. Lasts(c)'
        BY <3>2, <3>4, <3>5, <3>8 DEF Lasts
      <4>3. \A d \in Clients \ {c} : Lasts(d)' <=> Lasts(d)
        BY <2>2, <3>4, <3>8 DEF Lasts
      <4>4. ~Lasts(c)
        BY <3>4 DEF Lasts
      <4>5. \A job : job \in crontab' <=> job \in History'
        BY <1>a, <3>6, <3>7, <4>1, <4>2, <4>3, <4>4, InHistory
      <4> QED
        BY <3>3, <4>5
    <3>9. CASE clients[c].cmd = "down"
      <4>1. crontab' = {job \in crontab : job.file \notin Removes[clients[c].file]}
        BY <2>5, <3>1, <3>9 DEF WriteTab, Removed
      <4>2. ~Lasts(c) /\ ~Lasts(c)'
        BY <3>4, <3>9 DEF Lasts
      <4>3. \A d \in Clients \ {c} :
               Lasts(d)' <=> Lasts(d) /\ clients[d].file \notin Removes[clients[c].file]
        BY <2>2, <3>2, <3>4, <3>5, <3>9 DEF Lasts
      <4>4. \A d \in Clients : JobOf(d).file = clients[d].file
        BY DEF JobOf
      <4>5. \A job : job \in crontab' <=> job \in History'
        BY <1>a, <3>6, <3>7, <4>1, <4>2, <4>3, <4>4, InHistory
      <4> QED
        BY <3>3, <4>5
    <3> QED
      BY <3>1, <3>8, <3>9
  <2> QED
    BY <2>4, <2>5
<1>3. ASSUME UNCHANGED <<clients, crontab>>
      PROVE  /\ crontab' = History'
             /\ \A c \in Clients : clients'[c].at = "write" => clients'[c].tab = crontab'
  BY <1>a, <1>3, SameHistory DEF Done
<1> QED
  BY <1>1, <1>2, <1>3, EditFrame, IdleFrame DEF CommandStep, clientVars

-------------------------------------------------------------------------------
LEMMA ScheduledKept ==
    ASSUME Typed, Numbered, Edited, Scheduled, CommandStep
    PROVE  Scheduled'
<1>a. /\ \A job \in crontab : OnceIn(job.file)
      /\ \A c \in Clients :
           /\ \A job \in clients[c].tab : OnceIn(job.file)
           /\ clients[c].cmd = "schedule" /\ clients[c].at # "failed" => OnceIn(clients[c].file)
           /\ clients[c].cron /\ files[clients[c].file] = scene.files[clients[c].file] =>
                clients[c].doc = scene.files[clients[c].file] /\ clients[c].doc.mode = "once"
  BY DEF Scheduled
<1>1. ASSUME NEW client, IsNew(client), NEW n, Begins(n, client) PROVE Scheduled'
  <2>1. UNCHANGED <<crontab, files, scene>> /\ \A f : OnceIn(f)' <=> OnceIn(f)
    BY <1>1 DEF Begins, OnceIn
  <2>2. /\ clients'[n].at = client.at /\ clients'[n].cmd = client.cmd
        /\ clients'[n].file = client.file /\ clients'[n].cron = client.cron
        /\ clients'[n].doc = client.doc /\ clients'[n].tab = {}
    BY <1>1 DEF Begins, IsNew
  <2>3. client.cmd = "schedule" /\ client.at # "failed" => OnceIn(client.file)
    BY <1>1 DEF IsNew, MaySchedule, OnceIn
  <2>4. client.cron /\ files[client.file] = scene.files[client.file] =>
          client.doc = scene.files[client.file] /\ client.doc.mode = "once"
    <3> SUFFICES ASSUME client.cron, files[client.file] = scene.files[client.file]
                 PROVE  client.doc = scene.files[client.file] /\ client.doc.mode = "once"
      OBVIOUS
    <3>1. client.doc = files[client.file] /\ \E job \in crontab : job.file = client.file
      BY <1>1 DEF IsNew
    <3>2. OnceIn(client.file)
      BY <1>a, <3>1
    <3> QED
      BY <3>1, <3>2 DEF OnceIn
  <2>5. \A c \in Clients \ {n} :
           /\ clients'[c].at = clients[c].at /\ clients'[c].tab = clients[c].tab
           /\ clients'[c].cmd = clients[c].cmd /\ clients'[c].file = clients[c].file
           /\ clients'[c].cron = clients[c].cron /\ clients'[c].doc = clients[c].doc
    BY <1>1 DEF Begins, Same
  <2>6. ASSUME NEW c \in Clients
        PROVE  /\ \A job \in clients'[c].tab : OnceIn(job.file)'
               /\ clients'[c].cmd = "schedule" /\ clients'[c].at # "failed" =>
                    OnceIn(clients[c].file)'
               /\ clients'[c].cron /\ files'[clients'[c].file] = scene'.files[clients'[c].file] =>
                    /\ clients'[c].doc = scene'.files[clients'[c].file]
                    /\ clients'[c].doc.mode = "once"
    <3>1. CASE c = n
      <4>1. clients'[n].cmd = "schedule" /\ clients'[n].at # "failed" => OnceIn(clients[n].file)'
        BY <2>1, <2>2, <2>3 DEF OnceIn
      <4> QED
        BY <2>1, <2>2, <2>4, <3>1, <4>1
    <3>2. CASE c # n
      <4>1. OnceIn(clients[c].file) => OnceIn(clients[c].file)'
        BY <2>1, <2>5, <3>2 DEF OnceIn
      <4> QED
        BY <1>a, <2>1, <2>5, <3>2, <4>1
    <3> QED
      BY <3>1, <3>2
  <2>7. \A job \in crontab' : OnceIn(job.file)'
    BY <1>a, <2>1
  <2> QED
    BY <2>6, <2>7 DEF Scheduled
<1>2. ASSUME NEW c \in Clients, ClientStep(c) PROVE Scheduled'
  <2>1. GoesOn(c)
    BY <1>2, Going
  <2>2. /\ UNCHANGED <<files, scene>> /\ clients[c].at \in Working
        /\ \A f : OnceIn(f)' <=> OnceIn(f)
    BY <2>1 DEF GoesOn, OnceIn
  <2>3. \A d \in Clients :
           /\ clients'[d].cmd = clients[d].cmd /\ clients'[d].file = clients[d].file
           /\ clients'[d].cron = clients[d].cron /\ clients'[d].doc = clients[d].doc
           /\ d # c => clients'[d].at = clients[d].at /\ clients'[d].tab = clients[d].tab
    BY <2>1 DEF GoesOn, Same
  <2>4. clients'[c].tab \in {clients[c].tab, crontab}
    <3>1. CASE ReadTab(c)
      <4>1. /\ clients'[c] = [clients[c] EXCEPT !.at = "write", !.tab = crontab]
            /\ DOMAIN clients[c] = ProcessFields
        BY <3>1 DEF ReadTab, Typed, IsProcess
      <4> QED
        BY <4>1 DEF ProcessFields
    <3>2. CASE ~ReadTab(c)
      BY <1>2, <3>2, Settling
         DEF ClientStep, PostUp, PostDown, PostRaises, PostFails, WriteTab, BadTimes, TakeOver
    <3> QED
      BY <3>1, <3>2
  <2>5. \A job \in crontab' : OnceIn(job.file)
    <3>1. CASE WriteTab(c)
      <4>1. \/ crontab' \subseteq clients[c].tab
            \/ /\ clients[c].cmd = "schedule"
               /\ crontab' = clients[c].tab \cup {[file |-> clients[c].file, by |-> c]}
        BY <3>1 DEF WriteTab, Typed, IsProcess
      <4>2. clients[c].cmd = "schedule" => OnceIn(clients[c].file)
        BY <1>a, <3>1 DEF WriteTab
      <4> QED
        BY <1>a, <4>1, <4>2
    <3>2. CASE ~WriteTab(c)
      BY <1>2, <1>a, <3>2
         DEF ClientStep, PostUp, PostDown, PostRaises, PostFails, ReadTab, BadTimes, TakeOver
    <3> QED
      BY <3>1, <3>2
  <2>6. ASSUME NEW d \in Clients
        PROVE  /\ \A job \in clients'[d].tab : OnceIn(job.file)'
               /\ clients'[d].cmd = "schedule" /\ clients'[d].at # "failed" =>
                    OnceIn(clients[d].file)'
               /\ clients'[d].cron /\ files'[clients'[d].file] = scene'.files[clients'[d].file] =>
                    /\ clients'[d].doc = scene'.files[clients'[d].file]
                    /\ clients'[d].doc.mode = "once"
    <3>1. \A job \in clients'[d].tab : OnceIn(job.file)
      BY <1>a, <2>3, <2>4
    <3>2. OnceIn(clients[d].file) => OnceIn(clients[d].file)'
      BY <2>2, <2>3 DEF OnceIn
    <3>3. clients'[d].at # "failed" => clients[d].at # "failed"
      BY <2>2, <2>3 DEF Working
    <3> QED
      BY <1>a, <2>2, <2>3, <3>1, <3>2, <3>3
  <2> QED
    BY <2>2, <2>5, <2>6 DEF Scheduled
<1>3. ASSUME Edit PROVE Scheduled'
  <2>1. UNCHANGED <<crontab, clients, scene>>
    BY <1>3, EditFrame
  <2>2. \A f \in Files : files'[f] = scene.files[f] => files[f] = scene.files[f]
    BY <1>3, EditFrame DEF Edited
  <2>3. \A f \in Files : OnceIn(f) => OnceIn(f)'
    BY <2>1, <2>2 DEF OnceIn
  <2>4. \A job \in crontab' : OnceIn(job.file)'
    BY <1>a, <2>1, <2>3 DEF Typed, Jobs
  <2>5. ASSUME NEW c \in Clients
        PROVE  /\ \A job \in clients'[c].tab : OnceIn(job.file)'
               /\ clients'[c].cmd = "schedule" /\ clients'[c].at # "failed" =>
                    OnceIn(clients[c].file)'
               /\ clients'[c].cron /\ files'[clients'[c].file] = scene'.files[clients'[c].file] =>
                    /\ clients'[c].doc = scene'.files[clients'[c].file]
                    /\ clients'[c].doc.mode = "once"
    <3>1. IsProcess(c) /\ clients'[c] = clients[c]
      BY <2>1 DEF Typed
    <3>2. \A job \in clients'[c].tab : OnceIn(job.file)'
      BY <1>a, <2>3, <3>1 DEF IsProcess, Jobs
    <3>3. clients[c].cmd = "schedule" /\ clients[c].at # "failed" =>
            OnceIn(clients[c].file) /\ clients[c].file \in Files
      BY <1>a, <3>1 DEF IsProcess
    <3>4. OnceIn(clients[c].file) /\ clients[c].file \in Files => OnceIn(clients[c].file)'
      BY <2>1, <2>2, <3>1 DEF OnceIn
    <3>5. clients[c].cron => clients[c].file \in Files
      BY <3>1 DEF IsProcess
    <3> QED
      BY <1>a, <2>1, <2>2, <3>1, <3>2, <3>3, <3>4, <3>5
  <2> QED
    BY <2>4, <2>5 DEF Scheduled
<1>4. ASSUME UNCHANGED <<crontab, files, clients, scene>> PROVE Scheduled'
  BY <1>4 DEF Scheduled, OnceIn
<1> QED
  BY <1>1, <1>2, <1>3, <1>4, IdleFrame DEF CommandStep, clientVars

LEMMA StandingKept ==
    ASSUME Typed, Numbered, Standing, CommandStep
    PROVE  Standing'
<1>1. ASSUME UNCHANGED origin, ctx'.config = ctx.config, ctx'.state \in {ctx.state, "idle"},
             \A c \in Clients : clients[c].cmd = "up" =>
                \/ clients'[c].at = clients[c].at
                \/ {clients[c].at, clients'[c].at} \cap {"done", "raised"} = {},
             \A c \in Clients : clients[c].cmd = "none" => clients'[c].at \notin {"done", "raised"},
             \A c \in Clients : clients[c].cmd # "none" =>
                clients'[c].cmd = clients[c].cmd /\ clients'[c].update = clients[c].update
                /\ clients'[c].doc = clients[c].doc
      PROVE  Standing'
  <2>1. Taken' = Taken
    BY <1>1 DEF Taken
  <2>2. \A c \in Taken : clients'[c].doc = clients[c].doc
    BY <1>1 DEF Taken
  <2>3. origin # None =>
          /\ clients'[origin].cmd = clients[origin].cmd /\ clients[origin].cmd # "none"
          /\ clients'[origin].update = clients[origin].update
          /\ clients'[origin].doc = clients[origin].doc
          /\ clients[origin].cmd = "up" => /\ origin \in Taken
                                           /\ clients'[origin].at = clients[origin].at
    BY <1>1 DEF Standing, Typed, Taken
  <2>4. ASSUME origin # None, clients[origin].cmd = "up", Replaced(origin)
        PROVE  Replaced(origin)'
    <3>1. \A d \in Taken \ {origin} : clients'[d].doc.common = clients[d].doc.common
      BY <2>2
    <3> QED
      BY <1>1, <2>1, <2>3, <2>4, <3>1 DEF Replaced
  <2>5. ctx'.config.common => \E c \in Taken' : clients'[c].doc.common
    BY <1>1, <2>1, <2>2 DEF Standing
  <2> QED
    BY <1>1, <2>1, <2>3, <2>4, <2>5 DEF Standing, Typed
<1>2. ASSUME NEW client, IsNew(client), NEW n, Begins(n, client) PROVE Standing'
  <2>1. n \in Clients /\ clients[n].at = "none" /\ clients[n].cmd = "none"
    BY <1>2, Numbers DEF Begins
  <2>2. clients'[n].at \in {"post", "tab", "failed"} /\ UNCHANGED <<ctx, origin>>
    BY <1>2 DEF Begins, IsNew
  <2>3. \A c \in Clients \ {n} :
           /\ clients'[c].at = clients[c].at /\ clients'[c].cmd = clients[c].cmd
           /\ clients'[c].update = clients[c].update /\ clients'[c].doc = clients[c].doc
    BY <1>2 DEF Begins, Same
  <2>4. \A c \in Clients : clients[c].cmd = "none" => clients'[c].at \notin {"done", "raised"}
    BY <2>1, <2>2, <2>3 DEF Typed, IsProcess
  <2> QED
    BY <1>1, <2>1, <2>2, <2>3, <2>4
<1>3. ASSUME NEW c \in Clients, ClientStep(c) PROVE Standing'
  <2>1. GoesOn(c)
    BY <1>3, Going
  <2>2. \A d \in Clients :
           /\ clients'[d].cmd = clients[d].cmd /\ clients'[d].update = clients[d].update
           /\ clients'[d].doc = clients[d].doc
           /\ d # c => clients'[d].at = clients[d].at
    BY <2>1 DEF GoesOn, Same
  <2>3. /\ clients[c].at \notin {"done", "raised"} /\ c \notin Taken
        /\ Taken \subseteq Taken' /\ Taken \subseteq Clients
    BY <2>1, <2>2 DEF GoesOn, Working, Taken
  <2>4. ASSUME clients[c].cmd = "up", Accepts(clients[c].doc), origin' = c,
               ctx' = Updated(Decode(clients[c].doc, "run"), clients[c].update),
               clients'[c].at \in {"done", "raised"}
        PROVE  Standing'
    <3> DEFINE new == Decode(clients[c].doc, "run").config
               old == Before(clients[c].update).config
    <3>1. c \in Taken' /\ Taken' \ {c} \subseteq Taken
      BY <2>2, <2>4 DEF Taken
    <3>2. /\ ctx'.config.mode = Or(new.mode, old.mode)
          /\ ctx'.config.repeats = Or(new.repeats, old.repeats)
          /\ ctx'.config.groups = Or(new.groups, {}) /\ ctx'.config.sinks = new.sinks
          /\ new.vpns # None => ctx'.config.vpns = new.vpns
          /\ new.common = clients[c].doc.common
          /\ ctx'.config.common = (clients[c].doc.common \/ ctx.config.common)
      BY <2>4, PostedUp
    <3>3. clients[c].update \in BOOLEAN /\ clients[c].doc.common \in BOOLEAN
          /\ ctx.config.common \in BOOLEAN
      BY <2>4 DEF Typed, IsProcess, IsDocument
    <3>4. ~clients[c].update => old.mode = "continuous" /\ old.repeats = 1
      BY <3>3, Cleaning
    <3>5. ctx.config.common => \E d \in Taken : clients[d].doc.common
      BY DEF Standing
    <3>6. ctx'.config.common => \E d \in Taken' : clients'[d].doc.common
      BY <2>2, <2>3, <3>1, <3>2, <3>5
    <3>7. (\A d \in Taken' \ {c} : ~clients'[d].doc.common) => ctx'.config.common = new.common
      BY <2>2, <2>3, <3>2, <3>3, <3>5
    <3> HIDE DEF new, old
    <3>8. /\ clients'[origin'].cmd = "up" /\ clients'[origin'].update = clients[c].update
          /\ Decode(clients'[origin'].doc, "run").config = new
      BY <2>2, <2>4 DEF new
    <3>9. ~clients[c].update => Replaced(origin)'
      BY <2>4, <3>2, <3>4, <3>7, <3>8 DEF Replaced
    <3>10. ~clients[c].update => ctx'.config.mode = Or(new.mode, "continuous")
      BY <3>2, <3>4
    <3> QED
      BY <2>4, <3>1, <3>6, <3>8, <3>9, <3>10 DEF Standing
  <2>5. CASE PostUp(c)
    <3>1. clients'[c].at = "done"
      BY <2>5, Settling DEF PostUp, TakeOver
    <3> QED
      BY <2>4, <2>5, <3>1 DEF PostUp, TakeOver
  <2>6. ASSUME ctx'.state = "idle", ctx'.config.common = ctx.config.common, origin' = c,
               clients[c].cmd = "up" => clients'[c].at = "raised", clients[c].cmd # "none"
        PROVE  Standing'
    <3>1. ctx'.config.common => \E d \in Taken' : clients'[d].doc.common
      BY <2>2, <2>3, <2>6 DEF Standing
    <3>2. clients'[c].cmd = clients[c].cmd /\ (clients[c].cmd = "up" => c \in Taken')
      BY <2>2, <2>6 DEF Taken
    <3> QED
      BY <2>6, <3>1, <3>2 DEF Standing
  <2>7. CASE PostDown(c)
    <3>1. clients[c].cmd = "down" /\ origin' = c /\ ctx'.state = "idle"
          /\ ctx'.config.common = ctx.config.common
      BY <2>7, PostedDown DEF PostDown, TakeOver
    <3> QED
      BY <2>6, <3>1
  <2>8. CASE PostRaises(c)
    <3>1. clients'[c].at = "raised" /\ clients[c].cmd # "none"
      BY <2>8, Settling DEF PostRaises, Typed, IsProcess
    <3> QED
      BY <2>4, <2>6, <2>8, <3>1, Raised
  <2>9. CASE PostFails(c) \/ ReadTab(c) \/ WriteTab(c) \/ BadTimes(c)
    <3>1. UNCHANGED <<ctx, origin>>
      BY <2>9 DEF PostFails, ReadTab, WriteTab, BadTimes
    <3>2. clients[c].cmd # "up" \/ clients'[c].at = "failed"
      BY <2>9, Settling DEF PostFails, ReadTab, WriteTab, BadTimes, Typed, IsProcess
    <3>3. clients[c].cmd # "none"
      BY <2>1 DEF GoesOn, Working, Typed, IsProcess
    <3>4. \A d \in Clients : d # c /\ clients[d].cmd = "none" =>
             clients'[d].at \notin {"done", "raised"}
      BY <2>2 DEF Typed, IsProcess
    <3> QED
      BY <1>1, <2>2, <2>3, <3>1, <3>2, <3>3, <3>4
  <2> QED
    BY <1>3, <2>5, <2>7, <2>8, <2>9 DEF ClientStep
<1>4. ASSUME UNCHANGED <<origin, clients>>, ctx'.config = ctx.config,
             ctx'.state \in {ctx.state, "idle"}
      PROVE  Standing'
  BY <1>1, <1>4 DEF Typed, IsProcess
<1> QED
  BY <1>2, <1>3, <1>4, EditFrame, IdleFrame DEF CommandStep, clientVars

-------------------------------------------------------------------------------
LEMMA CommandsKept ==
    ASSUME CommandInv, [Next]_vars
    PROVE  CommandInv'
<1>1. CommandStep
  BY StepsOfCommands DEF CommandInv
<1> QED
  BY <1>1, TypedKept, NumberedKept, OverlapKept, StoppingKept, KeptKept, EditedKept,
     ScheduledKept, StandingKept
  DEF CommandInv

LEMMA CommandsBegin == Init => CommandInv
<1> SUFFICES ASSUME Init PROVE CommandInv
  OBVIOUS
<1>1. scene \in Scenes /\ IsScene(scene)
  BY ClientAssumption DEF Init
<1>2. \A c \in Clients : clients[c] = NewClient
  BY DEF Init
<1>3. /\ DOMAIN NewClient = ProcessFields /\ NewClient.at = "none" /\ NewClient.cmd = "none"
      /\ NewClient.update = FALSE /\ NewClient.cron = FALSE
      /\ NewClient.tab = {} /\ NewClient.with = {}
  BY DEF NewClient, ProcessFields
<1>4. ASSUME NEW c \in Clients PROVE IsProcess(c)
  BY <1>2, <1>3 DEF IsProcess, Working, Settled
<1>5. /\ DOMAIN ctx = {"state", "config"} /\ ctx.state = "idle"
      /\ DOMAIN ctx.config = {"mode", "repeats", "common", "vpns", "groups", "sinks"}
      /\ ctx.config.mode = "continuous" /\ ctx.config.common = FALSE /\ ctx.config.sinks = <<>>
  BY DEF Init
<1>6. /\ DOMAIN clients = Clients /\ crontab = {} /\ files = scene.files /\ origin = None
  BY DEF Init
<1>7. Typed
  BY <1>1, <1>4, <1>5, <1>6 DEF Typed, IsScene
<1>8. Begun = {} /\ Active = {} /\ Tabular = {}
  BY <1>2, <1>3 DEF Begun, Active, Tabular, Working
<1>9. IsFiniteSet(Begun) /\ Cardinality(Begun) = 0
  BY <1>8, FS_EmptySet
<1>10. Numbered
  BY <1>8, <1>9 DEF Numbered
<1>11. Overlapping /\ AloneAtWork /\ Stopping
  BY <1>2, <1>3, <1>8 DEF Overlapping, AloneAtWork, Stopping, Last
<1>12. History = {} /\ \A c \in Clients : clients[c].at # "write"
  BY <1>2, <1>3 DEF History, Done
<1>13. Kept
  BY <1>6, <1>12 DEF Kept
<1>14. Edited /\ Scheduled
  BY <1>2, <1>3, <1>6 DEF Edited, Scheduled
<1>15. Standing
  BY <1>5, <1>6 DEF Standing
<1> QED
  BY <1>7, <1>10, <1>11, <1>13, <1>14, <1>15 DEF CommandInv

(* After "down" without a file, with nobody else at work, the service is idle
   and cron has no job left, whatever commands, edits, reports and faults
   there were before (down_command, Service.update).                         *)
THEOREM DownStopsAlways == Spec => []DownStops
<1>1. CommandInv => DownStops
  <2> SUFFICES ASSUME CommandInv, NEW c \in Clients, Done(c, "down"), clients[c].file = None,
                      clients[c].with = {}, c + 1 = Newest
               PROVE  ctx.state = "idle" /\ crontab = {}
    BY DEF DownStops
  <2> QED
    BY DEF CommandInv, Stopping, Last, Done
<1> QED
  BY <1>1, CommandsBegin, CommandsKept, PTL DEF Spec

(* While commands that rewrite the cron table do not overlap, it holds what
   was scheduled and not taken back, and nothing else (schedule_command,
   down_command).                                                            *)
THEOREM TableIsHistoryAlways == Spec => []TableIsHistory
<1>1. CommandInv => TableIsHistory
  BY DEF CommandInv, Kept, Apart, History, TableIsHistory
<1> QED
  BY <1>1, CommandsBegin, CommandsKept, PTL DEF Spec

(* Cron starts tests in the mode "once" only, as long as nobody edits their
   file after it was scheduled, also when the update raises on its way
   (schedule_command, up_command, Service.update).                           *)
THEOREM ScheduledOnceAlways == Spec => []ScheduledOnce
<1>1. CommandInv => ScheduledOnce
  <2> SUFFICES ASSUME CommandInv, origin # None, clients[origin].cron,
                      Done(origin, "up") \/ ctx.state = "run",
                      files[clients[origin].file] = scene.files[clients[origin].file]
               PROVE  ctx.config.mode = "once"
    BY DEF ScheduledOnce
  <2>1. origin \in Clients /\ IsProcess(origin)
    BY DEF CommandInv, Typed
  <2>2. clients[origin].cmd = "up" /\ ~clients[origin].update
    BY <2>1 DEF IsProcess
  <2>3. clients[origin].doc.mode = "once"
    BY <2>1 DEF CommandInv, Scheduled
  <2>4. ctx.config.mode = Or(Decode(clients[origin].doc, "run").config.mode, "continuous")
    BY <2>2 DEF CommandInv, Standing, Replaced, Done
  <2>5. Decode(clients[origin].doc, "run").config.mode = "once"
    BY <2>3 DEF Decode
  <2> QED
    BY <2>4, <2>5, ClientAssumption DEF Or
<1> QED
  BY <1>1, CommandsBegin, CommandsKept, PTL DEF Spec

-------------------------------------------------------------------------------
(* The files of the requests.                                                *)

Fields == {"at", "filter", "asked", "second", "plugin", "left", "counted", "file", "got",
           "owed", "moved"}

Shape ==
    /\ DOMAIN reports = Requests /\ \A r \in Requests : DOMAIN reports[r] = Fields
    /\ zips \in [Seconds -> Requests \cup {None}]
    /\ DOMAIN ink = Requests
    /\ clock \in Seconds

(* A request has a second and a file from its beginning on.                  *)
Held(r) ==
    /\ reports[r].asked \in Seconds => /\ reports[r].second = reports[r].asked
                                       /\ reports[r].file \in Requests
                                       /\ reports[reports[r].file].asked = reports[r].asked
    /\ reports[r].asked \notin Seconds => /\ reports[r].asked = None /\ reports[r].second = None
                                          /\ reports[r].at \in {"none", "failed"}
                                          /\ reports[r].got = None
    /\ reports[r].at = "none" => reports[r].asked = None

Ties ==
    /\ \A r \in Requests : Held(r)
    /\ \A s \in Seconds : zips[s] # None => reports[zips[s]].asked = s
    /\ \A i \in Requests : \A q \in ink[i] :
         q \in Requests /\ reports[q].asked \in Seconds /\ reports[q].asked = reports[i].asked

Ready == {"send", "body"}
Written ==
    \A r \in Requests : reports[r].at \in Ready /\ Alone(r) => r \in ink[r]

IInv == Shape /\ Ties /\ Written /\ AnswerIsOwn /\ NothingLeftBehind

-------------------------------------------------------------------------------
LEMMA InitIInv == Init => IInv
<1> SUFFICES ASSUME Init PROVE IInv
  OBVIOUS
<1> USE ReportsAssumption
<1>1. Shape
  BY DEF Init, Shape, NewReport, Fields, Seconds
<1>2. \A r \in Requests : /\ reports[r].at = "none" /\ reports[r].asked = None
                          /\ reports[r].second = None /\ reports[r].got = None
  BY DEF Init, NewReport
<1>3. Ties
  BY <1>2 DEF Init, Ties, Held, Seconds
<1>4. Written /\ AnswerIsOwn /\ NothingLeftBehind
  BY <1>2 DEF Init, Written, Ready, AnswerIsOwn, Answered, NothingLeftBehind
<1> QED BY <1>1, <1>3, <1>4 DEF IInv

-------------------------------------------------------------------------------
(* A step that leaves the files alone, and of the requests what the          *)
(* invariant looks at.                                                       *)
LEMMA Untouched ==
    ASSUME IInv, UNCHANGED fileVars, clock' \in Seconds, DOMAIN reports' = Requests,
           \A r \in Requests :
              /\ DOMAIN reports'[r] = Fields
              /\ reports'[r].asked = reports[r].asked /\ reports'[r].second = reports[r].second
              /\ reports'[r].file = reports[r].file /\ reports'[r].got = reports[r].got
              /\ \/ reports'[r].at = reports[r].at
                 \/ reports[r].at \in Reading /\ reports'[r].at \in Reading
    PROVE  IInv'
<1> USE DEF fileVars
<1>1. Shape'
  BY DEF IInv, Shape
<1>2. Ties'
  BY DEF IInv, Ties, Held, Reading, Shape
<1>3. Written' /\ AnswerIsOwn'
  BY DEF IInv, Written, AnswerIsOwn, Answered, Alone, Ready, Reading
<1>4. NothingLeftBehind'
  BY DEF IInv, NothingLeftBehind, Reading
<1> QED BY <1>1, <1>2, <1>3, <1>4 DEF IInv

(* A request begins: nobody holds its file, unless from the same second.     *)
LEMMA AskKeeps ==
    ASSUME IInv, NEW r \in Requests, NEW f, Ask(r, f)
    PROVE  IInv'
<1> None \notin Seconds /\ None \notin Requests
  BY ReportsAssumption DEF Seconds
<1> reports[r].at = "none" /\ reports[r].asked = None
  BY DEF Ask, IInv, Ties, Held
<1>1. CASE ~Valid(f)
  <2>1. /\ DOMAIN reports' = Requests
        /\ \A q \in Requests :
             /\ DOMAIN reports'[q] = Fields
             /\ reports'[q].asked = reports[q].asked /\ reports'[q].second = reports[q].second
             /\ reports'[q].file = reports[q].file /\ reports'[q].got = reports[q].got
             /\ reports'[q].at = IF q = r THEN "failed" ELSE reports[q].at
    BY <1>1 DEF Ask, To, IInv, Shape, Fields
  <2>2. UNCHANGED fileVars /\ clock' = clock
    BY <1>1 DEF Ask
  <2>3. Shape' /\ Ties'
    BY <2>1, <2>2 DEF IInv, Shape, Ties, Held, fileVars
  <2>4. Written' /\ AnswerIsOwn'
    BY <2>1, <2>2 DEF IInv, Written, AnswerIsOwn, Answered, Alone, Ready, fileVars
  <2>5. NothingLeftBehind'
    BY <2>1, <2>2 DEF IInv, NothingLeftBehind, Reading, fileVars
  <2> QED BY <2>3, <2>4, <2>5 DEF IInv
<1>2. CASE Valid(f)
  <2> DEFINE inode == IF zips[clock] = None THEN r ELSE zips[clock]
  <2>1. clock \in Seconds /\ inode \in Requests
    BY DEF IInv, Shape
  <2>2. Begin(r, f, clock, inode) /\ clock' = clock
    BY <1>2 DEF Ask, Stamp
  <2>3. /\ DOMAIN reports' = Requests
        /\ \A q \in Requests \ {r} : reports'[q] = reports[q]
        /\ DOMAIN reports'[r] = Fields
        /\ reports'[r].at = "groups" /\ reports'[r].asked = clock
        /\ reports'[r].second = clock /\ reports'[r].file = inode
        /\ reports'[r].got = reports[r].got
    BY <2>2 DEF Begin, IInv, Shape, Fields
  <2>4. /\ zips' = [zips EXCEPT ![clock] = inode]
        /\ ink' = [ink EXCEPT ![inode] = {}]
        /\ folders' = folders \cup {clock}
    BY <2>2 DEF Begin
  <2>5. Shape'
    BY <2>1, <2>2, <2>3, <2>4 DEF IInv, Shape
  <2>6. inode # r => reports[inode].asked = clock
    BY <2>1 DEF IInv, Ties
  <2>7. \A q \in Requests : Held(q)'
    <3>1. Held(r)'
      BY <2>1, <2>3, <2>6 DEF Held, Reading, IInv, Ties
    <3>2. ASSUME NEW q \in Requests \ {r} PROVE Held(q)'
      BY <2>1, <2>3, <3>2 DEF Held, IInv, Ties
    <3> QED BY <3>1, <3>2
  <2>8. \A s \in Seconds : zips'[s] # None => reports'[zips'[s]].asked = s
    BY <2>1, <2>3, <2>4, <2>6 DEF IInv, Ties, Shape
  <2>9. \A i \in Requests : \A q \in ink'[i] :
           q \in Requests /\ reports'[q].asked \in Seconds /\ reports'[q].asked = reports'[i].asked
    BY <2>1, <2>3, <2>4 DEF IInv, Ties, Shape
  <2>10. \A q \in Requests \ {r} : Alone(q)' /\ reports[q].asked \in Seconds
                                    => Alone(q) /\ ink'[q] = ink[q]
    BY <2>1, <2>3, <2>4, <2>6 DEF Alone, IInv, Shape
  <2>11. Written'
    BY <2>3, <2>10 DEF IInv, Written, Ready, Ties, Held
  <2>12. AnswerIsOwn'
    BY <2>3, <2>10 DEF IInv, AnswerIsOwn, Answered, Ties, Held
  <2>13. NothingLeftBehind'
    <3>1. ASSUME NEW s \in folders'
          PROVE  \E q \in Requests : reports'[q].at \in Reading /\ reports'[q].second = s
      BY <2>3, <2>4, <3>1 DEF IInv, NothingLeftBehind, Reading
    <3>2. ASSUME NEW s \in Seconds, zips'[s] # None
          PROVE  \E q \in Requests : reports'[q].second = s /\ reports'[q].at # "closed"
      BY <2>1, <2>3, <2>4, <3>2 DEF IInv, NothingLeftBehind, Ties, Held, Shape
    <3> QED BY <3>1, <3>2 DEF NothingLeftBehind
  <2> QED BY <2>5, <2>7, <2>8, <2>9, <2>11, <2>12, <2>13 DEF IInv, Ties
<1> QED BY <1>1, <1>2

(* The zip file is closed: its content is there before it can be sent.       *)
LEMMA LeaveKeeps ==
    ASSUME IInv, NEW r \in Requests, NEW at \in {"send", "failed"},
           reports[r].at \in Reading, Leave(r, at)
    PROVE  IInv'
<1> DEFINE file == reports[r].file
           second == reports[r].second
<1>1. /\ DOMAIN reports' = Requests
      /\ \A q \in Requests :
           /\ DOMAIN reports'[q] = Fields
           /\ reports'[q].asked = reports[q].asked /\ reports'[q].second = reports[q].second
           /\ reports'[q].file = reports[q].file /\ reports'[q].got = reports[q].got
           /\ reports'[q].at = IF q = r THEN at ELSE reports[q].at
  BY DEF Leave, To, IInv, Shape, Fields
<1>2. /\ ink' = [ink EXCEPT ![file] = @ \cup {r}] /\ folders' = folders \ {second}
      /\ zips' = zips /\ clock' = clock
  BY DEF Leave
<1>3. /\ reports[r].asked \in Seconds /\ file \in Requests
      /\ reports[file].asked = reports[r].asked
  BY DEF IInv, Ties, Held, Reading
<1>4. Shape'
  BY <1>1, <1>2 DEF IInv, Shape
<1>5. \A q \in Requests : Held(q)'
  BY <1>1, <1>3 DEF Held, IInv, Ties
<1>6. Ties'
  BY <1>1, <1>2, <1>3, <1>5 DEF IInv, Ties, Shape
<1>7. Written'
  BY <1>1, <1>2, <1>3 DEF IInv, Written, Alone, Ready, Shape
<1>8. AnswerIsOwn'
  BY <1>1 DEF IInv, AnswerIsOwn, Answered, Alone
<1>9. NothingLeftBehind'
  BY <1>1, <1>2 DEF IInv, NothingLeftBehind
<1> QED BY <1>4, <1>6, <1>7, <1>8, <1>9 DEF IInv

(* FileResponse opens what the name leads to: of its second in any case.     *)
LEMMA OpenKeeps ==
    ASSUME IInv, NEW r \in Requests, Open(r)
    PROVE  IInv'
<1> None \notin Seconds /\ None \notin Requests
  BY ReportsAssumption DEF Seconds
<1> DEFINE zip == zips[reports[r].second]
<1>1. reports[r].at = "send" /\ reports[r].asked \in Seconds
      /\ reports[r].second = reports[r].asked
  BY DEF Open, IInv, Ties, Held
<1>2. /\ DOMAIN reports' = Requests
      /\ \A q \in Requests :
           /\ DOMAIN reports'[q] = Fields
           /\ reports'[q].asked = reports[q].asked /\ reports'[q].second = reports[q].second
           /\ reports'[q].got = reports[q].got
           /\ q # r => reports'[q].at = reports[q].at /\ reports'[q].file = reports[q].file
      /\ \/ reports'[r].at = "lost" /\ reports'[r].file = reports[r].file
         \/ reports'[r].at = "body" /\ reports'[r].file = zip /\ zip # None
  <2>1. DOMAIN reports = Requests /\ \A q \in Requests : DOMAIN reports[q] = Fields
    BY DEF IInv, Shape
  <2>2. CASE zip = None
    BY <2>1, <2>2 DEF Open, To, Fields
  <2>3. CASE zip # None
    <3> HIDE DEF zip
    <3>1. reports' = [reports EXCEPT ![r] = [@ EXCEPT !.at = "body", !.file = zip]]
      BY <2>3 DEF Open, zip
    <3> QED BY <2>1, <2>3, <3>1 DEF Fields
  <2> QED BY <2>2, <2>3
<1>3. UNCHANGED fileVars /\ clock' = clock
  BY DEF Open
<1>4. zip # None => zip \in Requests /\ reports[zip].asked = reports[r].asked
  BY <1>1 DEF IInv, Ties, Shape
<1>5. Shape'
  BY <1>2, <1>3 DEF IInv, Shape, fileVars
<1>6. \A q \in Requests : Held(q)'
  BY <1>1, <1>2, <1>4 DEF Held, IInv, Ties
<1>7. Ties'
  BY <1>2, <1>3, <1>6 DEF IInv, Ties, Shape, fileVars
<1>8. Written' /\ AnswerIsOwn'
  BY <1>1, <1>2, <1>3 DEF IInv, Written, AnswerIsOwn, Answered, Alone, Ready, fileVars
<1>9. NothingLeftBehind'
  BY <1>1, <1>2, <1>3 DEF IInv, NothingLeftBehind, Reading, fileVars
<1> QED BY <1>5, <1>7, <1>8, <1>9 DEF IInv

(* What the client gets was written by requests of the same second only.     *)
LEMMA SendBodyKeeps ==
    ASSUME IInv, NEW r \in Requests, SendBody(r)
    PROVE  IInv'
<1> None \notin Seconds /\ None \notin Requests
  BY ReportsAssumption DEF Seconds
<1>1. /\ reports[r].at = "body" /\ reports[r].asked \in Seconds
      /\ reports[r].file \in Requests /\ reports[reports[r].file].asked = reports[r].asked
  BY DEF SendBody, IInv, Ties, Held
<1>2. /\ DOMAIN reports' = Requests
      /\ \A q \in Requests :
           /\ DOMAIN reports'[q] = Fields
           /\ reports'[q].asked = reports[q].asked /\ reports'[q].second = reports[q].second
           /\ reports'[q].file = reports[q].file
           /\ q # r => reports'[q].at = reports[q].at /\ reports'[q].got = reports[q].got
      /\ reports'[r].at = "answered" /\ reports'[r].got = ink[reports[r].file]
  BY DEF SendBody, IInv, Shape, Fields
<1>3. UNCHANGED fileVars /\ clock' = clock
  BY DEF SendBody
<1>4. Shape'
  BY <1>2, <1>3 DEF IInv, Shape, fileVars
<1>5. \A q \in Requests : Held(q)'
  BY <1>1, <1>2 DEF Held, IInv, Ties
<1>6. Ties'
  BY <1>2, <1>3, <1>5 DEF IInv, Ties, Shape, fileVars
<1>7. Written'
  BY <1>2, <1>3 DEF IInv, Written, Alone, Ready, fileVars
<1>8. Alone(r) => ink[reports[r].file] = {r}
  <2> SUFFICES ASSUME Alone(r) PROVE ink[reports[r].file] = {r}
    OBVIOUS
  <2>1. reports[r].file = r
    BY <1>1 DEF Alone
  <2>2. r \in ink[r]
    BY <1>1 DEF IInv, Written, Ready
  <2>3. \A q \in ink[r] : q = r
    BY DEF IInv, Ties, Alone
  <2> QED BY <2>1, <2>2, <2>3
<1>9. AnswerIsOwn'
  BY <1>2, <1>8 DEF IInv, AnswerIsOwn, Answered, Alone
<1>10. NothingLeftBehind'
  BY <1>1, <1>2, <1>3 DEF IInv, NothingLeftBehind, Reading, fileVars
<1> QED BY <1>4, <1>6, <1>7, <1>9, <1>10 DEF IInv

(* _clean takes the name away that all requests of the second share.         *)
LEMMA DisconnectKeeps ==
    ASSUME IInv, NEW r \in Requests, Disconnect(r)
    PROVE  IInv'
<1>1. /\ reports[r].at \in {"answered", "lost", "send", "body"}
      /\ reports[r].asked \in Seconds
  BY DEF Disconnect, IInv, Ties, Held
<1>2. /\ DOMAIN reports' = Requests
      /\ \A q \in Requests :
           /\ DOMAIN reports'[q] = Fields
           /\ reports'[q].asked = reports[q].asked /\ reports'[q].second = reports[q].second
           /\ reports'[q].file = reports[q].file /\ reports'[q].got = reports[q].got
           /\ reports'[q].at = IF q = r THEN "closed" ELSE reports[q].at
  BY DEF Disconnect, To, IInv, Shape, Fields
<1>3. /\ zips' = [zips EXCEPT ![reports[r].second] = None]
      /\ UNCHANGED <<folders, ink>> /\ clock' = clock
  BY DEF Disconnect
<1>4. Shape'
  BY <1>2, <1>3 DEF IInv, Shape
<1>5. \A q \in Requests : Held(q)'
  BY <1>1, <1>2 DEF Held, IInv, Ties
<1>6. \A s \in Seconds : zips'[s] # None => zips'[s] = zips[s] /\ s # reports[r].second
  BY <1>3 DEF IInv, Shape
<1>7. Ties'
  BY <1>2, <1>3, <1>5, <1>6 DEF IInv, Ties, Shape
<1>8. Written' /\ AnswerIsOwn'
  BY <1>2, <1>3 DEF IInv, Written, AnswerIsOwn, Answered, Alone, Ready
<1>9. NothingLeftBehind'
  BY <1>1, <1>2, <1>3, <1>6 DEF IInv, NothingLeftBehind, Reading
<1> QED BY <1>4, <1>7, <1>8, <1>9 DEF IInv

-------------------------------------------------------------------------------
LEMMA ReportStepKeeps ==
    ASSUME IInv, NEW r \in Requests, ReportStep(r)
    PROVE  IInv'
<1>1. CASE ReadGroups(r)
  <2>1. /\ UNCHANGED fileVars /\ clock' \in Seconds
        /\ DOMAIN reports' = Requests
        /\ \A q \in Requests :
             /\ DOMAIN reports'[q] = Fields
             /\ reports'[q].asked = reports[q].asked /\ reports'[q].second = reports[q].second
             /\ reports'[q].file = reports[q].file /\ reports'[q].got = reports[q].got
             /\ \/ reports'[q].at = reports[q].at
                \/ reports[q].at \in Reading /\ reports'[q].at \in Reading
    BY <1>1 DEF ReadGroups, IInv, Shape, Fields, Reading
  <2> QED BY <2>1, Untouched
<1>2. CASE ReadRows(r)
  <2>1. PICK g \in reports[r].left :
          LET found == Retrieved(g, reports[r].filter, Rows(r))
          IN reports' = [reports EXCEPT
              ![r].left = @ \ {g},
              ![r].counted = [x \in Runs |-> @[x] + (IF x \in found THEN 1 ELSE 0)]]
    BY <1>2 DEF ReadRows
  <2>2. /\ DOMAIN reports' = Requests
        /\ \A q \in Requests :
             /\ DOMAIN reports'[q] = Fields
             /\ reports'[q].asked = reports[q].asked /\ reports'[q].second = reports[q].second
             /\ reports'[q].file = reports[q].file /\ reports'[q].got = reports[q].got
             /\ reports'[q].at = reports[q].at
    BY <2>1 DEF IInv, Shape, Fields
  <2>3. UNCHANGED fileVars /\ clock' \in Seconds
    BY <1>2 DEF ReadRows, IInv, Shape
  <2> QED BY <2>2, <2>3, Untouched
<1>3. CASE Draw(r) \/ DrawFails(r) \/ GiveUp(r)
  <2>1. reports[r].at \in Reading /\ \E at \in {"send", "failed"} : Leave(r, at)
    BY <1>3 DEF Draw, DrawFails, GiveUp, AllRead, Reading
  <2> QED BY <2>1, LeaveKeeps
<1> QED BY <1>1, <1>2, <1>3, OpenKeeps, SendBodyKeeps, DisconnectKeeps DEF ReportStep

(* A post changes the backup and its plugins only.                           *)
LEMMA ChangeSinksKeeps ==
    ASSUME IInv, UNCHANGED fileVars, clock' = clock, NEW was, NEW now, ChangeSinks(was, now)
    PROVE  IInv'
<1>1. clock' \in Seconds
  BY DEF IInv, Shape
<1>2. CASE UNCHANGED reports
  BY <1>1, <1>2, Untouched DEF IInv, Shape
<1>3. CASE MoveSink(now)
  <2>1. /\ DOMAIN reports' = Requests
        /\ \A q \in Requests :
             /\ DOMAIN reports'[q] = Fields
             /\ reports'[q].asked = reports[q].asked /\ reports'[q].second = reports[q].second
             /\ reports'[q].file = reports[q].file /\ reports'[q].got = reports[q].got
             /\ reports'[q].at = reports[q].at
    BY <1>3 DEF MoveSink, IInv, Shape, Fields
  <2> QED BY <1>1, <2>1, Untouched
<1> QED BY <1>2, <1>3 DEF ChangeSinks, ConnectSink, DropSink

SinksChange ==
    \/ UNCHANGED <<plugins, backup, reports>>
    \/ ChangeSinks(Sqlite(ctx.config), Sqlite(ctx'.config))

LEMMA PostFrame ==
    ASSUME NEW c \in Clients, PostUp(c) \/ PostDown(c) \/ PostRaises(c)
    PROVE  SinksChange /\ UNCHANGED <<clock, stored, fileVars, faults, crontab, files, scene>>
BY DEF PostUp, PostDown, PostRaises, TakeOver, SinksChange

LEMMA StepKeeps ==
    ASSUME IInv, [Next]_vars
    PROVE  IInv'
<1> clock \in Seconds
  BY DEF IInv, Shape
<1>1. CASE UNCHANGED <<fileVars, clock, reports>>
  BY <1>1, Untouched DEF IInv, Shape
<1>2. ASSUME NEW c \in Clients, ClientStep(c) PROVE IInv'
  <2>1. CASE PostUp(c) \/ PostDown(c) \/ PostRaises(c)
    BY <1>1, <2>1, ChangeSinksKeeps, PostFrame DEF SinksChange
  <2> QED BY <1>1, <1>2, <2>1 DEF ClientStep, reportVars
<1>3. CASE StoreRun
  BY <1>1, <1>3 DEF StoreRun, Store
<1>4. ASSUME NEW r \in Requests, AskReport(r) PROVE IInv'
  BY <1>4, AskKeeps DEF AskReport
<1>5. CASE Tick
  <2>1. clock' \in Seconds /\ UNCHANGED <<fileVars, reports>>
    BY <1>5, ReportsAssumption DEF Tick, Seconds
  <2> QED BY <2>1, Untouched DEF IInv, Shape
<1> QED BY <1>1, <1>2, <1>3, <1>4, <1>5, ReportStepKeeps DEF Next, vars, reportVars

(* A client whose request for a report is the only one in its second gets
   its own report, whole, whatever other requests come before and after,
   whatever fails, and whoever changes the sinks (make_plots, _clean).       *)
THEOREM AnswersAreOwn == Spec => []AnswerIsOwn
<1>1. IInv => AnswerIsOwn
  BY DEF IInv
<1> QED BY <1>1, InitIInv, StepKeeps, PTL DEF Spec

(* No folder of plots stays behind whichever way its request ended, and no
   zip file unless a request of its second failed (make_plots, _clean).      *)
THEOREM FilesGo == Spec => []NothingLeftBehind
<1>1. IInv => NothingLeftBehind
  BY DEF IInv
<1> QED BY <1>1, InitIInv, StepKeeps, PTL DEF Spec

-------------------------------------------------------------------------------
(* The backup is the default or a plugin of a sink, the configured one until
   an update raises.                                                         *)
Backed ==
    /\ plugins \in Seq(Databases \cup {None}) /\ Len(plugins) >= 1
    /\ backup \in 1..Len(plugins) /\ plugins[backup] \in Databases
    /\ plugins[1] = DefaultDatabase
    /\ Unraised => BackedBy(ctx.config.sinks)

StoredTyped == stored \in [Databases -> SUBSET Runs]

(* What a request has counted.                                               *)
OfGroup(g) == \E d \in Databases : \E y \in stored[d] : y.group = g
Cityless(x) ==
    \E d \in Databases : \E y \in stored[d] :
       AtHome(y.group) /\ y.group.city = None /\ y.group.vpn = x.group.vpn
Base(r) == plugins[reports[r].plugin]
InDays(r, x) == x.day \in Start(reports[r].filter)..End(reports[r].filter)

After == {"send", "body", "answered", "lost", "closed"}

OneBase(r) ==
    \E d \in Databases : /\ Counted(r) \subseteq stored[d]
                         /\ reports[r].at \in Reading => Base(r) \in {d, None}

Whole(r) ==
    /\ reports[r].at \in Reading =>
         \A x \in reports[r].owed : /\ x \in Runs /\ AtHome(x.group) /\ InDays(r, x)
                                    /\ Base(r) # None => x \in stored[Base(r)]
    /\ reports[r].at = "rows" =>
         \A x \in reports[r].owed : x \in Counted(r) \/ x.group \in reports[r].left
    /\ reports[r].at \in After => reports[r].owed \subseteq Counted(r)

Reader(r) ==
    /\ reports[r].counted \in [Runs -> Nat] /\ reports[r].moved \in BOOLEAN
    /\ reports[r].at \in Reading \cup {"send"} => reports[r].plugin \in 1..Len(plugins)
    /\ reports[r].at \in Reading \cup Over \cup After \cup {"none"}
    /\ reports[r].at \in {"none", "groups"} => \A x \in Runs : reports[r].counted[x] = 0
    /\ \A g \in reports[r].left : AtHome(g) /\ OfGroup(g)
    /\ \A x \in Runs : reports[r].counted[x] > 1 => Cityless(x)
    /\ \A x \in Runs : reports[r].counted[x] > 0 /\ x.group \in reports[r].left => Cityless(x)
    /\ ~reports[r].moved => OneBase(r) /\ Whole(r)
    /\ Answered(r) => reports[r].at \in {"answered", "closed"}

FilesTyped ==
    folders \subseteq Seconds /\ ink \in [Requests -> SUBSET Requests] /\ faults \in BOOLEAN

ReadInv ==
    StoredTyped /\ Backed /\ FilesTyped /\ \A r \in Requests : Reader(r)

(* The sinks' data only grows, and plugins stay where they are.              *)
Grown ==
    /\ stored' \in [Databases -> SUBSET Runs] /\ \A d \in Databases : stored[d] \subseteq stored'[d]
    /\ Len(plugins) \in Nat /\ Len(plugins') \in Nat /\ Len(plugins) <= Len(plugins')

(* A request goes on without reading, or its sink goes.                      *)
LEMMA ReaderKept ==
    ASSUME StoredTyped, Grown, NEW r \in Requests, Reader(r),
           reports'[r].counted = reports[r].counted, reports'[r].left = reports[r].left,
           reports'[r].filter = reports[r].filter, reports'[r].owed = reports[r].owed,
           reports'[r].plugin = reports[r].plugin, reports'[r].moved \in BOOLEAN,
           reports[r].moved => reports'[r].moved,
           reports'[r].at \in Reading => reports'[r].at = reports[r].at,
           reports'[r].at \in After =>
              \/ reports[r].at \in After
              \/ reports[r].at = "rows" /\ reports[r].left = {},
           reports'[r].at \in Reading \cup Over \cup After \cup {"none"},
           reports'[r].at = "send" => reports[r].at \in Reading \cup {"send"},
           reports'[r].at = "none" => reports[r].at = "none",
           Answered(r)' => reports'[r].at \in {"answered", "closed"},
           ~reports'[r].moved /\ reports'[r].at \in Reading =>
              plugins'[reports[r].plugin] \in {Base(r), None}
    PROVE  Reader(r)'
<1>1. /\ reports'[r].counted \in [Runs -> Nat] /\ reports'[r].moved \in BOOLEAN
      /\ reports'[r].at \in Reading \cup {"send"} => reports'[r].plugin \in 1..Len(plugins')
      /\ reports'[r].at \in {"none", "groups"} => \A x \in Runs : reports'[r].counted[x] = 0
  BY DEF Reader, Grown, Reading
<1>2. \A g : OfGroup(g) => OfGroup(g)'
  BY DEF OfGroup, Grown
<1>3. \A x : Cityless(x) => Cityless(x)'
  BY DEF Cityless, Grown
<1>4. ASSUME ~reports'[r].moved PROVE OneBase(r)' /\ Whole(r)'
  <2>1. ~reports[r].moved /\ OneBase(r) /\ Whole(r)
    BY <1>4 DEF Reader
  <2>2. Counted(r)' = Counted(r)
    BY DEF Counted
  <2>3. reports'[r].at \in Reading => reports'[r].at = reports[r].at /\ Base(r)' \in {Base(r), None}
    BY <1>4 DEF Base
  <2>4. OneBase(r)'
    <3>1. PICK d \in Databases : /\ Counted(r) \subseteq stored[d]
                                 /\ reports[r].at \in Reading => Base(r) \in {d, None}
      BY <2>1 DEF OneBase
    <3>2. Counted(r)' \subseteq stored'[d]
      BY <2>2, <3>1 DEF Grown
    <3> QED
      BY <2>3, <3>1, <3>2 DEF OneBase
  <2>5. reports'[r].at \in After => reports'[r].owed \subseteq Counted(r)'
    BY <2>1, <2>2 DEF Whole
  <2>6. reports'[r].at \in Reading =>
          \A x \in reports'[r].owed : /\ x \in Runs /\ AtHome(x.group) /\ InDays(r, x)'
                                      /\ Base(r)' # None => x \in stored'[Base(r)']
    <3> SUFFICES ASSUME reports'[r].at \in Reading, NEW x \in reports[r].owed
                 PROVE  /\ x \in Runs /\ AtHome(x.group) /\ InDays(r, x)'
                        /\ Base(r)' # None => x \in stored'[Base(r)']
      OBVIOUS
    <3>1. /\ x \in Runs /\ AtHome(x.group) /\ InDays(r, x)
          /\ Base(r) # None => x \in stored[Base(r)]
      BY <2>1, <2>3 DEF Whole
    <3>2. InDays(r, x)'
      BY <3>1 DEF InDays, Start, End
    <3>3. Base(r) # None => Base(r) \in Databases
      BY <2>1, <2>3 DEF OneBase
    <3> QED
      BY <2>3, <3>1, <3>2, <3>3 DEF Grown
  <2>7. reports'[r].at = "rows" =>
          \A x \in reports'[r].owed : x \in Counted(r)' \/ x.group \in reports'[r].left
    BY <2>1, <2>2 DEF Whole, Reading
  <2> QED
    BY <2>4, <2>5, <2>6, <2>7 DEF Whole
<1> QED
  BY <1>1, <1>2, <1>3, <1>4 DEF Reader

(* A request begins to read: everything is still to be counted.              *)
LEMMA ReaderBegins ==
    ASSUME IInv, StoredTyped, Backed, NEW r \in Requests, Reader(r), NEW f,
           reports[r].at = "none", NEW inode, NEW second, Begin(r, f, second, inode),
           UNCHANGED <<stored, plugins, backup>>
    PROVE  Reader(r)'
<1> DEFINE owed == {x \in stored[plugins[backup]] : AtHome(x.group) /\ x.day \in Start(f)..End(f)}
<1>1. plugins[backup] \in Databases /\ plugins[backup] # None /\ backup \in 1..Len(plugins)
  BY ReportsAssumption DEF Backed
<1>2. /\ reports'[r].at = "groups" /\ reports'[r].filter = f /\ reports'[r].plugin = backup
      /\ reports'[r].owed = owed /\ reports'[r].counted = reports[r].counted
      /\ reports'[r].left = reports[r].left /\ reports'[r].moved = reports[r].moved
      /\ reports'[r].got = reports[r].got
  <2>1. reports' = [reports EXCEPT ![r] =
           [@ EXCEPT !.at = "groups", !.filter = f, !.asked = clock, !.second = second,
                     !.plugin = backup, !.file = inode, !.owed = owed]]
    BY <1>1 DEF Begin
  <2> HIDE DEF owed
  <2>2. DOMAIN reports[r] = Fields /\ DOMAIN reports = Requests
    BY DEF IInv, Shape
  <2> QED
    BY <2>1, <2>2 DEF Fields
<1>3. /\ reports[r].counted \in [Runs -> Nat] /\ reports[r].moved \in BOOLEAN
      /\ \A x \in Runs : reports[r].counted[x] = 0
      /\ \A g \in reports[r].left : AtHome(g) /\ OfGroup(g)
      /\ ~Answered(r)
  BY DEF Reader
<1>4. Base(r)' = plugins[backup] /\ Counted(r)' = {}
  BY <1>2, <1>3 DEF Base, Counted
<1>5. OneBase(r)'
  BY <1>1, <1>4 DEF OneBase
<1>6. Whole(r)'
  <2>1. ASSUME NEW x \in owed
        PROVE  x \in Runs /\ AtHome(x.group) /\ InDays(r, x)' /\ x \in stored'[Base(r)']
    <3>1. x \in stored[plugins[backup]] /\ AtHome(x.group) /\ x.day \in Start(f)..End(f)
      OBVIOUS
    <3>2. InDays(r, x)'
      BY <1>2, <3>1 DEF InDays
    <3> QED
      BY <1>1, <1>4, <3>1, <3>2 DEF StoredTyped
  <2> QED
    BY <1>2, <2>1 DEF Whole, After
<1>7. \A g : OfGroup(g) => OfGroup(g)'
  BY DEF OfGroup
<1>8. ~Answered(r)'
  BY <1>2, <1>3 DEF Answered
<1> HIDE DEF owed
<1> QED
  BY <1>1, <1>2, <1>3, <1>5, <1>6, <1>7, <1>8 DEF Reader, Reading

(* The groups of the moment are to be read, among them those of what is owed.*)
LEMMA ReaderGroups ==
    ASSUME IInv, StoredTyped, Backed, NEW r \in Requests, Reader(r), ReadGroups(r)
    PROVE  Reader(r)'
<1> DEFINE left == {g \in {x.group : x \in Rows(r)} : AtHome(g)}
<1>1. /\ reports[r].at = "groups" /\ Base(r) # None
      /\ UNCHANGED <<stored, plugins>>
  BY DEF ReadGroups, Base, sinkVars
<1>2. /\ reports'[r].at = "rows" /\ reports'[r].filter = reports[r].filter
      /\ reports'[r].plugin = reports[r].plugin /\ reports'[r].owed = reports[r].owed
      /\ reports'[r].counted = reports[r].counted /\ reports'[r].left = left
      /\ reports'[r].moved = reports[r].moved /\ reports'[r].got = reports[r].got
  <2>1. reports' = [reports EXCEPT ![r] = [@ EXCEPT !.at = "rows", !.left = left]]
    BY DEF ReadGroups
  <2> HIDE DEF left
  <2>2. DOMAIN reports[r] = Fields /\ DOMAIN reports = Requests
    BY DEF IInv, Shape
  <2> QED
    BY <2>1, <2>2 DEF Fields
<1>3. /\ reports[r].counted \in [Runs -> Nat] /\ reports[r].moved \in BOOLEAN
      /\ reports[r].plugin \in 1..Len(plugins) /\ ~Answered(r)
      /\ \A x \in Runs : reports[r].counted[x] = 0
  BY <1>1 DEF Reader, Reading
<1>4. Rows(r) = stored[Base(r)]
  BY DEF Rows, Base
<1>5. Base(r) \in Databases
  BY <1>1, <1>3 DEF Backed, Base
<1>6. \A g \in left : AtHome(g) /\ OfGroup(g)
  BY <1>4, <1>5 DEF OfGroup
<1>7. \A g : OfGroup(g) => OfGroup(g)'
  BY <1>1 DEF OfGroup
<1>8. Counted(r)' = {} /\ Base(r)' = Base(r)
  BY <1>1, <1>2, <1>3 DEF Counted, Base
<1>9. ASSUME ~reports[r].moved PROVE OneBase(r)' /\ Whole(r)'
  <2>1. OneBase(r) /\ Whole(r)
    BY <1>9 DEF Reader
  <2>2. OneBase(r)'
    BY <1>5, <1>8 DEF OneBase
  <2>3. ASSUME NEW x \in reports[r].owed
        PROVE  /\ x \in Runs /\ AtHome(x.group) /\ InDays(r, x)' /\ x \in stored'[Base(r)']
               /\ x.group \in left
    <3>1. x \in Runs /\ AtHome(x.group) /\ InDays(r, x) /\ x \in stored[Base(r)]
      BY <1>1, <2>1 DEF Whole, Reading
    <3>2. InDays(r, x)'
      BY <1>2, <3>1 DEF InDays, Start, End
    <3> QED
      BY <1>1, <1>4, <1>8, <3>1, <3>2
  <2> HIDE DEF left
  <2> QED
    BY <1>2, <2>2, <2>3 DEF Whole, After
<1>10. ~Answered(r)'
  BY <1>2, <1>3 DEF Answered
<1> HIDE DEF left
<1> QED
  BY <1>1, <1>2, <1>3, <1>6, <1>7, <1>9, <1>10 DEF Reader, Reading

(* A group's runs are counted: once each, unless a group without a city      *)
(* stands for the cities of its countries.                                   *)
LEMMA ReaderRows ==
    ASSUME IInv, StoredTyped, Backed, NEW r \in Requests, Reader(r), ReadRows(r)
    PROVE  Reader(r)'
<1>1. /\ reports[r].at = "rows" /\ Base(r) # None
      /\ UNCHANGED <<stored, plugins>>
  BY DEF ReadRows, Base, sinkVars
<1>2. PICK g \in reports[r].left :
        LET found == Retrieved(g, reports[r].filter, Rows(r))
        IN reports' = [reports EXCEPT
             ![r].left = reports[r].left \ {g},
             ![r].counted = [x \in Runs |-> reports[r].counted[x] + (IF x \in found THEN 1 ELSE 0)]]
  BY DEF ReadRows
<1> DEFINE found == Retrieved(g, reports[r].filter, Rows(r))
<1>3. /\ reports[r].counted \in [Runs -> Nat] /\ reports[r].moved \in BOOLEAN
      /\ reports[r].plugin \in 1..Len(plugins) /\ ~Answered(r)
  BY <1>1 DEF Reader, Reading
<1>4. /\ reports'[r].at = "rows" /\ reports'[r].filter = reports[r].filter
      /\ reports'[r].plugin = reports[r].plugin /\ reports'[r].owed = reports[r].owed
      /\ reports'[r].left = reports[r].left \ {g}
      /\ reports'[r].moved = reports[r].moved /\ reports'[r].got = reports[r].got
      /\ reports'[r].counted =
           [x \in Runs |-> reports[r].counted[x] + (IF x \in found THEN 1 ELSE 0)]
  <2> DEFINE counts == [x \in Runs |-> reports[r].counted[x] + (IF x \in found THEN 1 ELSE 0)]
  <2> DEFINE left == reports[r].left \ {g}
  <2>1. reports' = [reports EXCEPT ![r].left = left, ![r].counted = counts]
    BY <1>2
  <2> HIDE DEF found, counts, left
  <2>2. DOMAIN reports[r] = Fields /\ DOMAIN reports = Requests
    BY DEF IInv, Shape
  <2> QED
    BY <1>1, <2>1, <2>2 DEF Fields, counts, left
<1>5. Base(r) \in Databases /\ Rows(r) = stored[Base(r)] /\ Base(r)' = Base(r)
  BY <1>1, <1>3, <1>4 DEF Backed, Base, Rows
<1>6. AtHome(g) /\ OfGroup(g)
  BY DEF Reader
<1>7. \A x : x \in found <=> x \in stored[Base(r)] /\ Matches(g, x.group) /\ InDays(r, x)
  BY <1>5 DEF Retrieved, InDays
<1> HIDE DEF found
<1>8. found \subseteq Runs
  BY <1>5, <1>7 DEF StoredTyped
<1>9. \A x \in Runs : g.city = None /\ g.vpn = x.group.vpn => Cityless(x)
  BY <1>6 DEF OfGroup, Cityless
<1>10. ASSUME NEW x \in Runs, Matches(g, x.group), g # x.group PROVE Cityless(x)
  <2>1. g.vpn = x.group.vpn /\ g.target = x.group.target /\ g.city \in {None, x.group.city}
    BY <1>10 DEF Matches
  <2>2. PICK y \in Runs : y.group = g
    BY <1>6 DEF OfGroup, StoredTyped
  <2>3. /\ g = [vpn |-> g.vpn, target |-> g.target, city |-> g.city]
        /\ x.group = [vpn |-> x.group.vpn, target |-> x.group.target, city |-> x.group.city]
    BY <2>2, ReportsAssumption
  <2>4. g.city = None
    BY <1>10, <2>1, <2>3
  <2> QED
    BY <1>9, <2>1, <2>4
<1>11. /\ reports'[r].counted \in [Runs -> Nat]
       /\ \A x \in Runs : reports'[r].counted[x] =
                           IF x \in found THEN reports[r].counted[x] + 1 ELSE reports[r].counted[x]
  BY <1>3, <1>4
<1>12. ASSUME NEW x \in Runs, reports'[r].counted[x] > 1 PROVE Cityless(x)
  <2>1. CASE reports[r].counted[x] > 1
    BY <2>1 DEF Reader
  <2>2. CASE ~(reports[r].counted[x] > 1)
    <3>1. x \in found /\ reports[r].counted[x] > 0
      BY <1>3, <1>11, <1>12, <2>2
    <3>2. CASE g = x.group
      BY <3>1, <3>2 DEF Reader
    <3>3. CASE g # x.group
      BY <1>7, <1>10, <3>1, <3>3
    <3> QED
      BY <3>2, <3>3
  <2> QED
    BY <2>1, <2>2
<1>13. ASSUME NEW x \in Runs, reports'[r].counted[x] > 0, x.group \in reports[r].left \ {g}
       PROVE  Cityless(x)
  <2>1. CASE reports[r].counted[x] > 0
    BY <1>13, <2>1 DEF Reader
  <2>2. CASE ~(reports[r].counted[x] > 0)
    <3>1. x \in found
      BY <1>3, <1>11, <1>13, <2>2
    <3> QED
      BY <1>7, <1>10, <1>13, <3>1
  <2> QED
    BY <2>1, <2>2
<1>14. /\ \A h : OfGroup(h) => OfGroup(h)'
       /\ \A x : Cityless(x) => Cityless(x)'
  BY <1>1 DEF OfGroup, Cityless
<1>15. Counted(r)' = Counted(r) \cup found
  BY <1>3, <1>8, <1>11 DEF Counted
<1>16. ASSUME ~reports[r].moved PROVE OneBase(r)' /\ Whole(r)'
  <2>1. OneBase(r) /\ Whole(r)
    BY <1>16 DEF Reader
  <2>2. OneBase(r)'
    <3>1. PICK d \in Databases : Counted(r) \subseteq stored[d] /\ Base(r) \in {d, None}
      BY <1>1, <2>1 DEF OneBase, Reading
    <3>2. Base(r) = d /\ Counted(r)' \subseteq stored'[d]
      BY <1>1, <1>7, <1>15, <3>1
    <3> QED
      BY <1>5, <3>2 DEF OneBase
  <2>3. ASSUME NEW x \in reports[r].owed
        PROVE  /\ x \in Runs /\ AtHome(x.group) /\ InDays(r, x)' /\ x \in stored'[Base(r)']
               /\ x \in Counted(r)' \/ x.group \in reports'[r].left
    <3>1. x \in Runs /\ AtHome(x.group) /\ InDays(r, x) /\ x \in stored[Base(r)]
          /\ (x \in Counted(r) \/ x.group \in reports[r].left)
      BY <1>1, <2>1 DEF Whole, Reading
    <3>2. InDays(r, x)'
      BY <1>4, <3>1 DEF InDays, Start, End
    <3>3. x.group = g => x \in found
      BY <1>7, <3>1 DEF Matches
    <3> QED
      BY <1>1, <1>4, <1>5, <1>15, <3>1, <3>2, <3>3
  <2> QED
    BY <1>4, <2>2, <2>3 DEF Whole, After
<1>17. ~Answered(r)'
  BY <1>3, <1>4 DEF Answered
<1>18. \A h \in reports'[r].left : AtHome(h) /\ OfGroup(h)'
  BY <1>4, <1>14 DEF Reader
<1> QED
  BY <1>1, <1>3, <1>4, <1>11, <1>12, <1>13, <1>14, <1>16, <1>17, <1>18 DEF Reader, Reading

-------------------------------------------------------------------------------
LEMMA SqliteIs ==
    ASSUME Typed
    PROVE  /\ None \notin Databases /\ DefaultDatabase \in Databases
           /\ ctx.config.sinks = <<>> => Sqlite(ctx.config) = None
           /\ ctx.config.sinks # <<>> => /\ Sqlite(ctx.config) \in Databases
                                         /\ ctx.config.sinks["sqlite"] = Sqlite(ctx.config)
BY ReportsAssumption DEF Typed, Sqlite

(* What an update left behind when it raised is not forgotten.               *)
LEMMA RaisedStays ==
    ASSUME Typed, Numbered, [Next]_vars, Unraised'
    PROVE  Unraised
<1>1. CASE \E client, n : IsNew(client) /\ Begins(n, client)
  <2>1. PICK client, n : IsNew(client) /\ Begins(n, client)
    BY <1>1
  <2>2. n \in Clients => clients[n].at = "none"
    BY <2>1, Numbers DEF Begins
  <2> QED
    BY <2>1, <2>2 DEF Begins, Unraised
<1>2. ASSUME NEW c \in Clients, ClientStep(c) PROVE Unraised
  BY <1>2, Going DEF GoesOn, Unraised, Working
<1>3. CASE UNCHANGED clients
  BY <1>3 DEF Unraised
<1> QED
  BY <1>1, <1>2, <1>3, StepsOfCommands, EditFrame, IdleFrame DEF CommandStep, clientVars

(* The backup follows the configuration.                                     *)
LEMMA ChangedBackup ==
    ASSUME Typed, Typed', StoredTyped, Backed, stored' = stored, Unraised' => Unraised,
           ChangeSinks(Sqlite(ctx.config), Sqlite(ctx'.config))
    PROVE  Backed' /\ Grown
<1> DEFINE was == Sqlite(ctx.config)
           now == Sqlite(ctx'.config)
<1>1. /\ None \notin Databases
      /\ ctx.config.sinks = <<>> => was = None
      /\ ctx.config.sinks # <<>> => was \in Databases /\ ctx.config.sinks["sqlite"] = was
  BY SqliteIs
<1>2. /\ ctx'.config.sinks = <<>> => now = None
      /\ ctx'.config.sinks # <<>> => now \in Databases /\ ctx'.config.sinks["sqlite"] = now
  BY DEF Typed, Sqlite
<1>3. /\ plugins \in Seq(Databases \cup {None}) /\ Len(plugins) \in Nat /\ Len(plugins) >= 1
      /\ backup \in 1..Len(plugins) /\ plugins[backup] \in Databases
      /\ plugins[1] = DefaultDatabase
  BY DEF Backed
<1>4. \/ was = now /\ UNCHANGED <<plugins, backup>>
      \/ /\ now # None
         /\ plugins' = Append(plugins, now) /\ backup' = Len(plugins) + 1
      \/ /\ now = None /\ backup # 1
         /\ plugins' = [plugins EXCEPT ![backup] = None] /\ backup' = 1
      \/ /\ now # None /\ backup # 1
         /\ plugins' = [plugins EXCEPT ![backup] = now] /\ backup' = backup
  BY DEF ChangeSinks, ConnectSink, DropSink, MoveSink
<1> HIDE DEF was, now
<1> DEFINE Follows == /\ plugins' \in Seq(Databases \cup {None}) /\ Len(plugins') >= Len(plugins)
                      /\ backup' \in 1..Len(plugins') /\ plugins'[backup'] \in Databases
                      /\ plugins'[1] = DefaultDatabase /\ Len(plugins') \in Nat
                      /\ Unraised' => BackedBy(ctx.config.sinks)'
<1> SUFFICES Follows
  BY <1>3 DEF Backed, Grown, StoredTyped
<1>5. CASE was = now /\ UNCHANGED <<plugins, backup>>
  <2>1. ASSUME Unraised' PROVE BackedBy(ctx.config.sinks)'
    <3>1. BackedBy(ctx.config.sinks)
      BY <2>1 DEF Backed
    <3> QED
      BY <1>1, <1>2, <1>5, <3>1 DEF BackedBy
  <2> QED
    BY <1>3, <1>5, <2>1
<1>6. CASE now # None /\ plugins' = Append(plugins, now) /\ backup' = Len(plugins) + 1
  BY <1>2, <1>3, <1>6 DEF BackedBy
<1>7. CASE /\ now = None /\ backup # 1
           /\ plugins' = [plugins EXCEPT ![backup] = None] /\ backup' = 1
  <2>1. ctx'.config.sinks = <<>> /\ DefaultDatabase \in Databases
    BY <1>1, <1>2, <1>7, ReportsAssumption
  <2> QED
    BY <1>3, <1>7, <2>1 DEF BackedBy
<1>8. CASE /\ now # None /\ backup # 1
           /\ plugins' = [plugins EXCEPT ![backup] = now] /\ backup' = backup
  BY <1>2, <1>3, <1>8 DEF BackedBy
<1> QED
  BY <1>4, <1>5, <1>6, <1>7, <1>8

LEMMA SinksKept ==
    ASSUME Typed, Numbered, Typed', StoredTyped, Backed, [Next]_vars
    PROVE  StoredTyped' /\ Backed' /\ Grown
<1>a. Unraised' => Unraised
  BY RaisedStays
<1>1. ASSUME UNCHANGED <<stored, plugins, backup>>, ctx'.config = ctx.config \/ ~Unraised'
      PROVE  StoredTyped' /\ Backed' /\ Grown
  BY <1>a, <1>1 DEF StoredTyped, Backed, Grown, BackedBy
<1>2. CASE StoreRun
  <2>1. PICK x \in scene.runs : Store(x)
    BY <1>2 DEF StoreRun
  <2>2. x \in Runs
    BY ClientAssumption DEF Typed, IsScene
  <2>3. plugins[backup] \in Databases
    BY DEF Backed
  <2>4. /\ stored' = [stored EXCEPT ![plugins[backup]] = @ \cup {x}]
        /\ UNCHANGED <<plugins, backup, ctx>>
    BY <1>2, <2>1 DEF Store, StoreRun, clientVars
  <2>5. StoredTyped' /\ \A d \in Databases : stored[d] \subseteq stored'[d]
    BY <2>2, <2>3, <2>4 DEF StoredTyped
  <2> QED
    BY <1>a, <2>4, <2>5 DEF StoredTyped, Backed, Grown, BackedBy
<1>3. ASSUME NEW c \in Clients, PostUp(c) \/ PostDown(c) \/ PostRaises(c)
      PROVE  StoredTyped' /\ Backed' /\ Grown
  <2>1. stored' = stored /\ SinksChange
    BY <1>3, PostFrame
  <2>2. CASE ChangeSinks(Sqlite(ctx.config), Sqlite(ctx'.config))
    BY <1>a, <2>1, <2>2, ChangedBackup DEF StoredTyped
  <2>3. CASE PostRaises(c) /\ UNCHANGED <<plugins, backup, reports>>
    <3>1. ~Unraised'
      BY <2>3, Settling DEF PostRaises, Unraised
    <3> QED
      BY <1>1, <2>1, <2>3, <3>1
  <2> QED
    BY <1>3, <2>1, <2>2, <2>3 DEF SinksChange, PostUp, PostDown, TakeOver
<1>4. ASSUME NEW r \in Requests, AskReport(r) \/ (ReportStep(r) /\ UNCHANGED clientVars)
      PROVE  UNCHANGED <<stored, plugins, backup, ctx>>
  BY <1>4 DEF AskReport, Ask, ReportStep, ReadGroups, ReadRows, Draw, DrawFails, GiveUp, Leave,
              Open, SendBody, Disconnect, sinkVars, clientVars
<1> QED
  BY <1>1, <1>2, <1>3, <1>4, IdleFrame
  DEF Next, vars, reportVars, sinkVars, clientVars, Up, Down, Schedule, CronFires, Launch, Edit,
      ClientStep, PostFails, ReadTab, WriteTab, BadTimes, Tick

(* The requests after a step that has not read for them.                     *)
LEMMA ReaderSame ==
    ASSUME StoredTyped, Grown, NEW r \in Requests, Reader(r), reports'[r] = reports[r],
           ~reports[r].moved /\ reports[r].at \in Reading =>
              plugins'[reports[r].plugin] \in {Base(r), None}
    PROVE  Reader(r)'
<1>1. Answered(r)' => reports'[r].at \in {"answered", "closed"}
  BY DEF Reader, Answered
<1>2. /\ reports[r].moved \in BOOLEAN
      /\ reports[r].at \in Reading \cup Over \cup After \cup {"none"}
  BY DEF Reader
<1> QED
  BY <1>1, <1>2, ReaderKept

LEMMA ReaderMovesOn ==
    ASSUME IInv, StoredTyped, Grown, UNCHANGED plugins, NEW r \in Requests, NEW q \in Requests,
           Reader(r), NEW at, To(q, at),
           at \in {"failed", "lost", "closed"} \/ (at = "send" /\ AllRead(q)),
           at = "lost" \/ at = "closed" => reports[q].at \in After,
           at \in {"failed", "lost"} => reports[q].at \in {"none", "send"} \cup Reading
    PROVE  Reader(r)'
<1>1. /\ DOMAIN reports = Requests /\ DOMAIN reports[q] = Fields
  BY DEF IInv, Shape
<1>2. q # r => reports'[r] = reports[r]
  BY <1>1 DEF To
<1>3. CASE q # r
  BY <1>2, <1>3, ReaderSame DEF Base
<1>4. CASE q = r
  <2>1. /\ reports'[r].at = at /\ reports'[r].got = reports[r].got
        /\ reports'[r].counted = reports[r].counted /\ reports'[r].left = reports[r].left
        /\ reports'[r].filter = reports[r].filter /\ reports'[r].owed = reports[r].owed
        /\ reports'[r].plugin = reports[r].plugin /\ reports'[r].moved = reports[r].moved
    BY <1>1, <1>4 DEF To, Fields
  <2>2. Answered(r)' => reports'[r].at \in {"answered", "closed"}
    <3>1. Answered(r)' => Answered(r)
      BY <2>1 DEF Answered
    <3>2. Answered(r) => reports[r].at \in {"answered", "closed"}
      BY DEF Reader
    <3> QED
      BY <1>4, <2>1, <3>1, <3>2 DEF AllRead, Reading
  <2>3. reports[r].moved \in BOOLEAN
    BY DEF Reader
  <2>4. at \notin Reading /\ at # "none" /\ at \in Over \cup After
    BY DEF Reading, Over, After, AllRead
  <2>5. reports'[r].at \in After => \/ reports[r].at \in After
                                    \/ reports[r].at = "rows" /\ reports[r].left = {}
    BY <1>4, <2>1 DEF AllRead, After
  <2>6. at = "send" => reports[r].at \in Reading
    BY <1>4 DEF AllRead, Reading
  <2> QED
    BY <2>1, <2>2, <2>3, <2>4, <2>5, <2>6, ReaderKept
<1> QED
  BY <1>3, <1>4

LEMMA ReadersKept ==
    ASSUME IInv, Typed, StoredTyped, Backed, Grown, \A q \in Requests : Reader(q),
           [Next]_vars, NEW r \in Requests
    PROVE  Reader(r)'
<1>a. Reader(r) /\ DOMAIN reports = Requests /\ \A q \in Requests : DOMAIN reports[q] = Fields
  BY DEF IInv, Shape
<1>1. CASE UNCHANGED <<plugins, reports>>
  BY <1>a, <1>1, ReaderSame DEF Base
<1>2. ASSUME NEW q \in Requests, AskReport(q) PROVE Reader(r)'
  <2>1. PICK f \in scene.filters : Ask(q, f)
    BY <1>2 DEF AskReport
  <2>2. UNCHANGED <<stored, plugins, backup>> /\ reports[q].at = "none"
    BY <2>1 DEF Ask, sinkVars
  <2>3. CASE Valid(f)
    <3>1. PICK inode : Begin(q, f, Stamp(clock), inode)
      BY <2>1, <2>3 DEF Ask
    <3>2. CASE q = r
      BY <1>a, <2>2, <3>1, <3>2, ReaderBegins
    <3>3. CASE q # r
      <4>1. reports'[r] = reports[r]
        BY <1>a, <3>1, <3>3 DEF Begin
      <4> QED
        BY <1>a, <2>2, <4>1, ReaderSame DEF Base
    <3> QED
      BY <3>2, <3>3
  <2>4. CASE ~Valid(f)
    <3>1. To(q, "failed")
      BY <2>1, <2>4 DEF Ask
    <3> QED
      BY <1>a, <2>2, <3>1, ReaderMovesOn
  <2> QED
    BY <2>3, <2>4
<1>3. ASSUME NEW q \in Requests, ReportStep(q) PROVE Reader(r)'
  <2>1. UNCHANGED <<stored, plugins, backup>>
    BY <1>3 DEF ReportStep, ReadGroups, ReadRows, Draw, DrawFails, GiveUp, Leave, Open, SendBody,
                Disconnect, sinkVars
  <2>2. ASSUME ReadGroups(q) \/ ReadRows(q) PROVE Reader(r)'
    <3>1. CASE q = r
      BY <1>a, <2>2, <3>1, ReaderGroups, ReaderRows
    <3>2. CASE q # r
      <4>1. reports'[r] = reports[r]
        BY <1>a, <2>2, <3>2 DEF ReadGroups, ReadRows
      <4> QED
        BY <1>a, <2>1, <4>1, ReaderSame DEF Base
    <3> QED
      BY <3>1, <3>2
  <2>3. ASSUME Draw(q) \/ DrawFails(q) \/ GiveUp(q) PROVE Reader(r)'
    <3>1. \/ To(q, "send") /\ AllRead(q)
          \/ To(q, "failed") /\ reports[q].at \in Reading
      BY <2>3 DEF Draw, DrawFails, GiveUp, Leave, AllRead, Reading
    <3> QED
      BY <1>a, <2>1, <3>1, ReaderMovesOn
  <2>4. CASE Disconnect(q)
    <3>1. To(q, "closed") /\ reports[q].at \in After
      BY <2>4 DEF Disconnect, After
    <3> QED
      BY <1>a, <2>1, <3>1, ReaderMovesOn
  <2>5. CASE Open(q) /\ To(q, "lost")
    <3>1. reports[q].at = "send" /\ reports[q].at \in After
      BY <2>5 DEF Open, After
    <3> QED
      BY <1>a, <2>1, <2>5, <3>1, ReaderMovesOn
  <2>6. ASSUME NEW file, reports[q].at = "send",
               reports' = [reports EXCEPT ![q] = [@ EXCEPT !.at = "body", !.file = file]]
        PROVE  Reader(r)'
    <3>1. CASE q # r
      BY <1>a, <2>1, <2>6, <3>1, ReaderSame DEF Base
    <3>2. CASE q = r
      <4>1. /\ reports'[r].at = "body" /\ reports'[r].got = reports[r].got
            /\ reports'[r].counted = reports[r].counted /\ reports'[r].left = reports[r].left
            /\ reports'[r].filter = reports[r].filter /\ reports'[r].owed = reports[r].owed
            /\ reports'[r].plugin = reports[r].plugin /\ reports'[r].moved = reports[r].moved
        BY <1>a, <2>6, <3>2 DEF Fields
      <4>2. ~Answered(r)' /\ reports[r].moved \in BOOLEAN
        BY <1>a, <2>6, <3>2, <4>1 DEF Reader, Answered
      <4>3. "body" \notin Reading /\ "body" \in After /\ "send" \in After
        BY DEF Reading, After
      <4> QED
        BY <1>a, <2>6, <3>2, <4>1, <4>2, <4>3, ReaderKept
    <3> QED
      BY <3>1, <3>2
  <2>7. CASE SendBody(q)
    <3>1. reports[q].at = "body"
          /\ reports' = [reports EXCEPT ![q] = [@ EXCEPT !.at = "answered", !.got = ink[reports[q].file]]]
      BY <2>7 DEF SendBody
    <3>2. CASE q # r
      BY <1>a, <2>1, <3>1, <3>2, ReaderSame DEF Base
    <3>3. CASE q = r
      <4>1. /\ reports'[r].at = "answered"
            /\ reports'[r].counted = reports[r].counted /\ reports'[r].left = reports[r].left
            /\ reports'[r].filter = reports[r].filter /\ reports'[r].owed = reports[r].owed
            /\ reports'[r].plugin = reports[r].plugin /\ reports'[r].moved = reports[r].moved
        BY <1>a, <3>1, <3>3 DEF Fields
      <4>2. reports[r].moved \in BOOLEAN
        BY <1>a DEF Reader
      <4>3. "answered" \notin Reading /\ "answered" \in After /\ "body" \in After
        BY DEF Reading, After
      <4> QED
        BY <1>a, <3>1, <3>3, <4>1, <4>2, <4>3, ReaderKept
    <3> QED
      BY <3>2, <3>3
  <2> QED
    BY <1>3, <2>2, <2>3, <2>4, <2>5, <2>6, <2>7 DEF ReportStep, Open
<1>4. ASSUME NEW c \in Clients, PostUp(c) \/ PostDown(c) \/ PostRaises(c)
      PROVE  Reader(r)'
  <2>1. \/ UNCHANGED <<plugins, reports>>
        \/ (\E d : plugins' = Append(plugins, d)) /\ UNCHANGED reports
        \/ plugins' = [plugins EXCEPT ![backup] = None] /\ UNCHANGED reports
        \/ \E d : MoveSink(d)
    BY <1>4, PostFrame DEF SinksChange, ChangeSinks, ConnectSink, DropSink
  <2>2. /\ plugins \in Seq(Databases \cup {None}) /\ Len(plugins) \in Nat
        /\ reports[r].at \in Reading => reports[r].plugin \in 1..Len(plugins)
    BY <1>a DEF Backed, Reader
  <2>3. CASE UNCHANGED reports /\ (\E d : plugins' = Append(plugins, d))
    <3>1. reports[r].at \in Reading => plugins'[reports[r].plugin] = Base(r)
      BY <2>2, <2>3 DEF Base
    <3> QED
      BY <1>a, <2>3, <3>1, ReaderSame
  <2>4. CASE UNCHANGED reports /\ plugins' = [plugins EXCEPT ![backup] = None]
    <3>1. reports[r].at \in Reading => plugins'[reports[r].plugin] \in {Base(r), None}
      BY <2>2, <2>4 DEF Base
    <3> QED
      BY <1>a, <2>4, <3>1, ReaderSame
  <2>5. CASE \E d : MoveSink(d)
    <3>1. PICK d : MoveSink(d)
      BY <2>5
    <3>2. /\ plugins' = [plugins EXCEPT ![backup] = d]
          /\ reports'[r] = [reports[r] EXCEPT !.moved = reports[r].moved \/ reports[r].plugin = backup]
      BY <3>1 DEF MoveSink
    <3> DEFINE moved == reports[r].moved \/ reports[r].plugin = backup
    <3>3. reports[r].moved \in BOOLEAN
      BY <1>a DEF Reader
    <3>4. reports'[r] = [reports[r] EXCEPT !.moved = moved]
      BY <3>2
    <3>5. moved \in BOOLEAN /\ (reports[r].moved => moved) /\ (~moved => reports[r].plugin # backup)
      BY <3>3
    <3> HIDE DEF moved
    <3>6. /\ reports'[r].at = reports[r].at /\ reports'[r].got = reports[r].got
          /\ reports'[r].counted = reports[r].counted /\ reports'[r].left = reports[r].left
          /\ reports'[r].filter = reports[r].filter /\ reports'[r].owed = reports[r].owed
          /\ reports'[r].plugin = reports[r].plugin /\ reports'[r].moved = moved
      BY <1>a, <3>4 DEF Fields
    <3>7. Answered(r)' => reports'[r].at \in {"answered", "closed"}
      BY <1>a, <3>6 DEF Reader, Answered
    <3>8. reports[r].at \in Reading /\ ~moved => plugins'[reports[r].plugin] = Base(r)
      BY <2>2, <3>2, <3>5 DEF Base
    <3>9. reports[r].at \in Reading \cup Over \cup After \cup {"none"}
      BY <1>a DEF Reader
    <3> QED
      BY <1>a, <3>5, <3>6, <3>7, <3>8, <3>9, ReaderKept
  <2> QED
    BY <1>1, <2>1, <2>3, <2>4, <2>5
<1> QED
  BY <1>1, <1>2, <1>3, <1>4
  DEF Next, vars, reportVars, sinkVars, clientVars, Up, Down, Schedule, CronFires, Launch, Edit,
      ClientStep, PostFails, ReadTab, WriteTab, BadTimes, Tick, StoreRun, Store, Idle

(* Folders and files belong to requests.                                     *)
LEMMA FilesTypedKept ==
    ASSUME IInv, FilesTyped, [Next]_vars
    PROVE  FilesTyped'
<1>1. CASE UNCHANGED <<folders, ink, faults>>
  BY <1>1 DEF FilesTyped
<1>2. ASSUME NEW r \in Requests, AskReport(r) PROVE FilesTyped'
  <2>1. PICK f \in scene.filters : Ask(r, f)
    BY <1>2 DEF AskReport
  <2>2. faults' = faults
    BY <2>1 DEF Ask
  <2>3. CASE Valid(f)
    <3>1. PICK inode \in Requests : Begin(r, f, clock, inode)
      <4>1. clock \in Seconds /\ (zips[clock] # None => zips[clock] \in Requests)
        BY DEF IInv, Shape
      <4> QED
        BY <2>1, <2>3, <4>1 DEF Ask, Stamp
    <3>2. /\ folders' = folders \cup {clock} /\ ink' = [ink EXCEPT ![inode] = {}]
          /\ clock \in Seconds
      BY <3>1 DEF Begin, IInv, Shape
    <3> QED
      BY <2>2, <3>2 DEF FilesTyped
  <2>4. CASE ~Valid(f)
    BY <2>1, <2>2, <2>4 DEF Ask, fileVars, FilesTyped
  <2> QED
    BY <2>3, <2>4
<1>3. ASSUME NEW r \in Requests, ReportStep(r) PROVE FilesTyped'
  <2>1. CASE UNCHANGED <<folders, ink, faults>>
    BY <2>1 DEF FilesTyped
  <2>2. ASSUME NEW at, Leave(r, at), reports[r].at \in Reading PROVE FilesTyped'
    <3>1. reports[r].file \in Requests
      BY <2>2 DEF IInv, Ties, Held, Reading
    <3>2. /\ ink' = [ink EXCEPT ![reports[r].file] = @ \cup {r}]
          /\ folders' \subseteq folders /\ faults' = faults
      BY <2>2 DEF Leave
    <3> QED
      BY <3>1, <3>2 DEF FilesTyped
  <2>3. ASSUME Draw(r) \/ DrawFails(r) \/ GiveUp(r) PROVE FilesTyped'
    BY <2>2, <2>3 DEF Draw, DrawFails, GiveUp, AllRead, Reading
  <2> QED
    BY <1>3, <2>1, <2>3 DEF ReportStep, ReadGroups, ReadRows, Open, SendBody, Disconnect, fileVars
<1> QED
  BY <1>1, <1>2, <1>3, PostFrame
  DEF Next, vars, reportVars, fileVars, sinkVars, clientVars, Up, Down, Schedule, CronFires,
      Launch, Edit, ClientStep, PostFails, ReadTab, WriteTab, BadTimes, Tick,
      StoreRun, Store, Idle

LEMMA ReadBegins ==
    ASSUME Init PROVE ReadInv
<1>1. scene \in Scenes /\ IsScene(scene) /\ stored = scene.stored
  BY ClientAssumption DEF Init
<1>2. /\ plugins = <<DefaultDatabase>> /\ backup = 1 /\ ctx.config.sinks = <<>>
      /\ DefaultDatabase \in Databases /\ 0 \in Seconds
  BY ReportsAssumption DEF Init, Seconds
<1>3. StoredTyped /\ FilesTyped
  BY <1>1 DEF Init, StoredTyped, FilesTyped, IsScene
<1>4. Backed
  BY <1>2 DEF Backed, BackedBy
<1>5. ASSUME NEW r \in Requests PROVE Reader(r)
  <2>1. /\ reports[r].at = "none" /\ reports[r].counted = [x \in Runs |-> 0]
        /\ reports[r].left = {} /\ reports[r].moved = FALSE /\ reports[r].got = None
        /\ reports[r].owed = {}
    BY DEF Init, NewReport
  <2>2. Counted(r) = {} /\ ~Answered(r)
    BY <2>1 DEF Counted, Answered
  <2>3. OneBase(r) /\ Whole(r)
    BY <1>2, <2>1, <2>2 DEF OneBase, Whole, Reading, After
  <2>4. reports[r].counted \in [Runs -> Nat] /\ \A x \in Runs : reports[r].counted[x] = 0
    BY <2>1
  <2>5. /\ \A g \in reports[r].left : AtHome(g) /\ OfGroup(g)
        /\ reports[r].moved \in BOOLEAN /\ "none" \notin Reading \cup {"send"}
    BY <2>1 DEF Reading
  <2>6. \A x \in Runs : ~(reports[r].counted[x] > 1) /\ ~(reports[r].counted[x] > 0)
    BY <2>4
  <2> QED
    BY <2>1, <2>2, <2>3, <2>4, <2>5, <2>6 DEF Reader
<1> QED
  BY <1>3, <1>4, <1>5 DEF ReadInv

(* Everything that holds of clients, files and requests together.            *)
ClientInv == CommandInv /\ IInv /\ ReadInv

LEMMA ClientsBegin == Init => ClientInv
BY CommandsBegin, InitIInv, ReadBegins DEF ClientInv

LEMMA ClientsKept == ClientInv /\ [Next]_vars => ClientInv'
<1> SUFFICES ASSUME ClientInv, [Next]_vars PROVE ClientInv'
  OBVIOUS
<1>1. CommandInv' /\ IInv'
  BY CommandsKept, StepKeeps DEF ClientInv
<1>2. StoredTyped' /\ Backed' /\ Grown
  BY <1>1, SinksKept DEF ClientInv, CommandInv, ReadInv
<1>3. FilesTyped'
  BY FilesTypedKept DEF ClientInv, ReadInv
<1>4. \A r \in Requests : Reader(r)'
  BY <1>2, ReadersKept DEF ClientInv, CommandInv, ReadInv
<1> QED
  BY <1>1, <1>2, <1>3, <1>4 DEF ClientInv, ReadInv

(* An "up" without -u that succeeds replaces the configuration, but for VPNs
   that the file does not name and a wish for common cities, also after
   updates that raised; until one does, the backup is the sink of the file
   (Service.update, diff_config, MasterSink.backup).                         *)
THEOREM UpReplacesAlways == Spec => []UpReplaces
<1>1. ClientInv => UpReplaces
  BY DEF ClientInv, CommandInv, ReadInv, Standing, Backed, UpReplaces, Done
<1> QED
  BY <1>1, ClientsBegin, ClientsKept, PTL DEF Spec

(* A report has every run that was stored when it was asked for, from one
   database, and none twice but next to a group without a city, whatever
   results, sinks and other requests come meanwhile (make_reports, retrieve).*)
THEOREM RunsRightAlways == Spec => []RunsRight
<1>1. ClientInv => RunsRight
  <2> SUFFICES ASSUME ClientInv, NEW r \in Requests
               PROVE  /\ ~reports[r].moved =>
                           /\ Answered(r) => reports[r].owed \subseteq Counted(r)
                           /\ \E d \in Databases : Counted(r) \subseteq stored[d]
                      /\ \A x \in Runs :
                           reports[r].counted[x] > 1 =>
                             \E y \in UNION {stored[d] : d \in Databases} :
                                AtHome(y.group) /\ y.group.city = None
                                /\ y.group.vpn = x.group.vpn
    BY DEF RunsRight
  <2>1. Reader(r)
    BY DEF ClientInv, ReadInv
  <2>2. ASSUME ~reports[r].moved
        PROVE  /\ Answered(r) => reports[r].owed \subseteq Counted(r)
               /\ \E d \in Databases : Counted(r) \subseteq stored[d]
    BY <2>1, <2>2 DEF Reader, Whole, OneBase, After
  <2>3. ASSUME NEW x \in Runs, reports[r].counted[x] > 1
        PROVE  \E y \in UNION {stored[d] : d \in Databases} :
                  AtHome(y.group) /\ y.group.city = None /\ y.group.vpn = x.group.vpn
    <3>1. PICK d \in Databases : \E y \in stored[d] :
             AtHome(y.group) /\ y.group.city = None /\ y.group.vpn = x.group.vpn
      BY <2>1, <2>3 DEF Reader, Cityless
    <3> QED
      BY <3>1
  <2> QED
    BY <2>2, <2>3
<1> QED
  BY <1>1, ClientsBegin, ClientsKept, PTL DEF Spec

(* The service, its sinks, the cron table, the processes and the requests
   keep to their types (Service._context, MasterSink.backup).                *)
THEOREM ClientTypes == Spec => []TypeOK
<1>1. ClientInv => TypeOK
  <2> SUFFICES ASSUME ClientInv PROVE TypeOK
    OBVIOUS
  <2>1. Typed /\ IInv /\ StoredTyped /\ Backed /\ FilesTyped
    BY DEF ClientInv, CommandInv, ReadInv
  <2>2. /\ clock \in Seconds /\ zips \in [Seconds -> Requests \cup {None}]
        /\ stored \in [Databases -> SUBSET Runs] /\ folders \subseteq Seconds
        /\ ink \in [Requests -> SUBSET Requests] /\ faults \in BOOLEAN
    BY <2>1 DEF IInv, Shape, StoredTyped, FilesTyped
  <2>3. /\ \A p \in DOMAIN plugins : plugins[p] \in Databases \cup {None}
        /\ backup \in DOMAIN plugins /\ DOMAIN plugins = 1..Len(plugins)
    BY <2>1 DEF Backed
  <2>4. ASSUME NEW r \in Requests
        PROVE  /\ reports[r].at \in Reading \cup Over \cup {"none", "send", "body", "answered", "lost"}
               /\ reports[r].counted \in [Runs -> Nat]
               /\ reports[r].at \in Reading \cup {"send"} =>
                    /\ reports[r].second \in Seconds /\ reports[r].file \in Requests
                    /\ reports[r].plugin \in DOMAIN plugins
    <3>1. Reader(r) /\ Held(r)
      BY DEF ClientInv, ReadInv, IInv, Ties
    <3>2. reports[r].at \in Reading \cup {"send"} =>
             reports[r].second \in Seconds /\ reports[r].file \in Requests
      BY <3>1 DEF Held, Reading
    <3> QED
      BY <2>3, <3>1, <3>2 DEF Reader, After, Over
  <2>5. ReportTypeOK
    BY <2>2, <2>3, <2>4 DEF ReportTypeOK
  <2>6. /\ ctx.state \in {"idle", "run"} /\ ctx.config.mode \in {"continuous", "once"}
        /\ DOMAIN ctx.config.sinks \subseteq {"sqlite"}
        /\ crontab \subseteq Jobs /\ origin \in Clients \cup {None}
    BY <2>1 DEF Typed
  <2>7. \A c \in Clients :
          /\ clients[c].at \in Working \cup {"none", "done", "failed", "raised"}
          /\ clients[c].tab \subseteq Jobs /\ clients[c].with \subseteq Clients \ {c}
    BY <2>1 DEF Typed, IsProcess, Settled
  <2> QED
    BY <2>5, <2>6, <2>7 DEF TypeOK
<1> QED
  BY <1>1, ClientsBegin, ClientsKept, PTL DEF Spec

-------------------------------------------------------------------------------
(* The order of the runs by their speeds, when no two have the same.         *)
Ranked(runs) ==
    /\ IsFiniteSet(runs) /\ \A x \in runs : x.speed \in Nat
    /\ \A x, y \in runs : x.speed = y.speed => x = y
Slower(runs, x) == {y \in runs : y.speed < x.speed}
Rank(runs, x) == Cardinality(Slower(runs, x))
CountedOnce(runs, times) == \A x \in runs : times[x] = 1

(* A set of runs with as many speeds as runs is ranked.                      *)
LEMMA DistinctSpeeds ==
    ASSUME NEW runs, IsFiniteSet(runs), \A x \in runs : x.speed \in Nat,
           Cardinality({x.speed : x \in runs}) = Cardinality(runs)
    PROVE  Ranked(runs)
<1> DEFINE speeds == {x.speed : x \in runs}
           f == [x \in runs |-> x.speed]
<1>1. f \in Surjection(runs, speeds)
  BY DEF Surjection
<1>2. f \in Injection(runs, speeds)
  BY <1>1, FS_Surjection
<1>3. \A x, y \in runs : f[x] = f[y] => x = y
  BY <1>2 DEF Injection, IsInjective
<1> QED
  BY <1>3 DEF Ranked

LEMMA ManyOnce ==
    ASSUME NEW runs, IsFiniteSet(runs), NEW times, CountedOnce(runs, times)
    PROVE  Many(runs, times) = Cardinality(runs)
<1> DEFINE rows == UNION {{x} \X (1..times[x]) : x \in runs}
<1>1. \A x \in runs : {x} \X (1..times[x]) = {<<x, 1>>}
  BY DEF CountedOnce
<1>2. rows = runs \X {1}
  BY <1>1
<1>3. IsFiniteSet({1}) /\ Cardinality({1}) = 1
  BY FS_Singleton
<1>4. Cardinality(rows) = Cardinality(runs) * 1 /\ Cardinality(runs) \in Nat
  BY <1>2, <1>3, FS_Product, FS_CardinalityType
<1> QED
  BY <1>4 DEF Many

LEMMA RankOrdered ==
    ASSUME NEW runs, Ranked(runs), NEW x \in runs
    PROVE  /\ Rank(runs, x) \in 0..Cardinality(runs) - 1 /\ Rank(runs, x) \in Nat
           /\ IsFiniteSet(Slower(runs, x)) /\ Cardinality(runs) \in Nat
           /\ \A y \in runs : x.speed < y.speed => Rank(runs, x) < Rank(runs, y)
           /\ Cardinality(Slower(runs, x) \cup {x}) = Rank(runs, x) + 1
<1>1. IsFiniteSet(Slower(runs, x)) /\ Cardinality(runs) \in Nat /\ Rank(runs, x) \in Nat
  BY FS_Subset, FS_CardinalityType DEF Slower, Ranked, Rank
<1>2. x \notin Slower(runs, x)
  BY DEF Slower, Ranked
<1>3. Cardinality(Slower(runs, x) \cup {x}) = Rank(runs, x) + 1
  BY <1>1, <1>2, FS_AddElement DEF Rank
<1>4. Slower(runs, x) \cup {x} \in SUBSET runs
  BY DEF Slower
<1>5. Rank(runs, x) + 1 <= Cardinality(runs)
  BY <1>3, <1>4, FS_Subset DEF Ranked
<1>6. ASSUME NEW y \in runs, x.speed < y.speed PROVE Rank(runs, x) < Rank(runs, y)
  <2>1. Slower(runs, x) \cup {x} \in SUBSET Slower(runs, y)
    BY <1>6 DEF Slower, Ranked
  <2>2. IsFiniteSet(Slower(runs, y)) /\ Rank(runs, y) \in Nat
    BY FS_Subset, FS_CardinalityType DEF Slower, Ranked, Rank
  <2>3. Rank(runs, x) + 1 <= Rank(runs, y)
    BY <1>3, <2>1, <2>2, FS_Subset DEF Rank
  <2> QED
    BY <1>1, <2>2, <2>3
<1> QED
  BY <1>1, <1>3, <1>5, <1>6

LEMMA RankByRank ==
    ASSUME NEW runs, Ranked(runs), NEW x \in runs, NEW y \in runs
    PROVE  x.speed < y.speed <=> Rank(runs, x) < Rank(runs, y)
<1>1. Rank(runs, x) \in Nat /\ Rank(runs, y) \in Nat /\ x.speed \in Nat /\ y.speed \in Nat
  BY RankOrdered DEF Ranked
<1>2. x.speed < y.speed => Rank(runs, x) < Rank(runs, y)
  BY RankOrdered
<1>3. y.speed < x.speed => Rank(runs, y) < Rank(runs, x)
  BY RankOrdered
<1>4. x.speed = y.speed => Rank(runs, x) = Rank(runs, y)
  BY DEF Ranked
<1> QED
  BY <1>1, <1>2, <1>3, <1>4

(* Every rank is somebody's.                                                 *)
LEMMA RankOnto ==
    ASSUME NEW runs, Ranked(runs), NEW i \in 0..Cardinality(runs) - 1
    PROVE  \E x \in runs : Rank(runs, x) = i
<1> DEFINE n == Cardinality(runs)
           f == [x \in runs |-> Rank(runs, x)]
<1>0. n \in Nat /\ IsFiniteSet(runs)
  BY FS_CardinalityType DEF Ranked
<1>1. f \in [runs -> 0..n - 1]
  BY RankOrdered
<1>2. \A x, y \in runs : f[x] = f[y] => x = y
  <2> SUFFICES ASSUME NEW x \in runs, NEW y \in runs, Rank(runs, x) = Rank(runs, y) PROVE x = y
    OBVIOUS
  <2>1. ~(x.speed < y.speed) /\ ~(y.speed < x.speed) /\ x.speed \in Nat /\ y.speed \in Nat
    BY RankByRank, RankOrdered DEF Ranked
  <2> QED
    BY <2>1 DEF Ranked
<1>3. f \in Injection(runs, 0..n - 1)
  BY <1>1, <1>2 DEF Injection, IsInjective
<1>4. IsFiniteSet(0..n - 1) /\ Cardinality(0..n - 1) = n
  BY <1>0, FS_Interval
<1>5. f \in Surjection(runs, 0..n - 1)
  BY <1>3, <1>4, FS_Injection
<1> QED
  BY <1>5 DEF Surjection

(* The speed at a place is that of the run with this rank.                   *)
LEMMA NthHasRank ==
    ASSUME NEW runs, Ranked(runs), NEW times, CountedOnce(runs, times),
           NEW i \in 0..Cardinality(runs) - 1
    PROVE  \E x \in runs : Rank(runs, x) = i /\ Nth(runs, times, i) = x.speed
<1> DEFINE At(v) == /\ Many({y \in runs : y.speed < v}, times) <= i
                    /\ Many({y \in runs : y.speed <= v}, times) > i
<1>1. ASSUME NEW x \in runs PROVE At(x.speed) <=> Rank(runs, x) = i
  <2>1. {y \in runs : y.speed < x.speed} = Slower(runs, x)
    BY DEF Slower
  <2>2. {y \in runs : y.speed <= x.speed} = Slower(runs, x) \cup {x}
    BY DEF Slower, Ranked
  <2>3. /\ IsFiniteSet(Slower(runs, x)) /\ Rank(runs, x) \in Nat
        /\ Cardinality(Slower(runs, x) \cup {x}) = Rank(runs, x) + 1
    BY RankOrdered
  <2>b. i \in Int
    OBVIOUS
  <2>a. IsFiniteSet(Slower(runs, x) \cup {x})
    BY <2>3, FS_AddElement
  <2>4. CountedOnce(Slower(runs, x), times) /\ CountedOnce(Slower(runs, x) \cup {x}, times)
    BY DEF CountedOnce, Slower
  <2>5. /\ Many(Slower(runs, x), times) = Rank(runs, x)
        /\ Many(Slower(runs, x) \cup {x}, times) = Rank(runs, x) + 1
    BY <2>3, <2>a, <2>4, ManyOnce DEF Rank
  <2>6. At(x.speed) <=> Rank(runs, x) <= i /\ Rank(runs, x) + 1 > i
    BY <2>1, <2>2, <2>5
  <2> QED
    BY <2>3, <2>b, <2>6
<1>2. PICK x \in runs : At(x.speed)
  BY <1>1, RankOnto
<1>3. \E v \in {y.speed : y \in runs} : At(v)
  BY <1>2
<1>4. Nth(runs, times, i) = CHOOSE v \in {y.speed : y \in runs} : At(v)
  BY DEF Nth
<1>5. Nth(runs, times, i) \in {y.speed : y \in runs} /\ At(Nth(runs, times, i))
  BY <1>3, <1>4
<1>6. PICK z \in runs : Nth(runs, times, i) = z.speed
  BY <1>5
<1>7. At(z.speed)
  BY <1>5, <1>6
<1> QED
  BY <1>1, <1>6, <1>7
(* The arithmetic of percentages.                                            *)
LEMMA Percent ==
    ASSUME NEW p \in 0..100, NEW m \in Nat
    PROVE  /\ p * m \in Nat /\ p * m <= 100 * m
           /\ (100 - p) * m = 100 * m - p * m
<1>1. p * m \in Nat
  OBVIOUS
<1>2. (100 - p) * m = 100 * m - p * m
  OBVIOUS
<1>3. (100 - p) * m \in Nat
  OBVIOUS
<1> QED
  BY <1>1, <1>2, <1>3

LEMMA Divided ==
    ASSUME NEW a \in Nat, NEW m \in Nat, a <= 100 * m
    PROVE  /\ a \div 100 \in 0..m /\ a % 100 \in 0..99 /\ a % 100 # 0 => a \div 100 < m
<1>1. a = 100 * (a \div 100) + (a % 100) /\ a % 100 \in 0..99
  OBVIOUS
<1>2. a \div 100 \in Nat
  OBVIOUS
<1> QED
  BY <1>1, <1>2

LEMMA Mirrored ==
    ASSUME NEW a \in Nat, NEW m \in Nat, a <= 100 * m
    PROVE  /\ a % 100 = 0 => /\ (100 * m - a) % 100 = 0
                             /\ (100 * m - a) \div 100 = m - a \div 100
           /\ a % 100 # 0 => /\ (100 * m - a) % 100 # 0
                             /\ (100 * m - a) \div 100 + 1 = m - a \div 100
OBVIOUS

LEMMA Between ==
    ASSUME NEW f \in 1..99, NEW d \in Nat \ {0}
    PROVE  f * d \in Nat /\ 0 < f * d /\ f * d < 100 * d
<1>1. f * d >= d
  OBVIOUS
<1>2. (100 - f) * d >= d
  OBVIOUS
<1>3. (100 - f) * d = 100 * d - f * d
  OBVIOUS
<1> QED
  BY <1>1, <1>2, <1>3

(* A quantile lies at the run with its rank, or between it and the next.      *)
LEMMA QuantileCuts ==
    ASSUME NEW runs, Ranked(runs), runs # {}, NEW times, CountedOnce(runs, times),
           NEW p \in 0..100, NEW place, place = p * (Cardinality(runs) - 1), NEW x \in runs
    PROVE  /\ 100 * x.speed <= Quantile(runs, times, p) <=> Rank(runs, x) <= place \div 100
           /\ 100 * x.speed >= Quantile(runs, times, p) <=>
                Rank(runs, x) >= IF place % 100 = 0 THEN place \div 100 ELSE place \div 100 + 1
           /\ Quantile(runs, times, p) \in Int
<1> DEFINE m == Cardinality(runs) - 1
           k == place \div 100
           f == place % 100
<1>1. m \in Nat
  BY FS_CardinalityType, FS_EmptySet DEF Ranked
<1>2. place \in Nat /\ place <= 100 * m
  BY <1>1, Percent
<1>3. k \in 0..m /\ f \in 0..99 /\ (f # 0 => k < m)
  BY <1>1, <1>2, Divided
<1>4. Many(runs, times) = m + 1
  BY ManyOnce, FS_CardinalityType DEF Ranked
<1>5. PICK y \in runs : Rank(runs, y) = k /\ Nth(runs, times, k) = y.speed
  BY <1>3, NthHasRank
<1>6. \A z \in runs : z.speed \in Nat /\ Rank(runs, z) \in Nat
  BY RankOrdered DEF Ranked
<1>7. x.speed <= y.speed <=> Rank(runs, x) <= k
  BY <1>5, <1>6, RankByRank
<1>8. x.speed >= y.speed <=> Rank(runs, x) >= k
  BY <1>5, <1>6, RankByRank
<1>9. Many(runs, times) - 1 = m
  BY <1>1, <1>4
<1>10. CASE f = 0
  <2>1. Quantile(runs, times, p) = 100 * y.speed
    BY <1>5, <1>9, <1>10 DEF Quantile
  <2> QED
    BY <1>6, <1>7, <1>8, <1>10, <2>1
<1>11. CASE f # 0
  <2>1. PICK z \in runs : Rank(runs, z) = k + 1 /\ Nth(runs, times, k + 1) = z.speed
    <3>1. k + 1 \in 0..Cardinality(runs) - 1
      BY <1>1, <1>3, <1>11
    <3> QED
      BY <3>1, NthHasRank
  <2>2. Quantile(runs, times, p) = 100 * y.speed + f * (z.speed - y.speed)
    BY <1>5, <1>9, <1>11, <2>1 DEF Quantile
  <2>3. y.speed < z.speed
    BY <1>3, <1>5, <2>1, RankByRank
  <2>4. x.speed >= z.speed <=> Rank(runs, x) >= k + 1
    BY <1>6, <2>1, RankByRank
  <2> DEFINE d == z.speed - y.speed
             part == f * d
  <2>5. d \in Nat \ {0}
    BY <1>6, <2>3
  <2>6. part \in Nat /\ 0 < part /\ part < 100 * d
    BY <1>3, <1>11, <2>5, Between
  <2> HIDE DEF part
  <2>7. 100 * y.speed < Quantile(runs, times, p) /\ Quantile(runs, times, p) < 100 * z.speed
        /\ Quantile(runs, times, p) \in Int
    BY <1>6, <2>2, <2>5, <2>6 DEF part
  <2>8. Rank(runs, x) <= k <=> ~(Rank(runs, x) >= k + 1)
    BY <1>3, <1>6
  <2>9. Rank(runs, x) <= k => 100 * x.speed < Quantile(runs, times, p)
    BY <1>6, <1>7, <2>7
  <2>10. Rank(runs, x) >= k + 1 => 100 * x.speed > Quantile(runs, times, p)
    BY <1>6, <2>4, <2>7
  <2> QED
    BY <1>6, <1>11, <2>7, <2>8, <2>9, <2>10
<1> QED
  BY <1>10, <1>11

(* As many of the ranked runs of a case are left out on either side.         *)
LEMMA CutsBalanced ==
    ASSUME NEW r, NEW runs, Ranked(runs), CountedOnce(runs, reports[r].counted),
           reports[r].filter.outliers \in 0..100, NEW kept, kept # {},
           kept = FilterOutliers(r, runs)
    PROVE  Balances(r, runs, kept)
<1> DEFINE times == reports[r].counted
           o == reports[r].filter.outliers
           m == Cardinality(runs) - 1
           a == o * m
           k == a \div 100
<1>1. kept \subseteq runs /\ runs # {} /\ IsFiniteSet(runs)
  BY DEF FilterOutliers, Ranked
<1>2. m \in Nat /\ Cardinality(runs) \in Nat
  BY <1>1, FS_CardinalityType, FS_EmptySet
<1>3. a \in Nat /\ a <= 100 * m /\ (100 - o) * m = 100 * m - a /\ 100 - o \in 0..100
  BY <1>2, Percent
<1>4. k \in 0..m
  BY <1>2, <1>3, Divided
<1>5. 100 * k <= a
  BY <1>2, <1>3
<1>6. \A x \in runs : Rank(runs, x) \in Nat /\ Rank(runs, x) <= m /\ x.speed \in Nat
  <2>1. ASSUME NEW x \in runs PROVE Rank(runs, x) \in Nat /\ Rank(runs, x) \in 0..m
    BY RankOrdered
  <2> QED
    BY <1>2, <2>1 DEF Ranked
<1>7. ASSUME NEW x \in runs
      PROVE  x \in kept <=> Rank(runs, x) > k /\ Rank(runs, x) < m - k
  <2> DEFINE low == Quantile(runs, times, o)
             high == Quantile(runs, times, 100 - o)
             b == 100 * m - a
  <2>1. (100 * x.speed <= low <=> Rank(runs, x) <= k) /\ low \in Int
    BY <1>1, <1>3, QuantileCuts
  <2>2. /\ 100 * x.speed >= high <=>
             Rank(runs, x) >= IF b % 100 = 0 THEN b \div 100 ELSE b \div 100 + 1
        /\ high \in Int
    BY <1>1, <1>3, QuantileCuts
  <2>3. (IF b % 100 = 0 THEN b \div 100 ELSE b \div 100 + 1) = m - k
    BY <1>2, <1>3, Mirrored
  <2>4. 100 * x.speed >= high <=> Rank(runs, x) >= m - k
    BY <2>2, <2>3
  <2>5. x \in kept <=> 100 * x.speed > low /\ 100 * x.speed < high
    BY DEF FilterOutliers
  <2> HIDE DEF low, high, k, m
  <2>6. k \in Int /\ m \in Int
    BY <1>2, <1>4 DEF m
  <2> QED
    BY <1>6, <2>1, <2>2, <2>4, <2>5, <2>6
<1> HIDE DEF a, k
<1>8. PICK z \in kept : Rank(runs, z) > k /\ Rank(runs, z) < m - k
  BY <1>1, <1>7
<1>9. z \in runs /\ Rank(runs, z) \in Nat /\ k + 1 \in 0..m /\ m - k \in 0..m /\ k \in Nat
  BY <1>1, <1>2, <1>4, <1>6, <1>8
<1>10. Below(runs, kept) = {x \in runs : Rank(runs, x) <= k}
  <2>1. ASSUME NEW x \in runs, Rank(runs, x) <= k PROVE x \in Below(runs, kept)
    <3>1. x \notin kept
      BY <1>6, <1>7, <1>9, <2>1
    <3>2. ASSUME NEW y \in kept PROVE x.speed < y.speed
      <4>1. y \in runs /\ Rank(runs, y) > k
        BY <1>1, <1>7
      <4> QED
        BY <1>6, <1>9, <2>1, <4>1, RankByRank
    <3> QED
      BY <3>1, <3>2 DEF Below
  <2>2. ASSUME NEW x \in Below(runs, kept) PROVE x \in runs /\ Rank(runs, x) <= k
    <3>1. x \in runs /\ x \notin kept /\ x.speed < z.speed
      BY DEF Below
    <3>2. Rank(runs, x) < Rank(runs, z)
      BY <1>9, <3>1, RankByRank
    <3> QED
      BY <1>2, <1>6, <1>7, <1>8, <1>9, <3>1, <3>2
  <2> QED
    BY <2>1, <2>2
<1>11. Above(runs, kept) = {x \in runs : Rank(runs, x) >= m - k}
  <2>1. ASSUME NEW x \in runs, Rank(runs, x) >= m - k PROVE x \in Above(runs, kept)
    <3>1. x \notin kept
      BY <1>6, <1>7, <1>9, <2>1
    <3>2. ASSUME NEW y \in kept PROVE x.speed > y.speed
      <4>1. y \in runs /\ Rank(runs, y) < m - k
        BY <1>1, <1>7
      <4>2. Rank(runs, y) < Rank(runs, x)
        BY <1>6, <1>9, <2>1, <4>1
      <4>3. y.speed < x.speed
        BY <4>1, <4>2, RankByRank
      <4> QED
        BY <1>6, <4>1, <4>3
    <3> QED
      BY <3>1, <3>2 DEF Above
  <2>2. ASSUME NEW x \in Above(runs, kept) PROVE x \in runs /\ Rank(runs, x) >= m - k
    <3>1. x \in runs /\ x \notin kept /\ x.speed > z.speed
      BY DEF Above
    <3>2. z.speed < x.speed
      BY <1>6, <1>9, <3>1
    <3>3. Rank(runs, z) < Rank(runs, x)
      BY <1>9, <3>1, <3>2, RankByRank
    <3> QED
      BY <1>2, <1>6, <1>7, <1>8, <1>9, <3>1, <3>3
  <2> QED
    BY <2>1, <2>2
<1>12. Cardinality(Below(runs, kept)) = k + 1
  <2>1. PICK y \in runs : Rank(runs, y) = k + 1
    BY <1>9, RankOnto
  <2>2. \A x \in runs : Rank(runs, x) <= k <=> x.speed < y.speed
    BY <1>6, <1>9, <2>1, RankByRank
  <2>3. Below(runs, kept) = Slower(runs, y)
    BY <1>10, <2>2 DEF Slower
  <2> QED
    BY <2>1, <2>3 DEF Rank
<1>13. Cardinality(Above(runs, kept)) = k + 1
  <2>1. PICK y \in runs : Rank(runs, y) = m - k
    BY <1>9, RankOnto
  <2>2. \A x \in runs : Rank(runs, x) >= m - k <=> ~(x.speed < y.speed)
    BY <1>6, <1>9, <2>1, RankByRank
  <2>3. Above(runs, kept) = runs \ Slower(runs, y)
    BY <1>11, <2>2 DEF Slower
  <2>4. runs \cap Slower(runs, y) = Slower(runs, y)
    BY DEF Slower
  <2>5. Cardinality(runs \ Slower(runs, y)) = Cardinality(runs) - Cardinality(Slower(runs, y))
    BY <1>1, <2>4, FS_Difference
  <2>6. Cardinality(Above(runs, kept)) = Cardinality(runs) - (m - k)
    BY <2>1, <2>3, <2>5 DEF Rank
  <2> QED
    BY <1>2, <1>9, <2>6
<1>14. runs = Below(runs, kept) \cup kept \cup Above(runs, kept)
  <2>1. \A x \in runs : Rank(runs, x) <= k \/ x \in kept \/ Rank(runs, x) >= m - k
    BY <1>2, <1>6, <1>7, <1>9
  <2> QED
    BY <1>1, <1>10, <1>11, <2>1
<1>15. 100 * (k + 1) <= a + 100
  BY <1>3, <1>5, <1>9
<1> QED
  BY <1>12, <1>13, <1>14, <1>15 DEF a, Balances

-------------------------------------------------------------------------------
(* What is stored and counted is finite, and a request that reads has a      *)
(* filter that was accepted.                                                 *)
Given(r) ==
    /\ IsFiniteSet(Counted(r))
    /\ reports[r].at \in Reading \cup After => reports[r].filter.outliers \in 0..100

Finitely == (\A d \in Databases : IsFiniteSet(stored[d])) /\ \A r \in Requests : Given(r)

LEMMA GivenStill ==
    ASSUME NEW r, Given(r), reports'[r].counted = reports[r].counted,
           \/ /\ reports'[r].filter = reports[r].filter
              /\ reports'[r].at \in Reading \cup After => reports[r].at \in Reading \cup After
           \/ reports'[r].filter.outliers \in 0..100
    PROVE  Given(r)'
<1>1. Counted(r)' = Counted(r)
  BY DEF Counted
<1> QED
  BY <1>1 DEF Given

LEMMA GivenRows ==
    ASSUME IInv, NEW r \in Requests, Reader(r), Given(r), ReadRows(r), IsFiniteSet(Rows(r))
    PROVE  Given(r)'
<1>1. PICK g \in reports[r].left :
        LET found == Retrieved(g, reports[r].filter, Rows(r))
        IN reports' = [reports EXCEPT
             ![r].left = reports[r].left \ {g},
             ![r].counted = [x \in Runs |-> reports[r].counted[x] + (IF x \in found THEN 1 ELSE 0)]]
  BY DEF ReadRows
<1> DEFINE found == Retrieved(g, reports[r].filter, Rows(r))
           counts == [x \in Runs |-> reports[r].counted[x] + (IF x \in found THEN 1 ELSE 0)]
           left == reports[r].left \ {g}
<1>2. reports' = [reports EXCEPT ![r].left = left, ![r].counted = counts]
  BY <1>1
<1>3. found \subseteq Rows(r)
  BY DEF Retrieved
<1>4. reports[r].counted \in [Runs -> Nat]
  BY DEF Reader
<1>5. \A x \in Runs : counts[x] > 0 => reports[r].counted[x] > 0 \/ x \in Rows(r)
  BY <1>3, <1>4
<1> HIDE DEF found, counts, left
<1>6. reports'[r].counted = counts /\ reports'[r].filter = reports[r].filter
      /\ reports'[r].at = reports[r].at
  <2>1. DOMAIN reports[r] = Fields /\ DOMAIN reports = Requests
    BY DEF IInv, Shape
  <2> QED
    BY <1>2, <2>1 DEF Fields
<1>7. Counted(r)' = {x \in Runs : counts[x] > 0}
  BY <1>6 DEF Counted
<1>8. Counted(r)' \in SUBSET (Counted(r) \cup Rows(r))
  BY <1>5, <1>7 DEF Counted
<1>9. IsFiniteSet(Counted(r) \cup Rows(r))
  BY FS_Union DEF Given
<1>10. IsFiniteSet(Counted(r)')
  BY <1>8, <1>9, FS_Subset
<1> QED
  BY <1>6, <1>10 DEF Given

LEMMA GivenKept ==
    ASSUME IInv, Backed, NEW r \in Requests, Reader(r), Finitely, [Next]_vars
    PROVE  Given(r)'
<1>a. Given(r) /\ DOMAIN reports = Requests /\ \A q \in Requests : DOMAIN reports[q] = Fields
  BY DEF Finitely, IInv, Shape
<1>1. CASE UNCHANGED reports
  BY <1>a, <1>1, GivenStill
<1>2. ASSUME NEW q \in Requests, AskReport(q) PROVE Given(r)'
  <2>1. PICK f \in scene.filters : Ask(q, f)
    BY <1>2 DEF AskReport
  <2>2. CASE q # r
    BY <1>a, <2>1, <2>2, GivenStill DEF Ask, Begin, To
  <2>3. CASE q = r /\ ~Valid(f)
    <3>1. reports' = [reports EXCEPT ![r].at = "failed"]
      BY <2>1, <2>3 DEF Ask, To
    <3>2. /\ reports'[r].counted = reports[r].counted /\ reports'[r].at = "failed"
          /\ reports'[r].filter = reports[r].filter
      BY <1>a, <3>1 DEF Fields
    <3> QED
      BY <1>a, <3>2, GivenStill DEF Reading, After
  <2>4. CASE q = r /\ Valid(f)
    <3>1. PICK inode : Begin(r, f, Stamp(clock), inode)
      BY <2>1, <2>4 DEF Ask
    <3>2. reports'[r].counted = reports[r].counted /\ reports'[r].filter = f
      BY <1>a, <3>1 DEF Begin, Fields
    <3>3. f.outliers \in 0..100
      BY <2>4 DEF Valid
    <3> QED
      BY <1>a, <3>2, <3>3, GivenStill
  <2> QED
    BY <2>2, <2>3, <2>4
<1>3. ASSUME NEW q \in Requests, ReportStep(q) PROVE Given(r)'
  <2>1. ASSUME NEW at, To(q, at), at \in {"send", "failed", "lost", "closed"},
               reports[q].at \in Reading \cup After
        PROVE  Given(r)'
    <3>1. reports'[r].counted = reports[r].counted /\ reports'[r].filter = reports[r].filter
      BY <1>a, <2>1 DEF To, Fields
    <3>2. reports'[r].at \in Reading \cup After => reports[r].at \in Reading \cup After
      BY <1>a, <2>1 DEF To, Fields
    <3> QED
      BY <1>a, <3>1, <3>2, GivenStill
  <2>2. CASE Draw(q) \/ DrawFails(q) \/ GiveUp(q) \/ Disconnect(q)
    <3>1. reports[q].at \in Reading \cup After
      BY <2>2 DEF Draw, DrawFails, GiveUp, AllRead, Disconnect, Reading, After
    <3>2. To(q, "send") \/ To(q, "failed") \/ To(q, "closed")
      BY <2>2 DEF Draw, DrawFails, GiveUp, Leave, Disconnect
    <3> QED
      BY <2>1, <3>1, <3>2
  <2>3. CASE Open(q) \/ SendBody(q)
    <3>1. reports[q].at \in After
      BY <2>3 DEF Open, SendBody, After
    <3>2. CASE Open(q) /\ To(q, "lost")
      BY <2>1, <3>1, <3>2
    <3>3. CASE Open(q) /\ ~To(q, "lost")
      <4>1. reports' = [reports EXCEPT
                ![q] = [@ EXCEPT !.at = "body", !.file = zips[reports[q].second]]]
        BY <3>3 DEF Open
      <4>2. reports'[r].counted = reports[r].counted /\ reports'[r].filter = reports[r].filter
        BY <1>a, <4>1 DEF Fields
      <4>3. reports'[r].at = reports[r].at \/ q = r
        BY <1>a, <4>1
      <4> QED
        BY <1>a, <3>1, <4>2, <4>3, GivenStill
    <3>4. CASE SendBody(q)
      <4>1. reports'[r].counted = reports[r].counted /\ reports'[r].filter = reports[r].filter
        BY <1>a, <3>4 DEF SendBody, Fields
      <4>2. reports'[r].at = reports[r].at \/ q = r
        BY <1>a, <3>4 DEF SendBody
      <4> QED
        BY <1>a, <3>1, <4>1, <4>2, GivenStill
    <3> QED
      BY <2>3, <3>2, <3>3, <3>4
  <2>4. CASE ReadGroups(q) \/ (ReadRows(q) /\ q # r)
    <3>2. q = r \/ reports'[r] = reports[r]
      BY <1>a, <2>4 DEF ReadGroups, ReadRows
    <3>a. ASSUME q = r
          PROVE  reports'[r].counted = reports[r].counted /\ reports'[r].filter = reports[r].filter
      BY <1>a, <2>4, <3>a DEF ReadGroups, Fields
    <3>1. reports'[r].counted = reports[r].counted /\ reports'[r].filter = reports[r].filter
      BY <3>2, <3>a
    <3>3. q = r => reports[r].at \in Reading
      BY <2>4 DEF ReadGroups, Reading
    <3> QED
      BY <1>a, <3>1, <3>2, <3>3, GivenStill
  <2>5. CASE ReadRows(q) /\ q = r
    <3>1. Base(r) # None /\ reports[r].plugin \in 1..Len(plugins)
      BY <2>5 DEF ReadRows, Base, Reader, Reading
    <3>2. Base(r) \in Databases /\ Rows(r) = stored[Base(r)]
      BY <3>1 DEF Backed, Base, Rows
    <3>3. IsFiniteSet(Rows(r))
      BY <3>2 DEF Finitely
    <3> QED
      BY <1>a, <2>5, <3>3, GivenRows
  <2> QED
    BY <1>3, <2>2, <2>3, <2>4, <2>5 DEF ReportStep
<1>4. ASSUME NEW d, MoveSink(d) PROVE Given(r)'
  <2>1. reports'[r].counted = reports[r].counted /\ reports'[r].filter = reports[r].filter
        /\ reports'[r].at = reports[r].at
    BY <1>a, <1>4 DEF MoveSink, Fields
  <2> QED
    BY <1>a, <2>1, GivenStill
<1>5. ASSUME NEW c \in Clients, PostUp(c) \/ PostDown(c) \/ PostRaises(c) PROVE Given(r)'
  BY <1>1, <1>4, <1>5, PostFrame DEF SinksChange, ChangeSinks, ConnectSink, DropSink
<1> QED
  BY <1>1, <1>2, <1>3, <1>5
  DEF Next, vars, reportVars, sinkVars, clientVars, ClientStep, Tick, StoreRun, Store

LEMMA StoredFinite ==
    ASSUME Typed, StoredTyped, Backed, Finitely, [Next]_vars, NEW d \in Databases
    PROVE  IsFiniteSet(stored'[d])
<1>1. CASE stored' = stored
  BY <1>1 DEF Finitely
<1>2. CASE StoreRun
  <2>1. PICK x \in scene.runs : Store(x)
    BY <1>2 DEF StoreRun
  <2>2. plugins[backup] \in Databases
    BY DEF Backed
  <2>3. stored'[d] = stored[d] \/ stored'[d] = stored[d] \cup {x}
    BY <2>1, <2>2 DEF Store, StoredTyped
  <2> QED
    BY <2>3, FS_AddElement DEF Finitely
<1>3. ASSUME NEW r \in Requests, AskReport(r) \/ ReportStep(r) PROVE stored' = stored
  BY <1>3 DEF AskReport, Ask, ReportStep, ReadGroups, ReadRows, Draw, DrawFails, GiveUp, Leave,
              Open, SendBody, Disconnect, sinkVars
<1>4. ASSUME NEW c \in Clients, ClientStep(c) PROVE stored' = stored
  BY <1>4, PostFrame DEF ClientStep, reportVars, sinkVars
<1> QED
  BY <1>1, <1>2, <1>3, <1>4 DEF Next, vars, reportVars, sinkVars, Tick

(* As many of the worst runs of a case are left out of its averages as of
   the best, at most one more than the share asked for, whatever runs there
   are and however they were read (_filter_outliers).                        *)
THEOREM OutliersBalancedAlways == Spec => []OutliersBalanced
<1>1. Init => Finitely
  <2> SUFFICES ASSUME Init PROVE Finitely
    OBVIOUS
  <2>1. \A d \in Databases : IsFiniteSet(stored[d])
    BY ClientAssumption DEF Init, IsScene
  <2>2. ASSUME NEW r \in Requests PROVE Given(r)
    <3>1. Counted(r) = {} /\ reports[r].at = "none"
      BY DEF Init, NewReport, Counted
    <3> QED
      BY <3>1, FS_EmptySet DEF Given, Reading, After
  <2> QED
    BY <2>1, <2>2 DEF Finitely
<1>2. ClientInv /\ Finitely /\ [Next]_vars => Finitely'
  <2> SUFFICES ASSUME ClientInv, Finitely, [Next]_vars PROVE Finitely'
    OBVIOUS
  <2>1. IInv /\ Typed /\ StoredTyped /\ Backed /\ \A r \in Requests : Reader(r)
    BY DEF ClientInv, CommandInv, ReadInv
  <2>2. \A r \in Requests : Given(r)'
    BY <2>1, GivenKept
  <2>3. \A d \in Databases : IsFiniteSet(stored'[d])
    BY <2>1, StoredFinite
  <2> QED
    BY <2>2, <2>3 DEF Finitely
<1>3. ClientInv /\ Finitely => OutliersBalanced
  <2> SUFFICES ASSUME ClientInv, Finitely, NEW r \in Requests, Answered(r),
                      NEW s \in {InCase(r, x.group.vpn, x.case) : x \in Counted(r)},
                      \A x \in s : reports[r].counted[x] = 1,
                      Cardinality({x.speed : x \in s}) = Cardinality(s),
                      FilterOutliers(r, s) # {}
               PROVE  Balances(r, s, FilterOutliers(r, s))
    BY Zenon DEF OutliersBalanced
  <2>1. Given(r) /\ Reader(r)
    BY DEF Finitely, ClientInv, ReadInv
  <2>2. reports[r].filter.outliers \in 0..100
    BY <2>1 DEF Given, Reader, After
  <2>3. s \in SUBSET Counted(r)
    BY DEF InCase, Counted
  <2>4. IsFiniteSet(s)
    BY <2>1, <2>3, FS_Subset DEF Given
  <2>5. \A y \in s : y.speed \in Nat
    BY <2>3, ReportsAssumption DEF Counted
  <2>6. Ranked(s) /\ CountedOnce(s, reports[r].counted)
    BY <2>4, <2>5, DistinctSpeeds DEF CountedOnce
  <2> QED
    BY <2>2, <2>6, CutsBalanced
<1> QED
  BY <1>1, <1>2, <1>3, ClientsBegin, ClientsKept, PTL DEF Spec

===============================================================================
