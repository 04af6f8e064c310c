-------------------------------- MODULE MCClient ------------------------------
(* A small instance of Client for TLC.                                       *)
EXTENDS Client, TLC

CONSTANTS dbA, dbB

(* Runs of two cities of one country, of a group without a city, and of a    *)
(* group that tests to another country, which no report has.                 *)
Run(v, t, city, case, speed, day) ==
    [group |-> [vpn |-> v, target |-> t, city |-> city], case |-> case,
     speed |-> speed, day |-> day]
ny == Run("us", "us", "ny", "c1", 10, 8)
la == Run("us", "us", "la", "c1", 30, 9)
sf == Run("us", "us", "la", "c1", 20, 9)
other == Run("us", "us", "ny", "c2", 25, 8)
noCity == Run("us", "us", None, "c1", 40, 9)
abroad == Run("us", "gb", None, "c1", 50, 9)
old == Run("gb", "gb", None, "c2", 60, 3)
MCRuns == {ny, la, sf, other, noCity, abroad, old}

MCCode == "us" :> "us" @@ "UK" :> "gb" @@ "GB" :> "gb" @@ "no" :> "no"
MCSupported == "nord" :> ("openvpn" :> {"udp", "tcp"} @@ "nordlynx" :> {})

(* Documents.                                                                *)
List(items) == [form |-> "list", items |-> items]
Item(sort, v, t) == [sort |-> sort, vpn |-> v, target |-> t]
Multi(vs, ts) == [form |-> "multi", vpns |-> vs, targets |-> ts]
Doc(m, common, gs, vs, ss) ==
    [mode |-> m, repeats |-> None, common |-> common, groups |-> gs, vpns |-> vs, sinks |-> ss]
Nord == "nord" :> ("openvpn" :> {"udp"} @@ "nordlynx" :> {})
NoTech == "nord" :> None
InFile(d) == "sqlite" :> d

US == List({Item("text", "us", "us")})
OnA == Doc("once", FALSE, US, Nord, InFile(dbA))
OnB == Doc("continuous", TRUE, Multi({"us", "UK"}, {"us"}), Nord, InFile(dbB))
NoSink == Doc(None, FALSE, List({Item("dict", "GB", "GB")}), None, None)
Mixed == Doc("once", FALSE, List({Item("text", "us", "us"), Item("dict", "us", "us")}), Nord, None)
Norway == Doc("once", FALSE, Multi({"no"}, {"us"}), Nord, None)
Typo == Doc("once", FALSE, [form |-> "other"], Nord, None)
Bare == Doc("once", FALSE, None, NoTech, None)

MCFiles == {"a", "ab", "b", "none", "bad", "rel"}
MCRemoves ==
    [f \in MCFiles \cup {None} |->
       CASE f = None -> MCFiles [] f = "a" -> {"a", "ab"} [] f = "rel" -> {} [] OTHER -> {f}]

Filter(s, e, o) == [value |-> "download_speed", start |-> s, end |-> e, outliers |-> o]
Plain == Filter(None, None, 0)

Content == "a" :> OnA @@ "ab" :> OnA @@ "b" :> OnB @@ "none" :> NoSink @@ "bad" :> Mixed
           @@ "rel" :> OnA
In(a, b) == dbA :> a @@ dbB :> b

Scene == [clients |-> 0, ups |-> {}, updates |-> {FALSE}, downs |-> {}, schedules |-> {},
          edits |-> <<>>, files |-> Content, filters |-> {}, reports |-> 0, runs |-> {}, stored |-> In({}, {}),
          faults |-> FALSE, raises |-> FALSE, seconds |-> 0]

(* Commands and cron.                                                        *)
Cron == [Scene EXCEPT !.clients = 3, !.ups = {"a"}, !.downs = {None, "a", "rel"},
                      !.schedules = {"a", "ab", "b", "rel"}, !.faults = TRUE]
Edits == [Scene EXCEPT !.clients = 3, !.downs = {None}, !.schedules = {"a"},
                       !.edits = "a" :> OnB, !.raises = TRUE]
(* Configurations one after the other.                                       *)
Configs == [Scene EXCEPT !.clients = 3, !.updates = BOOLEAN, !.ups = {"a", "b", "none"},
                         !.downs = {None}, !.raises = TRUE]
Forms(doc) == [Scene EXCEPT !.clients = 2, !.ups = {"a", "bad"},
                            !.files = [Content EXCEPT !["bad"] = doc]]
(* Requests in one second or in two, over what filters; runs that arrive.    *)
Together == [Scene EXCEPT !.reports = 3, !.filters = {Plain, Filter(3, 3, 0)},
                          !.stored = In({ny, la}, {}), !.faults = TRUE]
TwoSeconds == [Together EXCEPT !.seconds = 1, !.filters = {Plain}]
Filters == [Scene EXCEPT !.reports = 2,
              !.filters = {Plain, Filter(3, None, 0), Filter(None, 9, 10), Filter(8, 9, 40),
                           Filter(1, 9, 50), Filter(1, 9, 101)},
              !.stored = In({ny, la, sf, other, abroad, old}, {})]
Arriving == [Scene EXCEPT !.reports = 1, !.filters = {Plain}, !.clients = 2,
               !.ups = {"a"}, !.downs = {None}, !.runs = {la, noCity}, !.stored = In({ny, sf}, {})]
(* The backup changes under a report, also by updates that raise.            *)
Backups == [Scene EXCEPT !.reports = 1, !.filters = {Plain}, !.clients = 3,
              !.ups = {"a", "b", "none"}, !.stored = In({ny, old}, {other})]
Unfinished == [Backups EXCEPT !.clients = 2, !.raises = TRUE]

MCScenes ==
    {Cron, Edits, Configs, Forms(Norway), Forms(Typo), Forms(Bare), Together, TwoSeconds,
     Filters, Arriving, Backups, Unfinished}

===============================================================================
