----------------------------- MODULE ServiceProofs -----------------------------
(*****************************************************************************)
(* Theorems of Service, for any clients: what an update leaves in the        *)
(* runner, when the state of the context is told truly, and that the runner  *)
(* does not lose what it tests.                                              *)
(*                                                                           *)
(* The proofs follow the actions still to execute: "queue" is sorted as      *)
(* Service.execute sorts it, and what the configuration says is always what  *)
(* the runner holds once these actions are executed.                         *)
(*****************************************************************************)
EXTENDS Service, StepProofs, SequenceTheorems

Marks == {"Quit", "Stop", "RemoveGroups", "RemoveCases", "AddCases", "AddGroups",
          "RemoveDataSinks", "UpdateDataSinks", "AddDataSinks", "RemoveVPNs", "UpdateVPNs",
          "AddVPNs", "Start"}
Rank(m) ==
    IF m = "Quit" THEN 0 ELSE IF m = "Stop" THEN 1 ELSE IF m = "RemoveGroups" THEN 2 ELSE
    IF m = "RemoveCases" THEN 3 ELSE IF m = "AddCases" THEN 4 ELSE IF m = "AddGroups" THEN 5 ELSE
    IF m = "RemoveDataSinks" THEN 6 ELSE IF m = "UpdateDataSinks" THEN 7 ELSE
    IF m = "AddDataSinks" THEN 8 ELSE IF m = "RemoveVPNs" THEN 9 ELSE
    IF m = "UpdateVPNs" THEN 10 ELSE IF m = "AddVPNs" THEN 11 ELSE 12

Things == Pairs \cup Cases \cup Providers \cup SinkNames
Action == [mark: Marks, arg: SUBSET Things]

(* What the handlers of the actions on groups and cases are given.           *)
Sensible(a) ==
    /\ a.mark \in {"RemoveGroups", "AddGroups"} => a.arg \subseteq Pairs /\ IsFiniteSet(a.arg)
    /\ a.mark \in {"RemoveCases", "AddCases"} => a.arg \subseteq Cases /\ IsFiniteSet(a.arg)
    /\ a.mark \in {"RemoveVPNs", "UpdateVPNs", "AddVPNs"} => a.arg \subseteq Providers

Repeatable == {"Stop", "Start"}
Before(a, b) == Rank(a.mark) < Rank(b.mark) \/ (a.mark = b.mark /\ a.mark \in Repeatable)

Queue(q) ==
    /\ q \in Seq(Action)
    /\ \A i \in 1..Len(q) : Sensible(q[i])
    /\ \A i, j \in 1..Len(q) : i < j => Before(q[i], q[j])

Has(q, m) == \E i \in 1..Len(q) : q[i].mark = m
Asks(q, m, x) == \E i \in 1..Len(q) : q[i].mark = m /\ x \in q[i].arg

-------------------------------------------------------------------------------
(* Queues.                                                                   *)
LEMMA Ranks ==
    /\ \A m \in Marks : Rank(m) \in 0..12
    /\ \A m, n \in Marks : Rank(m) = Rank(n) => m = n
BY DEF Marks, Rank

LEMMA EmptyQueue ==
    Queue(<<>>) /\ \A m : ~Has(<<>>, m) /\ \A x : ~Asks(<<>>, m, x)
<1>1. <<>> \in Seq(Action) /\ Len(<<>>) = 0
  BY EmptySeq
<1>2. 1..Len(<<>>) = {}
  BY <1>1
<1> QED
  BY <1>1, <1>2 DEF Queue, Has, Asks

(* The first action, and what is left when it is executed.                   *)
LEMMA Executed ==
    ASSUME NEW q, Queue(q), q # <<>>
    PROVE  /\ Queue(Tail(q)) /\ Head(q) \in Action /\ Sensible(Head(q))
           /\ \A m : Has(q, m) <=> m = Head(q).mark \/ Has(Tail(q), m)
           /\ \A m, x : Asks(q, m, x)
                  <=> (m = Head(q).mark /\ x \in Head(q).arg) \/ Asks(Tail(q), m, x)
           /\ \A m : Has(Tail(q), m) => /\ m \in Marks
                                        /\ \/ Rank(Head(q).mark) < Rank(m)
                                           \/ m = Head(q).mark /\ m \in Repeatable
           /\ \A m, x : Asks(Tail(q), m, x) => Has(Tail(q), m)
<1>1. /\ Head(q) \in Action /\ Tail(q) \in Seq(Action) /\ Len(Tail(q)) = Len(q) - 1
      /\ \A i \in 1..Len(Tail(q)) : Tail(q)[i] = q[i + 1]
      /\ Len(q) \in Nat \ {0} /\ Len(Tail(q)) \in Nat
  BY HeadTailProperties, EmptySeq, LenProperties DEF Queue
<1>2. Head(q) = q[1]
  BY DEF Queue
<1>3. \A i \in 1..Len(Tail(q)) : i + 1 \in 1..Len(q) /\ 1 < i + 1
  BY <1>1
<1>4. \A i \in 1..Len(q) : i = 1 \/ (i - 1 \in 1..Len(Tail(q)) /\ (i - 1) + 1 = i)
  BY <1>1
<1>5. 1 \in 1..Len(q)
  BY <1>1
<1>6. \A i \in 1..Len(Tail(q)) : Tail(q)[i] \in Action
  BY <1>1, ElementOfSeq
<1>7. Queue(Tail(q))
  <2>1. \A i \in 1..Len(Tail(q)) : Sensible(Tail(q)[i])
    BY <1>1, <1>3 DEF Queue
  <2>2. ASSUME NEW i \in 1..Len(Tail(q)), NEW j \in 1..Len(Tail(q)), i < j
        PROVE  Before(Tail(q)[i], Tail(q)[j])
    <3>1. i + 1 \in 1..Len(q) /\ j + 1 \in 1..Len(q) /\ i + 1 < j + 1
      BY <1>3, <2>2
    <3> QED
      BY <1>1, <3>1 DEF Queue
  <2> QED
    BY <1>1, <2>1, <2>2 DEF Queue
<1>8. Sensible(Head(q))
  BY <1>2, <1>5 DEF Queue
<1>9. ASSUME NEW m PROVE Has(q, m) <=> m = Head(q).mark \/ Has(Tail(q), m)
  <2>1. ASSUME NEW i \in 1..Len(q), q[i].mark = m PROVE m = Head(q).mark \/ Has(Tail(q), m)
    BY <1>1, <1>2, <1>4, <2>1 DEF Has
  <2>2. ASSUME NEW i \in 1..Len(Tail(q)), Tail(q)[i].mark = m PROVE Has(q, m)
    BY <1>1, <1>3, <2>2 DEF Has
  <2> QED
    BY <1>2, <1>5, <2>1, <2>2 DEF Has
<1>10. ASSUME NEW m, NEW x
       PROVE  Asks(q, m, x) <=> (m = Head(q).mark /\ x \in Head(q).arg) \/ Asks(Tail(q), m, x)
  <2>1. ASSUME NEW i \in 1..Len(q), q[i].mark = m, x \in q[i].arg
        PROVE  (m = Head(q).mark /\ x \in Head(q).arg) \/ Asks(Tail(q), m, x)
    BY <1>1, <1>2, <1>4, <2>1 DEF Asks
  <2>2. ASSUME NEW i \in 1..Len(Tail(q)), Tail(q)[i].mark = m, x \in Tail(q)[i].arg
        PROVE  Asks(q, m, x)
    BY <1>1, <1>3, <2>2 DEF Asks
  <2> QED
    BY <1>2, <1>5, <2>1, <2>2 DEF Asks
<1>11. ASSUME NEW m, Has(Tail(q), m)
       PROVE  /\ m \in Marks
              /\ Rank(Head(q).mark) < Rank(m) \/ (m = Head(q).mark /\ m \in Repeatable)
  <2>1. PICK i \in 1..Len(Tail(q)) : Tail(q)[i].mark = m
    BY <1>11 DEF Has
  <2>2. Before(Head(q), q[i + 1]) /\ q[i + 1].mark = m
    BY <1>1, <1>2, <1>3, <1>5, <2>1 DEF Queue
  <2> QED
    BY <1>6, <2>1, <2>2 DEF Before, Action
<1>12. \A m, x : Asks(Tail(q), m, x) => Has(Tail(q), m)
  BY DEF Asks, Has
<1> QED
  BY <1>1, <1>7, <1>8, <1>9, <1>10, <1>11, <1>12

(* Actions are listed one by one, in the order of their marks.               *)
UpTo(q, n) == \A i \in 1..Len(q) : Rank(q[i].mark) <= n

LEMMA Listed ==
    ASSUME NEW q, Queue(q), NEW n \in -1..12, UpTo(q, n),
           NEW m \in Marks, NEW arg \in SUBSET Things,
           Sensible([mark |-> m, arg |-> arg]),
           n < Rank(m) \/ (n = Rank(m) /\ m \in Repeatable),
           NEW t, t = <<>> \/ t = <<[mark |-> m, arg |-> arg]>>
    PROVE  /\ Queue(q \o t) /\ UpTo(q \o t, Rank(m))
           /\ \A k : Has(q \o t, k) <=> Has(q, k) \/ (k = m /\ t # <<>>)
           /\ \A k, x : Asks(q \o t, k, x) <=> Asks(q, k, x) \/ (k = m /\ t # <<>> /\ x \in arg)
<1>a. Rank(m) \in 0..12 /\ q \in Seq(Action) /\ Len(q) \in Nat
  BY Ranks, LenProperties DEF Queue
<1>b. \A i \in 1..Len(q) : q[i] \in Action /\ q[i].mark \in Marks /\ Rank(q[i].mark) \in 0..12
  <2>1. \A i \in 1..Len(q) : q[i] \in Action
    BY <1>a, ElementOfSeq
  <2> QED
    BY <2>1, Ranks DEF Action
<1>1. CASE t = <<>>
  <2>1. q \o t = q
    BY <1>1, <1>a, ConcatEmptySeq
  <2>2. UpTo(q, Rank(m))
    BY <1>a, <1>b DEF UpTo
  <2> QED
    BY <1>1, <2>1, <2>2
<1>2. CASE t = <<[mark |-> m, arg |-> arg]>>
  <2> DEFINE a == [mark |-> m, arg |-> arg]
  <2>1. a \in Action /\ a.mark = m /\ a.arg = arg
    BY DEF Action
  <2>2. t \in Seq(Action) /\ Len(t) = 1 /\ t[1] = a /\ t # <<>>
    BY <1>2, <2>1
  <2> HIDE DEF a
  <2>3. /\ q \o t \in Seq(Action) /\ Len(q \o t) = Len(q) + 1
        /\ \A i \in 1..Len(q) : (q \o t)[i] = q[i]
        /\ (q \o t)[Len(q) + 1] = a
    <3>1. /\ Len(q \o t) = Len(q) + Len(t) /\ q \o t \in Seq(Action)
          /\ \A i \in 1..Len(q) + Len(t) :
                (q \o t)[i] = IF i <= Len(q) THEN q[i] ELSE t[i - Len(q)]
      BY <1>a, <2>2, ConcatProperties
    <3>2. \A i \in 1..Len(q) : i \in 1..Len(q) + Len(t) /\ i <= Len(q)
      BY <1>a, <2>2
    <3>3. /\ Len(q) + 1 \in 1..Len(q) + Len(t) /\ ~(Len(q) + 1 <= Len(q))
          /\ (Len(q) + 1) - Len(q) = 1
      BY <1>a, <2>2
    <3>4. (q \o t)[Len(q) + 1] = t[1]
      BY <3>1, <3>3
    <3> QED
      BY <2>2, <3>1, <3>2, <3>4
  <2>4. PICK u : u = q \o t
    OBVIOUS
  <2>5. \A i \in 1..Len(u) : i \in 1..Len(q) \/ i = Len(q) + 1
    BY <1>a, <2>3, <2>4
  <2>6. 1..Len(q) \subseteq 1..Len(u) /\ Len(q) + 1 \in 1..Len(u)
    BY <1>a, <2>3, <2>4
  <2>7. \A i \in 1..Len(q) : Before(q[i], a)
    BY <1>a, <1>b, <2>1, Ranks DEF Before, UpTo
  <2>8. Queue(u)
    <3>1. \A i \in 1..Len(u) : Sensible(u[i])
      BY <2>1, <2>3, <2>4, <2>5 DEF Queue, a
    <3>2. ASSUME NEW i \in 1..Len(u), NEW j \in 1..Len(u), i < j
          PROVE  Before(u[i], u[j])
      <4>1. i \in 1..Len(q)
        BY <1>a, <2>3, <2>4, <3>2
      <4>2. CASE j \in 1..Len(q)
        BY <2>3, <2>4, <3>2, <4>1, <4>2 DEF Queue
      <4>3. CASE j = Len(q) + 1
        BY <2>3, <2>4, <2>7, <4>1, <4>3
      <4> QED
        BY <2>5, <4>2, <4>3
    <3> QED
      BY <2>3, <2>4, <3>1, <3>2 DEF Queue
  <2>9. UpTo(u, Rank(m))
    <3>1. ASSUME NEW i \in 1..Len(u) PROVE Rank(u[i].mark) <= Rank(m)
      <4>1. CASE i \in 1..Len(q)
        <5>1. u[i] = q[i] /\ Rank(q[i].mark) <= n /\ Rank(q[i].mark) \in 0..12
          BY <1>b, <2>3, <2>4, <4>1 DEF UpTo
        <5> QED
          BY <1>a, <5>1
      <4>2. CASE i = Len(q) + 1
        BY <1>a, <2>1, <2>3, <2>4, <4>2
      <4> QED
        BY <2>5, <4>1, <4>2
    <3> QED
      BY <3>1 DEF UpTo
  <2>10. ASSUME NEW k PROVE Has(u, k) <=> Has(q, k) \/ k = m
    BY <2>1, <2>3, <2>4, <2>5, <2>6 DEF Has
  <2>11. ASSUME NEW k, NEW x PROVE Asks(u, k, x) <=> Asks(q, k, x) \/ (k = m /\ x \in arg)
    BY <2>1, <2>3, <2>4, <2>5, <2>6 DEF Asks
  <2> QED
    BY <2>2, <2>4, <2>8, <2>9, <2>10, <2>11
<1> QED
  BY <1>1, <1>2

LEMMA ListedOn ==
    ASSUME NEW q, Queue(q), NEW n \in -1..12, UpTo(q, n),
           NEW m \in {"Quit", "Stop", "Start"}, NEW c \in BOOLEAN,
           n < Rank(m) \/ (n = Rank(m) /\ m \in Repeatable)
    PROVE  /\ Queue(q \o On(c, m)) /\ UpTo(q \o On(c, m), Rank(m)) /\ Rank(m) \in 0..12
           /\ \A k : Has(q \o On(c, m), k) <=> Has(q, k) \/ (k = m /\ c)
           /\ \A k, x : Asks(q \o On(c, m), k, x) <=> Asks(q, k, x)
<1> DEFINE t == On(c, m)
<1>0. PICK none : none = {}
  OBVIOUS
<1>1. /\ t = <<>> \/ t = <<[mark |-> m, arg |-> none]>>
      /\ t # <<>> <=> c
  BY <1>0 DEF On, Act
<1>2. m \in Marks /\ none \in SUBSET Things /\ Sensible([mark |-> m, arg |-> none])
  BY <1>0 DEF Marks, Sensible
<1> HIDE DEF t
<1>3. /\ Queue(q \o t) /\ UpTo(q \o t, Rank(m))
      /\ \A k : Has(q \o t, k) <=> Has(q, k) \/ (k = m /\ t # <<>>)
      /\ \A k, x : Asks(q \o t, k, x) <=> Asks(q, k, x) \/ (k = m /\ t # <<>> /\ x \in none)
  BY <1>1, <1>2, Listed
<1>4. Queue(q \o t) /\ UpTo(q \o t, Rank(m)) /\ Rank(m) \in 0..12
      /\ (\A k : Has(q \o t, k) <=> Has(q, k) \/ (k = m /\ c))
      /\ (\A k, x : Asks(q \o t, k, x) <=> Asks(q, k, x))
  BY <1>0, <1>1, <1>2, <1>3, Ranks
<1> QED
  BY <1>4 DEF t

LEMMA ListedSome ==
    ASSUME NEW q, Queue(q), NEW n \in -1..12, UpTo(q, n),
           NEW m \in Marks, NEW arg \in SUBSET Things, n < Rank(m),
           Sensible([mark |-> m, arg |-> arg])
    PROVE  /\ Queue(q \o Some(m, arg)) /\ UpTo(q \o Some(m, arg), Rank(m)) /\ Rank(m) \in 0..12
           /\ \A k : Has(q \o Some(m, arg), k) <=> Has(q, k) \/ (k = m /\ arg # {})
           /\ \A k, x : Asks(q \o Some(m, arg), k, x) <=> Asks(q, k, x) \/ (k = m /\ x \in arg)
<1> DEFINE t == Some(m, arg)
<1>1. /\ t = <<>> \/ t = <<[mark |-> m, arg |-> arg]>>
      /\ t # <<>> <=> arg # {}
  BY DEF Some, Act
<1> HIDE DEF t
<1>2. /\ Queue(q \o t) /\ UpTo(q \o t, Rank(m))
      /\ \A k : Has(q \o t, k) <=> Has(q, k) \/ (k = m /\ t # <<>>)
      /\ \A k, x : Asks(q \o t, k, x) <=> Asks(q, k, x) \/ (k = m /\ t # <<>> /\ x \in arg)
  BY <1>1, Listed
<1>3. Queue(q \o t) /\ UpTo(q \o t, Rank(m)) /\ Rank(m) \in 0..12
      /\ (\A k : Has(q \o t, k) <=> Has(q, k) \/ (k = m /\ arg # {}))
      /\ (\A k, x : Asks(q \o t, k, x) <=> Asks(q, k, x) \/ (k = m /\ x \in arg))
  BY <1>1, <1>2, Ranks
<1> QED
  BY <1>3 DEF t

(* The contexts of the service.                                              *)
States == {"idle", "run", "quit"}
IsContext(c) ==
    /\ c = [state |-> c.state, config |-> c.config]
    /\ c.state \in States /\ c.config.mode \in Modes
    /\ c.config.repeats \in Nat \ {0} /\ c.config.common \in BOOLEAN
    /\ IsVpns(c.config.vpns)
    /\ c.config.groups \subseteq Pairs /\ IsFiniteSet(c.config.groups)
    /\ DOMAIN c.config.sinks \subseteq SinkNames

LEMMA Taken ==
    ASSUME NEW old, IsContext(old), NEW new,
           new = DefaultContext \/ \E r : IsRequest(r) /\ new = r.context
    PROVE  /\ IsContext(DiffContext(old, new))
           /\ new.state \in States
<1> USE ServiceAssumption DEF States, Modes
<1>2. CASE new = DefaultContext
  BY <1>2, FS_EmptySet DEF DefaultContext, DiffContext, DiffConfig, Or, IsContext
<1>3. ASSUME NEW r, IsRequest(r), new = r.context
      PROVE  IsContext(DiffContext(old, new)) /\ new.state \in States
  <2>1. CASE new.config = None
    BY <1>3, <2>1 DEF IsRequest, DiffContext, DiffConfig, Or, IsContext
  <2>2. CASE new.config # None
    BY <1>3, <2>2, FS_EmptySet DEF IsRequest, IsConfig, DiffContext, DiffConfig, Or, IsContext
  <2> QED
    BY <2>1, <2>2
<1> QED
  BY <1>2, <1>3

(* What service.diff asks for, by the mark of the action.                    *)
LEMMA ActionsAre ==
    ASSUME NEW old, IsContext(old), NEW new, NEW c, c = DiffContext(old, new), IsContext(c),
           NEW q, q = Actions(old, new)
    PROVE  /\ Queue(q)
           /\ Has(q, "Quit") <=> c.state = "quit"
           /\ Has(q, "Stop") <=> \/ old.config.mode # c.config.mode
                                 \/ old.state = "run" /\ c.state = "idle"
           /\ Has(q, "Start") <=> \/ old.config.mode # c.config.mode
                                  \/ old.state = "idle" /\ c.state = "run"
           /\ Has(q, "RemoveGroups") <=> old.config.groups \ c.config.groups # {}
           /\ Has(q, "RemoveCases")
                  <=> ToCases(old.config.vpns) \ ToCases(c.config.vpns) # {}
           /\ Has(q, "AddCases")
                  <=> ToCases(c.config.vpns) \ ToCases(old.config.vpns) # {}
           /\ Has(q, "AddGroups") <=> c.config.groups \ old.config.groups # {}
           /\ \A x : Asks(q, "RemoveGroups", x) <=> x \in old.config.groups \ c.config.groups
           /\ \A x : Asks(q, "AddGroups", x) <=> x \in c.config.groups \ old.config.groups
           /\ \A x : Asks(q, "RemoveCases", x)
                  <=> x \in ToCases(old.config.vpns) \ ToCases(c.config.vpns)
           /\ \A x : Asks(q, "AddCases", x)
                  <=> x \in ToCases(c.config.vpns) \ ToCases(old.config.vpns)
           /\ \A x : Asks(q, "RemoveVPNs", x)
                  <=> x \in DOMAIN old.config.vpns \ DOMAIN c.config.vpns
           /\ \A x : Asks(q, "AddVPNs", x)
                  <=> x \in DOMAIN c.config.vpns \ DOMAIN old.config.vpns
           /\ \A x : Asks(q, "UpdateVPNs", x)
                  => x \in DOMAIN c.config.vpns \cap DOMAIN old.config.vpns
<1>a. PICK was, now : was = old.config /\ now = c.config
  OBVIOUS
<1>b. PICK restart \in BOOLEAN : restart <=> was.mode # now.mode
  OBVIOUS
<1>c. PICK stop \in BOOLEAN : stop <=> old.state = "run" /\ c.state = "idle"
  OBVIOUS
<1>d. PICK start \in BOOLEAN : start <=> old.state = "idle" /\ c.state = "run"
  OBVIOUS
<1>e. PICK quit \in BOOLEAN : quit <=> c.state = "quit"
  OBVIOUS
<1>f. PICK rg, ag : rg = DelGroups(was, now) /\ ag = DelGroups(now, was)
  OBVIOUS
<1>g. PICK rc, ac : /\ rc = ToCases(was.vpns) \ ToCases(now.vpns)
                    /\ ac = ToCases(now.vpns) \ ToCases(was.vpns)
  OBVIOUS
<1>h. PICK rs, us, ns : /\ rs = Dropped(was.sinks, now.sinks)
                        /\ us = Changed(was.sinks, now.sinks)
                        /\ ns = Dropped(now.sinks, was.sinks)
  OBVIOUS
<1>i. PICK rv, uv, av : /\ rv = Dropped(was.vpns, now.vpns)
                        /\ uv = Changed(was.vpns, now.vpns)
                        /\ av = Dropped(now.vpns, was.vpns)
  OBVIOUS
<1>1. /\ rg \subseteq Pairs /\ IsFiniteSet(rg) /\ ag \subseteq Pairs /\ IsFiniteSet(ag)
      /\ rg = was.groups \ now.groups /\ ag = now.groups \ was.groups
  BY <1>a, <1>f, FS_Subset DEF DelGroups, IsContext
<1>2. rc \subseteq Cases /\ IsFiniteSet(rc) /\ ac \subseteq Cases /\ IsFiniteSet(ac)
  <2>1. /\ ToCases(was.vpns) \subseteq Cases /\ IsFiniteSet(ToCases(was.vpns))
        /\ ToCases(now.vpns) \subseteq Cases /\ IsFiniteSet(ToCases(now.vpns))
    BY <1>a DEF IsContext, IsVpns, ToCases
  <2> QED
    BY <1>g, <2>1, FS_Subset
<1>3. rs \subseteq SinkNames /\ us \subseteq SinkNames /\ ns \subseteq SinkNames
  BY <1>a, <1>h DEF IsContext, Dropped, Changed
<1>4. /\ rv \subseteq Providers /\ uv \subseteq Providers /\ av \subseteq Providers
      /\ rv = DOMAIN was.vpns \ DOMAIN now.vpns /\ av = DOMAIN now.vpns \ DOMAIN was.vpns
      /\ uv \subseteq DOMAIN now.vpns \cap DOMAIN was.vpns
  BY <1>a, <1>i DEF IsContext, IsVpns, Dropped, Changed
<1>5. \A x \in {rg, ag, rc, ac, rs, us, ns, rv, uv, av} : x \in SUBSET Things
  BY <1>1, <1>2, <1>3, <1>4 DEF Things
<1>6. /\ Sensible([mark |-> "RemoveGroups", arg |-> rg])
      /\ Sensible([mark |-> "AddGroups", arg |-> ag])
      /\ Sensible([mark |-> "RemoveCases", arg |-> rc])
      /\ Sensible([mark |-> "AddCases", arg |-> ac])
      /\ Sensible([mark |-> "RemoveDataSinks", arg |-> rs])
      /\ Sensible([mark |-> "UpdateDataSinks", arg |-> us])
      /\ Sensible([mark |-> "AddDataSinks", arg |-> ns])
      /\ Sensible([mark |-> "RemoveVPNs", arg |-> rv])
      /\ Sensible([mark |-> "UpdateVPNs", arg |-> uv])
      /\ Sensible([mark |-> "AddVPNs", arg |-> av])
  BY <1>1, <1>2, <1>4 DEF Sensible
<1>7. Queue(<<>>) /\ UpTo(<<>>, -1)
  BY EmptyQueue, EmptySeq DEF UpTo
<1> HIDE DEF Rank
<1>8. /\ Rank("Quit") = 0 /\ Rank("Stop") = 1 /\ Rank("RemoveGroups") = 2
      /\ Rank("RemoveCases") = 3 /\ Rank("AddCases") = 4 /\ Rank("AddGroups") = 5
      /\ Rank("RemoveDataSinks") = 6 /\ Rank("UpdateDataSinks") = 7 /\ Rank("AddDataSinks") = 8
      /\ Rank("RemoveVPNs") = 9 /\ Rank("UpdateVPNs") = 10 /\ Rank("AddVPNs") = 11
      /\ Rank("Start") = 12
      /\ {"Quit", "Stop", "RemoveGroups", "RemoveCases", "AddCases", "AddGroups", "RemoveDataSinks"} \subseteq Marks
      /\ {"UpdateDataSinks", "AddDataSinks", "RemoveVPNs", "UpdateVPNs", "AddVPNs", "Start"} \subseteq Marks
  BY DEF Rank, Marks
<1>9. PICK q1 : q1 = <<>> \o On(quit, "Quit")
  OBVIOUS
<1>10. /\ Queue(q1) /\ UpTo(q1, 0)
       /\ \A k : Has(q1, k) <=> Has(<<>>, k) \/ (k = "Quit" /\ quit)
       /\ \A k, x : Asks(q1, k, x) <=> Asks(<<>>, k, x)
  <2>1. -1 \in -1..12 /\ (-1 < Rank("Quit") \/ (-1 = Rank("Quit") /\ "Quit" \in Repeatable))
        /\ Rank("Quit") = 0
    BY <1>8 DEF Repeatable
  <2> QED
    BY <2>1, <1>9, <1>7, ListedOn
<1>11. PICK q2 : q2 = q1 \o On(restart, "Stop")
  OBVIOUS
<1>12. /\ Queue(q2) /\ UpTo(q2, 1)
       /\ \A k : Has(q2, k) <=> Has(q1, k) \/ (k = "Stop" /\ restart)
       /\ \A k, x : Asks(q2, k, x) <=> Asks(q1, k, x)
  <2>1. 0 \in -1..12 /\ (0 < Rank("Stop") \/ (0 = Rank("Stop") /\ "Stop" \in Repeatable))
        /\ Rank("Stop") = 1
    BY <1>8 DEF Repeatable
  <2> QED
    BY <2>1, <1>11, <1>10, ListedOn
<1>13. PICK q3 : q3 = q2 \o On(stop, "Stop")
  OBVIOUS
<1>14. /\ Queue(q3) /\ UpTo(q3, 1)
       /\ \A k : Has(q3, k) <=> Has(q2, k) \/ (k = "Stop" /\ stop)
       /\ \A k, x : Asks(q3, k, x) <=> Asks(q2, k, x)
  <2>1. 1 \in -1..12 /\ (1 < Rank("Stop") \/ (1 = Rank("Stop") /\ "Stop" \in Repeatable))
        /\ Rank("Stop") = 1
    BY <1>8 DEF Repeatable
  <2> QED
    BY <2>1, <1>13, <1>12, ListedOn
<1>15. PICK q4 : q4 = q3 \o Some("RemoveGroups", rg)
  OBVIOUS
<1>16. /\ Queue(q4) /\ UpTo(q4, 2)
       /\ \A k : Has(q4, k) <=> Has(q3, k) \/ (k = "RemoveGroups" /\ rg # {})
       /\ \A k, x : Asks(q4, k, x) <=> Asks(q3, k, x) \/ (k = "RemoveGroups" /\ x \in rg)
  <2>1. /\ 1 \in -1..12 /\ 1 < Rank("RemoveGroups") /\ Rank("RemoveGroups") = 2
        /\ "RemoveGroups" \in Marks /\ rg \in SUBSET Things
        /\ Sensible([mark |-> "RemoveGroups", arg |-> rg])
    BY <1>5, <1>6, <1>8
  <2> QED
    BY <2>1, <1>15, <1>14, ListedSome
<1>17. PICK q5 : q5 = q4 \o Some("RemoveCases", rc)
  OBVIOUS
<1>18. /\ Queue(q5) /\ UpTo(q5, 3)
       /\ \A k : Has(q5, k) <=> Has(q4, k) \/ (k = "RemoveCases" /\ rc # {})
       /\ \A k, x : Asks(q5, k, x) <=> Asks(q4, k, x) \/ (k = "RemoveCases" /\ x \in rc)
  <2>1. /\ 2 \in -1..12 /\ 2 < Rank("RemoveCases") /\ Rank("RemoveCases") = 3
        /\ "RemoveCases" \in Marks /\ rc \in SUBSET Things
        /\ Sensible([mark |-> "RemoveCases", arg |-> rc])
    BY <1>5, <1>6, <1>8
  <2> QED
    BY <2>1, <1>17, <1>16, ListedSome
<1>19. PICK q6 : q6 = q5 \o Some("AddCases", ac)
  OBVIOUS
<1>20. /\ Queue(q6) /\ UpTo(q6, 4)
       /\ \A k : Has(q6, k) <=> Has(q5, k) \/ (k = "AddCases" /\ ac # {})
       /\ \A k, x : Asks(q6, k, x) <=> Asks(q5, k, x) \/ (k = "AddCases" /\ x \in ac)
  <2>1. /\ 3 \in -1..12 /\ 3 < Rank("AddCases") /\ Rank("AddCases") = 4
        /\ "AddCases" \in Marks /\ ac \in SUBSET Things
        /\ Sensible([mark |-> "AddCases", arg |-> ac])
    BY <1>5, <1>6, <1>8
  <2> QED
    BY <2>1, <1>19, <1>18, ListedSome
<1>21. PICK q7 : q7 = q6 \o Some("AddGroups", ag)
  OBVIOUS
<1>22. /\ Queue(q7) /\ UpTo(q7, 5)
       /\ \A k : Has(q7, k) <=> Has(q6, k) \/ (k = "AddGroups" /\ ag # {})
       /\ \A k, x : Asks(q7, k, x) <=> Asks(q6, k, x) \/ (k = "AddGroups" /\ x \in ag)
  <2>1. /\ 4 \in -1..12 /\ 4 < Rank("AddGroups") /\ Rank("AddGroups") = 5
        /\ "AddGroups" \in Marks /\ ag \in SUBSET Things
        /\ Sensible([mark |-> "AddGroups", arg |-> ag])
    BY <1>5, <1>6, <1>8
  <2> QED
    BY <2>1, <1>21, <1>20, ListedSome
<1>23. PICK q8 : q8 = q7 \o Some("RemoveDataSinks", rs)
  OBVIOUS
<1>24. /\ Queue(q8) /\ UpTo(q8, 6)
       /\ \A k : Has(q8, k) <=> Has(q7, k) \/ (k = "RemoveDataSinks" /\ rs # {})
       /\ \A k, x : Asks(q8, k, x) <=> Asks(q7, k, x) \/ (k = "RemoveDataSinks" /\ x \in rs)
  <2>1. /\ 5 \in -1..12 /\ 5 < Rank("RemoveDataSinks") /\ Rank("RemoveDataSinks") = 6
        /\ "RemoveDataSinks" \in Marks /\ rs \in SUBSET Things
        /\ Sensible([mark |-> "RemoveDataSinks", arg |-> rs])
    BY <1>5, <1>6, <1>8
  <2> QED
    BY <2>1, <1>23, <1>22, ListedSome
<1>25. PICK q9 : q9 = q8 \o Some("UpdateDataSinks", us)
  OBVIOUS
<1>26. /\ Queue(q9) /\ UpTo(q9, 7)
       /\ \A k : Has(q9, k) <=> Has(q8, k) \/ (k = "UpdateDataSinks" /\ us # {})
       /\ \A k, x : Asks(q9, k, x) <=> Asks(q8, k, x) \/ (k = "UpdateDataSinks" /\ x \in us)
  <2>1. /\ 6 \in -1..12 /\ 6 < Rank("UpdateDataSinks") /\ Rank("UpdateDataSinks") = 7
        /\ "UpdateDataSinks" \in Marks /\ us \in SUBSET Things
        /\ Sensible([mark |-> "UpdateDataSinks", arg |-> us])
    BY <1>5, <1>6, <1>8
  <2> QED
    BY <2>1, <1>25, <1>24, ListedSome
<1>27. PICK q10 : q10 = q9 \o Some("AddDataSinks", ns)
  OBVIOUS
<1>28. /\ Queue(q10) /\ UpTo(q10, 8)
       /\ \A k : Has(q10, k) <=> Has(q9, k) \/ (k = "AddDataSinks" /\ ns # {})
       /\ \A k, x : Asks(q10, k, x) <=> Asks(q9, k, x) \/ (k = "AddDataSinks" /\ x \in ns)
  <2>1. /\ 7 \in -1..12 /\ 7 < Rank("AddDataSinks") /\ Rank("AddDataSinks") = 8
        /\ "AddDataSinks" \in Marks /\ ns \in SUBSET Things
        /\ Sensible([mark |-> "AddDataSinks", arg |-> ns])
    BY <1>5, <1>6, <1>8
  <2> QED
    BY <2>1, <1>27, <1>26, ListedSome
<1>29. PICK q11 : q11 = q10 \o Some("RemoveVPNs", rv)
  OBVIOUS
<1>30. /\ Queue(q11) /\ UpTo(q11, 9)
       /\ \A k : Has(q11, k) <=> Has(q10, k) \/ (k = "RemoveVPNs" /\ rv # {})
       /\ \A k, x : Asks(q11, k, x) <=> Asks(q10, k, x) \/ (k = "RemoveVPNs" /\ x \in rv)
  <2>1. /\ 8 \in -1..12 /\ 8 < Rank("RemoveVPNs") /\ Rank("RemoveVPNs") = 9
        /\ "RemoveVPNs" \in Marks /\ rv \in SUBSET Things
        /\ Sensible([mark |-> "RemoveVPNs", arg |-> rv])
    BY <1>5, <1>6, <1>8
  <2> QED
    BY <2>1, <1>29, <1>28, ListedSome
<1>31. PICK q12 : q12 = q11 \o Some("UpdateVPNs", uv)
  OBVIOUS
<1>32. /\ Queue(q12) /\ UpTo(q12, 10)
       /\ \A k : Has(q12, k) <=> Has(q11, k) \/ (k = "UpdateVPNs" /\ uv # {})
       /\ \A k, x : Asks(q12, k, x) <=> Asks(q11, k, x) \/ (k = "UpdateVPNs" /\ x \in uv)
  <2>1. /\ 9 \in -1..12 /\ 9 < Rank("UpdateVPNs") /\ Rank("UpdateVPNs") = 10
        /\ "UpdateVPNs" \in Marks /\ uv \in SUBSET Things
        /\ Sensible([mark |-> "UpdateVPNs", arg |-> uv])
    BY <1>5, <1>6, <1>8
  <2> QED
    BY <2>1, <1>31, <1>30, ListedSome
<1>33. PICK q13 : q13 = q12 \o Some("AddVPNs", av)
  OBVIOUS
<1>34. /\ Queue(q13) /\ UpTo(q13, 11)
       /\ \A k : Has(q13, k) <=> Has(q12, k) \/ (k = "AddVPNs" /\ av # {})
       /\ \A k, x : Asks(q13, k, x) <=> Asks(q12, k, x) \/ (k = "AddVPNs" /\ x \in av)
  <2>1. /\ 10 \in -1..12 /\ 10 < Rank("AddVPNs") /\ Rank("AddVPNs") = 11
        /\ "AddVPNs" \in Marks /\ av \in SUBSET Things
        /\ Sensible([mark |-> "AddVPNs", arg |-> av])
    BY <1>5, <1>6, <1>8
  <2> QED
    BY <2>1, <1>33, <1>32, ListedSome
<1>35. PICK q14 : q14 = q13 \o On(restart, "Start")
  OBVIOUS
<1>36. /\ Queue(q14) /\ UpTo(q14, 12)
       /\ \A k : Has(q14, k) <=> Has(q13, k) \/ (k = "Start" /\ restart)
       /\ \A k, x : Asks(q14, k, x) <=> Asks(q13, k, x)
  <2>1. 11 \in -1..12 /\ (11 < Rank("Start") \/ (11 = Rank("Start") /\ "Start" \in Repeatable))
        /\ Rank("Start") = 12
    BY <1>8 DEF Repeatable
  <2> QED
    BY <2>1, <1>35, <1>34, ListedOn
<1>37. PICK q15 : q15 = q14 \o On(start, "Start")
  OBVIOUS
<1>38. /\ Queue(q15) /\ UpTo(q15, 12)
       /\ \A k : Has(q15, k) <=> Has(q14, k) \/ (k = "Start" /\ start)
       /\ \A k, x : Asks(q15, k, x) <=> Asks(q14, k, x)
  <2>1. 12 \in -1..12 /\ (12 < Rank("Start") \/ (12 = Rank("Start") /\ "Start" \in Repeatable))
        /\ Rank("Start") = 12
    BY <1>8 DEF Repeatable
  <2> QED
    BY <2>1, <1>37, <1>36, ListedOn
<1>39. q = q15
  <2>1. On(quit, "Quit") = q1
    <3>1. On(quit, "Quit") = <<>> \/ On(quit, "Quit") = <<[mark |-> "Quit", arg |-> {}]>>
      BY DEF On, Act
    <3>2. \A r : <<r>> \in Seq({r}) /\ <<>> \in Seq({r})
      OBVIOUS
    <3> QED
      BY <3>1, <3>2, <1>9, ConcatEmptySeq
  <2> QED
    BY <2>1, <1>a, <1>b, <1>c, <1>d, <1>e, <1>f, <1>g, <1>h, <1>i,
       <1>9, <1>11, <1>13, <1>15, <1>17, <1>19, <1>21, <1>23, <1>25, <1>27, <1>29, <1>31, <1>33, <1>35, <1>37 DEF Actions
<1>40. Queue(q) /\ (Has(q, "Quit") <=> quit)
  BY EmptyQueue, <1>39,
     <1>10, <1>12, <1>14, <1>16, <1>18, <1>20, <1>22, <1>24, <1>26, <1>28, <1>30, <1>32, <1>34, <1>36, <1>38
<1>41. (Has(q, "Stop") <=> restart \/ stop) /\ (Has(q, "Start") <=> restart \/ start)
  BY EmptyQueue, <1>39,
     <1>10, <1>12, <1>14, <1>16, <1>18, <1>20, <1>22, <1>24, <1>26, <1>28, <1>30, <1>32, <1>34, <1>36, <1>38
<1>42. (Has(q, "RemoveGroups") <=> rg # {}) /\ (Has(q, "AddGroups") <=> ag # {})
  BY EmptyQueue, <1>39,
     <1>10, <1>12, <1>14, <1>16, <1>18, <1>20, <1>22, <1>24, <1>26, <1>28, <1>30, <1>32, <1>34, <1>36, <1>38
<1>43. (Has(q, "RemoveCases") <=> rc # {}) /\ (Has(q, "AddCases") <=> ac # {})
  BY EmptyQueue, <1>39,
     <1>10, <1>12, <1>14, <1>16, <1>18, <1>20, <1>22, <1>24, <1>26, <1>28, <1>30, <1>32, <1>34, <1>36, <1>38
<1>44. \A k, x : ~Asks(q3, k, x)
  BY EmptyQueue, <1>10, <1>12, <1>14
<1>45. ASSUME NEW k, NEW x
      PROVE  Asks(q7, k, x) <=> \/ k = "RemoveGroups" /\ x \in rg
                                \/ k = "RemoveCases" /\ x \in rc
                                \/ k = "AddCases" /\ x \in ac
                                \/ k = "AddGroups" /\ x \in ag
  <2>1. Asks(q4, k, x) <=> Asks(q3, k, x) \/ (k = "RemoveGroups" /\ x \in rg)
    BY <1>16
  <2>2. Asks(q5, k, x) <=> Asks(q4, k, x) \/ (k = "RemoveCases" /\ x \in rc)
    BY <1>18
  <2>3. Asks(q6, k, x) <=> Asks(q5, k, x) \/ (k = "AddCases" /\ x \in ac)
    BY <1>20
  <2>4. Asks(q7, k, x) <=> Asks(q6, k, x) \/ (k = "AddGroups" /\ x \in ag)
    BY <1>22
  <2> QED
    BY <1>44, <2>1, <2>2, <2>3, <2>4
<1>46. ASSUME NEW k, NEW x
      PROVE  Asks(q10, k, x) <=> \/ Asks(q7, k, x)
                                 \/ k = "RemoveDataSinks" /\ x \in rs
                                 \/ k = "UpdateDataSinks" /\ x \in us
                                 \/ k = "AddDataSinks" /\ x \in ns
  <2>1. Asks(q8, k, x) <=> Asks(q7, k, x) \/ (k = "RemoveDataSinks" /\ x \in rs)
    BY <1>24
  <2>2. Asks(q9, k, x) <=> Asks(q8, k, x) \/ (k = "UpdateDataSinks" /\ x \in us)
    BY <1>26
  <2>3. Asks(q10, k, x) <=> Asks(q9, k, x) \/ (k = "AddDataSinks" /\ x \in ns)
    BY <1>28
  <2> QED
    BY <2>1, <2>2, <2>3
<1>47. ASSUME NEW k, NEW x
      PROVE  Asks(q13, k, x) <=> \/ Asks(q10, k, x)
                                 \/ k = "RemoveVPNs" /\ x \in rv
                                 \/ k = "UpdateVPNs" /\ x \in uv
                                 \/ k = "AddVPNs" /\ x \in av
  <2>1. Asks(q11, k, x) <=> Asks(q10, k, x) \/ (k = "RemoveVPNs" /\ x \in rv)
    BY <1>30
  <2>2. Asks(q12, k, x) <=> Asks(q11, k, x) \/ (k = "UpdateVPNs" /\ x \in uv)
    BY <1>32
  <2>3. Asks(q13, k, x) <=> Asks(q12, k, x) \/ (k = "AddVPNs" /\ x \in av)
    BY <1>34
  <2> QED
    BY <2>1, <2>2, <2>3
<1>48. \A k, x : Asks(q, k, x) <=> Asks(q13, k, x)
  BY <1>39, <1>36, <1>38
<1>49. ASSUME NEW x PROVE Asks(q, "RemoveGroups", x) <=> x \in rg
  BY <1>45, <1>46, <1>47, <1>48
<1>50. ASSUME NEW x PROVE Asks(q, "AddGroups", x) <=> x \in ag
  BY <1>45, <1>46, <1>47, <1>48
<1>51. ASSUME NEW x PROVE Asks(q, "RemoveCases", x) <=> x \in rc
  BY <1>45, <1>46, <1>47, <1>48
<1>52. ASSUME NEW x PROVE Asks(q, "AddCases", x) <=> x \in ac
  BY <1>45, <1>46, <1>47, <1>48
<1>53. ASSUME NEW x PROVE Asks(q, "RemoveVPNs", x) <=> x \in rv
  BY <1>45, <1>46, <1>47, <1>48
<1>54. ASSUME NEW x PROVE Asks(q, "UpdateVPNs", x) <=> x \in uv
  BY <1>45, <1>46, <1>47, <1>48
<1>55. ASSUME NEW x PROVE Asks(q, "AddVPNs", x) <=> x \in av
  BY <1>45, <1>46, <1>47, <1>48
<1> QED
  BY <1>a, <1>b, <1>c, <1>d, <1>e, <1>1, <1>g, <1>4, <1>40, <1>41, <1>42, <1>43, <1>49, <1>50, <1>51, <1>52, <1>53, <1>54, <1>55

(* Where the marks stand: the stops first, the starts last.                  *)
Stops(q) == Has(q, "Stop") \/ Has(q, "Quit")
Suspends(q) == \E m \in Suspending : Has(q, m)
OfVPNs == {"RemoveVPNs", "UpdateVPNs", "AddVPNs"}

LEMMA Places ==
    ASSUME NEW q, Queue(q), q # <<>>
    PROVE  /\ Head(q).mark \in Marks
           /\ Head(q).mark \in Suspending \cup OfVPNs \cup {"Start"} => ~Stops(q)
           /\ Head(q).mark \in OfVPNs \cup {"Start"} => ~Suspends(q)
           /\ \A m : Has(Tail(q), m) => Has(q, m)
           /\ \A m : Has(q, m) /\ m # Head(q).mark => Has(Tail(q), m)
           /\ Has(q, Head(q).mark)
           /\ Head(q).mark = "Start" =>
                /\ \A m : Has(q, m) => m = "Start"
                /\ Tail(q) # <<>> => Head(Tail(q)).mark = "Start"
<1> USE DEF Suspending, OfVPNs
<1>1. /\ \A m : Has(q, m) <=> m = Head(q).mark \/ Has(Tail(q), m)
      /\ \A m : Has(Tail(q), m) => /\ m \in Marks
                                   /\ \/ Rank(Head(q).mark) < Rank(m)
                                      \/ m = Head(q).mark /\ m \in Repeatable
      /\ Head(q).mark \in Marks /\ Queue(Tail(q))
  BY Executed DEF Action
<1>2. \A m \in Suspending \cup OfVPNs \cup {"Start"} :
        ~(Rank(m) < Rank("Stop")) /\ ~(Rank(m) < Rank("Quit"))
  BY DEF Rank
<1>3. \A m \in OfVPNs \cup {"Start"}, n \in Suspending : ~(Rank(m) < Rank(n))
  BY DEF Rank
<1>4. Head(q).mark \in Suspending \cup OfVPNs \cup {"Start"} => ~Stops(q)
  BY <1>1, <1>2 DEF Stops, Repeatable
<1>5. Head(q).mark \in OfVPNs \cup {"Start"} => ~Suspends(q)
  BY <1>1, <1>3 DEF Suspends, Repeatable
<1>6. \A m \in Marks : Rank("Start") < Rank(m) => FALSE
  BY DEF Rank, Marks
<1>7. ASSUME Head(q).mark = "Start" PROVE \A m : Has(q, m) => m = "Start"
  BY <1>1, <1>6, <1>7
<1>8. ASSUME Head(q).mark = "Start", Tail(q) # <<>> PROVE Head(Tail(q)).mark = "Start"
  <2>1. Has(Tail(q), Head(Tail(q)).mark)
    BY <1>1, <1>8, Executed
  <2> QED
    BY <2>1, <1>1, <1>7, <1>8
<1> QED
  BY <1>1, <1>4, <1>5, <1>7, <1>8

-------------------------------------------------------------------------------
(* The inductive invariant.                                                  *)

(* Every variable has its type, and the update is where its actions are.     *)
Typed ==
    /\ RunnerInv /\ Objects
    /\ pc = "off" => group = None
    /\ \A r \in requests : IsRequest(r)
    /\ IsContext(ctx) /\ Queue(queue)
    /\ upc \in UpdatePoints /\ cleaning \in BOOLEAN /\ cpu \in {"loop", "update"}
    /\ callback \in {"none", "queued", "due"}
    /\ posted \in 0..MaxRequests /\ failed \in BOOLEAN
    /\ upc = "idle" => queue = <<>> /\ ~cleaning
    /\ upc # "idle" => request \in requests
    /\ upc = "await" => queue # <<>> /\ Head(queue).mark \in Suspending
    /\ upc = "stopping" => queue # <<>> /\ Head(queue).mark \in {"Stop", "Start", "Quit"}
    /\ cpu = "update" <=> upc = "exec"
    /\ cleaning => ctx.config.groups = {} /\ ctx.config.mode = "continuous"

CityFree ==
    CitiesOff =>
        /\ ~common_cities /\ ~ctx.config.common /\ pc # "city"
        /\ \A g \in DOMAIN groups : groups[g].city = NoCity

(* What the configuration says is what the runner and the providers hold,    *)
(* once the actions that are left are executed.                              *)
Given ==
    ~failed =>
        /\ \A c \in Cases : c \in ToCases(ctx.config.vpns) <=>
             \/ c \in test_cases /\ ~Asks(queue, "RemoveCases", c)
             \/ Asks(queue, "AddCases", c)
        /\ \A v \in Providers : v \in DOMAIN ctx.config.vpns <=>
             \/ v \in providers /\ ~Asks(queue, "RemoveVPNs", v)
             \/ Asks(queue, "UpdateVPNs", v)
             \/ Asks(queue, "AddVPNs", v)
        /\ \A v \in Providers : Asks(queue, "RemoveVPNs", v) =>
             ~Asks(queue, "UpdateVPNs", v) /\ ~Asks(queue, "AddVPNs", v)

Held(p) == \E g \in DOMAIN groups : g.pair = p
Exact ==
    CitiesOff /\ ~failed =>
        /\ \A g, h \in DOMAIN groups : g.pair = h.pair => g = h
        /\ DOMAIN group_index = {KeyOf(g) : g \in DOMAIN groups}
        /\ DOMAIN case_index = DOMAIN group_index
        /\ \A p \in Pairs : p \in ctx.config.groups <=>
             \/ Held(p) /\ ~Asks(queue, "RemoveGroups", p)
             \/ Asks(queue, "AddGroups", p)
        /\ \A p \in Pairs : Asks(queue, "AddGroups", p) => ~Held(p)

(* While whole configurations are replaced, cases change without groups.     *)
Full ==
    CitiesOff /\ Replacing /\ ~failed =>
        /\ Complete
        /\ \A g \in DOMAIN groups, c \in test_cases :
             \E o \in DOMAIN stats : o.of = g /\ o.case = c
        /\ Has(queue, "RemoveCases") \/ Has(queue, "AddCases") => DOMAIN groups = {}
        /\ WithCases => /\ DOMAIN groups # {} => test_cases # {}
                        /\ ctx.config.groups # {} => ToCases(ctx.config.vpns) # {}

(* The state of the context, the task and its callback.                      *)
Told ==
    OneTask =>
        /\ pc # "off" => callback = "none"
        /\ ctx.config.mode # "continuous" => \A x \in Asked : x.mode = ctx.config.mode
        /\ ctx.config.groups # {} => \A x \in Asked : x.mode \in {None, ctx.config.mode}
        /\ pc # "off" =>
             \/ Stops(queue)
             \/ queue # <<>> /\ Head(queue).mark = "Start"
             \/ ~Has(queue, "Start") /\ ctx.state = "run" /\ (cleaning => queue = <<>>)
        /\ (cleaning \/ Has(queue, "Start") \/ ctx.config.groups = {})
             /\ pc = "off" /\ upc # "stopping" =>
                callback = "none" \/ (callback = "due" /\ Suspends(queue))
        /\ ~failed /\ ctx.state = "run" /\ ~Has(queue, "Start") =>
             pc # "off" \/ callback # "none"
        /\ callback # "none" =>
             ctx.state = "run" \/ upc = "stopping" \/ (cleaning /\ Suspends(queue))
        /\ ctx.config.groups = {} /\ ~cleaning => pc = "off" \/ Stops(queue)
        /\ ~failed /\ ctx.state = "quit" => Has(queue, "Quit")
        /\ Has(queue, "Stop") => ctx.state # "run" \/ Has(queue, "Start")
        /\ Has(queue, "Start") /\ ~cleaning => ctx.config.groups # {}
        /\ cleaning /\ (Has(queue, "Start") \/ (pc # "off" /\ queue = <<>>)) =>
             \A x \in Asked : x.mode \notin {None, "continuous"}

(* A task that is at work has the mode of the configuration, and only stops  *)
(* and starts are executed beside it.                                        *)
Mine ==
    OneTask /\ Replacing =>
        /\ pc # "off" => \/ Stops(queue) \/ Has(queue, "Start")
                         \/ mode = ctx.config.mode /\ repeats = ctx.config.repeats
        /\ pc # "off" /\ queue # <<>> => Head(queue).mark \in {"Stop", "Quit", "Start"}

Hand ==
    OneTask /\ Replacing /\ CitiesOff /\ ~failed =>
        /\ AtHand
        /\ pc # "off" => Provided
        /\ WithCases => outcome # "nocases"

Zero ==
    /\ "case" \notin faults => /\ failing_cases = {} /\ pc # "fail_case"
                               /\ \A o \in DOMAIN stats : stats[o].fail >= 0
    /\ "group" \notin faults => pc # "fail_group"
    /\ outcome = "zerodiv" => {"case", "group"} \subseteq faults

ServiceInv ==
    Typed /\ CityFree /\ Given /\ Exact /\ Full /\ Told /\ Mine /\ Hand /\ Zero

-------------------------------------------------------------------------------
(* The kinds of steps: all that the parts of the invariant about the state   *)
(* of the context, the callback and the queue have to know of an action.     *)
Resumed ==
    callback # "due" /\ callback' = IF callback = "queued" THEN "due" ELSE "none"

Beside ==
    \/ queue # <<>> /\ Head(queue).mark \in Suspending /\ upc = "await" /\ Resumed
    \/ queue # <<>> /\ Head(queue).mark \in OfVPNs /\ upc = "exec" /\ UNCHANGED callback
AlikeVars ==
    <<mode, repeats, group, case, outcome, ctx, clientVars, common_cities, faults>>
Waits ==
    /\ UNCHANGED <<AlikeVars, pc, dataVars, providers, queue, cleaning, callback, failed>>
    /\ upc = "stopping" => callback = "none"
Edits ==
    /\ Beside
    /\ queue' = Tail(queue) /\ upc' = "exec"
    /\ UNCHANGED <<AlikeVars, pc, cleaning, failed>>
Fails ==
    /\ Beside
    /\ queue' = <<>> /\ cleaning' = FALSE /\ failed' = TRUE /\ upc' = "idle"
    /\ UNCHANGED <<AlikeVars, pc>>

LEMMA Kinds ==
    ASSUME Typed, Next
    PROVE  \/ Enter \/ Cleaned \/ Waits \/ StopDone \/ Start \/ Edits \/ Fails
           \/ RunnerStep \/ Idle
<1> USE DEF AlikeVars, runnerVars, dataVars, confVars, taskVars, clientVars
<1>1. CASE Return
  BY <1>1 DEF Return, Executing, Waits
<1>2. CASE Await
  BY <1>2 DEF Await, Executing, Waits
<1>3. CASE StopCancels
  BY <1>3 DEF StopCancels, Executing, Cancel, Waits
<1>4. CASE Stopped
  BY <1>4 DEF Stopped, Waits
<1>5. CASE Quit
  BY <1>5 DEF Quit, Doing, Executing, Waits
<1>7. ASSUME NEW m \in Suspending, Awaited(m) PROVE Beside
  BY <1>7 DEF Awaited, Resume, Resumed, Beside, Typed
<1>8. ASSUME NEW m \in OfVPNs, Doing(m), UNCHANGED callback PROVE Beside
  BY <1>8 DEF Doing, Executing, Beside
<1>9. Suspending = {"RemoveGroups", "RemoveCases", "AddCases", "AddGroups",
                    "RemoveDataSinks", "UpdateDataSinks", "AddDataSinks"}
      /\ OfVPNs = {"RemoveVPNs", "UpdateVPNs", "AddVPNs"}
  BY DEF Suspending, OfVPNs
<1>10. CASE RemoveGroups
  BY <1>7, <1>9, <1>10 DEF RemoveGroups, Operated, Done, Edits
<1>11. CASE RemoveGroupsLookup
  BY <1>7, <1>9, <1>11 DEF RemoveGroupsLookup, Raise, Fails
<1>12. CASE AddGroups
  BY <1>7, <1>9, <1>12 DEF AddGroups, Operated, Done, Edits
<1>13. CASE RemoveCases
  BY <1>7, <1>9, <1>13 DEF RemoveCases, Operated, Done, Edits
<1>14. CASE AddCases
  BY <1>7, <1>9, <1>14 DEF AddCases, Operated, Done, Edits
<1>15. CASE AddVPNs
  BY <1>8, <1>9, <1>15 DEF AddVPNs, Providing, Done, Edits
<1>16. CASE RemoveVPNs
  BY <1>8, <1>9, <1>16 DEF RemoveVPNs, Providing, Done, Edits
<1>17. CASE RemoveVPNsLookup
  BY <1>8, <1>9, <1>17 DEF RemoveVPNsLookup, Providing, Raise, Fails
<1>18. CASE AddSinks
  BY <1>7, <1>9, <1>18 DEF AddSinks, Done, Raise, Edits, Fails
<1>19. CASE UpdateSinks
  BY <1>7, <1>9, <1>19 DEF UpdateSinks, Done, Raise, Edits, Fails
<1>20. CASE RemoveSinks
  BY <1>7, <1>9, <1>20 DEF RemoveSinks, Done, Raise, Edits, Fails
<1> QED
  BY <1>1, <1>2, <1>3, <1>4, <1>5, <1>10, <1>11, <1>12, <1>13, <1>14, <1>15,
     <1>16, <1>17, <1>18, <1>19, <1>20 DEF Next, UpdateStep

-------------------------------------------------------------------------------
(* The state of the context is told truly: one lemma per kind of step.       *)

(* A configuration is taken: what the new context and the queue are.         *)
Takes(context) ==
    /\ queue = <<>> /\ upc' = "exec"
    /\ ctx' = DiffContext(ctx, context) /\ queue' = Actions(ctx, context)
    /\ UNCHANGED <<dataVars, taskVars, providers, faults, requests, failed>>

LEMMA TakesAre ==
    ASSUME Typed, NEW context, Takes(context),
           context = DefaultContext \/ \E r \in requests : context = r.context
    PROVE  /\ IsContext(ctx) /\ IsContext(ctx') /\ Queue(queue')
           /\ ctx'.state = context.state
           /\ \A m : ~Has(queue, m)
           /\ \A m, x : ~Asks(queue, m, x)
           /\ Has(queue', "Quit") <=> ctx'.state = "quit"
           /\ Has(queue', "Stop") <=> \/ ctx.config.mode # ctx'.config.mode
                                      \/ ctx.state = "run" /\ ctx'.state = "idle"
           /\ Has(queue', "Start") <=> \/ ctx.config.mode # ctx'.config.mode
                                       \/ ctx.state = "idle" /\ ctx'.state = "run"
           /\ ctx.config.groups \ ctx'.config.groups # {} => Suspends(queue')
<1>1. IsContext(ctx) /\ queue = <<>> /\ \A r \in requests : IsRequest(r)
  BY DEF Typed, Takes
<1>2. context = DefaultContext \/ \E r : IsRequest(r) /\ context = r.context
  BY <1>1
<1>3. IsContext(DiffContext(ctx, context)) /\ context.state \in States
  BY <1>1, <1>2, Taken
<1>4. ctx'.state = context.state
  BY <1>3, ServiceAssumption DEF Takes, DiffContext, Or, States
<1>5. PICK c, q : c = ctx' /\ q = queue' /\ c = DiffContext(ctx, context)
                  /\ q = Actions(ctx, context)
  BY DEF Takes
<1>6. /\ Queue(q)
      /\ Has(q, "Quit") <=> c.state = "quit"
      /\ Has(q, "Stop") <=> \/ ctx.config.mode # c.config.mode
                            \/ ctx.state = "run" /\ c.state = "idle"
      /\ Has(q, "Start") <=> \/ ctx.config.mode # c.config.mode
                             \/ ctx.state = "idle" /\ c.state = "run"
      /\ Has(q, "RemoveGroups") <=> ctx.config.groups \ c.config.groups # {}
  BY <1>1, <1>3, <1>5, ActionsAre
<1>7. ctx.config.groups \ ctx'.config.groups # {} => Suspends(queue')
  BY <1>5, <1>6 DEF Suspends, Suspending
<1>8. (\A m : ~Has(queue, m)) /\ (\A m, x : ~Asks(queue, m, x))
  BY <1>1, EmptyQueue
<1>9. IsContext(ctx') /\ Queue(queue')
  BY <1>3, <1>5, <1>6
<1>10. /\ Has(queue', "Quit") <=> ctx'.state = "quit"
       /\ Has(queue', "Stop") <=> \/ ctx.config.mode # ctx'.config.mode
                                  \/ ctx.state = "run" /\ ctx'.state = "idle"
       /\ Has(queue', "Start") <=> \/ ctx.config.mode # ctx'.config.mode
                                   \/ ctx.state = "idle" /\ ctx'.state = "run"
  BY <1>5, <1>6
<1> QED
  BY <1>1, <1>4, <1>7, <1>8, <1>9, <1>10

LEMMA EnterIs ==
    ASSUME Typed, Enter
    PROVE  \E r \in requests :
             /\ upc = "idle" /\ Resumed /\ request' = r
             /\ \/ /\ r.update /\ Takes(r.context) /\ cleaning' = FALSE
                   /\ common_cities' = ctx'.config.common
                \/ /\ ~r.update /\ Takes(DefaultContext) /\ cleaning' = TRUE
                   /\ UNCHANGED common_cities
BY DEF Enter, Resume, Resumed, Take, Takes, SetContextParams, Typed, confVars

LEMMA CleanedIs ==
    ASSUME Typed, Cleaned
    PROVE  /\ request \in requests /\ upc = "exec" /\ Takes(request.context) /\ cleaning
           /\ cleaning' = FALSE /\ UNCHANGED callback
           /\ common_cities' = ctx'.config.common
BY DEF Cleaned, Executing, Take, Takes, SetContextParams, Typed, confVars, clientVars

(* What the clients keep to does not change.                                 *)
LEMMA Promises ==
    ASSUME UNCHANGED requests
    PROVE  /\ Asked' = Asked /\ (OneTask' <=> OneTask) /\ (Replacing' <=> Replacing)
           /\ (CitiesOff' <=> CitiesOff) /\ (WithCases' <=> WithCases)
BY DEF Asked, OneTask, SameMode, WithGroups, Replacing, CitiesOff, WithCases

(* The configuration of an "up" is taken.                                    *)
LEMMA TakesUp ==
    ASSUME Typed, NEW r \in requests, r.context.config # None, Takes(r.context)
    PROVE  /\ r.context.config \in Asked /\ ctx'.state = "run"
           /\ ctx'.config.mode =
                IF r.context.config.mode = None THEN ctx.config.mode ELSE r.context.config.mode
           /\ ctx'.config.groups =
                IF r.context.config.groups = None THEN {} ELSE r.context.config.groups
           /\ ctx'.config.vpns =
                IF r.context.config.vpns = None THEN ctx.config.vpns ELSE r.context.config.vpns
           /\ ctx'.config.common = (r.context.config.common \/ ctx.config.common)
           /\ OneTask => ctx'.config.groups # {}
           /\ SameMode => \A x \in Asked : x.mode = r.context.config.mode
           /\ WithCases => r.context.config.vpns # None /\ ToCases(r.context.config.vpns) # {}
<1>1. IsRequest(r)
  BY DEF Typed
<1>2. r.context.config \in Asked
  BY DEF Asked
<1>3. r.context.state = "run"
  BY <1>1 DEF IsRequest
<1>4. ctx'.state = "run"
  BY <1>3, TakesAre
<1>5. ctx'.config = DiffConfig(ctx.config, r.context.config)
  BY DEF Takes, DiffContext
<1> QED
  BY <1>2, <1>4, <1>5 DEF DiffConfig, Or, OneTask, WithGroups, SameMode, WithCases

(* The configuration is cleaned.                                             *)
LEMMA TakesDefault ==
    ASSUME Typed, Takes(DefaultContext)
    PROVE  /\ ctx'.state = "idle" /\ ctx'.config.mode = "continuous"
           /\ ctx'.config.groups = {} /\ ctx'.config.vpns = ctx.config.vpns
           /\ ctx'.config.common = ctx.config.common
<1>1. ctx'.state = "idle"
  BY TakesAre DEF DefaultContext
<1>2. ctx'.config = DiffConfig(ctx.config, DefaultContext.config)
  BY DEF Takes, DiffContext
<1>3. DefaultContext.config # None
  BY ServiceAssumption
<1>4. "continuous" # None
  BY ServiceAssumption DEF Modes
<1>5. ctx.config.common \in BOOLEAN
  BY DEF Typed, IsContext
<1>6. /\ ctx'.config.mode = "continuous" /\ ctx'.config.groups = {}
      /\ ctx'.config.vpns = ctx.config.vpns
  BY <1>2, <1>3, <1>4 DEF DiffConfig, DefaultContext, Or
<1>7. ctx'.config.common = ctx.config.common
  BY <1>2, <1>3, <1>5 DEF DiffConfig, DefaultContext
<1> QED
  BY <1>1, <1>6, <1>7

LEMMA ToldEnter ==
    ASSUME Typed, Told, Enter
    PROVE  Told'
<1>1. PICK r \in requests :
        /\ upc = "idle" /\ Resumed /\ request' = r
        /\ \/ /\ r.update /\ Takes(r.context) /\ cleaning' = FALSE
              /\ common_cities' = ctx'.config.common
           \/ /\ ~r.update /\ Takes(DefaultContext) /\ cleaning' = TRUE
              /\ UNCHANGED common_cities
  BY EnterIs
<1>2. requests' = requests /\ pc' = pc /\ failed' = failed /\ upc' = "exec" /\ queue = <<>>
      /\ ~cleaning /\ callback \in {"none", "queued", "due"}
  BY <1>1 DEF Takes, taskVars, Typed
<1>3. Asked' = Asked /\ (OneTask' <=> OneTask)
  BY <1>2, Promises
<1>4. SUFFICES ASSUME OneTask PROVE Told'
  BY <1>3 DEF Told
<1>5. callback' # "none" => /\ callback = "queued" /\ pc = "off" /\ ctx.state = "run"
                            /\ ctx.config.groups # {} /\ callback' = "due"
  BY <1>1, <1>2, <1>4 DEF Told, Resumed
<1>6. pc # "off" => callback' = "none" /\ ctx.state = "run"
  BY <1>1, <1>2, <1>4, EmptyQueue DEF Told, Resumed, Stops
<1>7. ctx.config.mode \in Modes /\ "continuous" \in Modes /\ None \notin Modes
  BY ServiceAssumption DEF Modes, Typed, IsContext
<1>8. CASE r.update
  <2>1. Takes(r.context) /\ ~cleaning' /\ r.context.config # None
    BY <1>1, <1>8 DEF IsRequest, Typed
  <2>2. /\ ctx'.state = "run" /\ ctx'.config.groups # {}
        /\ ctx'.config.mode =
             IF r.context.config.mode = None THEN ctx.config.mode ELSE r.context.config.mode
        /\ \A x \in Asked : x.mode = r.context.config.mode
        /\ r.context.config \in Asked
    BY <2>1, <1>4, TakesUp DEF OneTask
  <2>3. /\ Has(queue', "Stop") <=> ctx.config.mode # ctx'.config.mode
        /\ Has(queue', "Start") <=> \/ ctx.config.mode # ctx'.config.mode
                                    \/ ctx.state = "idle"
    BY <2>1, <2>2, TakesAre
  <2>4. ctx.config.groups # {} => ctx'.config.mode = ctx.config.mode
    BY <1>4, <2>2 DEF Told
  <2>5. ctx'.config.mode # "continuous" => \A x \in Asked : x.mode = ctx'.config.mode
    BY <1>4, <2>2 DEF Told
  <2>6. \A x \in Asked : x.mode \in {None, ctx'.config.mode}
    BY <2>2
  <2>7. ~failed /\ ctx.state # "idle" => ctx.state = "run"
    BY <1>2, <1>4, EmptyQueue DEF Told, Typed, IsContext, States
  <2>8. ~failed /\ ctx.state = "run" => pc # "off" \/ callback = "queued"
    BY <1>1, <1>2, <1>4, EmptyQueue DEF Told, Resumed
  <2> QED
    BY <1>1, <1>2, <1>3, <1>5, <1>6, <2>1, <2>2, <2>3, <2>4, <2>5, <2>6, <2>7, <2>8
    DEF Told, Stops, Resumed
<1>9. CASE ~r.update
  <2>1. Takes(DefaultContext) /\ cleaning'
    BY <1>1, <1>9
  <2>2. ctx'.state = "idle" /\ ctx'.config.mode = "continuous" /\ ctx'.config.groups = {}
    BY <2>1, TakesDefault
  <2>3. /\ Has(queue', "Stop") <=> ctx.config.mode # "continuous" \/ ctx.state = "run"
        /\ Has(queue', "Start") <=> ctx.config.mode # "continuous"
    BY <2>1, <2>2, TakesAre
  <2>4. callback' # "none" => Suspends(queue')
    BY <1>5, <2>1, <2>2, TakesAre
  <2> QED
    BY <1>1, <1>2, <1>3, <1>5, <1>6, <1>7, <2>1, <2>2, <2>3, <2>4 DEF Told, Stops
<1> QED
  BY <1>8, <1>9

LEMMA ToldCleaned ==
    ASSUME Typed, Told, Cleaned
    PROVE  Told'
<1>1. /\ request \in requests /\ upc = "exec" /\ Takes(request.context) /\ cleaning
      /\ cleaning' = FALSE /\ UNCHANGED callback
  BY CleanedIs
<1>2. requests' = requests /\ pc' = pc /\ failed' = failed /\ upc' = "exec" /\ queue = <<>>
      /\ (\A m : ~Has(queue, m)) /\ ctx.config.groups = {}
      /\ ctx.config.mode = "continuous"
  BY <1>1, TakesAre DEF Takes, taskVars, Typed
<1>3. Asked' = Asked /\ (OneTask' <=> OneTask)
  BY <1>2, Promises
<1>4. SUFFICES ASSUME OneTask PROVE Told'
  BY <1>3 DEF Told
<1>5. callback = "none"
  BY <1>1, <1>2, <1>4 DEF Told, Suspends
<1>6. pc # "off" => /\ ctx.state = "run"
                    /\ \A x \in Asked : x.mode \notin {None, "continuous"}
  BY <1>1, <1>2, <1>4 DEF Told, Stops
<1>7. /\ ~failed /\ ctx.state = "run" => pc # "off"
      /\ ~failed => ctx.state # "quit"
      /\ ctx.state \in States
  BY <1>1, <1>2, <1>4, <1>5 DEF Told, Typed, IsContext
<1>8. CASE request.context.config # None
  <2>1. /\ ctx'.state = "run" /\ ctx'.config.groups # {}
        /\ ctx'.config.mode =
             IF request.context.config.mode = None THEN ctx.config.mode
             ELSE request.context.config.mode
        /\ \A x \in Asked : x.mode = request.context.config.mode
        /\ request.context.config \in Asked
    BY <1>1, <1>4, <1>8, TakesUp DEF OneTask
  <2>2. /\ Has(queue', "Stop") <=> ctx.config.mode # ctx'.config.mode
        /\ Has(queue', "Start") <=> \/ ctx.config.mode # ctx'.config.mode
                                    \/ ctx.state = "idle"
    BY <1>1, <2>1, TakesAre
  <2>3. ctx'.config.mode # "continuous" => \A x \in Asked : x.mode = ctx'.config.mode
    BY <1>2, <2>1
  <2>4. \A x \in Asked : x.mode \in {None, ctx'.config.mode}
    BY <2>1
  <2>5. pc # "off" => Stops(queue')
    BY <1>2, <1>6, <2>1, <2>2 DEF Stops
  <2> QED
    BY <1>1, <1>2, <1>3, <1>5, <1>7, <2>1, <2>2, <2>3, <2>4, <2>5 DEF Told, States
<1>9. CASE request.context.config = None
  <2>1. ctx'.state \in {"idle", "quit"} /\ ctx'.config = ctx.config
    <3>1. IsRequest(request)
      BY <1>1 DEF Typed
    <3>2. ctx'.state = request.context.state
      BY <1>1, TakesAre
    <3>3. ctx'.config = DiffConfig(ctx.config, request.context.config)
      BY <1>1 DEF Takes, DiffContext
    <3> QED
      BY <1>9, <3>1, <3>2, <3>3 DEF IsRequest, DiffConfig
  <2>2. /\ Has(queue', "Quit") <=> ctx'.state = "quit"
        /\ Has(queue', "Stop") <=> ctx.state = "run" /\ ctx'.state = "idle"
        /\ ~Has(queue', "Start")
    BY <1>1, <2>1, TakesAre
  <2>3. pc # "off" => Stops(queue')
    BY <1>6, <2>1, <2>2 DEF Stops
  <2> QED
    BY <1>1, <1>2, <1>3, <1>5, <2>1, <2>2, <2>3 DEF Told
<1> QED
  BY <1>8, <1>9

LEMMA ToldWaits ==
    ASSUME Typed, Told, Waits
    PROVE  Told'
<1>1. /\ requests' = requests /\ pc' = pc /\ failed' = failed /\ queue' = queue
      /\ cleaning' = cleaning /\ ctx' = ctx /\ callback' = callback
      /\ upc = "stopping" => callback = "none"
  BY DEF Waits, AlikeVars, clientVars
<1>2. Asked' = Asked /\ (OneTask' <=> OneTask)
  BY <1>1, Promises
<1> QED
  BY <1>1, <1>2 DEF Told

(* The body of an action runs beside the loop: no task is alive, unless it   *)
(* goes on with the whole update.                                            *)
LEMMA BesideIs ==
    ASSUME Typed, Told, OneTask, Beside
    PROVE  /\ queue # <<>> /\ Head(queue).mark \in Suspending \cup OfVPNs /\ ~Stops(queue)
           /\ pc # "off" => ~Has(queue, "Start") /\ ctx.state = "run" /\ ~cleaning
                            /\ ctx.config.groups # {} /\ callback' = "none"
           /\ (cleaning \/ Has(queue, "Start") \/ ctx.config.groups = {}) /\ pc = "off"
                => callback' = "none"
           /\ callback' # "none" => ctx.state = "run"
           /\ callback # "none" => callback' # "none"
<1>1. /\ queue # <<>> /\ Head(queue).mark \in Suspending \cup OfVPNs
      /\ Queue(queue)
  BY DEF Beside, Typed
<1>2. ~Stops(queue)
  BY <1>1, Places
<1>3. Head(queue).mark # "Start"
  BY <1>1 DEF Suspending, OfVPNs
<1>4. pc # "off" => ~Has(queue, "Start") /\ ctx.state = "run" /\ ~cleaning
                    /\ ctx.config.groups # {} /\ callback = "none"
  BY <1>1, <1>2, <1>3 DEF Told
<1>5. CASE Head(queue).mark \in Suspending /\ upc = "await" /\ Resumed
  BY <1>1, <1>2, <1>4, <1>5 DEF Told, Resumed, Typed
<1>6. CASE Head(queue).mark \in OfVPNs /\ upc = "exec" /\ UNCHANGED callback
  <2>1. ~Suspends(queue)
    BY <1>1, <1>6, Places
  <2> QED
    BY <1>1, <1>2, <1>4, <1>6, <2>1 DEF Told, Typed
<1> QED
  BY <1>5, <1>6 DEF Beside

LEMMA ToldEdits ==
    ASSUME Typed, Told, Edits
    PROVE  Told'
<1>1. /\ requests' = requests /\ pc' = pc /\ failed' = failed /\ queue' = Tail(queue)
      /\ cleaning' = cleaning /\ ctx' = ctx /\ upc' = "exec" /\ Queue(queue) /\ Beside
  BY DEF Edits, AlikeVars, clientVars, Typed
<1>2. Asked' = Asked /\ (OneTask' <=> OneTask)
  BY <1>1, Promises
<1>3. SUFFICES ASSUME OneTask PROVE Told'
  BY <1>2 DEF Told
<1>4. /\ queue # <<>> /\ Head(queue).mark \in Suspending \cup OfVPNs /\ ~Stops(queue)
      /\ pc # "off" => ~Has(queue, "Start") /\ ctx.state = "run" /\ ~cleaning
                       /\ ctx.config.groups # {} /\ callback' = "none"
      /\ (cleaning \/ Has(queue, "Start") \/ ctx.config.groups = {}) /\ pc = "off"
           => callback' = "none"
      /\ callback' # "none" => ctx.state = "run"
      /\ callback # "none" => callback' # "none"
  BY <1>1, <1>3, BesideIs
<1>5. Head(queue).mark \notin {"Start", "Stop", "Quit"}
  BY <1>4 DEF Suspending, OfVPNs
<1>6. \A m \in {"Start", "Stop", "Quit"} : Has(queue', m) <=> Has(queue, m)
  BY <1>1, <1>4, <1>5, Places
<1> QED
  BY <1>1, <1>2, <1>3, <1>4, <1>6 DEF Told, Stops

LEMMA ToldFails ==
    ASSUME Typed, Told, Fails
    PROVE  Told'
<1>1. /\ requests' = requests /\ pc' = pc /\ failed' /\ queue' = <<>>
      /\ ~cleaning' /\ ctx' = ctx /\ upc' = "idle"
      /\ Beside
      /\ \A m : ~Has(queue', m)
  BY EmptyQueue DEF Fails, AlikeVars, clientVars
<1>2. Asked' = Asked /\ (OneTask' <=> OneTask)
  BY <1>1, Promises
<1>3. SUFFICES ASSUME OneTask PROVE Told'
  BY <1>2 DEF Told
<1>4. /\ pc # "off" => ctx.state = "run" /\ ctx.config.groups # {} /\ callback' = "none"
      /\ ctx.config.groups = {} /\ pc = "off" => callback' = "none"
      /\ callback' # "none" => ctx.state = "run"
  BY <1>1, <1>3, BesideIs
<1> QED
  BY <1>1, <1>2, <1>3, <1>4 DEF Told

LEMMA ToldStopDone ==
    ASSUME Typed, Told, StopDone
    PROVE  Told'
<1>1. /\ requests' = requests /\ pc' = pc /\ failed' = failed /\ queue' = Tail(queue)
      /\ cleaning' = cleaning /\ ctx' = ctx /\ upc' = "exec" /\ upc = "exec"
      /\ callback' = callback /\ Queue(queue) /\ pc = "off"
      /\ queue # <<>> /\ Head(queue).mark = "Stop"
  BY DEF StopDone, Doing, Executing, Done, runnerVars, taskVars, clientVars, Typed
<1>2. Asked' = Asked /\ (OneTask' <=> OneTask)
  BY <1>1, Promises
<1>3. /\ \A m : Has(queue', m) => Has(queue, m)
      /\ \A m : Has(queue, m) /\ m # "Stop" => Has(queue', m)
  BY <1>1, Places
<1>4. Suspends(queue) => Suspends(queue')
  BY <1>3 DEF Suspends, Suspending
<1> QED
  BY <1>1, <1>2, <1>3, <1>4 DEF Told

LEMMA ToldStart ==
    ASSUME Typed, Told, Start
    PROVE  Told'
<1>1. /\ requests' = requests /\ pc' = "new" /\ failed' = failed /\ queue' = Tail(queue)
      /\ cleaning' = cleaning /\ upc' = "exec" /\ upc = "exec"
      /\ callback' = callback /\ Queue(queue) /\ pc = "off"
      /\ queue # <<>> /\ Head(queue).mark = "Start"
  BY DEF Start, Doing, Executing, Begin, clientVars, Typed
<1>2. ctx'.config = ctx.config /\ ctx'.state = "run"
  BY DEF Start, Typed, IsContext
<1>3. Asked' = Asked /\ (OneTask' <=> OneTask)
  BY <1>1, Promises
<1>4. SUFFICES ASSUME OneTask PROVE Told'
  BY <1>3 DEF Told
<1>5. /\ \A m : Has(queue', m) => m = "Start"
      /\ Has(queue, "Start") /\ ~Suspends(queue)
      /\ queue' # <<>> => Head(queue').mark = "Start"
  BY <1>1, Places
<1>6. callback = "none"
  BY <1>1, <1>4, <1>5 DEF Told
<1>7. \A m : ~Has(<<>>, m)
  BY EmptyQueue
<1>8. queue' = <<>> => \A m : ~Has(queue', m)
  BY <1>7
<1> QED
  BY <1>1, <1>2, <1>3, <1>4, <1>5, <1>6, <1>8 DEF Told

LEMMA ToldRuns ==
    ASSUME Typed, Told, RunnerStep
    PROVE  Told'
<1>1. /\ requests' = requests /\ failed' = failed /\ queue' = queue
      /\ cleaning' = cleaning /\ ctx' = ctx /\ upc' = upc /\ upc \in {"idle", "await", "stopping"}
      /\ callback = "none" /\ callback' = (IF pc' = "off" THEN "queued" ELSE "none")
  BY DEF RunnerStep, updateVars, clientVars, Typed, UpdatePoints
<1>2. pc # "off"
  BY StepScope DEF RunnerStep
<1>3. Asked' = Asked /\ (OneTask' <=> OneTask)
  BY <1>1, Promises
<1>4. SUFFICES ASSUME OneTask PROVE Told'
  BY <1>3 DEF Told
<1>5. ASSUME upc # "stopping"
      PROVE  ~Stops(queue) /\ ~Has(queue, "Start") /\ ctx.state = "run" /\ ~cleaning
             /\ ctx.config.groups # {}
  <2>1. CASE upc = "idle"
    <3>1. queue = <<>> /\ ~cleaning /\ \A m : ~Has(queue, m)
      BY <2>1, EmptyQueue DEF Typed
    <3> QED
      BY <1>2, <1>4, <3>1 DEF Told, Stops
  <2>2. CASE upc = "await"
    <3>1. queue # <<>> /\ Head(queue).mark \in Suspending /\ ~Stops(queue)
      BY <2>2, Places DEF Typed
    <3>2. Head(queue).mark # "Start"
      BY <3>1 DEF Suspending
    <3> QED
      BY <1>2, <1>4, <3>1, <3>2 DEF Told
  <2> QED
    BY <1>1, <1>5, <2>1, <2>2
<1> QED
  BY <1>1, <1>2, <1>3, <1>4, <1>5 DEF Told

LEMMA ToldIdle ==
    ASSUME Typed, Told, Idle
    PROVE  Told'
<1>1. /\ requests' = requests /\ failed' = failed /\ queue' = queue /\ pc' = pc
      /\ cleaning' = cleaning /\ upc' = upc /\ callback # "none" /\ callback' = "none"
  BY DEF Idle, runnerVars, taskVars, clientVars
<1>2. ctx'.config = ctx.config /\ ctx'.state = "idle"
  BY DEF Idle, Typed, IsContext
<1>3. Asked' = Asked /\ (OneTask' <=> OneTask)
  BY <1>1, Promises
<1> QED
  BY <1>1, <1>2, <1>3 DEF Told

LEMMA ToldKept ==
    ASSUME Typed, Told, Next
    PROVE  Told'
BY Kinds, ToldEnter, ToldCleaned, ToldWaits, ToldEdits, ToldFails, ToldStopDone, ToldStart,
   ToldRuns, ToldIdle

-------------------------------------------------------------------------------
(* Types.                                                                    *)

LEMMA StepLeaves ==
    ASSUME Step
    PROVE  /\ pc' = "off" => group' = None
           /\ ~common_cities /\ pc # "city" => pc' # "city"
<1> USE DEF End, Goto, NextRepeat
<1>1. CASE FirstStep \/ FinishOnce \/ SelectCrash \/ NoOption
  BY <1>1 DEF FirstStep, FinishOnce, SelectCrash, NoOption
<1>2. CASE SelectNext
  BY <1>2 DEF SelectNext
<1>3. CASE PickCity \/ PickCityLookup \/ PickCityRaises
  BY <1>3 DEF PickCity, PickCityLookup, PickCityRaises
<1>4. CASE ContainerReady \/ ProviderGone \/ LoggedIn \/ Tested \/ TestFails \/ EnvRaises
  BY <1>4 DEF ContainerReady, ProviderGone, LoggedIn, Tested, TestFails, EnvRaises
<1>5. CASE AddRun \/ Sent \/ FailRun \/ CaseLookupRaises \/ Delayed
  BY <1>5 DEF AddRun, Sent, FailRun, CaseLookupRaises, Delayed
<1>6. CASE FailGroup \/ FailGroupDividesByZero \/ FailGroupLookup
  BY <1>6 DEF FailGroup, FailGroupDividesByZero, FailGroupLookup
<1>7. CASE FailCase \/ FailCaseLookup \/ ClearFails
  BY <1>7 DEF FailCase, FailCaseLookup, ClearFails
<1>8. CASE Cancelled \/ CancelLostInLogin \/ CancelLostInCities
  BY <1>8 DEF Cancelled, CancelLostInLogin, CancelLostInCities
<1> QED
  BY <1>1, <1>2, <1>3, <1>4, <1>5, <1>6, <1>7, <1>8 DEF Step

(* The head of the queue names what its handler is given.                    *)
LEMMA GivenTo ==
    ASSUME Typed, queue # <<>>
    PROVE  /\ Head(queue) \in Action /\ Sensible(Head(queue)) /\ Queue(Tail(queue))
BY Executed DEF Typed

TaskAlike == UNCHANGED <<confVars, taskVars>>
LEMMA TaskKept ==
    ASSUME RunnerInv, TaskAlike
    PROVE  TaskTypeOK' /\ Control'
BY DEF TaskAlike, RunnerInv, RunnerTypeOK, TaskTypeOK, Control, confVars, taskVars

LEMMA ObjectsKept ==
    ASSUME Objects, UNCHANGED dataVars
    PROVE  Objects'
BY DEF Objects, DataTypeOK, Copies, dataVars, KeyOf

(* The data of the runner and its task.                                      *)
LEMMA RunnerTyped ==
    ASSUME Typed, Next
    PROVE  RunnerInv' /\ Objects' /\ (pc' = "off" => group' = None)
<1> USE DEF RunnerInv, RunnerTypeOK
<1>1. RunnerInv /\ Objects /\ (pc = "off" => group = None)
  BY DEF Typed
<1>2. Objects => DataTypeOK
  BY DEF Objects
<1>3. Objects' => DataTypeOK'
  BY DEF Objects
<1>4. ASSUME UNCHANGED runnerVars PROVE RunnerInv' /\ Objects' /\ (pc' = "off" => group' = None)
  BY <1>1, <1>3, <1>4, TaskKept, ObjectsKept DEF runnerVars, TaskAlike, confVars, taskVars
<1>5. ASSUME UNCHANGED <<dataVars, taskVars>>, common_cities' \in BOOLEAN,
             providers' \subseteq Providers, faults' = faults
      PROVE  RunnerInv' /\ Objects' /\ (pc' = "off" => group' = None)
  BY <1>1, <1>3, <1>5, ObjectsKept DEF TaskTypeOK, Control, taskVars
<1>6. ASSUME Operated, Objects'
      PROVE  RunnerInv' /\ Objects' /\ (pc' = "off" => group' = None)
  BY <1>1, <1>3, <1>6, TaskKept DEF Operated, TaskAlike, taskVars
<1>7. CASE Enter
  <2>1. PICK r \in requests :
          \/ Takes(r.context) /\ common_cities' = ctx'.config.common
          \/ Takes(DefaultContext) /\ UNCHANGED common_cities
    BY <1>7, EnterIs
  <2>2. ctx'.config.common \in BOOLEAN
    BY <2>1, TakesAre DEF IsContext
  <2> QED
    BY <1>1, <1>5, <2>1, <2>2 DEF Takes, TaskTypeOK
<1>8. CASE Cleaned
  <2>1. request \in requests /\ Takes(request.context) /\ common_cities' = ctx'.config.common
    BY <1>8, CleanedIs
  <2>2. ctx'.config.common \in BOOLEAN
    BY <2>1, TakesAre DEF IsContext
  <2> QED
    BY <1>1, <1>5, <2>1, <2>2 DEF Takes, TaskTypeOK
<1>9. CASE Return \/ Await \/ Stopped \/ StopDone \/ Quit \/ Idle
           \/ AddSinks \/ UpdateSinks \/ RemoveSinks
  BY <1>4, <1>9 DEF Return, Await, Stopped, StopDone, Quit, Idle, AddSinks,
     UpdateSinks, RemoveSinks
<1>10. CASE StopCancels
  <2>1. TaskTypeOK' /\ Control'
    BY <1>1, <1>10 DEF StopCancels, Cancel, TaskTypeOK, Control, confVars
  <2> QED
    BY <1>1, <1>3, <1>10, <2>1, ObjectsKept DEF StopCancels, Cancel
<1>11. CASE Start
  <2>1. ctx.config.mode \in {"once", "continuous"} /\ ctx.config.repeats \in Nat \ {0}
    BY DEF Typed, IsContext, Modes
  <2>2. TaskTypeOK' /\ Control' /\ pc' = "new"
    BY <1>1, <1>11, <2>1
    DEF Start, Begin, TaskTypeOK, Control, confVars, Testing, Points, Outcomes
  <2> QED
    BY <1>1, <1>3, <1>11, <2>2, ObjectsKept DEF Start
<1>12. CASE RemoveGroups
  BY <1>1, <1>6, <1>12, RemoveGroupsKeeps DEF RemoveGroups
<1>13. CASE RemoveGroupsLookup
  <2>1. Objects'
    BY <1>1, <1>13, RemoveGroupsKeeps DEF RemoveGroupsLookup
  <2> QED
    BY <1>1, <1>3, <1>13, <2>1, TaskKept DEF RemoveGroupsLookup, TaskAlike, taskVars
<1>14. CASE AddGroups
  <2>1. Arg \in SUBSET Pairs /\ IsFiniteSet(Arg)
    BY <1>14, GivenTo DEF AddGroups, Awaited, Arg, Typed, Sensible
  <2> QED
    BY <1>1, <1>6, <1>14, <2>1, AddGroupsKeeps DEF AddGroups
<1>15. CASE RemoveCases
  BY <1>1, <1>6, <1>15, RemoveCasesKeeps DEF RemoveCases
<1>16. CASE AddCases
  <2>1. Arg \in SUBSET Cases /\ IsFiniteSet(Arg)
    BY <1>16, GivenTo DEF AddCases, Awaited, Arg, Typed, Sensible
  <2> QED
    BY <1>1, <1>6, <1>16, <2>1, AddCasesKeeps DEF AddCases
<1>17. CASE AddVPNs \/ RemoveVPNs \/ RemoveVPNsLookup
  <2>1. UNCHANGED <<dataVars, common_cities, faults, taskVars>>
    BY <1>17 DEF AddVPNs, RemoveVPNs, RemoveVPNsLookup, Providing
  <2>2. common_cities \in BOOLEAN /\ providers \subseteq Providers
    BY <1>1 DEF TaskTypeOK
  <2>3. CASE AddVPNs
    <3>1. Arg \subseteq Providers
      BY <2>3, GivenTo DEF AddVPNs, Doing, Arg, Sensible
    <3> QED
      BY <1>5, <2>1, <2>2, <2>3, <3>1 DEF AddVPNs, Providing
  <2>4. CASE RemoveVPNs
    BY <1>5, <2>1, <2>2, <2>4 DEF RemoveVPNs, Providing
  <2>5. CASE RemoveVPNsLookup
    BY <1>5, <2>1, <2>2, <2>5 DEF RemoveVPNsLookup, Providing
  <2> QED
    BY <1>17, <2>3, <2>4, <2>5
<1>18. CASE RunnerStep
  <2>1. Step
    BY <1>18 DEF RunnerStep
  <2>2. DataTypeOK' /\ TaskInv' /\ Objects'
    BY <1>1, <2>1, StepKeepsTask, StepKeepsData, StepKeepsObjects
  <2> QED
    BY <2>1, <2>2, StepLeaves DEF TaskInv
<1> QED
  BY <1>7, <1>8, <1>9, <1>10, <1>11, <1>12, <1>13, <1>14, <1>15, <1>16, <1>17, <1>18
  DEF Next, UpdateStep

(* Where the update is, and what is queued.                                  *)
Placed ==
    /\ upc \in UpdatePoints /\ cleaning \in BOOLEAN /\ cpu \in {"loop", "update"}
    /\ callback \in {"none", "queued", "due"}
    /\ posted \in 0..MaxRequests /\ failed \in BOOLEAN
    /\ upc = "idle" => queue = <<>> /\ ~cleaning
    /\ upc # "idle" => request \in requests
    /\ upc = "await" => queue # <<>> /\ Head(queue).mark \in Suspending
    /\ upc = "stopping" => queue # <<>> /\ Head(queue).mark \in {"Stop", "Start", "Quit"}
    /\ cpu = "update" <=> upc = "exec"
    /\ cleaning => ctx.config.groups = {} /\ ctx.config.mode = "continuous"

LEMMA UpdatePlaced ==
    ASSUME Typed, Next
    PROVE  Placed'
<1> USE DEF UpdatePoints, clientVars
<1>1. Placed
  BY DEF Typed, Placed
<1>2. CASE Enter
  <2>1. PICK r \in requests :
          /\ upc = "idle" /\ Resumed /\ request' = r
          /\ \/ Takes(r.context) /\ cleaning' = FALSE
             \/ Takes(DefaultContext) /\ cleaning' = TRUE
    BY <1>2, EnterIs
  <2>2. cleaning' => ctx'.config.groups = {} /\ ctx'.config.mode = "continuous"
    BY <2>1, TakesDefault
  <2>3. posted' \in 0..MaxRequests /\ cpu' = "update" /\ upc' = "exec" /\ requests' = requests
        /\ failed' = failed
    BY <1>1, <1>2, ServiceAssumption DEF Enter, Placed
  <2> QED
    BY <1>1, <2>1, <2>2, <2>3 DEF Placed, Resumed
<1>3. CASE Cleaned \/ Return \/ Await \/ StopCancels \/ Stopped \/ Quit
  <2>1. CASE Cleaned
    BY <1>1, <2>1 DEF Cleaned, Executing, Placed
  <2>2. CASE Return \/ Await
    BY <1>1, <2>2 DEF Return, Await, Executing, Placed
  <2>3. CASE StopCancels
    BY <1>1, <2>3 DEF StopCancels, Executing, Placed
  <2>4. CASE Stopped \/ Quit
    BY <1>1, <2>4 DEF Stopped, Quit, Doing, Executing, Placed
  <2> QED
    BY <1>3, <2>1, <2>2, <2>3, <2>4
<1>4. CASE StopDone
  BY <1>1, <1>4 DEF StopDone, Doing, Executing, Done, Placed
<1>5. CASE Start
  <2>1. ctx'.config = ctx.config
    BY <1>5 DEF Start, Typed, IsContext
  <2> QED
    BY <1>1, <1>5, <2>1 DEF Start, Doing, Executing, Placed
<1>6. ASSUME Done, (upc = "await" /\ Resume) \/ (cpu = "update" /\ UNCHANGED callback) PROVE Placed'
  BY <1>1, <1>6 DEF Done, Placed, Resume
<1>7. ASSUME Raise, (upc = "await" /\ Resume) \/ UNCHANGED callback PROVE Placed'
  BY <1>1, <1>7 DEF Raise, Placed, Resume
<1>8. CASE RemoveGroupsLookup \/ RemoveVPNsLookup
  BY <1>7, <1>8 DEF RemoveGroupsLookup, RemoveVPNsLookup, Awaited, Providing
<1>9. CASE RemoveGroups \/ AddGroups \/ RemoveCases \/ AddCases
  BY <1>6, <1>9 DEF RemoveGroups, AddGroups, RemoveCases, AddCases, Awaited, Operated
<1>10. CASE AddVPNs \/ RemoveVPNs
  BY <1>6, <1>10 DEF AddVPNs, RemoveVPNs, Doing, Executing, Providing
<1>11. CASE AddSinks \/ UpdateSinks \/ RemoveSinks
  BY <1>6, <1>7, <1>11 DEF AddSinks, UpdateSinks, RemoveSinks, Awaited
<1>12. CASE RunnerStep
  BY <1>1, <1>12 DEF RunnerStep, updateVars, Placed
<1>13. CASE Idle
  <2>1. ctx'.config = ctx.config
    BY <1>13 DEF Idle, Typed, IsContext
  <2> QED
    BY <1>1, <1>13, <2>1 DEF Idle, Placed
<1> QED
  BY <1>2, <1>3, <1>4, <1>5, <1>8, <1>9, <1>10, <1>11, <1>12, <1>13 DEF Next, UpdateStep

LEMMA TypedKept ==
    ASSUME Typed, Next
    PROVE  Typed'
<1> USE DEF AlikeVars, clientVars
<1>1. RunnerInv' /\ Objects' /\ (pc' = "off" => group' = None)
  BY RunnerTyped
<1>2. Placed'
  BY UpdatePlaced
<1>3. IsContext(ctx) /\ Queue(queue) /\ \A r \in requests : IsRequest(r)
  BY DEF Typed
<1>4. ASSUME NEW q, q = queue, q # <<>> PROVE Queue(Tail(q))
  BY <1>3, <1>4, Executed
<1>5. ASSUME NEW s \in States, ctx' = [ctx EXCEPT !.state = s] PROVE IsContext(ctx')
  <2>1. ctx = [state |-> ctx.state, config |-> ctx.config]
    BY <1>3 DEF IsContext
  <2>2. ctx' = [state |-> s, config |-> ctx.config]
    BY <1>5, <2>1
  <2> QED
    BY <1>3, <2>2 DEF IsContext
<1>6. IsContext(ctx') /\ Queue(queue') /\ requests' = requests
  <2>1. CASE Enter
    <3>1. PICK r \in requests : Takes(r.context) \/ Takes(DefaultContext)
      BY <2>1, EnterIs
    <3> QED
      BY <3>1, TakesAre DEF Takes
  <2>2. CASE Cleaned
    BY <2>2, CleanedIs, TakesAre DEF Takes
  <2>3. CASE Waits
    BY <1>3, <2>3 DEF Waits
  <2>4. CASE StopDone
    BY <1>3, <1>4, <2>4 DEF StopDone, Doing, Done
  <2>5. CASE Start
    BY <1>3, <1>4, <1>5, <2>5 DEF Start, Doing, States
  <2>6. CASE Edits
    BY <1>3, <1>4, <2>6 DEF Edits, Beside
  <2>7. CASE Fails
    BY <1>3, <2>7, EmptyQueue DEF Fails
  <2>8. CASE RunnerStep
    BY <1>3, <2>8 DEF RunnerStep, updateVars
  <2>9. CASE Idle
    BY <1>3, <1>5, <2>9 DEF Idle, States
  <2> QED
    BY <2>1, <2>2, <2>3, <2>4, <2>5, <2>6, <2>7, <2>8, <2>9, Kinds
<1>7. \A r \in requests' : IsRequest(r)
  BY <1>3, <1>6
<1> QED
  BY <1>1, <1>2, <1>6, <1>7 DEF Typed, Placed

-------------------------------------------------------------------------------
(* Whose mode the task has.                                                  *)

LEMMA StopsFirst ==
    ASSUME NEW q, Queue(q), q # <<>>, Stops(q)
    PROVE  Head(q).mark \in {"Stop", "Quit"}
BY Places DEF Marks, Suspending, OfVPNs

LEMMA NoneHas ==
    ASSUME NEW q, NEW m, Has(q, m)
    PROVE  q # <<>>
BY EmptyQueue

(* While a configuration is replaced a task that is alive gets stopped.      *)
LEMMA TakingStops ==
    ASSUME Typed, Told, OneTask, Replacing, pc # "off", Enter \/ Cleaned
    PROVE  Stops(queue') /\ queue' # <<>> /\ Queue(queue')
<1>1. CASE Enter
  <2>1. PICK r \in requests : Takes(DefaultContext)
    BY <1>1, EnterIs DEF Replacing
  <2>2. upc = "idle"
    BY <1>1, EnterIs
  <2>3. ctx.state = "run"
    BY <2>1, <2>2, TakesAre DEF Told, Stops, Takes
  <2>4. Has(queue', "Stop")
    BY <2>1, <2>3, TakesAre, TakesDefault
  <2> QED
    BY <2>1, <2>4, NoneHas, TakesAre DEF Stops
<1>2. CASE Cleaned
  <2>1. /\ request \in requests /\ Takes(request.context) /\ cleaning /\ queue = <<>>
        /\ ctx.config.mode = "continuous"
    BY <1>2, CleanedIs DEF Takes, Typed
  <2>2. /\ ctx.state = "run"
        /\ \A x \in Asked : x.mode \notin {None, "continuous"}
    BY <2>1, TakesAre DEF Told, Stops
  <2>3. CASE request.context.config # None
    <3>1. ctx'.config.mode # ctx.config.mode
      BY <2>1, <2>2, <2>3, TakesUp
    <3>2. Has(queue', "Stop")
      BY <2>1, <3>1, TakesAre
    <3> QED
      BY <2>1, <3>2, NoneHas, TakesAre DEF Stops
  <2>4. CASE request.context.config = None
    <3>1. request.context.state \in {"idle", "quit"}
      BY <2>1, <2>4 DEF Typed, IsRequest
    <3>2. Has(queue', "Stop") \/ Has(queue', "Quit")
      BY <2>1, <2>2, <3>1, TakesAre
    <3> QED
      BY <2>1, <3>2, NoneHas, TakesAre DEF Stops
  <2> QED
    BY <2>3, <2>4
<1> QED
  BY <1>1, <1>2

LEMMA MineKept ==
    ASSUME Typed, Told, Mine, Next
    PROVE  Mine'
<1>1. requests' = requests => (OneTask' <=> OneTask) /\ (Replacing' <=> Replacing)
  BY Promises
<1>2. CASE Enter \/ Cleaned
  <2>1. requests' = requests /\ pc' = pc
    BY <1>2, EnterIs, CleanedIs DEF Takes, taskVars
  <2>2. OneTask /\ Replacing /\ pc # "off" =>
          Stops(queue') /\ Head(queue').mark \in {"Stop", "Quit"}
    BY <1>2, TakingStops, StopsFirst
  <2> QED
    BY <1>1, <2>1, <2>2 DEF Mine
<1>3. CASE Waits
  BY <1>1, <1>3 DEF Mine, Waits, AlikeVars, clientVars
<1>4. CASE StopDone
  BY <1>1, <1>4 DEF Mine, StopDone, Done, clientVars, runnerVars, taskVars
<1>5. CASE Start
  <2>1. /\ requests' = requests /\ mode' = ctx'.config.mode /\ repeats' = ctx'.config.repeats
        /\ queue' = Tail(queue) /\ queue # <<>> /\ Queue(queue) /\ Head(queue).mark = "Start"
    BY <1>5 DEF Start, Begin, clientVars, Doing, Executing, Typed, IsContext
  <2>2. queue' # <<>> => Head(queue').mark = "Start"
    BY <2>1, Places
  <2> QED
    BY <1>1, <2>1, <2>2 DEF Mine
<1>6. CASE Edits \/ Fails
  <2>1. requests' = requests /\ pc' = pc
    BY <1>6 DEF Edits, Fails, AlikeVars, clientVars
  <2>2. Beside
    BY <1>6 DEF Edits, Fails
  <2>3. Beside => queue # <<>> /\ Head(queue).mark \notin {"Stop", "Quit", "Start"}
    BY DEF Beside, Suspending, OfVPNs
  <2> QED
    BY <1>1, <2>1, <2>2, <2>3 DEF Mine
<1>7. CASE RunnerStep
  <2>1. /\ requests' = requests /\ queue' = queue /\ ctx' = ctx
        /\ mode' = mode /\ repeats' = repeats /\ pc # "off"
    BY <1>7, StepScope DEF RunnerStep, updateVars, clientVars
  <2> QED
    BY <1>1, <2>1 DEF Mine
<1>8. CASE Idle
  <2>1. /\ requests' = requests /\ queue' = queue /\ ctx'.config = ctx.config
        /\ mode' = mode /\ repeats' = repeats /\ pc' = pc
    BY <1>8 DEF Idle, runnerVars, taskVars, clientVars, Typed, IsContext
  <2> QED
    BY <1>1, <2>1 DEF Mine
<1> QED
  BY <1>2, <1>3, <1>4, <1>5, <1>6, <1>7, <1>8, Kinds

(* So groups, cases and providers change only while no task is alive.        *)
LEMMA EditsAlone ==
    ASSUME Typed, Mine, OneTask, Replacing, Edits \/ Fails
    PROVE  pc = "off"
<1>1. Beside
  BY DEF Edits, Fails
<1>2. Beside => queue # <<>> /\ Head(queue).mark \notin {"Stop", "Quit", "Start"}
  BY DEF Beside, Suspending, OfVPNs
<1> QED
  BY <1>1, <1>2 DEF Mine

-------------------------------------------------------------------------------
(* The kinds of steps by what they do to the groups, cases and providers.    *)

(* What asks for the same thing comes once; what ranks lower came before.    *)
LEMMA Order ==
    ASSUME NEW q, Queue(q), q # <<>>
    PROVE  /\ \A m, x : m # Head(q).mark => (Asks(Tail(q), m, x) <=> Asks(q, m, x))
           /\ \A m : m # Head(q).mark => (Has(Tail(q), m) <=> Has(q, m))
           /\ Head(q).mark \notin Repeatable =>
                /\ \A x : Asks(q, Head(q).mark, x) <=> x \in Head(q).arg
                /\ \A x : ~Asks(Tail(q), Head(q).mark, x)
                /\ ~Has(Tail(q), Head(q).mark)
           /\ \A m \in Marks : Rank(m) < Rank(Head(q).mark) =>
                ~Has(q, m) /\ \A x : ~Asks(q, m, x)
<1>1. /\ Head(q) \in Action
      /\ \A m : Has(q, m) <=> m = Head(q).mark \/ Has(Tail(q), m)
      /\ \A m, x : Asks(q, m, x)
             <=> (m = Head(q).mark /\ x \in Head(q).arg) \/ Asks(Tail(q), m, x)
      /\ \A m : Has(Tail(q), m) => /\ m \in Marks
                                   /\ \/ Rank(Head(q).mark) < Rank(m)
                                      \/ m = Head(q).mark /\ m \in Repeatable
      /\ \A m, x : Asks(Tail(q), m, x) => Has(Tail(q), m)
  BY Executed
<1>2. Head(q).mark \in Marks
  BY <1>1 DEF Action
<1>3. \A m, n \in Marks : Rank(m) < Rank(n) => ~(Rank(n) < Rank(m)) /\ m # n
  BY Ranks
<1>4. ~(Rank(Head(q).mark) < Rank(Head(q).mark))
  BY <1>2, Ranks
<1>5. ASSUME NEW m \in Marks, Rank(m) < Rank(Head(q).mark) PROVE ~Has(q, m)
  BY <1>1, <1>2, <1>3, <1>5
<1>6. \A m, x : Asks(q, m, x) => Has(q, m)
  BY <1>1
<1>7. Head(q).mark \notin Repeatable => ~Has(Tail(q), Head(q).mark)
  BY <1>1, <1>4
<1>8. \A m, x : m # Head(q).mark => (Asks(Tail(q), m, x) <=> Asks(q, m, x))
  BY <1>1
<1>9. \A m : m # Head(q).mark => (Has(Tail(q), m) <=> Has(q, m))
  BY <1>1
<1>10. Head(q).mark \notin Repeatable =>
         /\ \A x : ~Asks(Tail(q), Head(q).mark, x)
         /\ \A x : Asks(q, Head(q).mark, x) <=> x \in Head(q).arg
  BY <1>1, <1>7
<1> QED
  BY <1>5, <1>6, <1>7, <1>8, <1>9, <1>10

Works(mark) == Edits /\ Head(queue).mark = mark
OfSinks == {"RemoveDataSinks", "UpdateDataSinks", "AddDataSinks"}
Rests ==
    /\ UNCHANGED <<dataVars, providers, common_cities, faults, failed, clientVars>>
    /\ ctx'.config = ctx.config
    /\ \/ queue' = queue
       \/ queue # <<>> /\ Head(queue).mark \in Repeatable /\ queue' = Tail(queue)
    /\ UNCHANGED <<pc, group, case, outcome>> \/ Start

LEMMA DataKinds ==
    ASSUME Typed, Next
    PROVE  \/ Enter \/ Cleaned \/ RunnerStep \/ Rests
           \/ Works("RemoveGroups") /\ remove_groups(Head(queue).arg) /\ UNCHANGED providers
           \/ Works("AddGroups") /\ add_groups(Head(queue).arg) /\ UNCHANGED providers
           \/ Works("RemoveCases") /\ remove_cases(Head(queue).arg) /\ UNCHANGED providers
           \/ Works("AddCases") /\ add_cases(Head(queue).arg) /\ UNCHANGED providers
           \/ /\ Works("AddVPNs") \/ Works("UpdateVPNs")
              /\ providers' = providers \cup Head(queue).arg /\ UNCHANGED dataVars
           \/ /\ Works("RemoveVPNs")
              /\ providers' = providers \ Head(queue).arg /\ UNCHANGED dataVars
           \/ /\ \E m \in OfSinks : Works(m)
              /\ UNCHANGED <<dataVars, providers>>
           \/ Fails /\ UNCHANGED <<groups, stats, test_cases, failing_cases>>
<1> USE DEF runnerVars, confVars, taskVars, clientVars, AlikeVars
<1>1. CASE Waits
  BY <1>1 DEF Waits, Rests
<1>2. CASE StopDone
  BY <1>2 DEF StopDone, Doing, Done, Rests, Repeatable
<1>3. CASE Start
  BY <1>3 DEF Start, Doing, Rests, Repeatable, Typed, IsContext
<1>4. CASE Idle
  BY <1>4 DEF Idle, Rests, Typed, IsContext
<1>5. ASSUME NEW m \in Suspending, Awaited(m) PROVE Beside /\ Head(queue).mark = m
  BY <1>5 DEF Awaited, Resume, Resumed, Beside, Typed
<1>6. ASSUME NEW m \in OfVPNs, Doing(m), UNCHANGED callback PROVE Beside /\ Head(queue).mark = m
  BY <1>6 DEF Doing, Executing, Beside
<1>7. Suspending = {"RemoveGroups", "RemoveCases", "AddCases", "AddGroups",
                    "RemoveDataSinks", "UpdateDataSinks", "AddDataSinks"}
      /\ OfVPNs = {"RemoveVPNs", "UpdateVPNs", "AddVPNs"}
  BY DEF Suspending, OfVPNs
<1> USE DEF Works, Arg
<1>10. CASE RemoveGroups
  BY <1>5, <1>7, <1>10 DEF RemoveGroups, Operated, Done, Edits
<1>11. CASE AddGroups
  BY <1>5, <1>7, <1>11 DEF AddGroups, Operated, Done, Edits
<1>12. CASE RemoveCases
  BY <1>5, <1>7, <1>12 DEF RemoveCases, Operated, Done, Edits
<1>13. CASE AddCases
  BY <1>5, <1>7, <1>13 DEF AddCases, Operated, Done, Edits
<1>14. CASE AddVPNs
  BY <1>6, <1>7, <1>14 DEF AddVPNs, Providing, Done, Edits
<1>15. CASE RemoveVPNs
  BY <1>6, <1>7, <1>15 DEF RemoveVPNs, Providing, Done, Edits
<1>16. CASE AddSinks \/ UpdateSinks \/ RemoveSinks
  <2>1. ASSUME Done, NEW m \in OfSinks, Awaited(m), UNCHANGED runnerVars
        PROVE  Works(m) /\ UNCHANGED <<dataVars, providers>>
    BY <1>5, <1>7, <2>1 DEF Done, Edits, OfSinks
  <2>2. ASSUME Raise, NEW m \in OfSinks, Awaited(m), UNCHANGED runnerVars
        PROVE  Fails /\ UNCHANGED <<groups, stats, test_cases, failing_cases>>
    BY <1>5, <1>7, <2>2 DEF Raise, Fails, OfSinks, dataVars
  <2> QED
    BY <1>16, <2>1, <2>2 DEF AddSinks, UpdateSinks, RemoveSinks, OfSinks
<1>17. CASE RemoveGroupsLookup
  BY <1>5, <1>7, <1>17 DEF RemoveGroupsLookup, remove_groups_lookup, Raise, Fails
<1>18. CASE RemoveVPNsLookup
  BY <1>6, <1>7, <1>18 DEF RemoveVPNsLookup, Providing, Raise, Fails, dataVars
<1>19. CASE Return \/ Await \/ StopCancels \/ Stopped \/ Quit
  <2>1. Waits
    BY <1>19 DEF Return, Await, StopCancels, Stopped, Quit, Cancel, Waits, Executing, Doing
  <2> QED
    BY <1>1, <2>1
<1> QED
  BY <1>2, <1>3, <1>4, <1>10, <1>11, <1>12, <1>13, <1>14, <1>15, <1>16, <1>17, <1>18,
     <1>19 DEF Next, UpdateStep

-------------------------------------------------------------------------------
(* No cities.                                                                *)

LEMMA TakesNone ==
    ASSUME Typed, NEW context, Takes(context), context.config = None
    PROVE  ctx'.config = ctx.config
BY DEF Takes, DiffContext, DiffConfig

LEMMA TaskUntouched ==
    ASSUME Typed, Edits \/ Fails
    PROVE  UNCHANGED <<pc, group, case, outcome, ctx, common_cities, faults, requests>>
BY DEF Edits, Fails, AlikeVars, clientVars

LEMMA CityFreeKept ==
    ASSUME Typed, CityFree, Next
    PROVE  CityFree'
<1>1. requests' = requests => (CitiesOff' <=> CitiesOff)
  BY Promises
<1>2. CASE Enter \/ Cleaned
  <2>1. \/ \E r \in requests : /\ r.context.config # None /\ Takes(r.context)
                               /\ common_cities' = ctx'.config.common
        \/ Takes(DefaultContext) /\ UNCHANGED common_cities
        \/ request.context.config = None /\ Takes(request.context)
             /\ common_cities' = ctx'.config.common
    BY <1>2, EnterIs, CleanedIs DEF Typed, IsRequest
  <2>2. UNCHANGED <<requests, pc, groups>>
    BY <2>1 DEF Takes, taskVars, dataVars
  <2>3. CitiesOff /\ ~ctx.config.common => ~ctx'.config.common /\ (common_cities' => common_cities)
    <3>1. CASE Takes(DefaultContext) /\ UNCHANGED common_cities
      BY <3>1, TakesDefault
    <3>2. CASE /\ request.context.config = None /\ Takes(request.context)
               /\ common_cities' = ctx'.config.common
      BY <3>2, TakesNone
    <3>3. ASSUME NEW r \in requests, r.context.config # None, Takes(r.context),
                 common_cities' = ctx'.config.common, CitiesOff
          PROVE  ctx'.config.common => ctx.config.common
      <4>1. r.context.config \in Asked /\ ~r.context.config.common
        BY <3>3, TakesUp DEF CitiesOff
      <4>2. ctx'.config.common = (r.context.config.common \/ ctx.config.common)
        BY <3>3, TakesUp
      <4> QED
        BY <4>1, <4>2
    <3> QED
      BY <2>1, <3>1, <3>2, <3>3
  <2> QED
    BY <1>1, <2>2, <2>3 DEF CityFree
<1>3. CASE RunnerStep
  <2>1. Step /\ UNCHANGED <<requests, ctx>> /\ DataTypeOK
    BY <1>3 DEF RunnerStep, updateVars, clientVars, Typed, RunnerInv, RunnerTypeOK
  <2>2. pc # "city" => /\ DOMAIN groups' = DOMAIN groups
                       /\ \A g \in DOMAIN groups : groups'[g].city = groups[g].city
    BY <2>1, StepKeepsIndexes
  <2>3. UNCHANGED common_cities
    BY <2>1, StepScope DEF confVars
  <2> QED
    BY <1>1, <2>1, <2>2, <2>3, StepLeaves DEF CityFree
<1>4. CASE Rests
  BY <1>1, <1>4 DEF Rests, CityFree, dataVars, clientVars, Start, Begin
<1>5. ASSUME Edits \/ Fails,
             \A g \in DOMAIN groups' : g \in DOMAIN groups => groups'[g] = groups[g],
             \A g \in DOMAIN groups' \ DOMAIN groups : groups'[g].city = NoCity
      PROVE  CityFree'
  BY <1>1, <1>5, TaskUntouched DEF CityFree
<1>6. ASSUME NEW pairs, remove_groups(pairs)
      PROVE  \A g \in DOMAIN groups' : g \in DOMAIN groups /\ groups'[g] = groups[g]
  BY <1>6 DEF remove_groups, Without
<1>7. ASSUME Typed, NEW pairs, add_groups(pairs)
      PROVE  /\ \A g \in DOMAIN groups : groups'[g] = groups[g]
             /\ \A g \in DOMAIN groups' \ DOMAIN groups : groups'[g].city = NoCity
  <2>1. PICK new : new = {[pair |-> p, gen |-> NextGen] : p \in pairs}
    OBVIOUS
  <2>2. groups' = Overlay(groups, [g \in new |-> [city |-> NoCity, failing |-> FALSE]])
    <3>1. {([q \in pairs |-> [pair |-> q, gen |-> NextGen]])[p] : p \in pairs} = new
      BY <2>1
    <3> QED
      BY <1>7, <3>1 DEF add_groups
  <2>3. \A g \in new : g \notin DOMAIN groups
    BY <2>1, NextGenIsNew DEF Typed
  <2> QED
    BY <2>2, <2>3 DEF Overlay
<1>8. CASE Fails /\ UNCHANGED <<groups, stats, test_cases, failing_cases>>
  BY <1>5, <1>8
<1>9. ASSUME NEW m, Works(m), \/ remove_groups(Head(queue).arg)
                              \/ add_groups(Head(queue).arg)
                              \/ UNCHANGED groups
      PROVE  CityFree'
  BY <1>5, <1>6, <1>7, <1>9 DEF Works
<1>10. \A x : (remove_cases(x) => UNCHANGED groups) /\ (add_cases(x) => UNCHANGED groups)
  BY DEF remove_cases, add_cases
<1>11. UNCHANGED dataVars => UNCHANGED groups
  BY DEF dataVars
<1> QED
  BY <1>2, <1>3, <1>4, <1>8, <1>9, <1>10, <1>11, DataKinds

-------------------------------------------------------------------------------
(* The configuration is what the runner has once the queue is executed.      *)

LEMMA TakesAsks ==
    ASSUME Typed, NEW context, Takes(context),
           context = DefaultContext \/ \E r \in requests : context = r.context
    PROVE  /\ \A x : Asks(queue', "RemoveGroups", x)
                <=> x \in ctx.config.groups \ ctx'.config.groups
           /\ \A x : Asks(queue', "AddGroups", x)
                <=> x \in ctx'.config.groups \ ctx.config.groups
           /\ \A x : Asks(queue', "RemoveCases", x)
                <=> x \in ToCases(ctx.config.vpns) \ ToCases(ctx'.config.vpns)
           /\ \A x : Asks(queue', "AddCases", x)
                <=> x \in ToCases(ctx'.config.vpns) \ ToCases(ctx.config.vpns)
           /\ \A x : Asks(queue', "RemoveVPNs", x)
                <=> x \in DOMAIN ctx.config.vpns \ DOMAIN ctx'.config.vpns
           /\ \A x : Asks(queue', "AddVPNs", x)
                <=> x \in DOMAIN ctx'.config.vpns \ DOMAIN ctx.config.vpns
           /\ \A x : Asks(queue', "UpdateVPNs", x)
                => x \in DOMAIN ctx'.config.vpns \cap DOMAIN ctx.config.vpns
           /\ Has(queue', "RemoveCases")
                <=> ToCases(ctx.config.vpns) \ ToCases(ctx'.config.vpns) # {}
           /\ Has(queue', "AddCases")
                <=> ToCases(ctx'.config.vpns) \ ToCases(ctx.config.vpns) # {}
<1>1. IsContext(ctx) /\ \A r \in requests : IsRequest(r)
  BY DEF Typed
<1>2. IsContext(ctx')
  BY TakesAre
<1>3. PICK c, q : c = ctx' /\ q = queue' /\ c = DiffContext(ctx, context)
                  /\ q = Actions(ctx, context)
  BY DEF Takes
<1>4. /\ \A x : Asks(q, "RemoveGroups", x) <=> x \in ctx.config.groups \ c.config.groups
      /\ \A x : Asks(q, "AddGroups", x) <=> x \in c.config.groups \ ctx.config.groups
      /\ \A x : Asks(q, "RemoveCases", x)
           <=> x \in ToCases(ctx.config.vpns) \ ToCases(c.config.vpns)
      /\ \A x : Asks(q, "AddCases", x)
           <=> x \in ToCases(c.config.vpns) \ ToCases(ctx.config.vpns)
      /\ \A x : Asks(q, "RemoveVPNs", x) <=> x \in DOMAIN ctx.config.vpns \ DOMAIN c.config.vpns
      /\ \A x : Asks(q, "AddVPNs", x) <=> x \in DOMAIN c.config.vpns \ DOMAIN ctx.config.vpns
      /\ \A x : Asks(q, "UpdateVPNs", x)
           => x \in DOMAIN c.config.vpns \cap DOMAIN ctx.config.vpns
      /\ Has(q, "RemoveCases") <=> ToCases(ctx.config.vpns) \ ToCases(c.config.vpns) # {}
      /\ Has(q, "AddCases") <=> ToCases(c.config.vpns) \ ToCases(ctx.config.vpns) # {}
  BY <1>1, <1>2, <1>3, ActionsAre
<1> QED
  BY <1>3, <1>4

LEMMA Taking ==
    ASSUME Typed, Enter \/ Cleaned
    PROVE  \E context :
             /\ Takes(context)
             /\ context = DefaultContext \/ \E r \in requests : context = r.context
BY EnterIs, CleanedIs

(* What an action is about is settled, what others are about is untouched.   *)
LEMMA WorkedOff ==
    ASSUME Typed, NEW mark, Works(mark)
    PROVE  /\ UNCHANGED <<ctx, failed, requests>> /\ mark \in Marks
           /\ \A m, x : m # mark => (Asks(queue', m, x) <=> Asks(queue, m, x))
           /\ \A m : m # mark => (Has(queue', m) <=> Has(queue, m))
           /\ \A x : Asks(queue, mark, x) <=> x \in Head(queue).arg
           /\ \A x : ~Asks(queue', mark, x)
           /\ ~Has(queue', mark)
           /\ \A m \in Marks : Rank(m) < Rank(mark) => ~Has(queue, m) /\ \A x : ~Asks(queue, m, x)
           /\ Sensible(Head(queue))
<1>1. Queue(queue) /\ queue # <<>> /\ queue' = Tail(queue) /\ Head(queue).mark = mark
  BY DEF Works, Edits, Beside, Typed
<1>2. mark \notin Repeatable
  BY DEF Works, Edits, Beside, Suspending, OfVPNs, Repeatable
<1>3. UNCHANGED <<ctx, failed, requests>>
  BY DEF Works, Edits, AlikeVars, clientVars
<1>4. mark \in Marks /\ Sensible(Head(queue))
  BY <1>1, Places, Executed
<1> QED
  BY <1>1, <1>2, <1>3, <1>4, Order

LEMMA RestsAsk ==
    ASSUME Typed, Rests
    PROVE  /\ \A m \in Marks \ Repeatable : /\ Has(queue', m) <=> Has(queue, m)
                                            /\ \A x : Asks(queue', m, x) <=> Asks(queue, m, x)
           /\ \A m : Has(queue', m) => Has(queue, m)
<1>1. CASE queue' = queue
  BY <1>1
<1>2. CASE queue # <<>> /\ Head(queue).mark \in Repeatable /\ queue' = Tail(queue)
  BY <1>2, Order, Places DEF Typed
<1> QED
  BY <1>1, <1>2 DEF Rests

LEMMA GivenKept ==
    ASSUME Typed, Given, Next
    PROVE  Given'
<1> USE DEF Marks, Rank
<1>1. CASE Enter \/ Cleaned
  <2>1. PICK context : /\ Takes(context)
                       /\ context = DefaultContext \/ \E r \in requests : context = r.context
    BY <1>1, Taking
  <2>2. UNCHANGED <<failed, test_cases, providers>>
    BY <2>1 DEF Takes, dataVars
  <2> HIDE DEF Marks, Rank
  <2>3. \A m, x : ~Asks(queue, m, x)
    BY <2>1, TakesAre
  <2>4. ASSUME ~failed'
        PROVE  \A c \in Cases : c \in ToCases(ctx'.config.vpns) <=>
                 \/ c \in test_cases' /\ ~Asks(queue', "RemoveCases", c)
                 \/ Asks(queue', "AddCases", c)
    BY <2>1, <2>2, <2>3, <2>4, TakesAsks DEF Given
  <2>5. ASSUME ~failed'
        PROVE  \A v \in Providers :
                 /\ v \in DOMAIN ctx'.config.vpns <=>
                      \/ v \in providers' /\ ~Asks(queue', "RemoveVPNs", v)
                      \/ Asks(queue', "UpdateVPNs", v)
                      \/ Asks(queue', "AddVPNs", v)
                 /\ Asks(queue', "RemoveVPNs", v) =>
                      ~Asks(queue', "UpdateVPNs", v) /\ ~Asks(queue', "AddVPNs", v)
    BY <2>1, <2>2, <2>3, <2>5, TakesAsks DEF Given
  <2> QED
    BY <2>4, <2>5 DEF Given
<1>2. CASE RunnerStep
  <2>1. UNCHANGED <<ctx, failed, queue, test_cases, providers>>
    BY <1>2, StepScope DEF RunnerStep, updateVars, confVars
  <2> QED
    BY <2>1 DEF Given
<1>3. CASE Rests
  <2>1. UNCHANGED <<failed, test_cases, providers>> /\ ctx'.config = ctx.config
    BY <1>3 DEF Rests, dataVars
  <2>2. \A m \in {"RemoveCases", "AddCases", "RemoveVPNs", "UpdateVPNs", "AddVPNs"} :
          \A x : Asks(queue', m, x) <=> Asks(queue, m, x)
    BY <1>3, RestsAsk DEF Repeatable
  <2> QED
    BY <2>1, <2>2 DEF Given
<1>4. CASE \E m \in {"RemoveGroups", "AddGroups"} \cup OfSinks :
             Works(m) /\ UNCHANGED <<test_cases, providers>>
  <2>1. PICK m \in {"RemoveGroups", "AddGroups"} \cup OfSinks : Works(m)
    BY <1>4
  <2>2. \A k \in {"RemoveCases", "AddCases", "RemoveVPNs", "UpdateVPNs", "AddVPNs"} :
          \A x : Asks(queue', k, x) <=> Asks(queue, k, x)
    BY <2>1, WorkedOff DEF OfSinks
  <2> QED
    BY <1>4, <2>1, <2>2, WorkedOff DEF Given
<1>5. CASE Works("RemoveCases") /\ remove_cases(Head(queue).arg) /\ UNCHANGED providers
  BY <1>5, WorkedOff DEF Given, remove_cases
<1>6. CASE Works("AddCases") /\ add_cases(Head(queue).arg) /\ UNCHANGED providers
  <2>1. /\ UNCHANGED <<ctx, failed, providers>> /\ test_cases' = test_cases \cup Head(queue).arg
        /\ \A x : Asks(queue, "AddCases", x) <=> x \in Head(queue).arg
        /\ \A x : ~Asks(queue', "AddCases", x)
        /\ \A m \in {"RemoveCases", "RemoveVPNs", "UpdateVPNs", "AddVPNs"} :
             \A x : Asks(queue', m, x) <=> Asks(queue, m, x)
    BY <1>6, WorkedOff DEF add_cases
  <2>2. \A x : ~Asks(queue, "RemoveCases", x)
    <3>1. Rank("RemoveCases") < Rank("AddCases") /\ "RemoveCases" \in Marks
      OBVIOUS
    <3> QED
      BY <1>6, <3>1, WorkedOff
  <2> HIDE DEF Marks, Rank
  <2> QED
    BY <2>1, <2>2 DEF Given
<1>7. CASE /\ Works("AddVPNs") \/ Works("UpdateVPNs")
           /\ providers' = providers \cup Head(queue).arg /\ UNCHANGED dataVars
  BY <1>7, WorkedOff DEF Given, dataVars
<1>8. CASE /\ Works("RemoveVPNs")
           /\ providers' = providers \ Head(queue).arg /\ UNCHANGED dataVars
  BY <1>8, WorkedOff DEF Given, dataVars
<1>9. CASE Fails
  BY <1>9 DEF Fails, Given
<1>10. \A x : remove_groups(x) \/ add_groups(x) => UNCHANGED test_cases
  BY DEF remove_groups, add_groups
<1>11. UNCHANGED dataVars => UNCHANGED test_cases
  BY DEF dataVars
<1> QED
  BY <1>1, <1>2, <1>3, <1>4, <1>5, <1>6, <1>7, <1>8, <1>9, <1>10, <1>11, DataKinds

-------------------------------------------------------------------------------
(* The groups of the configuration, one object each.                         *)

LEMMA PlainKeys ==
    ASSUME CityFree, CitiesOff
    PROVE  \A g \in DOMAIN groups : KeyOf(g) = Plain(g.pair)
BY DEF CityFree, KeyOf, Plain

LEMMA PlainIsOne == \A p, q : Plain(p) = Plain(q) => p = q
BY DEF Plain

(* The keys of the groups, while no city changes.                            *)
LEMMA SameKeys ==
    ASSUME DOMAIN groups' = DOMAIN groups,
           \A g \in DOMAIN groups : groups'[g].city = groups[g].city
    PROVE  {KeyOf(g) : g \in DOMAIN groups}' = {KeyOf(g) : g \in DOMAIN groups}
<1>1. \A g \in DOMAIN groups : KeyOf(g)' = KeyOf(g)
  BY DEF KeyOf
<1> QED
  BY <1>1

LEMMA ExactStill ==
    ASSUME Exact, requests' = requests, failed' = failed,
           DOMAIN groups' = DOMAIN groups,
           \A g \in DOMAIN groups : groups'[g].city = groups[g].city,
           group_index' = group_index, DOMAIN case_index' = DOMAIN case_index,
           CitiesOff /\ ~failed =>
             \A p \in Pairs :
               /\ p \in ctx'.config.groups <=>
                    \/ Held(p) /\ ~Asks(queue', "RemoveGroups", p)
                    \/ Asks(queue', "AddGroups", p)
               /\ Asks(queue', "AddGroups", p) => ~Held(p)
    PROVE  Exact'
<1>1. CitiesOff' <=> CitiesOff
  BY Promises
<1>2. {KeyOf(g) : g \in DOMAIN groups}' = {KeyOf(g) : g \in DOMAIN groups}
  BY SameKeys
<1>3. \A p : Held(p)' <=> Held(p)
  BY DEF Held
<1> QED
  BY <1>1, <1>2, <1>3 DEF Exact

LEMMA ExactTakes ==
    ASSUME Typed, Exact, Enter \/ Cleaned
    PROVE  Exact'
<1>1. PICK context : /\ Takes(context)
                     /\ context = DefaultContext \/ \E r \in requests : context = r.context
  BY Taking
<1>2. UNCHANGED <<failed, requests, groups, group_index, case_index>>
  BY <1>1 DEF Takes, dataVars
<1>3. \A m, x : ~Asks(queue, m, x)
  BY <1>1, TakesAre
<1>4. ASSUME CitiesOff, ~failed, NEW p \in Pairs
      PROVE  /\ p \in ctx'.config.groups <=>
                  \/ Held(p) /\ ~Asks(queue', "RemoveGroups", p)
                  \/ Asks(queue', "AddGroups", p)
             /\ Asks(queue', "AddGroups", p) => ~Held(p)
  <2>1. p \in ctx.config.groups <=> Held(p)
    BY <1>3, <1>4 DEF Exact
  <2>2. /\ Asks(queue', "RemoveGroups", p) <=> p \in ctx.config.groups \ ctx'.config.groups
        /\ Asks(queue', "AddGroups", p) <=> p \in ctx'.config.groups \ ctx.config.groups
    BY <1>1, TakesAsks
  <2> QED
    BY <2>1, <2>2
<1> QED
  BY <1>2, <1>4, ExactStill

LEMMA ExactRemoves ==
    ASSUME Typed, CityFree, Exact, Works("RemoveGroups"), remove_groups(Head(queue).arg)
    PROVE  Exact'
<1>1. PICK pairs : pairs = Head(queue).arg
  OBVIOUS
<1>2. /\ UNCHANGED <<ctx, failed, requests>>
      /\ \A x : Asks(queue', "AddGroups", x) <=> Asks(queue, "AddGroups", x)
      /\ \A x : Asks(queue, "RemoveGroups", x) <=> x \in pairs
      /\ \A x : ~Asks(queue', "RemoveGroups", x)
  BY <1>1, WorkedOff
<1>3. CitiesOff' <=> CitiesOff
  BY <1>2, Promises
<1>4. SUFFICES ASSUME CitiesOff, ~failed PROVE Exact'
  BY <1>2, <1>3 DEF Exact
<1>5. \A g \in DOMAIN groups : KeyOf(g) = Plain(g.pair)
  BY <1>4, PlainKeys
<1>6. PICK gone : gone = Victims(pairs)
  OBVIOUS
<1>7. \A g \in DOMAIN groups : g \in gone <=> g.pair \in pairs
  BY <1>5, <1>6, PlainIsOne DEF Victims
<1>8. gone \subseteq DOMAIN groups
  BY <1>6 DEF Victims
<1>9. PICK keys : keys = {KeyOf(g) : g \in gone}
  OBVIOUS
<1>10. /\ groups' = Without(groups, gone)
       /\ group_index' = Without(group_index, keys)
       /\ case_index' = Without(case_index, keys)
  BY <1>1, <1>6, <1>9 DEF remove_groups, VictimKeys
<1>11. DOMAIN groups' = DOMAIN groups \ gone
       /\ \A g \in DOMAIN groups' : groups'[g] = groups[g]
  BY <1>10 DEF Without
<1>12. \A g \in DOMAIN groups' : KeyOf(g)' = KeyOf(g)
  BY <1>11 DEF KeyOf
<1>13. DOMAIN group_index' = DOMAIN group_index \ keys
       /\ DOMAIN case_index' = DOMAIN case_index \ keys
  BY <1>10 DEF Without
<1>14. /\ \A g, h \in DOMAIN groups : g.pair = h.pair => g = h
       /\ DOMAIN group_index = {KeyOf(g) : g \in DOMAIN groups}
       /\ DOMAIN case_index = DOMAIN group_index
       /\ \A p \in Pairs : p \in ctx.config.groups <=>
             \/ Held(p) /\ ~Asks(queue, "RemoveGroups", p)
             \/ Asks(queue, "AddGroups", p)
       /\ \A p \in Pairs : Asks(queue, "AddGroups", p) => ~Held(p)
  BY <1>4 DEF Exact
<1>15. {KeyOf(g) : g \in DOMAIN groups} \ keys = {KeyOf(g) : g \in DOMAIN groups \ gone}
  <2>1. \A g, h \in DOMAIN groups : KeyOf(g) = KeyOf(h) => g = h
    BY <1>5, <1>14, PlainIsOne
  <2> QED
    BY <1>8, <1>9, <2>1
<1>16. {KeyOf(g) : g \in DOMAIN groups}' = {KeyOf(g) : g \in DOMAIN groups \ gone}
  BY <1>11, <1>12
<1>17. \A p : Held(p)' <=> Held(p) /\ p \notin pairs
  <2>1. \A p : Held(p)' <=> \E g \in DOMAIN groups' : g.pair = p
    BY DEF Held
  <2> QED
    BY <1>7, <1>11, <2>1 DEF Held
<1>18. \A p \in Pairs : /\ p \in ctx'.config.groups <=>
                             \/ Held(p)' /\ ~Asks(queue', "RemoveGroups", p)
                             \/ Asks(queue', "AddGroups", p)
                        /\ Asks(queue', "AddGroups", p) => ~Held(p)'
  BY <1>2, <1>14, <1>17
<1>19. \A g, h \in DOMAIN groups' : g.pair = h.pair => g = h
  BY <1>11, <1>14
<1>20. /\ DOMAIN group_index' = {KeyOf(g) : g \in DOMAIN groups}'
       /\ DOMAIN case_index' = DOMAIN group_index'
  BY <1>13, <1>14, <1>15, <1>16
<1> QED
  BY <1>18, <1>19, <1>20 DEF Exact

(* The groups that add_groups adds.                                          *)
LEMMA AddedGroups ==
    ASSUME Objects, NEW pairs, add_groups(pairs)
    PROVE  \E new :
             /\ \A g : g \in new <=> \E p \in pairs : g = [pair |-> p, gen |-> NextGen]
             /\ \A g \in new : g.pair \in pairs /\ g \notin DOMAIN groups
             /\ DOMAIN groups' = DOMAIN groups \cup new
             /\ \A g \in DOMAIN groups : groups'[g] = groups[g]
             /\ \A g \in new : groups'[g].city = NoCity /\ KeyOf(g)' = Plain(g.pair)
             /\ \A g \in DOMAIN groups : KeyOf(g)' = KeyOf(g)
             /\ DOMAIN group_index' = DOMAIN group_index \cup {Plain(p) : p \in pairs}
             /\ DOMAIN case_index' = DOMAIN case_index \cup {Plain(p) : p \in pairs}
<1>1. PICK new : new = {[pair |-> p, gen |-> NextGen] : p \in pairs}
  OBVIOUS
<1>2. groups' = Overlay(groups, [g \in new |-> [city |-> NoCity, failing |-> FALSE]])
  <2>1. {([q \in pairs |-> [pair |-> q, gen |-> NextGen]])[p] : p \in pairs} = new
    BY <1>1
  <2> QED
    BY <2>1 DEF add_groups
<1>3. \A g \in new : g.pair \in pairs /\ g \notin DOMAIN groups
  BY <1>1, NextGenIsNew
<1>4. /\ DOMAIN groups' = DOMAIN groups \cup new
      /\ \A g \in DOMAIN groups : groups'[g] = groups[g]
      /\ \A g \in new : groups'[g].city = NoCity
  BY <1>2, <1>3 DEF Overlay
<1>5. \A g \in DOMAIN groups' : KeyOf(g)' = [pair |-> g.pair, city |-> groups'[g].city]
  BY DEF KeyOf
<1>6. \A g \in new : KeyOf(g)' = Plain(g.pair)
  BY <1>4, <1>5 DEF Plain
<1>7. \A g \in DOMAIN groups : KeyOf(g)' = KeyOf(g)
  BY <1>4, <1>5 DEF KeyOf
<1>8. PICK keys : keys = {Plain(p) : p \in pairs}
  OBVIOUS
<1>9. /\ DOMAIN group_index' = DOMAIN group_index \cup keys
      /\ DOMAIN case_index' = DOMAIN case_index \cup keys
  BY <1>8 DEF add_groups, Overlay
<1>10. \A g : g \in new <=> \E p \in pairs : g = [pair |-> p, gen |-> NextGen]
  BY <1>1
<1> QED
  BY <1>3, <1>4, <1>6, <1>7, <1>8, <1>9, <1>10

LEMMA ExactAdds ==
    ASSUME Typed, CityFree, Exact, Works("AddGroups"), add_groups(Head(queue).arg)
    PROVE  Exact'
<1>1. PICK pairs : pairs = Head(queue).arg
  OBVIOUS
<1>2. /\ UNCHANGED <<ctx, failed, requests>>
      /\ \A x : Asks(queue', "RemoveGroups", x) <=> Asks(queue, "RemoveGroups", x)
      /\ \A x : Asks(queue, "AddGroups", x) <=> x \in pairs
      /\ \A x : ~Asks(queue', "AddGroups", x)
      /\ pairs \subseteq Pairs
  BY <1>1, WorkedOff DEF Sensible, Works
<1>3. \A x : ~Asks(queue, "RemoveGroups", x)
  <2>1. Rank("RemoveGroups") < Rank("AddGroups") /\ "RemoveGroups" \in Marks
    BY DEF Rank, Marks
  <2> QED
    BY <2>1, WorkedOff
<1>4. CitiesOff' <=> CitiesOff
  BY <1>2, Promises
<1>5. SUFFICES ASSUME CitiesOff, ~failed PROVE Exact'
  BY <1>2, <1>4 DEF Exact
<1>6. /\ \A g, h \in DOMAIN groups : g.pair = h.pair => g = h
      /\ DOMAIN group_index = {KeyOf(g) : g \in DOMAIN groups}
      /\ DOMAIN case_index = DOMAIN group_index
      /\ \A p \in Pairs : p \in ctx.config.groups <=> Held(p) \/ p \in pairs
      /\ \A p \in pairs : ~Held(p)
  BY <1>2, <1>3, <1>5 DEF Exact
<1>7. PICK new :
        /\ \A g : g \in new <=> \E p \in pairs : g = [pair |-> p, gen |-> NextGen]
        /\ \A g \in new : g.pair \in pairs /\ g \notin DOMAIN groups
        /\ DOMAIN groups' = DOMAIN groups \cup new
        /\ \A g \in DOMAIN groups : groups'[g] = groups[g]
        /\ \A g \in new : groups'[g].city = NoCity /\ KeyOf(g)' = Plain(g.pair)
        /\ \A g \in DOMAIN groups : KeyOf(g)' = KeyOf(g)
        /\ DOMAIN group_index' = DOMAIN group_index \cup {Plain(p) : p \in pairs}
        /\ DOMAIN case_index' = DOMAIN case_index \cup {Plain(p) : p \in pairs}
  <2>1. Objects /\ add_groups(pairs)
    BY <1>1 DEF Typed
  <2> QED
    BY <2>1, AddedGroups
<1>a. \A p \in pairs : \E g \in new : g.pair = p
  <2>1. \A p \in pairs : [pair |-> p, gen |-> NextGen] \in new
    BY <1>7
  <2> QED
    BY <2>1
<1>8. \A g, h \in DOMAIN groups' : g.pair = h.pair => g = h
  <2>1. \A g \in DOMAIN groups : g.pair \notin pairs
    BY <1>6 DEF Held
  <2>2. \A g, h \in new : g.pair = h.pair => g = h
    BY <1>7
  <2> QED
    BY <1>6, <1>7, <2>1, <2>2
<1>9. {KeyOf(g) : g \in DOMAIN groups}' = {KeyOf(g) : g \in DOMAIN groups} \cup {Plain(p) : p \in pairs}
  <2>2. {KeyOf(g) : g \in DOMAIN groups}' = {KeyOf(g) : g \in DOMAIN groups} \cup {Plain(g.pair) : g \in new}
    BY <1>7
  <2>3. {Plain(g.pair) : g \in new} = {Plain(p) : p \in pairs}
    BY <1>7, <1>a
  <2> QED
    BY <2>2, <2>3
<1>10. \A p : Held(p)' <=> Held(p) \/ p \in pairs
  <2>1. \A p : Held(p)' <=> \E g \in DOMAIN groups' : g.pair = p
    BY DEF Held
  <2> QED
    BY <1>7, <1>a, <2>1 DEF Held
<1>11. \A p \in Pairs : /\ p \in ctx'.config.groups <=>
                             \/ Held(p)' /\ ~Asks(queue', "RemoveGroups", p)
                             \/ Asks(queue', "AddGroups", p)
                        /\ Asks(queue', "AddGroups", p) => ~Held(p)'
  BY <1>2, <1>3, <1>6, <1>10
<1>12. /\ DOMAIN group_index' = {KeyOf(g) : g \in DOMAIN groups}'
       /\ DOMAIN case_index' = DOMAIN group_index'
  BY <1>6, <1>7, <1>9
<1> QED
  BY <1>8, <1>11, <1>12 DEF Exact

LEMMA ExactKept ==
    ASSUME Typed, CityFree, Exact, Next
    PROVE  Exact'
<1>1. CASE RunnerStep
  <2>1. Step /\ UNCHANGED <<requests, failed, ctx, queue>> /\ DataTypeOK
    BY <1>1 DEF RunnerStep, updateVars, clientVars, Typed, RunnerInv, RunnerTypeOK
  <2>2. CASE CitiesOff
    <3>1. pc # "city"
      BY <2>2 DEF CityFree
    <3>2. /\ UNCHANGED <<group_index, case_index>> /\ DOMAIN groups' = DOMAIN groups
          /\ \A g \in DOMAIN groups : groups'[g].city = groups[g].city
      BY <2>1, <3>1, StepKeepsIndexes
    <3> QED
      BY <2>1, <3>2, ExactStill DEF Exact
  <2>3. CASE ~CitiesOff
    BY <2>1, <2>3, Promises DEF Exact
  <2> QED
    BY <2>2, <2>3
<1>2. CASE Rests
  <2>1. UNCHANGED <<failed, requests, groups, group_index, case_index>>
        /\ ctx'.config = ctx.config
    BY <1>2 DEF Rests, dataVars, clientVars
  <2>2. \A m \in {"RemoveGroups", "AddGroups"} :
          \A x : Asks(queue', m, x) <=> Asks(queue, m, x)
    BY <1>2, RestsAsk DEF Repeatable, Marks
  <2> QED
    BY <2>1, <2>2, ExactStill DEF Exact
<1>3. ASSUME NEW m, m \notin {"RemoveGroups", "AddGroups"}, Works(m),
             \/ UNCHANGED dataVars
             \/ remove_cases(Head(queue).arg)
             \/ add_cases(Head(queue).arg)
      PROVE  Exact'
  <2>1. /\ UNCHANGED <<ctx, failed, requests>>
        /\ \A k \in {"RemoveGroups", "AddGroups"} :
             \A x : Asks(queue', k, x) <=> Asks(queue, k, x)
    BY <1>3, WorkedOff
  <2>2. UNCHANGED <<groups, group_index>>
    BY <1>3 DEF remove_cases, add_cases, dataVars
  <2>3. CitiesOff /\ ~failed => DOMAIN case_index' = DOMAIN case_index
    <3>1. DOMAIN case_index' = DOMAIN case_index
            \/ DOMAIN case_index' = DOMAIN case_index \cup {KeyOf(g) : g \in DOMAIN groups}
      BY <1>3 DEF remove_cases, add_cases, dataVars, Overlay
    <3> QED
      BY <3>1 DEF Exact
  <2>4. CASE CitiesOff /\ ~failed
    BY <2>1, <2>2, <2>3, <2>4, ExactStill DEF Exact
  <2>5. CASE ~(CitiesOff /\ ~failed)
    BY <2>1, <2>5, Promises DEF Exact
  <2> QED
    BY <2>4, <2>5
<1>4. CASE Fails
  BY <1>4 DEF Fails, Exact
<1> QED
  BY <1>1, <1>2, <1>3, <1>4, ExactTakes, ExactRemoves, ExactAdds, DataKinds DEF OfSinks
-------------------------------------------------------------------------------
(* While whole configurations are replaced, every group has every case.      *)

(* For the groups it has, and the cases it was given, the runner has objects.*)
Objected ==
    /\ \A k \in DOMAIN case_index : DOMAIN case_index[k] = test_cases
    /\ \A o \in DOMAIN stats : o.case \in test_cases
    /\ \A g \in DOMAIN groups, c \in test_cases :
         \E o \in DOMAIN stats : o.of = g /\ o.case = c

(* What is left of Full when the groups and the indexes are known to agree.  *)
LEMMA FullBy ==
    ASSUME CityFree', Exact', UNCHANGED requests,
           CitiesOff /\ Replacing /\ ~failed' => Objected',
           CitiesOff /\ Replacing /\ ~failed' =>
             (Has(queue', "RemoveCases") \/ Has(queue', "AddCases") => DOMAIN groups' = {}),
           CitiesOff /\ Replacing /\ ~failed' /\ WithCases =>
             /\ DOMAIN groups' # {} => test_cases' # {}
             /\ ctx'.config.groups # {} => ToCases(ctx'.config.vpns) # {}
    PROVE  Full'
<1>1. /\ CitiesOff' <=> CitiesOff
      /\ Replacing' <=> Replacing
      /\ WithCases' <=> WithCases
  BY Promises
<1>2. SUFFICES ASSUME CitiesOff, Replacing, ~failed' PROVE Full'
  BY <1>1 DEF Full
<1>3. /\ \A g \in DOMAIN groups' : groups'[g].city = NoCity
      /\ DOMAIN group_index' = {KeyOf(g) : g \in DOMAIN groups}'
      /\ DOMAIN case_index' = DOMAIN group_index'
  BY <1>1, <1>2 DEF CityFree, Exact
<1>4. /\ \A k \in DOMAIN case_index' : DOMAIN case_index'[k] = test_cases'
      /\ \A o \in DOMAIN stats' : o.case \in test_cases'
      /\ \A g \in DOMAIN groups', c \in test_cases' :
           \E o \in DOMAIN stats' : o.of = g /\ o.case = c
  BY <1>2 DEF Objected
<1>5. Complete'
  BY <1>3, <1>4 DEF Complete
<1> QED
  BY <1>1, <1>2, <1>4, <1>5 DEF Full

(* The data keep their shape.                                                *)
LEMMA FullStill ==
    ASSUME Full, CityFree', Exact', UNCHANGED <<requests, failed, case_index, test_cases>>,
           DOMAIN groups' = DOMAIN groups, DOMAIN stats' = DOMAIN stats,
           ctx'.config = ctx.config,
           \A m \in {"RemoveCases", "AddCases"} : Has(queue', m) => Has(queue, m)
    PROVE  Full'
<1>1. CitiesOff /\ Replacing /\ ~failed => Objected /\ Objected'
  BY DEF Full, Complete, Objected
<1>2. CitiesOff /\ Replacing /\ ~failed =>
        (Has(queue', "RemoveCases") \/ Has(queue', "AddCases") => DOMAIN groups' = {})
  BY DEF Full
<1>3. CitiesOff /\ Replacing /\ ~failed /\ WithCases =>
        /\ DOMAIN groups' # {} => test_cases' # {}
        /\ ctx'.config.groups # {} => ToCases(ctx'.config.vpns) # {}
  BY DEF Full
<1> QED
  BY <1>1, <1>2, <1>3, FullBy

(* Nothing is left of the groups and the cases of the configuration before.  *)
LEMMA NoGroups ==
    ASSUME Typed, DOMAIN groups = {}, DOMAIN case_index = {}
    PROVE  Objected
BY DEF Typed, Objects, DataTypeOK, Objected

LEMMA FullTakes ==
    ASSUME Typed, Exact, Full, CityFree', Exact', Enter \/ Cleaned
    PROVE  Full'
<1>1. PICK context :
        /\ Takes(context)
        /\ context = DefaultContext \/ \E r \in requests : context = r.context
  BY Taking
<1>2. UNCHANGED <<requests, failed>> /\ UNCHANGED <<groups, stats, case_index, test_cases>>
  BY <1>1 DEF Takes, dataVars
<1>3. SUFFICES ASSUME CitiesOff, Replacing, ~failed PROVE Full'
  <2>1. (CitiesOff' <=> CitiesOff) /\ (Replacing' <=> Replacing) /\ (failed' <=> failed)
    BY <1>2, Promises
  <2> QED
    BY <1>3, <2>1 DEF Full
<1>4. Objected'
  BY <1>2, <1>3 DEF Full, Complete, Objected
<1>5. CASE Enter
  <2>1. Takes(DefaultContext)
    BY <1>3, <1>5, EnterIs DEF Replacing
  <2>2. ctx'.config.groups = {} /\ ctx'.config.vpns = ctx.config.vpns
    BY <2>1, TakesDefault
  <2>3. ~Has(queue', "RemoveCases") /\ ~Has(queue', "AddCases")
    BY <2>1, <2>2, TakesAsks
  <2> QED
    BY <1>2, <1>3, <1>4, <2>2, <2>3, FullBy DEF Full
<1>6. CASE Cleaned
  <2>1. request \in requests /\ Takes(request.context) /\ cleaning
    BY <1>6, CleanedIs
  <2>2. ctx.config.groups = {} /\ queue = <<>>
    BY <2>1 DEF Typed, Takes
  <2>3. \A p \in Pairs : ~Held(p)
    BY <1>3, <2>2, EmptyQueue DEF Exact
  <2>4. DOMAIN groups = {}
    BY <2>3 DEF Held, Typed, Objects, DataTypeOK, GroupId
  <2>5. WithCases /\ ctx'.config.groups # {} => ToCases(ctx'.config.vpns) # {}
    <3>1. CASE request.context.config = None
      BY <2>1, <2>2, <3>1, TakesNone
    <3>2. CASE request.context.config # None
      BY <2>1, <3>2, TakesUp
    <3> QED
      BY <3>1, <3>2
  <2> QED
    BY <1>2, <1>3, <1>4, <2>4, <2>5, FullBy
<1> QED
  BY <1>5, <1>6

LEMMA FullRemoves ==
    ASSUME Typed, Full, CityFree', Exact', Works("RemoveGroups"),
           remove_groups(Head(queue).arg)
    PROVE  Full'
<1>1. PICK gone : /\ groups' = Without(groups, gone)
                  /\ stats' = Without(stats, UNION {CasesOf(g) : g \in gone})
  BY DEF remove_groups
<1>2. PICK keys : case_index' = Without(case_index, keys)
  BY DEF remove_groups
<1>3. /\ UNCHANGED <<ctx, failed, requests>> /\ test_cases' = test_cases
      /\ \A m \in {"RemoveCases", "AddCases"} : Has(queue', m) <=> Has(queue, m)
  BY WorkedOff DEF remove_groups
<1>4. DOMAIN groups' = DOMAIN groups \ gone
  BY <1>1 DEF Without
<1>5. DOMAIN case_index' = DOMAIN case_index \ keys
      /\ \A k \in DOMAIN case_index' : case_index'[k] = case_index[k]
  BY <1>2 DEF Without
<1>6. \A o : o \in DOMAIN stats' <=> o \in DOMAIN stats /\ o.of \notin gone
  BY <1>1 DEF Without, CasesOf
<1>7. CitiesOff /\ Replacing /\ ~failed' => Objected'
  <2>1. SUFFICES ASSUME CitiesOff, Replacing, ~failed PROVE Objected'
    BY <1>3
  <2>2. /\ \A k \in DOMAIN case_index : DOMAIN case_index[k] = test_cases
        /\ \A o \in DOMAIN stats : o.case \in test_cases
        /\ \A g \in DOMAIN groups, c \in test_cases :
             \E o \in DOMAIN stats : o.of = g /\ o.case = c
    BY <2>1 DEF Full, Complete
  <2>3. /\ \A k \in DOMAIN case_index' : DOMAIN case_index'[k] = test_cases'
        /\ \A o \in DOMAIN stats' : o.case \in test_cases'
    BY <1>3, <1>5, <1>6, <2>2
  <2>4. ASSUME NEW g \in DOMAIN groups', NEW c \in test_cases'
        PROVE  \E o \in DOMAIN stats' : o.of = g /\ o.case = c
    BY <1>3, <1>4, <1>6, <2>2
  <2> QED
    BY <2>3, <2>4 DEF Objected
<1>8. CitiesOff /\ Replacing /\ ~failed' =>
        (Has(queue', "RemoveCases") \/ Has(queue', "AddCases") => DOMAIN groups' = {})
  BY <1>3, <1>4 DEF Full
<1>9. CitiesOff /\ Replacing /\ ~failed' /\ WithCases =>
        /\ DOMAIN groups' # {} => test_cases' # {}
        /\ ctx'.config.groups # {} => ToCases(ctx'.config.vpns) # {}
  BY <1>3, <1>4 DEF Full
<1> QED
  BY <1>3, <1>7, <1>8, <1>9, FullBy

(* The cases of the groups that are added.                                   *)
LEMMA AddedCases ==
    ASSUME Objects, NEW pairs \in SUBSET Pairs, IsFiniteSet(pairs), add_groups(pairs), Objected
    PROVE  Objected'
<1>1. PICK new : new = {[pair |-> p, gen |-> NextGen] : p \in pairs}
  OBVIOUS
<1>2. PICK keys : keys = {Plain(p) : p \in pairs}
  OBVIOUS
<1>3. DOMAIN groups' = DOMAIN groups \cup new /\ test_cases' = test_cases
  <2>1. {([q \in pairs |-> [pair |-> q, gen |-> NextGen]])[p] : p \in pairs} = new
    BY <1>1
  <2> QED
    BY <2>1 DEF add_groups, Overlay
<1> DEFINE made == [p \in pairs |-> [pair |-> p, gen |-> NextGen]]
           objs == {NewCase(made[p], c) : p \in pairs, c \in test_cases}
<1>4. \A o : o \in objs <=> \E g \in new, c \in test_cases : o = NewCase(g, c)
  <2>1. /\ \A p \in pairs : made[p] \in new
        /\ \A g \in new : \E p \in pairs : g = made[p]
    BY <1>1
  <2> HIDE DEF made
  <2> QED
    BY <2>1
<1>5. DOMAIN stats' = DOMAIN stats \cup objs
  <2>1. stats' = Overlay(stats, [o \in objs |-> NewStats(o.case)])
    BY DEF add_groups
  <2> HIDE DEF objs
  <2> QED
    BY <2>1 DEF Overlay
<1> HIDE DEF objs
<1>6. \A g \in new, c \in test_cases :
        NewCase(g, c) \in objs /\ NewCase(g, c).of = g /\ NewCase(g, c).case = c
  BY <1>4 DEF NewCase
<1>7. \A o \in objs : o.case \in test_cases
  BY <1>4, <1>6
<1>8. /\ DOMAIN case_index' = DOMAIN case_index \cup keys
      /\ \A k \in keys : DOMAIN case_index'[k] = test_cases
      /\ \A k \in DOMAIN case_index \ keys : case_index'[k] = case_index[k]
  BY <1>2 DEF add_groups, Overlay
<1>9. \A k \in DOMAIN case_index' : DOMAIN case_index'[k] = test_cases'
  BY <1>3, <1>8 DEF Objected
<1>10. \A o \in DOMAIN stats' : o.case \in test_cases'
  BY <1>3, <1>5, <1>7 DEF Objected
<1>11. ASSUME NEW g \in DOMAIN groups', NEW c \in test_cases'
       PROVE  \E o \in DOMAIN stats' : o.of = g /\ o.case = c
  <2>1. CASE g \in new
    BY <1>3, <1>5, <1>6, <2>1
  <2>2. CASE g \in DOMAIN groups
    BY <1>3, <1>5, <2>2 DEF Objected
  <2> QED
    BY <1>3, <2>1, <2>2
<1> QED
  BY <1>9, <1>10, <1>11 DEF Objected

LEMMA FullAdds ==
    ASSUME Typed, Given, Exact, Full, CityFree', Exact', Works("AddGroups"),
           add_groups(Head(queue).arg)
    PROVE  Full'
<1>1. PICK pairs : pairs = Head(queue).arg
  OBVIOUS
<1>2. /\ UNCHANGED <<ctx, failed, requests>>
      /\ \A x : Asks(queue, "AddGroups", x) <=> x \in pairs
      /\ pairs \subseteq Pairs /\ IsFiniteSet(pairs)
  BY <1>1, WorkedOff DEF Sensible, Works
<1>3. /\ \A m \in {"RemoveCases", "AddCases"} : ~Has(queue, m) /\ \A x : ~Asks(queue, m, x)
      /\ \A m \in {"RemoveCases", "AddCases"} : ~Has(queue', m)
  <2>1. /\ Rank("RemoveCases") < Rank("AddGroups") /\ "RemoveCases" \in Marks
        /\ Rank("AddCases") < Rank("AddGroups") /\ "AddCases" \in Marks
    BY DEF Rank, Marks
  <2> QED
    BY <2>1, WorkedOff
<1>4. SUFFICES ASSUME CitiesOff, Replacing, ~failed PROVE Full'
  <2>1. (CitiesOff' <=> CitiesOff) /\ (Replacing' <=> Replacing) /\ (failed' <=> failed)
    BY <1>2, Promises
  <2> QED
    BY <1>4, <2>1 DEF Full
<1>5. Objected
  BY <1>4 DEF Full, Complete, Objected
<1>6. Objected' /\ test_cases' = test_cases
  <2>1. Objects /\ add_groups(pairs)
    BY <1>1 DEF Typed
  <2>2. pairs \in SUBSET Pairs /\ IsFiniteSet(pairs)
    BY <1>2
  <2>3. Objected'
    BY <2>1, <2>2, <1>5, AddedCases
  <2> QED
    BY <2>1, <2>3 DEF add_groups
<1>7. WithCases /\ ctx.config.groups # {} => test_cases # {}
  <2>1. SUFFICES ASSUME WithCases, ctx.config.groups # {} PROVE test_cases # {}
    OBVIOUS
  <2>2. PICK c : c \in ToCases(ctx.config.vpns)
    BY <1>4, <2>1 DEF Full
  <2>3. c \in Cases
    BY <2>2 DEF Typed, IsContext, IsVpns, ToCases
  <2> QED
    BY <1>3, <1>4, <2>2, <2>3 DEF Given
<1>8. WithCases /\ DOMAIN groups' # {} => test_cases # {}
  <2>1. CASE pairs = {}
    <3>1. add_groups(pairs)
      BY <1>1
    <3>2. DOMAIN groups' = DOMAIN groups
      BY <2>1, <3>1 DEF add_groups, Overlay
    <3> QED
      BY <1>4, <3>2 DEF Full
  <2>2. CASE pairs # {}
    <3>1. ctx.config.groups # {}
      BY <1>2, <1>4, <2>2 DEF Exact
    <3> QED
      BY <1>7, <3>1
  <2> QED
    BY <2>1, <2>2
<1>9. WithCases /\ ctx.config.groups # {} => ToCases(ctx.config.vpns) # {}
  BY <1>4 DEF Full
<1> QED
  BY <1>2, <1>3, <1>6, <1>8, <1>9, FullBy

LEMMA FullKept ==
    ASSUME Typed, CityFree, Given, Exact, Full, Typed', CityFree', Exact', Next
    PROVE  Full'
<1>1. CASE RunnerStep
  <2>1. Step /\ UNCHANGED <<requests, failed, ctx, queue>> /\ DataTypeOK
    BY <1>1 DEF RunnerStep, updateVars, clientVars, Typed, RunnerInv, RunnerTypeOK
  <2>2. CASE CitiesOff
    <3>1. pc # "city"
      BY <2>2 DEF CityFree
    <3>2. /\ UNCHANGED <<case_index, test_cases>>
          /\ DOMAIN groups' = DOMAIN groups /\ DOMAIN stats' = DOMAIN stats
      BY <2>1, <3>1, StepKeepsIndexes
    <3> QED
      BY <2>1, <3>2, FullStill
  <2>3. CASE ~CitiesOff
    BY <2>1, <2>3, Promises DEF Full
  <2> QED
    BY <2>2, <2>3
<1>2. CASE Rests
  <2>1. UNCHANGED <<failed, requests, groups, stats, case_index, test_cases>>
        /\ ctx'.config = ctx.config
    BY <1>2 DEF Rests, dataVars, clientVars
  <2>2. \A m \in {"RemoveCases", "AddCases"} : Has(queue', m) => Has(queue, m)
    BY <1>2, RestsAsk
  <2> QED
    BY <2>1, <2>2, FullStill
<1>3. ASSUME NEW m, m \notin {"RemoveCases", "AddCases"}, Works(m), UNCHANGED dataVars
      PROVE  Full'
  <2>1. /\ UNCHANGED <<ctx, failed, requests>>
        /\ \A k \in {"RemoveCases", "AddCases"} : Has(queue', k) => Has(queue, k)
    BY <1>3, WorkedOff
  <2> QED
    BY <1>3, <2>1, FullStill DEF dataVars
<1>4. ASSUME NEW m, m \in {"RemoveCases", "AddCases"}, Works(m), groups' = groups
      PROVE  Full'
  <2>1. UNCHANGED <<ctx, failed, requests>> /\ Has(queue, m)
    <3>1. Has(queue, Head(queue).mark)
      BY <1>4, Executed DEF Works, Edits, Beside, Typed
    <3> QED
      BY <1>4, <3>1, WorkedOff DEF Works
  <2>2. SUFFICES ASSUME CitiesOff, Replacing, ~failed PROVE Full'
    <3>1. (CitiesOff' <=> CitiesOff) /\ (Replacing' <=> Replacing) /\ (failed' <=> failed)
      BY <2>1, Promises
    <3> QED
      BY <2>2, <3>1 DEF Full
  <2>3. DOMAIN groups' = {}
    BY <1>4, <2>1, <2>2 DEF Full
  <2>4. DOMAIN case_index' = {}
    <3>1. (CitiesOff' <=> CitiesOff) /\ (failed' <=> failed)
      BY <2>1, Promises
    <3>2. DOMAIN case_index' = {KeyOf(g) : g \in DOMAIN groups}'
      BY <2>2, <3>1 DEF Exact
    <3> QED
      BY <2>3, <3>2
  <2>5. Objected'
    BY <2>3, <2>4 DEF Typed, Objects, DataTypeOK, Objected
  <2>6. WithCases /\ ctx'.config.groups # {} => ToCases(ctx'.config.vpns) # {}
    BY <2>1, <2>2 DEF Full
  <2> QED
    BY <2>1, <2>3, <2>5, <2>6, FullBy
<1>5. CASE Works("RemoveCases") /\ remove_cases(Head(queue).arg)
  BY <1>4, <1>5 DEF remove_cases
<1>6. CASE Works("AddCases") /\ add_cases(Head(queue).arg)
  BY <1>4, <1>6 DEF add_cases
<1>7. CASE Fails
  BY <1>7 DEF Fails, Full
<1>8. CASE \E m \in OfSinks : Works(m) /\ UNCHANGED dataVars
  BY <1>3, <1>8 DEF OfSinks
<1>9. CASE /\ Works("AddVPNs") \/ Works("UpdateVPNs") \/ Works("RemoveVPNs")
           /\ UNCHANGED dataVars
  BY <1>3, <1>9
<1> QED
  BY <1>1, <1>2, <1>5, <1>6, <1>7, <1>8, <1>9, FullTakes, FullRemoves, FullAdds, DataKinds

-------------------------------------------------------------------------------
(* The task finds what it looks up.                                          *)

(* A group without cases is what min() of no values is about.                *)
LEMMA OnlySelectionRaises ==
    ASSUME Step, outcome # "nocases", outcome' = "nocases"
    PROVE  SelectRaises
<1> USE DEF End, Goto, NextRepeat
<1>1. CASE Still
  BY <1>1 DEF Still, FirstStep, FinishOnce, SelectCrash, NoOption, SelectNext, PickCityRaises,
    ContainerReady, ProviderGone, LoggedIn, Tested, TestFails, EnvRaises, Sent,
    CaseLookupRaises, Delayed, FailGroupLookup, Cancelled, CancelLostInLogin,
    CancelLostInCities
<1>2. CASE \/ PickCity \/ PickCityLookup \/ AddRun \/ FailRun \/ FailGroup
           \/ FailGroupDividesByZero \/ FailCase \/ FailCaseLookup \/ ClearFails
  BY <1>2 DEF PickCity, PickCityLookup, AddRun, FailRun, FailGroup, FailGroupDividesByZero,
    FailCase, FailCaseLookup, ClearFails
<1> QED
  BY <1>1, <1>2, StillOrNot

LEMMA HandBy ==
    ASSUME UNCHANGED requests,
           OneTask /\ Replacing /\ CitiesOff /\ ~failed' =>
             /\ AtHand'
             /\ pc' # "off" => Provided'
             /\ WithCases => outcome' # "nocases"
    PROVE  Hand'
BY Promises DEF Hand

LEMMA HandRuns ==
    ASSUME Typed, CityFree, Full, Hand, RunnerStep
    PROVE  Hand'
<1>1. /\ Step /\ UNCHANGED <<requests, failed>>
      /\ RunnerInv /\ pc # "off" /\ UNCHANGED <<confVars, test_cases>>
  BY StepScope DEF RunnerStep, updateVars, clientVars, Typed
<1>2. SUFFICES ASSUME OneTask, Replacing, CitiesOff, ~failed
               PROVE  /\ AtHand' /\ Provided'
                      /\ WithCases => outcome' # "nocases"
  BY <1>1, HandBy
<1>3. Complete /\ AtHand /\ Provided /\ ~common_cities
  BY <1>1, <1>2 DEF Full, Hand, CityFree
<1>4. AtHand'
  BY <1>1, <1>3, StepAtHand
<1>5. Provided'
  BY <1>1, <1>3 DEF Provided, confVars
<1>6. ASSUME WithCases PROVE outcome' # "nocases"
  <2>1. \A g \in DOMAIN groups : CasesOf(g) # {}
    BY <1>2, <1>6 DEF Full, CasesOf
  <2>2. ~SelectRaises /\ outcome # "nocases"
    BY <1>2, <1>6, <2>1 DEF SelectRaises, Hand
  <2> QED
    BY <1>1, <2>2, OnlySelectionRaises
<1> QED
  BY <1>4, <1>5, <1>6

(* The task starts when all other actions are executed.                      *)
LEMMA HandStarts ==
    ASSUME Typed, Given, Start
    PROVE  Hand'
<1>1. /\ queue # <<>> /\ Head(queue).mark = "Start" /\ Queue(queue)
      /\ UNCHANGED <<dataVars, providers, requests, failed>>
      /\ pc' = "new" /\ group' = None /\ outcome' = "none"
  BY DEF Start, Doing, Executing, Begin, Typed, confVars, clientVars
<1>2. AtHand'
  BY <1>1 DEF AtHand, Testing
<1>3. ASSUME ~failed PROVE Provided'
  <2>1. \A m \in {"RemoveCases", "AddCases", "RemoveVPNs", "UpdateVPNs", "AddVPNs"} :
          m \in Marks /\ Rank(m) < Rank("Start")
    BY DEF Rank, Marks
  <2>2. \A m \in {"RemoveCases", "AddCases", "RemoveVPNs", "UpdateVPNs", "AddVPNs"} :
          \A x : ~Asks(queue, m, x)
    BY <1>1, <2>1, Order
  <2>3. /\ \A c \in Cases : c \in test_cases => c \in ToCases(ctx.config.vpns)
        /\ \A v \in Providers : v \in DOMAIN ctx.config.vpns => v \in providers
    BY <1>3, <2>2 DEF Given
  <2>4. IsVpns(ctx.config.vpns) /\ test_cases \subseteq Cases
    BY DEF Typed, IsContext, Objects, DataTypeOK
  <2>5. \A c \in test_cases : ProviderOf[c] \in providers
    BY <2>3, <2>4 DEF IsVpns, ToCases
  <2> QED
    BY <1>1, <2>5 DEF Provided, dataVars
<1> QED
  BY <1>1, <1>2, <1>3, HandBy

LEMMA HandKept ==
    ASSUME Typed, CityFree, Given, Full, Mine, Hand, Next
    PROVE  Hand'
<1>1. ASSUME UNCHANGED <<requests, failed, dataVars, providers, pc, group, case, outcome>>
      PROVE  Hand'
  <2>1. (AtHand' <=> AtHand) /\ (Provided' <=> Provided)
    BY <1>1 DEF AtHand, Provided, dataVars
  <2> QED
    BY <1>1, <2>1, HandBy DEF Hand
<1>2. CASE Enter \/ Cleaned
  <2>1. PICK context : Takes(context)
    BY <1>2, Taking
  <2> QED
    BY <1>1, <2>1 DEF Takes, taskVars
<1>3. CASE Rests
  <2>1. UNCHANGED <<requests, failed, dataVars, providers>>
    BY <1>3 DEF Rests, clientVars
  <2> QED
    BY <1>1, <1>3, <2>1, HandStarts DEF Rests
<1>4. CASE Edits
  <2>1. UNCHANGED <<pc, group, case, outcome, requests>> /\ failed' = failed
    BY <1>4, TaskUntouched DEF Edits
  <2>2. SUFFICES ASSUME OneTask, Replacing, CitiesOff, ~failed
                 PROVE  /\ AtHand' /\ pc' = "off"
                        /\ WithCases => outcome' # "nocases"
    BY <2>1, HandBy
  <2>3. pc = "off" /\ group = None
    BY <1>4, <2>2, EditsAlone DEF Typed
  <2>4. AtHand'
    BY <2>1, <2>2, <2>3 DEF AtHand, Testing, Hand
  <2> QED
    BY <2>1, <2>2, <2>3, <2>4 DEF Hand
<1>5. CASE Fails
  BY <1>5 DEF Fails, Hand
<1> QED
  BY <1>2, <1>3, <1>4, <1>5, HandRuns, DataKinds DEF Works

-------------------------------------------------------------------------------
(* A division by zero takes both kinds of errors.                            *)
Unmarked == \A o \in DOMAIN stats : stats[o].fail >= 0

LEMMA FailuresCounted ==
    ASSUME DataTypeOK, NEW objs, CountFailures(objs), Unmarked
    PROVE  Unmarked'
<1>1. DOMAIN stats' = DOMAIN stats
      /\ \A o \in DOMAIN stats : stats'[o] = stats[o] \/ stats'[o] = OneMoreFailure(stats[o])
  BY DEF CountFailures
<1>2. \A o \in DOMAIN stats : stats[o].fail \in Int
  BY DEF DataTypeOK
<1>3. \A o \in DOMAIN stats : stats[o].fail >= 0 => OneMoreFailure(stats[o]).fail >= 0
  BY <1>2 DEF OneMoreFailure
<1> QED
  BY <1>1, <1>3 DEF Unmarked

LEMMA ZeroRuns ==
    ASSUME RunnerInv, Zero, Step
    PROVE  Zero'
<1>0. /\ faults' = faults /\ DataTypeOK
      /\ stats \in [DOMAIN stats -> [run: Nat, fail: Int]]
  BY StepScope DEF RunnerInv, RunnerTypeOK, DataTypeOK, confVars
<1> USE DEF End, Goto, NextRepeat
<1>1. CASE Still
  <2>1. UNCHANGED dataVars
    BY <1>1, StillData
  <2>2. /\ pc' = "fail_case" => pc = "fail_case" \/ "case" \in faults
        /\ pc' = "fail_group" => pc = "fail_group" \/ "group" \in faults
        /\ outcome' = "zerodiv" => outcome = "zerodiv"
    BY <1>1 DEF Still, FirstStep, FinishOnce, SelectCrash, NoOption, SelectNext,
      PickCityRaises, ContainerReady, ProviderGone, LoggedIn, Tested, TestFails, EnvRaises,
      Sent, CaseLookupRaises, Delayed, FailGroupLookup, Cancelled, CancelLostInLogin,
      CancelLostInCities
  <2> QED
    BY <1>0, <2>1, <2>2 DEF Zero, dataVars
<1>2. CASE PickCity \/ PickCityLookup
  BY <1>0, <1>2 DEF PickCity, PickCityLookup, Zero
<1>3. CASE AddRun \/ FailRun
  <2>1. /\ DOMAIN stats' = DOMAIN stats
        /\ \A o \in DOMAIN stats : stats[o].fail >= 0 => stats'[o].fail >= 0
    BY <1>0, <1>3 DEF AddRun, FailRun, OneMoreFailure
  <2> QED
    BY <1>0, <1>3, <2>1 DEF AddRun, FailRun, Zero
<1>4. CASE FailGroup
  <2>1. PICK objs : CountFailures(objs)
    BY <1>4 DEF FailGroup
  <2>2. Unmarked => Unmarked'
    BY <1>0, <2>1, FailuresCounted
  <2> QED
    BY <1>0, <1>4, <2>2 DEF FailGroup, Zero, Unmarked
<1>5. CASE FailGroupDividesByZero
  <2>1. PICK objs : CountFailures(objs)
    BY <1>5 DEF FailGroupDividesByZero
  <2>2. Unmarked => Unmarked'
    BY <1>0, <2>1, FailuresCounted
  <2>3. ~Unmarked
    BY <1>5 DEF FailGroupDividesByZero, Unmarked, CasesOf
  <2>4. {"case", "group"} \subseteq faults
    BY <1>5, <2>3 DEF Zero, FailGroupDividesByZero, Unmarked
  <2> QED
    BY <1>0, <1>5, <2>2, <2>4 DEF FailGroupDividesByZero, Zero, Unmarked
<1>6. CASE FailCase \/ FailCaseLookup
  <2>1. "case" \in faults
    BY <1>6 DEF FailCase, FailCaseLookup, Zero
  <2> QED
    BY <1>0, <1>6, <2>1 DEF FailCase, FailCaseLookup, Zero
<1>7. CASE ClearFails
  <2>1. \A o \in DOMAIN stats' : stats'[o].fail = 0
    BY <1>0, <1>7 DEF ClearFails
  <2> QED
    BY <1>0, <1>7, <2>1 DEF ClearFails, Zero
<1> QED
  BY <1>1, <1>2, <1>3, <1>4, <1>5, <1>6, <1>7, StillOrNot

LEMMA NewStatsOnly ==
    ASSUME NEW x, add_groups(x) \/ add_cases(x)
    PROVE  \E new : stats' = Overlay(stats, [o \in new |-> NewStats(o.case)])
<1>1. CASE add_groups(x)
  <2> DEFINE new == {NewCase(([q \in x |-> [pair |-> q, gen |-> NextGen]])[p], c) :
                       p \in x, c \in test_cases}
  <2>1. stats' = Overlay(stats, [o \in new |-> NewStats(o.case)])
    BY <1>1 DEF add_groups
  <2> HIDE DEF new
  <2> QED
    BY <2>1
<1>2. CASE add_cases(x)
  <2> DEFINE new == {NewCase(g, c) : g \in DOMAIN groups, c \in x}
  <2>1. stats' = Overlay(stats, [o \in new |-> NewStats(o.case)])
    BY <1>2 DEF add_cases
  <2> HIDE DEF new
  <2> QED
    BY <2>1
<1> QED
  BY <1>1, <1>2

LEMMA ZeroEdits ==
    ASSUME Typed, Zero, UNCHANGED <<pc, outcome, faults>>,
           "case" \notin faults => failing_cases' = {},
           \/ UNCHANGED stats
           \/ \E gone : stats' = Without(stats, gone)
           \/ \E new : stats' = Overlay(stats, [o \in new |-> NewStats(o.case)])
    PROVE  Zero'
<1>1. SUFFICES ASSUME "case" \notin faults PROVE Unmarked'
  BY DEF Zero, Unmarked
<1>2. Unmarked /\ failing_cases = {}
  BY <1>1 DEF Zero, Unmarked
<1>3. CASE UNCHANGED stats
  BY <1>2, <1>3 DEF Unmarked
<1>4. CASE \E gone : stats' = Without(stats, gone)
  BY <1>2, <1>4 DEF Unmarked, Without
<1>5. CASE \E new : stats' = Overlay(stats, [o \in new |-> NewStats(o.case)])
  <2>1. PICK new : stats' = Overlay(stats, [o \in new |-> NewStats(o.case)])
    BY <1>5
  <2>2. \A c : NewStats(c).fail >= 0
    BY <1>2 DEF NewStats
  <2>3. /\ DOMAIN stats' = DOMAIN stats \cup new
        /\ \A o \in DOMAIN stats' : \/ stats'[o] = stats[o] /\ o \in DOMAIN stats
                                    \/ stats'[o] = NewStats(o.case)
    BY <2>1 DEF Overlay
  <2> QED
    BY <1>2, <2>2, <2>3 DEF Unmarked
<1> QED
  BY <1>3, <1>4, <1>5

LEMMA ZeroKept ==
    ASSUME Typed, Zero, Next
    PROVE  Zero'
<1>1. CASE RunnerStep
  BY <1>1, ZeroRuns DEF RunnerStep, Typed
<1>2. CASE Enter \/ Cleaned
  <2>1. PICK context : Takes(context)
    BY <1>2, Taking
  <2> QED
    BY <2>1, ZeroEdits DEF Takes, taskVars, dataVars, Zero
<1>3. CASE Rests
  <2>1. UNCHANGED <<dataVars, faults>>
    BY <1>3 DEF Rests
  <2>2. UNCHANGED <<pc, outcome>> \/ (pc' = "new" /\ outcome' = "none")
    BY <1>3 DEF Rests, Start, Begin
  <2> QED
    BY <2>1, <2>2 DEF Zero, dataVars
<1>4. CASE Edits \/ Fails
  <2>1. UNCHANGED <<pc, outcome, faults>>
    BY <1>4, TaskUntouched
  <2>2. CASE UNCHANGED <<stats, failing_cases>>
    BY <2>1, <2>2, ZeroEdits DEF Zero
  <2>3. CASE remove_groups(Head(queue).arg)
    <3>1. \E gone : stats' = Without(stats, gone)
      BY <2>3 DEF remove_groups
    <3> QED
      BY <2>1, <2>3, <3>1, ZeroEdits DEF remove_groups, Zero
  <2>4. CASE add_groups(Head(queue).arg)
    <3>1. \E new : stats' = Overlay(stats, [o \in new |-> NewStats(o.case)])
      BY <2>4, NewStatsOnly
    <3> QED
      BY <2>1, <2>4, <3>1, ZeroEdits DEF add_groups, Zero
  <2>5. CASE remove_cases(Head(queue).arg)
    BY <2>1, <2>5, ZeroEdits DEF remove_cases, Zero
  <2>6. CASE add_cases(Head(queue).arg)
    <3>1. \E new : stats' = Overlay(stats, [o \in new |-> NewStats(o.case)])
      BY <2>6, NewStatsOnly
    <3> QED
      BY <2>1, <2>6, <3>1, ZeroEdits DEF add_cases, Zero
  <2>7. UNCHANGED dataVars => UNCHANGED <<stats, failing_cases>>
    BY DEF dataVars
  <2>8. CASE Enter \/ Cleaned \/ RunnerStep \/ Rests
    BY <1>1, <1>2, <1>3, <2>8
  <2> QED
    BY <2>2, <2>3, <2>4, <2>5, <2>6, <2>7, <2>8, DataKinds
<1> QED
  BY <1>1, <1>2, <1>3, <1>4, DataKinds DEF Works

-------------------------------------------------------------------------------
(* The invariant.                                                            *)

LEMMA InitInv == Init => ServiceInv
<1> SUFFICES ASSUME Init PROVE ServiceInv
  OBVIOUS
<1>1. DOMAIN Empty = {}
  BY DEF Empty
<1>2. /\ DOMAIN groups = {} /\ DOMAIN stats = {} /\ DOMAIN group_index = {}
      /\ DOMAIN case_index = {} /\ test_cases = {} /\ failing_cases = {}
  BY <1>1 DEF Init
<1>3. /\ groups = [x \in DOMAIN groups |-> groups[x]] /\ stats = [x \in DOMAIN stats |-> stats[x]]
      /\ group_index = [x \in DOMAIN group_index |-> group_index[x]]
  BY DEF Init, Empty
<1>4. queue = <<>> /\ Queue(queue) /\ (\A m : ~Has(queue, m)) /\ (\A m, x : ~Asks(queue, m, x))
  BY EmptyQueue DEF Init
<1>5. ToCases(Empty) = {}
  BY <1>1 DEF ToCases
<1>6. IsContext(ctx)
  <2>1. IsVpns(Empty)
    BY <1>1, <1>5, FS_EmptySet DEF IsVpns
  <2>2. ctx = [state |-> "idle", config |-> ctx.config]
    BY DEF Init
  <2>3. /\ ctx.config.mode = "continuous" /\ ctx.config.repeats = 1
        /\ ctx.config.common = FALSE /\ ctx.config.groups = {}
        /\ ctx.config.vpns = Empty /\ DOMAIN ctx.config.sinks = {}
    BY <1>1 DEF Init
  <2> QED
    <3>1. ctx.config.repeats \in Nat \ {0}
      BY <2>3
    <3>2. ctx.config.mode \in Modes
      BY <2>3 DEF Modes
    <3>3. ctx.state = "idle"
      BY DEF Init
    <3>4. ctx = [state |-> ctx.state, config |-> ctx.config] /\ ctx.state \in States
      BY <2>2, <3>3 DEF States
    <3> QED
      BY <2>1, <2>3, <3>1, <3>2, <3>4, FS_EmptySet DEF IsContext
<1>7. DataTypeOK
  BY <1>2, <1>3 DEF DataTypeOK
<1>8. PICK k \in Clients : requests = k.requests /\ faults = k.faults
  BY DEF Init
<1>9. faults \subseteq FaultKinds /\ \A r \in requests : IsRequest(r)
  BY <1>8, ServiceAssumption
<1>10. TaskTypeOK /\ Control
  <2>1. sent \in [Pairs \X Cases -> Nat]
    BY DEF Init
  <2>2. providers = {} /\ pc = "off" /\ mode = "continuous" /\ repeats = 1 /\ runs = 0
        /\ group = None /\ case = None /\ left = 0 /\ no_options = FALSE
        /\ cancelling = FALSE /\ outcome = "none" /\ common_cities = FALSE
    BY DEF Init
  <2>3. TaskTypeOK
    <3>1. 1 \in Nat \ {0} /\ 0 \in Nat
      OBVIOUS
    <3>2. pc \in Points /\ outcome \in Outcomes
      BY <2>2 DEF Points, Outcomes
    <3>3. mode \in {"once", "continuous"} /\ repeats \in Nat \ {0}
      BY <2>2, <3>1
    <3>4. runs \in Nat /\ left \in Nat /\ group \in Key \cup {None} /\ case \in Cases \cup {None}
      BY <2>2
    <3>5. common_cities \in BOOLEAN /\ no_options \in BOOLEAN /\ cancelling \in BOOLEAN
      BY <2>2
    <3> QED
      BY <1>9, <2>1, <2>2, <3>2, <3>3, <3>4, <3>5 DEF TaskTypeOK
  <2>4. Control
    BY <2>2 DEF Control, Testing
  <2> QED
    BY <2>3, <2>4
<1>11. Objects
  BY <1>2, <1>7, FS_EmptySet DEF Objects, Copies
<1>12. Typed
  <2>1. /\ pc = "off" /\ group = None /\ upc = "idle" /\ cleaning = FALSE /\ cpu = "loop"
        /\ callback = "none" /\ posted = 0 /\ failed = FALSE
    BY DEF Init
  <2>2. RunnerInv
    BY <1>7, <1>10 DEF RunnerInv, RunnerTypeOK
  <2>3. posted \in 0..MaxRequests
    BY <2>1, ServiceAssumption
  <2> QED
    BY <1>4, <1>6, <1>9, <1>11, <2>1, <2>2, <2>3 DEF Typed, UpdatePoints
<1>13. CityFree
  BY <1>2 DEF Init, CityFree
<1>14. Given
  BY <1>1, <1>2, <1>4, <1>5 DEF Init, Given
<1>15. Exact
  BY <1>2, <1>4 DEF Init, Exact, Held
<1>16. Full
  BY <1>2, <1>4 DEF Init, Full, Complete
<1>17. Told
  BY <1>4 DEF Init, Told
<1>18. Mine
  BY DEF Init, Mine
<1>19. Hand
  BY DEF Init, Hand, AtHand, Testing
<1>20. Zero
  BY <1>2 DEF Init, Zero
<1> QED
  BY <1>12, <1>13, <1>14, <1>15, <1>16, <1>17, <1>18, <1>19, <1>20 DEF ServiceInv

LEMMA NextInv == ServiceInv /\ Next => ServiceInv'
<1> SUFFICES ASSUME ServiceInv, Next PROVE ServiceInv'
  OBVIOUS
<1>1. Typed /\ CityFree /\ Given /\ Exact /\ Full /\ Told /\ Mine /\ Hand /\ Zero
  BY DEF ServiceInv
<1>2. Typed' /\ CityFree' /\ Exact'
  BY <1>1, TypedKept, CityFreeKept, ExactKept
<1>3. Full'
  BY <1>1, <1>2, FullKept
<1>4. Given' /\ Told' /\ Mine' /\ Hand' /\ Zero'
  BY <1>1, GivenKept, ToldKept, MineKept, HandKept, ZeroKept
<1> QED
  BY <1>2, <1>3, <1>4 DEF ServiceInv

LEMMA StutterInv == ServiceInv /\ UNCHANGED vars => ServiceInv'
<1> SUFFICES ASSUME ServiceInv, UNCHANGED vars PROVE ServiceInv'
  OBVIOUS
<1> USE DEF vars, runnerVars, dataVars, confVars, taskVars, updateVars, clientVars
<1>1. /\ Asked' = Asked /\ (OneTask' <=> OneTask) /\ (Replacing' <=> Replacing)
      /\ (CitiesOff' <=> CitiesOff) /\ (WithCases' <=> WithCases)
  BY Promises
<1>2. Objects' /\ Complete' = Complete
  BY ObjectsKept DEF ServiceInv, Typed, Complete, KeyOf
<1>3. TaskTypeOK' /\ Control'
  BY TaskKept DEF TaskAlike, ServiceInv, Typed
<1>4. Typed'
  BY <1>2, <1>3 DEF ServiceInv, Typed, RunnerInv, RunnerTypeOK, Objects
<1>5. CityFree' /\ Given'
  BY <1>1 DEF ServiceInv, CityFree, Given
<1>6. Exact'
  BY <1>1, ExactStill DEF ServiceInv, Exact
<1>7. Full'
  BY <1>5, <1>6, FullStill DEF ServiceInv
<1>8. Told' /\ Mine'
  BY <1>1 DEF ServiceInv, Told, Mine
<1>9. Hand'
  BY <1>1 DEF ServiceInv, Hand, AtHand, Provided
<1>10. Zero'
  BY DEF ServiceInv, Zero
<1> QED
  BY <1>4, <1>5, <1>6, <1>7, <1>8, <1>9, <1>10 DEF ServiceInv

LEMMA Always == Spec => []ServiceInv
BY InitInv, NextInv, StutterInv, PTL DEF Spec

-------------------------------------------------------------------------------
(* Whatever the clients post and whenever, every variable keeps its type:    *)
(* also after an update that raised, and with a task running beside it.      *)
THEOREM TypeAlways == Spec => []TypeOK
<1>1. ServiceInv => TypeOK
  BY DEF ServiceInv, Typed, RunnerInv, TypeOK, ServiceTypeOK, IsContext, IsVpns, States
<1> QED
  BY <1>1, Always, PTL

(* Nothing is left to execute between two updates.                           *)
LEMMA NothingLeft ==
    ASSUME Typed, upc = "idle"
    PROVE  queue = <<>> /\ (\A m : ~Has(queue, m)) /\ (\A m, x : ~Asks(queue, m, x))
BY EmptyQueue DEF Typed

(* "vpnspeed context state": as long as the clients keep to one mode and to  *)
(* configurations with groups, the state of the context says whether the     *)
(* task of the runner is alive; after an update that failed it still does    *)
(* not hide a task.                                                          *)
THEOREM StateToldAlways == Spec => []StateTold
<1>1. ServiceInv => StateTold
  <2> SUFFICES ASSUME ServiceInv, OneTask, Settled
               PROVE  /\ pc # "off" => ctx.state = "run"
                      /\ ~failed /\ ctx.state = "run" => pc # "off"
    BY DEF StateTold, StateTrue
  <2>1. /\ Typed /\ Told /\ queue = <<>> /\ callback = "none"
        /\ \A m : ~Has(queue, m)
    BY NothingLeft DEF ServiceInv, Settled
  <2>2. ~Stops(queue)
    BY <2>1 DEF Stops
  <2> QED
    BY <2>1, <2>2 DEF Told
<1> QED
  BY <1>1, Always, PTL

(* "Clean current configuration and set new context" (service.py:88): what   *)
(* an update leaves in the runner is what the configuration says, the groups *)
(* without common cities, the cases and the providers if it is replaced, and *)
(* a task at work has the mode and the repeats of the configuration.         *)
THEOREM AppliedAlways == Spec => []AppliedAsGiven
<1>1. ServiceInv => AppliedAsGiven
  <2> SUFFICES ASSUME ServiceInv PROVE AppliedAsGiven
    OBVIOUS
  <2>1. Typed /\ Given /\ Exact /\ Full /\ Told /\ Mine
    BY DEF ServiceInv
  <2>2. ASSUME CitiesOff, upc = "idle", ~failed
        PROVE  /\ {g.pair : g \in DOMAIN groups} = ctx.config.groups
               /\ \A g, h \in DOMAIN groups : g.pair = h.pair => g = h
    <3>1. \A p \in Pairs : p \in ctx.config.groups <=> Held(p)
      BY <2>1, <2>2, NothingLeft DEF Exact
    <3>2. ctx.config.groups \subseteq Pairs /\ \A g \in DOMAIN groups : g.pair \in Pairs
      BY <2>1 DEF Typed, IsContext, Objects, DataTypeOK, GroupId
    <3> QED
      BY <2>1, <2>2, <3>1, <3>2 DEF Exact, Held
  <2>3. ASSUME CitiesOff, Replacing, upc = "idle", ~failed
        PROVE  /\ \A g \in DOMAIN groups : {o.case : o \in CasesOf(g)} = ToCases(ctx.config.vpns)
               /\ providers = DOMAIN ctx.config.vpns
    <3>1. \A c \in Cases : c \in test_cases <=> c \in ToCases(ctx.config.vpns)
      BY <2>1, <2>3, NothingLeft DEF Given
    <3>2. test_cases \subseteq Cases /\ ToCases(ctx.config.vpns) \subseteq Cases
      BY <2>1 DEF Typed, IsContext, IsVpns, ToCases, Objects, DataTypeOK
    <3>3. test_cases = ToCases(ctx.config.vpns)
      BY <3>1, <3>2
    <3>4. /\ \A o \in DOMAIN stats : o.case \in test_cases
          /\ \A g \in DOMAIN groups, c \in test_cases :
               \E o \in DOMAIN stats : o.of = g /\ o.case = c
      BY <2>1, <2>3 DEF Full, Complete
    <3>5. \A g \in DOMAIN groups : {o.case : o \in CasesOf(g)} = test_cases
      BY <3>4 DEF CasesOf
    <3>6. \A v \in Providers : v \in DOMAIN ctx.config.vpns <=> v \in providers
      BY <2>1, <2>3, NothingLeft DEF Given
    <3>7. DOMAIN ctx.config.vpns \subseteq Providers /\ providers \subseteq Providers
      BY <2>1 DEF Typed, IsContext, IsVpns, RunnerInv, RunnerTypeOK, TaskTypeOK
    <3> QED
      BY <3>3, <3>5, <3>6, <3>7
  <2>4. ASSUME OneTask, Replacing, Settled, pc # "off"
        PROVE  mode = ctx.config.mode /\ repeats = ctx.config.repeats
    BY <2>1, <2>4, NothingLeft DEF Settled, Mine, Stops
  <2> QED
    BY <2>2, <2>3, <2>4 DEF AppliedAsGiven, GroupsApplied, CasesApplied
<1> QED
  BY <1>1, Always, PTL

(* While whole configurations are replaced, however the requests fall        *)
(* between the steps of a test, no lookup and no empty group kills the task  *)
(* of the runner; a division by zero takes group and case errors.            *)
THEOREM NoBookkeepingCrashAlways == Spec => []NoBookkeepingCrash
<1>1. ServiceInv => NoBookkeepingCrash
  BY DEF ServiceInv, Hand, AtHand, Zero, NoBookkeepingCrash
<1> QED
  BY <1>1, Always, PTL

(* Cleaning the configuration takes groups and cases out only while no task  *)
(* of the runner is alive: the stop comes first and is awaited.              *)
THEOREM CleanedAlways == Spec => CleanedWhileStopped
<1>1. ASSUME ServiceInv, OneTask, upc = "await", cleaning PROVE pc = "off"
  <2>1. Typed /\ Told
    BY <1>1 DEF ServiceInv
  <2>2. queue # <<>> /\ Head(queue).mark \in Suspending /\ Queue(queue)
    BY <1>1, <2>1 DEF Typed
  <2>3. ~Stops(queue) /\ Head(queue).mark # "Start"
    BY <2>2, Places DEF Suspending
  <2> QED
    BY <1>1, <2>1, <2>2, <2>3 DEF Told
<1>2. ServiceInv /\ [Next]_vars =>
        [OneTask /\ upc = "await" /\ cleaning /\ dataVars' # dataVars => pc = "off"]_vars
  BY <1>1
<1> QED
  BY <1>2, Always, PTL DEF Spec, CleanedWhileStopped

===============================================================================
