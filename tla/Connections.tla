----------------------------- MODULE Connections ------------------------------
(*****************************************************************************)
(* The SQLite connections of aiosqlite, as datasink/sqlite.py uses them.     *)
(*                                                                           *)
(* A connection has a thread of its own that executes the statements of its  *)
(* queue in order and hands the answers to the event loop, which takes those *)
(* of all threads in order (call_soon_threadsafe).  Each statement is one    *)
(* action.  What a transaction has written is in "work" until it is          *)
(* committed; a database has one open connection at a time.                  *)
(*****************************************************************************)
EXTENDS Integers, Sequences, FiniteSets

CONSTANTS
    Unfindable    \* keys on which the statement of _format_filters is no SQL

VARIABLES
    conns,        \* the connections: [url, live, tx, work, queue]
    saved,        \* what each database holds on disk: [made, rows]
    answers       \* what the threads have handed to the event loop

connVars == <<conns, saved, answers>>

NoTables == [made |-> {}, rows |-> [n \in 1..4 |-> <<>>]]

Op(to, do, table, row) == [to |-> to, do |-> do, table |-> table, row |-> row]
Put(cs, c, op) == [cs EXCEPT ![c].queue = Append(@, op)]
NewConn(url, op) ==
    [url |-> url, live |-> "new", tx |-> FALSE, work |-> NoTables, queue |-> <<op>>]

(* Connection._running: until the coroutine that closed it has resumed.      *)
Running(c) == c # 0 /\ conns[c].live # "gone"

-------------------------------------------------------------------------------
Asked(c, do) ==
    /\ conns[c].queue # <<>> /\ Head(conns[c].queue).do = do
    /\ conns[c].live = IF do = "connect" THEN "new" ELSE "open"
Disk(c) == saved[conns[c].url]

Answered(c, id, how) ==
    answers' = Append(answers, [to |-> Head(conns[c].queue).to, do |-> Head(conns[c].queue).do,
                                id |-> id, how |-> how])

(* The statement is over: transaction, contents and database are now these.  *)
Executed(c, tx, work, disk) ==
    /\ conns' = [conns EXCEPT ![c].queue = Tail(@), ![c].live = "open", ![c].tx = tx,
                              ![c].work = work]
    /\ saved' = [saved EXCEPT ![conns[c].url] = disk]
Unmoved(c) == Executed(c, conns[c].tx, conns[c].work, Disk(c))

Connects(c) ==
    /\ Asked(c, "connect")
    /\ Executed(c, FALSE, Disk(c), Disk(c)) /\ Answered(c, 0, "ok")

(* Outside a transaction a table is on disk at once.                         *)
Creates(c) ==
    LET made(t) == [t EXCEPT !.made = @ \cup {Head(conns[c].queue).table}]
    IN /\ Asked(c, "create")
       /\ Executed(c, conns[c].tx, made(conns[c].work),
                   IF conns[c].tx THEN Disk(c) ELSE made(Disk(c)))
       /\ Answered(c, 0, "ok")

(* The rows that UNIQUE takes for the new one; test_run is not UNIQUE.       *)
Same_AnyParent(rows, table, row) ==
    {i \in DOMAIN rows : table # 4 /\ rows[i].key = row.key}
Same(rows, table, row) == {i \in DOMAIN rows : table # 4 /\ rows[i] = row}

(* INSERT OR IGNORE: id 0 stands for rowcount 0.                             *)
Inserts(c) ==
    /\ Asked(c, "insert")
    /\ LET op == Head(conns[c].queue)
           work == conns[c].work
           rows == work.rows[op.table]
           new == Same(rows, op.table, op.row) = {}
       IN IF op.table \in work.made
          THEN /\ Executed(c, TRUE, IF new THEN [work EXCEPT !.rows[op.table] = Append(@, op.row)]
                                    ELSE work, Disk(c))
               /\ Answered(c, IF new THEN Len(rows) + 1 ELSE 0, "ok")
          ELSE Unmoved(c) /\ Answered(c, 0, "missing")

(* SELECT rowid, fetchone and, after an error, the closing of the cursor.    *)
Selects(c) ==
    /\ Asked(c, "select") /\ Unmoved(c)
    /\ LET op == Head(conns[c].queue)
       IN IF op.row.key \in Unfindable THEN Answered(c, 0, "syntax")
          ELSE \E i \in Same(conns[c].work.rows[op.table], op.table, op.row) :
                 Answered(c, i, "ok")

ClosesCursor(c) == Asked(c, "close") /\ Unmoved(c) /\ Answered(c, 0, "ok")

Commits(c) ==
    /\ Asked(c, "commit")
    /\ Executed(c, FALSE, conns[c].work, conns[c].work) /\ Answered(c, 0, "ok")

(* What is not committed is rolled back; the thread goes on with its queue.  *)
Rest_Dropped(c) == <<>>
Rest(c) == Tail(conns[c].queue)

Closes(c) ==
    /\ Asked(c, "shut")
    /\ conns' = [conns EXCEPT ![c].queue = Rest(c), ![c].live = "shut", ![c].tx = FALSE,
                              ![c].work = NoTables]
    /\ Answered(c, 0, "ok") /\ UNCHANGED saved

Refuses(c) ==
    /\ conns[c].live \in {"shut", "gone"} /\ conns[c].queue # <<>>
    /\ conns' = [conns EXCEPT ![c].queue = Tail(@)]
    /\ Answered(c, 0, "closed") /\ UNCHANGED saved

Thread(c) ==
    /\ c \in DOMAIN conns
    /\ \/ Connects(c) \/ Creates(c) \/ Inserts(c) \/ Selects(c) \/ ClosesCursor(c)
       \/ Commits(c) \/ Closes(c) \/ Refuses(c)

===============================================================================
