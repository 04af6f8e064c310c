# A TLA+ model of the VPN speed comparison daemon

TLA+ modules, TLC models and TLAPS proofs about the daemon in `src/src/daemon/vpnspeed`
(paths without a prefix below are relative to that directory). The reference is the
source; every definition was translated from it, and `PROJECT.json` ("map") names the
lines each one stands for.

## 1. The system

One asyncio event loop runs everything: a web API, the service behind it, one task that
runs tests, and small tasks that deliver results. A *test group* is a VPN country and a
target country (and later a city), a *test case* a provider with a technology and a
protocol. The runner tests combinations of the two, each in a container of its own, and
counts runs and failures; the results go to data sinks. Clients (`vpnspeed_cli.py`, cron)
post a *context* (a state and a configuration) with "up", "up -u", "down", "stop".

| Component | State | Operations | Interacts with | What is hard | What makes it correct |
| -- | -- | -- | -- | -- | -- |
| **Runner** `service/runner.py`, `service/model.py` | `_groups`, `_group_index`, `_case_index`, `_test_cases`, `_failing_cases`, `_common_cities`; the locals of `run` | `run`, `_run_case`, `random_city_check`, `_add_run`, `_fail_run`, `_add_failing_case`, `_add_failing_group`, `_clear_fails`, `add_/remove_groups`, `add_/remove_cases`, `set_context_params` | selection, provider registry, containers, sinks; changed by Service between any two awaits | objects are found by a value that changes (the city); marks and counts share one integer; cancellation at every await | runs spread evenly; the indexes lead to the right objects; each run is accounted for; marks mean what the README says; the once mode covers everything and ends |
| **Selection** `service/select.py` | none | `_select_least_runned_in_group` | called by `run` | uneven groups first, minimum only over them | a refinement of plain rounds |
| **Diff** `service/diff.py` | none | `diff_context` and what it calls | called by `Service.update` | absent fields, order of actions | the actions lead from the old to the new context |
| **Service** `service/service.py` | `_context`, `_task`, the writer lock `_clock` | `start`, `update`, `execute`, one handler per action, the done callback `_idle` | API, Runner, DynamicVPN, MasterSink | an update goes on for many awaits while the task, its cancellation and its callback interleave; actions that raise | the runner holds what the context says; the reported state is true; one task; every request is answered |
| **Provider registry** `vpn/dynamic.py` | `_providers` | add, update, remove, `get_cities`, `session` | Runner, Service | a provider removed while its case is tested, or while the search for cities is in the middle of the dictionary; bare `except` around login | sessions only with configured providers; a city that all have is found if there is one; every search ends |
| **VPN session** `vpn/dynamic.py`, `runner.py:204-288`, `probe.py` | connection, probe of the connection | login, connect with backoff, country check, disconnect | container, provider | failures at each step, cancellation swallowed by login | every session that logged in is left again |
| **MasterSink** `datasink/master.py` | `_sinks`, `_backups`, `_backup_default`, `_probe` | add, update, remove, `send_data`, `backup` | sink plugins, Service, Runner, reports | a task per sink and result, not awaited; half-done updates | a result reaches the sinks configured when it was sent; the backup is a sink that lives, or the default |
| **Sink plugins** `datasink/sqlite.py`, `csv.py`, `dynamic.py` | connection, tables, file | start, stop, send, get | MasterSink | interleaved inserts and id lookups on one connection | a stored row refers to its own group, case and probe |
| **Providers** `vpn/surfshark.py`, `*_app.py`, `templated.py` | tokens, keys; the cities that were found (`_cities`, `__city_set`, `__city_map`, `__city_to_id`) | setup, login, connect, `get_cities` | web APIs, apps in containers | retries with stale tokens; what a search has left in a class or an object decides where later tests go | a city that was named is served, in its country |
| **Technologies, containers, speed test** `vpn/technology`, `container`, `tester` | none that outlives a test | commands | Docker | timeouts | errors are mapped to the three kinds |
| **API and codec** `api/`, `daemon.py` | none | decode, preparse, validate, encode, jsonpath, `_make_report`, `_clean` | CLI, Service, reports | defaults and the expansion of `groups`; clients that go away | a configuration replaces the one before; files go once they were sent |
| **Reports** `reporting/report.py` | a folder and a zip file per second | filter, read groups and runs, drop outliers, plot, pack | API, backup | many awaits between the first and the last read, while results arrive and sinks change; names shared by the requests of one second; interpolated quantiles | everybody gets his own report, with every run once, from one database; nothing stays behind |
| **CLI and scheduler** `src/src/cli/vpnspeed_cli.py` | the cron table, the configuration files | up, down, stop, schedule, report | API, cron | processes that read, change and write one table; files that change after they were checked | "down" stops for good; the table holds what was scheduled and not taken back |

## 2. Modules

| Module | What it is |
| -- | -- |
| `Runner` | The runner's data and its task. One action per stretch of code between two awaits; `pc` names the await at which the task is suspended. The operations that the service calls (`add_groups` and its like) are operators with the source's names. |
| `StaticRunner` | `Runner` on one configuration that does not change, chosen from `Settings`; the promises about test execution and error handling. |
| `LiveRunner` | `Runner` while its groups, cases and providers are edited at every await, in any order: what the runner can promise whoever edits it. |
| `Rounds` | The abstract promise about scheduling, without counters. `StaticRunner!RoundsSpec` is the refinement. |
| `Diff` | The pure functions of `diff.py`: the new context and the ordered actions. |
| `Service` | The service composed with `Runner` and `Diff`: updates, the task, its callback. |
| `Connections` | SQLite connections as aiosqlite runs them: a thread with a queue per connection, answers handed to the event loop, a transaction's work apart from what is on disk. |
| `Sinks` | `MasterSink` and its plugins on top of `Connections`: the tasks that deliver results while sinks are added, updated and removed. |
| `Surfshark` | The provider SurfShark on top of `Templated` and the three technologies: what its calls leave behind for later tests (credentials, saved key, process number, current technology). |
| `Session` | The inside of a test, await by await: `_run_case` with container, `VPNSession`, probes and speed test, on `Surfshark`; and the lookup of cities that may come before it. |
| `Outcomes` | What a test may come to, the way `Runner` assumes it. `Session!OutcomesSpec` is the refinement. |
| `Cities` | The search for a common city through five kinds of providers, what it leaves in them, and the tests made for its result. |
| `Codec` | What a posted document decodes to, or whether it is refused: pure operators. |
| `Reports` | Requests for reports with the readers of the backup, the folder and the zip file, and the outlier filter. |
| `Client` | The command line and cron as processes against the API: composes `Codec` and `Diff` (a posted configuration) with `Reports` (whose backup it changes). |
| `MCRunner`, `MCLive`, `MCService`, `MCSinks`, `MCSession`, `MCCities`, `MCClient` | Small instances for TLC. |
| `StepProofs` | What every step of `Runner` keeps, whoever extends it: lemmas for the next three. |
| `RunnerProofs` | Theorems of `StaticRunner`: types and indexes first, then how runs are distributed. |
| `LiveProofs`, `ServiceProofs` | Theorems of `LiveRunner` and of `Service`. |
| `SinksProofs` | Theorems of `Sinks` with its `Connections`. |
| `SessionProofs`, `CitiesProofs`, `ClientProofs` | Theorems of `Session`, of `Cities` and of `Client` with its `Reports`. |

### How the state corresponds to the code

* A `Group` object is an id `[pair, gen]`: its pair of countries and which `add_groups`
  made it; `groups[id]` holds what changes, the city and the failing flag. Documented
  configurations give groups no city, so the pair identifies a configured group, and the
  `TestGroup` by which dictionaries find it is the key `[pair, city]`.
* A `Case` object is an id `[of, case, copy]` with `stats[id] = [run, fail]`; `fail = -1`
  is the mark of a failed case, exactly as in the code. `copy` is needed because adding a
  case twice makes two objects (see section 4).
* `group_index` and `case_index` are the two dictionaries.
* `pc`: `new` (created, not started), `top` (`get_groups`), `clear` (`_clear_fails`),
  `city` (`random_city_check`), `env`, `login`, `vpn` (container, login, connection and
  speed test), `add_run`, `exit` (closing session and container), `fail_run`,
  `fail_group`, `fail_case`, `delay` (the interval), `off`. Bodies under `Runner._clock`
  contain no await and are therefore single actions.
* `Service`: `queue` is the sorted list of actions that `execute` still has to do, `upc`
  where `update` is suspended, `cpu` who runs: between two awaits of the update nobody
  else does. The done callback is `queued` when the task ends and runs before anything
  that becomes ready later; one stretch of the update that was ready already may go
  first. That is asyncio's order of ready handles, and it is what finding 2 is about.
  `Runner.run` catches whatever a task ends by, so an update that waits for the task in `_stop` goes on
  in every case (`Stopped`).
* Dictionaries iterate in insertion order; where a loop may raise half-way (`KeyError`
  in `remove_groups`, an unknown sink), the actions choose any subset done before, which
  covers every order.

* `Sinks`: `sinks` and `backups` lead from a name to a plugin; the backups are a list in the code, in
  which a name occurs once. `plugins[p]` is a plugin object with its connection (`_db`) or file (`_path`),
  `sends[<<r, n>>]` the task that delivers result `r` to the sink `n`, `update` the
  request of the service that is under way and the await where it is suspended. In
  `Connections` each statement of a connection's queue is one action of its thread; `tx`
  and `work` are the open transaction, `saved` the file. A row is `[key, parent]`, its id
  its place in the table, so an id that is taken over from another connection leads to
  another row. `sends[t].disturbed` and `.why` record, for the properties only, whether
  the plugin has been down since the task was created and what ended a task that failed.

* `Session`: `at` names the await, as `pc` does in `Runner`, but one by one; `err` is the
  exception that is on its way out through the two `async with` blocks, with the stage that
  raised it, which is what the refinement to `Outcomes` needs (an error that is still closing
  a container counts as its stage). `containers` holds the technologies whose container
  exists, because a container's name is made of the provider and the technology. `surf`
  holds the fields of the provider's object and of its technologies' objects: `user` says what of
  the login at the service is set (nothing, the user name only, both), `creds` what `_creds` holds
  (those of the account, the user name without a password, both of the service); `env[t]` and
  `proc` name the test in which `_env` and `_proc_id` were set. `service` is what the API
  knows of the keys. `since`, the day on which connect began, and `config`, what the
  connection was configured with, are there for the properties only. `number` tells the
  containers of the tests apart.

* `Cities`: a *place* is a city in a country; `offered[p]` lists the places of VPN `p`, in the
  order in which it lists them. `todo` is what the iterator over the dictionary of providers has
  left, `asked` and `left` what it compares the size of the dictionary with, `replaced` says that the
  object which is being asked has been replaced meanwhile. `nord_cities`, `city_set`,
  `city_map` and `city_to_id` are the attributes of the plugins; the first three belong to the
  class and survive a restart of the runner. `answers` and `fresh` are for the properties only: what
  was answered in this search, and whose knowledge still is what this search found.

* `Reports`: `reports[r].at` is the await of a request: `groups` and `rows` for the database, then
  `send` and `body` while `FileResponse` opens and sends the file. A zip file is an inode, named by
  the request that created it, since opening a name again empties the file that it has and removing a
  name does not close it: `zips` leads from a second to an inode, `ink` says who wrote into it.
  `counted` is the data frame, as a number for each run. `plugins` and `backup` are
  `MasterSink` as far as readers see it: a plugin that is stopped has no database. `asked`,
  `owed` and `moved` are for the properties only.

* `Client`: a process is a record, from its start over `post`, `tab` and `write` to `done` or
  `failed` or, if its update raised, `raised`; what it loaded from its file it keeps (`doc`). A job of the cron table is `[file, by]`, the
  schedule command that made it. `with` (the processes at work at the same time) and `origin` (whose
  post was taken over last) are for the properties only. `scene` chooses what a behaviour is about:
  which commands, files, filters and faults, and whether updates may raise. `Idle` is the done callback
  of a task; since tasks are not modelled here it may come whenever the state is "run".

### What is abstracted

Countries, cities, cases, providers and sinks are model values. The container, the VPN
and the speed test are reduced to their outcome: success, one of the three kinds of test
errors, another exception; `Session` is what justifies it. `Runner` suspends in every login,
although SurfShark suspends only in its first, so it has more behaviours than the code.
In `Session` the attempts of one request, and the commands between two
changes of state, are one action with its last outcome; the probes' contents are choices.
`sent` counts results handed to `MasterSink.send_data`.
In `Service` a sink only exists or not; what it does with results is `Sinks`.
A row's columns are one key, and `Unfindable` are the keys on which the hand-quoted SELECT of
`_format_filters` is no SQL. Two sinks never share a file (`UrlFree`), so SQLite's
locking between connections does not arise. `random.choice` of equal options is `\E o \in Options`. The interval is a finite wait.
`get_context` and `get_data` only read and are left out.

In `Cities` the dialogue with a provider is its outcome: the whole list, an unreadable one, none, or
an exception. The name of a city is a model value; what matters of its letters is whether it has a
space (`Spaced`) and whether it is a part of another name (`Part`). A search in which the
iterator meets a changed dictionary follows CPython's rule: it raises when the size differs or when it
has more to yield than there were.

In `Client` an update is one action, because `Service` has its inside and its writer lock keeps updates
apart; its sinks are at most one, marked as backup, and their `start` succeeds (`Sinks` has the failure).
An update that raises is an action too, `PostRaises`: `update` replaces the context before it executes
the actions, so it leaves the cleaned context when it ends at a group while cleaning, else the new
one, with the sinks as they were or changed already. In `Reports` a day stands for a timestamp, a
whole percentage in exact arithmetic for the share of outliers (the rounding of `1 - outliers` as a float
is not covered), and the drawing of a plot for its success or failure. A stored
run is there with its commit; rows, ids and their transactions are `Sinks`. A document is what
`yaml.safe_load` made of a file; `Codec` tells its forms apart as `preparse` does, and knows the
countries that YAML reads as truth values.

## 3. Runs

`MaxRuns` bounds the counters: no combination is selected once some count has reached it.
Two pairs and two cases are the least that have an uneven group, a group to prefer, and
a case shared by groups; the theorems of section 5 hold for any numbers.

| Run | Instance | Shows |
| -- | -- | -- |
| `Runner` | 2 pairs, one of them "auto", one city or none, 2 cases of 2 providers, `MaxRuns = 5`, six settings (mode, repeats, faults) | `TypeOK`, `Balanced`, `IndexExact`, `NoBookkeepingCrash`, `OnceCovers`, `ResultsAccounted`, `FailedRests`, the refinement `RoundsSpec`, and `OnceTerminates` under fairness |
| `Service` | 2 pairs, one city or none, 2 providers with a case each, 3 sinks (one without a plugin), 3 requests, `MaxRuns = 2`, six sorts of clients | `StateTold`, `AppliedAsGiven`, `NoBookkeepingCrash`, `CleanedWhileStopped`, and `UpdateCompletes` under fairness |
| `LiveRunner` | 2 pairs, one city or none, 2 cases of one provider, `MaxRuns = 2`, at most two places in the list and two copies of a case; additions with test errors, or additions and removals. Pairs and cases are interchangeable (symmetry) | `IndexSound`, `CountedWhereTested`, `AddingIsSafe`; it is also the run in which every `KeyError` of the task and of `remove_groups`, and the empty `min()` happen |
| `Sinks` | 2 results in 1 case, 2 groups, 1 or 2 probes, 1 or 2 plugin objects and connections, six `Lives`: a database that is moved to another file; one that is opened again; a restart between results; two results of a group that no SELECT finds; a database and a file under a chosen name; databases and files with urls that `start` rejects | `OwnRows`, `LostOnlyWhenStopped`, `StoredOnce`, `BackupsAreSinks`, and `AllEnd` under fairness |
| `Session` | 2 tests of any technology, country and target, 2 keys, 2 days, 2 checks of the connection (8 in the code) and 2 reads of OpenVPN's log (5 minutes) | `OutcomesSpec`, `StopsItsOwn`, `Authorised`, `LeavesNoContainer`, and `TestEnds` under fairness |
| `Cities` | 2 countries, 3 cities (one with a space, one name part of another), the five providers in fleets of one to three, lists of at most three places that may change, `up -u` at every await | `CommonIfThereIsOne`, `ServedWhereOffered`, `RightCountry`, and `SearchEnds` under fairness of the search |
| `Client` | 12 scenes, three of them with updates that raise: up to 3 processes over 6 files, up to 3 requests in 2 seconds, 7 runs in 2 databases, 6 filters, 4 malformed or unusual files | `AnswerIsOwn`, `RunsRight`, `OutliersBalanced`, `NothingLeftBehind`, `DownStops`, `TableIsHistory`, `UpReplaces`, `ScheduledOnce`, and `RequestsEnd` under fairness |
| `Find...` | a smaller instance each | one disagreement between code and documentation each, section 4 |

Every module states the types of its variables (`TypeOK`, and the parts of it for modules that others
extend). The runner's is a property of a run. Those of `Service`, `Client` and `Reports` are theorems
without a run of their own, those of `Session` a part of its invariant; the others are documentation.

Why the bounds are enough: five runs let a case and a group reach the failing ratio
(more than 3 runs), go through a clearing and start the next round; with two repeats
they give two full selections of each combination. In `Service` three requests give
every pair of consecutive changes from a state that an earlier change has left; two runs
let a round end and, in the once mode, the task end by itself while an update is on its
way. Properties of the service that need a promise of the clients say so: `SameMode`
(nobody mixes the two modes), `WithGroups` (every configuration has some; `OneTask` is both),
`WithCases`, `Replacing` (no `-u`), `CitiesOff` (`common_cities` is not set), `OnceOnly`. Each is there
because the code violates the statement without it. The attempts to prove them found four that a
smaller instance had hidden:

* A configuration without groups leaves the runner idle but has no group to remove, so the next one
  restarts it without an await, ahead of the callback of the task before: `StateTold` needs `WithGroups`.
* An "up -u" may change the mode under the task; the next "up" then cleans groups while it works:
  `CleanedWhileStopped` needs `OneTask`.
* A post in the continuous mode with another VPN, after one in the once mode, removes the cases and
  groups of a task that the cleaning has just started; and an update that fails at a sink, sent again,
  finds its differences gone and the runner half changed. Both end the task with a `KeyError`:
  `NoBookkeepingCrash` is about one mode and holds until an update fails.
* A configuration whose VPNs have no case ends the task with an empty `min()`: `WithCases`.

In `LiveRunner` nothing is edited once a combination has sent its last (with removals, its last but
one) result, and nothing is added at a third place in the list. Two places are enough for two
groups with the same pair, one of them renamed, which is where the indexes collide.

`StoredOnce` supposes that configurations do not hand a file from one sink to another. If they
do, a task that was created before its sink moved stores its result in a file that meanwhile belongs
to the sink that has stored the same result already; the code has nothing that keeps them apart.

In `Sinks` two results are what it takes to interleave on one connection: the second one
finds the first one's rows or meets its missing ones, and with two groups it stores rows with
the same case key under different parents. Two connections are one before and one
after an update. The tasks are finitely many, and `plugins`, `conns` and `restarts` in
`Lives` bound the sinks, the starts and the crashes.

In `Session` the first test leaves what it leaves (a process number, a key that was generated,
activated or saved, half a login, a container of the same name) and the second meets it; the
second day is the one on which a saved key has expired. A key that runs out during a connection
is not the code's concern: `Authorised` compares with the day on which connect began.

In `Cities` two countries are what it takes to learn of one and test in the other, three names give
lists that agree in none, one or two, and the fleets hold every provider next to another one, so
that its answer meets an intersection that is empty and one that is not.

In `Client` the scenes keep apart what does not touch: commands and cron; edits; configurations one
after the other; each malformed file; requests in one second, in two, with faults, with every
filter; runs that arrive; a backup that is added, moved and removed under a report. Updates may raise
where files are edited under cron, where configurations follow each other, and, with one process less,
where the backup changes under a report; a task may end in all of them. Three
processes are two that overlap and one that comes before or after. Three requests are the two
that share a second and one that comes after them, in the same second (the name is
there or gone) or in the next. The five runs of a country give a case three different speeds, with shares of
outliers that fall on a run and between two.

Deadlock is checked in `Cities`, where the user can always do something. In the other models
it is not: the task ends, the service stops with the event loop, and the bounds stop selections,
processes and requests.

**Fairness.** `FairSpec` has weak fairness of the task's steps, of the update's steps and of
the callback, nothing about clients or faults. The event loop runs every ready
handle; every await of a test has a timeout or a finite sleep; the locks are held only for
loops without awaits. In `Sinks` it has weak fairness of the coroutines that are ready and
of each connection's thread: aiosqlite's threads take one statement after the other until
they have been closed and their queue is empty. In `Session` it has weak fairness of the
coroutine as a whole, nothing about which outcome an await has; `TestEnds` therefore rests
on the two bounded loops. In `Cities` it has weak fairness of the search (each dialogue has its
timeout), nothing about the user, who may change the providers for ever; in `Client` of each request
for a report: the event loop resumes what is ready and aiosqlite answers every statement, while
processes and cron need not go on. `UpdateCompletes` is claimed for the once mode only: in
the continuous mode a task that has swallowed its cancellation may test for ever (finding 4).

## 4. Where code and documentation disagree

Each is a run whose expected result is a violation.

1. `FindIndefinitely` — a test case error sets `fail_count` to -1, a later test group
   error raises it to 0 and divides by it (`runner.py:188`): the continuous mode ends
   although both errors are "handled".
2. `FindStaleIdle` — the done callback of a task that has ended may run after the next task
   was started and write the state idle over run (`service.py:143`).
3. `FindStaleConfig` — with common cities a tested group is renamed, and `remove_groups`
   no longer recognises the group of the configuration (`runner.py:56`): an "up", a test and a
   "down" leave a renamed group in the runner, although the configuration names none any more. The other half of `ConfigApplied` is violated too, with
   `Clients <- OtherVpn` in its cfg: `remove_cases` reuses its parameter's name for the list
   it builds, so groups keep the cases (`runner.py:77`).
4. `FindLostCancel` — the bare `except` around login swallows the cancellation that "down"
   throws into the task, and the runner goes on (`vpn/dynamic.py:37`).
5. `FindLostResult` — updating a sink stops its plugin under the sends in flight; their
   results are rolled back or refused and never sent again, although the sink is configured
   before and after (`datasink/master.py:54`).

Further disagreements are visible in the models without a run of their own:

* At the end of a round the code logs "clear all fails" and does not clear them
  (`runner.py:114`): they are cleared when no option is left, although the README says that
  they are after `groups * cases` runs (line 245).
* A case with three test run failures is selected again (`_fail_run` only counts; README "After
  three test run failures").
* With repeats, a case that was just marked is run again, and in the once mode, after a test
  case error has made the groups uneven, a combination can give two results; this is why
  `FailedRests` and `OnceCovers` carry their conditions.
* SurfShark's login sets the user name before the password, and either one makes every later login skip
  the requests (`surfshark.py:88`, `:124-125`): after an answer without a password all later tests
  connect with the user name and no password. `Authorised` says what is true: what is handed on
  is what the provider holds from the service, never the credentials of the account.
* An update that raises leaves the new context behind without its actions, and "up -u" may
  remove the group or provider under test, whose bookkeeping then raises `KeyError`; this is
  why the service's properties exclude `failed` updates or say `Replacing`, and why `UpReplaces`
  promises the backup only until an update has raised.
* With common cities an update adds the renamed groups again; the indexes then hold only the
  second object under each key, and the next `KeyError` in `_add_failing_case` ends the runner.
  `LiveRunner` without the condition `~common_cities` in `AddingIsSafe` shows it in 24 steps.
* `AddCases` is executed before `AddVPNs` (`diff.py:55-100`), so a running task can select a
  case whose provider is not there yet.
* A full "up" cleans by way of a default configuration, continuous with one repeat; from the
  once mode that starts the runner in the middle of the update, and it keeps the one repeat
  (`service.py:89`): this is why `AppliedAsGiven` says `SameMode` of the mode and the repeats.
* An update without groups removes all groups (`diff.py:221`), although "None in new always
  indicates no change".
* A result whose country or city has an apostrophe stores its first row, and every later result
  below that row fails on the SELECT and is dropped (`sqlite.py:73`; `Unfindable`, allowed for
  in `LostOnlyWhenStopped`).
* A sink whose `start` fails stays registered and loses every result until it is updated.
  `as_backup` is ignored for a sink with a name of its own until it is updated
  (`master.py:40`).
* A failed login and a failed request to a provider's API are test run errors
  (`errors.py:41-50`, `dynamic.py:37-53`), although the README lists both under test case
  errors; `AfterTest` in `Session` sends them to `_fail_run`.
* A missing image raises an error that no handler of `_run_case` catches
  (`containerenvironment.py:115`), so it ends the runner although `runner.py:218` is written to
  report it as a failed run.
* A container whose start fails is left over until the next test with the same technology
  replaces it.
* `Templated.connect` never stops a previous technology, because `hasattr` asks for an
  unmangled name (`templated.py:59`); `StopsItsOwn` shows that nothing foreign is stopped
  either.
* An empty intersection of cities counts as "nothing found yet" (`dynamic.py:82`): three VPNs
  without a common city are given one that only the last ones have. `CommonIfThereIsOne` says what
  is true: if there are common cities, one of them is chosen.
* SurfShark answers with the cities of every country it was ever asked for, and tests at the
  position that a name had in another list (`surfshark.py:76`, `:291`). NordVPN never finds a city
  with a space in its name, because it compares it with and without the space
  (`nordvpn_app.py:134-136`), and PIA takes the first region whose name has the city's in it
  (`pia_app.py:91`). `ServedWhereOffered` and `RightCountry` carry these as their conditions.
* `vpnspeed.yaml:15` says that by default no common city is searched for, the README
  (line 254) that one is; the code does not.
* `common_cities` stays true once it was, and the VPNs stay when a new file has none, although the
  update means to "clean current configuration" (`service.py:88`, `diff.py:231`): `UpReplaces` has
  these two exceptions.
* "up -u" with a file without sinks removes all sinks, because `preparse` makes an empty list of
  no list (`preparser.py:40`), although "None in new always indicates no change".
* Groups in another form than the documented ones silently mean no groups; a list that mixes texts
  and dictionaries, and a `no` that YAML reads as a truth value, are refused (`preparser.py:8-25`).
* `down FILE` takes the jobs out whose command has the text "vpnspeed up FILE" in it: jobs of files
  whose names begin with it too, and none for a relative name (`Removes`).
* With the default share of outliers, 0.00, the best and the worst run of each case are left out
  (`report.py:239`), and with 0.5 no report can be made, because no percentile is labelled "50th"
  (`report.py:298`). The README (lines 157-158) swaps the defaults of start and end, and a start that
  is also the end is refused although both days are included.
* Two requests for reports in one second share their files: the second fails, or gets both or half
  of a report. A request that fails leaves its zip file behind until the second comes again.
* A group without a city has its runs counted again by each city of its country
  (`sqlite.py:152`); `RunsRight` has it as an exception.

## 5. Proofs

All theorems are about the specifications without fairness, for any values of the constants: any sets of
pairs, cases, cities, providers and sinks, any numbers of repeats, tests, processes, requests and
results, any bounds. What they assume are the named assumptions of the modules, which only give the
constants the types that the decoder or the configuration gives them:
`RunnerAssumption`, `StaticAssumption` and `LiveAssumption` (settings are records of a mode, a positive number of
repeats and faults; pairs and cases are finite where they are counted), `ServiceAssumption` (requests are what the
decoder accepts; groups and cases of one request are finite), `SinksAssumption` (configurations are records with a
name and a url, bounds are numbers), `SessionAssumption`, `CitiesAssumption`,
`ClientAssumption` and `ReportsAssumption` (scenes, files and filters are well formed, what is stored at the start is finite; names, days and
numbers are distinct from `None`). TLC evaluates them in the runs.

### The runner

| Theorem | States | Argument |
| -- | -- | -- |
| `RunnerProofs!TypeCorrect` | `Spec => []TypeOK` | `TypeInv` adds `Control`: while a case is selected, the group is a key, the case a case, and a repeat is left. Without it a step of `_run_case` could count in an object that does not exist. |
| `RunnerProofs!IndexCorrect` | `Spec => []IndexExact` | `IndexInv` adds `Shape` (the objects are those of the configuration) and that the task's group is a key of the index. The one difficult step is `PickCity`: the group's old and new key both carry its pair, other keys carry another pair, so only its own entry moves. |
| `RunnerProofs!NeverCrashes` | `Cases # {}` implies `Spec => []NoBookkeepingCrash` | Under `IndexInv` every lookup succeeds, each group has a case to take the minimum of, and `FaultsOnly` ties the mark -1 to case errors and the division to group errors. With no cases at all the code does raise (`select.py:18`). |
| `RunnerProofs!FailedRestsAlways` | `Spec => FailedRests` | `Marks`: every object of a failing case carries the mark -1, and with one repeat neither the case under test nor its group is marked. It is about all objects of a case, because the selection looks at the mark of one of them. |
| `RunnerProofs!BalanceKept` | `Spec => []Balanced` | `Balanced` is not inductive: two counts may differ by exactly `repeats`, and nothing says that the lower one is selected. `Level` says there is a `b` such that every count is `b` or `b + repeats`, while the combination under test is on its way between the two: `b + repeats - left`, plus one once counted. `SelectsLowest` shows that preferring uneven groups still selects at the lower level: an uneven group has a case at `b`. |
| `RunnerProofs!ResultsCorrect` | `Spec => []ResultsAccounted` | `Books`: counters and results agree everywhere, except for the test that is between its count and its result. It rests on `OptionsExist`: while the counts are level and nothing is marked there is always an option, so failure counts are never cleared. |
| `RunnerProofs!RoundsCorrect` | `Spec => RoundsSpec` | The refinement, step by step. `Focus` is what the counters have to say of a round: at most one group is uneven, and it is the one that is tested. Then a selection is the abstract one of what the round still waits for, a last repeat its completion, everything else a stutter (`StepRounds`). |
| `RunnerProofs!OnceCoversAlways` | `Spec => []OnceCovers` | The once mode counts selections, not combinations. `Once`: the count is the cardinality of what is `Covered`, without the combination under test, so when it reaches the number of pairs times the number of cases everything is covered (`OverCovers`). |
| `LiveProofs!IndexSoundAlways` | `Spec => []IndexSound` | An index may lead to the cases of another group, once two groups came together under one key by their cities. `Index` adds `Leads`: such an entry leads to a group that the index has lost, and which therefore nothing removes. |
| `LiveProofs!CountedWhereTestedAlways` | `Spec => CountedWhereTested` | From the same invariant: an entry under a key has the key's pair and the case it is listed under. |
| `LiveProofs!AddingIsSafeAlways` | `Spec => []AddingIsSafe` | While nothing is removed and no city looked up, every key has every case (`Complete`) and the test has its group and its case (`AtHand`). Adding a case to a group twice, or a group with a key that is there, keeps both. |

### The service

`ServiceInv` follows the actions that an update has still to execute. `queue` is sorted and holds each
mark at most once but for the start and the stop (`Queue`), and *what the configuration says is what the runner
and the providers hold once the rest of the queue is executed* (`Given`, and `Exact` for groups and their
indexes, `Full` for cases): the promise of an update holds between updates only, this holds at each await. For the
state of the context `Told` says for each place of the update, the task and the callback which of them may be
there together, and `Mine` that a task at work beside edits has the mode of the configuration, and that only
stops and starts are executed beside it. `Hand` keeps what the test needs at hand while nothing but
whole configurations is posted; `Zero` ties the division to its two errors.

| Theorem | States | Argument |
| -- | -- | -- |
| `ServiceProofs!TypeAlways` | `Spec => []TypeOK` | `Typed`, with the step lemmas of `StepProofs` for the runner's part. |
| `ServiceProofs!StateToldAlways` | `Spec => []StateTold` | `Told`. A task starts only where an update has awaited since the task before ended, so its callback is over; to restart without an await the queue would have to have neither a stop nor groups to remove. |
| `ServiceProofs!AppliedAlways` | `Spec => []AppliedAsGiven` | `Exact`, `Full` and `Mine` with an empty queue. |
| `ServiceProofs!NoBookkeepingCrashAlways` | `Spec => []NoBookkeepingCrash` | `Hand` and `Zero`. |
| `ServiceProofs!CleanedAlways` | `Spec => CleanedWhileStopped` | `Told`: while the cleaned configuration is applied a task is stopped first. |

### The data sinks

`SinksInv` is about who waits for what. A coroutine, a send or the update, has one statement in the queue of
a connection or one answer under way, and its own fields say which (`Pending`); a connection is new or
closed only while the update waits for just that (`Sites`). From there on each promise has an
invariant of its own, which the proof carries through ten forms of steps (`StepIs`): a send goes on or
ends, a thread executes the first statement, a plugin is stopped, started or asked for a table, the
update is finished, results are sent, a probe is set, the daemon restarts.

| Theorem | States | Argument |
| -- | -- | -- |
| `SinksProofs!TypesCorrect` | `Spec => []TypeOK` | `Typed` and `Limits`, with `Mapped` for the names of backups. |
| `SinksProofs!RowsAreOwn` | `Spec => []OwnRows` | An id means something on the connection it came from only. `Led`: as long as that connection is open, the ids that a send holds or is about to be told lead to its own probe, group and case, and rows are only appended. The send goes on with them on the connection that its plugin has *now*. `Punctual` says that this is the same one: an answer of a connection that was closed comes before the answer of its close, so the send has resumed, and put its next statement on the closed connection, before the plugin gets another. |
| `SinksProofs!LossesExplained` | `Spec => []LostOnlyWhenStopped` | `Safe`: a task that is not disturbed has a plugin that is up and uses its connection, so nothing refuses it. That it never finds a table missing takes two invariants about a database that is being built: `Made`, which tables it has when the update has come to one, and `Behind`, that a send is always a statement behind at the table where the update is (`Ahead`: the update's statement or answer comes first, in the same queue or among the answers). |
| `SinksProofs!BackupsCorrect` | `Spec => []BackupsAreSinks` | `Mapped`: the only backup that is not the sink of its name is that of a sink being added, and no sink has this name yet. |
| `SinksProofs!ResultsStoredOnce` | `Spec => []StoredOnce` | `StoredInv`, in two parts. `Owned`, whatever the configurations: a plugin serves one name (its file, its connection, the sinks and the tasks that use it), and an open connection is that of a sink or of the update; so where no file has two names, an open file has one connection (`OneOpen`). `Kept`, on top of it: a stored key is `Claimed`, that is, the send that owes it to this file has come past its insert into the last table. So a send that is still to insert finds its key nowhere (`NewRun`), a commit replaces what is on disk by a superset of it, and a send that has its commit confirmed had its run in the tables that were committed (`Shown`). |

### The inside of a test, and the cities

| Theorem | States | Argument |
| -- | -- | -- |
| `SessionProofs!OutcomesCorrect` | `Spec => OutcomesSpec` | The refinement, step by step: what `Runner` assumes a test may come to. `Errors` says which stage can have raised what, until the container is deleted; that is what the stage of a test in the abstract specification is made of. |
| `SessionProofs!StopsItsOwnAlways` | `Spec => []StopsItsOwn` | `Own`: from the moment a technology is configured, its environment and the current technology are this test's; the process number is only from the end of the spawning on, which is why `Running` and `Started` differ. |
| `SessionProofs!AuthorisedAlways` | `Spec => []Authorised` | `KeyInv`: inside connect, what login handed on is what the provider holds from the service, half or whole; what the file says of a saved key is what the service knows of it, a new key is one that the service has never heard of, and a key is good from its activation on for the day on which connect began. |
| `SessionProofs!NoContainerLeft` | `Spec => LeavesNoContainer` | A handler is reached only through `Delete` (`EndsInHandler`). |
| `CitiesProofs!CommonCityFound` | `Spec => []CommonIfThereIsOne` | The invariant is about the search under way: `cities` has no name outside the answers, and while the answers with a city in them have a name in common, `cities` is empty only if none of them came yet and else contains every common name. `Narrowed` keeps that whether it restarts or intersects: a common name is in the old and the new set. |
| `CitiesProofs!CitiesServed` | `Spec => []ServedWhereOffered` | `Knowledge`: as long as the list of a provider does not change, what it keeps of its search describes that list, in the form that its connect looks it up: NordVPN has every name of the country, the table of ExpressVPN is exactly the list, and each name has at SurfShark the number of a line at the place. No two lines have one number (`NumberOfOne`), so SurfShark comes to just that line; that a listed name has a last line at all is `LastLine`. `Tested` ties the test to the country of the search, `replaced` is what keeps an old object's table out. |
| `CitiesProofs!CountryRight` | `Spec => RightCountry` | From the same invariant: three of the four ways to connect choose within the country whatever they know, and the name alone decides only where the property says so; a fresh table of ExpressVPN has no other country in it. |

### Commands, cron and reports

| Theorem | States | Argument |
| -- | -- | -- |
| `ClientProofs!ClientTypes` | `Spec => []TypeOK` | The types of the context, processes, requests, the cron table and the backups, from the invariants below. |
| `ClientProofs!DownStopsAlways` | `Spec => []DownStops` | `Overlapping` and `AloneAtWork`: processes that are at work together know of each other, so a "down" that overlaps nobody and is the last is alone. `Stopping` follows it through its three steps. |
| `ClientProofs!TableIsHistoryAlways` | `Spec => []TableIsHistory` | `Kept`: while the commands that rewrite the table do not overlap, the table is the set of jobs that were scheduled and not taken back, and what a process has read is still the table when it writes. The lemma needed is that only the last of them is at work (`WritesLast`). |
| `ClientProofs!UpReplacesAlways` | `Spec => []UpReplaces` | `Standing`: whose post was taken over last is a process whose update is done or raised, and common cities were the wish of somebody whose post was taken over, raised or not. For the reports `Backed`: until an update raises, the backup is the sink of the configuration, or the default if it has none; an update that raised has broken it for good, because the next one takes its differences against a context that the sinks were never brought to. |
| `ClientProofs!ScheduledOnceAlways` | `Spec => []ScheduledOnce` | `Scheduled`: a file that has a job, or is about to get one, is in the mode once or is no longer the file it was at first. What cron loads is what the file was when it began. `Standing` carries it over an update that raises: it leaves the cleaned context, which is idle, or the new one with its mode. |
| `ClientProofs!AnswersAreOwn` | `Spec => []AnswerIsOwn` | `Ties`: every name leads to a file created in its second, every request holds such a file, and only requests of that second have written into it. A request that is alone in its second therefore holds its own file, and `Written` says that it has written into it before it can be sent. Tying by the second is what makes it inductive: the file of a name changes when it is removed and made again. |
| `ClientProofs!FilesGo` | `Spec => []NothingLeftBehind` | From the same invariant: a request is given its second with its folder, leaves `Reading` only with the folder's removal, and is closed only with the removal of its name. |
| `ClientProofs!RunsRightAlways` | `Spec => []RunsRight` | `ReadInv`: every run that a request owes is counted, or its group is still to be read from the sink that the request began with, as long as that sink was not moved; and what is counted came from one database. A run that arrives in a group that was read is not owed, one that arrives in a group to come is read with it. |
| `ClientProofs!OutliersBalancedAlways` | `Spec => []OutliersBalanced` | Among runs of different speeds each has a rank, and every rank is somebody's (`RankOnto`, from an injection between finite sets of one size), so the speed at a place is that of the run with this rank (`NthHasRank`). With `k` for the whole part of `o` percent of `n - 1`, the lower quantile cuts off the ranks up to `k`, and the upper one, interpolated or not, those from `n - 1 - k` on (`QuantileCuts`, `Mirrored`): `k + 1` on either side. `Finitely` adds that what is stored and counted is finite and that the filter of a request at work was accepted. |

### What stays with TLC

Every invariant and every action property that a run checks is proved. Liveness (`OnceTerminates`,
`UpdateCompletes`, `AllEnd`, `TestEnds`, `SearchEnds`, `RequestsEnd`) stays with TLC, because the prover
handles neither fairness nor ENABLED. The violations of section 4 are TLC's as well.

## 6. What could come next

The parts of the system that keep a state are modelled. What would add most:

1. Proofs: that the actions of `Diff` are disjoint and lead from the old sets to the new ones, as lemmas of their own.
2. An abstract specification of `Sinks`, a bag of results per sink, to compose it with the runner
   through `Sent` and with `Reports`, where a run now is stored in one step.
3. A bound for the counts while cases are added by "up -u": new cases start at 0 next to old ones with
   many runs (`runner.py:159`) and are selected alone until they have caught up; `Balanced` is
   about one configuration.

## 7. Not modelled, and why

The dialogues with the provider apps, the technologies' commands and the files they read
are I/O whose effect here is the outcome of a test or of a search; of the web APIs only SurfShark's
login, keys and lists have an effect on later tests. HTTP, TLS, argument parsing,
logging, the encoder, the JSON path and what a plot looks like keep no state of their own. Groups
with a city given in the configuration are undocumented. `get_data` only reads. The CSV reader does
what the SQLite reader does, in one step.
