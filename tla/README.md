# KernelWatch in TLA+

KernelWatch watches the system calls of a host and its containers with eBPF
programs, matches them against a ruleset, and turns matches into findings.
Findings are deduplicated, sent to a log file, a database, a webhook and Slack,
and correlated into incidents. A second source, the auth-log tailer, reports SSH
brute-force bursts. Rules and suppressions are reloaded while all of this runs.

This directory holds a specification of its stateful parts, the TLC
configurations that check them on small instances, and TLAPS proofs of the
central properties for every value of the parameters. Paths below are relative
to `src/`. `PROJECT.json` maps every definition to the lines it models.

## 1. Inventory

| Component | State | Operations | Hard behaviour | Module |
|---|---|---|---|---|
| eBPF programs (`ebpf/tracer.c`) | ring buffer, drop counter | reserve, submit, count_drop | buffer full; record layout shared by hand with Go | `Collector`, `RawEvent` |
| collector (`internal/collector`) | event in hand, channel, counters | readLoop, host filter, Stop | process gone before its event is read; channel full; Stop with nobody receiving | `Collector` |
| container resolution (`internal/container`) | pid cache, Docker list | Resolve, evictLoop, lookup, refresh | pid reuse, stale answers, Docker down | `Collector` |
| rule engine (`internal/ruleengine`) | compiled rules | Load (merge of overlays), Match | order of override / append / plain definitions over several files | `Rules` |
| rule condition language and macros (`internal/ruleengine`: lexer, parser, env, macros) | macros resolved so far | resolveMacros, applyMacros, compileCondition | macros resolved in the random order of a Go map, cycles; precedence in a hand-written parser | `Condition`, `RuleCompiler` |
| rules reload (`main.go`) | reload in progress | rulesReloader, reloadRules | files edited between two reads, broken files | `RulesReload` |
| detector (`internal/detector`), suppression matching (`internal/suppress`) | ruleset, suppressions, `seen` | Check, SetRuleset, SetSuppressions | both sets swapped between the steps of Check; eviction of the dedup map | `Detector` |
| suppression reload and REST API (`main.go`, `internal/api`, `internal/storage/query.go`) | table, active set | add, delete, ticker, list-then-set | several reloads in flight, database failing, other instances | `Suppressions` |
| correlation engine (`internal/correlator`) | buckets per chain key | Observe, gcLocked | timestamps that go back between two callers; sweep forgets the cooldown | `Correlator` |
| alerter (`internal/alerter`) | limiter map, log files, deliveries | Send, writeLog, rotation, postWithRetry, Close | two callers inside Send; sliding window; rotation; retries; exit | `Alerter` |
| alert storage (`internal/storage/postgres.go`) | channel, batch, dropped | Save, worker, insertWithRetry, Close | full buffer, database down or late, Close racing worker and Save | `Store`, `Sink` |
| auth-log tailer (`internal/logtail`) | descriptor, offset, counts per address | Run, handleLine, tracker.add | half lines, rename, recreate, truncate between stat, open and read | `Tailer` |
| event loop, heartbeat, health check, shutdown (`main.go`) | loop, heartbeat file, signal | select over event, tick and signal; health check; deferred calls | a flood of events against heartbeat and signal; two goroutines feed alerter and correlator | `Monitor` |
| legacy Go rules, ECS format, configuration, other subcommands | none | pure functions, one read or write | none that involves state | not modelled |

How they interact. Two goroutines produce findings: the event loop of `main`
(eBPF ring buffer -> readLoop -> channel -> `Detector.Check`) and the tailer. Both
call `Alerter.Send` and `Correlator.Observe` (and `Send` again for an incident);
`Send` calls `Store.Save`, which never blocks, and starts delivery goroutines.
Two tickers and the HTTP handlers replace the detector's rules and suppressions
under its locks. At shutdown `main` leaves the event loop, stops the collector,
closes the alerter and then the store, while the tailer may still be in `Send`.

What makes each part correct is stated as properties in section 4; what can go
wrong at which line is the list `hazards` of `PROJECT.json`.

## 2. Modules

A module keeps the control of its component (guards, early returns, error paths,
order of assignments) and abstracts its data: an alert or a row is its number, a
line is two halves with an address, a condition is the set of event kinds it
holds for, a path is a class of paths.

* `Store`: `ch`, `batch`, `dropped`, `done` are the Go fields; `pc`, `ret`,
  `attempt` are the worker's place in `worker`/`flush`/`insertWithRetry`; `closer`
  and `timedOut` are `Close`. `table` is the database, external: an insert commits
  the whole batch or nothing, and a call may fail after it committed. `saved`,
  `acked`, `closedAt` are history. `InsertOk`, `InsertErr`, `Retry` and `GiveUp` are
  the branches of `insertWithRetry`.
* `Sink`: what the storage promises, without batches, retries and drain: a queue whose
  oldest rows move into the table or into the count of lost rows. `Store` implements it
  with `pending` as batch followed by channel.
* `Correlator`: `Observe` runs under a mutex and is one action: sweep, append,
  evict, summarize, compare with the last signature, cooldown, emit. Time is the
  finding's own timestamp; `MaxLag` bounds how late it is observed.
* `Alerter`: `send` is where each caller is in `Send`. The limiter (`rateMu`), the
  log (`mu`), the sink and the start of deliveries are separate steps. Errors that the code
  ignores are outcomes: a line may be lost (`LineLost`), any of the renames of a rotation may
  fail (`Shifted`, which is given the files that were moved), the reopen may fail. `delivery`
  is one `postWithRetry` per alert and destination. `mode` is the configured one: in
  "monitor" nothing is dispatched.
* `Condition`: operators only. A condition is a sequence of lexical items; `lex`, the
  fields of `env.go` and the recursive descent of `parser.go` keep their names. A compiled
  closure is the set of events for which it holds. Functions on strings are CONSTANTS.
* `RuleCompiler`: `ResolveMacro` takes any macro that is left, as Go's map iteration does;
  `CompileRule` appends an item to the condition and compiles what is there. `Readings`,
  at its end, is the grammar stated without a parser.
* `Rules`: operators only. `Load` is `mergeOver` (lists, macros and rules), `checkUniqueIDs`
  and `compileRuleset`, which leaves out the disabled rules (`skipDisabled`) and resolves the
  lists and macros a condition refers to; `Match` is scope, condition, lineage arms and
  exceptions. `IsRule` and `IsFile` say what `parseFile` returns.
* `RulesReload`: the reloader reads the files one by one (`ReloadReadFile`) and
  swaps (`ReloadSwap`), against `EditFile` of the operator.
* `Detector`: `Check` in steps: take the rules and match, take the suppressions,
  then one decision per finding (suppressed, duplicate, alert).
* `Suppressions`: every reload is `List` and then `SetSuppressions`, in the ticker
  and in each handler; nothing orders them.
* `Tailer`: inodes, the path, the system logger, and the poll of `Run` step by
  step (stat, reopen, read, seek back). `add` is the tracker.
* `RawEvent`: the field sizes of `struct event` and of `RawEvent`, and the offsets
  that the C compiler's alignment and Go's `binary.Read` give to them.
* `Collector`: processes, containers and Docker come and go; tracepoints fill the
  ring; `Read`, `Resolve`, `Filter`, `Deliver` are `readLoop`; `Evict` is `evictLoop`. A
  reserved record is not cleared: `Submitted` gives a program that writes no path any path.
* `Monitor`: the program as `main` composes it. It extends `Detector`; `LoopEvent` takes an
  event and starts Check, `LoopFinding` hands what Check returned to `Handle`, which the
  tailer's callback uses as well. `Send` and `Observe` are one step each (their insides are
  `Alerter` and `Correlator`). `Environment` is the reloaders and the clock; `Return`,
  `StoreClose` and `Shutdown` are the end of `main`, with `SchemaAnswer` for the connection that
  pool.Close may have to wait for; `Healthy` is the health check of the other process.
* `StoreProofs`, `CorrelatorProofs`, `AlerterProofs`, `RulesReloadProofs`,
  `MonitorProofs` (with the detector's theorems), `SuppressionsProofs`, `CollectorProofs`,
  `TailerProofs`: theorems.
* `MC*`: constants for TLC. Definitions such as `HandleSendFiltered` or `emitsOnce` that
  stand before the definition they vary are plausible mistakes in that place;
  each property is violated when one of them replaces the original.

## 3. Bounds

All bounds are CONSTANTS named `Max...` and appear in guards only.

| Run | Instance | States | Why it is enough |
|---|---|---|---|
| `store` | buffer 2, batch 2, 2 tries, 4 saves | 148 k | the buffer overflows while a batch is full and being retried, and a row is saved after Close |
| `correlator` | 1 container, 1 host key, 2 stages, window 2, cooldown 2, lag 1, 4 findings, clock 7 | 1.38 M | clock exceeds window + cooldown + lag: a bucket is swept and used again; escalation needs 2 stages |
| `alerter` | 2 keys, rate 2, window 2, 1 line per file, 2 backups, any write, rename or reopen may fail; 3 alerts in monitor mode, 1 in alert mode with 1 destination and 2 tries | 897 k | more alerts than one window admits, more lines than the files hold, two callers; every answer of the receiver at every try, exit at any time |
| `rule_compiler` | 7 vocabularies, conditions of 3 to 7 words, 4 sets of macros, 4 events | 751 k | every sequence of words, so also every malformed one; six words show precedence and one pair of parentheses, the words of `Groups` nested ones; chains, diamonds and cycles of macros; the events make every combination of two atoms true |
| `rules_reload` | 2 files, 9 possible contents, 2 edits | 29 k | all pairs of overlays, with lists that one file redefines or creates and another uses; an edit between the reads of the two files |
| `monitor` | 2 rulesets, 2 suppression sets, a container event and an excepted host event, TTL 1, 2 alerts, clock 3, 1 event waiting | 117 k | two keys, with entries of age 0, TTL and TTL + 1; swaps between all steps; loop and tailer each with an alert under way; an event always waiting |
| `suppressions` | 2 rules, ticker and 2 handlers, 3 mutations | 26 k | three reloads in flight in any order |
| `tailer` | 2 addresses, 3 lines in halves, 1 rename, 1 truncation, threshold 2, window 2 | 1.22 M | each file event between any two steps of a poll; bursts inside and across the window |
| `collector` | 1 pid, 1 container, ring 1, channel 1, TTLs 1, 3 kinds of call, 2 events, clock 4 | 815 k | the pid is reused while cached and while queued; both queues overflow |

`CHECK_DEADLOCK FALSE` is used where the program may really come to rest: the
tailer after cancellation, the collector after Stop, `Monitor` after its exit, and
`RuleCompiler`, whose conditions are of bounded length. `Store` and `Correlator` have an
explicit final step instead. `StageSymmetry` is a permutation of stages, which no
definition tells apart; the run that uses it checks no liveness.

## 4. What the runs check

**store.** `Accounting`: every row handed to Save is buffered, batched, reported
stored or counted as dropped. `DropCountSound`: no more rows are missing from the
table than were counted. `ImplementsSink`: channel, batches, retries, drain and
timeouts amount to the lossy queue of `Sink`; rows reach the table in the order of Save,
a batch that committed after its deadline may be stored again, and a worker that
outlived Close writes nothing. `DrainComplete`: with the schema ready and no timeout,
nothing saved before Close is left. `CloseReturns`, `RowsSettle`: Close returns and no
accepted row waits for ever, except for DDL that never answers and a database that
never becomes ready.

**correlator.** `IncidentWindow`: an incident has all findings of its key that are
surely in the window and none outside, in its stages and in its score, provided
MaxLag <= Cooldown + 1. `QualifiedIsReported`: at every finding, if what is surely in the
window is over a threshold and has a tactic, this finding emits an incident, or the cooldown
runs, or the key's last incident has the stages of the window; so the second and every later
chain of a key is reported too. `EscalationIsCritical`: a chain that is reported again with more
stages, having had enough of them before, is Critical. `CooldownSpacing`: survives the sweep and
late findings, provided 2 * MaxLag <= Window. `NoRepeat`: a stage set is reported
twice in a row only after the bucket could have been swept. `NoLeak`: idle buckets go
away.

**alerter.** `RateBound` over every window, wherever it starts;
`RefusedOnlyWhenFull`, its converse; `IncidentsKept`: the limiter never costs an
incident on its way to the sink; `LogIsTail`: backups and log are the last lines written,
without gap, as long as no rename failed; `LogInOrder`: whatever failed, the lines that are
left are in the order in which they were written; `DeliverySettles`.

**rule_compiler.** `CompilesAsWritten`: a condition compiles exactly if the grammar gives
it a reading with macros taken as atoms, and then to that reading: the substitution of
text, the parentheses around it and the parser change no meaning, and no rule is armed
with a condition that does not parse. `MacrosResolve`: in whatever order the map is iterated,
resolution fails if a macro depends on itself, and takes no other macros for a cycle. (It also
refuses an unterminated string, `macros.go:76`, which no macro of the run has.)

**rules_reload.** `EngineIsReference`: the active rules equal a declarative reading
(last definition of an id, a list or a macro, plus later appends) of one set of files that was read,
and are never a partial result. `RulesConverge`: after the last edit the
files on disk take effect if they load.

**monitor.** `DedupSpacing`: alerts of one key are more than `dedupTTL` apart.
`DuplicateJustified`: nothing is dropped as duplicate without an alert of that key.
`EveryFindingCounts`: no finding misses the correlator, whatever Send drops and whenever the
signal comes, but the one the tailer has in hand when the process ends.
`HeartbeatRecurs`, `SignalEnds`: a flood of events starves neither the heartbeat nor the
signal; after the signal the process ends, unless pool.Close waits for ever for a database that
does not answer `ensureSchema`. `DeadLoopReported`: a loop that is over is found dead, although its file is still
there.

**suppressions.** `OnlySnapshots`: a set comes into force only if the table held it as a
whole; a reload that fails or is overtaken neither clears nor mixes. `SuppressionsConverge`: with the database back, reloads that overtake each
other end with the current table.

**tailer.** `HandledOnce`: no line twice, out of order, or from before the start.
`OffsetInSync`: `offset` is the descriptor's position less what is buffered.
`BurstsReported`, `AlertsJustified`: the tracker misses no burst and counts no
failure for two alerts. `CatchesUp`: the log at the path is read to its end again and again
while the tailer has that file open.

**collector.** `EventsAccounted`: each traced call is queued, in hand, filtered,
consumed or counted as lost. `ContainerAnswerExpires`, `NameSettles`: a wrong
container or a missing name lasts no longer than the caches' lifetimes.
`HighSignalKept`: bytes left over in a record never get a ptrace, module or bpf event
filtered. `StopEnds`.

### Fairness

* `Store`: weak fairness of the worker's steps, each of which a timer or a context
  deadline bounds; not of `ensureSchema`, whose context has none. Strong fairness of
  `SchemaAbort` (`done` stays ready, and the worker returns to its `select`) and of
  closing the pool once no connection is held. Nobody has to call Save or Close.
* `Alerter`: `Send` never blocks and the HTTP client has a timeout, so the steps of
  Send and each try are weakly fair. Exit may come at any time.
* `RulesReload`, `Suppressions`: tickers fire for ever, files are local, queries end
  within five seconds. Editing and mutating are not fair, and are bounded.
* `Monitor`: the steps of the loop and of `Handle` are weakly fair, for neither Send nor
  Observe blocks, and so is the passing of a heartbeat interval. `LoopHeartbeat` and
  `LoopSignal` are strongly fair: Go's `select` chooses at random among the branches that
  are ready, so a branch that is ready again and again is not passed over for ever.
  `StoreClose` and `Shutdown` are weakly fair: the deferred calls up to pool.Close have timeouts,
  and so have all users of the pool (inserts, reloads and API queries) except `ensureSchema`.
  `SchemaAnswer`, its answer, is not fair.
* `Tailer`: the ticker fires and local reads return. `Collector`: readLoop waits for
  no other goroutine.

## 5. What is proved

For every value of the constants that satisfies the module's ASSUME:

* `StoreProofs` (`TypeCorrect`, `AlertsAccounted`, `CloseDrains`,
  `ClosedTableIsFinal`, `LossNeverUnderstated`, `StoreIsSink`). `TypeOK` alone is not
  inductive: the batch has room only where the worker can receive, and a try is left only
  where it inserts (`InFlight`). `DrainComplete` speaks about the end of Close, so the
  invariant also says what the worker has done once it is past its last receive
  (`Exiting`) and how far Close has come (`Closing`). `DropCountSound` is inductive with
  `IInv`: only `Save` on a full channel and `GiveUp` take rows out of the sink without
  storing them, and `GiveUp` makes at most `Len(batch)` rows missing, fewer if the batch
  committed after its deadline. The refinement needs `Flushing`: an insert runs only with
  rows in the batch, so that it is a step of `Sink` and not a stutter that changes the count.
* `CorrelatorProofs` (`TypeCorrect`, `Spacing`, `StageSetOnce`, `BucketsExpire`,
  `ChainsAreReported`, `EscalationsAreCritical`, `IncidentsReportWindow`). The sweep forgets
  `lastEmit`. `Remembered` says what is left: the bucket knows its last incident, or the
  cooldown is over even for a finding that is MaxLag late. `IncidentsReportWindow` compares
  sums over sets: `Adds` is the recursion behind the fold, and that it has a solution
  (`AddsExists`), only one (`AddsUnique`), and a monotone one (`ScoreMonotone`) is proved by
  induction over cardinality. `WindowInv` then says that a bucket has only findings of its
  key (`InBucket`), has every one younger than the window (`KeptRecent`), and that
  `lastSeen` trails its findings by at most MaxLag (`SeenLate`). `ChainsAreReported` puts that
  together with what a bucket remembers of its last incident (`Told`): the bucket lies between
  what is surely and what is possibly in the window (`BucketIsWindow`), and qualifies if a part of
  it does (`QualifiesMonotone`).
  Some theorems have a hypothesis. `Spacing` assumes 2 * MaxLag <= Window, `StageSetOnce` and
  `BucketsExpire` assume MaxLag <= Window + Cooldown.
  `IncidentsReportWindow` and `ChainsAreReported` assume MaxLag <= Cooldown + 1, which the proof brought to light:
  a late finding sets `lastSeen` back, and the sweep may then take a bucket although a
  younger finding in it is still in the window. With Window 4, Cooldown 0 and MaxLag 2 TLC
  shows such an incident. The default cooldown is minutes, and a finding is late by what
  its goroutine waits between reading the time and `Observe`.
* `AlerterProofs` (`RateIsBounded`, `RefusalsAreJustified`, `TypeCorrect`,
  `IncidentsAreKept`, `LogKeepsTail`, `LogStaysInOrder`). The limiter's map forgets;
  `LimiterInv` ties it to the history of accepted alerts in both directions, so that
  what `isRateLimited` counts equals what went through in the window (`CountIsExact`,
  two injections). `SendInv` follows an alert through Send, and `RecordInv` adds
  that it is with the sink before it is dispatched. `LogInv`, while no rename has failed, gives
  every file the number of lines that were written before its first (`CountsLines`) and
  says that the file holds the lines from there on (`TailFrom`); a rotation shifts the
  numbers with the files, for any number of backups. `OrderInv` needs no such numbers and no
  condition: every line of an older file was written before every line of a younger one, and a
  rename that fails leaves a file where an older one is missing, never behind a younger one.
* `RulesReloadProofs` (`LoadedWhole`, `EngineFollowsFiles`). The reloader's invariant is
  short: the ruleset in use is the result of one successful `Load`, of all overlays or of
  none (`LoadedInv`). What `Load` means is proved by induction over the entries of a file and
  then over the files. `MergedFrom(rules, all)` ties the merge so far to the entries read so
  far: one rule for each id, and each rule `Stands` for the entries with its id, that is, it
  has the condition, scope and arms of the last definition, the exceptions of that one and
  of everything appended since, and the last switch among them. `NoSilentReplacement` is
  part of it, since `mergeRule` refuses a second plain definition. `MergeStep` is one entry,
  by the four cases of `mergeRule`. `ListsFrom` and `MacrosFrom` do the same for lists and
  macros, with a list replaced first and extended afterwards, also if it did not exist.
  `MeaningIs` then gives a compiled condition its kinds, `Skips` shows that the loop of
  `compileRuleset` drops the disabled rules and no other, and `SwitchIs` that those are the
  ones the reference calls disarmed. Assumptions: files look like `schema.go` says (`IsFile`),
  the embedded file loads by itself, and it neither appends to a rule nor extends a list
  (`DefaultAssumption`; `default.yaml` has no such key, and `schema.go:31` reserves them for
  override files). Number and contents of the overlays are arbitrary.
* `MonitorProofs` (`DedupInvariant`, `AlertsSpaced`, `DuplicatesJustified` of the detector;
  `MonitorRunsDetector`, `MonitorAlertsSpaced`, `FindingsAllCount` of the program). `seen` is a part of the history of alerts, and contains all of it that is at
  most `dedupTTL` old (`DedupInv`). Each step of the program is a step of `Detector` or
  leaves it alone, so `MonitorSpec` implies its specification and what is proved there holds
  in the program. `EveryFindingCounts` is inductive with two facts (`CountInv`): a goroutine that
  sends an incident has had its finding observed, and `main` leaves the loop only with no Check,
  no finding and no alert in hand.
* `SuppressionsProofs` (`SnapshotsOnly`). A reload sets what it listed some time ago, so the
  invariant also says that every list in flight was the content of the table (`InFlight`).
* `CollectorProofs` (`NoEventUncounted`, `MapperInvariant`, `StaleAnswersExpire`,
  `NamesSettle`, `HighSignalsAreKept`). For the first, an account over ring buffer, hand,
  channel and counters; `Balance` reduces each action to the one place an event leaves and
  the one it enters, and the contents of the queues are left arbitrary. The action
  properties of the caches need the past of an entry: an entry whose container does not
  hold the pid was made before the present holder came, and no entry outlives the next
  eviction by more than its lifetime (`EntryHolds`); an entry without a name was made soon
  after the container or Docker came up (`EntryNamed`), because a list made later has the
  container (`ListComplete`). The assumption that "host" is not the name of a container
  only keeps the values of the model apart.
* `TailerProofs` (`TailerTypes`, `OffsetStaysInSync`, `LinesHandledOnce`,
  `EveryBurstReported`, `EveryAlertJustified`). `InSync` is inductive with the types.
  `HandledOnce` needs the whole disk: complete lines are in order within a file and from
  one inode to the next (`FilesOrdered`), and whatever can still be read, by the open
  descriptor or after a reopen, was not handled or skipped and comes after what is
  buffered (`AheadIsNew`). The hard case is a truncation under an open descriptor
  (`Shrunk`), after which the offset points past lines that are new. For the tracker,
  `hit` is what is left of the failures since the last alert once an initial part, all of
  it older than the window, is dropped (`Tracked`); so the length that `add` compares with
  the threshold is a count of recent failures.

The invariants `SyncInv`, `LogInv`, `MapperInv`, `WindowInv` and `LoadedInv` were checked by TLC on the
instances of section 3 before they were proved.

Induction. The library's induction theorems take an operator as parameter and cannot be
instantiated by the provers. The proofs use `WFMin` with `NatLessThanWellFounded` instead:
a set of numbers has a least element (`Least`), and a set that contains 0 and with n also
n + 1 is Nat (`Induct`). A recursive function or a fold of the community modules is a CHOOSE
of a function that satisfies its equation; a proof shows by `Induct` that one exists
and then uses the equation (`After` in `TailerProofs`, `LinesBefore` in `AlerterProofs`,
`scoreOf` in `CorrelatorProofs`). A lemma cannot take the folded operator as a parameter:
`Applied` in `RulesReloadProofs` gives the three that `Load` folds a common name, so that the
existence of the fold and its trace, one element at a time, are proved once for all of them.

Only model-checked: the liveness properties (`CloseReturns`, `RowsSettle`,
`DeliverySettles`, `RulesConverge`, `HeartbeatRecurs`, `SignalEnds`, `DeadLoopReported`,
`SuppressionsConverge`, `CatchesUp`, `StopEnds`), since fairness and ENABLED are outside
the prover; `CompilesAsWritten` and `MacrosResolve` (recursive descent and the expansion of
macros are RECURSIVE, and flags use Bitwise). These are all: every other property of a passing
run is a theorem. No module that a
proof uses declares a RECURSIVE operator: recursion is a function or a fold.

## 6. Where the code and its documentation disagree

Three runs are expected to be violated; each is a finding in `PROJECT.json`.

* `tailer_rotation` (`internal/logtail/tail.go:91`): rotation is recognised by size
  only. If the new file has grown to the old offset, or the offset is 0, the tailer
  polls the renamed file until a later rotation is noticed; the comment says it re-opens on
  rotation.
* `collector_host` (`internal/container/mapper.go:148`): `evictLoop` skips nil entries,
  so "host process" is remembered for ever, also for a later process in a container.
* `collector_layout` (`internal/collector/collector.go:45`): `RawEvent` has three bytes
  of padding before `Comm` that `struct event` has not (a `char` array needs no
  alignment). Both are 192 bytes long, but Comm and Filename lose their first three
  bytes, and DPort and DAddr are read from the wrong place.

Deviations that a property excludes explicitly and that have no run of their own:

* Close before the schema was ready: the worker returns at once, and the buffer is
  neither flushed nor counted (`postgres.go:165`, against the comment at 132).
* The sweep forgets the last signature too: after an idle time of window + cooldown the
  same stage set is reported again (`correlator.go:207`, against 197).
* A chain that qualifies by risk alone, without any tactic, has the signature "" and is
  taken for already reported (`correlator.go:183`, against 45).
* A ticker's older list, set last, undoes an API change until the next tick
  (`main.go:296`, against 157).
* The tracker reports every `Threshold` lines, not once per window (`tracker.go:42`), and
  never forgets an address that stays below the threshold.
* A signal does not end the process while the database leaves `ensureSchema` unanswered:
  pool.Close waits for its connection (`postgres.go:306`), although Close is "bounded by a
  timeout" (`postgres.go:132`).
* The errors of the log are ignored: on a full disk alerts are stored and dispatched without a
  line in the log (`alerter.go:277`), and a rename that fails costs a backup or lets the log
  grow on (`alerter.go:309`).
* When the reopen of a rotated log fails, the next poll opens at the end and skips what
  the new file has.
* A macro that has the name of a list breaks every reference `$name` to that list, and the
  ruleset does not compile (`macros.go:88`); a macro body with unbalanced parentheses can
  close the ones put around it. `RuleCompilerAssumption` excludes the first.
* Arguments beyond those a helper looks at are ignored (`parser.go:254`); `in` and the list
  helpers ignore case, `=` does not.
* A `connect` to an address that is not IPv4 carries the destination bytes of an earlier
  record (`ebpf/tracer.c:151`).
* A suppression with a hostname never matches a container finding, whose target has none.

## 7. Not modelled

The legacy Go rules are a table of pure predicates that only the parity test uses. ECS
and Slack formatting, signatures, configuration parsing, the read-only endpoints with
their authentication and statistics, and the other subcommands keep no state that another
part depends on. The contents of process lists and log patterns are data. The
characters of a condition are left out: it begins as lexical items in `Condition`, and in
`Rules`, where files are merged, it is the event kinds, lists and macros it refers to. The walk up the process ancestry is reduced to whether the
process still exists. Destination bytes of a connect are not followed, for no decision
reads them. A short write to the alert log counts as a lost line: the fragment it leaves is not
followed. The two counters of enrichment misses are one. In `Tailer`, the rest of a line whose first half was truncated away is not
written.

## 8. Plan

Done, in this order: `Store` with proofs; `Correlator` with proofs; `Alerter`; `Rules`,
`RulesReload`, `Detector`, `Suppressions`; `Tailer`; `RawEvent`, `Collector`; proofs for
`Alerter` and `Detector`; `Sink` and the refinement of it, checked and proved; `Condition` and
`RuleCompiler`; `Monitor` with proofs; leftover bytes in `Collector`; lists and macros in
`Rules`; proofs of `OnlySnapshots` and `EventsAccounted`.

Then `TailerProofs`; the cache properties of `Collector`, `DropCountSound`, `LogIsTail` and
`IncidentWindow`, proved; `RulesReloadProofs`, with the merge of the overlays.

Next:

1. `MacrosResolve`: the expansion of macros in a module of its own, as a function of the depth
   instead of RECURSIVE operators, so that the depth-first search can be proved about.
2. An abstract limiter (a set of accepted times) under `Alerter`.
3. The ancestry walk and its bounds.

## 9. Running

    tlc -workers 2 -config MCStore.cfg MCStore      # likewise for the other configurations
    tlapm AlerterProofs.tla                         # likewise for the other proof modules
