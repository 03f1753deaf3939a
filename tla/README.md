# Verification of `helper`

`helper` is a Go library of independent packages: small concurrent services
(a flush queue, a state machine, a download manager, statistics counters), an
HTTP API client, I/O pipelines, key/value stores, SQL and Redis helpers. There
is no main program that ties them together; each package is a component with
its own callers. This directory holds TLA+ models of the packages, the TLC runs
that check them, and TLAPS proofs about them. `PROJECT.json` lists components,
runs, the source lines every definition models, findings, hazards and theorems.

    tlc -workers 2 -config queue.cfg MCFlushQueue
    tlapm FlushQueueProofs.tla

## Inventory

| component | state | operations | hard behaviour | what makes it correct |
|---|---|---|---|---|
| `queue` | elements, flush function, cap, ticker, two unbuffered channels | Add, Flush, StartFlushThread, StopFlushThread, background flushThread | mutex held over a channel handshake; ticker races with stop; restart | no element lost, doubled or reordered; one flush thread; everything is flushed |
| `StateMachine` | two bounded channels, current/previous/next state, list of delayed actions, a timer and a goroutine per action | SetState, AddAction, Action.Stop, stateLoop, ActionThread, ClearActions | merge into an action that is firing; purge against firing timers; callbacks on full channels | an action runs at most once, in its state; list and threads agree; the purge ends |
| `dlmgr` | bounded channel, queue with condition variable, worker's Job and Cancel, contexts, files | Download, CancelDownload, StopAllWorker, ClearQueue, queueLoop, worker, request goroutine | late answers after a timeout; unsynchronised fields; lost wake-ups; broken and stalled bodies | each download ends once; success means a verified file |
| `stats` | terms with totals, minimum and maximum; two bounded channels; timers | NewCounter, AddTerm, Start, Add, handler goroutine | channels made by the handler; terms added during its start; resets ordered against counts | every event counted once; minimum and maximum of the closed periods |
| `HttpAPI` | API registry, registry of ongoing calls, context key/value map | RegisterAPI, DoAPI, Do (retry loop with callbacks) | request IDs and contexts shared by concurrent calls; retry count; callbacks that change the context | a call is listed while it runs; attempts are bounded and send what was given |
| `iohelper` pump, source, sink, filter | filters with their state, buffered output | Source.Read, Sink.Write, pump.Step, pump.All | EOF, error and filter output combined in one result | the output is that of the whole input; errors are reported |
| `iohelper` | files; rate limit cache | HashsumFromFile, ValidFileSum, HttpDownload, CopyFile; WriteWithRate, ErrorfWithRate | files written in place, crashes | success means the right file |
| `codec` | cipher state of a filter | CBC and CFB filters, Decrypt; encoders | chunks and padding | as above |
| shared preference | typed lists of elements, a file | Put, Get, ToFile, FromFile | truncation before write | what was saved is read back |
| `kvdb`, `boltdb` | ordered key/value sets, sequence numbers | Get, Put, Delete, Exist, Range, GetNextSequence | two transactions in one call; failing commits; ranges beside writes | answers are consistent; numbers increase; ranges are snapshots |
| `rocksdb`, its server and `rdb` | column families in memory and on disk, backups | New, Close, set, get, delete, flush, compact, backup, purge, restore | no write-ahead log; errors that are dropped; range iteration beside writes; next-key arithmetic | what was promised is durable; ranges are exact |
| `redisw`, migration | records, checkpoint | the migration loop | crash between record and checkpoint; failing records and connections | every record arrives |
| `sqlimpl` | tables | InitTables, StructScan, Insert, ... | rollback of DDL; end of rows | existing tables survive; all rows are seen |
| `syncmap`, `conf` | a locked map | Get, Set, iteration | | a map |
| `logger`, `fastjson`, `jsonrpc`, `rpc`, `lbs`, `sys`, helpers | none or constants | conversions, output, system calls | | |

The components interact by plain calls: `dlmgr` and `iohelper` use the
pipeline, `HttpAPI` uses `codec`, the migration uses `sqlimpl` and `redisw`.
Callbacks into caller code are made by `queue` (flush function), `StateMachine`
(state handlers, action functions), `dlmgr` (download callback) and `HttpAPI`
(request builder, response check, error callbacks).

## Modules

| module | models |
|---|---|
| `BatchSink` | abstract specification of a flush queue |
| `FlushQueue`, `MCFlushQueue`, `FlushQueueProofs` | `queue/queue.go` |
| `StateMachine`, `MCStateMachine`, `StateMachineProofs` | `StateMachine/sm.go` |
| `Downloader`, `DownloaderProofs` | `dlmgr/dlmgr.go` |
| `Counter`, `CounterProofs` | `stats/stats.go` |
| `HttpAPI`, `MCHttpAPI`, `HttpAPIProofs` | `HttpAPI/api.go`, `context.go`, `client.go`, `ValidStructType` |
| `Pipeline`, `MCPipeline` | `iohelper` pump, source, sink, filter; file functions of `iohelper.go`; filters of `codec` |
| `RangeScan` | pure: which keys `RangeForeach` and `RangeForeachByTS` visit, in which order |
| `RocksDB`, `MCRocksDB`, `RocksDBProofs` | `rocksdb/rocksdb.go`, `server.go`, `cmd/rdb` (extends `RangeScan`) |
| `KVDB`, `KVDBProofs` | `kvdb`, `boltdb`, `rocksdb/kvdb.go` |
| `Migration`, `MigrationProofs` | `redisw/cmd`, with `StructScan` and `redisw.GetInt64` |

Common conventions. A goroutine has a program counter; a step is one access to
shared state, one channel operation, or one critical section that does not
block inside. A mutex is a variable only where it is held over a blocking
operation (`StopFlushThread`, `ClearActions`); everywhere else the critical
section is one step. An unbuffered channel operation is one step of both
parties. A buffered channel is a sequence with a bound; a blocked sender keeps
its call in a variable. A panic ends the program: no step follows. Definitions
that begin with the comment "Slip:" are variants of the definition below them
with one plausible mistake; nothing uses them except the mutants listed in
`PROJECT.json`. Logging is left out throughout.

### FlushQueue

`elems`, `f`, `flushCap`, `flushTicker` are the fields of `Queue`. The k-th
`StartFlushThread` makes thread k and, if `t > 0`, ticker k, so `flushTicker`
can point to an old, stopped ticker as in the code. `flushThread` is split at
every access that is not under the mutex: it evaluates `q.flushTicker.C`,
receives, reads `q.f`, locks and flushes; after the abort it stops the ticker
`q.flushTicker` points to at that moment. The history variables `accepted`,
`settled` and `fate` record what was added, what `flushQueue` removed and who
got it. The check of the element type in `Add` is not modelled (a refused value
changes nothing), and `Elements` only reads. Flush functions do not call the
queue (they would wait for the mutex their caller holds).

`BatchSink` knows only `accepted`, `settled`, `fate` and the function: a flush
settles everything pending, in order; a close happens only when nothing is
pending. `FlushQueue` implements it with `func <- f`.

### StateMachine

The k-th `AddAction` builds action object k; `bound[i]` says which `AddAction`
an object carries after merges. `apc[i]` is the position of its `ActionThread`,
`armed[i]`/`timeC[i]` its timer (module go 1.16: a timer channel buffers one
value). `loop` is the position of `stateLoop`: `leave`, `enter` and `run` are
the caller's code, which may call `SetState`, `AddAction` and `Stop` itself and
then blocks `stateLoop` when the channel is full (`Callbacks`). `clear` and
`exit` are `ClearActions`, `drain` is the receive in `onAddActionMessage`.
States are registered once, before `Start`; an unregistered name is ignored as
in the code. A zero or negative delay sends the action straight to `actCtrl`.
`SendMessage` with a message of another kind is ignored by `stateLoop` and not
modelled.

### Downloader

Download j is the j-th call; it has context j and request goroutine j.
`wJob` and `wCancel` are read by others without the mutex, so each access is a
step: `CancelDownload` reads `w.Job` for nil, for the name and to keep it, both
cancelling calls read `w.Cancel` for nil and then to call it, and a read that
finds nil where the one before did not ends the program (`panicked`). The result of `req.WithContext` is dropped in the code, so an answer may
come at any time after the request. `err[j]` is the named result of `get`,
written by both goroutines: `Return` stores it, `Callback` reads it, and the
two writes of the request goroutine may fall in between. File contents are
`empty`, `good` (has the MD5 asked for) or `bad`; `Md5Hex` and `ContentHex` are
injective and never equal, except that an empty file and an absent checksum
both give the empty string. A name stands for its target file. A URL that does
not parse makes `Download` return before it changes anything. Reading the body
may fail; with a hash filter chained the error is lost in `Source.Read` and
`pump.All` does not end (`spin`). It may also stall (`stalled`): by then the
context is over, the request was never tied to it, and nothing else ends the read.

### Counter

A term is its duration in seconds. The handler makes its channels after it has
been started; an `Add` before that is stuck on a nil channel. `AddTerm` is
two steps without a lock, the look at `StartTime` and the insert into the map, and
the handler may start in between: such a term misses what was handled before
(`missed`), and if it comes after the timers were started (it is not in `timed`)
it has none. Two `AddTerm`s of one term may overwrite each other's Statistic. When
goroutines meet in the map, Go may end the program (`ConcurrentMap`). A message's time is that of `Add`, not of its
handling. Attached values are left out: they are added up next to the totals
and decide nothing. A counter may start with no terms: its
channels have no buffer then, and a sender meets the handler (`Takes`).

### HttpAPI

`call[c]` holds the locals of `Do`; a step is one access to the context or to
`OnGoingAPIs`. A Go type is a base type behind a number of pointers, which is
what `ValidStructType` looks at. `RegisterAPI` hands that function the
`reflect.Type` value itself, a pointer to a struct of package `reflect`, so the
check never refuses and an API may be registered for a pointer type, for which
every call is refused later; the model does the same. `ReqF` sends the object it finds in the
context; error callbacks answer anything and may replace that object. Retry
count and callbacks of a context are set before its first call. `alone` and
`ctxShared` record whether calls shared context or request ID. `IDsAssumption`: an
ID that comes in with a request is never one that `preDo` makes, since those
contain the address of a context of this process.

### Pipeline

A byte is a term that tells what it was made from, so that hash, encryption and
encoding are equal only when they were computed from the same bytes in the same
order. `Read` is `Source.Read` of one chunk with both places its output may be
in, `Step` a round of `pump.All` with `Sink.Write`. The reader cuts the input
anywhere, may return the end with its last bytes, and may fail, with an error alone or
with bytes before it; the writer may
fail after a part. `Whole` is the reference: the filters applied to the whole
input. `ValidFileSum`, `HttpDownload` and `CopyFile` are calls of the pump around
one file, which a crash leaves as it is.

### RangeScan and RocksDB

Keys are sequences of bytes. `RangeScan` has the byte order, the fields of a key,
the two hijacked keys and the two enumerations as pure operators, and the
reference `InTSRange`. What `bytes.Split` and `bytes.Join` make of a key is told
by its cuts, the positions of the separators (`Cuts`, `FieldAt`, `Joined`); an
iteration is the list of the keys it passes, each at its `Rank` among them.
`Uniform` is the key layout for which the enumeration by time stamp is claimed to
be right: the time stamp is the last field and not the first, it has the width of
both ends, and no prefix is empty or continues another one; a key has no byte 255.

In `RocksDB` `db` is memory, `disk` what a crash leaves; `stamp` and `persisted`
number the writes. The write-ahead log is off in the code, so only flushes,
compactions, `Close` and background flushes bring data to disk, and each of them may
fail, on a read-only database always. The server drops these errors and answers
`flush ok` or `compact ok`, which counts as a promise (`promised`) whatever happened;
`failed` holds the families whose last flush failed. When the program ends, or a
backup is made, while a family is in `failed`, the promises for what has not reached
the disk are given up (`Standing`). The delete of a single entry may fail too: a
range delete then goes on and answers ok, and the entry is in `kept`. A range request
has a snapshot (`keys`), the entries still to visit and those visited; other
requests take steps in between. `rdb` commands open the database, do one thing
and end without `Close`. The behaviour of the database itself (snapshots of
iterators, column families that must be opened, backups of files) is that of
gorocksdb's interface as the code uses it. Requests that are refused or that
panic in their handler change nothing and have no step.

### KVDB

Both implementations behind one interface, chosen in `Init`. A bolt transaction
is one step, except in `GetNextSequence`, whose write transaction is open between
taking the number and the commit, and in `Range`, which calls back entry by
entry; `todo` is the set of keys still ahead of its cursor, which takes the least
one. `kvdb.Get` is two steps. `seen` records the values the key had during a
call. What a crash does to rocksdb is the subject of `RocksDB`.

### Migration

One Redis command is one step; `log` holds the members that carry a time stamp,
`latest` those an account has once. A record is `plain`, `follow`, `unfollow` or
`bad` (no `acmac`), and its ID stands for its time stamps. `LastRow` is the end
of `rows.Next`, for whatever reason, since `rows.Err` is never asked. A failing command
may or may not have been done. `full` and `failed` record the fate of records, and
`torn` that a start went on from the checkpoint although the run before had begun
anew, after a failed read of the checkpoint, and not got back to it. The reference
is declarative: `Follows(a)` are the records that write an account's entries,
`Needs` the log entries of a record, `Final` an account's entry after one pass over
the table, `Migrated` what Redis then holds.

## Runs

Every run says `CHECK_DEADLOCK FALSE`: calls are bounded, callers may stop
calling, and the programs can really come to rest, wait for ever or panic; the
waiting that must not happen is stated as a liveness property instead.

| run | result |
|---|---|
| `queue` | two callers, one controlling, two starts, with/without ticker and cap: types, conservation, one flush thread, refinement of `BatchSink`; every element is flushed as long as a ticking thread is not stopped; a stop returns unless the thread has already taken a tick (`StopReturnsUnlessTick`) |
| `sm_safety` | two callers and callbacks, two IDs, two registered states of three, capacity 1: list and threads agree, purge complete for waiting actions, functions run at most once and in their state |
| `sm_live` | unbound actions with their own ID run and purges end, unless `stateLoop` hangs behind the thread of another action that is past its select (`PurgeBehindThread`, `DrainBehindThread`): these are the only ways it hangs when nobody calls `Stop` |
| `downloader` | two callers, two downloads, cancelling calls, channel capacity 1: each download in one place, success means verified unless the context ended before the answer; downloads end, unless the worker is caught in a body that breaks or stalls |
| `counter` | a short and a long term, there from the beginning or added by two goroutines at any time: minimum and maximum of the closed periods; long terms count once what was handled since they came, which is everything if they came before the timers, and are closed neither early nor twice; an Add that found its channel returns |
| `api` | two callers, two contexts, request IDs given or made: `RetriesFaithful`, `OnGoingExact`, every call returns |
| `pipe` | nine source chains, three sink chains, inputs of up to three bytes through a buffer of two, two calls: `PumpedExactly`, `DownloadIsVerified`, calls return unless the reader breaks behind a filter |
| `rocks` | two requests at once, two opens, two families, one backup, failing flushes and deletes: `RangeExact`, `DeleteSettles`, `PromisedIsDurable` |
| `kv` | two goroutines, two sets, two keys, four calls on bolt or rocksdb: `GetIsConsistent`, `SequencesIncrease`, `RangeIsSnapshot` |
| `migrate` | all tables of three records, three starts, one fault, batches and checkpoints of two: `CheckpointCovers`, `EndsAsMigratedOnce`, a run ends unless a record fails |
| `dl_late_answer` | violated: an answer after the timeout panics, cancels the next download, or turns an error into a success |
| `range_by_ts` | violated: a range by time stamp passes over the keys `ab,...` when there are keys `a,...` |

### Disagreements without a run

The modules state further claims of the repository's comments that the code does
not keep; each formula says so in its comment, and the property of a run next to
it shows that the named situation is the only one.

- `StopReturns` (`queue.go:121`): `StopFlushThread` sends on `abortChan` with the
  mutex held while a thread that has taken a tick waits for the mutex.
- `NothingDiscarded` (`queue.go:88`): the cap outlives the flush function; an Add
  after a stop that reaches it empties the queue into nothing.
- `PurgeEnds` (`sm.go:162`): `ClearActions` and an `ActionThread` whose timer has
  fired wait for each other.
- `LatestAddRuns` (`sm.go:179`): an `AddAction` merged into an action that is
  firing is lost.
- `BodyEnds` (`source.go:69`): a broken connection behind a hash filter keeps the
  worker in `pump.All`; in `Pipeline` this is the exception of `CallsReturn`.
- `TimedDownloadEnds` (`dlmgr.go:30`, "download timeout"): the context with the timeout
  ends when the answer comes, and nothing ends the read of a body that then stalls; the
  worker and every download after it wait for ever. In `DownloadEnds` the stall is an
  exception beside the broken body.
- `NoTermOnceStarted` (`stats.go:155`, "counter is already started at %s, can not add new
  term"): the handler may set `StartTime` and its timers between the look at `StartTime`
  and the insert. `LongTermsExact` says what the late term misses.
- `FlushOkIsDurable` (`server.go:195`, "flush ok", and 201, "compact ok"): the error of the
  flush is dropped (194, 197) and `CompactCF` has none. `PromisedIsDurable` counts out a
  family whose last flush failed, and nothing else.
- `DeleteOkDeletes` (`server.go:161`, `{"result":"ok"}`): `DeleteRange` swallows the error of
  every entry (`rocksdb.go:875`, 885), on a read-only database that of all of them.
  `DeleteSettles` counts out the entries whose own delete failed, and nothing else.
- `ShortTermsConserve` (`stats.go:112`): the message that closes a short period is
  counted nowhere.
- `HashSeesAll` (`filter.go:55`): bytes that come together with EOF are not hashed.
- a start of the migration that fails to read the checkpoint takes it for 0
  (`migrate.go:137`) and does old records again; if it ends on the way, `latest` has
  older entries than before, and the next start goes on from the old checkpoint.
  `EndsAsMigratedOnce` leaves this case out (`torn`).
- `CliDeletePersists` (`rdb.go:112`): a delete that `rdb` reports as done is lost
  at its exit unless the database happened to flush, since the write-ahead log is
  off and `main` never closes the database.

One call or one look at a line shows these: a first start with a cap and `t = 0`
evaluates `q.flushTicker.C` on a nil ticker (`queue.go:98`); an action that has
left the list for `actCtrl` escapes the purge of a state change (`sm.go:236`); two
Downloads of one name both pass the check for the name before either is queued
(`dlmgr.go:127`); a file that has the checksum asked for is fetched again, since
the hash filter is never chained (`dlmgr.go:186`); `WriteWithRate` tests and
updates the last time without a lock (`iohelper.go:172`); `InitTables` on MySQL
drops tables that existed before when one CREATE fails (`sqlimpl.go:141`);
`NextKey` follows 9 by `:` (`bytes.go:21`).

Bounds. Two callers are enough for every race of two goroutines the code has,
next to its own background goroutines; two starts, two actions or two downloads
are enough for an old one to meet its successor, which is what the stale-state
hazards need. Channels of capacity 1 make "full" happen in every run. The caps
0 and 2 with three Adds give a queue without cap, an exact hit and a backlog
left from before the cap was set. In `counter` the threshold is 1, so
that term 1 is short and 2 is long, and five seconds hold two periods of the long
term; counts of 2 tell messages from what they carry, three Adds fill the channel,
and two goroutines that add terms are enough to meet each other and the handler.
Two long terms at once are left to the proof. `counter` and `sm_live` have one caller:
what competes with it are timers and action threads. The downloads of `downloader`
carry a checksum (the longer path; without one any body is a success) and share
one file name, so that cancelling by name and the check of the existing file
meet the other download's entry and file; contents are the right one and another
one (an empty file matters only without a checksum). In `api` one context has the default
retry count and one has 0, and a request object has one pointer too many; one
callback per attempt is enough, since a further one only repeats the choice.
In `pipe` three bytes against a buffer and a block of two give full chunks, short
chunks and padding; the second call finds the file the first one, or its crash,
left. In `rocks` every flush, compaction and delete may fail each time; the two
requests are any two of set, get, delete, flush, compact and backup, over keys of two groups, with a limit of one where the server's
default applies; a second open sees what a crash left. In `kv` four calls hold a
get or a range with a put, a delete and another put beside it. In `migrate` three records in
batches of two give a full batch, a short one and an empty one, and all kinds in
all orders for one account; the second start follows a crash, a termination or
an end, and the third one a second run that redid old records and was broken off.

Fairness. Runnable goroutines run (weak fairness of the rest of a call that has
begun, of background goroutines, of timers and tickers); nobody is obliged to
call. Go picks at random among the ready cases of a select and serves blocked
senders and mutex waiters in turn, which justifies strong fairness of the
receives of `stateLoop` and the counter's handler, of blocked sends, and of an
`ActionThread` waiting for the list. `downloader` assumes that a request without
timeout is answered in the end (the code has no other way to end it), and nothing about the
answers to the others, about bodies, which may stall, or about cancelling calls. `counter` assumes nothing of
`AddTerm`. `api` assumes that a request ends, since the default
client has a timeout. `migrate` assumes that the program runs on once started and
that its commands end, with an error or without. `pipe` assumes that the steps of a call are
taken, which includes that `http.Get` in `HttpDownload` (`iohelper.go:120`, no timeout)
and every read return, with an error or without; one that does not holds the call for
ever. `rocks` and `kv` assume nothing.

## Proofs

The modules `*Proofs` hold for all values of the constants that the named
assumptions allow: any numbers of callers, calls, seconds, faults and starts, any
capacities. The bounds of the runs (`MaxAdds`, `MaxTime`, `MaxFaults`, ...) are
constants like the others, so a theorem does not depend on their size. The
assumptions say what the code says of its parameters (a term is a positive
duration and there are finitely many of them, a capacity is not negative; in
`RocksDB` a key is a sequence of bytes, there are finitely many keys, and limits,
field indices and times are integers) and, in `HttpAPI`, that incoming request IDs
differ from those made here. Each module has
one lemma per action, then the three facts about the inductive invariant, then
the theorems. Every inductive invariant was an invariant of a TLC run before it was
proved.

| theorem | property | inductive invariant |
|---|---|---|
| `FlushQueueProofs!TypeCorrect` | `TypeOK` | itself |
| `ConservationHolds` | `Conservation` | with `TypeOK` |
| `Refinement` | `ImplementsBatchSink` | `QInv` |
| `OneFlushThread` | `FlushThreadMatchesF` | `ThreadInv` |
| `StateMachineProofs!TypeCorrect`, `ListAndThreadsAgree` | `TypeOK`, `ListedHasThread` | `SMInv` |
| `PurgedBeforeEnter` | `PurgedAtEnter` | `PurgeOK` with `SMInv` |
| `RunsAtMostOnce` | `FiresAsAsked` (action property) | `OnceInv` with `SMInv` |
| `DownloaderProofs!TypeCorrect`, `NeverLostOrTwice`, `SuccessIsVerified` | `TypeOK`, `OnePlace`, `OkMeansVerified` | `DownloaderInv` |
| `CounterProofs!TypeCorrect`, `MinMaxKept`, `LongTermsCountExactly` | `TypeOK`, `MinMaxOfHistory`, `LongTermsExact` | `CounterInv` |
| `HttpAPIProofs!TypeCorrect`, `EveryAttemptFaithful`, `ListedWhileUnderWay` | `TypeOK`, `RetriesFaithful`, `OnGoingExact` | `HttpInv` |
| `KVDBProofs!TypeCorrect`, `GetAnswers`, `SequenceNumbers`, `RangeCallsBack` | `TypeOK`, `GetIsConsistent`, `SequencesIncrease`, `RangeIsSnapshot` | `KVInv` |
| `MigrationProofs!TypeCorrect`, `NothingSkipped` | `TypeOK`, `CheckpointCovers` | `MigrationInv` |
| `EndsExactly` | `EndsAsMigratedOnce` | `ExactInv` with `MigrationInv` |
| `RocksDBProofs!TypeCorrect`, `AnsweredIsDurable` | `TypeOK`, `PromisedIsDurable` | `RocksInv` |
| `RangesExact`, `DeletesSettle` | `RangeExact`, `DeleteSettles` | `VisitsOK` with `RocksInv` |

Why the invariants have the parts they have:

- **FlushQueue.** Conservation is about concatenation only: `flushQueue` moves a
  suffix (`ConcatAppend`, `ConstSeq`). A step of the queue is a step of `BatchSink`
  or leaves it unchanged; the one that needs an invariant is the end of
  `StopFlushThread`, which must find nothing pending: while a client is at `abort`
  or `join` it holds the mutex and the queue is empty (`StopHoldsMutex` in `QInv`).
  `ThreadInv` adds to `FlushThreadMatchesF` that only controllers stop and start,
  that `q.f` is clear while one is about to start, and that threads not yet
  started have no position; without these a start on top of a live thread is not
  excluded.
- **StateMachine.** `SMInv` is `TypeOK`, `RefsOK` and `ListedHasThread`. `RefsOK` says
  that messages, blocked calls and merges refer to actions that exist and that a
  merge joins two actions of the same ID; hence an object never changes its ID, and
  a thread that deletes by ID deletes its own entry. That a function runs at most
  once needs `OnePlace`, an action waits in at most one of a blocked call, `msgCtrl`,
  `actCtrl`, the drain and its thread, and `NotYetRun`, what is in one of these places
  has not run and no two live objects carry the same `AddAction`. `PurgeOK` says that
  whatever a purge must still stop is in its work list.
- **Downloader.** `OnePlace` counts places; its inductive form `PlacesOK` says that a download
  is in exactly one of them and occurs there once. `WorkerOK` ties `wJob` to the worker's
  position, also in a body that never ends. `RequestsOK` is what makes
  success mean a verified file: a request goroutine exists only for a download the
  worker has taken, and past the select it has written `err` for the last time,
  unless the answer was late.
- **Counter.** `PhasesOK`: before the handler runs, nothing is counted and no timer is
  set, so a term added by then has missed nothing; from then on `SumsOK` carries what a
  term `missed`, and that one without a timer is never closed. `BoundsOK` states minimum and
  maximum as bounds that are attained, and `ResetFacts` that `Statistic.Reset` keeps
  them so, in spite of 0 as "no minimum yet". `TimersOK`: a timer that has fired is in
  the channel once and is not set again until its reset is handled, and a deadline
  is never before the end of the period it closes.
- **HttpAPI.** `LocalsOK` and `FaithfulOK` relate the locals of `Do` to the context at
  each position of the retry loop; `AloneOK` says that a call that is `alone` is the
  only one with its context; `IDsOK` that its request ID is its own; `ListedOK` and
  `UnsharedOK` what is listed while calls run and that, with no context shared, every
  listed entry belongs to a running call.
- **KVDB.** No number issued is above the bucket's, and the one about to be committed is the
  bucket's next (`SeqsOK`); between its two transactions `Get` has seen the present
  value (`GetsOK`); the keys a range has called back and those in `todo` are together
  the asked ones, the former all below the latter (`InOrder`). That the least key is well defined is proved from the
  well-foundedness of the naturals (`WFMin`).
- **Migration.** Both the checkpoint and `idProcessed` are covered by `full` and `failed`
  (`Covered`); the checkpoint alone is not inductive, since it is copied from
  `idProcessed`. `RowsOK`: the rows of a query are consecutive and everything before
  the first row left is covered; `RecordOK`: a record with no command left is in `full`.
  `ExactInv` is about the contents of Redis. `LogOK`: the log has only what records
  need, and all of it for those in `full`; `InHandOK`: of the record at work, the
  commands no longer left have had their effect; `Settled(0)`: an account without a
  follow has no entries. `OrderOK` is what a single pass needs: while no record fails
  they are done one after the other, and, unless a rerun was torn, the accounts whose
  follows all lie before `idProcessed` have their final entries. When the last record
  is done these are all accounts.
- **RocksDB.** `StampsOK` orders the stamps: what is promised and what is persisted was
  written, what is promised is persisted unless the last flush of the family failed, and a
  family nobody has open has nothing that is not on disk; `BackupsOK` keeps the order
  in each backup, so that a restore does not lose it; `FamiliesOK`: a program that has
  ended has left no memory; `RequestsOK`: a compaction under way has persisted the
  families it has done, up to the stamps it found, but for those whose last flush failed
  (`Through`). `VisitsOK`: what a range request has
  offered, followed by what it still has to visit, is the enumeration of its snapshot;
  only limit, context and the end of the iteration end it; and what a delete has been
  through stays deleted but for later sets and for entries whose own delete failed
  (`Cleared`). With that, both properties come down to
  the enumerations themselves.
- **The enumerations.** The byte order is total (`LeqTotal`, `LeqTransitive`,
  `LeqAntisymmetric`), so ranks number the keys of a range and `Between` lists each of
  them once (`BetweenEnumerates`). By time stamp: numerals of one width are in byte
  order as their values are (`NumeralsInOrder`; `DigitsValue` for the numerals
  `FormatInt` makes, `BoundInOrder` for an end of the range); the two hijacked keys of
  a key enclose, in its group of keys with one prefix, exactly the time stamps of the
  range (`GroupEnumerates`); the incremented prefix leads behind the group and passes
  over nothing else (`NextGroup`; both need the layout); ever fewer keys lie ahead, so
  the walk from group to group ends (`FewerAbove`, `Chains`) and visits every group
  once (`GroupsInTurn`). Values and walks are recursive functions of numbers and keys;
  what is needed of them follows from looking at a least counterexample (`Least`).

Only model-checked:

- all liveness properties (`EventuallyFlushed`, `AddReturns`, `CallsReturn`, ...): the
  provers handle neither fairness nor `ENABLED`;
- `PumpedExactly`, `DownloadIsVerified` and `TypeOK` of `Pipeline`: what they say rests on
  folds over whole inputs (a chain of filters applied to all the bytes), which needs an
  induction over data.

## Plan

What would come next:

1. The parts of `Pipeline` that are about control: an error of reader or writer is
   never reported as success.
2. `InitTables` with its rollback, if `sqlimpl` grows past SQL text.

## Not modelled

- `logger`, `fastjson`, `lbs`, most of `codec`, `jsonrpc` and `rpc`: formatting and
  marshalling of one value, with no state between calls.
- `sys` and most helpers: system calls and reflection.
- `syncmap` and `conf`: every operation is one critical section over one map.
- `sqlimpl` apart from `StructScan`: text of SQL statements; what they do is the
  database's.
- `SharedPreference` and the rate-limited writers: one list written to one file, and
  a test and an assignment without a lock. Their hazards are plain from the lines
  named above or in `PROJECT.json`.
- `rocksdb`: `NewSecondary`, database options, what only reads properties.
