# A TLA+ model of android-debug-mcp

android-debug-mcp is an MCP server (TypeScript, `src/server/src/`) through
which an agent debugs an Android app: it starts a *session* on a device, records
logcat, evidence and screen recordings into a *run folder*, reads them back in
pages, windows and timelines, and closes the run again. One host can run several
server processes at once; they share the lock directory and the run root, and
nothing else. This directory holds TLA+ specifications of the parts whose
correctness depends on the order of things or on an algorithm with corners, the
configurations that model-check them with TLC, and machine-checked proofs.

All paths below are relative to `src/server/src/` unless they begin with `src/`.

## 1. Inventory

### Components, their state and operations

| component | state | operations |
|---|---|---|
| tuple lock, `store/lock.ts` | one JSON file per (device, user, package) in a global directory: runId, pid, start time (never recorded) | `acquireLock` (exclusive create, read, judge, evict, retry once), `release`, `readLockOwner`, `releaseLockIfOwner` |
| session manager, `session/manager.ts` | `sessions` by runId, `tupleIndex` | `start`, `resolveForStop`, `require`, `stop`, `abort`, `handleTimeout`, `teardown`, `unregister` |
| session, `session/session.ts` | `status`, `logcat`, `screenRecording`, timers, streams | `startLogcat`, `patchMetadata`, `appendEvent`, `begin/finalizeScreenRecording`, `markDegraded`, `finalize` |
| timers, `session/timers.ts` | hard cap (60 min), idle cap (30 min) | `start`, `touch`, `stop`, fire |
| health poll, `session/health.ts` | none between polls | `checkOnce`: list sessions, ask adb, mark degraded |
| run folder, `store/run.ts`, `store/metadata.ts`, `store/jsonl.ts` | `metadata.json`, four jsonl streams | `createRunDir`, `openStreams`, `closeStreams`, `patchMetadata`, `clearClosedRuns` |
| orphan recovery, `recovery/scan.ts`, `bootstrap.ts` | the list of one boot's orphans | `recoverOrphans`, `recoverOne`, then `connect` |
| logcat channel, `logcat/` | raw file and its flush chain, line buffer, worker chain, open entry, derived files | `start`, `onChunk`, flush, `handleLine`, the child's end, `shutdown`, `replayParse` |
| recordings, `adb/screenrecord.ts`, `media/` | one slot per session, a detached recorder and its file on the device | start, wait until ready, stop, pull, validate, remove, contact sheet |
| evidence pull, `evidence/mtimeCache.ts`, `runtime.ts` | local copies, `.mtime-cache.json` | list, compare, pull, write the cache, seal |
| log and evidence queries, `search/`, `evidence/` | none but the client's cursor | pages, newest, counts, marks |
| timeline and crash window, `mcp/tools/extract_*`, `logcat/ts.ts` | none | merge and group around a moment; shrink around a marker |
| wire, `wire/` | none | redacted snapshot, comparison of two |
| ui and capture, `ui/`, `annotate/`, `mcp/tools/capture.ts` | none of their own | read a dump, hit test, list, filter, badge |
| bundle, `bundle/` | none | copy a run folder, redact, pack |
| redact patterns, summary, source, store index, mcp registration | none of their own | see section 6 |

`PROJECT.json` lists every component with its files, and whether it is modelled.

### How they interact

A `start_session` call goes through the manager (in-memory tuple check), the
lock file, `createRunDir` and the evidence directories, and registers the
session and arms its timers. Only then, in the handler, come the device queries, the
provenance patch of `metadata.json`, the optional launch, the logcat channel and
the `session_start` event; a throw there calls `manager.abort`. A session is
ended by `stop_session`, by a timer or by that abort, all through
`manager.teardown`, which runs `session.finalize` (recording, logcat, metadata,
streams, lock, each step tried even if an earlier one failed) and then
`unregister`. The health poll marks sessions degraded from the side. A process
that dies leaves its lock file and its open run; the next process to boot scans
the run root before it serves, and finalizes the runs it takes for dead,
rebuilding the derived logs from the raw file.

While a session lives, its channel derives rows from the child's chunks, its
tool calls pull evidence files into one shared local directory, and at most one
recording runs on the device. Readers work on whatever of this is on disk, of a
live session or of a closed run.

Within a process everything interleaves at `await`s on one event loop. Between
processes, everything interleaves at file operations.

### What is hard, and what makes each component correct

* **Tuple lock.** Every decision is a read followed by an unlink of whatever the
  path names by then. Correct means: one session per tuple; nobody removes a
  lock other than the one it judged; no lock outlives its session; no call hangs.
* **Session life.** Stops, timer, abort and poll meet in `finalize`; a start
  call may be overtaken. Correct means: one teardown, nothing stranded whatever
  fails, a live session is whole, the disk agrees with memory, a stop that
  answers "stopped" has ended everything, every session ends.
* **Recovery.** A list of orphans is worked on while others start, close and
  clear runs. Correct means: no live run is finalized, an open run always has an
  explanation, every boot comes to serve.
* **Logcat channel.** Chunks, flushes, the worker and shutdown interleave,
  and each of them may fail. Correct means: the raw file is a gapless prefix of
  what was received; derived rows are what that log has, each once, whatever the
  chunks; shutdown drains and settles; a replay rebuilds exactly the rest.
* **Evidence pull.** The decision not to pull rests on a cache written after an
  await, of files that grow within the resolution of their mtime, by calls
  nothing serializes. Correct means: what is skipped is whole, and an answer has
  read at least what it listed.
* **Recordings.** Start, stop and finalize meet on one slot, adb fails between
  any two of their commands. Correct means: what is announced as saved is whole
  or known to be cut; a failed stop can be tried again; the end of a session
  accounts for every recording.
* **Paging.** The files grow between two pages and the cursor is the client's.
  Correct means: nothing lost, repeated or out of order, every page makes
  progress and fits.
* **Timeline and crash window.** Device stamps have no year and no zone; a
  window shrinks from two sides. Correct means: nothing in the window is missing
  in silence; the marker is still in what is shown.
* **Wire.** Redaction must hide every identity that it is told of and keep apart
  what differs; the comparison must not report noise nor hide a change.
* **Screen.** Views overlap, dumps are torn, filters and limits cut. Correct
  means: a tap lands on the view it names, nothing is tapped or drawn that the
  answer does not say.

* **Bundle.** A run may go on while it is copied. Correct means: nothing that was
  not redacted leaves it unless it was acknowledged, and nothing else is lost.

The hazards are listed one by one, at their lines, in `PROJECT.json`.

## 2. Modules

| module | what it is |
|---|---|
| `TupleSlot` | abstract: what the server takes a tuple lock for |
| `TupleLock` | the lock file of a tuple, used by start calls and recoveries of several processes |
| `SessionLifecycle` | the sessions of one process on one tuple, from start call to teardown |
| `OrphanRecovery` | extends `TupleLock` with the runs on disk and the boot scan |
| `LogDerivation` | the records and crash marks of a log: parser, pid tracking, replay, and their declarative account |
| `LogcatChannel` | extends `LogDerivation` with the channel of one session, its crash and the replays after it |
| `ScreenRecording` | the recordings of one session |
| `EvidencePull` | the lazy pull of one evidence source by concurrent calls |
| `Paging` | a client reading logs or evidence in pages while they grow |
| `Clock` | when a logcat line was written |
| `Timeline` | extends `Clock`: what was recorded around a moment |
| `CrashWindow` | the raw log around a crash |
| `ContactSheet` | the frames shown of a recording |
| `Wire` | snapshots of HTTP logs and their comparison |
| `Bundle` | what of a run folder is packed |
| `Screen` | what is on the screen, what a tap hits, what is listed and badged |
| `Tools` | composes the last seven: a run records, then a tool is called |
| `Listing` | how those seven sort a set, filter a sequence and add up its numbers |
| `*_proofs` | theorems about `OrphanRecovery` (and `TupleLock`, in the same module), `SessionLifecycle`, `ScreenRecording`, `EvidencePull`, `LogcatChannel`, `Paging` and `Tools`, with proofs |
| `Induction` | lemmas: induction over numbers, and what folds and recursive functions compute |
| `MC*` | the symmetry and constant sets TLC needs |

### TupleSlot and TupleLock

`TupleSlot` says that a tuple has at most one holder, until the promise is
`compromised`. `TupleLock` is the code: `path` is the file the lock path names,
identified by the run that created it (a run creates at most one), and `written`
the files that carry a readable owner. `pc[r]` says at which await a start call
stands, `rec[p]` the same for the boot recovery of process `p`. The action names
follow the code: `CreateExclusive`/`FindExisting` are the two outcomes of
`open(path, "wx")`, `ReadOwner` is `readOwnerOrThrow` with the liveness verdict,
`Evict` the unlink and the loop, `CheckOwner` and `ReleaseUnlink` the two halves
of `release()`, `RecoverInspect`, `RecoverFinalize`, `RecoverConfirm` and
`RecoverUnlink` the steps of `recoverOne` that concern the lock. `Crash` stops a
process and leaves its files; `Boot` may hand out a dead process's pid again.
Reading or removing the file may fail as well: then `acquireLock` throws
(`OpenOrEvictFails`), `release()` does (`ReleaseFails`), or a recovery passes on
(`RecoverReleaseFails`), and the file stays; a handle is released once only, so
that nobody tries again before the process is gone.
`misfired` is a history variable: some unlink removed a file its caller had not
read. The refinement mapping is `holders <- {r : pc[r] = "held"}`,
`compromised <- misfired`.

Left out: `force` (no caller passes it), start times (the default dependencies
return null, so no lock carries one), an external `rm` of the lock file.

### SessionLifecycle

One tuple in one process. `start[r]` is where a start call stands, `task[t]`
where a teardown task stands: a stop call, a run's timer callback or a run's
abort. What JavaScript runs between two awaits is one action. `patchMetadata`
is two, a read (`ProvenanceRead`, `FinalRead`) into `copy` and the rename
(`ProvenanceWrite`, `FinalWrite`). `BeginFinalize` is the guard of `finalize`
with the status flip and the timers' stop, which share a step with it;
`SkipFinalize` is its early return, after which the caller still unregisters.
`Faults` names which awaited operations may fail; `StepMayFail` is the
error list of `finalize`. `polled` is the session a health poll has listed
before adb answered. `StopTellsTheEnd` is about the answer of `stop_session`:
when it says that the session is over, nothing of it is still at work. The lock
is taken in one step here: what that abstraction hides is the subject of
`TupleLock`, and `SlotSpec` is checked of both. It is released in two, since the
handle is spent (`released`) before its file is unlinked: a second teardown finds
it spent and goes on, and an unlink that fails (`"release"` in `Faults`) leaves the
lock with this process for as long as it lives. `kept` remembers such runs.

Left out: a recording in progress (`ScreenRecording` has it;
`finalizeScreenRecording` catches its own errors); everything a start call does
before the manager; overlapping polls (at most one is in flight); the kinds of
events. `TimerFires` may happen at any time after the session is registered,
which allows more than the real caps do.

### OrphanRecovery

Each action is a step of `TupleLock` to which it adds what happens to
`metadata.json` (`meta[r]`: no folder, open, stopped, aborted, deleted), or it
leaves the lock alone. `Scan` is the one listing of a boot; `todo[p]` shrinks
as `LeaveOrphan` (live owner or unreadable lock) and `InspectOrphan` take the
oldest; `AbortOrphan` is the patch; `Connect` is `server.connect`, after the
scan. `ClearClosedRun` is `clearLocalRunLogs` of any serving process.
`finalized[r]` tells a patch of the run's own `finalize` that succeeded from one
that failed, and a run that has a session (`RegisterSession`) from one that has
only its metadata.json yet. A start call that fails between the two, in opening the
streams or making the evidence directories, releases its lock with the run still
open (`MayRelease`): no patch is made, and the next boot takes the run for an
orphan.

Left out: what `replayParse` writes (`LogcatChannel` has it); runs of other
tuples (they share no lock; the scan visits them in turn); several run roots.

### LogDerivation and LogcatChannel

`LogDerivation` knows a line by its kind, ten of them, which are the cases the
parser, the crash scan and the pid filter tell apart (its header lists them).
`Parse`, `HasSignature` and `Replay` are the code; `RecordsOf` and `MarksOf` say
without any order of steps which records and marks a log has.

In `LogcatChannel` a line is two pieces, the second ending in its newline, and a
chunk is any run of pieces, so that a chunk may begin and end inside a line.
`phase` is where `start` or `shutdown` stands. The raw writer is a queue, one
batch being written (`flushing`: idle, writing, or poisoned after a rejected
write) and the file; the worker is a chain of chunks, the lines of the one at
work, the carry of the line buffer and the entry still open. `FlushFails` leaves
any part of the batch on disk and rejects the chain; `HandleLine` may lose a
derived row; `CloseSeen` and `GraceEnds` are the two bounded waits of
`shutdown`. `Crash` ends the process at any moment, also because a chunk arrives
after the raw writer was closed; after it each `Recoverer` may truncate and
append to the derived files, several of them at once, and may die half-way.

Left out: a second shutdown (`SessionLifecycle` has it), the worker's events
(marks of lines the device dropped among them), the child's
output before it is read, pids other than the app's one.

### ScreenRecording

`start[r]` is where a start call stands, `at[t]` where a task that stops a
recording stands: a client's stop call or `finalize`. `slot` is
`Session.screenRecording`; `proc`, `remote` and `artifact` are the recorder on
the device, its file there, and the file in the run folder. The steps of a stop
(wait for the start, SIGINT, five seconds of grace, pull, validate, remove,
contact sheet) are shared by both kinds of task; where a failure leads is not:
a stop call fails and leaves the slot (`AdbFails`), `finalize` discards and gives
up (`DiscardKill`, `GiveUp`). `late`, `killed`, `invalid` and `pullers` are
history variables. A second `finalize` is left out, as are the times a recorder
may run: it may exit at any moment.

### EvidencePull

The device's files are append-only logs, known by their length; the mtime that
`stat` prints has the resolution of a second, so an append may leave it as it
was, and rolled files may disappear. A call reads the cache, lists, pulls each
due file in two steps (the local copy is truncated when the pull begins), writes
the cache, reads and reports. Searches and the seal of `stop_session` are calls
that interleave at all of these. The cache is written to a temporary file named by
the millisecond (`Stamp`), which is opened, and so emptied, written and renamed in
three steps, and a
call that picks the same millisecond opens the same file: a call that has opened
it goes on writing to it when another has renamed it (`writing` is the name that
the file has by then, the cache's perhaps, or none). What is read back may then be empty
(`Blank`) or no text of one writer (`Torn`); `readMtimeCache` throws on both, and so
does every later call of the source. `met` remembers which calls ran at once, since the properties
except a file that two such calls both pulled.

### Paging

A source is read from a byte offset (`logs`), from a line of a file (`stream`)
or from a sort key (`sort`), while lines are appended to its files and marks are
set between pages. A client holds one cursor; it may also submit foreign ones,
malformed calls, calls without pages (the newest records by the ring buffer, the
counts of groups). Whether a line matches a text is a property of the line. The last line of a
file may be there before its newline (`unended`, `Newline`): the pages of evidence
and its sorted answers read the whole file and have such a line when it parses,
logs and newest-first answers wait for the newline. Left out is redaction, which
comes after the size of a log page has been counted and may lengthen it.

### Tools and its parts

`Tools` has one run record up to a few items, or one screen show up to a few
views, and then calls one tool on it; its properties compare the answer with the
recorded items, by definitions that do not use those of the tool.

* `Clock` and `Timeline` (`logcat/ts.ts`, `mcp/tools/extract_evidence_context.ts`):
  a calendar of ten hours a year with a leap hour and daylight saving; stamps
  without year; merging, grouping, default filters, numbering of crashes, caps
  and warnings.
* `CrashWindow` (`search/crash_context.ts`): lines are kinds with two sizes, as
  logged and as redacted; the window, its shrinking, the lines that are shown whole
  once the redacted text has been cut at the budget, and the signature. A marker may
  be of a line that the raw file does not have yet.
* `ContactSheet` (`media/video_contact_sheet.ts`): frames with a time and a
  score; boundaries, coverage, the rest by strength and distance; ffmpeg fails
  where it likes.
* `Wire` (`wire/project.ts`, `snapshot.ts`, `compare.ts`): keys by one
  representative of each table, in the parameters of a request and in its device's
  headers, values by class and length; aliases, redaction, projection,
  normalisation, groups, statuses, budget, refusals.
* `Bundle` (`bundle/bundle.ts`, `mcp/tools/collect_bundle.ts`): files by place,
  name and lines; a line has something to redact or not, does not parse, or
  outgrows its stream; a directory of evidence may be empty, and is refused all the
  same if its profile is not there. The files after `listed` appear once the profile
  has been checked. Attachments, which are no text of lines and are packed as they
  are (`bundle/bundle.ts:160`), hold nothing here that redaction would remove; what
  tar leaves of an archive it fails to write is left out.
* `Screen` (`ui/`, `mcp/tools/capture.ts`, `tap_node.ts`, `list_elements.ts`):
  bounds are one interval, as both axes are treated alike; a substring is the set
  of values that contain it; dumps may be torn, commands fail, and so may any row
  of the run's streams that a call appends (`WithRows`).

## 3. Runs

Every passing run is exhaustive for its bounds. Deadlock is not checked: clients
and hosts may stop asking, so every model has legitimate final states.

| run | bounds | shows |
|---|---|---|
| `TupleLock` | 3 runs, 2 pids, 3 boots, failing file operations | `ExclusiveUnlessMisfired`, `LockHasOwner`; `SlotSpec`: the lock implements `TupleSlot`; `CallSettles`: no call hangs |
| `SessionLifecycle_one` | 1 run, 1 stop, its timer and abort, all faults, poll | `TeardownExclusive`, `NoStrandedTuple`, `FailedStartLeavesNothing`, `DiskMatchesSession`, `StopTellsTheEnd`; `EverySessionEnds`, `StartSettles` |
| `SessionLifecycle_two` | 2 runs, 1 stop, timers and aborts, all faults, no poll | `LiveSessionIsWhole` across a session and its successor; `SlotSpec`: sessions are holders of `TupleSlot` |
| `OrphanRecovery` | 2 runs, 2 pids, 3 boots, failing file operations | `OpenRunIsOwned`, `RecoverySparesLiveRuns`; `BootServes` |
| `LogcatChannel` | 5 logs of 2 lines that have every kind but a plain entry, in chunks of up to 2 pieces, a flush at 2 lines, all failures, 2 recoveries | `RawIsTruth`, `DerivedFollowsRaw`, `ShutdownDrains`, `RebuiltFromRaw`; `ShutdownSettles` |
| `ScreenRecording` | 2 recordings, 2 stops, finalize | `SavedIsWhole`, `StopCanBeRetried`, `NothingLeftBehind` |
| `EvidencePull` | 2 searches and a seal, 2 files of which one is rolled, lengths up to 2, 2 stamps | `SkippedIsComplete`, `AnswersAreWhole`, `TornByTwo` |
| `Paging` | 4 lines, 2 keys, limits 1 and 2, a budget of 2 | `PagesLoseNothing`, `PagesFit`, `AnswersAreExact` |
| `Tools` | 3 items, 5 raw lines, 5 frames of which 4 are shown, 3 requests, 2 files, 4 views | `TimelineIsHonest`, `WindowHoldsMarker`, `SheetSpansRecording`, `DiffIsExact`, `SnapshotIsRedacted`, `BundleIsRedacted`, `TapFindsTheView`, `ElementsAreHonest` |

Why the bounds suffice. A misdirected eviction takes a dead owner and two
callers, three runs; a misdirected recovery takes two runs and one more boot; a
pid used again takes two boots of one pid; three boots let one process die and
two others recover it at once. In a session, a stop, the timer and the abort are
three callers of one `finalize`, and two runs are a session and its successor on
the tuple; that two sessions *and* a dropped device meet is left out of
`SessionLifecycle_two` for its size, and covered by the proof of `SessionInv`.

In the channel two lines give a line cut by a chunk, an entry and what joins
it, and a line behind a failed one; the logs of `MCLogcatChannel` pair the kinds
whose handling depends on what came before (an entry kept only once its pid is
known after the entry that makes it known, a signature in a continuation, with
an entry to join and without one, the rest of a long line, a blank line where the
bytes counted run ahead). Two recordings are one and its successor on the slot,
two stops and `finalize` are all the ways two tasks meet on one. Two searches and the seal can
overlap in every pair, and with two stamps write under one name or under two; a
length of two is a file that grew once since it was
listed. Four lines and a limit of up to two are two pages with matching and
other lines between them. In `Tools` five raw lines have a marker with two lines
on each side, five frames are one more than a sheet shows, three requests are a
repeated one on one side, two files are a log beside evidence, either of which
may come late, four views a window with two overlapping siblings one
of which has a child.

**Fairness.** `TupleLock` assumes that a call which has begun a file operation
in a live process gets its answer; `SessionLifecycle` that the event loop runs
every continuation whose operation has completed, and that a timer fires, which
holds because adb calls carry timeouts and the rest are local file operations;
`OrphanRecovery` that a live process carries its boot scan through;
`LogcatChannel` that file operations answer, that chained work runs and that the
two waits of `shutdown` end, as they carry timeouts, and asks nothing of the adb
child, which may ignore both signals. No client is ever obliged to call, no
process to boot, and no crash is fair. Only weak fairness is used. The other
modules state no liveness and assume none.

## 4. Where the code departs from its documents

Each of these runs checks a sentence of the repository and TLC finds a
behaviour of the code that contradicts it. `PROJECT.json` "findings" quotes the
lines.

| run | what the trace shows |
|---|---|
| `TupleLock_OneSessionPerTuple` | two callers judge one dead owner; the slower unlinks the faster one's new lock; two sessions |
| `SessionLifecycle_StoppedRunIsClosed` | the start call's patch overwrites finalize's: the run reads active for ever |
| `LogcatChannel_MarkNamesRawLine` | the header is line 1 of the raw file and the worker counts from the line after it: a crash mark names the line before its own |

What holds is stated around these: `ExclusiveUnlessMisfired` and its refinement
say that the misdirected unlink is the *only* way the lock fails,
`TeardownExclusive` that the degraded status is the only way to a second
teardown, `DiskMatchesSession` that an overtaken start call or a failed step is
the only way the disk ends up disagreeing; the exceptions named in a property
are each a behaviour the code has. Such behaviours, met while modelling:

* *Locks and recovery.* `releaseLockIfOwner` has the window of `acquireLock`; an
  orphan is passed over when its tuple is in use again or its pid reused. A
  `release()` that fails is reported, but its handle is spent: the lock file names a
  live process that no longer uses it, and the tuple is refused until that process
  ends (`NoStrandedTuple` and `LockHasOwner` say that only this leaves one). A start
  call that fails after `createRunDir` wrote metadata.json leaves a run that reads
  active, without a lock, in a process that lives on. A run that its live session
  closes and unlocks after a booting server has listed it as open has no lock when
  the scan comes to it: it is patched from stopped to aborted, although "no lock at
  all" is to mean that "the run is provably dead" (`recovery/scan.ts:44-45`; what
  `RecoverySparesLiveRuns` promises ends with the session).
* *Sessions.* The second of two stops answers `active`; a degraded session is
  finalized, and its channel shut down, twice, and the second of its teardowns finds
  the lock's handle spent and may answer before the file is gone; a channel started after a
  teardown that overtook its start call runs on closed streams.
* *Evidence.* Two cache writers in one millisecond share a temporary name
  (`evidence/mtimeCache.ts:95,112`): the slower one's rename fails its call, and
  either may rename what the other has half written or just emptied, where
  `mtimeCache.ts:91-93` has "a torn write is never observable" and two writers that
  "can't collide on tmp paths". Nothing mends a torn cache, so
  that every later call of its source fails (`TornByTwo` says that it takes such a
  pair, whatever else fails). Of two overlapping pulls of one file either
  may leave its copy; what was pulled before a pull that fails is in no event.
  The cache can lie, where `mtimeCache.ts:17-25` has "a doubled pull, not a
  corruption": when two calls pull one file and the one that fails leaves no
  copy while the other saves its entry; and, found by the proof, without a doubled
  pull: a call holds a newer entry than the cache it has been overtaken in by a
  late rename, another is sent to pull the file by that older cache and fails,
  and the first, having pulled another file, writes its entry back (`Spoiled`).
* *Recordings.* One begun after `finalize` has passed is never stopped; an adb
  failure in the start loop leaves its recorder without a discard; when
  validation refuses an artifact the remote file is removed all the same and the
  slot stays held.
* *Paging.* The last line of an evidence file that has no newline yet is a record
  on the ascending and the sorted pages and is none newest first, which reads by
  `line_reader.ts`: its "`records[0]` is the newest matching record"
  (`docs/v2/preview-for-agent.md:42`) may be the one before it (`AnswersAreExact`
  says which). A logs cursor is bound to no run and no filter; records that tie on
  the sort key at a page boundary are lost; `scanned` counts the line that
  overflows the budget twice (`search/search_logs.ts:167,187`).
* *Crash window.* `snippetRange` names the lines that were fitted to the budget, of
  which the last ones may not be shown, as redaction may lengthen the text and it is
  then cut from its end: the marker line too, though "the snippet is shrunk
  symmetrically around the marker line" (`search/crash_context.ts:42-44`;
  `WindowHoldsMarker` says which lines are shown); the
  marker of a line that is not in the raw file yet is answered with the end of it.
* *Timeline.* Scoping to the app's present pids leaves out the lines of a process
  that has crashed; the sources before a refused one have been pulled already.
* *Wire.* An identity that only a signed form holds under a global key is not
  learned; a key that `project.ts` redacts and `compare.ts` does not list matches
  only between two snapshots, not against a plain value.
* *Screen.* `capture` refuses an `annotationId` out of range after the screenshot
  and the dump are saved, and records nothing of them; a dump that does not
  parse stays saved though `uiDumpPath` is null; when drawing fails, the event
  says how many badges a subset had while the answer says 0
  (`mcp/tools/capture.ts:107-108`, `493-497`); the dumps of two calls share one
  file on the device; the hit test may name an empty container although a view
  beneath its parent's sibling is a real leaf, as the rule is applied per level;
  an `input tap` that fails may have tapped, and is not recorded.

## 5. Proofs

Checked by TLAPS, the first two for any sets of runs and pids and any number of boots, from
the assumptions `ConstantsAssumption` (`None` is neither a run nor a pid, the
bound is a natural number) and, for recovery, `RunsAreNumbered`; the others
name their assumptions below.

* **`OrphanRecovery_proofs`**, of the lock file. `LockInvariant` proves `LockInv`, which is inductive;
  `TypeCorrect`, `ExclusionUntilMisfire`, `ExclusionWithoutDeaths` and
  `LockFileHasOwner` follow from it. The safety properties alone are not
  inductive: to know that an eviction is harmless one must know what it was
  decided on. `EvictedAreDead` says that every unlink in flight was decided on a
  run whose process has died, `RecordsWritten` ties the owner record to the
  phase of its run, `PathIsWorkers` says that the path names the file of
  whoever is creating, holding or releasing until the first misfire,
  and `MisfireNeedsDeath` that a misfire needs a death. `ImplementsSlot` proves
  `SlotSpec`: from `LockInv` each step is a grant, a vacating (a `release()` or a
  crash), a compromise or a stutter of `TupleSlot`.
* **`OrphanRecovery_proofs`**, of recovery. Each action of `OrphanRecovery` is by its
  definition a step of `TupleLock` or leaves the lock alone, so that `LockInv` need not
  be proved again (the lemma `LockInvHolds`). `RecoveryInvariant` proves `RecoveryInv`:
  a run has a folder only
  after it held the lock (`FolderNeedsLock`), scans list only runs with one
  (`OrphansHaveFolders`), and an open run is held or dead unless its patch failed or
  its start call did, before it came to have a session (`OpenIsHeld`). Together with `PathIsWorkers` it yields `OpenRunsAreOwned`
  and `LiveRunsAreSpared`: when recovery finds no live owner, a session that is
  still open cannot be the orphan, because the path would name its file.

* **`SessionLifecycle_proofs`.** `SessionInvariant` proves `SessionInv` from
  `ConstantsAssumption` (`None` is no task or run, the timer and abort tasks are
  no stop calls), for any numbers of start and stop calls, any faults and any
  dropped devices. That a live session is whole and that nothing is stranded
  depend on each other: a late `ReleaseLock` or `Unregister` spares the
  successor because it compares runs, and it frees its own tuple for good
  because no start call reuses a run. `StartStages` says what a start call owns
  at each stage, `TaskStages` that a task works on a session that exists, whose
  status is final once the guard of `finalize` is passed, and whose handle is spent
  once `release()` has run; `ReleasedOnce` that the lock of a spent handle is gone,
  being unlinked, or could not be (`kept`), which is the only way `TuplesAreFreed` and
  `FailedStartsLeaveNothing` leave one behind; `TasksKeepRuns` keeps timers and aborts on their own
  run; `RegisteredExist` and `FailedUnregistered` tie the registry to both.
  `TypeCorrect`, `OneTeardown`, `LiveSessionsAreWhole`, `TuplesAreFreed` and
  `FailedStartsLeaveNothing` follow. `ImplementsSlot` proves `SlotSpec`: a
  holder has the lock, so the slot is empty when the lock is granted
  (`SlotStep`), and no other step adds a holder (`HoldersShrink`).
  A second invariant on top of it, `EndingInv` (`EndingInvariant`), yields the
  other two safety properties, `DiskIsRight` and `StopsTellTheEnd`. What a stop answers and what metadata.json says at
  the end rest on what each step of `finalize` leaves behind, up to the task's last
  step (`StepsStay`): the status written, the channel shut down, the streams
  closed, the session out of the registry. No other step may undo it. A
  start call could, but it is over once a teardown begins, unless it was
  overtaken (`StartsAreOver`), which the two properties except; another
  teardown of the same degraded session writes the same status (`EndsAgree`), and
  its copy of the metadata, read earlier, has the provenance too
  (`ProvenanceKept`). The assumption that names of runs and of tasks differ was
  needed for this proof and is part of `ConstantsAssumption`.
* **`ScreenRecording_proofs`.** `RecordingInvariant` proves `RecordingInv` from
  `NamesAssumption` (`finalize` is no stop call, `None` no recording), for any
  numbers of recordings and stops and wherever adb fails. `TypeCorrect`, `SavedAreWhole`,
  `StopsCanBeRetried` and `NothingIsLeftBehind` follow. They are not inductive by
  themselves: that a closed session accounts for a recording rests on every
  earlier one being in the slot, saved or given up (`Accounted`), and on an ended session's slot holding only a late one
  (`SessionStages`); that a stop can be tried again rests on the file being
  there from the moment the recorder is seen until a task has fetched it
  (`RemoteKept`); and that what is saved is whole rests on what the task that
  saves it found at each stage (`TaskStages`, `PullStages`): no recorder runs
  after the grace, so the file that is pulled no longer grows.
* **`EvidencePull_proofs`.** `PullInvariant` proves `PullInv` from
  `CallsAssumption` (`None` is neither a file, a stamp nor a stat) and
  `TextsAssumption` (a blank or torn file is no cache), for any calls,
  files, lengths and milliseconds; `TypeCorrect`, `CacheIsHonest`, `TornCacheTakesTwo`
  and `AnswersWhole` follow. An entry is honest because of what is true of every
  place it is held in: the cache (`CacheIsTrue`), each call's memory
  (`MemIsTrue`) and, through its writer, a temporary file that is whole
  (`TmpHasWriter`).
  Files only grow, so that an entry that matches stat now has matched since it was
  taken (`EntriesArePast`). The one step that can break it is a pull that
  fails: it was due, so the entry the call had read did not match
  (`ListingIsLater`), and if the cache now holds another, a call it has met
  wrote it (`CacheIsAsRead`). The case that this leaves is `Spoiled`, which needs
  four calls and so is out of the run's reach. That a torn cache takes two writers
  rests on `WritesAlone`: of a call which met no other that had pulled
  (`Accompanied`), the file it writes has the name it was opened under, and what is
  renamed is what it wrote. `AnswersWhole` carries the same
  fact along a call (`CopyIsWhole`, `SeenIsWhole`, `DoneIsWhole`), with
  `Meetings`: whoever pulls a file while a call runs, or after a seal, has met it.

* **`LogcatChannel_proofs`.** `ChannelInvariant` proves `ChannelInv` from
  `ConstantsAssumption` (some log is the longest; no log has a `header` line), for
  any logs, chunks and flushes and wherever a write fails; `RawFileIsTheTruth`,
  `DerivedFilesFollow` and `ShutdownLeavesNothing` follow. On the raw side the
  file, the batch and the queue are one sequence of pieces (`RawIsTruth` is
  inductive but for `RawStages`: no batch without a write, no doFlush on a
  rejected chain, an empty queue after the last one). On the derived side the
  chunks of the chain follow one another up to what was received (`ChunksJoin`),
  and as long as no line was forced out and no chunk came after `finish()`
  (`Whole`) the lines handled, the lines of the chunk at work and the piece in the
  buffer make up what was taken of it (`LinesInOrder`), so that a line has the
  number it was logged under. The entry still open is then the last record of the
  lines handled, and all before it have been appended or were not to be kept
  (`RecordsInOrder`): one more line adds a record, extends the last one or does
  nothing (`EntryAdds`, `ContinuationJoins`, `BlankIsNone`), and `ProcessLine`
  does the same.
* **Replays.** `ReplayInvariant` proves `ReplayInv` in the same module, for any
  number of boots that replay the file; `ReplayRebuilds` and `ChannelTypeCorrect`
  follow. It says that what is in the derived files and what is still to be
  appended is of the raw file (`NothingElse`); that unless a replay died
  half-way, one of them has or will have appended everything since the last
  truncation (`NothingLeftOut`: the one that truncated last, whoever else
  appends); and that one alone appends it in order (`InOrder`). What the loop of
  `replayParse` computes of a file of any length is proved by induction over its
  lines: `ReplayLineReads` is the step, `ParsedHasRead` the whole loop,
  `ReadsItAll` that the test which may end the loop early, bytes counted against
  a length in units, does so only at the end unless wide lines and blank ones meet.
* **`Paging_proofs`.** `ReadingInvariant` proves `ReadingInv` from
  `BoundsAssumption` (limits, budget and keys are positive) and
  `NoneAssumption` (`None` is no cursor), for any limits, budget, number of lines
  and of keys; `ReadingLosesNothing` and `EveryPageFits` follow. That nothing is lost is a
  statement about a whole reading, and says nothing of one that is under way:
  the invariant says what its cursor stands for. A cursor has passed (`Passed`)
  what sorts before it; of what was sought, it has passed only what was
  returned, or what ties (`ReadSoFar`). `PagesContinue` proves this of a single page,
  for each of the three ways to read: it returns what the cursor has not passed, in order
  and from the first on, and the cursor it hands out has passed just that besides. An
  appended line comes after those of its file (`AppendedLinesAreKept`), so that no
  cursor of a log has passed it, while of evidence only what was there when the reading
  began is promised; a cursor that does not decode is refused and changes
  nothing (`AcceptedCursors`). `AnswersWithoutPages` needs no cursor: the ring
  of the newest records holds the last ones put in it wherever it wraps, and is
  given every line but those whose newline is missing
  (`PutHolds`, `RingIs`), and the counts shown and those left out add up
  (`ShownCount`, `AggregatedCounts`). What sorting and adding up give for any set
  is `SortedEnumerates`, by the place of each element, and `TotalIs`, by induction.
  TLC has checked `ReadingInv` too, with three lines in place of four.
* **`Tools_proofs`.** A tool is a function of what was recorded, so each of these
  has two halves: what the function returns of *any* recording, a lemma without
  a state, and a small inductive invariant saying that the answer is that
  function's of a recording of the right shape.
  - `BundlesRedacted` (`BundleInv`: files of one run have different names):
    `PackedIs` says what each file becomes in the bundle and `PackedApart` that
    no two become one, so that the bundle has exactly as many files as expected;
    `RewriteRedacts` that a rewritten file keeps the number of its lines that parse.
  - `WindowsHoldMarkers` (`CrashInv`), from `CrashAssumption` (the budget is a
    number, `NoLine` is none): `ShrinkOnce` is one round of the loop that
    shrinks the window, from the front and the back in turn while there is a line
    to drop there and never past the marker; `FitsWell` is the loop, by induction
    over its rounds. What is proved of the lines shown is what the code keeps: the
    first ones of the fitted range, up to what the budget has room for once they are
    redacted, and all of it unless one of them was lengthened by that or is longer
    than the budget itself.
  - `SheetsSpan` (`SheetInv`: frames are recorded in order of time), from
    `SheetAssumption` (a sheet has room for three frames and a column): `SlotsCover`
    says that every frame between the first and the last is in some stretch and
    `SlotsFit` that there are never more stretches than room, `CoveredIs` and
    `SelectsTried` what the two loops have chosen so far, and `Ascending` that
    sorting what they chose by time leaves a sheet in order.
  - `SnapshotsRedacted` (`WireInv`: what a run logs are requests): `LearnIs` and
    `LearnedIs` say that the alias table holds the identities of the whole log,
    each once; `ScrubIs` and `ShownIs` what is shown of a value under that table.
  - `DiffsAreExact` (`WireInv` again). The comparison sees only aliases, in an
    order that each log gives anew, and the property speaks of the requests. The
    argument is that both have the same kernel: `NormIs` and `PairsMirror` give
    what a parameter is compared by as a function of its key and the class of its
    value, and `RequestsAgree` follows, two requests looking alike just when they
    mean the same, and falling in one group just when they have one endpoint.
    `SidesMatch` makes of this a bijection from meanings to what is seen, of
    the same multiplicities, `GroupsMatch` carries each status across, and
    `ReportsAreCounted` the numbers. `FitsAreHonest` says that `truncated`
    tells whether a group that differs was left out, whatever the budget.
  - `TapsFindTheView` (`ScreenInv`: a view is at most one deeper than the one
    before it), from `ScreenAssumption` (`Null` is nothing that a tap resolves to, no
    number and no error).
    `DumpsAreTrees` says that whatever the tags, torn dumps included, what is read
    is a tree in document order, since the open views are always one line from a
    window down to where the last view was read (`IsRead`, kept by each tag);
    `WholeDumpsAreOk` that a dump that is not torn closes every view it opens.
    Of such a tree, `ForestInduction` follows parents up, `Leaves` and `SiblingsPart`
    say where two lines part and in which order; `DescendFinds` what the descent
    has chosen at each level, and `TapsFind` that this is the view in front.
  - `ElementsAreListed` (`ScreenInv` again, and that a call's filter and limit are
    those of a call). The property gives each view a place by counting those that
    come before it in an order; the code walks the windows backwards and of each
    the children before their parent, joins what it found, filters and cuts. The two
    meet in `Rises`: a sequence holds a set, in an order. `RisesInAll` joins many
    such sequences, `RisesOnly` filters one and `RisesMapped` maps it, and
    `RisesCounts` says that in a rising sequence of an asymmetric order an element's
    place is the number of those before it, so that none is there twice.
    `PartsRead` and `WindowsRead` say that the walk is in the order of the property,
    `ListingsRise` follows it up from the leaves, and `FilterKeeps` that a filter
    said of an element is what is wanted of its view, in particular that bounds
    meet the viewport just when a pixel of the view is on the screen. `BadgesAre` and
    `CapturedIs` are the badges and all the ways in which a capture may end;
    `CentresAreHit` is `TapsFind` at the centre of an element.
  The values in `WireWords` and the keys in `WireKeys` are the representatives that
  the requests of `Tools` are built from; of them the proofs use only that no
  value is itself one of the redaction's two markers. The logs may be of any length.
  So may a screen be of any number of views: of `Views`, `Filters` and `Devices`
  the proofs use only that readable bounds are two integers, that a filter looks
  at `text` and `id`, and that a width is positive.
* **`Induction`** has what these proofs need of numbers and folds. The library's
  induction rules take a predicate, which cannot be instantiated here; `UpTo` takes
  the set of the numbers it holds of, and is proved from `NatLessThanWellFounded`
  by a least counterexample. A fold of the community modules is a `CHOOSE` of
  the function that iterates it: `IterExists` shows that there is one, and
  `StepsExist` the same of a recursive function over numbers.

The inductive invariants and the type invariants that these theorems establish
for every instance are not repeated as invariants of the runs.

Only model-checked: of `Tools`, `TimelineIsHonest`, which holds of the calendar
that the run is given and not of any six numbers; and
every liveness property
(`CallSettles`, `BootServes`, `EverySessionEnds`, `StartSettles`,
`ShutdownSettles`), which the proof system cannot reach.

## 6. What is left

Worth modelling next, in order:

1. `store/jsonl.ts`: the append queue and syncs of a stream; `appendCommand`, and
   the idle timer it touches.
2. `redact/`: nested values and what is hidden in them; `summary/`: the counts
   it prints.
3. `store/` run index and lookup: names minted at once, the symlink index.
4. `source/`: which candidates a tap's node is matched with.
5. `annotate/`: that badges do not cover one another.

Not modelled, and why:

* `profile/` parsers and `ui` text decoding: one text format each, covered by
  example tests; the models take what they yield.
* Of `wire/compare.ts`, the legacy format `fromBaseline` reads; of
  `wire/project.ts`, values nested in values; the writing of a snapshot's two
  files, one after the other, which a crash can part.
* The redaction of a page of logs, which comes after its size was counted
  (`search/search_logs.ts:186,196`): `PagesFit` is about the sizes that are counted.
* Device tools other than `tap_node`: one adb command and one row each.
* `adb/` beyond stat, list, pull, dump and size: child processes and the parsing
  of what they print.
* `mcp/` registration and error contracts: schemas, no state.
