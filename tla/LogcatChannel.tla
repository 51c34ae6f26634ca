---------------------------- MODULE LogcatChannel ----------------------------
(***************************************************************************)
(* One session's logcat channel: the adb child, the raw writer and its     *)
(* flush chain, the line buffer, the worker that derives logcat.jsonl and  *)
(* crash.jsonl, shutdown (logcat/channel.ts, raw_writer.ts, worker.ts,     *)
(* line_buffer.ts, process_tracker.ts), and after a crash of the process   *)
(* the replays of its raw file by booting servers.                         *)
(*                                                                         *)
(* A line is two pieces, of which the second ends with the newline; a      *)
(* chunk is any run of pieces.  Piece 0 is the session_start line, pieces  *)
(* 2i - 1 and 2i are line i of the child.  A line cut off in its middle is *)
(* cut inside its message and keeps its kind.  What the child has written  *)
(* and the process not yet read is not a state: a chunk is what it is when *)
(* it is read.  Events of the worker are left out; a second shutdown is    *)
(* SessionLifecycle's.                                                     *)
(***************************************************************************)
EXTENDS LogDerivation

CONSTANTS
    Recoverer,      \* boots that replay the raw file after a crash
    Logs,           \* what the child may write, as lines by their kinds
    MaxChunk,       \* bound on the pieces of a chunk
    FlushLines,     \* lines queued that make the raw writer flush
    RawMayFail,     \* whether a write or fdatasync of the raw file can fail
    DerivedMayFail  \* whether an append to a derived file can fail

ASSUME ConstantsAssumption ==
    /\ Logs \subseteq Seq(Kind \ {"header"})
    /\ \E log \in Logs : \A l \in Logs : Len(l) <= Len(log)
    /\ MaxChunk \in Nat \ {0} /\ FlushLines \in Nat \ {0}
    /\ RawMayFail \in BOOLEAN /\ DerivedMayFail \in BOOLEAN

VARIABLES
    phase,          \* where start or shutdown is
    state,          \* LogcatChannel.state
    child,          \* the adb process
    childClosed,    \* its close event has been seen
    lines,          \* what it has logged and onChunk has seen
    received,       \* pieces handed to onChunk
    rawQueue,       \* RawWriter.pending
    wanted,         \* a doFlush is waiting in the chain
    flushing,       \* RawWriter.flushing
    batch,          \* pieces the doFlush at work has taken
    disk,           \* pieces in logcat.raw.txt
    chunks,         \* chunks waiting in the worker's chain
    work,           \* lines of the chunk at work
    carry,          \* the piece in the line buffer, or 0
    rawLineNo,
    pending,        \* the entry still open
    pidKnown,       \* the app's pid is in ProcessTracker.pids
    drainTo,        \* pieces received when finish() was called
    jsonl,          \* records of logcat.jsonl
    marks,          \* line numbers in crash.jsonl
    lost,           \* history: a derived write has failed
    replay          \* what each recoverer is at

workerVars == <<chunks, work, carry, rawLineNo, pending>>
derived    == <<jsonl, marks, lost>>
rawVars    == <<rawQueue, wanted, flushing, batch, disk>>
childVars  == <<child, childClosed, lines>>
vars == <<phase, state, childVars, received, rawVars, workerVars, pidKnown,
          drainTo, derived, replay>>

-----------------------------------------------------------------------------
Starting == {"uid", "spawn", "open"}
Wired    == {"running", "term", "kill", "drain", "flushLine", "flushEntry",
             "close", "down"}       \* the child's events have listeners
Closed   == {"close", "down"}       \* RawWriter.closed
Alive    == Starting \union Wired

(* The lines of the longest log.                                           *)
MaxLines == CHOOSE n \in {Len(l) : l \in Logs} : \A l \in Logs : Len(l) <= n

Piece  == 0 .. 2 * MaxLines
Record == [no : 1 .. 2 * MaxLines + 2, lines : SUBSET (1 .. MaxLines + 1)]
Idle   == [at |-> "idle", todo |-> <<>>, todoMarks |-> <<>>]

ChannelTypeOK ==
    /\ phase \in Alive \union {"failed", "crashed"}
    /\ state \in {"running", "terminated", "stopped"}
    /\ child \in {"none", "running", "exited", "closed"}
    /\ childClosed \in BOOLEAN
    /\ lines \in Seq(Kind) /\ \E log \in Logs : IsPrefix(lines, log)
    /\ received \in Piece /\ drainTo \in Piece
    /\ rawQueue \in Seq(Piece) /\ batch \in Seq(Piece) /\ disk \in Seq(Piece)
    /\ wanted \in BOOLEAN
    /\ flushing \in {"idle", "writing", "poisoned"}
    /\ chunks \in Seq([from : Piece, to : Piece])
    /\ work \in Seq([at : 1 .. MaxLines, kind : Kind])
    /\ carry \in Piece
    /\ rawLineNo \in 0 .. 2 * MaxLines
    /\ pending \in Record \union {NoEntry}
    /\ pidKnown \in BOOLEAN
    /\ lost \in BOOLEAN

TypeOK ==
    /\ ChannelTypeOK
    /\ jsonl \in Seq(Record)
    /\ marks \in Seq(1 .. 2 * MaxLines + 2)
    /\ replay \in [Recoverer -> [at : {"idle", "appending", "done", "dead"},
                                 todo : Seq(Record),
                                 todoMarks : Seq(1 .. 2 * MaxLines + 2)]]

Init ==
    /\ phase = "uid" /\ state = "running"
    /\ child = "none" /\ childClosed = FALSE
    /\ lines = <<>> /\ received = 0 /\ drainTo = 0
    /\ rawQueue = <<>> /\ wanted = FALSE /\ flushing = "idle" /\ batch = <<>>
    /\ disk = <<>>
    /\ chunks = <<>> /\ work = <<>> /\ carry = 0
    /\ rawLineNo = 0 /\ pending = NoEntry
    /\ pidKnown \in BOOLEAN             \* seedPids
    /\ jsonl = <<>> /\ marks = <<>> /\ lost = FALSE
    /\ replay = [p \in Recoverer |-> Idle]

-----------------------------------------------------------------------------
(* LogcatChannel.start.                                                    *)

PhaseMoves(from, to) == phase = from /\ phase' = to

(* getAppUid answers; the tracker is made and its poll started.            *)
GetAppUid ==
    /\ PhaseMoves("uid", "spawn")
    /\ UNCHANGED <<state, childVars, received, rawVars, workerVars, pidKnown,
                   drainTo, derived, replay>>

(* The ring buffer is resized, at best, and adb logcat spawned.            *)
SpawnChild ==
    /\ PhaseMoves("spawn", "open")
    /\ child' = "running"
    /\ UNCHANGED <<state, childClosed, lines, received, rawVars,
                   workerVars, pidKnown, drainTo, derived, replay>>

(* The raw file is open, its first line queued, the worker made and the    *)
(* child's events wired.                                                   *)
OpenRaw ==
    /\ PhaseMoves("open", "running")
    /\ rawQueue' = <<0>>
    /\ wanted' = (FlushLines = 1)
    /\ UNCHANGED <<state, childVars, received, flushing, batch, disk,
                   workerVars, pidKnown, drainTo, derived, replay>>

(* A step of start throws: the tracker stops, the child is killed.         *)
StartFails ==
    /\ phase \in Starting
    /\ phase' = "failed"
    /\ child' = IF child = "running" THEN "exited" ELSE child
    /\ UNCHANGED <<state, childClosed, lines, received, rawVars,
                   workerVars, pidKnown, drainTo, derived, replay>>

-----------------------------------------------------------------------------
(* The child.                                                              *)

(* The device is unplugged, adb is killed, or SIGTERM or SIGKILL worked.   *)
ChildExits ==
    /\ phase \in Alive
    /\ child = "running"
    /\ child' = "exited"
    /\ state' = IF phase = "running" THEN "terminated" ELSE state
    /\ UNCHANGED <<phase, childClosed, lines, received, rawVars,
                   workerVars, pidKnown, drainTo, derived, replay>>

(* Its stdout has been read to the end.                                    *)
ChildCloses ==
    /\ phase \in Alive
    /\ child = "exited"
    /\ child' = "closed"
    /\ childClosed' = (phase \in Wired)
    /\ UNCHANGED <<phase, state, lines, received, rawVars, workerVars,
                   pidKnown, drainTo, derived, replay>>

-----------------------------------------------------------------------------
(* onChunk: the byte tee, then the chain.                                  *)

Newlines(s) == Len(SelectSeq(s, LAMBDA p : p % 2 = 0))

Pieces(from, to) == [i \in 1 .. to - from + 1 |-> from + i - 1]

(* RawWriter.flush: a doFlush joins the chain; on a rejected chain it is    *)
(* never run.                                                              *)
DoFlush(due) == wanted' = (wanted \/ (due /\ flushing # "poisoned"))

(* The child's next n pieces are read, of one of the logs that begin so.   *)
Reads(n) ==
    LET to == received + n
    IN  /\ phase \in Wired \ Closed /\ child # "closed"
        /\ received' = to
        /\ \E log \in Logs :
              /\ IsPrefix(lines, log) /\ to <= 2 * Len(log)
              /\ lines' = SubSeq(log, 1, (to + 1) \div 2)

(* Mutant: the tee waits for the derived work before it.                   *)
OnChunkGated(n) ==
    /\ Reads(n)
    /\ rawQueue' = IF chunks = <<>> THEN rawQueue \o Pieces(received + 1, received + n)
                   ELSE rawQueue
    /\ DoFlush(Newlines(rawQueue') >= FlushLines)
    /\ chunks' = Append(chunks, [from |-> received + 1, to |-> received + n])
    /\ UNCHANGED <<phase, state, child, childClosed, flushing, batch, disk, work, carry,
                   rawLineNo, pending, pidKnown, drainTo, derived, replay>>

OnChunk(n) ==
    /\ Reads(n)
    /\ rawQueue' = rawQueue \o Pieces(received + 1, received + n)
    /\ DoFlush(Newlines(rawQueue') >= FlushLines)
    /\ chunks' = Append(chunks, [from |-> received + 1, to |-> received + n])
    /\ UNCHANGED <<phase, state, child, childClosed, flushing, batch, disk, work, carry,
                   rawLineNo, pending, pidKnown, drainTo, derived, replay>>

-----------------------------------------------------------------------------
(* RawWriter.                                                              *)

(* The interval timer; a doFlush with nothing queued would do nothing.      *)
FlushTick ==
    /\ phase \in Wired \ Closed
    /\ rawQueue # <<>>
    /\ DoFlush(TRUE)
    /\ UNCHANGED <<phase, state, childVars, received, rawQueue, flushing, batch,
                   disk, workerVars, pidKnown, drainTo, derived, replay>>

(* The next doFlush of the chain takes all that is queued.                 *)
FlushStart ==
    /\ phase \in Wired
    /\ wanted /\ flushing = "idle"
    /\ wanted' = FALSE
    /\ batch' = rawQueue
    /\ rawQueue' = <<>>
    /\ flushing' = IF rawQueue = <<>> THEN "idle" ELSE "writing"
    /\ UNCHANGED <<phase, state, childVars, received, disk, workerVars,
                   pidKnown, drainTo, derived, replay>>

FlushDone ==
    /\ phase \in Wired
    /\ flushing = "writing"
    /\ flushing' = "idle"
    /\ disk' = disk \o batch
    /\ batch' = <<>>
    /\ UNCHANGED <<phase, state, childVars, received, rawQueue, wanted,
                   workerVars, pidKnown, drainTo, derived, replay>>

(* The write or the sync fails, some of the batch written: the chain is    *)
(* rejected, and no doFlush runs on it any more.                           *)
FlushFails ==
    /\ RawMayFail
    /\ phase \in Wired
    /\ flushing = "writing"
    /\ \E n \in 0 .. Len(batch) : disk' = disk \o SubSeq(batch, 1, n)
    /\ flushing' = "poisoned"
    /\ batch' = <<>> /\ wanted' = FALSE
    /\ UNCHANGED <<phase, state, childVars, received, rawQueue, workerVars,
                   pidKnown, drainTo, derived, replay>>

-----------------------------------------------------------------------------
(* The worker.                                                             *)

(* LineBuffer.push: each newline ends a line, whose beginning may be the   *)
(* carry; what then remains of a long line is forced out as a line, so     *)
(* that its end becomes a line of its own, which no pattern matches.       *)
Pushed(c) ==
    LET ended == (c.from - 1) \div 2
        rest == IF c.to % 2 = 1 THEN c.to ELSE 0
        forced == rest # 0 /\ lines[(rest + 1) \div 2] = "long"
        Line(n) == [at   |-> n,
                    kind |-> IF 2 * n = c.from /\ carry = 0 THEN "cont"
                             ELSE lines[n]]
    IN  [lines |-> [i \in 1 .. c.to \div 2 - ended |-> Line(ended + i)] \o
                   (IF forced THEN <<[at |-> (rest + 1) \div 2, kind |-> "long"]>>
                    ELSE <<>>),
         carry |-> IF forced THEN 0 ELSE rest]

ProcessChunk ==
    /\ phase \in Wired
    /\ work = <<>> /\ chunks # <<>>
    /\ work' = Pushed(Head(chunks)).lines
    /\ carry' = Pushed(Head(chunks)).carry
    /\ chunks' = Tail(chunks)
    /\ UNCHANGED <<phase, state, childVars, received, rawVars, rawLineNo,
                   pending, pidKnown, drainTo, derived, replay>>

(* shouldKeep, and the append of the entry that was open, which may fail.  *)
Kept(entry) ==
    lines[CHOOSE i \in entry.lines : \A j \in entry.lines : i <= j] = "byPid"
        => pidKnown

(* Mutant: the entry is appended whatever it is.                           *)
FlushPendingAlways ==
    \/ jsonl' = Append(jsonl, pending) /\ UNCHANGED lost
    \/ DerivedMayFail /\ lost' = TRUE /\ UNCHANGED jsonl

FlushPending ==
    IF pending = NoEntry \/ ~Kept(pending)
    THEN UNCHANGED <<jsonl, lost>>
    ELSE \/ jsonl' = Append(jsonl, pending) /\ UNCHANGED lost
         \/ DerivedMayFail /\ lost' = TRUE /\ UNCHANGED jsonl

(* deriveLine of a line that has passed the crash scan.                    *)
DeriveParsed(line, no) ==
    CASE Parse(line.kind) = "entry" ->
            /\ FlushPending
            /\ pending' = [no |-> no, lines |-> {line.at}]
            /\ pidKnown' = (pidKnown \/ line.kind = "startProc")
      [] Parse(line.kind) = "continuation" ->
            /\ pending' = IF pending = NoEntry THEN pending
                          ELSE [pending EXCEPT !.lines = @ \union {line.at}]
            /\ UNCHANGED <<jsonl, lost, pidKnown>>
      [] OTHER -> UNCHANGED <<jsonl, lost, pending, pidKnown>>

(* Mutant: a continuation that has no entry to join is not counted.        *)
HandleLineCounted(line) ==
    LET no == rawLineNo + 1 IN
    /\ rawLineNo' = IF Parse(line.kind) = "continuation" /\ pending = NoEntry
                    THEN rawLineNo ELSE no
    /\ marks' = IF HasSignature(line.kind) THEN Append(marks, no) ELSE marks
    /\ DeriveParsed(line, no)

(* One line: the counter advances whatever happens; a marker that cannot   *)
(* be written takes the rest of the line's work with it.                   *)
HandleLine(line) ==
    LET no == rawLineNo + 1 IN
    /\ rawLineNo' = no
    /\ \/ /\ marks' = IF HasSignature(line.kind) THEN Append(marks, no) ELSE marks
          /\ DeriveParsed(line, no)
       \/ /\ DerivedMayFail /\ HasSignature(line.kind)
          /\ lost' = TRUE
          /\ UNCHANGED <<marks, jsonl, pending, pidKnown>>

ProcessLine ==
    /\ phase \in Wired
    /\ work # <<>>
    /\ HandleLine(Head(work))
    /\ work' = Tail(work)
    /\ UNCHANGED <<phase, state, childVars, received, rawVars, chunks, carry,
                   drainTo, replay>>

(* ProcessTracker.poll answers with the app's pid.                         *)
PollPids ==
    /\ phase \in {"spawn", "open"} \union (Wired \ {"down"})
    /\ pidKnown' = TRUE
    /\ UNCHANGED <<phase, state, childVars, received, rawVars, workerVars,
                   drainTo, derived, replay>>

-----------------------------------------------------------------------------
(* shutdown.                                                               *)

Shutdown ==
    /\ PhaseMoves("running", IF childClosed THEN "drain" ELSE "term")
    /\ drainTo' = IF childClosed THEN received ELSE drainTo
    /\ UNCHANGED <<state, childVars, received, rawVars, workerVars, pidKnown,
                   derived, replay>>

(* Three seconds have passed without a close event; SIGKILL.               *)
GraceEnds ==
    /\ PhaseMoves("term", "kill")
    /\ UNCHANGED <<state, childVars, received, rawVars, workerVars, pidKnown,
                   drainTo, derived, replay>>

(* Mutant: the second wait has no end.                                     *)
CloseSeenOnly ==
    /\ phase \in {"term", "kill"} /\ childClosed
    /\ phase' = "drain"
    /\ drainTo' = received
    /\ UNCHANGED <<state, childVars, received, rawVars, workerVars, pidKnown,
                   derived, replay>>

(* The close event has come, or the second wait is over too: finish()      *)
(* takes the chain as it is now.                                           *)
CloseSeen ==
    /\ \/ phase = "term" /\ childClosed
       \/ phase = "kill"
    /\ phase' = "drain"
    /\ drainTo' = received
    /\ UNCHANGED <<state, childVars, received, rawVars, workerVars, pidKnown,
                   derived, replay>>

(* The chunks finish() waits for are all processed.                        *)
Drained ==
    /\ work = <<>>
    /\ \A i \in DOMAIN chunks : chunks[i].from > drainTo

(* Mutant: finish() does not wait for the chain.                           *)
FinishAtOnce ==
    /\ phase = "drain"
    /\ phase' = IF carry = 0 THEN "flushEntry" ELSE "flushLine"
    /\ work' = IF carry = 0 THEN work
               ELSE <<[at |-> (carry + 1) \div 2, kind |-> lines[(carry + 1) \div 2]]>> \o work
    /\ carry' = 0
    /\ UNCHANGED <<state, childVars, received, rawVars, chunks, rawLineNo,
                   pending, pidKnown, drainTo, derived, replay>>

(* LineBuffer.flush: the line without a newline at the end.                *)
Finish ==
    /\ phase = "drain" /\ Drained
    /\ phase' = IF carry = 0 THEN "flushEntry" ELSE "flushLine"
    /\ work' = IF carry = 0 THEN work
               ELSE <<[at |-> (carry + 1) \div 2, kind |-> lines[(carry + 1) \div 2]]>>
    /\ carry' = 0
    /\ UNCHANGED <<state, childVars, received, rawVars, chunks, rawLineNo,
                   pending, pidKnown, drainTo, derived, replay>>

FinishLine ==
    /\ PhaseMoves("flushLine", "flushEntry")
    /\ work = <<>>
    /\ UNCHANGED <<state, childVars, received, rawVars, workerVars, pidKnown,
                   drainTo, derived, replay>>

(* The open entry is flushed, and the raw writer is told to close, which   *)
(* queues a last doFlush.                                                  *)
FinishEntry ==
    /\ PhaseMoves("flushEntry", "close")
    /\ FlushPending
    /\ pending' = NoEntry
    /\ DoFlush(TRUE)
    /\ UNCHANGED <<state, childVars, received, rawQueue, flushing, batch, disk,
                   chunks, work, carry, rawLineNo, pidKnown, drainTo, marks,
                   replay>>

(* The last doFlush is done and the handle closed; or the chain is         *)
(* rejected, and shutdown with it.                                         *)
CloseRaw ==
    /\ PhaseMoves("close", "down")
    /\ \/ flushing = "idle" /\ ~wanted
       \/ flushing = "poisoned"
    /\ state' = IF flushing = "idle" /\ state = "running" THEN "stopped" ELSE state
    /\ UNCHANGED <<childVars, received, rawVars, workerVars, pidKnown, drainTo,
                   derived, replay>>

-----------------------------------------------------------------------------
(* A crash, and the replays after it.                                      *)

(* The process dies, by itself, or because a chunk that arrives after the  *)
(* raw writer was closed throws in an event handler; of the batch being    *)
(* written some is on disk.                                                *)
Crash ==
    /\ phase \in Wired \ {"down"}
    /\ phase' = "crashed"
    /\ \E n \in 0 .. Len(batch) : disk' = disk \o SubSeq(batch, 1, n)
    /\ child' = "closed" /\ childClosed' = FALSE
    /\ received' = 0 /\ drainTo' = 0
    /\ rawQueue' = <<>> /\ batch' = <<>> /\ wanted' = FALSE
    /\ flushing' = "idle"
    /\ chunks' = <<>> /\ work' = <<>> /\ carry' = 0 /\ rawLineNo' = 0
    /\ pending' = NoEntry /\ pidKnown' = FALSE
    /\ state' = "running" /\ lost' = FALSE
    /\ UNCHANGED <<lines, jsonl, marks, replay>>

(* What the raw file holds.                                                *)
DiskCut   == disk # <<>> /\ Len(disk) % 2 = 0
DiskLines ==
    IF disk = <<>> THEN <<>>
    ELSE <<"header">> \o SubSeq(lines, 1, Len(disk) \div 2)

ReplayBegins(p) ==
    /\ phase = "crashed"
    /\ replay[p] = Idle
    /\ LET parsed == Replay(DiskLines, DiskCut)
       IN  replay' = [replay EXCEPT ![p] =
                        [at |-> "appending", todo |-> parsed.out,
                         todoMarks |-> parsed.marks]]
    /\ UNCHANGED <<phase, state, childVars, received, rawVars, workerVars,
                   pidKnown, drainTo, lost>>

(* Mutant: the files are not truncated.                                    *)
ReplayKeeps(p) == ReplayBegins(p) /\ UNCHANGED <<jsonl, marks>>

(* replayParse has read the raw file and truncates the derived ones.       *)
ReplayTruncates(p) == ReplayBegins(p) /\ jsonl' = <<>> /\ marks' = <<>>

(* An append to either file; which comes first is left open.               *)
ReplayAppends(p) ==
    /\ replay[p].at = "appending"
    /\ \/ /\ replay[p].todo # <<>>
          /\ jsonl' = Append(jsonl, Head(replay[p].todo))
          /\ replay' = [replay EXCEPT ![p].todo = Tail(@)]
          /\ UNCHANGED marks
       \/ /\ replay[p].todoMarks # <<>>
          /\ marks' = Append(marks, Head(replay[p].todoMarks))
          /\ replay' = [replay EXCEPT ![p].todoMarks = Tail(@)]
          /\ UNCHANGED jsonl
    /\ UNCHANGED <<phase, state, childVars, received, rawVars, workerVars,
                   pidKnown, drainTo, lost>>

(* Both streams are closed; the caller closes the run.                     *)
ReplayEnds(p) ==
    /\ replay[p] = [Idle EXCEPT !.at = "appending"]
    /\ replay' = [replay EXCEPT ![p].at = "done"]
    /\ UNCHANGED <<phase, state, childVars, received, rawVars, workerVars,
                   pidKnown, drainTo, derived>>

(* A replay stops half-way, with its process or by a failing append.       *)
ReplayDies(p) ==
    /\ replay[p].at = "appending"
    /\ replay' = [replay EXCEPT ![p] = [Idle EXCEPT !.at = "dead"]]
    /\ UNCHANGED <<phase, state, childVars, received, rawVars, workerVars,
                   pidKnown, drainTo, derived>>

-----------------------------------------------------------------------------
StartSteps == GetAppUid \/ SpawnChild \/ OpenRaw \/ StartFails
ChildSteps == ChildExits \/ ChildCloses
RawSteps   == FlushStart \/ FlushDone \/ FlushFails
WorkSteps  == ProcessChunk \/ ProcessLine
ShutdownSteps ==
    GraceEnds \/ CloseSeen \/ Finish \/ FinishLine \/ FinishEntry \/ CloseRaw

Next ==
    \/ StartSteps \/ ChildSteps \/ RawSteps \/ WorkSteps \/ ShutdownSteps
    \/ \E n \in 1 .. MaxChunk : OnChunk(n)
    \/ FlushTick \/ PollPids \/ Shutdown \/ Crash
    \/ \E p \in Recoverer :
          ReplayTruncates(p) \/ ReplayAppends(p) \/ ReplayEnds(p) \/ ReplayDies(p)

Spec == Init /\ [][Next]_vars

(* What the process has begun goes on: the file operations answer, chained *)
(* work runs and the two waits of shutdown end.  Nothing is asked of the   *)
(* child, which may ignore both signals.                                   *)
Fairness == WF_vars(RawSteps) /\ WF_vars(WorkSteps) /\ WF_vars(ShutdownSteps)

FairSpec == Spec /\ Fairness

-----------------------------------------------------------------------------
(* Properties.                                                             *)

Teed == Pieces(0, received)

(* The raw file is the truth (worker.ts:60-64): whatever fails on the      *)
(* derived side, what is on disk, being written and queued is the header   *)
(* and then every byte received, in order and without a gap; a raw write   *)
(* that fails costs the end of the file and never a piece out of it; and a *)
(* shutdown that met no such failure has left nothing behind.              *)
RawIsTruth ==
    /\ IsPrefix(disk, IF phase = "crashed" THEN Pieces(0, 2 * Len(lines)) ELSE Teed)
    /\ phase \in Wired /\ flushing # "poisoned" => disk \o batch \o rawQueue = Teed
    /\ phase = "down" /\ flushing = "idle" => disk = Teed

(* While every derived write succeeds, logcat.jsonl and the open entry are *)
(* the records of the lines handled so far, each with all its              *)
(* continuations and the number handleLine gave it, however the lines were *)
(* cut into chunks; only an entry whose pid was unknown may be missing.    *)
(* Lines longer than the line buffer are excepted, and chunks that arrive  *)
(* after finish() because the child outlived both signals.                 *)
DerivedFollowsRaw ==
    LET handled == RecordsOf(SubSeq(lines, 1, rawLineNo))
        records == ToSet(jsonl) \union ({pending} \ {NoEntry})
    IN  (/\ phase \in Wired /\ ~lost
         /\ "long" \notin ToSet(lines)
         /\ phase \in {"flushLine", "flushEntry", "close", "down"}
                => received = drainTo)
        => /\ records \subseteq handled
           /\ \A r \in handled \ records : lines[r.no] = "byPid"
           /\ \A i, j \in DOMAIN jsonl : i < j => jsonl[i].no < jsonl[j].no
           /\ ToSet(marks) = MarksOf(SubSeq(lines, 1, rawLineNo))

(* Shutdown has derived all it has teed: no line is left in the buffer or  *)
(* in the chain.                                                           *)
ShutdownDrains ==
    phase = "down" /\ received = drainTo /\ "long" \notin ToSet(lines)
        => rawLineNo = (received + 1) \div 2 /\ pending = NoEntry

(* Once a replay has ended, and no other one is at work or has died        *)
(* half-way, logcat.jsonl has every record of the raw file, whatever the   *)
(* crash cut off and whatever was in it before; with one replay, each      *)
(* once and in order.  Lines wider in bytes than in units are excepted     *)
(* where there are blank ones too, since a blank one may end the loop      *)
(* early.                                                                  *)
Began == {p \in Recoverer : replay[p].at # "idle"}

RebuiltFromRaw ==
    (/\ Began # {}
     /\ \A p \in Began : replay[p].at = "done"
     /\ ~{"wide", "blank"} \subseteq ToSet(lines))
    => /\ ToSet(jsonl) = RecordsOf(DiskLines)
       /\ (\E p \in Recoverer : Began = {p}) =>
              \A i, j \in DOMAIN jsonl : i < j => jsonl[i].no < jsonl[j].no
       /\ ToSet(marks) = MarksOf(DiskLines)

-----------------------------------------------------------------------------
(* The inductive invariant of the channel while it runs.                   *)

(* The raw side: before the channel is wired there is nothing; a batch is  *)
(* being written or empty; the last doFlush of a close leaves the queue    *)
(* empty, as does each after it.                                           *)
LinesRead == phase # "crashed" => Len(lines) = (received + 1) \div 2

NothingBefore ==
    phase \in Starting \union {"failed"} =>
        /\ received = 0 /\ rawQueue = <<>> /\ disk = <<>>
        /\ ~wanted /\ flushing = "idle"
        /\ chunks = <<>> /\ work = <<>> /\ carry = 0 /\ rawLineNo = 0
        /\ pending = NoEntry /\ jsonl = <<>> /\ marks = <<>>

RawStages ==
    /\ flushing # "writing" => batch = <<>>
    /\ flushing = "poisoned" => ~wanted
    /\ phase = "close" /\ flushing # "poisoned" => wanted \/ rawQueue = <<>>
    /\ phase = "down" => /\ flushing # "writing" /\ ~wanted
                         /\ flushing = "idle" => rawQueue = <<>>

RawInv == LinesRead /\ NothingBefore /\ RawStages /\ RawIsTruth

(* The derived side.  What the worker's chain has taken of what was        *)
(* received, and what of that the line buffer still holds.                 *)
Late  == {"flushLine", "flushEntry", "close", "down"}   \* finish() goes on
Taken == IF chunks = <<>> THEN received ELSE Head(chunks).from - 1

ChunksJoin ==
    phase \in Wired => \A i \in DOMAIN chunks :
        /\ 1 <= chunks[i].from /\ chunks[i].from <= chunks[i].to
        /\ chunks[i].to <= received
        /\ chunks[i].to = IF i = Len(chunks) THEN received
                          ELSE chunks[i + 1].from - 1

LinesBounded ==
    phase \in Wired =>
        /\ rawLineNo + Len(work) + (IF carry = 0 THEN 0 ELSE 1) <= Taken
        /\ \A i \in DOMAIN work : work[i].at <= Len(lines)
        /\ carry # 0 => carry = Taken /\ carry % 2 = 1
        /\ pending # NoEntry => pending.no <= rawLineNo

DerivedTypes ==
    phase # "crashed" =>
        jsonl \in Seq(Record) /\ marks \in Seq(1 .. 2 * MaxLines + 2)

DrainedBehind == phase \in {"drain"} \union Late => drainTo <= received

(* Where no line was too long and no chunk came late, lines are numbered   *)
(* as they were logged and none is left behind.                            *)
Whole ==
    /\ phase \in Wired
    /\ "long" \notin ToSet(lines)
    /\ phase \in Late => received = drainTo

LinesInOrder ==
    Whole =>
        /\ IF phase \in Late
           THEN /\ chunks = <<>> /\ carry = 0
                /\ rawLineNo + Len(work) = (received + 1) \div 2
                /\ phase # "flushLine" => work = <<>>
           ELSE /\ carry = IF Taken % 2 = 1 THEN Taken ELSE 0
                /\ rawLineNo + Len(work) = Taken \div 2
        /\ \A i \in DOMAIN work :
              work[i] = [at |-> rawLineNo + i, kind |-> lines[rawLineNo + i]]

NothingOpen == Whole /\ phase \in {"close", "down"} => pending = NoEntry

(* The open entry is the last record of the lines handled, and every one   *)
(* before it has been appended or was not to be kept.                      *)
Handled == RecordsOf(SubSeq(lines, 1, rawLineNo))

RecordsInOrder ==
    Whole /\ ~lost =>
        /\ phase \notin {"close", "down"} =>
              \/ pending = NoEntry /\ Handled = {}
              \/ /\ pending \in Handled
                 /\ \A r \in Handled : r.no <= pending.no
        /\ \A i \in DOMAIN jsonl :
              /\ jsonl[i] \in Handled
              /\ pending # NoEntry => jsonl[i].no < pending.no
              /\ \A j \in DOMAIN jsonl : i < j => jsonl[i].no < jsonl[j].no
        /\ \A r \in Handled \ (ToSet(jsonl) \union {pending}) :
              lines[r.no] = "byPid"
        /\ ToSet(marks) = MarksOf(SubSeq(lines, 1, rawLineNo))

(* No replay begins before the crash.                                      *)
ReplaysWait == phase # "crashed" => \A p \in Recoverer : replay[p] = Idle

ChannelInv ==
    /\ ChannelTypeOK
    /\ RawInv
    /\ ChunksJoin
    /\ LinesBounded
    /\ DerivedTypes
    /\ DrainedBehind
    /\ LinesInOrder
    /\ NothingOpen
    /\ RecordsInOrder
    /\ ReplaysWait

(* The inductive invariant of the replays.  What is in the derived files   *)
(* and what is still to be appended is of the raw file; unless one that    *)
(* has begun died half-way, one of them has or will have appended          *)
(* everything since the files were last truncated; one alone appends it in *)
(* order.                                                                  *)
Replayed == Replay(DiskLines, DiskCut)

OnlyAtWork ==
    \A p \in Recoverer : replay[p].at # "appending" =>
        replay[p].todo = <<>> /\ replay[p].todoMarks = <<>>

NothingElse ==
    /\ Began # {} => /\ ToSet(jsonl) \subseteq ToSet(Replayed.out)
                     /\ ToSet(marks) \subseteq ToSet(Replayed.marks)
    /\ \A p \in Began : /\ ToSet(replay[p].todo) \subseteq ToSet(Replayed.out)
                        /\ ToSet(replay[p].todoMarks) \subseteq ToSet(Replayed.marks)

NothingLeftOut ==
    Began # {} => \E p \in Began :
        \/ replay[p].at = "dead"
        \/ /\ ToSet(Replayed.out) \subseteq ToSet(jsonl) \union ToSet(replay[p].todo)
           /\ ToSet(Replayed.marks) \subseteq ToSet(marks) \union ToSet(replay[p].todoMarks)

InOrder ==
    \A p \in Began : Began = {p} =>
        replay[p].at = "dead" \/ jsonl \o replay[p].todo = Replayed.out

ReplayInv ==
    /\ TypeOK
    /\ phase = "crashed" =>
           OnlyAtWork /\ NothingElse /\ NothingLeftOut /\ InOrder

(* Shutdown comes to an end even when the child ignores both signals and   *)
(* whatever fails.                                                         *)
ShutdownSettles == phase = "term" ~> phase \in {"down", "crashed"}

-----------------------------------------------------------------------------
(* What comments say of the channel, and the code does not keep.           *)

(* crash_marker.ts:6-8, rawLineNo is the "1-based line number in           *)
(* logcat.raw.txt": the marked line of the raw file has the signature.     *)
MarkNamesRawLine ==
    phase = "down" /\ flushing = "idle" =>
        \A i \in DOMAIN marks : /\ marks[i] <= Len(DiskLines)
                                /\ HasSignature(DiskLines[marks[i]])
=============================================================================
