-------------------------- MODULE SessionLifecycle --------------------------
(***************************************************************************)
(* The sessions one server process runs on one (device, user, package)     *)
(* tuple: SessionManager (session/manager.ts), Session.finalize and        *)
(* markDegraded (session/session.ts), the auto-stop timers, the health     *)
(* poll and the start_session and stop_session handlers.                   *)
(*                                                                         *)
(* The process is one event loop: what runs between two awaits is one      *)
(* step, and everything that awaits interleaves.  The tasks are the start  *)
(* calls (Run, one runId each), the stop_session calls (Stopper) and, per  *)
(* run, the timer callback and the abort of a start call that failed after *)
(* its session was registered.  The lock file is the tuple slot of         *)
(* TupleSlot; here it is taken in one step, and its handle's release() has *)
(* two: the flag it sets and the unlink, which may fail.  A recording in   *)
(* progress, which finalize saves first, is ScreenRecording's.             *)
(***************************************************************************)
EXTENDS Naturals, FiniteSets

CONSTANTS
    Run,            \* start_session calls
    Stopper,        \* stop_session calls
    None,           \* no run
    Faults,         \* the awaited operations that may fail
    DeviceMayDrop   \* whether a health poll can find the device gone

Faultable == {"create", "evidence", "start", "shutdown", "patch", "close",
              "release"}

ASSUME ConstantsAssumption ==
    /\ None \notin Run \union Stopper
    /\ Stopper \intersect (Run \X {"timeout", "abort"}) = {}
    /\ Run \intersect (Stopper \union (Run \X {"timeout", "abort"})) = {}
    /\ Faults \subseteq Faultable
    /\ DeviceMayDrop \in BOOLEAN

VARIABLES
    start,          \* where each start_session call is
    status,         \* Session.status, "none" before the session exists
    sessions,       \* the registry: SessionManager.sessions
    tupleIndex,     \* the run tupleIndex names for the tuple, or None
    lock,           \* the run holding the tuple lock, or None
    released,       \* the runs whose lock handle has been released
    kept,           \* history: runs whose lock could not be released
    streams,        \* the run folder's jsonl streams
    timer,          \* SessionTimers
    logcat,         \* Session.logcat
    meta,           \* metadata.json
    task,           \* where each teardown task is
    runOf,          \* the run each teardown task works on
    endStatus,      \* finalStatus of each teardown task
    copy,           \* what each patchMetadata in flight has read
    failed,         \* teardown tasks that collected an error
    told,           \* the status each stop_session call has answered
    polled,         \* the session the health poll in flight has listed
    overtaken       \* history: runs torn down before their start call returned

sessionVars == <<status, streams, timer, logcat>>
indexVars   == <<sessions, tupleIndex>>
lockVars    == <<lock, released, kept>>
taskVars    == <<task, runOf, endStatus, failed, told>>
vars == <<start, sessionVars, indexVars, lockVars, meta, copy, taskVars,
          polled, overtaken>>

-----------------------------------------------------------------------------
Timeout(r) == <<r, "timeout">>
Abort(r)   == <<r, "abort">>
Aborts     == Run \X {"abort"}
Task       == Stopper \union (Run \X {"timeout"}) \union Aborts

Live     == {"active", "degraded"}
Closed   == {"degraded", "stopped", "aborted"}   \* what finalize may write
Guarded  == {"provenance", "patchWrite", "launch", "logcat", "announce"}
Starting == {"acquire", "create", "evidence", "aborting"} \union Guarded
Body     == {"logcat", "shutdown", "patchRead", "patchWrite", "close",
             "release", "unlink", "unregister"}   \* finalize, past its guard

Meta   == [status : {"none", "active"} \union Closed, provenance : BOOLEAN]
NoMeta == [status |-> "none", provenance |-> FALSE]

IsActive(r) == status[r] \in Live

TypeOK ==
    /\ start \in [Run -> {"idle", "ok", "failed"} \union Starting]
    /\ status \in [Run -> {"none"} \union Live \union Closed]
    /\ sessions \subseteq Run
    /\ tupleIndex \in Run \union {None}
    /\ lock \in Run \union {None}
    /\ released \subseteq Run
    /\ kept \subseteq Run
    /\ streams \in [Run -> {"none", "open", "closed"}]
    /\ timer \in [Run -> {"off", "armed", "fired", "stopped"}]
    /\ logcat \in [Run -> {"none", "running", "down"}]
    /\ meta \in [Run -> Meta]
    /\ task \in [Task -> {"idle", "called", "report", "done"} \union Body]
    /\ runOf \in [Task -> Run \union {None}]
    /\ endStatus \in [Task -> {"none"} \union Closed]
    /\ copy \in [Run \union Task -> Meta]
    /\ failed \subseteq Task
    /\ told \in [Stopper -> {"none", "active"} \union Closed]
    /\ polled \in Run \union {None}
    /\ overtaken \subseteq Run

Init ==
    /\ start = [r \in Run |-> "idle"]
    /\ status = [r \in Run |-> "none"]
    /\ sessions = {}
    /\ tupleIndex = None
    /\ lock = None
    /\ released = {}
    /\ kept = {}
    /\ streams = [r \in Run |-> "none"]
    /\ timer = [r \in Run |-> "off"]
    /\ logcat = [r \in Run |-> "none"]
    /\ meta = [r \in Run |-> NoMeta]
    /\ task = [t \in Task |-> "idle"]
    /\ runOf = [t \in Task |-> None]
    /\ endStatus = [t \in Task |-> "none"]
    /\ copy = [x \in Run \union Task |-> NoMeta]
    /\ failed = {}
    /\ told = [s \in Stopper |-> "none"]
    /\ polled = None
    /\ overtaken = {}

-----------------------------------------------------------------------------
(* start_session.                                                          *)

StartMoves(r, from, to) ==
    /\ start[r] = from
    /\ start' = [start EXCEPT ![r] = to]

(* The in-process check of manager.start comes before any await.           *)
StartCall(r) ==
    /\ StartMoves(r, "idle", IF tupleIndex = None THEN "acquire" ELSE "failed")
    /\ UNCHANGED <<sessionVars, indexVars, lockVars, meta, copy, taskVars,
                   polled, overtaken>>

(* Mutant: the lock's refusal is overlooked.                               *)
AcquireAnyway(r) ==
    /\ StartMoves(r, "acquire", "create")
    /\ lock' = r
    /\ UNCHANGED <<released, kept, sessionVars, indexVars, meta, copy,
                   taskVars, polled, overtaken>>

AcquireLock(r) ==
    /\ StartMoves(r, "acquire", IF lock = None THEN "create" ELSE "failed")
    /\ lock' = IF lock = None THEN r ELSE lock
    /\ UNCHANGED <<released, kept, sessionVars, indexVars, meta, copy,
                   taskVars, polled, overtaken>>

CreateRunDir(r) ==
    /\ StartMoves(r, "create", "evidence")
    /\ meta' = [meta EXCEPT ![r].status = "active"]
    /\ streams' = [streams EXCEPT ![r] = "open"]
    /\ UNCHANGED <<status, timer, logcat, indexVars, lockVars, copy, taskVars,
                   polled, overtaken>>

(* The start call's own release() of the lock, whose error is swallowed.   *)
FreeLock(r) ==
    /\ released' = released \union {r}
    /\ \/ lock' = None /\ UNCHANGED kept
       \/ /\ "release" \in Faults
          /\ kept' = kept \union {r}
          /\ UNCHANGED lock

(* createRunDir may fail before or after it has written metadata.json; the *)
(* lock just taken is freed.                                               *)
CreateRunDirFails(r) ==
    /\ "create" \in Faults
    /\ StartMoves(r, "create", "failed")
    /\ \E s \in {"none", "active"} : meta' = [meta EXCEPT ![r].status = s]
    /\ FreeLock(r)
    /\ UNCHANGED <<sessionVars, indexVars, copy, taskVars, polled, overtaken>>

(* Mutant: the timers are never armed.                                     *)
RegisterUntimed(r) ==
    /\ StartMoves(r, "evidence", "provenance")
    /\ status' = [status EXCEPT ![r] = "active"]
    /\ sessions' = sessions \union {r}
    /\ tupleIndex' = r
    /\ UNCHANGED <<streams, timer, logcat, lockVars, meta, copy, taskVars,
                   polled, overtaken>>

(* The evidence directories are made; the session is registered and its    *)
(* timers armed without another await.                                     *)
Register(r) ==
    /\ StartMoves(r, "evidence", "provenance")
    /\ status' = [status EXCEPT ![r] = "active"]
    /\ sessions' = sessions \union {r}
    /\ tupleIndex' = r
    /\ timer' = [timer EXCEPT ![r] = "armed"]
    /\ UNCHANGED <<streams, logcat, lockVars, meta, copy, taskVars, polled,
                   overtaken>>

EvidenceDirsFail(r) ==
    /\ "evidence" \in Faults
    /\ StartMoves(r, "evidence", "failed")
    /\ streams' = [streams EXCEPT ![r] = "closed"]
    /\ FreeLock(r)
    /\ UNCHANGED <<status, timer, logcat, indexVars, meta, copy, taskVars,
                   polled, overtaken>>

(* Package version and device properties have arrived, and patchMetadata   *)
(* reads the file, over which it renames a new one later.                  *)
ProvenanceRead(r) ==
    /\ StartMoves(r, "provenance", "patchWrite")
    /\ copy' = [copy EXCEPT ![r] = meta[r]]
    /\ UNCHANGED <<sessionVars, indexVars, lockVars, meta, taskVars, polled,
                   overtaken>>

ProvenanceWrite(r) ==
    /\ \E next \in {"launch", "logcat"} : StartMoves(r, "patchWrite", next)
    /\ meta' = [meta EXCEPT ![r] = [copy[r] EXCEPT !.provenance = TRUE]]
    /\ copy' = [copy EXCEPT ![r] = NoMeta]
    /\ UNCHANGED <<sessionVars, indexVars, lockVars, taskVars, polled,
                   overtaken>>

(* launchOnStart: its event throws once the streams are closed.            *)
LaunchEvent(r) ==
    /\ StartMoves(r, "launch",
                  IF streams[r] = "open" THEN "logcat" ELSE "aborting")
    /\ UNCHANGED <<sessionVars, indexVars, lockVars, meta, copy, taskVars,
                   polled, overtaken>>

(* LogcatChannel.start resolves and is assigned to the session.            *)
StartLogcat(r) ==
    /\ StartMoves(r, "logcat", "announce")
    /\ logcat' = [logcat EXCEPT ![r] = "running"]
    /\ UNCHANGED <<status, streams, timer, indexVars, lockVars, meta, copy,
                   taskVars, polled, overtaken>>

(* The session_start event.                                                *)
Announce(r) ==
    /\ StartMoves(r, "announce",
                  IF streams[r] = "open" THEN "ok" ELSE "aborting")
    /\ UNCHANGED <<sessionVars, indexVars, lockVars, meta, copy, taskVars,
                   polled, overtaken>>

(* Mutant: the failed start call rethrows and aborts nothing.              *)
StartRethrows(r) ==
    /\ "start" \in Faults
    /\ start[r] \in Guarded
    /\ start' = [start EXCEPT ![r] = "failed"]
    /\ copy' = [copy EXCEPT ![r] = NoMeta]
    /\ UNCHANGED <<sessionVars, indexVars, lockVars, meta, taskVars, polled,
                   overtaken>>

(* A query, write, launch, spawn or event in the try block fails, and its  *)
(* catch clause aborts the session.                                        *)
StartFails(r) ==
    /\ "start" \in Faults
    /\ start[r] \in Guarded
    /\ start' = [start EXCEPT ![r] = "aborting"]
    /\ copy' = [copy EXCEPT ![r] = NoMeta]
    /\ UNCHANGED <<sessionVars, indexVars, lockVars, meta, taskVars, polled,
                   overtaken>>

-----------------------------------------------------------------------------
(* Teardown: manager.teardown around session.finalize.                     *)

(* The status a stop, a timeout or an abort asks for.                      *)
Wanted(t) == IF t \in Aborts THEN "aborted" ELSE "stopped"

TaskMoves(t, from, to) ==
    /\ task[t] = from
    /\ task' = [task EXCEPT ![t] = to]

(* stop_session resolves a live session; sealing the evidence and writing  *)
(* session_stop follow, both best-effort.                                  *)
StopCall(s, r) ==
    /\ r \in sessions /\ IsActive(r)
    /\ TaskMoves(s, "idle", "called")
    /\ runOf' = [runOf EXCEPT ![s] = r]
    /\ UNCHANGED <<start, sessionVars, indexVars, lockVars, meta, copy,
                   endStatus, failed, told, polled, overtaken>>

(* A cap is reached; handleTimeout writes its event, best-effort.          *)
TimerFires(r) ==
    /\ timer[r] = "armed"
    /\ timer' = [timer EXCEPT ![r] = "fired"]
    /\ IF r \in sessions /\ IsActive(r)
       THEN /\ TaskMoves(Timeout(r), "idle", "called")
            /\ runOf' = [runOf EXCEPT ![Timeout(r)] = r]
       ELSE UNCHANGED <<task, runOf>>
    /\ UNCHANGED <<start, status, streams, logcat, indexVars, lockVars, meta,
                   copy, endStatus, failed, told, polled, overtaken>>

AbortCall(r) ==
    /\ start[r] = "aborting"
    /\ TaskMoves(Abort(r), "idle", "called")
    /\ runOf' = [runOf EXCEPT ![Abort(r)] = r]
    /\ UNCHANGED <<start, sessionVars, indexVars, lockVars, meta, copy,
                   endStatus, failed, told, polled, overtaken>>

(* Mutant: a teardown that failed is answered all the same.                *)
AfterTeardownAnyway(t) == IF t \in Stopper THEN "report" ELSE "done"

(* What comes after unregister: a stop_session call without error reads    *)
(* the metadata it answers with; an aborted start call rethrows.           *)
AfterTeardown(t) == IF t \in Stopper \ failed THEN "report" ELSE "done"

StartAfterTeardown(t) ==
    start' = IF t \in Aborts THEN [start EXCEPT ![t[1]] = "failed"] ELSE start

(* Mutant: unregister drops whatever entry the tuple has.                  *)
UnregisteredBlindly(r) ==
    /\ sessions' = sessions \ {r}
    /\ tupleIndex' = None

Unregistered(r) ==
    /\ sessions' = sessions \ {r}
    /\ tupleIndex' = IF tupleIndex = r THEN None ELSE tupleIndex

(* Mutant: finalize has no guard.                                          *)
BeginFinalizeAnyway(t) ==
    LET r == runOf[t] IN
    /\ TaskMoves(t, "called", "logcat")
    /\ status' = [status EXCEPT ![r] = Wanted(t)]
    /\ endStatus' = [endStatus EXCEPT ![t] = Wanted(t)]
    /\ timer' = [timer EXCEPT ![r] = "stopped"]
    /\ UNCHANGED <<start, streams, logcat, indexVars, lockVars, meta, copy,
                   runOf, failed, told, polled, overtaken>>

(* finalize() of a session that is still live: the status flips and the    *)
(* timers stop before the first await.                                     *)
BeginFinalize(t) ==
    LET r == runOf[t] IN
    /\ task[t] = "called"
    /\ IsActive(r)
    /\ TaskMoves(t, "called", "logcat")
    /\ LET final == IF status[r] = "degraded" THEN "degraded" ELSE Wanted(t)
       IN  /\ status' = [status EXCEPT ![r] = final]
           /\ endStatus' = [endStatus EXCEPT ![t] = final]
    /\ timer' = [timer EXCEPT ![r] = "stopped"]
    /\ overtaken' = IF start[r] \in Starting \ {"aborting"}
                    THEN overtaken \union {r} ELSE overtaken
    /\ UNCHANGED <<start, streams, logcat, indexVars, lockVars, meta, copy,
                   runOf, failed, told, polled>>

(* finalize() of a session no longer live returns at once; the caller      *)
(* unregisters all the same.                                               *)
SkipFinalize(t) ==
    LET r == runOf[t] IN
    /\ task[t] = "called"
    /\ ~IsActive(r)
    /\ TaskMoves(t, "called", AfterTeardown(t))
    /\ Unregistered(r)
    /\ StartAfterTeardown(t)
    /\ UNCHANGED <<sessionVars, lockVars, meta, copy, runOf, endStatus, failed,
                   told, polled, overtaken>>

(* A step of finalize that fails is remembered, and the next one runs.     *)
StepMayFail(t, step) ==
    \/ failed' = failed
    \/ step \in Faults /\ failed' = failed \union {t}

(* Mutant: finalize waits for the logcat channel to be there.              *)
BeginShutdownWaits(t) ==
    /\ TaskMoves(t, "logcat", "shutdown")
    /\ logcat[runOf[t]] # "none"
    /\ UNCHANGED <<start, sessionVars, indexVars, lockVars, meta, copy, runOf,
                   endStatus, failed, told, polled, overtaken>>

(* finalize looks at this.logcat once.                                     *)
BeginShutdown(t) ==
    /\ TaskMoves(t, "logcat", IF logcat[runOf[t]] = "none"
                              THEN "patchRead" ELSE "shutdown")
    /\ UNCHANGED <<start, sessionVars, indexVars, lockVars, meta, copy, runOf,
                   endStatus, failed, told, polled, overtaken>>

EndShutdown(t) ==
    /\ TaskMoves(t, "shutdown", "patchRead")
    /\ logcat' = [logcat EXCEPT ![runOf[t]] = "down"]
    /\ StepMayFail(t, "shutdown")
    /\ UNCHANGED <<start, status, streams, timer, indexVars, lockVars, meta,
                   copy, runOf, endStatus, told, polled, overtaken>>

FinalRead(t) ==
    /\ TaskMoves(t, "patchRead", "patchWrite")
    /\ copy' = [copy EXCEPT ![t] = meta[runOf[t]]]
    /\ UNCHANGED <<start, sessionVars, indexVars, lockVars, meta, runOf,
                   endStatus, failed, told, polled, overtaken>>

(* Mutant: the caller's end status is written over a degraded session's.   *)
FinalWriteWanted(t) ==
    /\ TaskMoves(t, "patchWrite", "close")
    /\ meta' = [meta EXCEPT ![runOf[t]] =
                    [copy[t] EXCEPT !.status = Wanted(t)]]
    /\ copy' = [copy EXCEPT ![t] = NoMeta]
    /\ UNCHANGED <<start, sessionVars, indexVars, lockVars, runOf, endStatus,
                   failed, told, polled, overtaken>>

FinalWrite(t) ==
    /\ TaskMoves(t, "patchWrite", "close")
    /\ \/ /\ meta' = [meta EXCEPT ![runOf[t]] =
                        [copy[t] EXCEPT !.status = endStatus[t]]]
          /\ UNCHANGED failed
       \/ /\ "patch" \in Faults
          /\ failed' = failed \union {t}
          /\ UNCHANGED meta
    /\ copy' = [copy EXCEPT ![t] = NoMeta]
    /\ UNCHANGED <<start, sessionVars, indexVars, lockVars, runOf, endStatus,
                   told, polled, overtaken>>

(* A stream that fails to sync is closed all the same.                     *)
CloseStreams(t) ==
    /\ TaskMoves(t, "close", "release")
    /\ streams' = [streams EXCEPT ![runOf[t]] = "closed"]
    /\ StepMayFail(t, "close")
    /\ UNCHANGED <<start, status, timer, logcat, indexVars, lockVars, meta,
                   copy, runOf, endStatus, told, polled, overtaken>>

(* LockHandle.release: a handle is released once, whatever comes of it.    *)
ReleaseLock(t) ==
    LET r == runOf[t] IN
    /\ TaskMoves(t, "release",
                 IF r \in released THEN "unregister" ELSE "unlink")
    /\ released' = released \union {r}
    /\ UNCHANGED <<start, sessionVars, indexVars, lock, kept, meta, copy,
                   runOf, endStatus, failed, told, polled, overtaken>>

(* The lock file is unlinked if it is the run's own; when its owner cannot *)
(* be read, or the unlink fails, it stays.                                 *)
UnlinkLock(t) ==
    /\ TaskMoves(t, "unlink", "unregister")
    /\ \/ /\ lock' = IF lock = runOf[t] THEN None ELSE lock
          /\ UNCHANGED <<failed, kept>>
       \/ /\ "release" \in Faults
          /\ failed' = failed \union {t}
          /\ kept' = kept \union {runOf[t]}
          /\ UNCHANGED lock
    /\ UNCHANGED <<start, sessionVars, indexVars, released, meta, copy, runOf,
                   endStatus, told, polled, overtaken>>

(* Mutant: a teardown that failed does not reach unregister.               *)
UnregisterIfClean(t) ==
    /\ TaskMoves(t, "unregister", AfterTeardown(t))
    /\ IF t \in failed THEN UNCHANGED indexVars ELSE Unregistered(runOf[t])
    /\ StartAfterTeardown(t)
    /\ UNCHANGED <<sessionVars, lockVars, meta, copy, runOf, endStatus, failed,
                   told, polled, overtaken>>

Unregister(t) ==
    /\ TaskMoves(t, "unregister", AfterTeardown(t))
    /\ Unregistered(runOf[t])
    /\ StartAfterTeardown(t)
    /\ UNCHANGED <<sessionVars, lockVars, meta, copy, runOf, endStatus, failed,
                   told, polled, overtaken>>

(* stop_session answers with the status metadata.json carries.             *)
Report(s) ==
    /\ TaskMoves(s, "report", "done")
    /\ told' = [told EXCEPT ![s] = meta[runOf[s]].status]
    /\ UNCHANGED <<start, sessionVars, indexVars, lockVars, meta, copy, runOf,
                   endStatus, failed, polled, overtaken>>

-----------------------------------------------------------------------------
(* HealthMonitor.checkOnce.                                                *)

(* listActive(): of the tuple's sessions only the one still "active" can   *)
(* change, and there is at most one (LiveSessionIsWhole).                  *)
PollStart(r) ==
    /\ DeviceMayDrop
    /\ polled = None
    /\ r \in sessions /\ status[r] = "active"
    /\ polled' = r
    /\ UNCHANGED <<start, sessionVars, indexVars, lockVars, meta, copy,
                   taskVars, overtaken>>

(* adb devices answers: the device is there, or the listed session, what-  *)
(* ever became of it meanwhile, is marked degraded.  A failure of adb      *)
(* skips the tick.                                                         *)
PollAnswer(r) ==
    /\ polled = r
    /\ polled' = None
    /\ \/ UNCHANGED status
       \/ status' = [status EXCEPT ![r] =
                         IF @ = "active" THEN "degraded" ELSE @]
    /\ UNCHANGED <<start, streams, timer, logcat, indexVars, lockVars, meta,
                   copy, taskVars, overtaken>>

-----------------------------------------------------------------------------
StartSteps(r) ==
    \/ AcquireLock(r)
    \/ CreateRunDir(r)
    \/ CreateRunDirFails(r)
    \/ Register(r)
    \/ EvidenceDirsFail(r)
    \/ ProvenanceRead(r)
    \/ ProvenanceWrite(r)
    \/ LaunchEvent(r)
    \/ StartLogcat(r)
    \/ Announce(r)
    \/ StartFails(r)
    \/ AbortCall(r)

TeardownSteps(t) ==
    \/ BeginFinalize(t)
    \/ SkipFinalize(t)
    \/ BeginShutdown(t)
    \/ EndShutdown(t)
    \/ FinalRead(t)
    \/ FinalWrite(t)
    \/ CloseStreams(t)
    \/ ReleaseLock(t)
    \/ UnlinkLock(t)
    \/ Unregister(t)

Next ==
    \/ \E r \in Run : StartCall(r) \/ StartSteps(r) \/ TimerFires(r)
    \/ \E s \in Stopper : Report(s) \/ \E r \in Run : StopCall(s, r)
    \/ \E t \in Task : TeardownSteps(t)
    \/ \E r \in Run : PollStart(r) \/ PollAnswer(r)

Spec == Init /\ [][Next]_vars

(* The event loop runs every continuation whose operation has completed,   *)
(* each awaited operation has a timeout of its own or is a local file      *)
(* operation, and setTimeout fires.  No client is obliged to call.         *)
Fairness ==
    /\ \A r \in Run : WF_vars(StartSteps(r)) /\ WF_vars(TimerFires(r))
    /\ \A t \in Task : WF_vars(TeardownSteps(t))

FairSpec == Spec /\ Fairness

-----------------------------------------------------------------------------
(* Properties.                                                             *)

TearingDown(t, r) == runOf[t] = r /\ task[t] \in Body

(* No finalize() of the run has passed its guard.                          *)
Unended(r) ==
    /\ IsActive(r)
    /\ \A t \in Task : runOf[t] = r => endStatus[t] = "none"

(* However many stops, timeouts and aborts reach a session whose device    *)
(* stayed connected, one of them alone runs finalize's teardown: two tasks *)
(* past the guard of session.ts:292 mean a degraded session, for which     *)
(* that guard stays open.                                                  *)
TeardownExclusive ==
    \A r \in Run : \A t, u \in Task :
        TearingDown(t, r) /\ TearingDown(u, r) /\ t # u
            => status[r] = "degraded"

(* A session nobody has begun to tear down has everything a tool call and  *)
(* the next start_session rely on: it is in the registry and in the tuple  *)
(* index, holds the lock, has its streams open, and a timer still stands   *)
(* between it and living for ever.  The late unregister of another run of  *)
(* the tuple must not take its index entry (manager.ts:294).               *)
LiveSessionIsWhole ==
    \A r \in Run : Unended(r) =>
        /\ r \in sessions
        /\ tupleIndex = r
        /\ lock = r
        /\ streams[r] = "open"
        /\ timer[r] = "armed" \/ task[Timeout(r)] = "called"

(* Whatever fails in a teardown, it never leaves the tuple's index entry   *)
(* stranded: it names a session that is still live or is being torn down   *)
(* at this moment (manager.ts:259-263).  Nor is the lock file left behind  *)
(* by anything but a failure of its own release, which a teardown or the   *)
(* caller of a failed start is told of: the handle is spent then, and the  *)
(* lock, whose owner is this very process, stays for as long as the        *)
(* process lives (lock.ts:235-258).                                        *)
NoStrandedTuple ==
    \A r \in Run :
        LET ending == \E t \in Task : TearingDown(t, r)
        IN  /\ tupleIndex = r => Unended(r) \/ ending
            /\ lock = r => \/ Unended(r) \/ ending
                           \/ status[r] = "none" /\ start[r] \in Starting
                           \/ r \in kept
            /\ r \in kept => /\ "release" \in Faults
                            /\ \/ \E t \in failed : runOf[t] = r
                               \/ status[r] = "none" /\ start[r] = "failed"

(* A start_session call that failed, whose caller has no runId to stop,    *)
(* has left no registered session, and no lock that nobody is releasing or *)
(* has failed to release (start_session.ts:119-121).                       *)
FailedStartLeavesNothing ==
    \A r \in Run : start[r] = "failed" =>
        /\ r \notin sessions
        /\ tupleIndex # r
        /\ lock = r => (\E t \in Task : TearingDown(t, r)) \/ r \in kept

(* Once every teardown of a run is over and none of its steps failed, the  *)
(* status in metadata.json is the one the session ended with, degraded     *)
(* included, and the provenance its start call recorded is still there.    *)
(* Runs torn down while their start call was still at work are excepted:   *)
(* see StoppedRunIsClosed.                                                 *)
DiskMatchesSession ==
    \A r \in Run \ overtaken :
        LET mine == {t \in Task : runOf[t] = r}
        IN  (/\ \E t \in mine : endStatus[t] # "none"
             /\ \A t \in mine : task[t] \notin Body /\ t \notin failed)
            => /\ meta[r].status = status[r]
               /\ start[r] = "ok" => meta[r].provenance

(* A stop_session call that ended a session itself, and answers, tells the *)
(* status the session ended with, and by then nothing of it is at work:    *)
(* the timer is stopped, the logcat channel shut down before the streams   *)
(* it writes to were closed, the lock freed and the session unregistered   *)
(* (stop_session.ts:74-81, session.ts:284-286).  A second stop may find    *)
(* the first still at work, and a start call that was overtaken starts     *)
(* its channel late.  Of a degraded session two teardowns may be at work,  *)
(* and the one whose release() finds the handle spent leaves the lock to   *)
(* the other, which may have failed to unlink it.                          *)
StopTellsTheEnd ==
    \A s \in Stopper :
        LET r == runOf[s]
        IN  told[s] # "none" /\ endStatus[s] # "none" /\ r \notin overtaken =>
                /\ told[s] = endStatus[s]
                /\ timer[r] = "stopped"
                /\ logcat[r] # "running" /\ streams[r] = "closed"
                /\ r \notin sessions /\ tupleIndex # r
                /\ lock = r =>
                       /\ told[s] = "degraded"
                       /\ \E t \in Task \ {s} :
                              /\ runOf[t] = r
                              /\ \/ task[t] = "unlink"
                                 \/ t \in failed /\ r \in kept

(* Seen from the tuple, a process's start calls and sessions behave as the *)
(* holders of TupleSlot: one at a time holds it, from the grant of the     *)
(* lock until its teardown begins.                                         *)
Holders == {r \in Run : Unended(r) \/ start[r] \in {"create", "evidence"}}

Slot == INSTANCE TupleSlot WITH holders <- Holders, compromised <- FALSE

SlotSpec == Slot!Spec

(* The inductive invariant behind all but DiskMatchesSession and           *)
(* StopTellsTheEnd.  A start call holds the lock before it has a session;  *)
(* a task works on a session that exists, the timer's and the abort's on   *)
(* their own run; past the guard of finalize the session's status is       *)
(* final; and of a handle that was released the lock is another's or       *)
(* nobody's, is being unlinked, or could not be.                           *)
StartStages ==
    \A r \in Run :
        /\ start[r] \in {"idle", "acquire"} => lock # r
        /\ start[r] \in {"create", "evidence"} => lock = r
        /\ start[r] = "evidence" => streams[r] = "open"
        /\ start[r] \in {"idle", "acquire", "create", "evidence"}
               => status[r] = "none" /\ r \notin released
        /\ start[r] \in Guarded \union {"aborting", "ok"}
               => status[r] # "none"

TaskStages ==
    \A t \in Task :
        /\ task[t] # "idle" => runOf[t] \in Run
        /\ task[t] \in {"idle", "called"} => endStatus[t] = "none"
        /\ runOf[t] \in Run => status[runOf[t]] # "none"
        /\ task[t] \in Body =>
               endStatus[t] # "none" /\ status[runOf[t]] \in Closed
        /\ task[t] \in {"unlink", "unregister"} => runOf[t] \in released
        /\ t \in failed => endStatus[t] # "none"

ReleasedOnce ==
    \A r \in released :
        \/ lock # r
        \/ \E t \in Task : runOf[t] = r /\ task[t] = "unlink"
        \/ r \in kept

TasksKeepRuns ==
    \A r \in Run :
        runOf[Timeout(r)] \in {None, r} /\ runOf[Abort(r)] \in {None, r}

RegisteredExist ==
    \A r \in Run : r \in sessions \/ tupleIndex = r => status[r] # "none"

FailedUnregistered ==
    \A r \in Run : start[r] = "failed" => r \notin sessions /\ tupleIndex # r

SessionInv ==
    /\ TypeOK
    /\ StartStages
    /\ TaskStages
    /\ ReleasedOnce
    /\ TasksKeepRuns
    /\ RegisteredExist
    /\ FailedUnregistered
    /\ LiveSessionIsWhole
    /\ NoStrandedTuple
    /\ TeardownExclusive

(* What has to be added for those two.  Unless it was overtaken, a run's   *)
(* start call is over, or has only to abort, once a teardown has begun.    *)
Ended(t) == endStatus[t] # "none"

StartsAreOver ==
    \A t \in Task : Ended(t) /\ runOf[t] \notin overtaken =>
        start[runOf[t]] \in {"aborting", "ok", "failed"}

(* Whoever ends a session ends it with one status, and only a degraded one *)
(* is ended twice.                                                         *)
EndsAgree ==
    /\ \A t \in Task : Ended(t) =>
           status[runOf[t]] = endStatus[t] /\ timer[runOf[t]] = "stopped"
    /\ \A t, u \in Task :
           Ended(t) /\ Ended(u) /\ t # u /\ runOf[t] = runOf[u] =>
               status[runOf[t]] = "degraded"

(* What each step of finalize has done stays done.                         *)
StepsStay ==
    \A t \in Task : LET r == runOf[t] IN Ended(t) =>
        /\ task[t] \in Body \union {"report", "done"}
        /\ task[t] \notin {"logcat", "shutdown"} /\ r \notin overtaken =>
               logcat[r] # "running"
        /\ /\ task[t] \notin {"logcat", "shutdown", "patchRead", "patchWrite"}
           /\ t \notin failed /\ r \notin overtaken
           => meta[r].status = endStatus[t]
        /\ task[t] \in {"release", "unlink", "unregister", "report", "done"} =>
               streams[r] = "closed"
        /\ task[t] \in {"report", "done"} =>
               r \notin sessions /\ tupleIndex # r /\ r \in released

(* The provenance is in metadata.json, and in every copy in flight.        *)
ProvenanceKept ==
    \A r \in Run \ overtaken :
        start[r] \in {"launch", "logcat", "announce", "ok"} =>
            /\ meta[r].provenance
            /\ \A t \in Task : runOf[t] = r /\ task[t] = "patchWrite" =>
                   copy[t].provenance

(* A stop that has an answer to give met no error, and gives the status.   *)
AnswersKept ==
    \A s \in Stopper :
        /\ task[s] = "report" => s \notin failed
        /\ told[s] # "none" => task[s] = "done" /\ s \notin failed
        /\ told[s] # "none" /\ Ended(s) /\ runOf[s] \notin overtaken =>
               told[s] = endStatus[s]

EndingInv ==
    StartsAreOver /\ EndsAgree /\ StepsStay /\ ProvenanceKept /\ AnswersKept

(* Each session ends, whether or not a client stops it, and frees its      *)
(* index entry even when steps of its teardown fail, and its lock unless   *)
(* the release of the lock itself does.                                    *)
EverySessionEnds ==
    \A r \in Run :
        r \in sessions ~> /\ r \notin sessions
                          /\ tupleIndex # r
                          /\ lock = r => r \in kept

(* Each start_session call is answered.                                    *)
StartSettles ==
    \A r \in Run : start[r] \in Starting ~> start[r] \in {"ok", "failed"}

-----------------------------------------------------------------------------
(* What comments say of the sessions, and the code does not keep.          *)

(* scan.ts:36-38, a run whose metadata is still open is one whose process  *)
(* "died without finalizing it": in a process that lives, a finished       *)
(* teardown that met no error leaves no such run for the next recovery.    *)
StoppedRunIsClosed ==
    \A r \in Run :
        (/\ start[r] \in {"ok", "failed"}
         /\ \E t \in Task \ failed :
                runOf[t] = r /\ endStatus[t] # "none" /\ task[t] = "done")
        => meta[r].status # "active"
=============================================================================
