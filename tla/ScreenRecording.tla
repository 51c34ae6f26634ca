--------------------------- MODULE ScreenRecording ---------------------------
(***************************************************************************)
(* The screen recordings of one session: start and stop calls              *)
(* (mcp/tools/screen_recording.ts), the session's one slot for them and    *)
(* its finalize (session/session.ts), and the recorder that runs detached  *)
(* on the device (adb/screenrecord.ts).  Calls interleave at each await of *)
(* an adb command or of the start promise.                                 *)
(*                                                                         *)
(* A recording is known by its id.  Its file grows while the recorder      *)
(* runs, is whole once the recorder has ended by itself or by SIGINT, and  *)
(* cut after SIGKILL.  An event counts as appended when it is queued, as   *)
(* the streams are closed behind what is queued.                           *)
(***************************************************************************)
EXTENDS Integers

CONSTANTS
    Recording,  \* ids of recordings, one per start call
    Stop,       \* explicit stop calls
    None        \* no recording

(* The task of Session.finalize.                                           *)
Final == "finalize"
Task  == Stop \union {Final}

ASSUME NamesAssumption == Final \notin Stop /\ None \notin Recording

VARIABLES
    session,    \* how far the session's end has come
    slot,       \* Session.screenRecording
    start,      \* where each start call, and with it its promise, is
    proc,       \* each recorder on the device
    remote,     \* each file on the device
    artifact,   \* each file in the run folder
    at,         \* where each task that stops a recording is
    of,         \* the recording it stops
    events,     \* started, saved and given up, as recorded
    late,       \* history: recordings begun after finalize
    killed,     \* history: recordings ended by SIGKILL
    invalid,    \* history: recordings whose artifact was refused
    pullers     \* history: the tasks that have pulled each file

device  == <<proc, remote>>
history == <<late, killed, invalid, pullers>>
vars == <<session, slot, start, device, artifact, at, of, events, history>>

-----------------------------------------------------------------------------
Started == {r \in Recording : start[r] \in {"started", "announced"}}
Working == {"wait", "interrupt", "grace", "pull", "pulling", "check",
            "rmGood", "rmBad", "sheet", "discardKill", "discardRm"}

TypeOK ==
    /\ session \in {"open", "closing", "draining", "closed"}
    /\ slot \in Recording \union {None}
    /\ start \in [Recording -> {"none", "command", "spawn", "ready", "discard",
                                "started", "announced", "failed", "rejected"}]
    /\ proc \in [Recording -> {"none", "running", "exited"}]
    /\ remote \in [Recording -> {"none", "growing", "whole", "cut"}]
    /\ artifact \in [Recording -> {"none", "partial", "whole", "cut"}]
    /\ at \in [Task -> {"idle", "command", "done", "failed"} \union Working]
    /\ of \in [Task -> Recording \union {None}]
    /\ events \in SUBSET ({"started", "saved", "gaveUp"} \X Recording)
    /\ late \in SUBSET Recording /\ killed \in SUBSET Recording
    /\ invalid \in SUBSET Recording
    /\ pullers \in [Recording -> SUBSET Task]
    /\ slot # None => start[slot] \in {"spawn", "ready", "discard"} \/ slot \in Started

Init ==
    /\ session = "open" /\ slot = None
    /\ start = [r \in Recording |-> "none"]
    /\ proc = [r \in Recording |-> "none"]
    /\ remote = [r \in Recording |-> "none"]
    /\ artifact = [r \in Recording |-> "none"]
    /\ at = [t \in Task |-> "idle"]
    /\ of = [t \in Task |-> None]
    /\ events = {}
    /\ late = {} /\ killed = {} /\ invalid = {}
    /\ pullers = [r \in Recording |-> {}]

Steps(r, from, to) == start[r] = from /\ start' = [start EXCEPT ![r] = to]
Moves(t, from, to) == at[t] = from /\ at' = [at EXCEPT ![t] = to]

-----------------------------------------------------------------------------
(* Starting.                                                               *)

(* The session is connected; the command's row is being appended.          *)
StartCall(r) ==
    /\ session = "open"
    /\ Steps(r, "none", "command")
    /\ UNCHANGED <<session, slot, device, artifact, at, of, events, history>>

(* beginScreenRecording, which does not ask whether the session still is.  *)
BeginRecording(r) ==
    /\ session # "closed"
    /\ slot = None
    /\ Steps(r, "command", "spawn")
    /\ slot' = r
    /\ late' = IF session = "open" THEN late ELSE late \union {r}
    /\ UNCHANGED <<session, device, artifact, at, of, events, killed, invalid,
                   pullers>>

RejectRecording(r) ==
    /\ slot # None \/ session = "closed"
    /\ Steps(r, "command", "rejected")
    /\ UNCHANGED <<session, slot, device, artifact, at, of, events, history>>

(* The recorder is on its way, and its pid known.                          *)
Spawned(r) ==
    /\ Steps(r, "spawn", "ready")
    /\ proc' = [proc EXCEPT ![r] = "running"]
    /\ remote' = [remote EXCEPT ![r] = "growing"]
    /\ UNCHANGED <<session, slot, artifact, at, of, events, history>>

(* The promise is rejected: the slot is freed if it is still this one's.   *)
Freed(r) == slot' = IF slot = r THEN None ELSE slot

(* The adb command fails or times out, whether the recorder runs or not.   *)
SpawnFails(r) ==
    /\ Steps(r, "spawn", "failed")
    /\ \/ UNCHANGED device
       \/ /\ proc' = [proc EXCEPT ![r] = "running"]
          /\ remote' = [remote EXCEPT ![r] = "growing"]
    /\ Freed(r)
    /\ UNCHANGED <<session, artifact, at, of, events, history>>

(* The recorder is alive and its file has bytes.                           *)
Ready(r) ==
    /\ proc[r] = "running"
    /\ Steps(r, "ready", "started")
    /\ UNCHANGED <<session, slot, device, artifact, at, of, events, history>>

(* It is not, or three seconds are over.                                   *)
NotReady(r) ==
    /\ Steps(r, "ready", "discard")
    /\ UNCHANGED <<session, slot, device, artifact, at, of, events, history>>

(* An adb command of the loop fails; nothing is discarded.                 *)
ReadyFails(r) ==
    /\ Steps(r, "ready", "failed")
    /\ Freed(r)
    /\ UNCHANGED <<session, device, artifact, at, of, events, history>>

(* SIGKILL, if it gets through, and what it leaves.                        *)
Killed(r) ==
    IF proc[r] = "running"
    THEN /\ proc' = [proc EXCEPT ![r] = "exited"]
         /\ remote' = [remote EXCEPT ![r] = IF @ = "growing" THEN "cut" ELSE @]
         /\ killed' = killed \union {r}
    ELSE UNCHANGED <<device, killed>>

(* discardScreenRecording, best effort, of a start that failed.            *)
DiscardStart(r) ==
    /\ Steps(r, "discard", "failed")
    /\ \/ /\ proc' = [proc EXCEPT ![r] = "exited"]
          /\ remote' = [remote EXCEPT ![r] = "none"]
       \/ UNCHANGED device
    /\ Freed(r)
    /\ UNCHANGED <<session, artifact, at, of, events, history>>

(* The start call returns the recording's id.                              *)
Announce(r) ==
    /\ Steps(r, "started", "announced")
    /\ events' = IF session = "closed" THEN events
                 ELSE events \union {<<"started", r>>}
    /\ UNCHANGED <<session, slot, device, artifact, at, of, history>>

-----------------------------------------------------------------------------
(* The recorder ends: SIGINT, its time limit, or any other reason.         *)
RecorderExits(r) ==
    /\ proc[r] = "running"
    /\ proc' = [proc EXCEPT ![r] = "exited"]
    /\ remote' = [remote EXCEPT ![r] = IF @ = "growing" THEN "whole" ELSE @]
    /\ UNCHANGED <<session, slot, start, artifact, at, of, events, history>>

-----------------------------------------------------------------------------
(* Stopping: the steps of stopScreenRecording are the same for a stop call *)
(* and for finalize; what a failure leads to is not.                       *)

(* A client has the id from a start call or from the error of another one. *)
StopCall(k, r) ==
    /\ session = "open" /\ start[r] # "none"
    /\ Moves(k, "idle", "command")
    /\ of' = [of EXCEPT ![k] = r]
    /\ UNCHANGED <<session, slot, start, device, artifact, events, history>>

StopBegins(k) ==
    /\ \/ Moves(k, "command", "wait") /\ slot = of[k]
       \/ Moves(k, "command", "failed") /\ slot # of[k]
    /\ UNCHANGED <<session, slot, start, device, artifact, of, events, history>>

(* Session.finalize, up to its first await.                                *)
BeginFinalize ==
    /\ session = "open"
    /\ IF slot = None
       THEN /\ session' = "draining"
            /\ UNCHANGED <<at, of>>
       ELSE /\ session' = "closing"
            /\ at' = [at EXCEPT ![Final] = "wait"]
            /\ of' = [of EXCEPT ![Final] = slot]
    /\ UNCHANGED <<slot, start, device, artifact, events, history>>

(* logcat shutdown and the patch of metadata.json, then closeStreams.      *)
CloseStreams ==
    /\ session = "draining"
    /\ session' = "closed"
    /\ UNCHANGED <<slot, start, device, artifact, at, of, events, history>>

(* Where a task goes when a step of it throws.                             *)
Thrown(t) == IF t = Final THEN "discardKill" ELSE "failed"

AwaitStart(t) ==
    /\ \/ Moves(t, "wait", "interrupt") /\ of[t] \in Started
       \/ Moves(t, "wait", Thrown(t)) /\ start[of[t]] = "failed"
    /\ UNCHANGED <<session, slot, start, device, artifact, of, events, history>>

(* SIGINT is sent; RecorderExits is what it does.                          *)
Interrupt(t) ==
    /\ Moves(t, "interrupt", "grace")
    /\ UNCHANGED <<session, slot, start, device, artifact, of, events, history>>

(* Mutant: the recorder is asked to stop, and its file pulled.             *)
GraceSkipped(t) ==
    /\ Moves(t, "grace", "pull")
    /\ UNCHANGED <<session, slot, start, device, artifact, of, events, history>>

(* The recorder has gone, or is killed after five seconds.                 *)
GraceEnds(t) ==
    /\ Moves(t, "grace", "pull")
    /\ Killed(of[t])
    /\ UNCHANGED <<session, slot, start, artifact, of, events, late, invalid,
                   pullers>>

PullStart(t) ==
    /\ Moves(t, "pull", "pulling")
    /\ remote[of[t]] # "none"
    /\ artifact' = [artifact EXCEPT ![of[t]] = "partial"]
    /\ pullers' = [pullers EXCEPT ![of[t]] = @ \union {t}]
    /\ UNCHANGED <<session, slot, start, device, of, events, late, killed,
                   invalid>>

(* All of the file as it was opened is here; its recorder no longer writes *)
(* and its name may be gone.  Of two pulls either may have the artifact.   *)
PullEnd(t) ==
    LET r == of[t]
    IN  /\ Moves(t, "pulling", "check")
        /\ \/ artifact' = [artifact EXCEPT ![r] =
                             IF r \in killed \/ proc[r] = "running" THEN "cut"
                             ELSE "whole"]
           \/ /\ \E u \in Task \ {t} : at[u] = "pulling" /\ of[u] = r
              /\ UNCHANGED artifact
        /\ UNCHANGED <<session, slot, start, device, of, events, history>>

(* validateMp4 looks at the first bytes only, which a cut file may have.   *)
Validate(t) ==
    /\ \/ /\ Moves(t, "check", "rmGood")
          /\ artifact[of[t]] # "none"
          /\ UNCHANGED invalid
       \/ /\ Moves(t, "check", "rmBad")
          /\ artifact[of[t]] # "whole"
          /\ invalid' = invalid \union {of[t]}
    /\ UNCHANGED <<session, slot, start, device, artifact, of, events, late,
                   killed, pullers>>

(* The remote file is removed whether the artifact is valid or not; that   *)
(* this fails is passed over.                                              *)
RemoveRemote(t) ==
    /\ \/ Moves(t, "rmGood", "sheet") \/ Moves(t, "rmBad", Thrown(t))
    /\ remote' \in {remote, [remote EXCEPT ![of[t]] = "none"]}
    /\ UNCHANGED <<session, slot, start, proc, artifact, of, events, history>>

(* Mutant: the file is removed as soon as the pull is over, failed or not. *)
AdbFailsRemoving(t) ==
    /\ \E a \in {"interrupt", "grace", "pull", "pulling"} : Moves(t, a, Thrown(t))
    /\ remote' = [remote EXCEPT ![of[t]] = "none"]
    /\ UNCHANGED <<session, slot, start, proc, artifact, of, events, history>>

(* An adb command fails, the pull for one if the file is not there.        *)
AdbFails(t) ==
    /\ \E a \in {"interrupt", "grace", "pull", "pulling"} : Moves(t, a, Thrown(t))
    /\ UNCHANGED <<session, slot, start, device, artifact, of, events, history>>

(* finalize goes on to the logcat channel.                                 *)
FinalizeGoesOn(t) == session' = IF t = Final THEN "draining" ELSE session

(* The contact sheet is built or not; the slot is freed and the event      *)
(* appended.                                                               *)
Saved(t) ==
    /\ \/ /\ session # "closed"
          /\ Moves(t, "sheet", "done")
          /\ events' = events \union {<<"saved", of[t]>>}
       \/ /\ session = "closed"
          /\ Moves(t, "sheet", "failed")
          /\ UNCHANGED events
    /\ Freed(of[t])
    /\ FinalizeGoesOn(t)
    /\ UNCHANGED <<start, device, artifact, of, history>>

(* Mutant: finalize clears the slot and keeps quiet.                       *)
GiveUpQuietly ==
    /\ Moves(Final, "discardRm", "done")
    /\ remote' \in {remote, [remote EXCEPT ![of[Final]] = "none"]}
    /\ slot' = None
    /\ session' = "draining"
    /\ UNCHANGED <<start, proc, artifact, of, events, history>>

(* finalize: the recorder is killed, if there is one and adb answers.      *)
DiscardKill ==
    /\ Moves(Final, "discardKill", "discardRm")
    /\ \/ of[Final] \in Started /\ Killed(of[Final])
       \/ UNCHANGED <<device, killed>>
    /\ UNCHANGED <<session, slot, start, artifact, of, events, late, invalid,
                   pullers>>

(* Its file is removed, the slot freed, whatever is in it, the failure     *)
(* recorded.                                                               *)
GiveUp ==
    /\ Moves(Final, "discardRm", "done")
    /\ \/ /\ of[Final] \in Started
          /\ remote' = [remote EXCEPT ![of[Final]] = "none"]
       \/ UNCHANGED remote
    /\ slot' = None
    /\ events' = events \union {<<"gaveUp", of[Final]>>}
    /\ session' = "draining"
    /\ UNCHANGED <<start, proc, artifact, of, history>>

-----------------------------------------------------------------------------
Next ==
    \/ \E r \in Recording :
          \/ StartCall(r) \/ BeginRecording(r) \/ RejectRecording(r)
          \/ Spawned(r) \/ SpawnFails(r) \/ Ready(r) \/ NotReady(r)
          \/ ReadyFails(r) \/ DiscardStart(r) \/ Announce(r) \/ RecorderExits(r)
          \/ \E k \in Stop : StopCall(k, r)
    \/ \E k \in Stop : StopBegins(k)
    \/ \E t \in Task :
          \/ AwaitStart(t) \/ Interrupt(t) \/ GraceEnds(t) \/ PullStart(t)
          \/ PullEnd(t) \/ Validate(t) \/ RemoveRemote(t) \/ AdbFails(t)
          \/ Saved(t)
    \/ BeginFinalize \/ CloseStreams \/ DiscardKill \/ GiveUp

Spec == Init /\ [][Next]_vars

-----------------------------------------------------------------------------
(* Properties.                                                             *)

AtWork(t, r) == of[t] = r /\ at[t] \in Working

(* One task has pulled r, or none.                                         *)
PulledOnce(r) == \A t, u \in pullers[r] : t = u

(* r is in the run folder, whole, or cut as its recorder had to be killed. *)
Sound(r) == artifact[r] = "whole" \/ (artifact[r] = "cut" /\ r \in killed)

(* A recording announced as saved is in the run folder, whole, or cut      *)
(* because its recorder had to be killed; a stop and a finalize, or two    *)
(* stops, that pulled it both are excepted.                                *)
SavedIsWhole ==
    \A r \in Recording : <<"saved", r>> \in events /\ PulledOnce(r) => Sound(r)

(* A stop that failed can be tried again (screenrecord.ts:80): while the   *)
(* slot is held by a recording that no task is stopping, its file is on    *)
(* the device, unless what was pulled of it has been refused.              *)
StopCanBeRetried ==
    \A r \in Started \ invalid :
        slot = r /\ (\A t \in Task : ~AtWork(t, r)) => remote[r] # "none"

(* The end of a session accounts for every recording a client was given,   *)
(* saved or given up, and unless it was given up leaves no recorder at     *)
(* work.  One begun while the session was ending is not seen by its end.   *)
NothingLeftBehind ==
    session = "closed" =>
        \A r \in Started \ late :
            \/ <<"saved", r>> \in events /\ proc[r] # "running"
            \/ <<"gaveUp", r>> \in events

-----------------------------------------------------------------------------
(* The inductive invariant behind them.                                    *)

Stopping == {"interrupt", "grace", "pull", "pulling", "check", "rmGood",
             "rmBad", "sheet"}
Fetched  == {"pulling", "check", "rmGood", "rmBad", "sheet"}

(* How far the end of the session has come, and what it leaves the slot to.*)
SessionStages ==
    /\ at[Final] \in {"idle", "done"} \union Working
    /\ session = "closing" <=> at[Final] \in Working
    /\ session = "open" => at[Final] = "idle" /\ late = {}
    /\ session = "closing" => slot \in late \union {None, of[Final]}
    /\ session \in {"draining", "closed"} => slot \in late \union {None}

(* What a task stops has started, or failed to; from the pull on it no     *)
(* longer runs.                                                            *)
TaskStage(t) ==
    /\ at[t] # "idle" => of[t] \in Recording
    /\ at[t] \in Stopping => of[t] \in Started
    /\ at[t] \in {"discardKill", "discardRm"} =>
          t = Final /\ (of[t] \in Started \/ start[of[t]] = "failed")
    /\ at[t] \in Fetched \union {"pull"} => proc[of[t]] # "running"
    /\ at[t] = "rmBad" => of[t] \in invalid

TaskStages == \A t \in Task : TaskStage(t)

(* A start call holds the slot until its recording has been saved, with its*)
(* recorder ended, or given up.                                            *)
AccountedFor(r) ==
    /\ start[r] \in {"spawn", "ready", "discard"} => slot = r
    /\ r \in Started =>
          \/ slot = r
          \/ <<"saved", r>> \in events /\ proc[r] # "running"
          \/ <<"gaveUp", r>> \in events

Accounted == \A r \in Recording \ late : AccountedFor(r)

(* A file leaves the device on the way to the freeing of its slot, or      *)
(* because it has been refused.                                            *)
RemoteKept ==
    \A r \in Recording :
        /\ start[r] = "ready" => remote[r] # "none"
        /\ r \in Started \ invalid /\ remote[r] = "none" /\ slot = r
              => \E t \in Task : of[t] = r /\ at[t] = "sheet"

(* Who has pulled a file, and what one that was pulled once is.            *)
PullStages ==
    /\ \A r \in Recording : \A t \in pullers[r] :
          of[t] = r /\ at[t] \in Fetched \union {"discardKill", "discardRm",
                                                  "done", "failed"}
    /\ \A t \in Task :
          /\ at[t] \in Fetched => t \in pullers[of[t]]
          /\ at[t] \in {"check", "rmGood", "sheet"} /\ PulledOnce(of[t]) => Sound(of[t])
    /\ \A r \in Recording : <<"saved", r>> \in events =>
          /\ \E t \in pullers[r] : at[t] = "done"
          /\ PulledOnce(r) => Sound(r)

RecordingInv ==
    TypeOK /\ SessionStages /\ TaskStages /\ Accounted /\ RemoteKept /\ PullStages
=============================================================================
