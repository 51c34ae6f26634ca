--------------------------- MODULE OrphanRecovery ---------------------------
(***************************************************************************)
(* The runs of one (device, user, package) tuple on disk, as the processes *)
(* of a host create, finalize, recover and clear them (recovery/scan.ts,   *)
(* store/run.ts, bootstrap.ts), on top of the lock file of TupleLock.      *)
(*                                                                         *)
(* Each step here is a step of TupleLock, to which it adds what becomes of *)
(* metadata.json, or leaves the lock alone.  Runs are numbered in order of *)
(* startedAt.  Every process uses the same run root.                       *)
(***************************************************************************)
EXTENDS TupleLock

VARIABLES
    meta,           \* metadata.json of each run, by its closedAt and status
    scanned,        \* the processes whose boot scan has listed its orphans
    todo,           \* the orphans each boot scan has still to look at
    orphan,         \* the orphan each recovery is finalizing, or None
    finalized       \* the patch of each run's finalize; "none" when the run
                    \* has no session yet, else "no", "done" or "failed"

scanVars     == <<scanned, todo, orphan>>
recoveryVars == <<meta, scanVars, finalized>>
allVars      == <<vars, recoveryVars>>

ASSUME RunsAreNumbered == Run \subseteq Nat

(* "open" is closedAt = null; the others are closed, or no folder at all.  *)
Closed == {"stopped", "aborted"}

RecoveryTypeOK ==
    /\ meta \in [Run -> {"none", "open", "deleted"} \union Closed]
    /\ scanned \subseteq Pid
    /\ todo \in [Pid -> SUBSET Run]
    /\ orphan \in [Pid -> Run \union {None}]
    /\ finalized \in [Run -> {"none", "no", "done", "failed"}]

RecoveryInit ==
    /\ Init
    /\ meta = [r \in Run |-> "none"]
    /\ scanned = {}
    /\ todo = [p \in Pid |-> {}]
    /\ orphan = [p \in Pid |-> None]
    /\ finalized = [r \in Run |-> "none"]

-----------------------------------------------------------------------------
(* Processes; a boot begins a scan of its own.                             *)

BootServer(p) ==
    /\ Boot(p)
    /\ UNCHANGED recoveryVars

KillServer(p) ==
    /\ Crash(p)
    /\ scanned' = scanned \ {p}
    /\ todo' = [todo EXCEPT ![p] = {}]
    /\ orphan' = [orphan EXCEPT ![p] = None]
    /\ UNCHANGED <<meta, finalized>>

-----------------------------------------------------------------------------
(* A run, from its start call to the release of its lock.                  *)

BeginStart(r, p) ==
    /\ \A s \in Run : s < r => pc[s] # "idle"
    /\ StartCall(r, p)
    /\ UNCHANGED recoveryVars

LockStep(r) ==
    /\ Acquire(r)
    /\ UNCHANGED recoveryVars

(* createRunDir writes metadata.json, under the lock.                      *)
CreateRunDir(r) ==
    /\ pc[r] = "held" /\ meta[r] = "none"
    /\ meta' = [meta EXCEPT ![r] = "open"]
    /\ UNCHANGED <<vars, scanVars, finalized>>

(* The streams and the evidence directories are there: the run gets its    *)
(* session.                                                                *)
RegisterSession(r) ==
    /\ pc[r] = "held" /\ finalized[r] = "none" /\ meta[r] # "none"
    /\ finalized' = [finalized EXCEPT ![r] = "no"]
    /\ UNCHANGED <<vars, meta, scanVars>>

(* finalize's patch of metadata.json, over whatever it says by now.        *)
FinalizeRun(r) ==
    /\ pc[r] = "held" /\ finalized[r] = "no"
    /\ meta[r] \notin {"none", "deleted"}
    /\ meta' = [meta EXCEPT ![r] = "stopped"]
    /\ finalized' = [finalized EXCEPT ![r] = "done"]
    /\ UNCHANGED <<vars, scanVars>>

(* The patch fails, which does not keep finalize from releasing the lock.  *)
FinalizeRunFails(r) ==
    /\ pc[r] = "held" /\ finalized[r] = "no"
    /\ meta[r] = "deleted" \/ FilesMayFail
    /\ finalized' = [finalized EXCEPT ![r] = "failed"]
    /\ UNCHANGED <<vars, meta, scanVars>>

(* Mutant: the lock is released before metadata.json is patched.           *)
ReleaseRunFirst(r) ==
    /\ Release(r)
    /\ UNCHANGED recoveryVars

(* finalize's release() comes after its patch.  A start call whose         *)
(* createRunDir or evidence directories fail, before or after              *)
(* metadata.json was written, has no session, and releases the lock        *)
(* without a patch.                                                        *)
MayRelease(r) ==
    \/ pc[r] = "unlink"
    \/ finalized[r] \in {"done", "failed"}
    \/ finalized[r] = "none" /\ FilesMayFail

ReleaseRun(r) ==
    /\ MayRelease(r)
    /\ Release(r)
    /\ UNCHANGED recoveryVars

(* clearLocalRunLogs: any serving process deletes a run that is closed,    *)
(* before it takes the lock for the run it starts.                         *)
ClearClosedRun(r) ==
    /\ \E p \in Pid : rec[p] = "serving"
    /\ meta[r] \in Closed
    /\ meta' = [meta EXCEPT ![r] = "deleted"]
    /\ UNCHANGED <<vars, scanVars, finalized>>

-----------------------------------------------------------------------------
(* recoverOrphans.                                                         *)

(* The runs that are open now are the orphans of this boot.                *)
Scan(p) ==
    /\ rec[p] = "boot" /\ p \notin scanned
    /\ scanned' = scanned \union {p}
    /\ todo' = [todo EXCEPT ![p] = {r \in Run : meta[r] = "open"}]
    /\ UNCHANGED <<vars, meta, orphan, finalized>>

(* The orphans are taken oldest first.                                     *)
Oldest(p, r) == r \in todo[p] /\ \A s \in todo[p] : r <= s

(* Mutant: an orphan that is left stays at the head of the list.           *)
LeaveOrphanListed(p, r) ==
    /\ rec[p] = "boot" /\ p \in scanned
    /\ Oldest(p, r)
    /\ path # None /\ (Readable => OwnerLive(path))
    /\ UNCHANGED allVars

(* The tuple's lock has a live owner, or is there and unreadable, or could *)
(* not be read.                                                            *)
LeaveOrphan(p, r) ==
    /\ rec[p] = "boot" /\ p \in scanned
    /\ Oldest(p, r)
    /\ FilesMayFail \/ (path # None /\ (Readable => OwnerLive(path)))
    /\ todo' = [todo EXCEPT ![p] = @ \ {r}]
    /\ UNCHANGED <<vars, meta, scanned, orphan, finalized>>

InspectOrphan(p, r) ==
    /\ p \in scanned
    /\ Oldest(p, r)
    /\ RecoverInspect(p)
    /\ orphan' = [orphan EXCEPT ![p] = r]
    /\ todo' = [todo EXCEPT ![p] = @ \ {r}]
    /\ UNCHANGED <<meta, scanned, finalized>>

(* Whatever metadata.json says by now, it becomes aborted.                 *)
AbortOrphan(p) ==
    /\ RecoverFinalize(p)
    /\ meta[orphan[p]] # "deleted"
    /\ meta' = [meta EXCEPT ![orphan[p]] = "aborted"]
    /\ UNCHANGED <<scanVars, finalized>>

(* Another process has deleted the run, or the write fails.                *)
AbortOrphanFails(p) ==
    /\ RecoverFinalizeFails(p)
    /\ FilesMayFail \/ meta[orphan[p]] = "deleted"
    /\ UNCHANGED recoveryVars

FreeTuple(p) ==
    /\ RecoverConfirm(p) \/ RecoverUnlink(p) \/ RecoverReleaseFails(p)
    /\ UNCHANGED recoveryVars

Connect(p) ==
    /\ p \in scanned /\ todo[p] = {}
    /\ Serve(p)
    /\ UNCHANGED recoveryVars

-----------------------------------------------------------------------------
RunSteps(r) ==
    \/ LockStep(r)
    \/ CreateRunDir(r)
    \/ RegisterSession(r)
    \/ FinalizeRun(r)
    \/ FinalizeRunFails(r)
    \/ ReleaseRun(r)
    \/ ClearClosedRun(r)

RecoverySteps(p) ==
    \/ Scan(p)
    \/ \E r \in Run : LeaveOrphan(p, r) \/ InspectOrphan(p, r)
    \/ AbortOrphan(p)
    \/ AbortOrphanFails(p)
    \/ FreeTuple(p)
    \/ Connect(p)

RecoveryNext ==
    \/ \E p \in Pid : BootServer(p) \/ KillServer(p) \/ RecoverySteps(p)
    \/ \E r \in Run, p \in Pid : BeginStart(r, p)
    \/ \E r \in Run : RunSteps(r)

RecoverySpec == RecoveryInit /\ [][RecoveryNext]_allVars

(* A live process carries its boot recovery through.                       *)
FairRecoverySpec ==
    RecoverySpec /\ \A p \in Pid : WF_allVars(RecoverySteps(p))

-----------------------------------------------------------------------------
(* Properties.                                                             *)

(* What recovery takes for granted when it finds a run open and no live    *)
(* owner of its tuple's lock: a run that is open either still holds the    *)
(* lock, or its process has died, or an operation failed: finalize's patch *)
(* of metadata.json, or one of the start call after metadata.json was      *)
(* written (run.ts:80), which then never came to have a session.  This is  *)
(* why finalize patches before it releases the lock.                       *)
OpenRunIsOwned ==
    ~misfired =>
        \A r \in Run : meta[r] = "open" =>
            \/ pc[r] = "dead"
            \/ pc[r] = "held" /\ path = r
            \/ FilesMayFail /\ finalized[r] \in {"none", "failed"}

(* No boot, however long its list of orphans has grown stale, replays and  *)
(* aborts the run of a session that is still open in a live process        *)
(* (scan.ts:79-84), as long as no lock file was unlinked by mistake.       *)
RecoverySparesLiveRuns ==
    ~misfired =>
        \A p \in Pid : rec[p] = "finalize" =>
            LET r == orphan[p]
            IN  ~(pc[r] = "held" /\ finalized[r] \in {"none", "no"})

(* Every boot comes to serve, or dies: no orphan, blocked, unreadable,     *)
(* deleted under the scan or failing to patch, holds the scan up.          *)
BootServes == \A p \in Pid : rec[p] # "off" ~> rec[p] \in {"serving", "off"}

(* The inductive invariant behind OpenRunIsOwned and                       *)
(* RecoverySparesLiveRuns: a run has a folder only once it has held the    *)
(* lock, and scans list runs that have one; a patch that succeeded leaves  *)
(* its run closed.                                                         *)
FolderNeedsLock ==
    \A r \in Run : pc[r] \in {"idle"} \union Acquiring => meta[r] = "none"

OrphansHaveFolders ==
    /\ \A p \in Pid, r \in Run : r \in todo[p] => meta[r] # "none"
    /\ \A p \in Pid : rec[p] = "finalize" =>
           orphan[p] \in Run /\ meta[orphan[p]] # "none"

OpenIsHeld ==
    \A r \in Run :
        /\ finalized[r] # "none" => meta[r] # "none"
        /\ finalized[r] = "done" => meta[r] # "open"
        /\ finalized[r] = "failed" => FilesMayFail \/ meta[r] = "deleted"
        /\ meta[r] = "open" =>
               \/ pc[r] \in {"held", "dead"}
               \/ FilesMayFail /\ finalized[r] \in {"none", "failed"}

RecoveryInv ==
    /\ RecoveryTypeOK
    /\ LockInv
    /\ FolderNeedsLock
    /\ OrphansHaveFolders
    /\ OpenIsHeld
    /\ RecoverySparesLiveRuns
=============================================================================
