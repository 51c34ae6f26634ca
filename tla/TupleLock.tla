------------------------------ MODULE TupleLock ------------------------------
(***************************************************************************)
(* The lock file of one (device, user, package) tuple (store/lock.ts), as  *)
(* the server processes of one host use it: acquireLock and the handle's   *)
(* release() for the start calls, readLockOwner and releaseLockIfOwner for *)
(* the orphan recovery each process runs when it boots.                    *)
(*                                                                         *)
(* Every await on the file system is a step of its own, so that any two    *)
(* processes (and two start calls of one process) interleave between a     *)
(* read of the lock file and the unlink that acts on what was read.  A run *)
(* creates at most one lock file in its life, so a run also stands for the *)
(* inode it created: "path" is the inode the lock path names, and a file   *)
(* that was unlinked while its creator was still writing stays unlinked.   *)
(* Process start times are unknown to the code (getProcessStartMs returns  *)
(* null), so liveness is liveness of the pid, and a pid may be used again. *)
(* acquireLock's "force" has no caller and is left out.                    *)
(***************************************************************************)
EXTENDS Naturals, FiniteSets

CONSTANTS
    Run,            \* start calls; each mints a runId of its own
    Pid,            \* process ids the host hands out
    None,           \* no run, no process
    MaxBoots,       \* bound: server processes started in a behaviour
    FilesMayFail    \* whether file operations can fail (disk full, no right)

ASSUME ConstantsAssumption ==
    /\ None \notin Run
    /\ None \notin Pid
    /\ MaxBoots \in Nat
    /\ FilesMayFail \in BOOLEAN

VARIABLES
    path,           \* the run whose file the lock path names, or None
    written,        \* the runs whose file carries their owner record
    pc,             \* where each start call and its lock handle are
    retried,        \* the start calls in the second pass of the for loop
    seen,           \* the stale owner a start call has read
    pid,            \* the process each start call runs in
    alive,          \* the pids process.kill(pid, 0) finds
    rec,            \* where each process's orphan recovery is
    recSeen,        \* the stale owner recovery has read, None if no lock
    boots,          \* server processes started so far
    misfired        \* history: an unlink removed a file its caller never read

lockVars == <<path, written, misfired>>
callVars == <<pc, retried, seen, pid>>
procVars == <<alive, boots>>
recVars  == <<rec, recSeen>>
vars     == <<lockVars, callVars, procVars, recVars>>

-----------------------------------------------------------------------------
(* Phases of a start call.  Ended are its ends: refused and exhausted      *)
(* carry lock_held_by_active_owner, unreadable carries                     *)
(* lock_owner_unreadable, ioError a raw file system error, releaseFailed   *)
(* lock_release_failed.  The last two may leave a lock file behind, which  *)
(* nobody tries to remove again: such a call is dead when its process is.  *)
Acquiring == {"open", "write", "read", "evict"}
Held      == {"held", "unlink"}
Stuck     == {"ioError", "releaseFailed"}
Ended     == {"released", "refused", "exhausted", "unreadable", "dead"}
                 \union Stuck
Phase     == {"idle"} \union Acquiring \union Held \union Ended
Present   == Acquiring \union Held \union Stuck

RecPhase  == {"off", "boot", "finalize", "confirm", "unlink", "serving"}

(* A session lives from the grant of its lock until release() is called;   *)
(* between the two unlink-side steps of release() the session is closed.   *)
Holders == {r \in Run : pc[r] = "held"}

(* Mutant: every owner is taken for dead, as when EPERM were read as "no   *)
(* such process".                                                          *)
OwnerSeenDead(r) == FALSE

(* isOwnerLive: without start-time evidence a live pid is a live owner.    *)
OwnerLive(r) == pid[r] \in alive

Readable == path \in written

TypeOK ==
    /\ path \in Run \union {None}
    /\ written \subseteq Run
    /\ pc \in [Run -> Phase]
    /\ retried \subseteq Run
    /\ seen \in [Run -> Run \union {None}]
    /\ pid \in [Run -> Pid \union {None}]
    /\ alive \subseteq Pid
    /\ rec \in [Pid -> RecPhase]
    /\ recSeen \in [Pid -> Run \union {None}]
    /\ boots \in Nat
    /\ misfired \in BOOLEAN

Init ==
    /\ path = None
    /\ written = {}
    /\ pc = [r \in Run |-> "idle"]
    /\ retried = {}
    /\ seen = [r \in Run |-> None]
    /\ pid = [r \in Run |-> None]
    /\ alive = {}
    /\ rec = [p \in Pid |-> "off"]
    /\ recSeen = [p \in Pid |-> None]
    /\ boots = 0
    /\ misfired = FALSE

-----------------------------------------------------------------------------
(* Processes.                                                              *)

(* A server starts; the host may give it the pid of one that died.         *)
Boot(p) ==
    /\ p \notin alive
    /\ boots < MaxBoots
    /\ alive' = alive \union {p}
    /\ boots' = boots + 1
    /\ rec' = [rec EXCEPT ![p] = "boot"]
    /\ UNCHANGED <<lockVars, callVars, recSeen>>

(* kill -9: every call of the process stops where it is; its files stay.   *)
Crash(p) ==
    /\ p \in alive
    /\ alive' = alive \ {p}
    /\ pc' = [r \in Run |->
                IF pid[r] = p /\ pc[r] \in Present
                THEN "dead" ELSE pc[r]]
    /\ rec' = [rec EXCEPT ![p] = "off"]
    /\ recSeen' = [recSeen EXCEPT ![p] = None]
    /\ UNCHANGED <<lockVars, retried, seen, pid, boots>>

-----------------------------------------------------------------------------
(* acquireLock.                                                            *)

StartCall(r, p) ==
    /\ pc[r] = "idle"
    /\ rec[p] = "serving"
    /\ pc' = [pc EXCEPT ![r] = "open"]
    /\ pid' = [pid EXCEPT ![r] = p]
    /\ UNCHANGED <<lockVars, retried, seen, procVars, recVars>>

(* Mutant: the path is opened with "w", which takes it over.               *)
CreateOrTruncate(r) ==
    /\ pc[r] = "open"
    /\ path' = r
    /\ pc' = [pc EXCEPT ![r] = "write"]
    /\ UNCHANGED <<written, misfired, retried, seen, pid, procVars, recVars>>

(* open(path, "wx") creates an empty file.                                 *)
CreateExclusive(r) ==
    /\ pc[r] = "open"
    /\ path = None
    /\ path' = r
    /\ pc' = [pc EXCEPT ![r] = "write"]
    /\ UNCHANGED <<written, misfired, retried, seen, pid, procVars, recVars>>

(* open(path, "wx") fails with EEXIST.                                     *)
FindExisting(r) ==
    /\ pc[r] = "open"
    /\ path # None
    /\ pc' = [pc EXCEPT ![r] = "read"]
    /\ UNCHANGED <<lockVars, retried, seen, pid, procVars, recVars>>

(* writeFile, sync, close; the handle is returned.                         *)
WriteOwner(r) ==
    /\ pc[r] = "write"
    /\ written' = written \union {r}
    /\ pc' = [pc EXCEPT ![r] = "held"]
    /\ UNCHANGED <<path, misfired, retried, seen, pid, procVars, recVars>>

(* The write, the sync or the close throws; the file is left behind, with  *)
(* or without its record.                                                  *)
WriteOwnerFails(r) ==
    /\ FilesMayFail
    /\ pc[r] = "write"
    /\ written' \in {written, written \union {r}}
    /\ pc' = [pc EXCEPT ![r] = "ioError"]
    /\ UNCHANGED <<path, misfired, retried, seen, pid, procVars, recVars>>

(* Mutant: an unreadable owner is read again until it becomes readable.    *)
ReadOwnerAgain(r) ==
    /\ pc[r] = "read"
    /\ pc' = [pc EXCEPT ![r] = IF ~Readable THEN "open"
                               ELSE IF OwnerLive(path) THEN "refused"
                               ELSE "evict"]
    /\ seen' = [seen EXCEPT ![r] = path]
    /\ UNCHANGED <<lockVars, retried, pid, procVars, recVars>>

(* readOwnerOrThrow: a file that is gone, carries no record yet or cannot  *)
(* be read is an unreadable owner; a live owner refuses the call; a stale  *)
(* one is kept for the unlink.                                             *)
ReadOwner(r) ==
    /\ pc[r] = "read"
    /\ \/ /\ FilesMayFail \/ ~Readable
          /\ pc' = [pc EXCEPT ![r] = "unreadable"]
          /\ UNCHANGED seen
       \/ /\ Readable /\ OwnerLive(path)
          /\ pc' = [pc EXCEPT ![r] = "refused"]
          /\ UNCHANGED seen
       \/ /\ Readable /\ ~OwnerLive(path)
          /\ pc' = [pc EXCEPT ![r] = "evict"]
          /\ seen' = [seen EXCEPT ![r] = path]
    /\ UNCHANGED <<lockVars, retried, pid, procVars, recVars>>

(* unlink(path) removes whatever the path names by now.                    *)
Unlink(expected) ==
    /\ path' = None
    /\ misfired' = (misfired \/ path \notin {expected, None})

(* The loop runs twice: after the second eviction the call gives up.       *)
Evict(r) ==
    /\ pc[r] = "evict"
    /\ path # None
    /\ Unlink(seen[r])
    /\ retried' = retried \union {r}
    /\ pc' = [pc EXCEPT ![r] = IF r \in retried THEN "exhausted" ELSE "open"]
    /\ UNCHANGED <<written, seen, pid, procVars, recVars>>

(* The open or the unlink throws what nothing catches; an unlink does so   *)
(* whenever the file is gone (ENOENT).                                     *)
OpenOrEvictFails(r) ==
    /\ \/ pc[r] = "evict" /\ path = None
       \/ pc[r] \in {"open", "evict"} /\ FilesMayFail
    /\ pc' = [pc EXCEPT ![r] = "ioError"]
    /\ UNCHANGED <<lockVars, retried, seen, pid, procVars, recVars>>

-----------------------------------------------------------------------------
(* release() of the handle.                                                *)

(* The owner guard reads the file; only the handle's own record leads to   *)
(* the unlink.                                                             *)
CheckOwner(r) ==
    /\ pc[r] = "held"
    /\ pc' = [pc EXCEPT ![r] =
                IF path = None THEN "released"
                ELSE IF ~Readable THEN "releaseFailed"
                ELSE IF path # r THEN "released" ELSE "unlink"]
    /\ UNCHANGED <<lockVars, retried, seen, pid, procVars, recVars>>

(* Mutant: the handle is marked released and its file forgotten.           *)
ReleaseForgets(r) ==
    /\ pc[r] = "unlink"
    /\ pc' = [pc EXCEPT ![r] = "released"]
    /\ UNCHANGED <<lockVars, retried, seen, pid, procVars, recVars>>

ReleaseUnlink(r) ==
    /\ pc[r] = "unlink"
    /\ Unlink(r)
    /\ pc' = [pc EXCEPT ![r] = "released"]
    /\ UNCHANGED <<written, retried, seen, pid, procVars, recVars>>

(* The owner cannot be read, or the unlink throws: lock_release_failed.    *)
(* The handle counts as released, so nobody tries again.                   *)
ReleaseFails(r) ==
    /\ FilesMayFail
    /\ pc[r] \in Held
    /\ pc' = [pc EXCEPT ![r] = "releaseFailed"]
    /\ UNCHANGED <<lockVars, retried, seen, pid, procVars, recVars>>

-----------------------------------------------------------------------------
(* Orphan recovery, once per boot: for each orphan of the tuple, read the  *)
(* lock; leave a lock that is unreadable or has a live owner; otherwise    *)
(* finalize the run and release the stale lock owner-guarded.              *)

RecoverInspect(p) ==
    /\ rec[p] = "boot"
    /\ path = None \/ (Readable /\ ~OwnerLive(path))
    /\ rec' = [rec EXCEPT ![p] = "finalize"]
    /\ recSeen' = [recSeen EXCEPT ![p] = path]
    /\ UNCHANGED <<lockVars, callVars, procVars>>

(* The run has been replayed and patched.                                  *)
RecoverFinalize(p) ==
    /\ rec[p] = "finalize"
    /\ rec' = [rec EXCEPT ![p] =
                   IF recSeen[p] = None THEN "boot" ELSE "confirm"]
    /\ UNCHANGED <<lockVars, callVars, procVars, recSeen>>

(* The patch fails: the lock stays, and the run is left for the next boot. *)
RecoverFinalizeFails(p) ==
    /\ rec[p] = "finalize"
    /\ rec' = [rec EXCEPT ![p] = "boot"]
    /\ UNCHANGED <<lockVars, callVars, procVars, recSeen>>

(* releaseLockIfOwner reads the owner again.                               *)
RecoverConfirm(p) ==
    /\ rec[p] = "confirm"
    /\ rec' = [rec EXCEPT ![p] =
                IF Readable /\ path = recSeen[p] THEN "unlink" ELSE "boot"]
    /\ UNCHANGED <<lockVars, callVars, procVars, recSeen>>

RecoverUnlink(p) ==
    /\ rec[p] = "unlink"
    /\ Unlink(recSeen[p])
    /\ rec' = [rec EXCEPT ![p] = "boot"]
    /\ UNCHANGED <<written, callVars, procVars, recSeen>>

(* releaseLockIfOwner throws: the stale lock stays.                        *)
RecoverReleaseFails(p) ==
    /\ FilesMayFail
    /\ rec[p] \in {"confirm", "unlink"}
    /\ rec' = [rec EXCEPT ![p] = "boot"]
    /\ UNCHANGED <<lockVars, callVars, procVars, recSeen>>

(* No orphan left: the transport is connected.                             *)
Serve(p) ==
    /\ rec[p] = "boot"
    /\ rec' = [rec EXCEPT ![p] = "serving"]
    /\ UNCHANGED <<lockVars, callVars, procVars, recSeen>>

-----------------------------------------------------------------------------
Acquire(r) ==
    \/ CreateExclusive(r)
    \/ FindExisting(r)
    \/ WriteOwner(r)
    \/ WriteOwnerFails(r)
    \/ ReadOwner(r)
    \/ Evict(r)
    \/ OpenOrEvictFails(r)

Recover(p) ==
    \/ RecoverInspect(p)
    \/ RecoverFinalize(p)
    \/ RecoverFinalizeFails(p)
    \/ RecoverConfirm(p)
    \/ RecoverUnlink(p)
    \/ RecoverReleaseFails(p)
    \/ Serve(p)

Release(r) ==
    \/ CheckOwner(r)
    \/ ReleaseUnlink(r)
    \/ ReleaseFails(r)

Next ==
    \/ \E p \in Pid : Boot(p) \/ Crash(p) \/ Recover(p)
    \/ \E r \in Run, p \in Pid : StartCall(r, p)
    \/ \E r \in Run : Acquire(r) \/ Release(r)

Spec == Init /\ [][Next]_vars

(* A live process's event loop completes the file operations it has begun; *)
(* nothing obliges a process to boot, a client to call, or a session to end. *)
Fairness == \A r \in Run : WF_vars(Acquire(r))

FairSpec == Spec /\ Fairness

-----------------------------------------------------------------------------
(* Properties.                                                             *)

(* As long as no unlink has removed a lock file other than the one its     *)
(* caller had read, the tuple has at most one session and the lock path    *)
(* names its file: the check-then-unlink window of acquireLock, release()  *)
(* and releaseLockIfOwner is the only way the lock fails.                  *)
ExclusiveUnlessMisfired ==
    ~misfired => \A r \in Holders : path = r

(* While no server dies with a start call or a session in flight, or with  *)
(* a lock file it failed to remove, two sessions never share the tuple,    *)
(* whatever calls and boots interleave.                                    *)
ExclusiveWhileNobodyDies ==
    (\A r \in Run : pc[r] # "dead") => \A r, s \in Holders : r = s

(* The lock file of a tuple is never left behind by a call that was turned *)
(* away or a session that was stopped, unless a file operation failed: its *)
(* creator is still at work, has died, or failed to write or to release    *)
(* it, and in the last case blocks the tuple for as long as its process    *)
(* lives.  An unreadable file, which blocks the tuple until a person       *)
(* removes it, needs a death or a failed write.                            *)
LockHasOwner ==
    path # None =>
        /\ pc[path] \in {"write", "held", "unlink", "dead"} \union Stuck
        /\ pc[path] \in Stuck => FilesMayFail
        /\ ~Readable => pc[path] \in {"write", "dead", "ioError"}

(* Every state of the lock file and its users is one of a tuple that has   *)
(* at most one session until the first misdirected unlink.                 *)
Slot == INSTANCE TupleSlot WITH holders <- Holders, compromised <- misfired

SlotSpec == Slot!Spec

(* A start call never hangs on the lock file: it is granted or turned away *)
(* after at most two evictions, whatever others do to the file.            *)
CallSettles ==
    \A r \in Run : pc[r] \in Acquiring ~> pc[r] \notin Acquiring

(* The inductive invariant behind the three safety properties above.  A    *)
(* run that is present runs in a live process; its record is in its file   *)
(* from the grant on, or from a write that failed late; every unlink in    *)
(* flight was decided on the file of a run whose process has died; and     *)
(* until a misfire the path is the file of whoever is creating, holding or *)
(* releasing the lock.                                                     *)
WorkersLive ==
    \A r \in Run : pc[r] \in Present => pid[r] \in alive

ServingLive == \A p \in Pid : rec[p] # "off" <=> p \in alive

RecordsWritten ==
    \A r \in Run :
        /\ pc[r] \in Held \union {"releaseFailed"} => r \in written
        /\ pc[r] \in {"idle"} \union Acquiring => r \notin written

PathCreator ==
    path # None =>
        /\ pc[path] \in {"write", "held", "unlink", "dead"} \union Stuck
        /\ pc[path] \in Stuck => FilesMayFail

ReadableCreator ==
    path \in written => pc[path] \in {"held", "unlink", "dead"} \union Stuck

EvictedAreDead ==
    /\ \A r \in Run : pc[r] = "evict" =>
           seen[r] \in Run /\ pc[seen[r]] = "dead"
    /\ \A p \in Pid : rec[p] \in {"finalize", "confirm", "unlink"} =>
           recSeen[p] = None \/ pc[recSeen[p]] = "dead"
    /\ \A p \in Pid : rec[p] \in {"confirm", "unlink"} => recSeen[p] \in Run

PathIsWorkers ==
    ~misfired =>
        \A r \in Run : pc[r] \in {"write", "held", "unlink"} => path = r

MisfireNeedsDeath == misfired => \E r \in Run : pc[r] = "dead"

LockInv ==
    /\ TypeOK
    /\ WorkersLive
    /\ ServingLive
    /\ RecordsWritten
    /\ PathCreator
    /\ ReadableCreator
    /\ EvictedAreDead
    /\ PathIsWorkers
    /\ MisfireNeedsDeath

-----------------------------------------------------------------------------
(* What comments and documents say of the lock, and the code does not keep. *)

(* README.md:106, "A session is a singleton per (deviceSerial, userId,     *)
(* packageName) tuple": no two live sessions hold one tuple's lock.        *)
OneSessionPerTuple == \A r, s \in Holders : r = s
=============================================================================
