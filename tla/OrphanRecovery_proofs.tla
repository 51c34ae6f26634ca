------------------------ MODULE OrphanRecovery_proofs ------------------------
(***************************************************************************)
(* Proofs about TupleLock and OrphanRecovery for any number of runs,       *)
(* processes and boots, whichever file operations fail.  Of the lock file: *)
(* the inductive invariant LockInv, the safety properties it yields, and   *)
(* that it implements TupleSlot.  Of recovery: it spares the runs of live  *)
(* sessions, and an open run without its lock is dead or met a failure.    *)
(***************************************************************************)
EXTENDS OrphanRecovery, TLAPS

(* The initial state satisfies the inductive invariant.                    *)
LEMMA LockInvInit == Init => LockInv
<1> SUFFICES ASSUME Init
             PROVE  LockInv
  OBVIOUS
<1> USE ConstantsAssumption DEF Init
<1>1. TypeOK
  BY DEF TypeOK, Phase, RecPhase
<1>2. WorkersLive /\ ServingLive /\ RecordsWritten /\ PathCreator
      /\ ReadableCreator
  BY DEF WorkersLive, ServingLive, RecordsWritten, PathCreator,
     ReadableCreator, Acquiring, Held, Stuck, Present
<1>3. EvictedAreDead
  BY DEF EvictedAreDead
<1>4. PathIsWorkers /\ MisfireNeedsDeath
  BY DEF PathIsWorkers, MisfireNeedsDeath
<1> QED
  BY <1>1, <1>2, <1>3, <1>4 DEF LockInv

-----------------------------------------------------------------------------
(* Processes preserve the invariant: a boot adds a live pid, a crash turns *)
(* every call at work in the process into a dead one.                      *)
LEMMA BootCrashInv ==
  ASSUME LockInv, NEW p \in Pid, Boot(p) \/ Crash(p)
  PROVE  LockInv'
<1> USE ConstantsAssumption
<1>1. CASE Boot(p)
  BY <1>1 DEF Boot, lockVars, callVars, LockInv, TypeOK, WorkersLive,
     ServingLive, RecordsWritten, PathCreator, ReadableCreator,
     EvictedAreDead, PathIsWorkers, MisfireNeedsDeath, RecPhase, Phase,
     Acquiring, Held, Ended, Stuck, Present
<1>2. CASE Crash(p)
  <2> USE <1>2 DEF Crash, lockVars, LockInv
  <2>1. TypeOK'
    BY DEF TypeOK, Phase, RecPhase, Acquiring, Held, Ended, Stuck, Present
  <2>2. \A r \in Run : pc'[r] = pc[r] \/ (pc'[r] = "dead"
                          /\ pc[r] \in Present)
    BY DEF TypeOK, Present
  <2>3. \A r \in Run : pc[r] = "dead" => pc'[r] = "dead"
    BY DEF TypeOK, Acquiring, Held, Stuck, Present
  <2>4. WorkersLive' /\ ServingLive'
    BY DEF TypeOK, WorkersLive, ServingLive, Acquiring, Held, Stuck, Present
  <2>5. RecordsWritten' /\ PathCreator' /\ ReadableCreator'
    BY <2>2 DEF TypeOK, RecordsWritten, PathCreator, ReadableCreator,
       Acquiring, Held, Stuck, Present
  <2>6. EvictedAreDead'
    BY <2>2, <2>3 DEF TypeOK, EvictedAreDead, Acquiring, Held, Stuck, Present
  <2>7. PathIsWorkers' /\ MisfireNeedsDeath'
    BY <2>2, <2>3 DEF TypeOK, PathIsWorkers, MisfireNeedsDeath, Acquiring,
       Held
  <2> QED
    BY <2>1, <2>4, <2>5, <2>6, <2>7
<1> QED
  BY <1>1, <1>2

-----------------------------------------------------------------------------
(* The steps of acquireLock preserve the invariant.                        *)
LEMMA AcquireInv ==
  ASSUME LockInv, NEW r \in Run,
         (\E p \in Pid : StartCall(r, p)) \/ Acquire(r)
  PROVE  LockInv'
<1> USE ConstantsAssumption
<1> USE DEF LockInv, lockVars, procVars, recVars
<1>1. CASE \E p \in Pid : StartCall(r, p)
  <2> PICK p \in Pid : StartCall(r, p)
    BY <1>1
  <2> USE DEF StartCall
  <2>1. TypeOK'
    BY DEF TypeOK, Phase, Acquiring
  <2>2. p \in alive
    BY DEF TypeOK, ServingLive
  <2> QED
    BY <2>1, <2>2 DEF TypeOK, WorkersLive, ServingLive, RecordsWritten,
       PathCreator, ReadableCreator, EvictedAreDead, PathIsWorkers,
       MisfireNeedsDeath, Acquiring, Held, Stuck, Present
<1>2. CASE CreateExclusive(r)
  <2> USE <1>2 DEF CreateExclusive
  <2>1. TypeOK'
    BY DEF TypeOK, Phase, Acquiring
  <2>2. WorkersLive' /\ ServingLive' /\ RecordsWritten' /\ PathCreator'
        /\ ReadableCreator'
    BY DEF TypeOK, WorkersLive, ServingLive, RecordsWritten, PathCreator,
       ReadableCreator, Acquiring, Held, Stuck, Present
  <2>3. EvictedAreDead' /\ PathIsWorkers' /\ MisfireNeedsDeath'
    BY DEF TypeOK, EvictedAreDead, PathIsWorkers, MisfireNeedsDeath
  <2> QED
    BY <2>1, <2>2, <2>3
<1>3. CASE FindExisting(r)
  BY <1>3 DEF FindExisting, TypeOK, Phase, WorkersLive, ServingLive,
     RecordsWritten, PathCreator, ReadableCreator, EvictedAreDead,
     PathIsWorkers, MisfireNeedsDeath, Acquiring, Held, Stuck, Present
<1>4. CASE WriteOwner(r)
  <2> USE <1>4 DEF WriteOwner
  <2>1. TypeOK'
    BY DEF TypeOK, Phase, Held
  <2>2. WorkersLive' /\ ServingLive' /\ RecordsWritten' /\ PathCreator'
    BY DEF TypeOK, WorkersLive, ServingLive, RecordsWritten, PathCreator,
       Acquiring, Held, Stuck, Present
  <2>3. ReadableCreator'
    BY DEF TypeOK, ReadableCreator
  <2>4. EvictedAreDead' /\ PathIsWorkers' /\ MisfireNeedsDeath'
    BY DEF TypeOK, EvictedAreDead, PathIsWorkers, MisfireNeedsDeath
  <2> QED
    BY <2>1, <2>2, <2>3, <2>4
<1>5. CASE WriteOwnerFails(r)
  BY <1>5 DEF WriteOwnerFails, TypeOK, Phase, WorkersLive, ServingLive,
     RecordsWritten, PathCreator, ReadableCreator, EvictedAreDead,
     PathIsWorkers, MisfireNeedsDeath, Acquiring, Held, Ended, Stuck, Present
<1>6. CASE ReadOwner(r)
  <2> USE <1>6 DEF ReadOwner
  <2>1. TypeOK'
    BY DEF TypeOK, Phase, Acquiring, Ended, Stuck, Present, Readable
  <2>2. WorkersLive' /\ ServingLive' /\ RecordsWritten' /\ PathCreator'
        /\ ReadableCreator'
    BY DEF TypeOK, WorkersLive, ServingLive, RecordsWritten, PathCreator,
       ReadableCreator, Acquiring, Held, Stuck, Present
  <2>3. pc'[r] = "evict" => seen'[r] \in Run /\ pc'[seen'[r]] = "dead"
    BY DEF TypeOK, Readable, OwnerLive, ReadableCreator, WorkersLive,
       ServingLive, Held, Stuck, Present
  <2>4. EvictedAreDead'
    BY <2>3 DEF TypeOK, EvictedAreDead
  <2>5. PathIsWorkers' /\ MisfireNeedsDeath'
    BY DEF TypeOK, PathIsWorkers, MisfireNeedsDeath
  <2> QED
    BY <2>1, <2>2, <2>4, <2>5
<1>7. CASE Evict(r)
  <2> USE <1>7 DEF Evict, Unlink
  <2>1. TypeOK'
    BY DEF TypeOK, Phase, Acquiring, Ended, Stuck, Present
  <2>2. pc[seen[r]] = "dead" /\ seen[r] \in Run /\ pc'[seen[r]] = "dead"
    BY DEF TypeOK, EvictedAreDead
  <2>3. WorkersLive' /\ ServingLive' /\ RecordsWritten' /\ PathCreator'
        /\ ReadableCreator'
    BY DEF TypeOK, WorkersLive, ServingLive, RecordsWritten, PathCreator,
       ReadableCreator, Acquiring, Held, Stuck, Present
  <2>4. EvictedAreDead' /\ MisfireNeedsDeath'
    BY <2>2 DEF TypeOK, EvictedAreDead, MisfireNeedsDeath
  <2>5. PathIsWorkers'
    BY <2>2 DEF TypeOK, PathIsWorkers
  <2> QED
    BY <2>1, <2>3, <2>4, <2>5
<1>8. CASE OpenOrEvictFails(r)
  BY <1>8 DEF OpenOrEvictFails, TypeOK, Phase, WorkersLive, ServingLive,
     RecordsWritten, PathCreator, ReadableCreator, EvictedAreDead,
     PathIsWorkers, MisfireNeedsDeath, Acquiring, Held, Ended, Stuck, Present
<1> QED
  BY <1>1, <1>2, <1>3, <1>4, <1>5, <1>6, <1>7, <1>8 DEF Acquire

-----------------------------------------------------------------------------
(* The steps of release() preserve the invariant.                          *)
LEMMA ReleaseInv ==
  ASSUME LockInv, NEW r \in Run, Release(r)
  PROVE  LockInv'
<1> USE ConstantsAssumption
<1> USE DEF LockInv, lockVars, procVars, recVars, Release
<1>1. CASE CheckOwner(r)
  <2> USE <1>1 DEF CheckOwner
  <2>1. TypeOK'
    BY DEF TypeOK, Phase, Held, Ended, Stuck, Present
  <2>2. WorkersLive' /\ ServingLive' /\ RecordsWritten'
    BY DEF TypeOK, WorkersLive, ServingLive, RecordsWritten, Acquiring, Held,
       Stuck, Present
  <2>3. PathCreator' /\ ReadableCreator'
    BY DEF TypeOK, PathCreator, ReadableCreator, RecordsWritten, Readable,
       Held, Stuck
  <2>4. EvictedAreDead' /\ PathIsWorkers' /\ MisfireNeedsDeath'
    BY DEF TypeOK, EvictedAreDead, PathIsWorkers, MisfireNeedsDeath
  <2> QED
    BY <2>1, <2>2, <2>3, <2>4
<1>2. CASE ReleaseUnlink(r)
  <2> USE <1>2 DEF ReleaseUnlink, Unlink
  <2>1. TypeOK'
    BY DEF TypeOK, Phase, Ended, Stuck, Present
  <2>2. WorkersLive' /\ ServingLive' /\ RecordsWritten' /\ PathCreator'
        /\ ReadableCreator'
    BY DEF TypeOK, WorkersLive, ServingLive, RecordsWritten, PathCreator,
       ReadableCreator, Acquiring, Held, Stuck, Present
  <2>3. EvictedAreDead'
    BY DEF TypeOK, EvictedAreDead
  <2>4. ~misfired => path = r
    BY DEF PathIsWorkers
  <2>5. misfired' => misfired
    BY <2>4 DEF TypeOK
  <2>6. PathIsWorkers'
    BY <2>4 DEF TypeOK, PathIsWorkers
  <2>7. MisfireNeedsDeath'
    BY <2>5 DEF TypeOK, MisfireNeedsDeath
  <2> QED
    BY <2>1, <2>2, <2>3, <2>6, <2>7
<1>3. CASE ReleaseFails(r)
  <2> USE <1>3 DEF ReleaseFails
  <2>1. TypeOK'
    BY DEF TypeOK, Phase, Held, Ended, Stuck, Present
  <2>2. WorkersLive' /\ ServingLive' /\ RecordsWritten' /\ PathCreator'
        /\ ReadableCreator'
    BY DEF TypeOK, WorkersLive, ServingLive, RecordsWritten, PathCreator,
       ReadableCreator, Acquiring, Held, Stuck, Present, Stuck, Present
  <2>3. EvictedAreDead' /\ PathIsWorkers' /\ MisfireNeedsDeath'
    BY DEF TypeOK, EvictedAreDead, PathIsWorkers, MisfireNeedsDeath, Held
  <2> QED
    BY <2>1, <2>2, <2>3
<1> QED
  BY <1>1, <1>2, <1>3

-----------------------------------------------------------------------------
(* The steps of orphan recovery preserve the invariant.                    *)
LEMMA RecoverInv ==
  ASSUME LockInv, NEW p \in Pid, Recover(p)
  PROVE  LockInv'
<1> USE ConstantsAssumption
<1> USE DEF LockInv, lockVars, callVars, procVars
<1>1. CASE RecoverInspect(p)
  <2> USE <1>1 DEF RecoverInspect
  <2>1. TypeOK'
    BY DEF TypeOK, RecPhase
  <2>2. recSeen'[p] = None \/ pc[recSeen'[p]] = "dead"
    BY DEF TypeOK, Readable, OwnerLive, ReadableCreator, WorkersLive,
       ServingLive, Held, Stuck, Present
  <2>3. EvictedAreDead'
    BY <2>2 DEF TypeOK, EvictedAreDead
  <2> QED
    BY <2>1, <2>3 DEF TypeOK, WorkersLive, ServingLive, RecordsWritten,
       PathCreator, ReadableCreator, PathIsWorkers, MisfireNeedsDeath
<1>2. CASE RecoverFinalize(p) \/ RecoverFinalizeFails(p) \/ RecoverConfirm(p)
           \/ RecoverReleaseFails(p) \/ Serve(p)
  <2>1. TypeOK'
    BY <1>2 DEF RecoverFinalize, RecoverFinalizeFails, RecoverConfirm,
       RecoverReleaseFails, Serve,
       TypeOK, RecPhase
  <2>2. EvictedAreDead'
    BY <1>2 DEF RecoverFinalize, RecoverFinalizeFails, RecoverConfirm,
       RecoverReleaseFails, Serve,
       TypeOK, EvictedAreDead
  <2> QED
    BY <1>2, <2>1, <2>2 DEF RecoverFinalize, RecoverFinalizeFails,
       RecoverConfirm,
       RecoverReleaseFails, Serve, TypeOK, WorkersLive, ServingLive,
       RecordsWritten, PathCreator,
       ReadableCreator, PathIsWorkers, MisfireNeedsDeath
<1>3. CASE RecoverUnlink(p)
  <2> USE <1>3 DEF RecoverUnlink, Unlink
  <2>1. TypeOK'
    BY DEF TypeOK, RecPhase
  <2>2. recSeen[p] \in Run /\ pc[recSeen[p]] = "dead"
    BY DEF TypeOK, EvictedAreDead
  <2>3. EvictedAreDead'
    BY DEF TypeOK, EvictedAreDead
  <2>4. PathIsWorkers' /\ MisfireNeedsDeath'
    BY <2>2 DEF TypeOK, PathIsWorkers, MisfireNeedsDeath
  <2> QED
    BY <2>1, <2>3, <2>4 DEF TypeOK, WorkersLive, ServingLive, RecordsWritten,
       PathCreator, ReadableCreator
<1> QED
  BY <1>1, <1>2, <1>3 DEF Recover

-----------------------------------------------------------------------------
(* LockInv is an invariant of the specification.                           *)
LEMMA LockInvStep == LockInv /\ [Next]_vars => LockInv'
<1> SUFFICES ASSUME LockInv, [Next]_vars
             PROVE  LockInv'
  OBVIOUS
<1>1. CASE \E p \in Pid : Boot(p) \/ Crash(p) \/ Recover(p)
  BY <1>1, BootCrashInv, RecoverInv
<1>2. CASE \E r \in Run, p \in Pid : StartCall(r, p)
  BY <1>2, AcquireInv
<1>3. CASE \E r \in Run : Acquire(r) \/ Release(r)
  BY <1>3, AcquireInv, ReleaseInv
<1>4. CASE UNCHANGED vars
  BY <1>4 DEF vars, lockVars, callVars, procVars, recVars, LockInv, TypeOK,
     WorkersLive, ServingLive, RecordsWritten, PathCreator, ReadableCreator,
     EvictedAreDead, PathIsWorkers, MisfireNeedsDeath
<1> QED
  BY <1>1, <1>2, <1>3, <1>4 DEF Next

(* In every reachable state, for any number of runs, processes and boots,  *)
(* unlinks in flight aim at files of dead runs, and the lock path is the   *)
(* file of whoever works on it until a misdirected unlink.                 *)
THEOREM LockInvariant == Spec => []LockInv
<1> QED
  BY LockInvInit, LockInvStep, PTL DEF Spec

(* Every variable of the lock keeps its type.                              *)
THEOREM TypeCorrect == Spec => []TypeOK
<1>1. LockInv => TypeOK
  BY DEF LockInv
<1> QED
  BY <1>1, LockInvariant, PTL

(* The check-then-unlink window is the only way the tuple lock fails: with *)
(* no misdirected unlink so far, the lock path names the file of every     *)
(* live session, so there is at most one.                                  *)
THEOREM ExclusionUntilMisfire == Spec => []ExclusiveUnlessMisfired
<1>1. LockInv => ExclusiveUnlessMisfired
  BY DEF LockInv, PathIsWorkers, ExclusiveUnlessMisfired, Holders
<1> QED
  BY <1>1, LockInvariant, PTL

(* While no server process dies with a call or a session in flight, no     *)
(* interleaving of start calls, releases and boots gives two sessions the  *)
(* same tuple.                                                             *)
THEOREM ExclusionWithoutDeaths == Spec => []ExclusiveWhileNobodyDies
<1>1. LockInv => ExclusiveWhileNobodyDies
  BY DEF LockInv, TypeOK, PathIsWorkers, MisfireNeedsDeath,
     ExclusiveWhileNobodyDies, Holders
<1> QED
  BY <1>1, LockInvariant, PTL

(* A stopped session or a call that was turned away leaves no lock file,   *)
(* unless an operation on it failed; an unreadable one needs a death or a  *)
(* failed write.                                                           *)
THEOREM LockFileHasOwner == Spec => []LockHasOwner
<1>1. LockInv => LockHasOwner
  BY ConstantsAssumption DEF LockInv, TypeOK, PathCreator, RecordsWritten,
     LockHasOwner, Readable, Held, Stuck
<1> QED
  BY <1>1, LockInvariant, PTL

-----------------------------------------------------------------------------
(* Refinement.                                                             *)

(* A step that leaves the held runs alone is a stutter of the slot, or the *)
(* loss of its promise.                                                    *)
LEMMA QuietStep ==
  ASSUME LockInv, misfired' = misfired \/ misfired' = TRUE, Holders' = Holders
  PROVE  [Slot!Next]_(Slot!vars)
BY DEF Slot!Next, Slot!vars, Slot!Compromise

(* A step that takes runs away from the held ones vacates them.            *)
LEMMA VacatingStep ==
  ASSUME LockInv, misfired' = misfired, Holders' \subseteq Holders
  PROVE  [Slot!Next]_(Slot!vars)
<1> DEFINE S == Holders \ Holders'
<1>1. Slot!Vacate(S)
  BY DEF Slot!Vacate
<1> QED
  BY <1>1 DEF Slot!Next, Slot!Vacate

(* Every step of the lock file and its users is a step of the slot.        *)
LEMMA SlotStep == LockInv /\ [Next]_vars => [Slot!Next]_(Slot!vars)
<1> SUFFICES ASSUME LockInv, [Next]_vars
             PROVE  [Slot!Next]_(Slot!vars)
  OBVIOUS
<1>1. ASSUME NEW p \in Pid, Boot(p) \/ Recover(p)
      PROVE  [Slot!Next]_(Slot!vars)
  <2>1. Holders' = Holders /\ (misfired' = misfired \/ misfired' = TRUE)
    BY <1>1 DEF LockInv, TypeOK, Boot, Recover, RecoverInspect,
       RecoverFinalize, RecoverFinalizeFails, RecoverConfirm, RecoverUnlink,
       RecoverReleaseFails, Serve, Unlink, lockVars, callVars, Holders
  <2> QED
    BY <2>1, QuietStep
<1>2. ASSUME NEW p \in Pid, Crash(p)
      PROVE  [Slot!Next]_(Slot!vars)
  <2>1. misfired' = misfired /\ Holders' \subseteq Holders
    BY <1>2 DEF Crash, lockVars, Holders
  <2> QED
    BY <2>1, VacatingStep
<1>3. ASSUME NEW r \in Run, CheckOwner(r) \/ ReleaseFails(r)
      PROVE  [Slot!Next]_(Slot!vars)
  <2>1. misfired' = misfired /\ Holders' \subseteq Holders
    BY <1>3 DEF CheckOwner, ReleaseFails, lockVars, Holders, LockInv, TypeOK
  <2> QED
    BY <2>1, VacatingStep
<1>4. ASSUME NEW r \in Run, WriteOwner(r)
      PROVE  [Slot!Next]_(Slot!vars)
  <2>1. Holders' = Holders \union {r} /\ misfired' = misfired
    BY <1>4 DEF WriteOwner, Holders, LockInv, TypeOK
  <2>2. misfired \/ Holders = {}
    BY <1>4 DEF WriteOwner, Holders, LockInv, TypeOK, PathIsWorkers
  <2>3. Slot!Grant(r)
    BY <2>1, <2>2 DEF Slot!Grant
  <2> QED
    BY <2>3 DEF Slot!Next
<1>5. ASSUME NEW r \in Run,
             \/ \E p \in Pid : StartCall(r, p)
             \/ CreateExclusive(r) \/ FindExisting(r) \/ WriteOwnerFails(r)
             \/ ReadOwner(r) \/ Evict(r) \/ OpenOrEvictFails(r) \/ ReleaseUnlink(r)
      PROVE  [Slot!Next]_(Slot!vars)
  <2>1. Holders' = Holders /\ (misfired' = misfired \/ misfired' = TRUE)
    BY <1>5 DEF LockInv, TypeOK, StartCall, CreateExclusive, FindExisting,
       WriteOwnerFails, ReadOwner, Evict, OpenOrEvictFails, ReleaseUnlink,
       Unlink, lockVars, Holders
  <2> QED
    BY <2>1, QuietStep
<1>6. CASE UNCHANGED vars
  BY <1>6 DEF vars, lockVars, callVars, Holders, Slot!vars
<1> QED
  BY <1>1, <1>2, <1>3, <1>4, <1>5, <1>6 DEF Next, Acquire, Release

(* The lock file implements the tuple slot: one session per tuple until    *)
(* the first misdirected unlink, whatever crashes and reuses of pids.      *)
THEOREM ImplementsSlot == Spec => SlotSpec
<1>1. Init => Slot!Init
  BY DEF Init, Slot!Init, Holders
<1> QED
  BY <1>1, SlotStep, LockInvariant, PTL DEF Spec, SlotSpec, Slot!Spec

-----------------------------------------------------------------------------
(* Recovery.                                                               *)

(* Every step is a step of the lock file's protocol or leaves it alone.    *)
LEMMA StepOfLock == [RecoveryNext]_allVars => [Next]_vars
<1> SUFFICES ASSUME [RecoveryNext]_allVars
             PROVE  [Next]_vars
  OBVIOUS
<1>1. ASSUME NEW p \in Pid, BootServer(p) \/ KillServer(p)
      PROVE  [Next]_vars
  BY <1>1 DEF BootServer, KillServer, Next
<1>2. ASSUME NEW p \in Pid, RecoverySteps(p)
      PROVE  [Next]_vars
  BY <1>2 DEF RecoverySteps, Scan, LeaveOrphan, InspectOrphan, AbortOrphan,
     AbortOrphanFails, FreeTuple, Connect, Next, Recover
<1>3. ASSUME NEW r \in Run, NEW p \in Pid, BeginStart(r, p)
      PROVE  [Next]_vars
  BY <1>3 DEF BeginStart, Next
<1>4. ASSUME NEW r \in Run, RunSteps(r)
      PROVE  [Next]_vars
  BY <1>4 DEF RunSteps, LockStep, CreateRunDir, RegisterSession,
     FinalizeRun, FinalizeRunFails, ReleaseRun, ClearClosedRun, Next
<1>5. CASE UNCHANGED allVars
  BY <1>5 DEF allVars
<1> QED
  BY <1>1, <1>2, <1>3, <1>4, <1>5 DEF RecoveryNext

(* So the lock's inductive invariant holds of the whole system.            *)
LEMMA LockInvHolds == RecoverySpec => []LockInv
<1>1. RecoveryInit => Init
  BY DEF RecoveryInit
<1> QED
  BY <1>1, StepOfLock, LockInvariant, PTL DEF RecoverySpec, Spec

-----------------------------------------------------------------------------
(* The initial state satisfies the inductive invariant.                    *)
LEMMA RecoveryInvInit == RecoveryInit => RecoveryInv
<1> SUFFICES ASSUME RecoveryInit
             PROVE  RecoveryInv
  OBVIOUS
<1>1. LockInv
  BY LockInvInit DEF RecoveryInit
<1>2. RecoveryTypeOK /\ FolderNeedsLock /\ OrphansHaveFolders /\ OpenIsHeld
      /\ RecoverySparesLiveRuns
  BY ConstantsAssumption DEF RecoveryInit, Init, RecoveryTypeOK, Closed,
     FolderNeedsLock, OrphansHaveFolders, OpenIsHeld, RecoverySparesLiveRuns
<1> QED
  BY <1>1, <1>2 DEF RecoveryInv

(* Processes that come and go preserve it.                                 *)
LEMMA ServersInv ==
  ASSUME RecoveryInv, LockInv', NEW p \in Pid, BootServer(p) \/ KillServer(p)
  PROVE  RecoveryInv'
<1> USE DEF RecoveryInv, LockInv
<1>1. CASE BootServer(p)
  BY <1>1 DEF BootServer, Boot, recoveryVars, scanVars, lockVars, callVars,
     TypeOK, RecoveryTypeOK, FolderNeedsLock, OrphansHaveFolders, OpenIsHeld,
     RecoverySparesLiveRuns
<1>2. CASE KillServer(p)
  <2> USE <1>2 DEF KillServer, Crash, lockVars
  <2>1. \A r \in Run : pc'[r] = pc[r] \/ pc'[r] = "dead"
    BY DEF TypeOK
  <2>2. RecoveryTypeOK' /\ OpenIsHeld'
    BY <2>1 DEF RecoveryTypeOK, OpenIsHeld
  <2>3. FolderNeedsLock'
    BY <2>1 DEF FolderNeedsLock, Acquiring
  <2>4. OrphansHaveFolders'
    BY DEF RecoveryTypeOK, OrphansHaveFolders, TypeOK
  <2>5. RecoverySparesLiveRuns'
    BY <2>1 DEF RecoveryTypeOK, RecoverySparesLiveRuns, OrphansHaveFolders,
       TypeOK
  <2> QED
    BY <2>2, <2>3, <2>4, <2>5
<1> QED
  BY <1>1, <1>2

(* The steps of a run preserve it.                                         *)
LEMMA RunInv ==
  ASSUME RecoveryInv, LockInv', NEW r \in Run,
         (\E p \in Pid : BeginStart(r, p)) \/ RunSteps(r)
  PROVE  RecoveryInv'
<1> USE DEF RecoveryInv, LockInv
<1>1. CASE (\E p \in Pid : BeginStart(r, p)) \/ LockStep(r)
  <2>1. /\ UNCHANGED <<recoveryVars, rec>>
        /\ misfired' = misfired \/ misfired' = TRUE
        /\ pc[r] \in {"idle"} \union Acquiring
        /\ \A s \in Run \ {r} : pc'[s] = pc[s]
    BY <1>1 DEF BeginStart, StartCall, LockStep, Acquire, CreateExclusive,
       FindExisting, WriteOwner, WriteOwnerFails, ReadOwner, Evict,
       OpenOrEvictFails, Unlink, Acquiring, TypeOK, lockVars, procVars, recVars
  <2>2. meta[r] = "none"
    BY <2>1 DEF FolderNeedsLock
  <2>3. RecoveryTypeOK' /\ FolderNeedsLock' /\ OrphansHaveFolders'
        /\ OpenIsHeld'
    BY <2>1, <2>2 DEF recoveryVars, scanVars, RecoveryTypeOK,
       FolderNeedsLock, OrphansHaveFolders, OpenIsHeld
  <2>4. RecoverySparesLiveRuns'
    BY <2>1, <2>2 DEF recoveryVars, scanVars, TypeOK, OrphansHaveFolders,
       RecoverySparesLiveRuns
  <2> QED
    BY <2>3, <2>4
<1>2. CASE \/ CreateRunDir(r) \/ RegisterSession(r) \/ FinalizeRun(r)
           \/ FinalizeRunFails(r) \/ ClearClosedRun(r)
  <2> USE <1>2 DEF CreateRunDir, RegisterSession, FinalizeRun,
  FinalizeRunFails,
          ClearClosedRun, vars, lockVars, callVars, procVars, recVars,
          scanVars
  <2>1. RecoveryTypeOK' /\ FolderNeedsLock'
    BY DEF RecoveryTypeOK, FolderNeedsLock, Closed, Acquiring
  <2>2. OrphansHaveFolders'
    <3>1. \A s \in Run : meta[s] # "none" => meta'[s] # "none"
      BY DEF RecoveryTypeOK
    <3> QED
      BY <3>1 DEF OrphansHaveFolders
  <2>3. OpenIsHeld'
    BY DEF RecoveryTypeOK, OpenIsHeld
  <2>4. \A s \in Run : finalized'[s] \in {"none", "no"}
            => finalized[s] \in {"none", "no"}
    BY DEF RecoveryTypeOK
  <2>5. UNCHANGED <<pc, rec, misfired, orphan>>
    OBVIOUS
  <2>6. RecoverySparesLiveRuns'
    BY <2>4, <2>5 DEF OrphansHaveFolders, RecoverySparesLiveRuns
  <2> QED
    BY <2>1, <2>2, <2>3, <2>6
<1>3. CASE ReleaseRun(r)
  <2>1. /\ UNCHANGED <<recoveryVars, rec>>
        /\ misfired' = misfired \/ misfired' = TRUE
        /\ pc'[r] \in {"released", "releaseFailed", "unlink"}
        /\ \A s \in Run \ {r} : pc'[s] = pc[s]
    BY <1>3 DEF ReleaseRun, Release, CheckOwner, ReleaseUnlink, ReleaseFails,
       Unlink, TypeOK, lockVars, procVars, recVars
  <2>2. meta[r] = "open" =>
            FilesMayFail /\ finalized[r] \in {"none", "failed"}
    <3>1. CASE pc[r] = "held"
      BY <1>3, <3>1 DEF ReleaseRun, MayRelease, OpenIsHeld
    <3>2. CASE pc[r] = "unlink"
      BY <3>2 DEF OpenIsHeld
    <3> QED
      BY <1>3, <3>1, <3>2 DEF ReleaseRun, Release, CheckOwner, ReleaseUnlink,
         ReleaseFails, Held
  <2>3. RecoveryTypeOK' /\ FolderNeedsLock' /\ OrphansHaveFolders'
        /\ OpenIsHeld'
    BY <2>1, <2>2 DEF recoveryVars, scanVars, RecoveryTypeOK, Acquiring,
       FolderNeedsLock, OrphansHaveFolders, OpenIsHeld
  <2>4. RecoverySparesLiveRuns'
    BY <2>1 DEF recoveryVars, scanVars, TypeOK, OrphansHaveFolders,
       RecoverySparesLiveRuns
  <2> QED
    BY <2>3, <2>4
<1> QED
  BY <1>1, <1>2, <1>3 DEF RunSteps

(* The steps of boot recovery preserve it.  An orphan is inspected only    *)
(* when the lock has no live owner, which a live session of the run would  *)
(* be.                                                                     *)
LEMMA RecoveryStepsInv ==
  ASSUME RecoveryInv, LockInv', NEW p \in Pid, RecoverySteps(p)
  PROVE  RecoveryInv'
<1> USE DEF RecoveryInv, LockInv
<1>1. CASE Scan(p) \/ \E r \in Run : LeaveOrphan(p, r)
  BY <1>1 DEF Scan, LeaveOrphan, vars, lockVars, callVars, procVars, recVars,
     RecoveryTypeOK, FolderNeedsLock, OrphansHaveFolders, OpenIsHeld,
     RecoverySparesLiveRuns
<1>2. ASSUME NEW r \in Run, InspectOrphan(p, r)
      PROVE  RecoveryInv'
  <2> USE <1>2 DEF InspectOrphan, RecoverInspect, lockVars, callVars, procVars
  <2>1. r \in todo[p] /\ meta[r] # "none"
    BY DEF Oldest, OrphansHaveFolders
  <2>2. RecoveryTypeOK' /\ FolderNeedsLock' /\ OpenIsHeld'
    BY DEF RecoveryTypeOK, FolderNeedsLock, OpenIsHeld
  <2>3. OrphansHaveFolders'
    BY <2>1 DEF RecoveryTypeOK, TypeOK, OrphansHaveFolders
  <2>4. ~misfired => pc[r] # "held"
    BY ConstantsAssumption DEF PathIsWorkers, RecordsWritten, WorkersLive,
       Readable, OwnerLive, Held, Present
  <2>5. orphan' = [orphan EXCEPT ![p] = r] /\ rec' = [rec EXCEPT ![p] = "finalize"]
        /\ UNCHANGED <<pc, finalized, misfired>>
    OBVIOUS
  <2>6. RecoverySparesLiveRuns'
    BY <2>4, <2>5 DEF RecoveryTypeOK, TypeOK, RecoverySparesLiveRuns
  <2> QED
    BY <2>2, <2>3, <2>6
<1>3. CASE AbortOrphan(p)
  <2> USE <1>3 DEF AbortOrphan, RecoverFinalize, lockVars, callVars, procVars,
          scanVars
  <2>1. orphan[p] \in Run /\ meta[orphan[p]] # "none"
    BY DEF OrphansHaveFolders
  <2>2. RecoveryTypeOK' /\ FolderNeedsLock' /\ OpenIsHeld'
    BY <2>1 DEF RecoveryTypeOK, FolderNeedsLock, OpenIsHeld, Closed
  <2>3. OrphansHaveFolders' /\ RecoverySparesLiveRuns'
    BY <2>1 DEF RecoveryTypeOK, TypeOK, OrphansHaveFolders,
       RecoverySparesLiveRuns
  <2> QED
    BY <2>2, <2>3
<1>4. CASE AbortOrphanFails(p) \/ FreeTuple(p) \/ Connect(p)
  <2>1. /\ UNCHANGED <<recoveryVars, pc>>
        /\ misfired' = misfired \/ misfired' = TRUE
        /\ rec'[p] \in {"boot", "unlink", "serving"}
        /\ \A q \in Pid \ {p} : rec'[q] = rec[q]
    BY <1>4 DEF AbortOrphanFails, FreeTuple, Connect, RecoverFinalizeFails,
       RecoverConfirm, RecoverUnlink, RecoverReleaseFails, Serve, Unlink,
       TypeOK, lockVars,
       callVars, procVars
  <2>2. RecoveryTypeOK' /\ FolderNeedsLock' /\ OpenIsHeld'
    BY <2>1 DEF recoveryVars, scanVars, RecoveryTypeOK, FolderNeedsLock,
       OpenIsHeld
  <2>3. OrphansHaveFolders' /\ RecoverySparesLiveRuns'
    BY <2>1 DEF recoveryVars, scanVars, TypeOK, OrphansHaveFolders,
       RecoverySparesLiveRuns
  <2> QED
    BY <2>2, <2>3
<1> QED
  BY <1>1, <1>2, <1>3, <1>4 DEF RecoverySteps

LEMMA RecoveryInvStep ==
  RecoveryInv /\ LockInv' /\ [RecoveryNext]_allVars => RecoveryInv'
<1> SUFFICES ASSUME RecoveryInv, LockInv', [RecoveryNext]_allVars
             PROVE  RecoveryInv'
  OBVIOUS
<1>1. CASE \E p \in Pid : BootServer(p) \/ KillServer(p) \/ RecoverySteps(p)
  BY <1>1, ServersInv, RecoveryStepsInv
<1>2. CASE \E r \in Run, p \in Pid : BeginStart(r, p)
  BY <1>2, RunInv
<1>3. CASE \E r \in Run : RunSteps(r)
  BY <1>3, RunInv
<1>4. CASE UNCHANGED allVars
  BY <1>4 DEF allVars, vars, lockVars, callVars, procVars, recVars,
     recoveryVars, scanVars, RecoveryInv, RecoveryTypeOK, FolderNeedsLock,
     OrphansHaveFolders, OpenIsHeld, RecoverySparesLiveRuns
<1> QED
  BY <1>1, <1>2, <1>3, <1>4 DEF RecoveryNext

(* In every reachable state, for any number of runs, processes and boots,  *)
(* open runs are accounted for and recovery keeps off live ones.           *)
THEOREM RecoveryInvariant == RecoverySpec => []RecoveryInv
<1> QED
  BY RecoveryInvInit, RecoveryInvStep, LockInvHolds, PTL DEF RecoverySpec

(* Until a lock file is unlinked by mistake, boot recovery never replays   *)
(* and aborts the run of a session that is open in a live process, however *)
(* stale the list of orphans it works from.                                *)
THEOREM LiveRunsAreSpared == RecoverySpec => []RecoverySparesLiveRuns
<1>1. RecoveryInv => RecoverySparesLiveRuns
  BY DEF RecoveryInv
<1> QED
  BY <1>1, RecoveryInvariant, PTL

(* Until then, a run found open is held, or dead, or one whose closing     *)
(* patch failed or whose start call failed before it had a session.        *)
THEOREM OpenRunsAreOwned == RecoverySpec => []OpenRunIsOwned
<1>1. RecoveryInv => OpenRunIsOwned
  BY DEF RecoveryInv, LockInv, OpenIsHeld, PathIsWorkers, OpenRunIsOwned
<1> QED
  BY <1>1, RecoveryInvariant, PTL
==============================================================================
