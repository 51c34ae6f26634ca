----------------------- MODULE SessionLifecycle_proofs -----------------------
(***************************************************************************)
(* Proofs about SessionLifecycle for any number of start and stop calls    *)
(* and any faults: the inductive invariant SessionInv, the safety          *)
(* properties it yields, and that sessions are holders of TupleSlot; and   *)
(* how sessions end, what a stop_session call that ended one answers and   *)
(* what metadata.json says of it.                                          *)
(***************************************************************************)
EXTENDS SessionLifecycle, TLAPS

(* The tasks are of three kinds that have no member in common, and no runs.*)
LEMMA TaskKinds ==
  /\ \A r \in Run : r \notin Task
  /\ Stopper \subseteq Task /\ Aborts \subseteq Task
  /\ \A r \in Run : Timeout(r) \in Task /\ Abort(r) \in Aborts
  /\ \A r, q \in Run : Timeout(r) # Abort(q)
  /\ \A r, q \in Run : Timeout(r) = Timeout(q) => r = q
  /\ \A r, q \in Run : Abort(r) = Abort(q) => r = q
  /\ \A s \in Stopper, r \in Run : s # Timeout(r) /\ s # Abort(r)
  /\ \A t \in Aborts : t[1] \in Run /\ t = Abort(t[1])
BY ConstantsAssumption DEF Task, Aborts, Timeout, Abort

-----------------------------------------------------------------------------
(* Type correctness.                                                       *)

LEMMA TypeInit == Init => TypeOK
BY ConstantsAssumption, TaskKinds
   DEF Init, TypeOK, Meta, NoMeta, Starting, Guarded, Live, Closed

(* The steps of a start call keep every variable in its type.              *)
LEMMA TypeStart ==
  ASSUME TypeOK, NEW r \in Run, StartCall(r) \/ StartSteps(r)
  PROVE  TypeOK'
<1> USE DEF TypeOK, StartMoves, Starting, Guarded, sessionVars, indexVars, lockVars,
        taskVars
<1>1. CASE StartCall(r)
  BY <1>1 DEF StartCall
<1>2. CASE AcquireLock(r)
  BY <1>2 DEF AcquireLock
<1>3. CASE CreateRunDir(r)
  BY <1>3 DEF CreateRunDir, Meta
<1>4. CASE CreateRunDirFails(r)
  BY <1>4 DEF CreateRunDirFails, FreeLock, Meta
<1>5. CASE Register(r)
  BY <1>5 DEF Register, Live
<1>6. CASE EvidenceDirsFail(r)
  BY <1>6 DEF EvidenceDirsFail, FreeLock
<1>7. CASE ProvenanceRead(r)
  BY <1>7 DEF ProvenanceRead, Meta
<1>8. CASE ProvenanceWrite(r)
  BY <1>8 DEF ProvenanceWrite, Meta, NoMeta
<1>9. CASE LaunchEvent(r)
  BY <1>9 DEF LaunchEvent
<1>10. CASE StartLogcat(r)
  BY <1>10 DEF StartLogcat
<1>11. CASE Announce(r)
  BY <1>11 DEF Announce
<1>12. CASE StartFails(r)
  BY <1>12 DEF StartFails, Meta, NoMeta
<1>13. CASE AbortCall(r)
  BY <1>13, TaskKinds DEF AbortCall, TaskMoves
<1> QED
  BY <1>1, <1>2, <1>3, <1>4, <1>5, <1>6, <1>7, <1>8, <1>9, <1>10, <1>11,
     <1>12, <1>13 DEF StartSteps

(* So do calls, timers, polls and reports.                                 *)
LEMMA TypeOthers ==
  ASSUME TypeOK, TaskStages, NEW r \in Run,
         \/ TimerFires(r) \/ PollStart(r) \/ PollAnswer(r)
         \/ \E s \in Stopper : Report(s) \/ StopCall(s, r)
  PROVE  TypeOK'
<1> USE TaskKinds DEF TypeOK, TaskMoves, sessionVars, indexVars, lockVars, taskVars
<1>1. CASE TimerFires(r)
  BY <1>1 DEF TimerFires
<1>2. CASE PollStart(r)
  BY <1>2 DEF PollStart
<1>3. CASE PollAnswer(r)
  BY <1>3 DEF PollAnswer, Live, Closed
<1>4. ASSUME NEW s \in Stopper, StopCall(s, r)
      PROVE  TypeOK'
  BY <1>4 DEF StopCall
<1>5. ASSUME NEW s \in Stopper, Report(s)
      PROVE  TypeOK'
  <2>1. runOf[s] \in Run
    BY <1>5 DEF Report, TaskStages
  <2>2. meta[runOf[s]].status \in {"none", "active"} \union Closed
    BY <2>1 DEF Meta
  <2> QED
    BY <1>5, <2>2 DEF Report
<1> QED
  BY <1>1, <1>2, <1>3, <1>4, <1>5

(* A patch of the status yields metadata.                                  *)
LEMMA PatchedMeta ==
  ASSUME NEW m \in Meta, NEW st \in {"none", "active"} \union Closed
  PROVE  [m EXCEPT !.status = st] \in Meta
BY DEF Meta

(* And the steps of a teardown.                                            *)
LEMMA TypeTeardown ==
  ASSUME TypeOK, TaskStages, NEW t \in Task, TeardownSteps(t)
  PROVE  TypeOK'
<1> USE TaskKinds DEF TypeOK, TaskMoves, sessionVars, indexVars, lockVars, Body
<1> DEFINE r == runOf[t]
<1>1. r \in Run
  BY DEF TeardownSteps, TaskStages, BeginFinalize, SkipFinalize,
     BeginShutdown, EndShutdown, FinalRead, FinalWrite, CloseStreams,
     ReleaseLock, UnlinkLock, Unregister
<1>2. CASE BeginFinalize(t)
  BY <1>1, <1>2 DEF BeginFinalize, Wanted, Closed, Live, Starting
<1>3. ASSUME Unregistered(r), StartAfterTeardown(t)
      PROVE  /\ sessions' \subseteq Run /\ tupleIndex' \in Run \union {None}
             /\ start' \in [Run -> {"idle", "ok", "failed"} \union Starting]
  BY <1>1, <1>3 DEF Unregistered, StartAfterTeardown
<1>4. AfterTeardown(t) \in {"report", "done"}
  BY DEF AfterTeardown
<1>5. CASE SkipFinalize(t)
  BY <1>3, <1>4, <1>5 DEF SkipFinalize
<1>6. CASE BeginShutdown(t) \/ FinalRead(t)
  BY <1>1, <1>6 DEF BeginShutdown, FinalRead
<1>7. CASE EndShutdown(t) \/ CloseStreams(t)
  BY <1>1, <1>7 DEF EndShutdown, CloseStreams, StepMayFail
<1>8. CASE FinalWrite(t)
  <2> DEFINE m == [copy[t] EXCEPT !.status = endStatus[t]]
  <2>1. m \in Meta
    <3>1. copy[t] \in Meta /\ endStatus[t] \in {"none", "active"} \union Closed
      OBVIOUS
    <3> QED
      BY <3>1, PatchedMeta, Zenon
  <2>2. /\ meta' = [meta EXCEPT ![r] = m] \/ meta' = meta
        /\ failed' = failed \/ failed' = failed \union {t}
        /\ copy' = [copy EXCEPT ![t] = NoMeta]
        /\ task' = [task EXCEPT ![t] = "close"]
        /\ UNCHANGED <<start, sessionVars, indexVars, lockVars, runOf,
                       endStatus, told, polled, overtaken>>
    BY <1>8, Zenon DEF FinalWrite
  <2>3. NoMeta \in Meta
    BY DEF Meta, NoMeta
  <2> HIDE DEF m
  <2>4. meta' \in [Run -> Meta]
    BY <1>1, <2>1, <2>2
  <2>5. copy' \in [Run \union Task -> Meta]
    BY <2>2, <2>3
  <2>6. failed' \subseteq Task /\ task' \in [Task -> {"idle", "called", "report", "done"} \union Body]
    BY <2>2
  <2> QED
    BY <2>2, <2>4, <2>5, <2>6
<1>9. CASE ReleaseLock(t)
  BY <1>1, <1>9 DEF ReleaseLock
<1>10. CASE UnlinkLock(t)
  BY <1>1, <1>10 DEF UnlinkLock
<1>11. CASE Unregister(t)
  BY <1>3, <1>4, <1>11 DEF Unregister
<1> QED
  BY <1>2, <1>5, <1>6, <1>7, <1>8, <1>9, <1>10, <1>11 DEF TeardownSteps

-----------------------------------------------------------------------------
(* The inductive invariant.                                                *)

LEMMA SessionInvInit == Init => SessionInv
<1> SUFFICES ASSUME Init
             PROVE  SessionInv
  OBVIOUS
<1>1. TypeOK
  BY TypeInit
<1>2. \A r \in Run : ~IsActive(r)
  BY DEF Init, IsActive, Live
<1> QED
  BY <1>1, <1>2, ConstantsAssumption, TaskKinds
     DEF Init, SessionInv, StartStages, TaskStages, ReleasedOnce,
     TasksKeepRuns, RegisteredExist, FailedUnregistered, LiveSessionIsWhole,
     Unended, NoStrandedTuple, TeardownExclusive, TearingDown, Body, Guarded,
     Starting

(* A step of a start call that only moves it on, or turns it away before   *)
(* it has the lock, preserves the invariant.                               *)
Unmoved == <<status, streams, timer, sessions, tupleIndex, lock, released,
             kept, failed, task, runOf, endStatus>>

LEMMA QuietStart ==
  ASSUME SessionInv, TypeOK', UNCHANGED Unmoved, NEW r \in Run,
         NEW at, start' = [start EXCEPT ![r] = at],
         \/ start[r] = "idle" /\ at \in {"acquire", "failed"}
         \/ start[r] = "acquire" /\ at = "failed"
         \/ start[r] \in Guarded /\ at \in Guarded \union {"aborting", "ok"}
  PROVE  SessionInv'
<1> USE DEF SessionInv, Unmoved
<1>1. start'[r] = at /\ \A q \in Run \ {r} : start'[q] = start[q]
  BY DEF TypeOK
<1>2. \A q \in Run : Unended(q)' = Unended(q)
  BY DEF Unended, IsActive
<1>3. \A t \in Task, q \in Run : TearingDown(t, q)' = TearingDown(t, q)
  BY DEF TearingDown
<1>4. StartStages'
  BY <1>1 DEF StartStages, Guarded
<1>5. TaskStages' /\ ReleasedOnce' /\ TasksKeepRuns' /\ RegisteredExist'
  BY DEF TaskStages, ReleasedOnce, TasksKeepRuns, RegisteredExist
<1>6. FailedUnregistered'
  BY <1>1 DEF FailedUnregistered, RegisteredExist, StartStages, Guarded
<1>7. LiveSessionIsWhole'
  BY <1>2 DEF LiveSessionIsWhole
<1>8. NoStrandedTuple'
  BY <1>1, <1>2, <1>3 DEF NoStrandedTuple, StartStages, Starting, Guarded
<1>9. TeardownExclusive'
  BY <1>3 DEF TeardownExclusive
<1> QED
  BY <1>4, <1>5, <1>6, <1>7, <1>8, <1>9

(* So do the steps between the grant of the lock and the registration of   *)
(* the session.                                                            *)
LEMMA Acquisition ==
  ASSUME SessionInv, TypeOK', NEW r \in Run,
         \/ AcquireLock(r) \/ CreateRunDir(r) \/ CreateRunDirFails(r)
         \/ Register(r) \/ EvidenceDirsFail(r)
  PROVE  SessionInv'
<1> USE ConstantsAssumption DEF SessionInv, StartMoves, sessionVars, indexVars, lockVars,
        taskVars
<1>1. CASE AcquireLock(r) /\ lock # None
  BY <1>1, QuietStart DEF AcquireLock, Unmoved
<1>2. ASSUME start[r] \in {"acquire", "create", "evidence"}
      PROVE  /\ status[r] = "none"
             /\ r \notin sessions /\ tupleIndex # r
             /\ \A t \in Task : runOf[t] # r
  BY <1>2 DEF StartStages, RegisteredExist, TaskStages
<1>3. ASSUME lock \in {r, None}, start[r] \in {"acquire", "create", "evidence"}
      PROVE  \A q \in Run : ~Unended(q)
  BY <1>2, <1>3 DEF LiveSessionIsWhole, Unended, IsActive, Live
<1>4. CASE AcquireLock(r) /\ lock = None
  <2> USE <1>4 DEF AcquireLock
  <2>1. start' = [start EXCEPT ![r] = "create"] /\ lock' = r
        /\ status[r] = "none"
    BY <1>2
  <2>2. StartStages'
    BY <2>1 DEF TypeOK, StartStages, Guarded
  <2>3. TaskStages' /\ ReleasedOnce' /\ TasksKeepRuns' /\ RegisteredExist'
    BY <1>2, <2>1 DEF TaskStages, ReleasedOnce, StartStages, TasksKeepRuns,
       RegisteredExist, Body
  <2>4. FailedUnregistered'
    BY DEF TypeOK, FailedUnregistered
  <2>5. \A q \in Run : ~Unended(q) /\ ~Unended(q)'
    BY <1>3 DEF Unended, IsActive
  <2>6. LiveSessionIsWhole' /\ TeardownExclusive'
    BY <2>5 DEF LiveSessionIsWhole, TeardownExclusive, TearingDown
  <2>7. NoStrandedTuple'
    BY <2>1, <2>5 DEF TypeOK, NoStrandedTuple, TearingDown, Starting
  <2> QED
    BY <2>2, <2>3, <2>4, <2>6, <2>7
<1>5. CASE CreateRunDir(r)
  <2> USE <1>5 DEF CreateRunDir
  <2>1. lock = r /\ start' = [start EXCEPT ![r] = "evidence"]
        /\ streams' = [streams EXCEPT ![r] = "open"]
    BY DEF StartStages
  <2>2. StartStages'
    BY <2>1 DEF TypeOK, StartStages, Guarded
  <2>3. TaskStages' /\ ReleasedOnce' /\ TasksKeepRuns' /\ RegisteredExist'
    BY DEF TaskStages, ReleasedOnce, TasksKeepRuns, RegisteredExist
  <2>4. FailedUnregistered'
    BY DEF TypeOK, FailedUnregistered
  <2>5. \A q \in Run : ~Unended(q) /\ ~Unended(q)'
    BY <1>3, <2>1 DEF Unended, IsActive
  <2>6. LiveSessionIsWhole' /\ TeardownExclusive'
    BY <2>5 DEF LiveSessionIsWhole, TeardownExclusive, TearingDown
  <2>7. NoStrandedTuple'
    BY <1>2, <2>1, <2>5 DEF TypeOK, NoStrandedTuple, TearingDown, Starting
  <2> QED
    BY <2>2, <2>3, <2>4, <2>6, <2>7
<1>6. CASE CreateRunDirFails(r) \/ EvidenceDirsFail(r)
  <2> USE <1>6 DEF CreateRunDirFails, EvidenceDirsFail, FreeLock
  <2>1. /\ lock = r /\ start' = [start EXCEPT ![r] = "failed"]
        /\ start[r] \in {"create", "evidence"}
        /\ released' = released \union {r}
        /\ \/ lock' = None /\ kept' = kept
           \/ lock' = lock /\ kept' = kept \union {r} /\ "release" \in Faults
        /\ UNCHANGED <<status, sessions, tupleIndex, failed, task, runOf,
                       endStatus>>
        /\ \A q \in Run \ {r} : streams'[q] = streams[q]
    BY DEF StartStages, TypeOK
  <2>2. StartStages'
    BY <2>1 DEF TypeOK, StartStages, Guarded
  <2>3. TaskStages' /\ TasksKeepRuns' /\ RegisteredExist'
    BY <2>1 DEF TaskStages, TasksKeepRuns, RegisteredExist, Body
  <2>8. ReleasedOnce'
    <3>1. \A q \in released : q # r /\ lock' # q
      BY <2>1 DEF StartStages, TypeOK
    <3>2. lock' # r \/ r \in kept'
      BY <2>1
    <3> QED
      BY <2>1, <3>1, <3>2 DEF ReleasedOnce
  <2>4. FailedUnregistered'
    BY <1>2, <2>1 DEF TypeOK, FailedUnregistered
  <2>5. \A q \in Run : ~Unended(q) /\ ~Unended(q)'
    BY <1>3, <2>1 DEF Unended, IsActive
  <2>6. LiveSessionIsWhole' /\ TeardownExclusive'
    BY <2>1, <2>5 DEF LiveSessionIsWhole, TeardownExclusive, TearingDown
  <2>7. NoStrandedTuple'
    BY <1>2, <2>1, <2>5 DEF TypeOK, NoStrandedTuple, TearingDown
  <2> QED
    BY <2>2, <2>3, <2>4, <2>6, <2>7, <2>8
<1>7. CASE Register(r)
  <2> USE <1>7 DEF Register
  <2>1. /\ lock = r /\ streams[r] = "open" /\ start[r] = "evidence"
        /\ start' = [start EXCEPT ![r] = "provenance"]
        /\ status' = [status EXCEPT ![r] = "active"]
        /\ timer' = [timer EXCEPT ![r] = "armed"]
        /\ sessions' = sessions \union {r} /\ tupleIndex' = r
    BY DEF StartStages
  <2>2. StartStages'
    BY <2>1 DEF TypeOK, StartStages, Guarded
  <2>3. TaskStages' /\ ReleasedOnce' /\ TasksKeepRuns' /\ RegisteredExist'
    BY <1>2, <2>1 DEF TypeOK, TaskStages, ReleasedOnce, TasksKeepRuns,
       RegisteredExist
  <2>4. FailedUnregistered'
    BY <2>1 DEF TypeOK, FailedUnregistered
  <2>5. \A q \in Run : Unended(q)' => q = r
    BY <1>3, <2>1 DEF TypeOK, Unended, IsActive
  <2>6. LiveSessionIsWhole'
    BY <2>1, <2>5 DEF TypeOK, LiveSessionIsWhole
  <2>7. TeardownExclusive'
    BY <1>2, <2>1 DEF TypeOK, TeardownExclusive, TearingDown
  <2>8. Unended(r)'
    BY <1>2, <2>1 DEF TypeOK, Unended, IsActive, Live
  <2>9. NoStrandedTuple'
    BY <1>2, <2>1, <2>8 DEF TypeOK, NoStrandedTuple
  <2> QED
    BY <2>2, <2>3, <2>4, <2>6, <2>7, <2>9
<1> QED
  BY <1>1, <1>4, <1>5, <1>6, <1>7 DEF TypeOK

(* A task that begins work on a session that exists preserves it; the      *)
(* timer that fires with it is that session's.                             *)
LEMMA NewTask ==
  ASSUME SessionInv, TypeOK', NEW r \in Run, NEW t \in Task,
         status[r] # "none",
         task[t] = "idle", task' = [task EXCEPT ![t] = "called"],
         runOf' = [runOf EXCEPT ![t] = r],
         \A q \in Run \ {r} : t # Timeout(q) /\ t # Abort(q),
         \/ timer' = timer
         \/ t = Timeout(r) /\ timer' = [timer EXCEPT ![r] = "fired"],
         UNCHANGED <<start, status, streams, sessions, tupleIndex, lock,
                     released, kept, failed, endStatus>>
  PROVE  SessionInv'
<1> USE TaskKinds DEF SessionInv
<1>1. /\ task'[t] = "called" /\ runOf'[t] = r /\ endStatus[t] = "none"
      /\ t \notin failed
      /\ \A u \in Task \ {t} : task'[u] = task[u] /\ runOf'[u] = runOf[u]
  BY DEF TypeOK, TaskStages
<1>2. \A q \in Run : Unended(q)' = Unended(q)
  BY <1>1 DEF Unended, IsActive, TaskStages
<1>3. \A u \in Task, q \in Run : TearingDown(u, q)' = TearingDown(u, q)
  BY <1>1 DEF TearingDown, Body
<1>4. StartStages' /\ RegisteredExist' /\ FailedUnregistered'
  BY DEF StartStages, RegisteredExist, FailedUnregistered
<1>5. TaskStages' /\ ReleasedOnce'
  BY <1>1 DEF TaskStages, ReleasedOnce, Body
<1>6. TasksKeepRuns'
  BY <1>1 DEF TasksKeepRuns
<1>7. LiveSessionIsWhole'
  BY <1>1, <1>2 DEF TypeOK, LiveSessionIsWhole
<1>8. NoStrandedTuple'
  BY <1>1, <1>2, <1>3 DEF TypeOK, NoStrandedTuple
<1>9. TeardownExclusive'
  BY <1>3 DEF TeardownExclusive
<1> QED
  BY <1>4, <1>5, <1>6, <1>7, <1>8, <1>9

(* The remaining steps of a start call move it on; or they begin the       *)
(* abort.                                                                  *)
LEMMA StartInv ==
  ASSUME SessionInv, NEW r \in Run, StartCall(r) \/ StartSteps(r)
  PROVE  SessionInv'
<1>1. TypeOK'
  BY TypeStart DEF SessionInv
<1> USE DEF StartMoves, sessionVars, indexVars, lockVars, taskVars, Guarded, Unmoved
<1>2. CASE StartCall(r)
  BY <1>1, <1>2, QuietStart DEF StartCall
<1>3. CASE \/ AcquireLock(r) \/ CreateRunDir(r) \/ CreateRunDirFails(r)
           \/ Register(r) \/ EvidenceDirsFail(r)
  BY <1>1, <1>3, Acquisition
<1>4. CASE ProvenanceRead(r)
  BY <1>1, <1>4, QuietStart DEF ProvenanceRead
<1>5. CASE ProvenanceWrite(r)
  BY <1>1, <1>5, QuietStart DEF ProvenanceWrite
<1>6. CASE LaunchEvent(r)
  BY <1>1, <1>6, QuietStart DEF LaunchEvent
<1>7. CASE StartLogcat(r)
  BY <1>1, <1>7, QuietStart DEF StartLogcat
<1>8. CASE Announce(r)
  BY <1>1, <1>8, QuietStart DEF Announce
<1>9. CASE StartFails(r)
  BY <1>1, <1>9, QuietStart DEF StartFails
<1>10. CASE AbortCall(r)
  <2>1. Abort(r) \in Task /\ \A q \in Run \ {r} :
            Abort(r) # Timeout(q) /\ Abort(r) # Abort(q)
    BY TaskKinds
  <2>2. status[r] # "none"
    BY <1>10 DEF AbortCall, SessionInv, StartStages
  <2> QED
    BY <1>1, <1>10, <2>1, <2>2, NewTask DEF AbortCall, TaskMoves
<1> QED
  BY <1>2, <1>3, <1>4, <1>5, <1>6, <1>7, <1>8, <1>9, <1>10 DEF StartSteps

(* Calls, timers, polls and reports.  A poll's answer finds a session live *)
(* or leaves it alone.                                                     *)
LEMMA OthersInv ==
  ASSUME SessionInv, NEW r \in Run,
         \/ TimerFires(r) \/ PollStart(r) \/ PollAnswer(r)
         \/ \E s \in Stopper : Report(s) \/ StopCall(s, r)
  PROVE  SessionInv'
<1>1. TypeOK'
  BY TypeOthers DEF SessionInv
<1> USE DEF sessionVars, indexVars, lockVars, taskVars
<1>2. ASSUME TimerFires(r), r \in sessions /\ IsActive(r)
      PROVE  SessionInv'
  <2>1. Timeout(r) \in Task /\ \A q \in Run \ {r} :
            Timeout(r) # Timeout(q) /\ Timeout(r) # Abort(q)
    BY TaskKinds
  <2>2. status[r] # "none"
    BY <1>2 DEF IsActive, Live
  <2> QED
    BY <1>1, <1>2, <2>1, <2>2, NewTask DEF TimerFires, TaskMoves
<1>3. ASSUME TimerFires(r), ~(r \in sessions /\ IsActive(r))
      PROVE  SessionInv'
  <2> USE <1>3 DEF TimerFires, SessionInv
  <2>1. \A q \in Run \ {r} : timer'[q] = timer[q]
    BY DEF TypeOK
  <2>2. ~Unended(r)
    BY DEF LiveSessionIsWhole, Unended
  <2>3. LiveSessionIsWhole'
    BY <2>1, <2>2 DEF LiveSessionIsWhole, Unended, IsActive
  <2> QED
    BY <1>1, <2>3 DEF StartStages, TaskStages, ReleasedOnce, TasksKeepRuns,
       RegisteredExist, FailedUnregistered, NoStrandedTuple,
       TeardownExclusive, TearingDown, Unended, IsActive
<1>4. CASE PollStart(r)
  BY <1>1, <1>4 DEF PollStart, SessionInv, StartStages, TaskStages,
     ReleasedOnce, TasksKeepRuns, RegisteredExist, FailedUnregistered, LiveSessionIsWhole,
     NoStrandedTuple, TeardownExclusive, TearingDown, Unended, IsActive
<1>5. CASE PollAnswer(r)
  <2> USE <1>5 DEF PollAnswer, SessionInv
  <2>1. /\ status'[r] = status[r] \/ (status[r] = "active" /\ status'[r] = "degraded")
        /\ \A q \in Run \ {r} : status'[q] = status[q]
    BY DEF TypeOK
  <2>2. \A q \in Run : IsActive(q)' = IsActive(q)
    BY <2>1 DEF IsActive, Live
  <2>3. \A q \in Run : Unended(q)' = Unended(q)
    BY <2>2 DEF Unended
  <2>4. \A q \in Run : (status'[q] = "none") = (status[q] = "none")
    BY <2>1
  <2>5. StartStages' /\ TasksKeepRuns' /\ RegisteredExist'
        /\ FailedUnregistered'
    BY <2>4 DEF StartStages, TasksKeepRuns, RegisteredExist,
       FailedUnregistered
  <2>6. TaskStages' /\ ReleasedOnce' /\ TeardownExclusive'
    BY <2>1, <2>4 DEF TaskStages, ReleasedOnce, TeardownExclusive,
       TearingDown, Closed
  <2>7. LiveSessionIsWhole'
    BY <2>3 DEF LiveSessionIsWhole
  <2>8. NoStrandedTuple'
    BY <2>3, <2>4 DEF NoStrandedTuple, TearingDown
  <2> QED
    BY <1>1, <2>5, <2>6, <2>7, <2>8
<1>6. ASSUME NEW s \in Stopper, StopCall(s, r)
      PROVE  SessionInv'
  <2>1. s \in Task /\ \A q \in Run \ {r} : s # Timeout(q) /\ s # Abort(q)
    BY TaskKinds
  <2>2. status[r] # "none"
    BY <1>6 DEF StopCall, IsActive, Live
  <2> QED
    BY <1>1, <1>6, <2>1, <2>2, NewTask DEF StopCall, TaskMoves
<1>7. ASSUME NEW s \in Stopper, Report(s)
      PROVE  SessionInv'
  <2> USE <1>7, TaskKinds DEF Report, TaskMoves, SessionInv
  <2>1. /\ task[s] = "report" /\ task'[s] = "done" /\ s \in Task
        /\ \A u \in Task \ {s} : task'[u] = task[u]
    BY DEF TypeOK
  <2>2. \A u \in Task, q \in Run : TearingDown(u, q)' = TearingDown(u, q)
    BY <2>1 DEF TearingDown, Body
  <2>3. StartStages' /\ TasksKeepRuns' /\ RegisteredExist'
        /\ FailedUnregistered'
    BY DEF StartStages, TasksKeepRuns, RegisteredExist, FailedUnregistered
  <2>4. TaskStages' /\ ReleasedOnce'
    BY <2>1 DEF TaskStages, ReleasedOnce, Body
  <2>5. LiveSessionIsWhole'
    BY <2>1 DEF LiveSessionIsWhole, Unended, IsActive
  <2>6. NoStrandedTuple' /\ TeardownExclusive'
    BY <2>2 DEF NoStrandedTuple, TeardownExclusive, Unended, IsActive
  <2> QED
    BY <1>1, <2>3, <2>4, <2>5, <2>6
<1> QED
  BY <1>2, <1>3, <1>4, <1>5, <1>6, <1>7

-----------------------------------------------------------------------------
(* Teardown.                                                               *)

(* A step inside finalize, which the streams' state apart changes nothing  *)
(* a session is made of, preserves the invariant.                          *)
LEMMA InsideFinalize ==
  ASSUME SessionInv, TypeOK', NEW t \in Task,
         NEW at \in Body \ {"unlink", "unregister"},
         task[t] \in Body \ {"unlink"}, task' = [task EXCEPT ![t] = at],
         \A q \in Run \ {runOf[t]} : streams'[q] = streams[q],
         failed' = failed \/ failed' = failed \union {t},
         UNCHANGED <<start, status, timer, sessions, tupleIndex, lock,
                     released, kept, runOf, endStatus>>
  PROVE  SessionInv'
<1> DEFINE r == runOf[t]
<1> USE DEF SessionInv
<1>1. /\ task'[t] = at
      /\ \A u \in Task \ {t} : task'[u] = task[u]
  BY DEF TypeOK
<1>2. r \in Run /\ status[r] # "none" /\ ~Unended(r)
  BY DEF TaskStages, Body, Unended
<1>3. \A u \in Task, q \in Run : TearingDown(u, q)' = TearingDown(u, q)
  BY <1>1 DEF TearingDown
<1>4. \A q \in Run : Unended(q)' = Unended(q)
  BY DEF Unended, IsActive
<1>5. StartStages' /\ TasksKeepRuns' /\ RegisteredExist' /\ FailedUnregistered'
  BY <1>2 DEF StartStages, TasksKeepRuns, RegisteredExist, FailedUnregistered
<1>6. TaskStages' /\ ReleasedOnce'
  BY <1>1 DEF TaskStages, ReleasedOnce, Body
<1>7. LiveSessionIsWhole'
  BY <1>1, <1>2, <1>4 DEF LiveSessionIsWhole, Body
<1>8. NoStrandedTuple' /\ TeardownExclusive'
  BY <1>3, <1>4 DEF NoStrandedTuple, TeardownExclusive
<1> QED
  BY <1>5, <1>6, <1>7, <1>8

(* The step past finalize's guard: one more task is tearing the session    *)
(* down, which is live no longer, or degraded for good.                    *)
LEMMA BeginInv ==
  ASSUME SessionInv, TypeOK', NEW t \in Task, BeginFinalize(t)
  PROVE  SessionInv'
<1> DEFINE r == runOf[t]
<1> USE DEF SessionInv
<1>1. r \in Run /\ status[r] \in Live
  BY DEF BeginFinalize, TaskStages, IsActive
<1>2. PICK final \in Closed :
        /\ status' = [status EXCEPT ![r] = final]
        /\ endStatus' = [endStatus EXCEPT ![t] = final]
        /\ status[r] = "degraded" => final = "degraded"
  BY DEF BeginFinalize, Wanted, Closed
<1>3. /\ task[t] = "called"
      /\ task' = [task EXCEPT ![t] = "logcat"]
      /\ timer' = [timer EXCEPT ![r] = "stopped"]
      /\ UNCHANGED <<start, streams, sessions, tupleIndex, lock, released,
                     kept, failed, runOf>>
  BY DEF BeginFinalize, TaskMoves, indexVars, lockVars
<1>4. /\ task'[t] = "logcat" /\ endStatus'[t] = final /\ status'[r] = final
      /\ \A u \in Task \ {t} : task'[u] = task[u] /\ endStatus'[u] = endStatus[u]
      /\ \A q \in Run \ {r} : status'[q] = status[q] /\ timer'[q] = timer[q]
  BY <1>1, <1>2, <1>3 DEF TypeOK
<1>5. ~Unended(r)' /\ \A q \in Run \ {r} : Unended(q)' = Unended(q)
  BY <1>3, <1>4 DEF Unended, IsActive, Closed, TaskStages
<1>6. /\ \A u \in Task \ {t}, q \in Run : TearingDown(u, q)' = TearingDown(u, q)
      /\ TearingDown(t, r)'
      /\ \A q \in Run \ {r} : ~TearingDown(t, q) /\ ~TearingDown(t, q)'
  BY <1>1, <1>3, <1>4 DEF TearingDown, Body
<1>7. StartStages' /\ TasksKeepRuns' /\ RegisteredExist' /\ FailedUnregistered'
  BY <1>1, <1>3, <1>4
     DEF StartStages, TasksKeepRuns, RegisteredExist, FailedUnregistered, Live,
     Closed
<1>8. TaskStages' /\ ReleasedOnce'
  BY <1>1, <1>2, <1>3, <1>4 DEF TaskStages, ReleasedOnce, Body, Closed
<1>9. LiveSessionIsWhole'
  <2>1. \A q \in Run \ {r} : t # Timeout(q)
    BY ConstantsAssumption, TaskKinds, <1>1 DEF TasksKeepRuns
  <2>2. \A q \in Run \ {r} : Timeout(q) \in Task \ {t}
    BY <2>1, TaskKinds
  <2> QED
    BY <1>3, <1>4, <1>5, <2>2 DEF LiveSessionIsWhole
<1>10. NoStrandedTuple'
  BY <1>1, <1>3, <1>4, <1>5, <1>6 DEF NoStrandedTuple, Live
<1>11. TeardownExclusive'
  <2>1. \A u \in Task : TearingDown(u, r) => status[r] = "degraded"
    BY <1>1 DEF TearingDown, TaskStages, Live, Closed
  <2> QED
    BY <1>2, <1>4, <1>6, <2>1 DEF TeardownExclusive
<1> QED
  BY <1>7, <1>8, <1>9, <1>10, <1>11

(* release() spends the lock's handle; a second one finds it spent.        *)
LEMMA ReleaseInv ==
  ASSUME SessionInv, TypeOK', NEW t \in Task, ReleaseLock(t)
  PROVE  SessionInv'
<1> DEFINE r == runOf[t]
<1> USE DEF SessionInv, ReleaseLock, TaskMoves, sessionVars, indexVars
<1>1. r \in Run /\ status[r] # "none" /\ ~Unended(r)
  BY DEF TaskStages, Body, Unended
<1>2. /\ task'[t] \in {"unlink", "unregister"} /\ task[t] = "release"
      /\ r \notin released => task'[t] = "unlink"
      /\ \A u \in Task \ {t} : task'[u] = task[u]
      /\ released' = released \union {r}
  BY DEF TypeOK
<1>3. UNCHANGED <<start, status, sessions, tupleIndex, streams, timer, lock,
                  kept, failed, runOf, endStatus>>
  OBVIOUS
<1>4. \A u \in Task, q \in Run : TearingDown(u, q)' = TearingDown(u, q)
  BY <1>2, <1>3 DEF TearingDown, Body
<1>5. \A q \in Run : Unended(q)' = Unended(q)
  BY <1>3 DEF Unended, IsActive
<1>6. StartStages' /\ TasksKeepRuns' /\ RegisteredExist' /\ FailedUnregistered'
  BY <1>1, <1>2, <1>3
     DEF StartStages, TasksKeepRuns, RegisteredExist, FailedUnregistered
<1>7. TaskStages' /\ ReleasedOnce'
  BY <1>1, <1>2, <1>3 DEF TaskStages, ReleasedOnce, Body
<1>8. LiveSessionIsWhole'
  BY <1>1, <1>2, <1>3, <1>5 DEF LiveSessionIsWhole
<1>9. NoStrandedTuple' /\ TeardownExclusive'
  BY <1>3, <1>4, <1>5 DEF NoStrandedTuple, TeardownExclusive
<1> QED
  BY <1>6, <1>7, <1>8, <1>9

(* The unlink frees the tuple for others while the session is torn down,   *)
(* or fails, which the teardown remembers.                                 *)
LEMMA UnlinkInv ==
  ASSUME SessionInv, TypeOK', NEW t \in Task, UnlinkLock(t)
  PROVE  SessionInv'
<1> DEFINE r == runOf[t]
<1> USE DEF SessionInv, UnlinkLock, TaskMoves, sessionVars, indexVars
<1>1. r \in Run /\ status[r] # "none" /\ ~Unended(r)
      /\ endStatus[t] # "none" /\ r \in released
  BY DEF TaskStages, Body, Unended
<1>2. /\ task'[t] = "unregister" /\ task[t] = "unlink"
      /\ \A u \in Task \ {t} : task'[u] = task[u]
  BY DEF TypeOK
<1>3. /\ \A q \in Run \ {r} : lock' = q <=> lock = q
      /\ \/ lock' # r /\ UNCHANGED <<kept, failed>>
         \/ /\ lock' = lock /\ "release" \in Faults
            /\ kept' = kept \union {r} /\ failed' = failed \union {t}
  BY <1>1, ConstantsAssumption DEF TypeOK
<1>4. UNCHANGED <<start, status, sessions, tupleIndex, streams, timer,
                  released, runOf, endStatus>>
  OBVIOUS
<1>5. \A u \in Task, q \in Run : TearingDown(u, q)' = TearingDown(u, q)
  BY <1>2, <1>4 DEF TearingDown, Body
<1>6. \A q \in Run : Unended(q)' = Unended(q)
  BY <1>4 DEF Unended, IsActive
<1>7. StartStages' /\ TasksKeepRuns' /\ RegisteredExist' /\ FailedUnregistered'
  BY <1>1, <1>3, <1>4
     DEF StartStages, TasksKeepRuns, RegisteredExist, FailedUnregistered
<1>8. TaskStages' /\ ReleasedOnce'
  BY <1>1, <1>2, <1>3, <1>4 DEF TypeOK, TaskStages, ReleasedOnce, Body
<1>9. LiveSessionIsWhole'
  BY <1>1, <1>2, <1>3, <1>4, <1>6 DEF LiveSessionIsWhole
<1>10. NoStrandedTuple'
  <2>1. \A q \in Run : q \in kept' => q \in kept \/ (q = r /\ t \in failed')
    BY <1>3
  <2>2. TearingDown(t, r)'
    BY <1>2, <1>4 DEF TearingDown, Body
  <2> QED
    BY <1>3, <1>4, <1>5, <1>6, <2>1, <2>2 DEF NoStrandedTuple
<1>11. TeardownExclusive'
  BY <1>4, <1>5 DEF TeardownExclusive
<1> QED
  BY <1>7, <1>8, <1>9, <1>10, <1>11

(* unregister() takes the session out, and no other run's index entry.     *)
LEMMA EndInv ==
  ASSUME SessionInv, TypeOK', NEW t \in Task, SkipFinalize(t) \/ Unregister(t)
  PROVE  SessionInv'
<1> DEFINE r == runOf[t]
<1> USE DEF SessionInv, SkipFinalize, Unregister, TaskMoves, sessionVars,
        lockVars
<1>1. r \in Run /\ status[r] # "none" /\ ~Unended(r)
  BY DEF TaskStages, Body, Unended
<1>2. /\ task'[t] \in {"report", "done"} /\ task[t] \in {"called", "unregister"}
      /\ \A u \in Task \ {t} : task'[u] = task[u]
  BY DEF TypeOK, AfterTeardown
<1>3. /\ sessions' = sessions \ {r}
      /\ \A q \in Run \ {r} : tupleIndex' = q <=> tupleIndex = q
      /\ tupleIndex' # r
  BY <1>1, ConstantsAssumption DEF Unregistered, TypeOK
<1>4. \A q \in Run : \/ start'[q] = start[q]
                     \/ q = r /\ start'[q] = "failed"
  BY <1>1, ConstantsAssumption, TaskKinds
     DEF StartAfterTeardown, TypeOK, TasksKeepRuns
<1>5. UNCHANGED <<status, streams, timer, lock, released, kept, failed, runOf,
                  endStatus>>
  OBVIOUS
<1>6. /\ \A q \in Run : Unended(q)' = Unended(q)
      /\ \A u \in Task, q \in Run :
            TearingDown(u, q)' => TearingDown(u, q)
      /\ \A u \in Task, q \in Run \ {r} :
            TearingDown(u, q)' = TearingDown(u, q)
      /\ \A u \in Task \ {t}, q \in Run :
            TearingDown(u, q)' = TearingDown(u, q)
  BY <1>2, <1>5 DEF Unended, IsActive, TearingDown, Body
<1>7. StartStages' /\ TasksKeepRuns' /\ RegisteredExist' /\ FailedUnregistered'
  BY <1>1, <1>3, <1>4, <1>5
     DEF StartStages, TasksKeepRuns, RegisteredExist, FailedUnregistered,
     Guarded
<1>8. TaskStages' /\ ReleasedOnce'
  BY <1>1, <1>2, <1>5 DEF TaskStages, ReleasedOnce, Body
<1>9. LiveSessionIsWhole'
  <2>1. \A q \in Run \ {r} : Timeout(q) \in Task \ {t}
    BY ConstantsAssumption, TaskKinds, <1>1 DEF TasksKeepRuns
  <2> QED
    BY <1>1, <1>2, <1>3, <1>5, <1>6, <2>1 DEF LiveSessionIsWhole
<1>10. NoStrandedTuple'
  <2>1. lock = r => \/ \E u \in Task \ {t} : TearingDown(u, r)
                    \/ r \in kept
    BY <1>1, <1>2
       DEF NoStrandedTuple, TaskStages, ReleasedOnce, TearingDown, Body
  <2>2. lock = r => (\E u \in Task : TearingDown(u, r)') \/ r \in kept'
    BY <1>1, <1>5, <1>6, <2>1
  <2>3. ASSUME NEW q \in Run \ {r}
        PROVE  /\ tupleIndex' = q =>
                    Unended(q)' \/ \E u \in Task : TearingDown(u, q)'
               /\ lock' = q => \/ Unended(q)' \/ \E u \in Task : TearingDown(u, q)'
                               \/ status'[q] = "none" /\ start'[q] \in Starting
                               \/ q \in kept'
    BY <1>3, <1>4, <1>5, <1>6 DEF NoStrandedTuple
  <2>4. ASSUME NEW q \in Run, q \in kept'
        PROVE  /\ "release" \in Faults
               /\ \/ \E u \in failed' : runOf'[u] = q
                  \/ status'[q] = "none" /\ start'[q] = "failed"
    BY <1>4, <1>5, <2>4 DEF NoStrandedTuple
  <2> QED
    BY <1>3, <1>5, <2>2, <2>3, <2>4 DEF NoStrandedTuple
<1>11. TeardownExclusive'
  BY <1>5, <1>6 DEF TeardownExclusive
<1> QED
  BY <1>7, <1>8, <1>9, <1>10, <1>11

LEMMA TeardownInv ==
  ASSUME SessionInv, NEW t \in Task, TeardownSteps(t)
  PROVE  SessionInv'
<1>1. TypeOK'
  BY TypeTeardown DEF SessionInv
<1> USE DEF TaskMoves, sessionVars, indexVars, lockVars, Body
<1>2. CASE BeginFinalize(t)
  BY <1>1, <1>2, BeginInv
<1>3. CASE SkipFinalize(t) \/ Unregister(t)
  BY <1>1, <1>3, EndInv
<1>4. CASE BeginShutdown(t)
  BY <1>1, <1>4, InsideFinalize DEF BeginShutdown
<1>5. CASE EndShutdown(t)
  BY <1>1, <1>5, InsideFinalize DEF EndShutdown, StepMayFail
<1>6. CASE FinalRead(t)
  BY <1>1, <1>6, InsideFinalize DEF FinalRead
<1>7. CASE FinalWrite(t)
  <2>1. /\ task[t] = "patchWrite" /\ task' = [task EXCEPT ![t] = "close"]
        /\ failed' = failed \/ failed' = failed \union {t}
        /\ UNCHANGED <<start, sessionVars, indexVars, lockVars, runOf,
                       endStatus>>
    BY <1>7, Zenon DEF FinalWrite
  <2> QED
    BY <1>1, <2>1, InsideFinalize
<1>8. CASE CloseStreams(t)
  <2>1. \A q \in Run \ {runOf[t]} : streams'[q] = streams[q]
    BY <1>8 DEF CloseStreams, SessionInv, TypeOK
  <2> QED
    BY <1>1, <1>8, <2>1, InsideFinalize DEF CloseStreams, StepMayFail
<1>9. CASE ReleaseLock(t)
  BY <1>1, <1>9, ReleaseInv
<1>10. CASE UnlinkLock(t)
  BY <1>1, <1>10, UnlinkInv
<1> QED
  BY <1>2, <1>3, <1>4, <1>5, <1>6, <1>7, <1>8, <1>9, <1>10 DEF TeardownSteps

-----------------------------------------------------------------------------
LEMMA SessionInvStep == SessionInv /\ [Next]_vars => SessionInv'
<1> SUFFICES ASSUME SessionInv, [Next]_vars
             PROVE  SessionInv'
  OBVIOUS
<1>1. CASE UNCHANGED vars
  BY <1>1 DEF vars, sessionVars, indexVars, lockVars, taskVars, SessionInv, TypeOK,
     StartStages, TaskStages, ReleasedOnce, TasksKeepRuns, RegisteredExist,
     FailedUnregistered, LiveSessionIsWhole, NoStrandedTuple,
     TeardownExclusive, TearingDown, Unended, IsActive
<1>2. ASSUME NEW r \in Run, StartCall(r) \/ StartSteps(r)
      PROVE  SessionInv'
  BY <1>2, StartInv
<1>3. ASSUME NEW r \in Run,
             \/ TimerFires(r) \/ PollStart(r) \/ PollAnswer(r)
             \/ \E s \in Stopper : Report(s) \/ StopCall(s, r)
      PROVE  SessionInv'
  BY <1>3, OthersInv
<1>4. ASSUME NEW t \in Task, TeardownSteps(t)
      PROVE  SessionInv'
  BY <1>4, TeardownInv
<1>5. ASSUME NEW s \in Stopper, Report(s)
      PROVE  SessionInv'
  <2>1. runOf[s] \in Run
    BY <1>5, TaskKinds DEF Report, TaskMoves, SessionInv, TaskStages
  <2> QED
    BY <1>3, <1>5, <2>1
<1> QED
  BY <1>1, <1>2, <1>3, <1>4, <1>5 DEF Next

(* SessionInv holds in every reachable state of every instance.            *)
THEOREM SessionInvariant == Spec => []SessionInv
BY SessionInvInit, SessionInvStep, PTL DEF Spec

(* Each variable keeps the type TypeOK gives it.                           *)
THEOREM TypeCorrect == Spec => []TypeOK
BY SessionInvariant, PTL DEF SessionInv

(* Unless its device has dropped, a session is torn down by one task at a  *)
(* time, whichever of stops, timer and abort reach finalize.               *)
THEOREM OneTeardown == Spec => []TeardownExclusive
BY SessionInvariant, PTL DEF SessionInv

(* A session that nobody tears down is registered, indexed, locked, open   *)
(* and timed.                                                              *)
THEOREM LiveSessionsAreWhole == Spec => []LiveSessionIsWhole
BY SessionInvariant, PTL DEF SessionInv

(* No index entry survives the session it was made for, and its lock only  *)
(* where the release of the lock itself failed and was reported.           *)
THEOREM TuplesAreFreed == Spec => []NoStrandedTuple
BY SessionInvariant, PTL DEF SessionInv

(* A failed start call leaves no session behind, and no lock that nobody   *)
(* is releasing or has failed to release.                                  *)
THEOREM FailedStartsLeaveNothing == Spec => []FailedStartLeavesNothing
<1>1. SessionInv => FailedStartLeavesNothing
  BY DEF SessionInv, FailedUnregistered, LiveSessionIsWhole, NoStrandedTuple,
     FailedStartLeavesNothing, Starting, Guarded
<1> QED
  BY <1>1, SessionInvariant, PTL

-----------------------------------------------------------------------------
(* Sessions are holders of the tuple slot.                                 *)

(* But for the grant of the lock, no step adds a holder.                   *)
LEMMA HoldersShrink ==
  ASSUME SessionInv, [Next]_vars, \A r \in Run : ~AcquireLock(r)
  PROVE  Holders' \subseteq Holders
<1> USE DEF SessionInv, TypeOK, StartMoves, TaskMoves, sessionVars, indexVars, lockVars,
        taskVars, Holders, Unended, IsActive, Live
<1>1. ASSUME NEW r \in Run, StartCall(r) \/ StartSteps(r)
      PROVE  Holders' \subseteq Holders
  <2> USE <1>1 DEF StartSteps
  <2>1. CASE AbortCall(r)
    BY <2>1 DEF AbortCall, TaskStages
  <2>2. CASE Register(r)
    BY <2>2 DEF Register
  <2>3. CASE ~AbortCall(r) /\ ~Register(r)
    <3>1. /\ UNCHANGED <<status, runOf, endStatus>>
          /\ \A q \in Run : start'[q] \in {"create", "evidence"}
                               => start[q] \in {"create", "evidence"}
      BY <2>3 DEF StartCall, CreateRunDir, CreateRunDirFails,
         EvidenceDirsFail, ProvenanceRead, ProvenanceWrite, LaunchEvent,
         StartLogcat, Announce, StartFails
    <3> QED
      BY <3>1
  <2> QED
    BY <2>1, <2>2, <2>3
<1>2. ASSUME NEW r \in Run,
             \/ TimerFires(r)
             \/ \E s \in Stopper : Report(s) \/ StopCall(s, r)
      PROVE  Holders' \subseteq Holders
  BY <1>2, TaskKinds DEF TimerFires, Report, StopCall, TaskStages
<1>3. ASSUME NEW r \in Run, PollStart(r) \/ PollAnswer(r)
      PROVE  Holders' \subseteq Holders
  BY <1>3 DEF PollStart, PollAnswer
<1>4. ASSUME NEW t \in Task, BeginFinalize(t)
      PROVE  Holders' \subseteq Holders
  <2>1. runOf[t] \in Run
    BY <1>4 DEF BeginFinalize, TaskStages
  <2>2. endStatus'[t] # "none"
    BY <1>4 DEF BeginFinalize, Wanted
  <2>3. /\ \A u \in Task \ {t} : endStatus'[u] = endStatus[u]
        /\ \A q \in Run \ {runOf[t]} : status'[q] = status[q]
        /\ UNCHANGED <<start, runOf>> /\ endStatus[t] = "none"
    BY <1>4 DEF BeginFinalize, TaskStages
  <2> QED
    BY <2>1, <2>2, <2>3
<1>5. ASSUME NEW t \in Task, TeardownSteps(t), ~BeginFinalize(t)
      PROVE  Holders' \subseteq Holders
  <2>1. /\ UNCHANGED <<status, runOf, endStatus>>
        /\ \A q \in Run : start'[q] \in {"create", "evidence"}
                             => start[q] \in {"create", "evidence"}
    BY <1>5, TaskKinds
       DEF TeardownSteps, SkipFinalize, BeginShutdown, EndShutdown, FinalRead,
       FinalWrite, CloseStreams, ReleaseLock, UnlinkLock, Unregister, StartAfterTeardown
  <2> QED
    BY <2>1
<1>6. CASE UNCHANGED vars
  BY <1>6 DEF vars
<1>7. ASSUME NEW s \in Stopper, Report(s)
      PROVE  Holders' \subseteq Holders
  BY <1>7 DEF Report
<1> QED
  BY <1>1, <1>2, <1>3, <1>4, <1>5, <1>6, <1>7 DEF Next

(* Every step of the sessions is a step of the slot.                       *)
LEMMA SlotStep == SessionInv /\ [Next]_vars => [Slot!Next]_(Slot!vars)
<1> SUFFICES ASSUME SessionInv, [Next]_vars
             PROVE  [Slot!Next]_(Slot!vars)
  OBVIOUS
<1>1. ASSUME NEW r \in Run, AcquireLock(r), lock = None
      PROVE  Slot!Grant(r)
  <2>1. Holders = {}
    BY <1>1, ConstantsAssumption
       DEF SessionInv, Holders, LiveSessionIsWhole, StartStages
  <2>2. Holders' = Holders \union {r}
    BY <1>1 DEF AcquireLock, StartMoves, SessionInv, TypeOK, Holders, Unended,
       IsActive, taskVars, sessionVars
  <2> QED
    BY <2>1, <2>2 DEF Slot!Grant
<1>2. ASSUME NEW r \in Run, AcquireLock(r), lock # None
      PROVE  Holders' = Holders
  BY <1>2 DEF AcquireLock, StartMoves, SessionInv, TypeOK, Holders, Unended,
     IsActive, taskVars, sessionVars
<1>3. ASSUME Holders' \subseteq Holders
      PROVE  Slot!Vacate(Holders \ Holders')
  BY <1>3 DEF Slot!Vacate
<1> QED
  BY <1>1, <1>2, <1>3, HoldersShrink DEF Slot!Next

(* One process's sessions implement the tuple slot: one of them at a time, *)
(* from the grant of its lock until its teardown begins, whatever fails    *)
(* and however often devices drop.                                         *)
THEOREM ImplementsSlot == Spec => SlotSpec
<1>1. Init => Slot!Init
  BY DEF Init, Slot!Init, Holders, Unended, IsActive, Live
<1> QED
  BY <1>1, SlotStep, SessionInvariant, PTL DEF Spec, SlotSpec, Slot!Spec

-----------------------------------------------------------------------------
(* How sessions end.  What a step does to one run, one task or one stop    *)
(* call.                                                                   *)

(* A start call that is over, or has only to abort, stays so; one that has *)
(* written the provenance had written it before or does so now.            *)
LEMMA StartGoesOn ==
  ASSUME SessionInv, [Next]_vars, NEW r \in Run
  PROVE  /\ start[r] \in {"aborting", "ok", "failed"}
            => start'[r] \in {"aborting", "ok", "failed"}
         /\ start'[r] \in {"launch", "logcat", "announce", "ok"}
            => \/ start[r] \in {"launch", "logcat", "announce", "ok"}
               \/ start[r] = "patchWrite" /\ meta'[r].provenance
<1> USE ConstantsAssumption, TaskKinds DEF SessionInv, TypeOK, Guarded,
        sessionVars, indexVars, lockVars, taskVars
<1>1. CASE UNCHANGED start
  BY <1>1
<1>2. CASE \E i \in Run : StartCall(i)
  BY <1>2 DEF StartCall, StartMoves
<1>3. CASE \E i \in Run : AcquireLock(i)
  BY <1>3 DEF AcquireLock, StartMoves
<1>4. CASE \E i \in Run : CreateRunDir(i)
  BY <1>4 DEF CreateRunDir, StartMoves
<1>5. CASE \E i \in Run : CreateRunDirFails(i)
  BY <1>5 DEF CreateRunDirFails, FreeLock, StartMoves
<1>6. CASE \E i \in Run : Register(i)
  BY <1>6 DEF Register, StartMoves
<1>7. CASE \E i \in Run : EvidenceDirsFail(i)
  BY <1>7 DEF EvidenceDirsFail, FreeLock, StartMoves
<1>8. CASE \E i \in Run : ProvenanceRead(i)
  BY <1>8 DEF ProvenanceRead, StartMoves
<1>9. CASE \E i \in Run : ProvenanceWrite(i)
  <2> SUFFICES ASSUME NEW q \in Run, ProvenanceWrite(q), q = r
               PROVE  start[r] = "patchWrite" /\ meta'[r].provenance
    BY <1>9 DEF ProvenanceWrite, StartMoves
  <2>1. meta'[r] = [copy[r] EXCEPT !.provenance = TRUE] /\ copy[r] \in Meta
    BY DEF ProvenanceWrite
  <2> QED
    BY <2>1 DEF ProvenanceWrite, StartMoves, Meta
<1>10. CASE \E i \in Run : LaunchEvent(i)
  BY <1>10 DEF LaunchEvent, StartMoves
<1>11. CASE \E i \in Run : StartLogcat(i)
  BY <1>11 DEF StartLogcat, StartMoves
<1>12. CASE \E i \in Run : Announce(i)
  BY <1>12 DEF Announce, StartMoves
<1>13. CASE \E i \in Run : StartFails(i)
  BY <1>13 DEF StartFails
<1>14. CASE \E i \in Task : SkipFinalize(i)
  BY <1>14 DEF SkipFinalize, Unregistered, StartAfterTeardown,
     AfterTeardown, TaskMoves
<1>15. CASE \E i \in Task : Unregister(i)
  BY <1>15 DEF Unregister, Unregistered, StartAfterTeardown, AfterTeardown,
     TaskMoves
<1> QED
  BY <1>1, <1>2, <1>3, <1>4, <1>5, <1>6, <1>7, <1>8, <1>9, <1>10, <1>11,
     <1>12, <1>13, <1>14, <1>15 DEF Next, vars, StartSteps, TeardownSteps,
     AbortCall, TimerFires, PollStart, PollAnswer, StopCall, Report,
     BeginFinalize, BeginShutdown, EndShutdown, FinalRead, FinalWrite,
     CloseStreams, ReleaseLock, UnlinkLock

(* The status of a session that has ended is final.                        *)
LEMMA StatusStays ==
  ASSUME SessionInv, [Next]_vars, NEW r \in Run, status[r] \in Closed
  PROVE  status'[r] = status[r]
<1> USE ConstantsAssumption, TaskKinds DEF SessionInv, TypeOK, StartStages,
        TaskStages, IsActive, Live, Closed, sessionVars, indexVars, lockVars, taskVars
<1>1. CASE UNCHANGED status
  BY <1>1
<1>2. CASE \E i \in Run : Register(i)
  BY <1>2 DEF Register, StartMoves
<1>3. CASE \E i \in Run : PollAnswer(i)
  BY <1>3 DEF PollAnswer
<1>4. CASE \E i \in Task : BeginFinalize(i)
  BY <1>4 DEF BeginFinalize, Wanted, TaskMoves
<1> QED
  BY <1>1, <1>2, <1>3, <1>4 DEF Next, vars, StartSteps, TeardownSteps,
     StartCall, AcquireLock, CreateRunDir, CreateRunDirFails,
     EvidenceDirsFail, ProvenanceRead, ProvenanceWrite, LaunchEvent,
     StartLogcat, Announce, StartFails, AbortCall, TimerFires, PollStart,
     StopCall, Report, SkipFinalize, BeginShutdown, EndShutdown, FinalRead,
     FinalWrite, CloseStreams, ReleaseLock, UnlinkLock, Unregister

(* Its timers stay stopped.                                                *)
LEMMA TimerStays ==
  ASSUME SessionInv, [Next]_vars, NEW r \in Run, status[r] # "none",
         timer[r] = "stopped"
  PROVE  timer'[r] = "stopped"
<1> USE ConstantsAssumption, TaskKinds DEF SessionInv, TypeOK, StartStages,
        TaskStages, sessionVars, indexVars, lockVars, taskVars
<1>1. CASE UNCHANGED timer
  BY <1>1
<1>2. CASE \E i \in Run : Register(i)
  BY <1>2 DEF Register, StartMoves
<1>3. CASE \E i \in Run : TimerFires(i)
  BY <1>3 DEF TimerFires, TaskMoves
<1>4. CASE \E i \in Task : BeginFinalize(i)
  BY <1>4 DEF BeginFinalize, Wanted, TaskMoves
<1> QED
  BY <1>1, <1>2, <1>3, <1>4 DEF Next, vars, StartSteps, TeardownSteps,
     StartCall, AcquireLock, CreateRunDir, CreateRunDirFails,
     EvidenceDirsFail, ProvenanceRead, ProvenanceWrite, LaunchEvent,
     StartLogcat, Announce, StartFails, AbortCall, PollStart, PollAnswer,
     StopCall, Report, SkipFinalize, BeginShutdown, EndShutdown, FinalRead,
     FinalWrite, CloseStreams, ReleaseLock, UnlinkLock, Unregister

(* Its streams stay closed.                                                *)
LEMMA StreamsStay ==
  ASSUME SessionInv, [Next]_vars, NEW r \in Run, status[r] # "none",
         streams[r] = "closed"
  PROVE  streams'[r] = "closed"
<1> USE ConstantsAssumption, TaskKinds DEF SessionInv, TypeOK, StartStages,
        TaskStages, sessionVars, indexVars, lockVars, taskVars
<1>1. CASE UNCHANGED streams
  BY <1>1
<1>2. CASE \E i \in Run : CreateRunDir(i)
  BY <1>2 DEF CreateRunDir, StartMoves
<1>3. CASE \E i \in Run : EvidenceDirsFail(i)
  BY <1>3 DEF EvidenceDirsFail, StartMoves
<1>4. CASE \E i \in Task : CloseStreams(i)
  BY <1>4 DEF CloseStreams, StepMayFail, TaskMoves
<1> QED
  BY <1>1, <1>2, <1>3, <1>4 DEF Next, vars, StartSteps, TeardownSteps,
     StartCall, AcquireLock, CreateRunDirFails, Register, ProvenanceRead,
     ProvenanceWrite, LaunchEvent, StartLogcat, Announce, StartFails,
     AbortCall, TimerFires, PollStart, PollAnswer, StopCall, Report,
     BeginFinalize, SkipFinalize, BeginShutdown, EndShutdown, FinalRead,
     FinalWrite, ReleaseLock, UnlinkLock, Unregister

(* A session that exists is not registered, nor locked, again.             *)
LEMMA StaysUnregistered ==
  ASSUME SessionInv, [Next]_vars, NEW r \in Run, status[r] # "none"
  PROVE  /\ r \notin sessions => r \notin sessions'
         /\ tupleIndex # r => tupleIndex' # r
         /\ lock # r => lock' # r
<1> USE ConstantsAssumption, TaskKinds DEF SessionInv, TypeOK, StartStages,
        TaskStages, sessionVars, indexVars, lockVars, taskVars
<1>1. CASE UNCHANGED <<sessions, tupleIndex, lock>>
  BY <1>1
<1>2. CASE \E i \in Run : AcquireLock(i)
  BY <1>2 DEF AcquireLock, StartMoves
<1>3. CASE \E i \in Run : CreateRunDirFails(i)
  BY <1>3 DEF CreateRunDirFails, FreeLock, StartMoves
<1>4. CASE \E i \in Run : Register(i)
  BY <1>4 DEF Register, StartMoves
<1>5. CASE \E i \in Run : EvidenceDirsFail(i)
  BY <1>5 DEF EvidenceDirsFail, FreeLock, StartMoves
<1>6. CASE \E i \in Task : SkipFinalize(i)
  BY <1>6 DEF SkipFinalize, Unregistered, StartAfterTeardown, AfterTeardown,
     TaskMoves
<1>7. CASE \E i \in Task : UnlinkLock(i)
  BY <1>7 DEF UnlinkLock, TaskMoves
<1>8. CASE \E i \in Task : Unregister(i)
  BY <1>8 DEF Unregister, Unregistered, StartAfterTeardown, AfterTeardown,
     TaskMoves
<1> QED
  BY <1>1, <1>2, <1>3, <1>4, <1>5, <1>6, <1>7, <1>8 DEF Next, vars,
     StartSteps, TeardownSteps, StartCall, CreateRunDir, ProvenanceRead,
     ProvenanceWrite, LaunchEvent, StartLogcat, Announce, StartFails,
     AbortCall, TimerFires, PollStart, PollAnswer, StopCall, Report,
     BeginFinalize, BeginShutdown, EndShutdown, FinalRead, FinalWrite,
     CloseStreams, ReleaseLock

(* A channel is started by its start call alone.                           *)
LEMMA ChannelStays ==
  ASSUME SessionInv, [Next]_vars, NEW r \in Run, start[r] # "logcat",
         logcat[r] # "running"
  PROVE  logcat'[r] # "running"
<1> USE ConstantsAssumption, TaskKinds DEF SessionInv, TypeOK, sessionVars,
        indexVars, lockVars, taskVars
<1>1. CASE UNCHANGED logcat
  BY <1>1
<1>2. CASE \E i \in Run : StartLogcat(i)
  BY <1>2 DEF StartLogcat, StartMoves
<1>3. CASE \E i \in Task : EndShutdown(i)
  BY <1>3 DEF EndShutdown, StepMayFail, TaskMoves
<1> QED
  BY <1>1, <1>2, <1>3 DEF Next, vars, StartSteps, TeardownSteps, StartCall,
     AcquireLock, CreateRunDir, CreateRunDirFails, Register,
     EvidenceDirsFail, ProvenanceRead, ProvenanceWrite, LaunchEvent,
     Announce, StartFails, AbortCall, TimerFires, PollStart, PollAnswer,
     StopCall, Report, BeginFinalize, SkipFinalize, BeginShutdown,
     FinalRead, FinalWrite, CloseStreams, ReleaseLock, UnlinkLock, Unregister

(* Errors, overtaken start calls and spent handles are not forgotten.      *)
LEMMA HistoryGrows ==
  ASSUME [Next]_vars
  PROVE  /\ failed \subseteq failed' /\ overtaken \subseteq overtaken'
         /\ released \subseteq released'
<1> USE ConstantsAssumption, TaskKinds DEF TypeOK, sessionVars, indexVars, lockVars,
        taskVars
<1>1. CASE UNCHANGED <<failed, overtaken, released>>
  BY <1>1
<1>2. CASE \E i \in Task : BeginFinalize(i)
  BY <1>2 DEF BeginFinalize, Wanted, TaskMoves
<1>3. CASE \E i \in Task : EndShutdown(i)
  BY <1>3 DEF EndShutdown, StepMayFail, TaskMoves
<1>4. CASE \E i \in Task : FinalWrite(i)
  BY <1>4 DEF FinalWrite, TaskMoves
<1>5. CASE \E i \in Task : CloseStreams(i)
  BY <1>5 DEF CloseStreams, StepMayFail, TaskMoves
<1>6. CASE \E i \in Task : ReleaseLock(i)
  BY <1>6 DEF ReleaseLock, TaskMoves
<1>7. CASE \E i \in Task : UnlinkLock(i)
  BY <1>7 DEF UnlinkLock, TaskMoves
<1>8. CASE \E i \in Run : CreateRunDirFails(i) \/ EvidenceDirsFail(i)
  BY <1>8 DEF CreateRunDirFails, EvidenceDirsFail, FreeLock, StartMoves
<1> QED
  BY <1>1, <1>2, <1>3, <1>4, <1>5, <1>6, <1>7, <1>8 DEF Next, vars,
     StartSteps, TeardownSteps, StartCall, AcquireLock, CreateRunDir,
     Register, ProvenanceRead, ProvenanceWrite, LaunchEvent, StartLogcat,
     Announce, StartFails, AbortCall, TimerFires, PollStart, PollAnswer,
     StopCall, Report, SkipFinalize, BeginShutdown, FinalRead, Unregister

(* A task that has ended a session keeps to it.                            *)
LEMMA EndsStay ==
  ASSUME SessionInv, [Next]_vars, NEW t \in Task, Ended(t)
  PROVE  runOf'[t] = runOf[t] /\ endStatus'[t] = endStatus[t]
<1> USE ConstantsAssumption, TaskKinds DEF SessionInv, TypeOK, TaskStages,
        Ended, sessionVars, indexVars, lockVars, taskVars
<1>1. CASE UNCHANGED <<runOf, endStatus>>
  BY <1>1
<1>2. CASE \E i \in Run : AbortCall(i)
  BY <1>2 DEF AbortCall, TaskMoves
<1>3. CASE \E i \in Run : TimerFires(i)
  BY <1>3 DEF TimerFires, TaskMoves
<1>4. CASE \E i \in Stopper, j \in Run : StopCall(i, j)
  BY <1>4 DEF StopCall, TaskMoves
<1>5. CASE \E i \in Task : BeginFinalize(i)
  BY <1>5 DEF BeginFinalize, Wanted, TaskMoves
<1> QED
  BY <1>1, <1>2, <1>3, <1>4, <1>5 DEF Next, vars, StartSteps, TeardownSteps,
     StartCall, AcquireLock, CreateRunDir, CreateRunDirFails, Register,
     EvidenceDirsFail, ProvenanceRead, ProvenanceWrite, LaunchEvent,
     StartLogcat, Announce, StartFails, PollStart, PollAnswer, Report,
     SkipFinalize, BeginShutdown, EndShutdown, FinalRead, FinalWrite,
     CloseStreams, ReleaseLock, UnlinkLock, Unregister

(* A task ends a session as it begins to finalize it.                      *)
LEMMA NewEnd ==
  ASSUME SessionInv, [Next]_vars, NEW t \in Task, ~Ended(t), Ended(t)'
  PROVE  /\ runOf[t] \in Run /\ UNCHANGED <<start, runOf, streams, logcat, meta>>
         /\ status[runOf[t]] \in Live
         /\ status'[runOf[t]] = endStatus'[t] /\ timer'[runOf[t]] = "stopped"
         /\ task'[t] = "logcat" /\ UNCHANGED told
         /\ \A u \in Task \ {t} : Ended(u)' = Ended(u)
         /\ start[runOf[t]] \in Starting \ {"aborting"}
               => runOf[t] \in overtaken'
<1> USE ConstantsAssumption, TaskKinds DEF SessionInv, TypeOK, TaskStages,
        Ended, IsActive, sessionVars, indexVars, lockVars, taskVars
<1>1. CASE UNCHANGED endStatus
  BY <1>1
<1>2. CASE \E i \in Task : BeginFinalize(i)
  BY <1>2 DEF BeginFinalize, Wanted, TaskMoves
<1> QED
  BY <1>1, <1>2 DEF Next, vars, StartSteps, TeardownSteps, StartCall,
     AcquireLock, CreateRunDir, CreateRunDirFails, Register,
     EvidenceDirsFail, ProvenanceRead, ProvenanceWrite, LaunchEvent,
     StartLogcat, Announce, StartFails, AbortCall, TimerFires, PollStart,
     PollAnswer, StopCall, Report, SkipFinalize, BeginShutdown, EndShutdown,
     FinalRead, FinalWrite, CloseStreams, ReleaseLock, UnlinkLock, Unregister

(* Once a session exists, its metadata is patched by its start call and by *)
(* its teardowns.                                                          *)
LEMMA MetaSteps ==
  ASSUME SessionInv, [Next]_vars, NEW r \in Run, status[r] # "none",
         start[r] # "patchWrite"
  PROVE  \/ meta'[r] = meta[r]
         \/ \E t \in Task : /\ task[t] = "patchWrite" /\ runOf[t] = r
                            /\ meta'[r] = [copy[t] EXCEPT !.status = endStatus[t]]
<1> USE ConstantsAssumption, TaskKinds DEF SessionInv, TypeOK, StartStages,
        TaskStages, Body, sessionVars, indexVars, lockVars, taskVars
<1>1. CASE UNCHANGED meta
  BY <1>1
<1>2. CASE \E i \in Run : CreateRunDir(i)
  BY <1>2 DEF CreateRunDir, StartMoves
<1>3. CASE \E i \in Run : CreateRunDirFails(i)
  BY <1>3 DEF CreateRunDirFails, StartMoves
<1>4. CASE \E i \in Run : ProvenanceWrite(i)
  BY <1>4 DEF ProvenanceWrite, StartMoves
<1>5. CASE \E i \in Task : FinalWrite(i)
  <2> PICK t \in Task : FinalWrite(t)
    BY <1>5
  <2>1. /\ task[t] = "patchWrite"
        /\ \/ meta' = meta
           \/ meta' = [meta EXCEPT ![runOf[t]] = [copy[t] EXCEPT !.status = endStatus[t]]]
    BY Zenon DEF FinalWrite, TaskMoves
  <2>2. CASE meta' = meta
    BY <2>2
  <2>3. CASE runOf[t] # r
    BY <2>1, <2>3
  <2>4. ASSUME runOf[t] = r,
               meta' = [meta EXCEPT ![r] = [copy[t] EXCEPT !.status = endStatus[t]]]
        PROVE  meta'[r] = [copy[t] EXCEPT !.status = endStatus[t]]
    BY <2>4
  <2> QED
    BY <2>1, <2>2, <2>3, <2>4
<1> QED
  BY <1>1, <1>2, <1>3, <1>4, <1>5 DEF Next, vars, StartSteps, TeardownSteps,
     StartCall, AcquireLock, Register, EvidenceDirsFail, ProvenanceRead,
     LaunchEvent, StartLogcat, Announce, StartFails, AbortCall, TimerFires,
     PollStart, PollAnswer, StopCall, Report, BeginFinalize, SkipFinalize,
     BeginShutdown, EndShutdown, FinalRead, CloseStreams, ReleaseLock, UnlinkLock,
     Unregister

(* A teardown patches what it has read.                                    *)
LEMMA CopySteps ==
  ASSUME SessionInv, [Next]_vars, NEW t \in Task, task'[t] = "patchWrite"
  PROVE  \/ task[t] = "patchWrite" /\ copy'[t] = copy[t]
         \/ task[t] = "patchRead" /\ copy'[t] = meta[runOf[t]] /\ UNCHANGED meta
<1> USE ConstantsAssumption, TaskKinds DEF SessionInv, TypeOK, vars,
        AfterTeardown, Body, sessionVars, indexVars, lockVars, taskVars
<1>1. CASE UNCHANGED vars
  BY <1>1
<1>2. CASE \E i \in Run : StartCall(i)
  BY <1>2 DEF StartCall, StartMoves
<1>3. CASE \E i \in Run : AcquireLock(i)
  BY <1>3 DEF AcquireLock, StartMoves
<1>4. CASE \E i \in Run : CreateRunDir(i)
  BY <1>4 DEF CreateRunDir, StartMoves
<1>5. CASE \E i \in Run : CreateRunDirFails(i)
  BY <1>5 DEF CreateRunDirFails, FreeLock, StartMoves
<1>6. CASE \E i \in Run : Register(i)
  BY <1>6 DEF Register, StartMoves
<1>7. CASE \E i \in Run : EvidenceDirsFail(i)
  BY <1>7 DEF EvidenceDirsFail, FreeLock, StartMoves
<1>8. CASE \E i \in Run : ProvenanceRead(i)
  BY <1>8 DEF ProvenanceRead, StartMoves
<1>9. CASE \E i \in Run : ProvenanceWrite(i)
  BY <1>9 DEF ProvenanceWrite, StartMoves
<1>10. CASE \E i \in Run : LaunchEvent(i)
  BY <1>10 DEF LaunchEvent, StartMoves
<1>11. CASE \E i \in Run : StartLogcat(i)
  BY <1>11 DEF StartLogcat, StartMoves
<1>12. CASE \E i \in Run : Announce(i)
  BY <1>12 DEF Announce, StartMoves
<1>13. CASE \E i \in Run : StartFails(i)
  BY <1>13 DEF StartFails
<1>14. CASE \E i \in Run : AbortCall(i)
  BY <1>14 DEF AbortCall, TaskMoves
<1>15. CASE \E i \in Run : TimerFires(i)
  BY <1>15 DEF TimerFires, TaskMoves
<1>16. CASE \E i \in Run : PollStart(i)
  BY <1>16 DEF PollStart
<1>17. CASE \E i \in Run : PollAnswer(i)
  BY <1>17 DEF PollAnswer
<1>18. CASE \E i \in Stopper, j \in Run : StopCall(i, j)
  BY <1>18 DEF StopCall, TaskMoves
<1>19. CASE \E i \in Stopper : Report(i)
  BY <1>19 DEF Report, TaskMoves
<1>20. CASE \E i \in Task : BeginFinalize(i)
  BY <1>20 DEF BeginFinalize, Wanted, TaskMoves
<1>21. CASE \E i \in Task : SkipFinalize(i)
  BY <1>21 DEF SkipFinalize, Unregistered, StartAfterTeardown,
     AfterTeardown, TaskMoves
<1>22. CASE \E i \in Task : BeginShutdown(i)
  BY <1>22 DEF BeginShutdown, TaskMoves
<1>23. CASE \E i \in Task : EndShutdown(i)
  BY <1>23 DEF EndShutdown, StepMayFail, TaskMoves
<1>24. CASE \E i \in Task : FinalRead(i)
  BY <1>24 DEF FinalRead, TaskMoves
<1>25. CASE \E i \in Task : FinalWrite(i)
  BY <1>25 DEF FinalWrite, TaskMoves
<1>26. CASE \E i \in Task : CloseStreams(i)
  BY <1>26 DEF CloseStreams, StepMayFail, TaskMoves
<1>27. CASE \E i \in Task : ReleaseLock(i)
  BY <1>27 DEF ReleaseLock, TaskMoves
<1>28. CASE \E i \in Task : Unregister(i)
  BY <1>28 DEF Unregister, Unregistered, StartAfterTeardown, AfterTeardown,
     TaskMoves
<1>29. CASE \E i \in Task : UnlinkLock(i)
  BY <1>29 DEF UnlinkLock, TaskMoves
<1> QED
  BY <1>1, <1>2, <1>3, <1>4, <1>5, <1>6, <1>7, <1>8, <1>9, <1>10, <1>11,
     <1>12, <1>13, <1>14, <1>15, <1>16, <1>17, <1>18, <1>19, <1>20, <1>21,
     <1>22, <1>23, <1>24, <1>25, <1>26, <1>27, <1>28, <1>29 DEF Next,
     vars, StartSteps, TeardownSteps

(* A stop answers with the status on disk, and only then.                  *)
LEMMA ToldSteps ==
  ASSUME SessionInv, [Next]_vars, NEW s \in Stopper
  PROVE  \/ told'[s] = told[s]
         \/ /\ task[s] = "report" /\ task'[s] = "done"
            /\ told'[s] = meta[runOf[s]].status /\ UNCHANGED <<meta, failed>>
<1> USE ConstantsAssumption, TaskKinds DEF SessionInv, TypeOK, sessionVars,
        indexVars, lockVars, taskVars
<1>1. CASE UNCHANGED told
  BY <1>1
<1>2. CASE \E i \in Stopper : Report(i)
  BY <1>2 DEF Report, TaskMoves
<1> QED
  BY <1>1, <1>2 DEF Next, vars, StartSteps, TeardownSteps, StartCall,
     AcquireLock, CreateRunDir, CreateRunDirFails, Register,
     EvidenceDirsFail, ProvenanceRead, ProvenanceWrite, LaunchEvent,
     StartLogcat, Announce, StartFails, AbortCall, TimerFires, PollStart,
     PollAnswer, StopCall, BeginFinalize, SkipFinalize, BeginShutdown,
     EndShutdown, FinalRead, FinalWrite, CloseStreams, ReleaseLock, UnlinkLock,
     Unregister

(* A teardown goes through the steps of finalize in their order, with      *)
(* their effects.                                                          *)
LEMMA TaskPath ==
  ASSUME SessionInv, [Next]_vars, NEW t \in Task, Ended(t)
  PROVE  LET r == runOf[t]
         IN  \/ task'[t] = task[t]
             \/ task[t] = "logcat" /\ task'[t] = "shutdown"
             \/ task[t] = "logcat" /\ task'[t] = "patchRead" /\ logcat'[r] = "none"
             \/ task[t] = "shutdown" /\ task'[t] = "patchRead" /\ logcat'[r] = "down"
             \/ task[t] = "patchRead" /\ task'[t] = "patchWrite"
             \/ /\ task[t] = "patchWrite" /\ task'[t] = "close"
                /\ \/ meta'[r] = [copy[t] EXCEPT !.status = endStatus[t]]
                   \/ t \in failed'
             \/ task[t] = "close" /\ task'[t] = "release" /\ streams'[r] = "closed"
             \/ task[t] = "release" /\ task'[t] \in {"unlink", "unregister"}
             \/ task[t] = "unlink" /\ task'[t] = "unregister"
             \/ /\ task[t] = "unregister" /\ task'[t] \in {"report", "done"}
                /\ r \notin sessions' /\ tupleIndex' # r
                /\ task'[t] = "report" => t \notin failed'
             \/ task[t] = "report" /\ task'[t] = "done"
<1> USE ConstantsAssumption, TaskKinds DEF SessionInv, TypeOK, TaskStages,
        Ended, Body, vars, sessionVars, indexVars, lockVars, taskVars
<1>1. CASE UNCHANGED vars
  BY <1>1
<1>2. CASE \E i \in Run : StartCall(i)
  BY <1>2 DEF StartCall, StartMoves
<1>3. CASE \E i \in Run : AcquireLock(i)
  BY <1>3 DEF AcquireLock, StartMoves
<1>4. CASE \E i \in Run : CreateRunDir(i)
  BY <1>4 DEF CreateRunDir, StartMoves
<1>5. CASE \E i \in Run : CreateRunDirFails(i)
  BY <1>5 DEF CreateRunDirFails, FreeLock, StartMoves
<1>6. CASE \E i \in Run : Register(i)
  BY <1>6 DEF Register, StartMoves
<1>7. CASE \E i \in Run : EvidenceDirsFail(i)
  BY <1>7 DEF EvidenceDirsFail, FreeLock, StartMoves
<1>8. CASE \E i \in Run : ProvenanceRead(i)
  BY <1>8 DEF ProvenanceRead, StartMoves
<1>9. CASE \E i \in Run : ProvenanceWrite(i)
  BY <1>9 DEF ProvenanceWrite, StartMoves
<1>10. CASE \E i \in Run : LaunchEvent(i)
  BY <1>10 DEF LaunchEvent, StartMoves
<1>11. CASE \E i \in Run : StartLogcat(i)
  BY <1>11 DEF StartLogcat, StartMoves
<1>12. CASE \E i \in Run : Announce(i)
  BY <1>12 DEF Announce, StartMoves
<1>13. CASE \E i \in Run : StartFails(i)
  BY <1>13 DEF StartFails
<1>14. CASE \E i \in Run : AbortCall(i)
  BY <1>14 DEF AbortCall, TaskMoves
<1>15. CASE \E i \in Run : TimerFires(i)
  BY <1>15 DEF TimerFires, TaskMoves
<1>16. CASE \E i \in Run : PollStart(i)
  BY <1>16 DEF PollStart
<1>17. CASE \E i \in Run : PollAnswer(i)
  BY <1>17 DEF PollAnswer
<1>18. CASE \E i \in Stopper, j \in Run : StopCall(i, j)
  BY <1>18 DEF StopCall, TaskMoves
<1>19. CASE \E i \in Stopper : Report(i)
  BY <1>19 DEF Report, TaskMoves
<1>20. CASE \E i \in Task : BeginFinalize(i)
  BY <1>20 DEF BeginFinalize, Wanted, TaskMoves
<1>21. CASE \E i \in Task : SkipFinalize(i)
  BY <1>21 DEF SkipFinalize, Unregistered, StartAfterTeardown,
     AfterTeardown, TaskMoves
<1>22. CASE \E i \in Task : BeginShutdown(i)
  BY <1>22 DEF BeginShutdown, TaskMoves
<1>23. CASE \E i \in Task : EndShutdown(i)
  BY <1>23 DEF EndShutdown, StepMayFail, TaskMoves
<1>24. CASE \E i \in Task : FinalRead(i)
  BY <1>24 DEF FinalRead, TaskMoves
<1>25. CASE \E i \in Task : FinalWrite(i)
  BY <1>25 DEF FinalWrite, TaskMoves
<1>26. CASE \E i \in Task : CloseStreams(i)
  BY <1>26 DEF CloseStreams, StepMayFail, TaskMoves
<1>27. CASE \E i \in Task : ReleaseLock(i)
  BY <1>27 DEF ReleaseLock, TaskMoves
<1>28. CASE \E i \in Task : Unregister(i)
  BY <1>28 DEF Unregister, Unregistered, StartAfterTeardown, AfterTeardown,
     TaskMoves
<1>29. CASE \E i \in Task : UnlinkLock(i)
  BY <1>29 DEF UnlinkLock, TaskMoves
<1> QED
  BY <1>1, <1>2, <1>3, <1>4, <1>5, <1>6, <1>7, <1>8, <1>9, <1>10, <1>11,
     <1>12, <1>13, <1>14, <1>15, <1>16, <1>17, <1>18, <1>19, <1>20, <1>21,
     <1>22, <1>23, <1>24, <1>25, <1>26, <1>27, <1>28, <1>29 DEF Next,
     vars, StartSteps, TeardownSteps

(* A task that is done stays so, and meets no more errors.                 *)
LEMMA DoneStays ==
  ASSUME SessionInv, [Next]_vars, NEW t \in Task, task[t] = "done"
  PROVE  task'[t] = "done" /\ (t \in failed' => t \in failed)
<1> USE ConstantsAssumption, TaskKinds DEF SessionInv, TypeOK, vars,
        sessionVars, indexVars, lockVars, taskVars
<1>1. CASE UNCHANGED vars
  BY <1>1
<1>2. CASE \E i \in Run : StartCall(i)
  BY <1>2 DEF StartCall, StartMoves
<1>3. CASE \E i \in Run : AcquireLock(i)
  BY <1>3 DEF AcquireLock, StartMoves
<1>4. CASE \E i \in Run : CreateRunDir(i)
  BY <1>4 DEF CreateRunDir, StartMoves
<1>5. CASE \E i \in Run : CreateRunDirFails(i)
  BY <1>5 DEF CreateRunDirFails, FreeLock, StartMoves
<1>6. CASE \E i \in Run : Register(i)
  BY <1>6 DEF Register, StartMoves
<1>7. CASE \E i \in Run : EvidenceDirsFail(i)
  BY <1>7 DEF EvidenceDirsFail, FreeLock, StartMoves
<1>8. CASE \E i \in Run : ProvenanceRead(i)
  BY <1>8 DEF ProvenanceRead, StartMoves
<1>9. CASE \E i \in Run : ProvenanceWrite(i)
  BY <1>9 DEF ProvenanceWrite, StartMoves
<1>10. CASE \E i \in Run : LaunchEvent(i)
  BY <1>10 DEF LaunchEvent, StartMoves
<1>11. CASE \E i \in Run : StartLogcat(i)
  BY <1>11 DEF StartLogcat, StartMoves
<1>12. CASE \E i \in Run : Announce(i)
  BY <1>12 DEF Announce, StartMoves
<1>13. CASE \E i \in Run : StartFails(i)
  BY <1>13 DEF StartFails
<1>14. CASE \E i \in Run : AbortCall(i)
  BY <1>14 DEF AbortCall, TaskMoves
<1>15. CASE \E i \in Run : TimerFires(i)
  BY <1>15 DEF TimerFires, TaskMoves
<1>16. CASE \E i \in Run : PollStart(i)
  BY <1>16 DEF PollStart
<1>17. CASE \E i \in Run : PollAnswer(i)
  BY <1>17 DEF PollAnswer
<1>18. CASE \E i \in Stopper, j \in Run : StopCall(i, j)
  BY <1>18 DEF StopCall, TaskMoves
<1>19. CASE \E i \in Stopper : Report(i)
  BY <1>19 DEF Report, TaskMoves
<1>20. CASE \E i \in Task : BeginFinalize(i)
  BY <1>20 DEF BeginFinalize, Wanted, TaskMoves
<1>21. CASE \E i \in Task : SkipFinalize(i)
  BY <1>21 DEF SkipFinalize, Unregistered, StartAfterTeardown,
     AfterTeardown, TaskMoves
<1>22. CASE \E i \in Task : BeginShutdown(i)
  BY <1>22 DEF BeginShutdown, TaskMoves
<1>23. CASE \E i \in Task : EndShutdown(i)
  BY <1>23 DEF EndShutdown, StepMayFail, TaskMoves
<1>24. CASE \E i \in Task : FinalRead(i)
  BY <1>24 DEF FinalRead, TaskMoves
<1>25. CASE \E i \in Task : FinalWrite(i)
  BY <1>25 DEF FinalWrite, TaskMoves
<1>26. CASE \E i \in Task : CloseStreams(i)
  BY <1>26 DEF CloseStreams, StepMayFail, TaskMoves
<1>27. CASE \E i \in Task : ReleaseLock(i)
  BY <1>27 DEF ReleaseLock, TaskMoves
<1>28. CASE \E i \in Task : Unregister(i)
  BY <1>28 DEF Unregister, Unregistered, StartAfterTeardown, AfterTeardown,
     TaskMoves
<1>29. CASE \E i \in Task : UnlinkLock(i)
  BY <1>29 DEF UnlinkLock, TaskMoves
<1> QED
  BY <1>1, <1>2, <1>3, <1>4, <1>5, <1>6, <1>7, <1>8, <1>9, <1>10, <1>11,
     <1>12, <1>13, <1>14, <1>15, <1>16, <1>17, <1>18, <1>19, <1>20, <1>21,
     <1>22, <1>23, <1>24, <1>25, <1>26, <1>27, <1>28, <1>29 DEF Next,
     vars, StartSteps, TeardownSteps

(* A stop whose teardown met an error has no status to report.             *)
LEMMA ReportsAreClean ==
  ASSUME SessionInv, [Next]_vars, NEW s \in Stopper, task'[s] = "report"
  PROVE  s \notin failed' \/ (task[s] = "report" /\ failed' \subseteq failed \union (Task \ {s}))
<1> USE ConstantsAssumption, TaskKinds DEF SessionInv, TypeOK, vars,
        sessionVars, indexVars, lockVars, taskVars
<1>1. CASE UNCHANGED vars
  BY <1>1
<1>2. CASE \E i \in Run : StartCall(i)
  BY <1>2 DEF StartCall, StartMoves
<1>3. CASE \E i \in Run : AcquireLock(i)
  BY <1>3 DEF AcquireLock, StartMoves
<1>4. CASE \E i \in Run : CreateRunDir(i)
  BY <1>4 DEF CreateRunDir, StartMoves
<1>5. CASE \E i \in Run : CreateRunDirFails(i)
  BY <1>5 DEF CreateRunDirFails, FreeLock, StartMoves
<1>6. CASE \E i \in Run : Register(i)
  BY <1>6 DEF Register, StartMoves
<1>7. CASE \E i \in Run : EvidenceDirsFail(i)
  BY <1>7 DEF EvidenceDirsFail, FreeLock, StartMoves
<1>8. CASE \E i \in Run : ProvenanceRead(i)
  BY <1>8 DEF ProvenanceRead, StartMoves
<1>9. CASE \E i \in Run : ProvenanceWrite(i)
  BY <1>9 DEF ProvenanceWrite, StartMoves
<1>10. CASE \E i \in Run : LaunchEvent(i)
  BY <1>10 DEF LaunchEvent, StartMoves
<1>11. CASE \E i \in Run : StartLogcat(i)
  BY <1>11 DEF StartLogcat, StartMoves
<1>12. CASE \E i \in Run : Announce(i)
  BY <1>12 DEF Announce, StartMoves
<1>13. CASE \E i \in Run : StartFails(i)
  BY <1>13 DEF StartFails
<1>14. CASE \E i \in Run : AbortCall(i)
  BY <1>14 DEF AbortCall, TaskMoves
<1>15. CASE \E i \in Run : TimerFires(i)
  BY <1>15 DEF TimerFires, TaskMoves
<1>16. CASE \E i \in Run : PollStart(i)
  BY <1>16 DEF PollStart
<1>17. CASE \E i \in Run : PollAnswer(i)
  BY <1>17 DEF PollAnswer
<1>18. CASE \E i \in Stopper, j \in Run : StopCall(i, j)
  BY <1>18 DEF StopCall, TaskMoves
<1>19. CASE \E i \in Stopper : Report(i)
  BY <1>19 DEF Report, TaskMoves
<1>20. CASE \E i \in Task : BeginFinalize(i)
  BY <1>20 DEF BeginFinalize, Wanted, TaskMoves
<1>21. CASE \E i \in Task : SkipFinalize(i)
  BY <1>21 DEF SkipFinalize, Unregistered, StartAfterTeardown,
     AfterTeardown, TaskMoves
<1>22. CASE \E i \in Task : BeginShutdown(i)
  BY <1>22 DEF BeginShutdown, TaskMoves
<1>23. CASE \E i \in Task : EndShutdown(i)
  BY <1>23 DEF EndShutdown, StepMayFail, TaskMoves
<1>24. CASE \E i \in Task : FinalRead(i)
  BY <1>24 DEF FinalRead, TaskMoves
<1>25. CASE \E i \in Task : FinalWrite(i)
  BY <1>25 DEF FinalWrite, TaskMoves
<1>26. CASE \E i \in Task : CloseStreams(i)
  BY <1>26 DEF CloseStreams, StepMayFail, TaskMoves
<1>27. CASE \E i \in Task : ReleaseLock(i)
  BY <1>27 DEF ReleaseLock, TaskMoves
<1>28. CASE \E i \in Task : Unregister(i)
  BY <1>28 DEF Unregister, Unregistered, StartAfterTeardown, AfterTeardown,
     TaskMoves
<1>29. CASE \E i \in Task : UnlinkLock(i)
  BY <1>29 DEF UnlinkLock, TaskMoves
<1> QED
  BY <1>1, <1>2, <1>3, <1>4, <1>5, <1>6, <1>7, <1>8, <1>9, <1>10, <1>11,
     <1>12, <1>13, <1>14, <1>15, <1>16, <1>17, <1>18, <1>19, <1>20, <1>21,
     <1>22, <1>23, <1>24, <1>25, <1>26, <1>27, <1>28, <1>29 DEF Next,
     vars, StartSteps, TeardownSteps

-----------------------------------------------------------------------------
(* One lemma for each part of EndingInv: every step keeps it.            *)

(* A teardown that begins while the start call is still at work has        *)
(* overtaken it.                                                           *)
LEMMA StartsAreOverStep ==
  ASSUME SessionInv, EndingInv, [Next]_vars
  PROVE  StartsAreOver'
<1> USE DEF EndingInv
<1> SUFFICES ASSUME NEW t \in Task, Ended(t)', runOf'[t] \notin overtaken'
             PROVE  start'[runOf'[t]] \in {"aborting", "ok", "failed"}
  BY DEF StartsAreOver
<1>1. CASE Ended(t)
  <2>1. runOf'[t] = runOf[t] /\ runOf[t] \notin overtaken /\ runOf[t] \in Run
    BY <1>1, EndsStay, HistoryGrows DEF SessionInv, TaskStages, Ended
  <2>2. start[runOf[t]] \in {"aborting", "ok", "failed"}
    BY <1>1, <2>1 DEF StartsAreOver
  <2> QED
    BY <2>1, <2>2, StartGoesOn
<1>2. CASE ~Ended(t)
  <2>1. /\ runOf'[t] = runOf[t] /\ runOf[t] \in Run /\ start' = start
        /\ status[runOf[t]] # "none"
        /\ start[runOf[t]] \notin Starting \ {"aborting"}
    BY <1>2, NewEnd DEF Live
  <2> QED
    BY <2>1 DEF SessionInv, TypeOK, StartStages
<1> QED
  BY <1>1, <1>2

(* A task that has ended a session works on a run.                         *)
LEMMA EndedRun ==
  ASSUME SessionInv, EndsAgree, NEW t \in Task, Ended(t)
  PROVE  /\ runOf[t] \in Run /\ status[runOf[t]] \in Closed
         /\ status[runOf[t]] # "none"
BY DEF SessionInv, TypeOK, TaskStages, Ended, EndsAgree, Closed

(* The status a session ends with is not changed by another that ends it.  *)
LEMMA EndsAgreeStep ==
  ASSUME SessionInv, EndingInv, [Next]_vars
  PROVE  EndsAgree'
<1> USE DEF EndingInv
<1>1. ASSUME NEW t \in Task, Ended(t)'
      PROVE  status'[runOf'[t]] = endStatus'[t] /\ timer'[runOf'[t]] = "stopped"
  <2>1. CASE Ended(t)
    BY <2>1, EndsStay, EndedRun, StatusStays, TimerStays DEF EndsAgree
  <2>2. CASE ~Ended(t)
    BY <1>1, <2>2, NewEnd
  <2> QED
    BY <2>1, <2>2
<1>2. ASSUME NEW t \in Task, NEW u \in Task, Ended(t)', Ended(u)', t # u,
             runOf'[t] = runOf'[u], Ended(u)
      PROVE  status'[runOf'[t]] = "degraded"
  <2>1. /\ runOf'[u] = runOf[u] /\ runOf[u] \in Run
        /\ status[runOf[u]] \in Closed
    BY <1>2, EndsStay, EndedRun
  <2>2. status[runOf[u]] = "degraded"
    <3>1. CASE Ended(t)
      <4>1. runOf[t] = runOf[u]
        BY <1>2, <2>1, <3>1, EndsStay
      <4> QED
        BY <1>2, <3>1, <4>1 DEF EndsAgree
    <3>2. CASE ~Ended(t)
      <4>1. runOf[t] = runOf[u] /\ status[runOf[t]] \in Live
        BY <1>2, <2>1, <3>2, NewEnd
      <4> QED
        BY <2>1, <4>1 DEF Live, Closed
    <3> QED
      BY <3>1, <3>2
  <2> QED
    BY <1>2, <2>1, <2>2, StatusStays
<1>3. ASSUME NEW t \in Task, NEW u \in Task, Ended(t)', Ended(u)', t # u
      PROVE  Ended(t) \/ Ended(u)
  BY <1>3, NewEnd
<1> QED
  BY <1>1, <1>2, <1>3 DEF EndsAgree

(* What finalize's steps have done is not undone, for the start call is    *)
(* over and whoever else tears the session down does the same.             *)
LEMMA StepsStayStep ==
  ASSUME SessionInv, EndingInv, [Next]_vars
  PROVE  StepsStay'
<1> USE DEF EndingInv
<1> SUFFICES ASSUME NEW t \in Task, Ended(t)'
             PROVE  LET r == runOf'[t] IN
               /\ task'[t] \in Body \union {"report", "done"}
               /\ task'[t] \notin {"logcat", "shutdown"} /\ r \notin overtaken'
                    => logcat'[r] # "running"
               /\ /\ task'[t] \notin {"logcat", "shutdown", "patchRead", "patchWrite"}
                  /\ t \notin failed' /\ r \notin overtaken'
                  => meta'[r].status = endStatus'[t]
               /\ task'[t] \in {"release", "unlink", "unregister", "report",
                                "done"} => streams'[r] = "closed"
               /\ task'[t] \in {"report", "done"} =>
                    r \notin sessions' /\ tupleIndex' # r /\ r \in released'
  BY DEF StepsStay
<1>1. CASE ~Ended(t)
  BY <1>1, NewEnd DEF Body
<1>2. CASE Ended(t)
  <2> DEFINE r == runOf[t]
  <2>1. /\ r \in Run /\ status[r] # "none" /\ runOf'[t] = r
        /\ endStatus'[t] = endStatus[t]
        /\ failed \subseteq failed' /\ overtaken \subseteq overtaken'
    BY <1>2, EndsStay, EndedRun, HistoryGrows
  <2>2. r \notin overtaken => start[r] \in {"aborting", "ok", "failed"}
    BY <1>2 DEF StartsAreOver
  <2>3. task'[t] \in Body \union {"report", "done"}
    BY <1>2, TaskPath DEF StepsStay, Body
  <2>4. ASSUME task'[t] \notin {"logcat", "shutdown"}, r \notin overtaken'
        PROVE  logcat'[r] # "running"
    <3>1. CASE task[t] \in {"logcat", "shutdown"}
      BY <1>2, <2>4, <3>1, TaskPath
    <3>2. CASE task[t] \notin {"logcat", "shutdown"}
      BY <1>2, <2>1, <2>2, <2>4, <3>2, ChannelStays DEF StepsStay
    <3> QED
      BY <3>1, <3>2
  <2>5. ASSUME task'[t] \notin {"logcat", "shutdown", "patchRead", "patchWrite"},
               t \notin failed', r \notin overtaken'
        PROVE  meta'[r].status = endStatus[t]
    <3>1. ASSUME NEW u \in Task, runOf[u] = r, task[u] = "patchWrite",
                 meta'[r] = [copy[u] EXCEPT !.status = endStatus[u]]
          PROVE  meta'[r].status = endStatus[t]
      <4>1. Ended(u) /\ copy[u] \in Meta
        BY <3>1 DEF SessionInv, TypeOK, TaskStages, Ended, Body
      <4>2. endStatus[u] = endStatus[t]
        BY <1>2, <3>1, <4>1 DEF EndsAgree
      <4> QED
        BY <3>1, <4>1, <4>2 DEF Meta
    <3>2. CASE task[t] \notin {"logcat", "shutdown", "patchRead", "patchWrite"}
      <4>1. meta[r].status = endStatus[t]
        BY <1>2, <2>1, <2>5, <3>2 DEF StepsStay
      <4> QED
        BY <2>1, <2>2, <2>5, <3>1, <4>1, MetaSteps
    <3>3. CASE task[t] \in {"logcat", "shutdown", "patchRead", "patchWrite"}
      <4>1. /\ task[t] = "patchWrite"
            /\ meta'[r] = [copy[t] EXCEPT !.status = endStatus[t]]
        BY <1>2, <2>5, <3>3, TaskPath
      <4> QED
        BY <3>1, <4>1
    <3> QED
      BY <3>2, <3>3
  <2>6. ASSUME task'[t] \in {"release", "unlink", "unregister", "report",
                             "done"}
        PROVE  streams'[r] = "closed"
    <3> DEFINE Past == {"release", "unlink", "unregister", "report", "done"}
    <3>1. CASE task[t] \in Past
      BY <1>2, <2>1, <3>1, StreamsStay DEF StepsStay
    <3>2. CASE task[t] \notin Past
      BY <1>2, <2>6, <3>2, TaskPath
    <3> QED
      BY <3>1, <3>2
  <2>7. ASSUME task'[t] \in {"report", "done"}
        PROVE  r \notin sessions' /\ tupleIndex' # r /\ r \in released'
    <3>1. CASE task[t] \in {"report", "done"}
      BY <1>2, <2>1, <3>1, StaysUnregistered, HistoryGrows DEF StepsStay
    <3>2. CASE task[t] \notin {"report", "done"}
      <4>1. task[t] = "unregister"
        BY <1>2, <2>7, <3>2, TaskPath
      <4>2. r \in released'
        BY <4>1, HistoryGrows DEF SessionInv, TaskStages
      <4> QED
        BY <1>2, <2>7, <4>1, <4>2, TaskPath
    <3> QED
      BY <3>1, <3>2
  <2> QED
    BY <2>1, <2>3, <2>4, <2>5, <2>6, <2>7
<1> QED
  BY <1>1, <1>2

(* Whatever patches the metadata of a run that was not overtaken has read  *)
(* what its start call had written.                                        *)
LEMMA ProvenanceKeptStep ==
  ASSUME SessionInv, EndingInv, [Next]_vars
  PROVE  ProvenanceKept'
<1> USE DEF EndingInv
<1> SUFFICES ASSUME NEW r \in Run, r \notin overtaken',
                    start'[r] \in {"launch", "logcat", "announce", "ok"}
             PROVE  /\ meta'[r].provenance
                    /\ \A t \in Task : runOf'[t] = r /\ task'[t] = "patchWrite"
                          => copy'[t].provenance
  BY DEF ProvenanceKept
<1>1. r \notin overtaken
  BY HistoryGrows
<1>2. ASSUME NEW t \in Task, task[t] \in {"patchRead", "patchWrite"}, runOf'[t] = r
      PROVE  /\ Ended(t) /\ runOf[t] = r
             /\ start[r] \in {"aborting", "ok", "failed"}
  <2>1. Ended(t)
    BY <1>2 DEF SessionInv, TaskStages, Ended, Body
  <2>2. runOf[t] = r
    BY <1>2, <2>1, EndsStay
  <2> QED
    BY <1>1, <2>1, <2>2 DEF StartsAreOver
<1>3. CASE start[r] = "patchWrite" /\ meta'[r].provenance
  <2>1. ASSUME NEW t \in Task, runOf'[t] = r, task'[t] = "patchWrite"
        PROVE  FALSE
    BY <1>2, <1>3, <2>1, CopySteps
  <2> QED
    BY <1>3, <2>1
<1>4. CASE start[r] \in {"launch", "logcat", "announce", "ok"}
  <2>1. /\ meta[r].provenance /\ meta[r] \in Meta
        /\ \A t \in Task : runOf[t] = r /\ task[t] = "patchWrite"
              => copy[t].provenance /\ copy[t] \in Meta
    BY <1>1, <1>4 DEF ProvenanceKept, SessionInv, TypeOK
  <2>2. meta'[r].provenance
    <3>1. status[r] # "none"
      BY <1>4 DEF SessionInv, StartStages, Guarded
    <3>2. CASE meta'[r] = meta[r]
      BY <2>1, <3>2
    <3>3. CASE \E t \in Task :
                  /\ task[t] = "patchWrite" /\ runOf[t] = r
                  /\ meta'[r] = [copy[t] EXCEPT !.status = endStatus[t]]
      BY <2>1, <3>3 DEF Meta
    <3> QED
      BY <1>4, <3>1, <3>2, <3>3, MetaSteps
  <2>3. ASSUME NEW t \in Task, runOf'[t] = r, task'[t] = "patchWrite"
        PROVE  copy'[t].provenance
    <3>1. CASE task[t] = "patchWrite" /\ copy'[t] = copy[t]
      BY <1>2, <2>1, <2>3, <3>1
    <3>2. CASE task[t] = "patchRead" /\ copy'[t] = meta[runOf[t]]
      BY <1>2, <2>1, <2>3, <3>2
    <3> QED
      BY <2>3, <3>1, <3>2, CopySteps
  <2> QED
    BY <2>2, <2>3
<1> QED
  BY <1>3, <1>4, StartGoesOn

(* An answer is what metadata.json said once finalize was through.         *)
LEMMA AnswersKeptStep ==
  ASSUME SessionInv, EndingInv, [Next]_vars
  PROVE  AnswersKept'
<1> USE TaskKinds DEF EndingInv
<1> SUFFICES ASSUME NEW s \in Stopper
             PROVE  /\ task'[s] = "report" => s \notin failed'
                    /\ told'[s] # "none" => task'[s] = "done" /\ s \notin failed'
                    /\ told'[s] # "none" /\ Ended(s)' /\ runOf'[s] \notin overtaken'
                          => told'[s] = endStatus'[s]
  BY DEF AnswersKept
<1>1. task'[s] = "report" => s \notin failed'
  BY ReportsAreClean DEF AnswersKept
<1>2. told'[s] # "none" => task'[s] = "done" /\ s \notin failed'
  BY ToldSteps, DoneStays DEF AnswersKept
<1>3. ASSUME told'[s] # "none", Ended(s)', runOf'[s] \notin overtaken'
      PROVE  told'[s] = endStatus'[s]
  <2>1. Ended(s)
    BY <1>2, <1>3, NewEnd
  <2>2. /\ runOf'[s] = runOf[s] /\ endStatus'[s] = endStatus[s]
        /\ runOf[s] \notin overtaken
    BY <1>3, <2>1, EndsStay, HistoryGrows
  <2>3. CASE told'[s] = told[s]
    BY <1>3, <2>1, <2>2, <2>3 DEF AnswersKept
  <2>4. CASE task[s] = "report" /\ told'[s] = meta[runOf[s]].status
    BY <2>1, <2>2, <2>4 DEF AnswersKept, StepsStay
  <2> QED
    BY <2>3, <2>4, ToldSteps
<1> QED
  BY <1>1, <1>2, <1>3

-----------------------------------------------------------------------------
(* EndingInv holds in every reachable state of every instance.           *)
THEOREM EndingInvariant == Spec => []EndingInv
<1>1. Init => EndingInv
  BY TaskKinds
     DEF Init, EndingInv, StartsAreOver, EndsAgree, StepsStay,
     ProvenanceKept, AnswersKept, Ended
<1>2. SessionInv /\ EndingInv /\ [Next]_vars => EndingInv'
  <2> SUFFICES ASSUME SessionInv, EndingInv, [Next]_vars PROVE EndingInv'
    OBVIOUS
  <2> QED
    BY StartsAreOverStep, EndsAgreeStep, StepsStayStep, ProvenanceKeptStep,
       AnswersKeptStep DEF EndingInv
<1> QED
  BY <1>1, <1>2, SessionInvariant, PTL DEF Spec

(* metadata.json of a session that was ended without error, and whose      *)
(* start call was over by then, has its status and its provenance.         *)
THEOREM DiskIsRight == Spec => []DiskMatchesSession
<1>1. ASSUME SessionInv, EndingInv
      PROVE  DiskMatchesSession
  <2> SUFFICES ASSUME NEW r \in Run \ overtaken,
                      NEW t \in Task, runOf[t] = r, Ended(t),
                      task[t] \notin Body, t \notin failed
               PROVE  /\ meta[r].status = status[r]
                      /\ start[r] = "ok" => meta[r].provenance
    BY DEF DiskMatchesSession, Ended
  <2>1. task[t] \in {"report", "done"}
    BY <1>1 DEF EndingInv, StepsStay
  <2> QED
    BY <1>1, <2>1 DEF EndingInv, StepsStay, EndsAgree, ProvenanceKept
<1> QED
  BY <1>1, SessionInvariant, EndingInvariant, PTL

(* A stop_session call that ended a session tells the status it ended      *)
(* with, and nothing of the session is at work by then.                    *)
THEOREM StopsTellTheEnd == Spec => []StopTellsTheEnd
<1>1. ASSUME SessionInv, EndingInv
      PROVE  StopTellsTheEnd
  <2> SUFFICES ASSUME NEW s \in Stopper, told[s] # "none", Ended(s),
                      runOf[s] \notin overtaken
               PROVE  LET r == runOf[s]
                      IN  /\ told[s] = endStatus[s]
                          /\ timer[r] = "stopped"
                          /\ logcat[r] # "running" /\ streams[r] = "closed"
                          /\ r \notin sessions /\ tupleIndex # r
                          /\ lock = r =>
                                /\ told[s] = "degraded"
                                /\ \E t \in Task \ {s} :
                                      /\ runOf[t] = r
                                      /\ \/ task[t] = "unlink"
                                         \/ t \in failed /\ r \in kept
    BY DEF StopTellsTheEnd, Ended
  <2> DEFINE r == runOf[s]
  <2>1. /\ s \in Task /\ task[s] = "done" /\ s \notin failed
        /\ told[s] = endStatus[s]
    BY <1>1, TaskKinds DEF EndingInv, AnswersKept
  <2>2. /\ timer[r] = "stopped"
        /\ logcat[r] # "running" /\ streams[r] = "closed"
        /\ r \notin sessions /\ tupleIndex # r /\ r \in released
    BY <1>1, <2>1 DEF EndingInv, EndsAgree, StepsStay
  <2>3. ASSUME lock = r
        PROVE  \E t \in Task \ {s} :
                  /\ runOf[t] = r /\ Ended(t)
                  /\ \/ task[t] = "unlink"
                     \/ t \in failed /\ r \in kept
    <3>1. r \in Run /\ status[r] # "none"
      BY <1>1, <2>1, EndedRun DEF EndingInv
    <3>2. CASE \E t \in Task : runOf[t] = r /\ task[t] = "unlink"
      BY <1>1, <2>1, <3>2 DEF SessionInv, TaskStages, Ended, Body
    <3>3. CASE r \in kept
      <4>1. PICK t \in failed : runOf[t] = r
        BY <1>1, <3>1, <3>3 DEF SessionInv, NoStrandedTuple
      <4>2. t \in Task \ {s} /\ Ended(t)
        BY <1>1, <2>1, <4>1 DEF SessionInv, TypeOK, TaskStages, Ended
      <4> QED
        BY <3>3, <4>1, <4>2
    <3> QED
      BY <1>1, <2>2, <2>3, <3>2, <3>3 DEF SessionInv, ReleasedOnce
  <2>4. ASSUME lock = r
        PROVE  told[s] = "degraded"
    BY <1>1, <2>1, <2>3, <2>4 DEF EndingInv, EndsAgree
  <2> QED
    BY <2>1, <2>2, <2>3, <2>4
<1> QED
  BY <1>1, SessionInvariant, EndingInvariant, PTL
=============================================================================
