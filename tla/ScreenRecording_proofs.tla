----------------------- MODULE ScreenRecording_proofs -----------------------
(***************************************************************************)
(* Proofs about ScreenRecording for any numbers of recordings and of stop  *)
(* calls: the inductive invariant RecordingInv and what it yields.         *)
(***************************************************************************)
EXTENDS ScreenRecording, TLAPS

LEMMA InvInit == Init => RecordingInv
BY NamesAssumption
   DEF Init, RecordingInv, TypeOK, SessionStages, TaskStages, Accounted,
       RemoteKept, PullStages, TaskStage, AccountedFor, PulledOnce, Task,
       Started, Working, Stopping, Fetched

-----------------------------------------------------------------------------
(* One lemma for each part of the invariant: every step keeps it.          *)

(* Every variable keeps its type, and the slot a recording that has not    *)
(* failed.  A stop that frees the slot of a recording it waited for frees  *)
(* it of one that has started.                                             *)
LEMMA TypeOKStep ==
  ASSUME RecordingInv, [Next]_vars
  PROVE  TypeOK'
<1> USE NamesAssumption DEF RecordingInv, TypeOK, TaskStages, TaskStage,
        Stopping, Accounted, AccountedFor, device, history, Task, Final,
        Started, Working
<1>1. CASE UNCHANGED vars
  BY <1>1 DEF vars
<1>2. CASE \E r \in Recording : StartCall(r)
  BY <1>2 DEF StartCall, Steps
<1>3. CASE \E r \in Recording : BeginRecording(r)
  BY <1>3 DEF BeginRecording, Steps
<1>4. CASE \E r \in Recording : RejectRecording(r)
  BY <1>4 DEF RejectRecording, Steps
<1>5. CASE \E r \in Recording : Spawned(r)
  BY <1>5 DEF Spawned, Steps
<1>6. CASE \E r \in Recording : SpawnFails(r)
  BY <1>6 DEF SpawnFails, Freed, Steps
<1>7. CASE \E r \in Recording : Ready(r)
  BY <1>7 DEF Ready, Steps
<1>8. CASE \E r \in Recording : NotReady(r)
  BY <1>8 DEF NotReady, Steps
<1>9. CASE \E r \in Recording : ReadyFails(r)
  BY <1>9 DEF ReadyFails, Freed, Steps
<1>10. CASE \E r \in Recording : DiscardStart(r)
  BY <1>10 DEF DiscardStart, Freed, Steps
<1>11. CASE \E r \in Recording : Announce(r)
  BY <1>11 DEF Announce, Steps
<1>12. CASE \E r \in Recording : RecorderExits(r)
  BY <1>12 DEF RecorderExits
<1>13. CASE \E k \in Stop, r \in Recording : StopCall(k, r)
  BY <1>13 DEF StopCall, Moves
<1>14. CASE \E k \in Stop : StopBegins(k)
  BY <1>14 DEF StopBegins, Moves
<1>15. CASE \E t \in Task : AwaitStart(t)
  BY <1>15 DEF AwaitStart, Thrown, Moves
<1>16. CASE \E t \in Task : Interrupt(t)
  BY <1>16 DEF Interrupt, Moves
<1>17. CASE \E t \in Task : GraceEnds(t)
  BY <1>17 DEF GraceEnds, Killed, Moves
<1>18. CASE \E t \in Task : PullStart(t)
  BY <1>18 DEF PullStart, Moves
<1>19. CASE \E t \in Task : PullEnd(t)
  BY <1>19 DEF PullEnd, Moves
<1>20. CASE \E t \in Task : Validate(t)
  BY <1>20 DEF Validate, Moves
<1>21. CASE \E t \in Task : RemoveRemote(t)
  BY <1>21 DEF RemoveRemote, Thrown, Moves
<1>22. CASE \E t \in Task : AdbFails(t)
  BY <1>22 DEF AdbFails, Thrown, Moves
<1>23. CASE \E t \in Task : Saved(t)
  BY <1>23 DEF Saved, Freed, FinalizeGoesOn, Moves
<1>24. CASE BeginFinalize
  BY <1>24 DEF BeginFinalize
<1>25. CASE CloseStreams
  BY <1>25 DEF CloseStreams
<1>26. CASE DiscardKill
  BY <1>26 DEF DiscardKill, Killed, Moves
<1>27. CASE GiveUp
  BY <1>27 DEF GiveUp, Moves
<1> QED
  BY <1>1, <1>2, <1>3, <1>4, <1>5, <1>6, <1>7, <1>8, <1>9, <1>10, <1>11,
     <1>12, <1>13, <1>14, <1>15, <1>16, <1>17, <1>18, <1>19, <1>20, <1>21,
     <1>22, <1>23, <1>24, <1>25, <1>26, <1>27 DEF Next

(* The end of a session goes through its stages with its task, and no      *)
(* recording but a late one takes the slot after it has begun.             *)
LEMMA SessionStagesStep ==
  ASSUME RecordingInv, [Next]_vars
  PROVE  SessionStages'
<1> USE NamesAssumption DEF RecordingInv, TypeOK, SessionStages, device,
        history, Task, Final, Started, Working
<1>1. CASE UNCHANGED vars
  BY <1>1 DEF vars
<1>2. CASE \E r \in Recording : StartCall(r)
  BY <1>2 DEF StartCall, Steps
<1>3. CASE \E r \in Recording : BeginRecording(r)
  BY <1>3 DEF BeginRecording, Steps
<1>4. CASE \E r \in Recording : RejectRecording(r)
  BY <1>4 DEF RejectRecording, Steps
<1>5. CASE \E r \in Recording : Spawned(r)
  BY <1>5 DEF Spawned, Steps
<1>6. CASE \E r \in Recording : SpawnFails(r)
  BY <1>6 DEF SpawnFails, Freed, Steps
<1>7. CASE \E r \in Recording : Ready(r)
  BY <1>7 DEF Ready, Steps
<1>8. CASE \E r \in Recording : NotReady(r)
  BY <1>8 DEF NotReady, Steps
<1>9. CASE \E r \in Recording : ReadyFails(r)
  BY <1>9 DEF ReadyFails, Freed, Steps
<1>10. CASE \E r \in Recording : DiscardStart(r)
  BY <1>10 DEF DiscardStart, Freed, Steps
<1>11. CASE \E r \in Recording : Announce(r)
  BY <1>11 DEF Announce, Steps
<1>12. CASE \E r \in Recording : RecorderExits(r)
  BY <1>12 DEF RecorderExits
<1>13. CASE \E k \in Stop, r \in Recording : StopCall(k, r)
  BY <1>13 DEF StopCall, Moves
<1>14. CASE \E k \in Stop : StopBegins(k)
  BY <1>14 DEF StopBegins, Moves
<1>15. CASE \E t \in Task : AwaitStart(t)
  BY <1>15 DEF AwaitStart, Thrown, Moves
<1>16. CASE \E t \in Task : Interrupt(t)
  BY <1>16 DEF Interrupt, Moves
<1>17. CASE \E t \in Task : GraceEnds(t)
  BY <1>17 DEF GraceEnds, Killed, Moves
<1>18. CASE \E t \in Task : PullStart(t)
  BY <1>18 DEF PullStart, Moves
<1>19. CASE \E t \in Task : PullEnd(t)
  BY <1>19 DEF PullEnd, Moves
<1>20. CASE \E t \in Task : Validate(t)
  BY <1>20 DEF Validate, Moves
<1>21. CASE \E t \in Task : RemoveRemote(t)
  BY <1>21 DEF RemoveRemote, Thrown, Moves
<1>22. CASE \E t \in Task : AdbFails(t)
  BY <1>22 DEF AdbFails, Thrown, Moves
<1>23. CASE \E t \in Task : Saved(t)
  BY <1>23 DEF Saved, Freed, FinalizeGoesOn, Moves
<1>24. CASE BeginFinalize
  BY <1>24 DEF BeginFinalize
<1>25. CASE CloseStreams
  BY <1>25 DEF CloseStreams
<1>26. CASE DiscardKill
  BY <1>26 DEF DiscardKill, Killed, Moves
<1>27. CASE GiveUp
  BY <1>27 DEF GiveUp, Moves
<1> QED
  BY <1>1, <1>2, <1>3, <1>4, <1>5, <1>6, <1>7, <1>8, <1>9, <1>10, <1>11,
     <1>12, <1>13, <1>14, <1>15, <1>16, <1>17, <1>18, <1>19, <1>20, <1>21,
     <1>22, <1>23, <1>24, <1>25, <1>26, <1>27 DEF Next

(* A task's recording stays started, and once its recorder has ended       *)
(* nothing starts it again: a start call spawns it only once.              *)
LEMMA TaskStagesStep ==
  ASSUME RecordingInv, [Next]_vars
  PROVE  TaskStages'
<1> USE NamesAssumption DEF RecordingInv, TypeOK, TaskStage, SessionStages,
        Stopping, Fetched, device, history, Task, Final, Started, Working
<1> SUFFICES ASSUME NEW u \in Task PROVE TaskStage(u)'
  BY DEF TaskStages
<1>0. TaskStage(u) /\ TaskStage(Final)
  BY DEF TaskStages
<1>1. CASE UNCHANGED vars
  BY <1>1, <1>0 DEF vars
<1>2. CASE \E r \in Recording : StartCall(r)
  BY <1>2, <1>0 DEF StartCall, Steps
<1>3. CASE \E r \in Recording : BeginRecording(r)
  BY <1>3, <1>0 DEF BeginRecording, Steps
<1>4. CASE \E r \in Recording : RejectRecording(r)
  BY <1>4, <1>0 DEF RejectRecording, Steps
<1>5. CASE \E r \in Recording : Spawned(r)
  BY <1>5, <1>0 DEF Spawned, Steps
<1>6. CASE \E r \in Recording : SpawnFails(r)
  BY <1>6, <1>0 DEF SpawnFails, Freed, Steps
<1>7. CASE \E r \in Recording : Ready(r)
  BY <1>7, <1>0 DEF Ready, Steps
<1>8. CASE \E r \in Recording : NotReady(r)
  BY <1>8, <1>0 DEF NotReady, Steps
<1>9. CASE \E r \in Recording : ReadyFails(r)
  BY <1>9, <1>0 DEF ReadyFails, Freed, Steps
<1>10. CASE \E r \in Recording : DiscardStart(r)
  BY <1>10, <1>0 DEF DiscardStart, Freed, Steps
<1>11. CASE \E r \in Recording : Announce(r)
  BY <1>11, <1>0 DEF Announce, Steps
<1>12. CASE \E r \in Recording : RecorderExits(r)
  BY <1>12, <1>0 DEF RecorderExits
<1>13. CASE \E k \in Stop, r \in Recording : StopCall(k, r)
  BY <1>13, <1>0 DEF StopCall, Moves
<1>14. CASE \E k \in Stop : StopBegins(k)
  BY <1>14, <1>0 DEF StopBegins, Moves
<1>15. CASE \E t \in Task : AwaitStart(t)
  BY <1>15, <1>0 DEF AwaitStart, Thrown, Moves
<1>16. CASE \E t \in Task : Interrupt(t)
  BY <1>16, <1>0 DEF Interrupt, Moves
<1>17. CASE \E t \in Task : GraceEnds(t)
  BY <1>17, <1>0 DEF GraceEnds, Killed, Moves
<1>18. CASE \E t \in Task : PullStart(t)
  BY <1>18, <1>0 DEF PullStart, Moves
<1>19. CASE \E t \in Task : PullEnd(t)
  BY <1>19, <1>0 DEF PullEnd, Moves
<1>20. CASE \E t \in Task : Validate(t)
  BY <1>20, <1>0 DEF Validate, Moves
<1>21. CASE \E t \in Task : RemoveRemote(t)
  BY <1>21, <1>0 DEF RemoveRemote, Thrown, Moves
<1>22. CASE \E t \in Task : AdbFails(t)
  BY <1>22, <1>0 DEF AdbFails, Thrown, Moves
<1>23. CASE \E t \in Task : Saved(t)
  BY <1>23, <1>0 DEF Saved, Freed, FinalizeGoesOn, Moves
<1>24. CASE BeginFinalize
  BY <1>24, <1>0 DEF BeginFinalize
<1>25. CASE CloseStreams
  BY <1>25, <1>0 DEF CloseStreams
<1>26. CASE DiscardKill
  BY <1>26, <1>0 DEF DiscardKill, Killed, Moves
<1>27. CASE GiveUp
  BY <1>27, <1>0 DEF GiveUp, Moves
<1> QED
  BY <1>1, <1>2, <1>3, <1>4, <1>5, <1>6, <1>7, <1>8, <1>9, <1>10, <1>11,
     <1>12, <1>13, <1>14, <1>15, <1>16, <1>17, <1>18, <1>19, <1>20, <1>21,
     <1>22, <1>23, <1>24, <1>25, <1>26, <1>27 DEF Next

(* The slot is freed by a start that fails, by a task that has saved what  *)
(* was in it, or by the end of the session, which gives it up; by then     *)
(* nothing else is in it but what began late.                              *)
LEMMA AccountedStep ==
  ASSUME RecordingInv, [Next]_vars
  PROVE  Accounted'
<1> USE NamesAssumption DEF RecordingInv, TypeOK, SessionStages,
        AccountedFor, Stopping, Fetched, device, history, Task, Final,
        Started, Working
<1> SUFFICES ASSUME NEW q \in Recording \ late' PROVE AccountedFor(q)'
  BY DEF Accounted
<1>0. (q \notin late => AccountedFor(q)) /\ \A t \in Task : TaskStage(t)
  BY DEF Accounted, TaskStages
<1>1. CASE UNCHANGED vars
  BY <1>1, <1>0 DEF vars
<1>2. CASE \E r \in Recording : StartCall(r)
  BY <1>2, <1>0 DEF StartCall, Steps
<1>3. CASE \E r \in Recording : BeginRecording(r)
  BY <1>3, <1>0 DEF BeginRecording, Steps
<1>4. CASE \E r \in Recording : RejectRecording(r)
  BY <1>4, <1>0 DEF RejectRecording, Steps
<1>5. CASE \E r \in Recording : Spawned(r)
  BY <1>5, <1>0 DEF Spawned, Steps
<1>6. CASE \E r \in Recording : SpawnFails(r)
  BY <1>6, <1>0 DEF SpawnFails, Freed, Steps
<1>7. CASE \E r \in Recording : Ready(r)
  BY <1>7, <1>0 DEF Ready, Steps
<1>8. CASE \E r \in Recording : NotReady(r)
  BY <1>8, <1>0 DEF NotReady, Steps
<1>9. CASE \E r \in Recording : ReadyFails(r)
  BY <1>9, <1>0 DEF ReadyFails, Freed, Steps
<1>10. CASE \E r \in Recording : DiscardStart(r)
  BY <1>10, <1>0 DEF DiscardStart, Freed, Steps
<1>11. CASE \E r \in Recording : Announce(r)
  BY <1>11, <1>0 DEF Announce, Steps
<1>12. CASE \E r \in Recording : RecorderExits(r)
  BY <1>12, <1>0 DEF RecorderExits
<1>13. CASE \E k \in Stop, r \in Recording : StopCall(k, r)
  BY <1>13, <1>0 DEF StopCall, Moves
<1>14. CASE \E k \in Stop : StopBegins(k)
  BY <1>14, <1>0 DEF StopBegins, Moves
<1>15. CASE \E t \in Task : AwaitStart(t)
  BY <1>15, <1>0 DEF AwaitStart, Thrown, Moves
<1>16. CASE \E t \in Task : Interrupt(t)
  BY <1>16, <1>0 DEF Interrupt, Moves
<1>17. CASE \E t \in Task : GraceEnds(t)
  BY <1>17, <1>0 DEF GraceEnds, Killed, Moves
<1>18. CASE \E t \in Task : PullStart(t)
  BY <1>18, <1>0 DEF PullStart, Moves
<1>19. CASE \E t \in Task : PullEnd(t)
  BY <1>19, <1>0 DEF PullEnd, Moves
<1>20. CASE \E t \in Task : Validate(t)
  BY <1>20, <1>0 DEF Validate, Moves
<1>21. CASE \E t \in Task : RemoveRemote(t)
  BY <1>21, <1>0 DEF RemoveRemote, Thrown, Moves
<1>22. CASE \E t \in Task : AdbFails(t)
  BY <1>22, <1>0 DEF AdbFails, Thrown, Moves
<1>23. CASE \E t \in Task : Saved(t)
  <2>1. PICK t \in Task : Saved(t)
    BY <1>23
  <2>2. of[t] \in Started /\ proc[of[t]] # "running"
    <3>1. at[t] = "sheet"
      BY <2>1 DEF Saved, Moves
    <3>2. TaskStage(t)
      BY <1>0
    <3> QED
      BY <3>1, <3>2 DEF TaskStage
  <2>3. CASE session # "closed"
    BY <2>1, <2>2, <2>3, <1>0 DEF Saved, Freed, Moves
  <2>4. CASE session = "closed"
    <3>1. slot # q
      BY <2>1, <2>4 DEF Saved
    <3> QED
      BY <2>1, <2>2, <2>4, <3>1, <1>0 DEF Saved, Freed, Moves
  <2> QED
    BY <2>3, <2>4
<1>24. CASE BeginFinalize
  BY <1>24, <1>0 DEF BeginFinalize
<1>25. CASE CloseStreams
  BY <1>25, <1>0 DEF CloseStreams
<1>26. CASE DiscardKill
  BY <1>26, <1>0 DEF DiscardKill, Killed, Moves
<1>27. CASE GiveUp
  <2>1. slot \in late \union {None, of[Final]}
    BY <1>27 DEF GiveUp, Moves
  <2>2. of[Final] \in Started \/ start[of[Final]] = "failed"
    <3>1. at[Final] = "discardRm"
      BY <1>27 DEF GiveUp, Moves
    <3>2. TaskStage(Final)
      BY <1>0
    <3> QED
      BY <3>1, <3>2 DEF TaskStage
  <2> QED
    BY <1>27, <2>1, <2>2, <1>0 DEF GiveUp, Moves
<1> QED
  BY <1>1, <1>2, <1>3, <1>4, <1>5, <1>6, <1>7, <1>8, <1>9, <1>10, <1>11,
     <1>12, <1>13, <1>14, <1>15, <1>16, <1>17, <1>18, <1>19, <1>20, <1>21,
     <1>22, <1>23, <1>24, <1>25, <1>26, <1>27 DEF Next

(* A file is removed by a task on its way to the freeing of the slot, by   *)
(* the discard of a start that failed, by a task whose artifact was        *)
(* refused, and by the end of the session.                                 *)
LEMMA RemoteKeptStep ==
  ASSUME RecordingInv, [Next]_vars
  PROVE  RemoteKept'
<1> USE NamesAssumption DEF RecordingInv, TypeOK, TaskStages, TaskStage,
        SessionStages, RemoteKept, Stopping, Fetched, device, history, Task,
        Final, Started, Working
<1>1. CASE UNCHANGED vars
  BY <1>1 DEF vars
<1>2. CASE \E r \in Recording : StartCall(r)
  BY <1>2 DEF StartCall, Steps
<1>3. CASE \E r \in Recording : BeginRecording(r)
  BY <1>3 DEF BeginRecording, Steps
<1>4. CASE \E r \in Recording : RejectRecording(r)
  BY <1>4 DEF RejectRecording, Steps
<1>5. CASE \E r \in Recording : Spawned(r)
  BY <1>5 DEF Spawned, Steps
<1>6. CASE \E r \in Recording : SpawnFails(r)
  BY <1>6 DEF SpawnFails, Freed, Steps
<1>7. CASE \E r \in Recording : Ready(r)
  BY <1>7 DEF Ready, Steps
<1>8. CASE \E r \in Recording : NotReady(r)
  BY <1>8 DEF NotReady, Steps
<1>9. CASE \E r \in Recording : ReadyFails(r)
  BY <1>9 DEF ReadyFails, Freed, Steps
<1>10. CASE \E r \in Recording : DiscardStart(r)
  BY <1>10 DEF DiscardStart, Freed, Steps
<1>11. CASE \E r \in Recording : Announce(r)
  BY <1>11 DEF Announce, Steps
<1>12. CASE \E r \in Recording : RecorderExits(r)
  BY <1>12 DEF RecorderExits
<1>13. CASE \E k \in Stop, r \in Recording : StopCall(k, r)
  BY <1>13 DEF StopCall, Moves
<1>14. CASE \E k \in Stop : StopBegins(k)
  BY <1>14 DEF StopBegins, Moves
<1>15. CASE \E t \in Task : AwaitStart(t)
  BY <1>15 DEF AwaitStart, Thrown, Moves
<1>16. CASE \E t \in Task : Interrupt(t)
  BY <1>16 DEF Interrupt, Moves
<1>17. CASE \E t \in Task : GraceEnds(t)
  BY <1>17 DEF GraceEnds, Killed, Moves
<1>18. CASE \E t \in Task : PullStart(t)
  BY <1>18 DEF PullStart, Moves
<1>19. CASE \E t \in Task : PullEnd(t)
  BY <1>19 DEF PullEnd, Moves
<1>20. CASE \E t \in Task : Validate(t)
  BY <1>20 DEF Validate, Moves
<1>21. CASE \E t \in Task : RemoveRemote(t)
  BY <1>21 DEF RemoveRemote, Thrown, Moves
<1>22. CASE \E t \in Task : AdbFails(t)
  BY <1>22 DEF AdbFails, Thrown, Moves
<1>23. CASE \E t \in Task : Saved(t)
  BY <1>23 DEF Saved, Freed, FinalizeGoesOn, Moves
<1>24. CASE BeginFinalize
  BY <1>24 DEF BeginFinalize
<1>25. CASE CloseStreams
  BY <1>25 DEF CloseStreams
<1>26. CASE DiscardKill
  BY <1>26 DEF DiscardKill, Killed, Moves
<1>27. CASE GiveUp
  BY <1>27 DEF GiveUp, Moves
<1> QED
  BY <1>1, <1>2, <1>3, <1>4, <1>5, <1>6, <1>7, <1>8, <1>9, <1>10, <1>11,
     <1>12, <1>13, <1>14, <1>15, <1>16, <1>17, <1>18, <1>19, <1>20, <1>21,
     <1>22, <1>23, <1>24, <1>25, <1>26, <1>27 DEF Next

(* An artifact is written by its pullers only; while there is one of them  *)
(* it is what the end of that pull has made of it.                         *)
LEMMA PullStagesStep ==
  ASSUME RecordingInv, [Next]_vars
  PROVE  PullStages'
<1> USE NamesAssumption DEF RecordingInv, TypeOK, TaskStages, TaskStage,
        SessionStages, PullStages, PulledOnce, Sound, Stopping, Fetched,
        device, history, Task, Final, Started, Working
<1>1. CASE UNCHANGED vars
  BY <1>1 DEF vars
<1>2. CASE \E r \in Recording : StartCall(r)
  BY <1>2 DEF StartCall, Steps
<1>3. CASE \E r \in Recording : BeginRecording(r)
  BY <1>3 DEF BeginRecording, Steps
<1>4. CASE \E r \in Recording : RejectRecording(r)
  BY <1>4 DEF RejectRecording, Steps
<1>5. CASE \E r \in Recording : Spawned(r)
  BY <1>5 DEF Spawned, Steps
<1>6. CASE \E r \in Recording : SpawnFails(r)
  BY <1>6 DEF SpawnFails, Freed, Steps
<1>7. CASE \E r \in Recording : Ready(r)
  BY <1>7 DEF Ready, Steps
<1>8. CASE \E r \in Recording : NotReady(r)
  BY <1>8 DEF NotReady, Steps
<1>9. CASE \E r \in Recording : ReadyFails(r)
  BY <1>9 DEF ReadyFails, Freed, Steps
<1>10. CASE \E r \in Recording : DiscardStart(r)
  BY <1>10 DEF DiscardStart, Freed, Steps
<1>11. CASE \E r \in Recording : Announce(r)
  BY <1>11 DEF Announce, Steps
<1>12. CASE \E r \in Recording : RecorderExits(r)
  BY <1>12 DEF RecorderExits
<1>13. CASE \E k \in Stop, r \in Recording : StopCall(k, r)
  BY <1>13 DEF StopCall, Moves
<1>14. CASE \E k \in Stop : StopBegins(k)
  BY <1>14 DEF StopBegins, Moves
<1>15. CASE \E t \in Task : AwaitStart(t)
  BY <1>15 DEF AwaitStart, Thrown, Moves
<1>16. CASE \E t \in Task : Interrupt(t)
  BY <1>16 DEF Interrupt, Moves
<1>17. CASE \E t \in Task : GraceEnds(t)
  BY <1>17 DEF GraceEnds, Killed, Moves
<1>18. CASE \E t \in Task : PullStart(t)
  BY <1>18 DEF PullStart, Moves
<1>19. CASE \E t \in Task : PullEnd(t)
  BY <1>19 DEF PullEnd, Moves
<1>20. CASE \E t \in Task : Validate(t)
  BY <1>20 DEF Validate, Moves
<1>21. CASE \E t \in Task : RemoveRemote(t)
  BY <1>21 DEF RemoveRemote, Thrown, Moves
<1>22. CASE \E t \in Task : AdbFails(t)
  BY <1>22 DEF AdbFails, Thrown, Moves
<1>23. CASE \E t \in Task : Saved(t)
  BY <1>23 DEF Saved, Freed, FinalizeGoesOn, Moves
<1>24. CASE BeginFinalize
  BY <1>24 DEF BeginFinalize
<1>25. CASE CloseStreams
  BY <1>25 DEF CloseStreams
<1>26. CASE DiscardKill
  BY <1>26 DEF DiscardKill, Killed, Moves
<1>27. CASE GiveUp
  BY <1>27 DEF GiveUp, Moves
<1> QED
  BY <1>1, <1>2, <1>3, <1>4, <1>5, <1>6, <1>7, <1>8, <1>9, <1>10, <1>11,
     <1>12, <1>13, <1>14, <1>15, <1>16, <1>17, <1>18, <1>19, <1>20, <1>21,
     <1>22, <1>23, <1>24, <1>25, <1>26, <1>27 DEF Next

-----------------------------------------------------------------------------
(* RecordingInv holds throughout (session/session.ts, adb/screenrecord.ts).*)
THEOREM RecordingInvariant == Spec => []RecordingInv
<1>1. RecordingInv /\ [Next]_vars => RecordingInv'
  BY TypeOKStep, SessionStagesStep, TaskStagesStep, AccountedStep,
     RemoteKeptStep, PullStagesStep DEF RecordingInv
<1> QED
  BY InvInit, <1>1, PTL DEF Spec

(* The variables keep their types, and the slot is never left to a         *)
(* recording whose start failed.                                           *)
THEOREM TypeCorrect == Spec => []TypeOK
<1>1. RecordingInv => TypeOK
  BY DEF RecordingInv
<1> QED
  BY RecordingInvariant, <1>1, PTL

(* A recording announced as saved is whole, or cut because its recorder    *)
(* was killed, unless two tasks pulled it (stopScreenRecording).           *)
THEOREM SavedAreWhole == Spec => []SavedIsWhole
<1>1. RecordingInv => SavedIsWhole
  BY DEF RecordingInv, PullStages, SavedIsWhole
<1> QED
  BY RecordingInvariant, <1>1, PTL

(* What an explicit stop has failed to save is still on the device for the *)
(* next one, unless it was refused (screenrecord.ts:80).                   *)
THEOREM StopsCanBeRetried == Spec => []StopCanBeRetried
<1>1. RecordingInv => StopCanBeRetried
  <2> SUFFICES ASSUME RecordingInv,
                      NEW r \in Started \ invalid,
                      slot = r, \A t \in Task : ~AtWork(t, r),
                      remote[r] = "none"
               PROVE  FALSE
    BY DEF StopCanBeRetried
  <2>1. r \in Recording
    BY DEF Started
  <2>2. PICK t \in Task : of[t] = r /\ at[t] = "sheet"
    BY <2>1 DEF RecordingInv, RemoteKept
  <2>3. AtWork(t, r)
    BY <2>2 DEF AtWork, Working
  <2> QED
    BY <2>3
<1> QED
  BY RecordingInvariant, <1>1, PTL

(* A closed session has saved or given up every recording a client was     *)
(* given before its end began (session.ts, finalizeScreenRecording).       *)
THEOREM NothingIsLeftBehind == Spec => []NothingLeftBehind
<1>1. RecordingInv => NothingLeftBehind
  <2> SUFFICES ASSUME RecordingInv, session = "closed",
                      NEW r \in Started \ late
               PROVE  \/ <<"saved", r>> \in events /\ proc[r] # "running"
                      \/ <<"gaveUp", r>> \in events
    BY DEF NothingLeftBehind
  <2>1. r \in Recording /\ slot \in late \union {None}
    BY DEF RecordingInv, SessionStages, Started
  <2>2. slot # r
    BY <2>1, NamesAssumption
  <2>3. AccountedFor(r)
    BY <2>1 DEF RecordingInv, Accounted
  <2> QED
    BY <2>2, <2>3 DEF AccountedFor
<1> QED
  BY RecordingInvariant, <1>1, PTL
=============================================================================
