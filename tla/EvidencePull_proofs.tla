------------------------- MODULE EvidencePull_proofs -------------------------
(***************************************************************************)
(* Proofs about EvidencePull for any calls, files, lengths and             *)
(* milliseconds: the inductive invariant PullInv and what it yields.       *)
(***************************************************************************)
EXTENDS EvidencePull, TLAPS

(* Stats, entries and what a call that has forgotten everything has.       *)
LEMMA Entries ==
  /\ None \notin Stat /\ Stat \subseteq Entry /\ None \in Entry
  /\ \A e \in Entry : e # None => e \in Stat
  /\ \A e \in Stat : e.size \in 1 .. MaxSize /\ e.mtime \in 1 .. MaxSize
  /\ NoFiles \in [File -> Entry] /\ \A f \in File : NoFiles[f] = None
  /\ [f \in File |-> -1] \in [File -> -1 .. MaxSize]
BY CallsAssumption DEF Stat, Entry, NoFiles

(* What readMtimeCache throws on is no cache, and a cache that it throws on*)
(* says nothing of a file.                                                 *)
LEMMA Texts ==
  /\ \A m \in [File -> Entry] : m \notin Broken
  /\ TypeOK => \A f \in File : Cached(f) \in Entry
<1>1. [File -> Entry] \subseteq [File -> [size : Nat, mtime : Nat] \union {None}]
  BY CallsAssumption DEF Entry, Stat
<1>2. \A m \in [File -> Entry] : m \notin Broken
  BY <1>1, TextsAssumption DEF Broken
<1>3. ASSUME TypeOK, NEW f \in File PROVE Cached(f) \in Entry
  <2>1. cache \in [File -> Entry] \union Broken
    BY <1>3 DEF TypeOK
  <2> QED
    BY <1>3, <2>1, Entries DEF Cached
<1> QED
  BY <1>2, <1>3

(* An append gives the file a stat that is longer than the one it had.     *)
LEMMA AppendIsLonger ==
  ASSUME TypeOK, MtimeOrder, NEW f \in File, AppLogs(f)
  PROVE  \E e \in Stat : /\ device' = [device EXCEPT ![f] = e]
                         /\ e.mtime <= e.size
                         /\ device[f] # None => device[f].size < e.size
<1> USE CallsAssumption DEF TypeOK, MtimeOrder
<1>1. CASE device[f] = None
  <2> DEFINE e == [size |-> 1, mtime |-> 1]
  <2>1. e \in Stat /\ e.mtime <= e.size
    BY DEF Stat
  <2>2. device' = [device EXCEPT ![f] = e]
    BY <1>1 DEF AppLogs
  <2> QED
    BY <1>1, <2>1, <2>2
<1>2. CASE device[f] # None
  <2>1. device[f] \in Stat /\ device[f].size < MaxSize
    BY <1>2, Entries DEF AppLogs
  <2>2. PICK later \in {0, 1} :
          device' = [device EXCEPT ![f] =
              [size |-> @.size + 1, mtime |-> @.mtime + later]]
    BY <1>2 DEF AppLogs
  <2> DEFINE e == [size |-> device[f].size + 1, mtime |-> device[f].mtime + later]
  <2>3. device[f].size \in 1 .. MaxSize /\ device[f].mtime \in 1 .. MaxSize
    BY <2>1, Entries
  <2>4. e \in Stat /\ e.mtime <= e.size /\ device[f].size < e.size
    BY <1>2, <2>1, <2>3 DEF Stat
  <2>5. device' = [device EXCEPT ![f] = e]
    BY <2>2
  <2> QED
    BY <2>4, <2>5
<1> QED
  BY <1>1, <1>2

LEMMA InvInit == Init => PullInv
<1> SUFFICES ASSUME Init PROVE PullInv
  OBVIOUS
<1> USE CallsAssumption, Entries DEF Init
<1>1. TypeOK
  <2>1. device \in [File -> Entry] /\ local \in [File -> -1 .. MaxSize]
    BY DEF Entry, Stat
  <2>2. met \in SUBSET (SUBSET Call)
    OBVIOUS
  <2> QED
    BY <2>1, <2>2 DEF TypeOK
<1>2. MtimeOrder /\ Stages /\ Meetings
  BY DEF MtimeOrder, Stages, Meetings, Over, Running, NoFiles, ToRead, Due
<1>3. NoFiles \notin Broken /\ \A f \in File : Cached(f) = None
  BY Texts DEF Cached
<1>4. EntriesArePast /\ TmpHasWriter /\ WritesAlone /\ TornByTwo
  BY <1>3 DEF EntriesArePast, Past, TmpHasWriter, WritesAlone, TornByTwo
<1>5. ListingIsLater /\ CacheIsAsRead /\ CacheIsTrue /\ MemIsTrue
  BY <1>3 DEF ListingIsLater, CacheIsAsRead, CacheIsTrue, MemIsTrue, Running, Over
<1>6. CopyIsWhole /\ SeenIsWhole /\ DoneIsWhole
  BY DEF CopyIsWhole, SeenIsWhole, DoneIsWhole, Over
<1> QED
  BY <1>1, <1>2, <1>3, <1>4, <1>5, <1>6 DEF PullInv

-----------------------------------------------------------------------------
(* One lemma for each part of the invariant: every step keeps it.          *)

(* A text that is written goes where texts are.                            *)
LEMMA PutsType ==
  ASSUME TypeOK, NEW c \in Call,
         NEW text \in [File -> Entry] \union Broken \union {Text(c)}, Puts(c, text)
  PROVE  /\ cache' \in [File -> Entry] \union Broken
         /\ tmp' \in [Stamp -> [File -> Entry] \union Broken \union {None}]
         /\ writing' \in [Call -> Stamp \union {Cache, None}]
<1>1. /\ cache \in [File -> Entry] \union Broken
      /\ tmp \in [Stamp -> [File -> Entry] \union Broken \union {None}]
      /\ writing \in [Call -> Stamp \union {Cache, None}]
  BY DEF TypeOK
<1>2. writing[c] \in Stamp => Text(c) \in [File -> Entry] \union Broken \union {None}
  BY <1>1 DEF Text
<1>3. writing[c] = Cache => Text(c) \in [File -> Entry] \union Broken
  BY <1>1, CallsAssumption DEF Text
<1> QED
  BY <1>1, <1>2, <1>3 DEF Puts

(* Every variable keeps its type.                                          *)
LEMMA TypeOKStep ==
  ASSUME PullInv, [Next]_vars
  PROVE  TypeOK'
<1> USE CallsAssumption DEF PullInv, TypeOK, Stages, Due, NoFiles, Over,
        Synced
<1>1. CASE UNCHANGED vars
  BY <1>1, Entries DEF vars, diskVars
<1>2. CASE \E i \in File : AppLogs(i)
  <2> SUFFICES ASSUME NEW f \in File, AppLogs(f) PROVE TypeOK'
    BY <1>2
  <2>1. PICK e \in Stat : device' = [device EXCEPT ![f] = e]
    BY AppendIsLonger DEF PullInv
  <2>2. device' \in [File -> Entry]
    BY <2>1, Entries
  <2> QED
    BY <2>2 DEF AppLogs, diskVars
<1>3. CASE \E i \in File : AppDeletes(i)
  BY <1>3, Entries DEF AppDeletes, diskVars
<1>4. CASE \E i \in Call : Start(i)
  <2> SUFFICES ASSUME NEW c \in Call, Start(c) PROVE TypeOK'
    BY <1>4
  <2>1. \A d \in Running : d \in Call /\ {c, d} \in SUBSET Call
    BY DEF Running
  <2>2. met' \in SUBSET (SUBSET Call)
    <3> SUFFICES ASSUME NEW pair \in met' PROVE pair \in SUBSET Call
      OBVIOUS
    <3>1. CASE pair \in met
      BY <3>1
    <3>2. CASE \E d \in Running : pair = {c, d}
      BY <2>1, <3>2
    <3> QED
      BY <3>1, <3>2 DEF Start
  <2> QED
    BY <2>2 DEF Start, Moves, diskVars
<1>5. CASE \E i \in Call : Refused(i)
  BY <1>5, Entries DEF Refused, Moves, diskVars
<1>6. CASE \E i \in Call : ReadMtimeCache(i)
  BY <1>6, Entries DEF ReadMtimeCache, Moves, diskVars
<1>7. CASE \E i \in Call : ListDeviceFiles(i)
  BY <1>7, Entries DEF ListDeviceFiles, StatDeviceFile, Moves, diskVars
<1>8. CASE \E i \in Call : PullEnd(i)
  <2> SUFFICES ASSUME NEW c \in Call, PullEnd(c) PROVE TypeOK'
    BY <1>8
  <2>1. pulling[c] \in File
    BY DEF PullEnd, Moves
  <2>2. local' \in [File -> -1 .. MaxSize]
    <3>1. CASE UNCHANGED local
      BY <3>1
    <3>2. CASE /\ device[pulling[c]] # None
               /\ local' = [local EXCEPT ![pulling[c]] = device[pulling[c]].size]
      <4>1. device[pulling[c]].size \in 1 .. MaxSize
        BY <2>1, <3>2, Entries
      <4>2. device[pulling[c]].size \in -1 .. MaxSize
        BY <4>1
      <4> QED
        BY <2>1, <3>2, <4>2
    <3> QED
      BY <3>1, <3>2 DEF PullEnd
  <2>3. [mem[c] EXCEPT ![pulling[c]] = listing[c][pulling[c]]] \in [File -> Entry]
    <3>1. mem[c] \in [File -> Entry] /\ listing[c] \in [File -> Entry]
      OBVIOUS
    <3>2. \A f \in File : listing[c][f] \in Entry
      BY <3>1
    <3>3. listing[c][pulling[c]] \in Entry
      BY <2>1, <3>2
    <3> QED
      BY <3>1, <3>3
  <2>4. mem' \in [Call -> [File -> Entry]]
    BY <2>1, <2>3 DEF PullEnd
  <2> QED
    BY <2>1, <2>2, <2>4 DEF PullEnd, Moves, diskVars
<1>9. CASE \E i \in Call : PullFails(i)
  <2> SUFFICES ASSUME NEW c \in Call, PullFails(c) PROVE TypeOK'
    BY <1>9
  <2>1. pulling[c] \in File
    BY DEF PullFails, Moves
  <2>2. local' \in [File -> -1 .. MaxSize]
    <3>1. CASE local' = [local EXCEPT ![pulling[c]] = -1] \/ UNCHANGED local
      BY <2>1, <3>1
    <3>2. CASE device[pulling[c]] # None /\ \E n \in 1 .. MaxSize - 1 :
                  local' = [local EXCEPT ![pulling[c]] = n]
      BY <2>1, <3>2
    <3> QED
      BY <3>1, <3>2 DEF PullFails, Remains
  <2> QED
    BY <2>2, Entries DEF PullFails, Forgets, Moves, diskVars
<1>10. CASE \E i \in Call : NothingPulled(i)
  BY <1>10, Entries DEF NothingPulled, Moves, diskVars
<1>11. CASE \E i \in Call : WriteTmp(i)
  <2> SUFFICES ASSUME NEW c \in Call, WriteTmp(c) PROVE TypeOK'
    BY <1>11
  <2>1. /\ cache' \in [File -> Entry] \union Broken
        /\ tmp' \in [Stamp -> [File -> Entry] \union Broken \union {None}]
        /\ writing' \in [Call -> Stamp \union {Cache, None}]
    BY PutsType DEF WriteTmp, Broken
  <2> QED
    BY <2>1 DEF WriteTmp, Moves
<1>12. CASE \E i \in Call : Rename(i)
  BY <1>12, Entries DEF Rename, Moves, diskVars
<1>13. CASE \E i \in Call : RenameFails(i)
  BY <1>13, Entries DEF RenameFails, Forgets, Moves, diskVars
<1>14. CASE \E i \in Call : ReadAll(i)
  BY <1>14, Entries DEF ReadAll, Moves, diskVars
<1>15. CASE \E i \in Call : Report(i)
  BY <1>15, Entries DEF Report, Moves, diskVars
<1>16. CASE \E i \in Call : CallFails(i)
  BY <1>16, Entries DEF CallFails, Forgets, Moves, diskVars
<1>17. CASE \E i \in Call, j \in File : PullStart(i, j)
  BY <1>17, Entries DEF PullStart, Moves, diskVars
<1>18. CASE \E i \in Call, j \in File : ReadFile(i, j)
  BY <1>18, Entries DEF ReadFile, diskVars
<1>19. CASE \E i \in Call, j \in File : ReadFails(i, j)
  BY <1>19, Entries DEF ReadFails, Forgets, Moves, diskVars
<1>20. CASE \E i \in Call : OpenTmp(i)
  <2> SUFFICES ASSUME NEW c \in Call, OpenTmp(c) PROVE TypeOK'
    BY <1>20
  <2>1. Blank \in [File -> Entry] \union Broken \union {None}
    BY DEF Broken
  <2>2. /\ tmp' \in [Stamp -> [File -> Entry] \union Broken \union {None}]
        /\ writing' \in [Call -> Stamp \union {Cache, None}]
        /\ stamp' \in [Call -> Stamp \union {None}]
    BY <2>1 DEF OpenTmp
  <2> QED
    BY <2>2 DEF OpenTmp, Moves
<1>21. CASE \E i \in Call : WriteFails(i)
  <2> SUFFICES ASSUME NEW c \in Call, WriteFails(c) PROVE TypeOK'
    BY <1>21
  <2>1. /\ cache' \in [File -> Entry] \union Broken
        /\ tmp' \in [Stamp -> [File -> Entry] \union Broken \union {None}]
        /\ writing' \in [Call -> Stamp \union {Cache, None}]
    BY PutsType DEF WriteFails, Broken
  <2> QED
    BY <2>1, Entries DEF WriteFails, Forgets, Moves
<1> QED
  BY <1>1, <1>2, <1>3, <1>4, <1>5, <1>6, <1>7, <1>8, <1>9, <1>10, <1>11,
     <1>12, <1>13, <1>14, <1>15, <1>16, <1>17, <1>18, <1>19,
     <1>20, <1>21 DEF Next

(* An append adds to the length, and at most as much to the mtime.         *)
LEMMA MtimeOrderStep ==
  ASSUME PullInv, [Next]_vars
  PROVE  MtimeOrder'
<1> USE CallsAssumption DEF PullInv, TypeOK, MtimeOrder, Stat
<1>1. CASE UNCHANGED device
  BY <1>1, Entries
<1>2. CASE \E i \in File : AppLogs(i)
  <2>1. PICK g \in File : AppLogs(g)
    BY <1>2
  <2>2. PICK e \in Stat : device' = [device EXCEPT ![g] = e] /\ e.mtime <= e.size
    BY <2>1, AppendIsLonger
  <2> QED
    BY <2>2
<1>3. CASE \E i \in File : AppDeletes(i)
  BY <1>3, Entries DEF AppDeletes, diskVars
<1> QED
  BY <1>1, <1>2, <1>3 DEF Next, vars, diskVars, Start, Refused,
     ReadMtimeCache, ListDeviceFiles, PullEnd, PullFails, NothingPulled,
     OpenTmp, WriteTmp, Puts, WriteFails, Rename, RenameFails, ReadAll, Report, CallFails, PullStart,
     ReadFile, ReadFails

(* What a call has read, pulled and seen follows its place.                *)
LEMMA StagesStep ==
  ASSUME PullInv, [Next]_vars
  PROVE  Stages'
<1> USE CallsAssumption DEF PullInv, TypeOK, Stages, Due, Unchanged, ToRead,
        Running, Over, Synced, NoFiles, First
<1>1. CASE UNCHANGED vars
  BY <1>1, Entries DEF vars, diskVars
<1>2. CASE \E i \in File : AppLogs(i)
  BY <1>2, Entries DEF AppLogs, diskVars
<1>3. CASE \E i \in File : AppDeletes(i)
  BY <1>3, Entries DEF AppDeletes, diskVars
<1>4. CASE \E i \in Call : Start(i)
  BY <1>4, Entries DEF Start, Moves, diskVars
<1>5. CASE \E i \in Call : Refused(i)
  BY <1>5, Entries DEF Refused, Moves, diskVars
<1>6. CASE \E i \in Call : ReadMtimeCache(i)
  BY <1>6, Entries DEF ReadMtimeCache, Moves, diskVars
<1>7. CASE \E i \in Call : ListDeviceFiles(i)
  BY <1>7, Entries DEF ListDeviceFiles, StatDeviceFile, Moves, diskVars
<1>8. CASE \E i \in Call : PullEnd(i)
  BY <1>8, Entries DEF PullEnd, Moves, diskVars
<1>9. CASE \E i \in Call : PullFails(i)
  BY <1>9, Entries DEF PullFails, Forgets, Remains, Moves, diskVars
<1>10. CASE \E i \in Call : NothingPulled(i)
  BY <1>10, Entries DEF NothingPulled, Moves, diskVars
<1>11. CASE \E i \in Call : WriteTmp(i)
  BY <1>11, Entries DEF WriteTmp, Puts, Moves, diskVars
<1>12. CASE \E i \in Call : Rename(i)
  BY <1>12, Entries DEF Rename, Moves, diskVars
<1>13. CASE \E i \in Call : RenameFails(i)
  BY <1>13, Entries DEF RenameFails, Forgets, Moves, diskVars
<1>14. CASE \E i \in Call : ReadAll(i)
  BY <1>14, Entries DEF ReadAll, Moves, diskVars
<1>15. CASE \E i \in Call : Report(i)
  BY <1>15, Entries DEF Report, Moves, diskVars
<1>16. CASE \E i \in Call : CallFails(i)
  BY <1>16, Entries DEF CallFails, Forgets, Moves, diskVars
<1>17. CASE \E i \in Call, j \in File : PullStart(i, j)
  BY <1>17, Entries DEF PullStart, Moves, diskVars
<1>18. CASE \E i \in Call, j \in File : ReadFile(i, j)
  BY <1>18, Entries DEF ReadFile, diskVars
<1>19. CASE \E i \in Call, j \in File : ReadFails(i, j)
  BY <1>19, Entries DEF ReadFails, Forgets, Moves, diskVars
<1>20. CASE \E i \in Call : OpenTmp(i)
  BY <1>20, Entries DEF OpenTmp, Moves, diskVars
<1>21. CASE \E i \in Call : WriteFails(i)
  BY <1>21, Entries DEF WriteFails, Puts, Text, Forgets, Moves, diskVars
<1> QED
  BY <1>1, <1>2, <1>3, <1>4, <1>5, <1>6, <1>7, <1>8, <1>9, <1>10, <1>11,
     <1>12, <1>13, <1>14, <1>15, <1>16, <1>17, <1>18, <1>19,
     <1>20, <1>21 DEF Next

(* A call that ends has met whoever runs on.                               *)
LEMMA Ended ==
  ASSUME PullInv, NEW c \in Call, NEW at \in {"cache", "list", "sync", "pull", "write", "rename", "read",
                    "report"},
         NEW over \in Over, Moves(c, at, over), UNCHANGED met
  PROVE  Meetings'
<1> USE CallsAssumption DEF PullInv, TypeOK, Meetings, Running, Over, Moves
<1>1. \A d \in Call : pc'[d] = IF d = c THEN over ELSE pc[d]
  OBVIOUS
<1>2. c \in Running /\ \A d \in Running' : d \in Running /\ d # c
  BY <1>1
<1>3. \A d \in Call : {c, d} = {d, c}
  OBVIOUS
<1> QED
  BY <1>1, <1>2, <1>3

(* Who runs with whom is noted when the later one starts; none starts      *)
(* after a seal is over.                                                   *)
LEMMA MeetingsStep ==
  ASSUME PullInv, [Next]_vars
  PROVE  Meetings'
<1> USE CallsAssumption DEF PullInv, TypeOK, Meetings, Running, Over, Synced
<1>1. CASE UNCHANGED vars
  BY <1>1 DEF vars, diskVars
<1>2. CASE \E i \in File : AppLogs(i)
  BY <1>2 DEF AppLogs, diskVars
<1>3. CASE \E i \in File : AppDeletes(i)
  BY <1>3 DEF AppDeletes, diskVars
<1>4. CASE \E i \in Call : Start(i)
  <2> SUFFICES ASSUME NEW c \in Call, Start(c) PROVE Meetings'
    BY <1>4
  <2>1. \A d \in Call : pc'[d] = IF d = c THEN "cache" ELSE pc[d]
    BY DEF Start, Moves
  <2>2. \A d \in Running : {c, d} \in met'
    BY DEF Start
  <2>3. \A pair \in met' : \A d \in pair : pc'[d] # "idle"
    BY <2>1 DEF Start
  <2>4. \A d, e \in Running' : d # e => {d, e} \in met'
    <3> SUFFICES ASSUME NEW d \in Running', NEW e \in Running', d # e
                 PROVE  {d, e} \in met'
      OBVIOUS
    <3>1. d \in Call /\ e \in Call /\ {c, d} = {d, c}
      OBVIOUS
    <3>2. CASE d # c /\ e # c
      BY <2>1, <3>1, <3>2 DEF Start
    <3>3. CASE d = c \/ e = c
      BY <2>1, <2>2, <3>1, <3>3
    <3> QED
      BY <3>2, <3>3
  <2>5. \A d \in Seal, e \in Running' : pc'[d] \in Over => {d, e} \in met'
    BY <2>1 DEF Start
  <2> QED
    BY <2>3, <2>4, <2>5
<1>5. CASE \E i \in Call : Refused(i)
  BY <1>5 DEF Refused, Moves, diskVars
<1>6. CASE \E i \in Call : ReadMtimeCache(i)
  BY <1>6 DEF ReadMtimeCache, Moves, diskVars
<1>7. CASE \E i \in Call : ListDeviceFiles(i)
  BY <1>7 DEF ListDeviceFiles, StatDeviceFile, Moves, diskVars
<1>8. CASE \E i \in Call : PullEnd(i)
  BY <1>8 DEF PullEnd, Moves, diskVars
<1>9. CASE \E i \in Call : PullFails(i)
  BY <1>9, Ended DEF PullFails
<1>10. CASE \E i \in Call : NothingPulled(i)
  <2> SUFFICES ASSUME NEW c \in Call, NothingPulled(c) PROVE Meetings'
    BY <1>10
  <2>1. pc[c] = "sync" /\ \A d \in Call : pc'[d] = IF d = c THEN Synced(c) ELSE pc[d]
    BY DEF NothingPulled, Moves
  <2>2. Running' = Running /\ UNCHANGED met
    BY <2>1 DEF NothingPulled
  <2> QED
    BY <2>1, <2>2
<1>11. CASE \E i \in Call : WriteTmp(i)
  BY <1>11 DEF WriteTmp, Puts, Moves, diskVars
<1>12. CASE \E i \in Call : Rename(i)
  BY <1>12 DEF Rename, Moves, diskVars
<1>13. CASE \E i \in Call : RenameFails(i)
  BY <1>13, Ended DEF RenameFails
<1>14. CASE \E i \in Call : ReadAll(i)
  BY <1>14 DEF ReadAll, Moves, diskVars
<1>15. CASE \E i \in Call : Report(i)
  BY <1>15, Ended DEF Report
<1>16. CASE \E i \in Call : CallFails(i)
  BY <1>16, Ended DEF CallFails
<1>17. CASE \E i \in Call, j \in File : PullStart(i, j)
  BY <1>17 DEF PullStart, Moves, diskVars
<1>18. CASE \E i \in Call, j \in File : ReadFile(i, j)
  BY <1>18 DEF ReadFile, diskVars
<1>19. CASE \E i \in Call, j \in File : ReadFails(i, j)
  BY <1>19, Ended DEF ReadFails
<1>20. CASE \E i \in Call : OpenTmp(i)
  BY <1>20 DEF OpenTmp, Moves, diskVars
<1>21. CASE \E i \in Call : WriteFails(i)
  BY <1>21, Ended DEF WriteFails
<1> QED
  BY <1>1, <1>2, <1>3, <1>4, <1>5, <1>6, <1>7, <1>8, <1>9, <1>10, <1>11,
     <1>12, <1>13, <1>14, <1>15, <1>16, <1>17, <1>18, <1>19,
     <1>20, <1>21 DEF Next

-----------------------------------------------------------------------------
(* What a step does to one file and one call.                              *)

(* What has happened stays so.                                             *)
LEMMA Grows ==
  ASSUME TypeOK, Stages, [Next]_vars
  PROVE  /\ met \subseteq met'
         /\ \A c \in Call : pulled[c] \subseteq pulled'[c]
         /\ \A c \in Call, f \in File : /\ Pulled(c, f) => Pulled(c, f)'
                                        /\ Missed(c, f) => Missed(c, f)'
<1> USE CallsAssumption DEF TypeOK, Pulled, Missed, Over
<1>1. CASE UNCHANGED vars
  BY <1>1 DEF vars, diskVars
<1>2. CASE \E i \in File : AppLogs(i)
  BY <1>2 DEF AppLogs, diskVars
<1>3. CASE \E i \in File : AppDeletes(i)
  BY <1>3 DEF AppDeletes, diskVars
<1>4. CASE \E i \in Call : Start(i)
  BY <1>4 DEF Start, Moves, diskVars
<1>5. CASE \E i \in Call : Refused(i)
  BY <1>5 DEF Refused, Moves, diskVars
<1>6. CASE \E i \in Call : ReadMtimeCache(i)
  BY <1>6 DEF ReadMtimeCache, Moves, diskVars
<1>7. CASE \E i \in Call : ListDeviceFiles(i)
  BY <1>7 DEF ListDeviceFiles, StatDeviceFile, Moves, diskVars
<1>8. CASE \E i \in Call : PullEnd(i)
  BY <1>8 DEF PullEnd, Moves, diskVars
<1>9. CASE \E i \in Call : PullFails(i)
  BY <1>9 DEF PullFails, Forgets, Remains, Moves, diskVars
<1>10. CASE \E i \in Call : NothingPulled(i)
  BY <1>10 DEF NothingPulled, Moves, diskVars
<1>11. CASE \E i \in Call : WriteTmp(i)
  BY <1>11 DEF WriteTmp, Puts, Moves, diskVars
<1>12. CASE \E i \in Call : Rename(i)
  BY <1>12 DEF Rename, Moves, diskVars
<1>13. CASE \E i \in Call : RenameFails(i)
  BY <1>13 DEF RenameFails, Forgets, Moves, diskVars
<1>14. CASE \E i \in Call : ReadAll(i)
  BY <1>14 DEF ReadAll, Moves, diskVars
<1>15. CASE \E i \in Call : Report(i)
  BY <1>15 DEF Report, Moves, diskVars
<1>16. CASE \E i \in Call : CallFails(i)
  BY <1>16 DEF CallFails, Forgets, Moves, diskVars
<1>17. CASE \E i \in Call, j \in File : PullStart(i, j)
  <2>1. \A c \in Call : pc[c] = "sync" => pulling[c] \in pulled[c] \union {None}
    BY DEF Stages
  <2> QED
    BY <1>17, <2>1 DEF PullStart, Moves, diskVars
<1>18. CASE \E i \in Call, j \in File : ReadFile(i, j)
  BY <1>18 DEF ReadFile, diskVars
<1>19. CASE \E i \in Call, j \in File : ReadFails(i, j)
  BY <1>19 DEF ReadFails, Forgets, Moves, diskVars
<1>20. CASE \E i \in Call : OpenTmp(i)
  BY <1>20 DEF OpenTmp, Moves, diskVars
<1>21. CASE \E i \in Call : WriteFails(i)
  BY <1>21 DEF WriteFails, Puts, Text, Forgets, Moves, diskVars
<1> QED
  BY <1>1, <1>2, <1>3, <1>4, <1>5, <1>6, <1>7, <1>8, <1>9, <1>10, <1>11,
     <1>12, <1>13, <1>14, <1>15, <1>16, <1>17, <1>18, <1>19,
     <1>20, <1>21 DEF Next

(* Where a call can go from where it is.                                   *)
LEMMA PcSteps ==
  ASSUME TypeOK, [Next]_vars, NEW c \in Call
  PROVE  \/ pc'[c] = pc[c]
         \/ pc[c] = "idle" /\ pc'[c] = "cache"
         \/ pc[c] = "idle" /\ pc'[c] = "failed" /\ c \notin Seal
         \/ pc[c] = "cache" /\ pc'[c] = "list"
         \/ pc[c] = "list" /\ pc'[c] = "sync"
         \/ pc[c] = "sync" /\ pc'[c] \in {"pull", "write", "read", "report"}
         \/ pc[c] = "pull" /\ pc'[c] = "sync"
         \/ pc[c] = "write" /\ pc'[c] = "rename"
         \/ pc[c] = "rename" /\ pc'[c] \in {"read", "report"}
         \/ pc[c] = "read" /\ pc'[c] = "report"
         \/ pc[c] = "report" /\ pc'[c] = "done"
         \/ pc[c] \in {"cache", "list", "sync", "pull", "write", "rename",
                       "read", "report"}
            /\ pc'[c] = "failed"
<1> USE CallsAssumption DEF TypeOK, Over, Synced
<1>1. CASE UNCHANGED vars
  BY <1>1 DEF vars, diskVars
<1>2. CASE \E i \in File : AppLogs(i)
  BY <1>2 DEF AppLogs, diskVars
<1>3. CASE \E i \in File : AppDeletes(i)
  BY <1>3 DEF AppDeletes, diskVars
<1>4. CASE \E i \in Call : Start(i)
  BY <1>4 DEF Start, Moves, diskVars
<1>5. CASE \E i \in Call : Refused(i)
  BY <1>5 DEF Refused, Moves, diskVars
<1>6. CASE \E i \in Call : ReadMtimeCache(i)
  BY <1>6 DEF ReadMtimeCache, Moves, diskVars
<1>7. CASE \E i \in Call : ListDeviceFiles(i)
  BY <1>7 DEF ListDeviceFiles, StatDeviceFile, Moves, diskVars
<1>8. CASE \E i \in Call : PullEnd(i)
  BY <1>8 DEF PullEnd, Moves, diskVars
<1>9. CASE \E i \in Call : PullFails(i)
  BY <1>9 DEF PullFails, Forgets, Remains, Moves, diskVars
<1>10. CASE \E i \in Call : NothingPulled(i)
  BY <1>10 DEF NothingPulled, Moves, diskVars
<1>11. CASE \E i \in Call : WriteTmp(i)
  BY <1>11 DEF WriteTmp, Puts, Moves, diskVars
<1>12. CASE \E i \in Call : Rename(i)
  BY <1>12 DEF Rename, Moves, diskVars
<1>13. CASE \E i \in Call : RenameFails(i)
  BY <1>13 DEF RenameFails, Forgets, Moves, diskVars
<1>14. CASE \E i \in Call : ReadAll(i)
  BY <1>14 DEF ReadAll, Moves, diskVars
<1>15. CASE \E i \in Call : Report(i)
  BY <1>15 DEF Report, Moves, diskVars
<1>16. CASE \E i \in Call : CallFails(i)
  BY <1>16 DEF CallFails, Forgets, Moves, diskVars
<1>17. CASE \E i \in Call, j \in File : PullStart(i, j)
  BY <1>17 DEF PullStart, Moves, diskVars
<1>18. CASE \E i \in Call, j \in File : ReadFile(i, j)
  BY <1>18 DEF ReadFile, diskVars
<1>19. CASE \E i \in Call, j \in File : ReadFails(i, j)
  BY <1>19 DEF ReadFails, Forgets, Moves, diskVars
<1>20. CASE \E i \in Call : OpenTmp(i)
  BY <1>20 DEF OpenTmp, Moves, diskVars
<1>21. CASE \E i \in Call : WriteFails(i)
  BY <1>21 DEF WriteFails, Puts, Text, Forgets, Moves, diskVars
<1> QED
  BY <1>1, <1>2, <1>3, <1>4, <1>5, <1>6, <1>7, <1>8, <1>9, <1>10, <1>11,
     <1>12, <1>13, <1>14, <1>15, <1>16, <1>17, <1>18, <1>19,
     <1>20, <1>21 DEF Next

(* A file stays as it is, is deleted for good, or is longer.               *)
LEMMA DeviceSteps ==
  ASSUME TypeOK, MtimeOrder, [Next]_vars, NEW f \in File
  PROVE  \/ device'[f] = device[f]
         \/ device'[f] = None /\ f \in Rolled
         \/ /\ device'[f] # None
            /\ IF device[f] = None THEN f \notin Rolled
                                   ELSE device[f].size < device'[f].size
<1> USE CallsAssumption DEF TypeOK
<1>1. CASE UNCHANGED device
  BY <1>1, Entries
<1>2. CASE \E i \in File : AppLogs(i)
  <2>1. PICK g \in File : AppLogs(g)
    BY <1>2
  <2>2. PICK e \in Stat : /\ device' = [device EXCEPT ![g] = e]
                          /\ device[g] # None => device[g].size < e.size
    BY <2>1, AppendIsLonger
  <2> QED
    BY <2>1, <2>2, Entries DEF AppLogs
<1>3. CASE \E i \in File : AppDeletes(i)
  BY <1>3, Entries DEF AppDeletes, diskVars
<1> QED
  BY <1>1, <1>2, <1>3 DEF Next, vars, diskVars, Start, Refused,
     ReadMtimeCache, ListDeviceFiles, PullEnd, PullFails, NothingPulled,
     OpenTmp, WriteTmp, Puts, WriteFails, Rename, RenameFails, ReadAll, Report, CallFails, PullStart,
     ReadFile, ReadFails

(* The entries a call has are those it had, or it forgets them, reads the  *)
(* cache, or has pulled a file.                                            *)
LEMMA MemSteps ==
  ASSUME TypeOK, Stages, [Next]_vars, NEW c \in Call, NEW f \in File
  PROVE  \/ mem'[c][f] = mem[c][f]
         \/ mem'[c][f] = None /\ pc'[c] \in Over
         \/ /\ pc[c] = "cache" /\ pc'[c] = "list"
            /\ mem'[c][f] = Cached(f) /\ UNCHANGED <<cache, device>>
         \/ /\ pc[c] = "pull" /\ pc'[c] = "sync" /\ pulling[c] = f
            /\ mem'[c][f] = listing[c][f] /\ f \in pulled'[c]
<1> USE CallsAssumption DEF TypeOK, Over, NoFiles
<1>1. CASE UNCHANGED vars
  BY <1>1 DEF vars, diskVars
<1>2. CASE \E i \in File : AppLogs(i)
  BY <1>2 DEF AppLogs, diskVars
<1>3. CASE \E i \in File : AppDeletes(i)
  BY <1>3 DEF AppDeletes, diskVars
<1>4. CASE \E i \in Call : Start(i)
  BY <1>4 DEF Start, Moves, diskVars
<1>5. CASE \E i \in Call : Refused(i)
  BY <1>5 DEF Refused, Moves, diskVars
<1>6. CASE \E i \in Call : ReadMtimeCache(i)
  BY <1>6 DEF ReadMtimeCache, Cached, Moves, diskVars
<1>7. CASE \E i \in Call : ListDeviceFiles(i)
  BY <1>7 DEF ListDeviceFiles, StatDeviceFile, Moves, diskVars
<1>8. CASE \E i \in Call : PullEnd(i)
  BY <1>8 DEF PullEnd, Moves, diskVars
<1>9. CASE \E i \in Call : PullFails(i)
  BY <1>9 DEF PullFails, Forgets, Remains, Moves, diskVars
<1>10. CASE \E i \in Call : NothingPulled(i)
  BY <1>10 DEF NothingPulled, Moves, diskVars
<1>11. CASE \E i \in Call : WriteTmp(i)
  BY <1>11 DEF WriteTmp, Puts, Moves, diskVars
<1>12. CASE \E i \in Call : Rename(i)
  BY <1>12 DEF Rename, Moves, diskVars
<1>13. CASE \E i \in Call : RenameFails(i)
  BY <1>13 DEF RenameFails, Forgets, Moves, diskVars
<1>14. CASE \E i \in Call : ReadAll(i)
  BY <1>14 DEF ReadAll, Moves, diskVars
<1>15. CASE \E i \in Call : Report(i)
  BY <1>15 DEF Report, Moves, diskVars
<1>16. CASE \E i \in Call : CallFails(i)
  BY <1>16 DEF CallFails, Forgets, Moves, diskVars
<1>17. CASE \E i \in Call, j \in File : PullStart(i, j)
  BY <1>17 DEF PullStart, Moves, diskVars
<1>18. CASE \E i \in Call, j \in File : ReadFile(i, j)
  BY <1>18 DEF ReadFile, diskVars
<1>19. CASE \E i \in Call, j \in File : ReadFails(i, j)
  BY <1>19 DEF ReadFails, Forgets, Moves, diskVars
<1>20. CASE \E i \in Call : OpenTmp(i)
  BY <1>20 DEF OpenTmp, Moves, diskVars
<1>21. CASE \E i \in Call : WriteFails(i)
  BY <1>21 DEF WriteFails, Puts, Text, Forgets, Moves, diskVars
<1> QED
  BY <1>1, <1>2, <1>3, <1>4, <1>5, <1>6, <1>7, <1>8, <1>9, <1>10, <1>11,
     <1>12, <1>13, <1>14, <1>15, <1>16, <1>17, <1>18, <1>19,
     <1>20, <1>21 DEF Next

(* The cache stays as it is, or a call that has pulled something replaces  *)
(* it, or writes to it, by what such a call has or by what is no cache.    *)
LEMMA CacheSteps ==
  ASSUME TypeOK, Stages, TmpHasWriter, [Next]_vars
  PROVE  \/ UNCHANGED cache
         \/ \E c \in Call :
               /\ pc[c] \in {"write", "rename"} /\ pulled[c] # {}
               /\ UNCHANGED device
               /\ \A e \in Call : pc[e] = "pull" => pc'[e] = "pull"
               /\ \/ cache' \in Broken
                  \/ \E d \in Call : /\ pc[d] \in {"write", "rename"}
                                     /\ pulled[d] # {} /\ cache' = mem[d]
<1> USE DEF TypeOK, Over
<1>1. CASE UNCHANGED cache
  BY <1>1
<1>2. CASE \E i \in Call : Rename(i)
  <2>1. PICK c \in Call : Rename(c)
    BY <1>2
  <2>2. pc[c] = "rename" /\ stamp[c] \in Stamp /\ pulled[c] # {}
    BY <2>1 DEF Rename, Moves, Stages
  <2>3. \A e \in Call : pc[e] = "pull" => pc'[e] = "pull"
    BY <2>1, <2>2 DEF Rename, Moves
  <2>4. cache' = tmp[stamp[c]] /\ cache' # None /\ UNCHANGED device
    BY <2>1 DEF Rename
  <2>5. CASE cache' \notin Broken
    <3>1. PICK d \in Call : pc[d] = "rename" /\ tmp[stamp[c]] = mem[d]
      BY <2>2, <2>4, <2>5 DEF TmpHasWriter
    <3>2. pulled[d] # {}
      BY <3>1 DEF Stages
    <3> QED
      BY <2>2, <2>3, <2>4, <3>1, <3>2
  <2> QED
    BY <2>2, <2>3, <2>4, <2>5
<1>3. CASE \E i \in Call : WriteTmp(i) \/ WriteFails(i)
  <2>1. PICK c \in Call : WriteTmp(c) \/ WriteFails(c)
    BY <1>3
  <2>2. pc[c] = "write" /\ pulled[c] # {} /\ UNCHANGED device
    BY <2>1 DEF WriteTmp, WriteFails, Moves, Stages
  <2>3. \A e \in Call : pc[e] = "pull" => pc'[e] = "pull"
    BY <2>1, <2>2 DEF WriteTmp, WriteFails, Moves
  <2>4. cache' = cache \/ cache' = mem[c] \/ cache' \in Broken
    BY <2>1 DEF WriteTmp, WriteFails, Puts, Text, Broken
  <2> QED
    BY <2>2, <2>3, <2>4
<1> QED
  BY <1>1, <1>2, <1>3 DEF Next, vars, diskVars, AppLogs, AppDeletes, Start,
     Refused, ReadMtimeCache, ListDeviceFiles, PullEnd, PullFails,
     NothingPulled, OpenTmp, RenameFails, ReadAll, Report, CallFails,
     PullStart, ReadFile, ReadFails

(* The same of what the cache says of one file.                            *)
LEMMA CachedSteps ==
  ASSUME TypeOK, Stages, TmpHasWriter, [Next]_vars, NEW f \in File
  PROVE  \/ UNCHANGED cache /\ Cached(f)' = Cached(f)
         \/ \E c \in Call :
               /\ pc[c] \in {"write", "rename"} /\ pulled[c] # {}
               /\ UNCHANGED device
               /\ \A e \in Call : pc[e] = "pull" => pc'[e] = "pull"
               /\ \/ Cached(f)' = None
                  \/ \E d \in Call : /\ pc[d] \in {"write", "rename"}
                                     /\ pulled[d] # {} /\ Cached(f)' = mem[d][f]
<1>1. \A d \in Call : mem[d] \notin Broken
  BY Texts DEF TypeOK
<1> QED
  BY <1>1, CacheSteps DEF Cached

(* The listing of a call is the one it had, is forgotten, or is now taken. *)
LEMMA ListingSteps ==
  ASSUME TypeOK, Stages, [Next]_vars, NEW c \in Call, NEW f \in File
  PROVE  \/ listing'[c][f] = listing[c][f] /\ ~(pc[c] = "list" /\ pc'[c] = "sync")
         \/ listing'[c][f] = None /\ pc'[c] \in Over
         \/ /\ pc[c] = "list" /\ pc'[c] = "sync" /\ listing'[c][f] = device[f]
            /\ UNCHANGED <<device, mem, local, pulling, pulled, met>>
<1> USE CallsAssumption DEF TypeOK, Over, NoFiles
<1>1. CASE UNCHANGED vars
  BY <1>1 DEF vars, diskVars
<1>2. CASE \E i \in File : AppLogs(i)
  BY <1>2 DEF AppLogs, diskVars
<1>3. CASE \E i \in File : AppDeletes(i)
  BY <1>3 DEF AppDeletes, diskVars
<1>4. CASE \E i \in Call : Start(i)
  BY <1>4 DEF Start, Moves, diskVars
<1>5. CASE \E i \in Call : Refused(i)
  BY <1>5 DEF Refused, Moves, diskVars
<1>6. CASE \E i \in Call : ReadMtimeCache(i)
  BY <1>6 DEF ReadMtimeCache, Moves, diskVars
<1>7. CASE \E i \in Call : ListDeviceFiles(i)
  BY <1>7 DEF ListDeviceFiles, StatDeviceFile, Moves, diskVars
<1>8. CASE \E i \in Call : PullEnd(i)
  BY <1>8 DEF PullEnd, Moves, diskVars
<1>9. CASE \E i \in Call : PullFails(i)
  BY <1>9 DEF PullFails, Forgets, Remains, Moves, diskVars
<1>10. CASE \E i \in Call : NothingPulled(i)
  BY <1>10 DEF NothingPulled, Moves, diskVars
<1>11. CASE \E i \in Call : WriteTmp(i)
  BY <1>11 DEF WriteTmp, Puts, Moves, diskVars
<1>12. CASE \E i \in Call : Rename(i)
  BY <1>12 DEF Rename, Moves, diskVars
<1>13. CASE \E i \in Call : RenameFails(i)
  BY <1>13 DEF RenameFails, Forgets, Moves, diskVars
<1>14. CASE \E i \in Call : ReadAll(i)
  BY <1>14 DEF ReadAll, Moves, diskVars
<1>15. CASE \E i \in Call : Report(i)
  BY <1>15 DEF Report, Moves, diskVars
<1>16. CASE \E i \in Call : CallFails(i)
  BY <1>16 DEF CallFails, Forgets, Moves, diskVars
<1>17. CASE \E i \in Call, j \in File : PullStart(i, j)
  BY <1>17 DEF PullStart, Moves, diskVars
<1>18. CASE \E i \in Call, j \in File : ReadFile(i, j)
  BY <1>18 DEF ReadFile, diskVars
<1>19. CASE \E i \in Call, j \in File : ReadFails(i, j)
  BY <1>19 DEF ReadFails, Forgets, Moves, diskVars
<1>20. CASE \E i \in Call : OpenTmp(i)
  BY <1>20 DEF OpenTmp, Moves, diskVars
<1>21. CASE \E i \in Call : WriteFails(i)
  BY <1>21 DEF WriteFails, Puts, Text, Forgets, Moves, diskVars
<1> QED
  BY <1>1, <1>2, <1>3, <1>4, <1>5, <1>6, <1>7, <1>8, <1>9, <1>10, <1>11,
     <1>12, <1>13, <1>14, <1>15, <1>16, <1>17, <1>18, <1>19,
     <1>20, <1>21 DEF Next

(* A local copy changes only as a pull of it begins or ends.               *)
LEMMA LocalSteps ==
  ASSUME TypeOK, Stages, [Next]_vars, NEW f \in File
  PROVE  \/ local'[f] = local[f]
         \/ \E c \in Call : /\ pc[c] = "sync" /\ pc'[c] = "pull" /\ f \in Due(c)
                            /\ pulling'[c] = f /\ UNCHANGED <<mem, listing>>
         \/ \E c \in Call : pc[c] = "pull" /\ pulling[c] = f /\ pc'[c] # "pull"
<1> USE CallsAssumption DEF TypeOK, Stages, Running, Over, Pulled, Due,
        First
<1>1. CASE UNCHANGED local
  BY <1>1
<1>2. CASE \E i \in Call : PullEnd(i)
  BY <1>2 DEF PullEnd, Moves, diskVars
<1>3. CASE \E i \in Call : PullFails(i)
  BY <1>3 DEF PullFails, Forgets, Remains, Moves, diskVars
<1>4. CASE \E i \in Call, j \in File : PullStart(i, j)
  BY <1>4 DEF PullStart, Moves, diskVars
<1> QED
  BY <1>1, <1>2, <1>3, <1>4 DEF Next, vars, diskVars, AppLogs, AppDeletes,
     Start, Refused, ReadMtimeCache, ListDeviceFiles, NothingPulled,
     OpenTmp, WriteTmp, Puts, WriteFails, Rename, RenameFails, ReadAll, Report, CallFails, ReadFile,
     ReadFails

(* What a call takes for its cache is the one that is there.               *)
LEMMA ReadsCache ==
  ASSUME TypeOK, [Next]_vars, NEW c \in Call, pc[c] = "cache", pc'[c] = "list"
  PROVE  mem'[c] = cache' /\ cache' \notin Broken
<1> USE CallsAssumption DEF TypeOK, Over
<1>1. CASE UNCHANGED vars
  BY <1>1 DEF vars, diskVars
<1>2. CASE \E i \in File : AppLogs(i)
  BY <1>2 DEF AppLogs, diskVars
<1>3. CASE \E i \in File : AppDeletes(i)
  BY <1>3 DEF AppDeletes, diskVars
<1>4. CASE \E i \in Call : Start(i)
  BY <1>4 DEF Start, Moves, diskVars
<1>5. CASE \E i \in Call : Refused(i)
  BY <1>5 DEF Refused, Moves, diskVars
<1>6. CASE \E i \in Call : ReadMtimeCache(i)
  BY <1>6 DEF ReadMtimeCache, Moves, diskVars
<1>7. CASE \E i \in Call : ListDeviceFiles(i)
  BY <1>7 DEF ListDeviceFiles, StatDeviceFile, Moves, diskVars
<1>8. CASE \E i \in Call : PullEnd(i)
  BY <1>8 DEF PullEnd, Moves, diskVars
<1>9. CASE \E i \in Call : PullFails(i)
  BY <1>9 DEF PullFails, Forgets, Remains, Moves, diskVars
<1>10. CASE \E i \in Call : NothingPulled(i)
  BY <1>10 DEF NothingPulled, Moves, diskVars
<1>11. CASE \E i \in Call : WriteTmp(i)
  BY <1>11 DEF WriteTmp, Puts, Moves, diskVars
<1>12. CASE \E i \in Call : Rename(i)
  BY <1>12 DEF Rename, Moves, diskVars
<1>13. CASE \E i \in Call : RenameFails(i)
  BY <1>13 DEF RenameFails, Forgets, Moves, diskVars
<1>14. CASE \E i \in Call : ReadAll(i)
  BY <1>14 DEF ReadAll, Moves, diskVars
<1>15. CASE \E i \in Call : Report(i)
  BY <1>15 DEF Report, Moves, diskVars
<1>16. CASE \E i \in Call : CallFails(i)
  BY <1>16 DEF CallFails, Forgets, Moves, diskVars
<1>17. CASE \E i \in Call, j \in File : PullStart(i, j)
  BY <1>17 DEF PullStart, Moves, diskVars
<1>18. CASE \E i \in Call, j \in File : ReadFile(i, j)
  BY <1>18 DEF ReadFile, diskVars
<1>19. CASE \E i \in Call, j \in File : ReadFails(i, j)
  BY <1>19 DEF ReadFails, Forgets, Moves, diskVars
<1>20. CASE \E i \in Call : OpenTmp(i)
  BY <1>20 DEF OpenTmp, Moves, diskVars
<1>21. CASE \E i \in Call : WriteFails(i)
  BY <1>21 DEF WriteFails, Puts, Text, Forgets, Moves, diskVars
<1> QED
  BY <1>1, <1>2, <1>3, <1>4, <1>5, <1>6, <1>7, <1>8, <1>9, <1>10, <1>11,
     <1>12, <1>13, <1>14, <1>15, <1>16, <1>17, <1>18, <1>19,
     <1>20, <1>21 DEF Next

(* When the pull of a file ends and no other is under way, the copy has    *)
(* all of it, unless that pull fails.                                      *)
LEMMA PullEnds ==
  ASSUME TypeOK, Stages, [Next]_vars, NEW d \in Call, NEW f \in File, pc[d] = "pull", pulling[d] = f, \A e \in Call : ~(pc'[e] = "pull" /\ pulling'[e] = f)
  PROVE  local'[f] = device[f].size \/ Missed(d, f)'
<1> USE CallsAssumption DEF TypeOK, Over, Missed
<1>1. CASE UNCHANGED vars
  BY <1>1 DEF vars, diskVars
<1>2. CASE \E i \in File : AppLogs(i)
  BY <1>2 DEF AppLogs, diskVars
<1>3. CASE \E i \in File : AppDeletes(i)
  BY <1>3 DEF AppDeletes, diskVars
<1>4. CASE \E i \in Call : Start(i)
  BY <1>4 DEF Start, Moves, diskVars
<1>5. CASE \E i \in Call : Refused(i)
  BY <1>5 DEF Refused, Moves, diskVars
<1>6. CASE \E i \in Call : ReadMtimeCache(i)
  BY <1>6 DEF ReadMtimeCache, Moves, diskVars
<1>7. CASE \E i \in Call : ListDeviceFiles(i)
  BY <1>7 DEF ListDeviceFiles, StatDeviceFile, Moves, diskVars
<1>8. CASE \E i \in Call : PullEnd(i)
  BY <1>8 DEF PullEnd, Moves, diskVars
<1>9. CASE \E i \in Call : PullFails(i)
  <2>1. f \notin pulled[d]
    BY DEF Stages, Due, Unchanged, Running
  <2> QED
    BY <1>9, <2>1 DEF PullFails, Forgets, Moves, diskVars
<1>10. CASE \E i \in Call : NothingPulled(i)
  BY <1>10 DEF NothingPulled, Moves, diskVars
<1>11. CASE \E i \in Call : WriteTmp(i)
  BY <1>11 DEF WriteTmp, Puts, Moves, diskVars
<1>12. CASE \E i \in Call : Rename(i)
  BY <1>12 DEF Rename, Moves, diskVars
<1>13. CASE \E i \in Call : RenameFails(i)
  BY <1>13 DEF RenameFails, Forgets, Moves, diskVars
<1>14. CASE \E i \in Call : ReadAll(i)
  BY <1>14 DEF ReadAll, Moves, diskVars
<1>15. CASE \E i \in Call : Report(i)
  BY <1>15 DEF Report, Moves, diskVars
<1>16. CASE \E i \in Call : CallFails(i)
  BY <1>16 DEF CallFails, Forgets, Moves, diskVars
<1>17. CASE \E i \in Call, j \in File : PullStart(i, j)
  BY <1>17 DEF PullStart, Moves, diskVars
<1>18. CASE \E i \in Call, j \in File : ReadFile(i, j)
  BY <1>18 DEF ReadFile, diskVars
<1>19. CASE \E i \in Call, j \in File : ReadFails(i, j)
  BY <1>19 DEF ReadFails, Forgets, Moves, diskVars
<1>20. CASE \E i \in Call : OpenTmp(i)
  BY <1>20 DEF OpenTmp, Moves, diskVars
<1>21. CASE \E i \in Call : WriteFails(i)
  BY <1>21 DEF WriteFails, Puts, Text, Forgets, Moves, diskVars
<1> QED
  BY <1>1, <1>2, <1>3, <1>4, <1>5, <1>6, <1>7, <1>8, <1>9, <1>10, <1>11,
     <1>12, <1>13, <1>14, <1>15, <1>16, <1>17, <1>18, <1>19,
     <1>20, <1>21 DEF Next

(* A temporary file is written by the call that renames it next, over      *)
(* whatever had its name.                                                  *)
LEMMA TmpHasWriterStep ==
  ASSUME PullInv, [Next]_vars
  PROVE  TmpHasWriter'
<1> USE CallsAssumption DEF PullInv, TypeOK, TmpHasWriter, NoFiles, Over,
        Synced
<1>1. CASE UNCHANGED vars
  BY <1>1 DEF vars, diskVars
<1>2. CASE \E i \in File : AppLogs(i)
  BY <1>2 DEF AppLogs, diskVars
<1>3. CASE \E i \in File : AppDeletes(i)
  BY <1>3 DEF AppDeletes, diskVars
<1>4. CASE \E i \in Call : Start(i)
  BY <1>4 DEF Start, Moves, diskVars
<1>5. CASE \E i \in Call : Refused(i)
  BY <1>5 DEF Refused, Moves, diskVars
<1>6. CASE \E i \in Call : ReadMtimeCache(i)
  BY <1>6 DEF ReadMtimeCache, Moves, diskVars
<1>7. CASE \E i \in Call : ListDeviceFiles(i)
  BY <1>7 DEF ListDeviceFiles, StatDeviceFile, Moves, diskVars
<1>8. CASE \E i \in Call : PullEnd(i)
  BY <1>8 DEF PullEnd, Moves, diskVars
<1>9. CASE \E i \in Call : PullFails(i)
  BY <1>9 DEF PullFails, Forgets, Remains, Moves, diskVars
<1>10. CASE \E i \in Call : NothingPulled(i)
  BY <1>10 DEF NothingPulled, Moves, diskVars
<1>11. CASE \E i \in Call : WriteTmp(i)
  <2> SUFFICES ASSUME NEW c \in Call, WriteTmp(c), NEW t \in Stamp,
                      tmp'[t] \notin Broken \union {None}
               PROVE  \E d \in Call : /\ pc'[d] = "rename" /\ stamp'[d] = t
                                      /\ tmp'[t] = mem'[d]
    BY <1>11
  <2>1. pc[c] = "write" /\ pc' = [pc EXCEPT ![c] = "rename"] /\ UNCHANGED <<mem, stamp>>
    BY DEF WriteTmp, Moves
  <2>2. CASE tmp'[t] = tmp[t]
    <3>1. PICK d \in Call : pc[d] = "rename" /\ stamp[d] = t /\ tmp[t] = mem[d]
      BY <2>2
    <3> QED
      BY <2>1, <2>2, <3>1
  <2>3. CASE writing[c] = t /\ tmp'[t] = mem[c]
    <3>1. writing[c] \in {stamp[c], Cache, None}
      BY <2>1 DEF Stages
    <3>2. t # Cache /\ t # None
      BY CallsAssumption
    <3>3. stamp[c] = t
      BY <2>3, <3>1, <3>2
    <3> QED
      BY <2>1, <2>3, <3>3
  <2> QED
    BY <2>2, <2>3 DEF WriteTmp, Puts, Broken
<1>12. CASE \E i \in Call : Rename(i)
  <2> SUFFICES ASSUME NEW c \in Call, Rename(c), NEW t \in Stamp,
                      tmp'[t] \notin Broken \union {None}
               PROVE  \E d \in Call : /\ pc'[d] = "rename" /\ stamp'[d] = t
                                      /\ tmp'[t] = mem'[d]
    BY <1>12
  <2>1. stamp[c] \in Stamp
    BY DEF Rename, Moves, Stages
  <2>2. t # stamp[c] /\ tmp'[t] = tmp[t]
    BY <2>1 DEF Rename
  <2>3. PICK d \in Call : pc[d] = "rename" /\ stamp[d] = t /\ tmp[t] = mem[d]
    BY <2>2
  <2> QED
    BY <2>1, <2>2, <2>3 DEF Rename, Moves
<1>13. CASE \E i \in Call : RenameFails(i)
  BY <1>13 DEF RenameFails, Forgets, Moves, diskVars
<1>14. CASE \E i \in Call : ReadAll(i)
  BY <1>14 DEF ReadAll, Moves, diskVars
<1>15. CASE \E i \in Call : Report(i)
  BY <1>15 DEF Report, Moves, diskVars
<1>16. CASE \E i \in Call : CallFails(i)
  BY <1>16 DEF CallFails, Forgets, Moves, diskVars
<1>17. CASE \E i \in Call, j \in File : PullStart(i, j)
  BY <1>17 DEF PullStart, Moves, diskVars
<1>18. CASE \E i \in Call, j \in File : ReadFile(i, j)
  BY <1>18 DEF ReadFile, diskVars
<1>19. CASE \E i \in Call, j \in File : ReadFails(i, j)
  BY <1>19 DEF ReadFails, Forgets, Moves, diskVars
<1>20. CASE \E i \in Call : OpenTmp(i)
  <2> SUFFICES ASSUME NEW c \in Call, OpenTmp(c), NEW t \in Stamp,
                      tmp'[t] \notin Broken \union {None}
               PROVE  \E d \in Call : /\ pc'[d] = "rename" /\ stamp'[d] = t
                                      /\ tmp'[t] = mem'[d]
    BY <1>20
  <2>1. tmp'[t] = tmp[t]
    BY DEF OpenTmp, Broken
  <2>2. PICK d \in Call : pc[d] = "rename" /\ stamp[d] = t /\ tmp[t] = mem[d]
    BY <2>1
  <2> QED
    BY <2>1, <2>2 DEF OpenTmp, Moves
<1>21. CASE \E i \in Call : WriteFails(i)
  <2> SUFFICES ASSUME NEW c \in Call, WriteFails(c), NEW t \in Stamp,
                      tmp'[t] \notin Broken \union {None}
               PROVE  \E d \in Call : /\ pc'[d] = "rename" /\ stamp'[d] = t
                                      /\ tmp'[t] = mem'[d]
    BY <1>21
  <2>1. tmp'[t] = tmp[t]
    BY DEF WriteFails, Puts, Text, Broken
  <2>2. PICK d \in Call : pc[d] = "rename" /\ stamp[d] = t /\ tmp[t] = mem[d]
    BY <2>1
  <2> QED
    BY <2>1, <2>2 DEF WriteFails, Forgets, Moves
<1> QED
  BY <1>1, <1>2, <1>3, <1>4, <1>5, <1>6, <1>7, <1>8, <1>9, <1>10, <1>11,
     <1>12, <1>13, <1>14, <1>15, <1>16, <1>17, <1>18, <1>19,
     <1>20, <1>21 DEF Next

(* While a call has its file open, or has yet to rename it, only another   *)
(* call that writes or renames changes what is in it.                      *)
LEMMA TmpSteps ==
  ASSUME TypeOK, [Next]_vars, NEW c \in Call, pc'[c] \in {"write", "rename"}
  PROVE  \/ OpenTmp(c) \/ WriteTmp(c)
         \/ \E d \in Call \ {c} :
               OpenTmp(d) \/ WriteTmp(d) \/ WriteFails(d) \/ Rename(d)
         \/ /\ UNCHANGED tmp /\ pc'[c] = pc[c] /\ stamp'[c] = stamp[c]
            /\ writing'[c] = writing[c] /\ mem'[c] = mem[c]
<1> USE DEF TypeOK, Over, Synced
<1>1. CASE UNCHANGED vars
  BY <1>1 DEF vars, diskVars
<1>2. CASE \E i \in File : AppLogs(i) \/ AppDeletes(i)
  BY <1>2 DEF AppLogs, AppDeletes, diskVars
<1>3. CASE \E i \in Call : Start(i) \/ Refused(i) \/ ReadMtimeCache(i)
  BY <1>3 DEF Start, Refused, ReadMtimeCache, Moves, diskVars
<1>4. CASE \E i \in Call : ListDeviceFiles(i) \/ NothingPulled(i) \/ ReadAll(i)
  BY <1>4 DEF ListDeviceFiles, NothingPulled, ReadAll, Moves, diskVars
<1>5. CASE \E i \in Call : PullEnd(i) \/ Report(i)
  BY <1>5 DEF PullEnd, Report, Moves, diskVars
<1>6. CASE \E i \in Call : PullFails(i) \/ RenameFails(i) \/ CallFails(i)
  BY <1>6 DEF PullFails, RenameFails, CallFails, Forgets, Moves, diskVars
<1>7. CASE \E i \in Call, j \in File : PullStart(i, j) \/ ReadFile(i, j)
  BY <1>7 DEF PullStart, ReadFile, Moves, diskVars
<1>8. CASE \E i \in Call, j \in File : ReadFails(i, j)
  BY <1>8 DEF ReadFails, Forgets, Moves, diskVars
<1>9. CASE WriteFails(c) \/ Rename(c)
  BY <1>9 DEF WriteFails, Rename, Moves
<1> QED
  BY <1>1, <1>2, <1>3, <1>4, <1>5, <1>6, <1>7, <1>8, <1>9 DEF Next

(* Who has had company has had it.                                         *)
LEMMA AccompaniedStays ==
  ASSUME PullInv, [Next]_vars, NEW c \in Call, Accompanied(c)
  PROVE  Accompanied(c)'
BY Grows DEF PullInv, Accompanied

(* A call alone writes into the file that it has emptied, and renames what *)
(* it has written.                                                         *)
LEMMA WritesAloneStep ==
  ASSUME PullInv, [Next]_vars
  PROVE  WritesAlone'
<1> USE DEF PullInv
<1> SUFFICES ASSUME NEW c \in Call, ~Accompanied(c)',
                    pc'[c] \in {"write", "rename"}
             PROVE  /\ pc'[c] = "write" => /\ writing'[c] = stamp'[c]
                                           /\ tmp'[stamp'[c]] = Blank
                    /\ pc'[c] = "rename" => tmp'[stamp'[c]] = mem'[c]
  BY DEF WritesAlone
<1>1. ~Accompanied(c)
  BY AccompaniedStays
<1>2. CASE OpenTmp(c)
  BY <1>2 DEF OpenTmp, Moves, TypeOK
<1>3. CASE WriteTmp(c)
  <2>1. pc[c] = "write" /\ pc'[c] = "rename" /\ UNCHANGED <<mem, stamp>>
    BY <1>3 DEF WriteTmp, Moves, TypeOK
  <2>2. writing[c] = stamp[c] /\ stamp[c] \in Stamp /\ tmp[stamp[c]] = Blank
    BY <1>1, <2>1 DEF WritesAlone, Stages
  <2>3. Text(c) = Blank
    <3>1. writing[c] \in Stamp /\ tmp[writing[c]] = Blank
      BY <2>2
    <3> QED
      BY <3>1, CallsAssumption DEF Text
  <2>4. Puts(c, mem[c])
    BY <1>3, <2>3 DEF WriteTmp
  <2> QED
    BY <2>1, <2>2, <2>4 DEF Puts, TypeOK
<1>4. CASE \E d \in Call \ {c} :
              OpenTmp(d) \/ WriteTmp(d) \/ WriteFails(d) \/ Rename(d)
  <2>1. PICK d \in Call \ {c} :
               OpenTmp(d) \/ WriteTmp(d) \/ WriteFails(d) \/ Rename(d)
    BY <1>4
  <2>2. pc[d] \in {"sync", "write", "rename"} /\ pulled[d] # {}
    BY <2>1 DEF OpenTmp, WriteTmp, WriteFails, Rename, Moves, Stages
  <2>3. pc[c] \notin Over \union {"idle"}
    BY PcSteps DEF Over
  <2>4. {c, d} \in met
    BY <2>2, <2>3 DEF Meetings, Running, Over
  <2> QED
    BY <1>1, <2>2, <2>4 DEF Accompanied
<1>5. CASE /\ UNCHANGED tmp /\ pc'[c] = pc[c] /\ stamp'[c] = stamp[c]
           /\ writing'[c] = writing[c] /\ mem'[c] = mem[c]
  BY <1>1, <1>5 DEF WritesAlone
<1> QED
  BY <1>2, <1>3, <1>4, <1>5, TmpSteps

(* Whoever leaves a cache that is none has had company.                    *)
LEMMA TornByTwoStep ==
  ASSUME PullInv, [Next]_vars
  PROVE  TornByTwo'
<1> USE DEF PullInv
<1> SUFFICES ASSUME cache' \in Broken
             PROVE  \E c \in Call : pulled'[c] # {} /\ Accompanied(c)'
  BY DEF TornByTwo
<1>1. \A c \in Call : /\ pulled[c] # {} => pulled'[c] # {}
                      /\ Accompanied(c) => Accompanied(c)'
  BY Grows, AccompaniedStays
<1>2. CASE UNCHANGED cache
  BY <1>1, <1>2 DEF TornByTwo
<1>3. CASE \E c \in Call : Rename(c)
  <2>1. PICK c \in Call : Rename(c)
    BY <1>3
  <2>2. pc[c] = "rename" /\ cache' = tmp[stamp[c]]
    BY <2>1 DEF Rename, Moves
  <2>3. pulled[c] # {} /\ mem[c] \notin Broken
    BY <2>2, Texts DEF Stages, TypeOK
  <2>4. Accompanied(c)
    BY <2>2, <2>3 DEF WritesAlone
  <2> QED
    BY <1>1, <2>3, <2>4
<1>4. CASE /\ \E c \in Call : WriteTmp(c) \/ WriteFails(c)
           /\ cache' # cache
  <2>1. PICK c \in Call : WriteTmp(c) \/ WriteFails(c)
    BY <1>4
  <2>2. pc[c] = "write" /\ writing[c] = Cache
    BY <1>4, <2>1 DEF WriteTmp, WriteFails, Moves, Puts
  <2>3. pulled[c] # {} /\ writing[c] # stamp[c]
    BY <2>2, CallsAssumption DEF Stages
  <2>4. Accompanied(c)
    BY <2>2, <2>3 DEF WritesAlone
  <2> QED
    BY <1>1, <2>3, <2>4
<1> QED
  BY <1>2, <1>3, <1>4 DEF Next, vars, diskVars, AppLogs, AppDeletes, Start,
     Refused, ReadMtimeCache, ListDeviceFiles, PullEnd, PullFails,
     NothingPulled, OpenTmp, RenameFails, ReadAll, Report, CallFails,
     PullStart, ReadFile, ReadFails

(* Entries of the same mtime and size are the same.                        *)
LEMMA SameEntry ==
  ASSUME NEW e \in Entry, NEW x \in Entry, e # None, x # None,
         e.mtime = x.mtime, e.size = x.size
  PROVE  e = x
BY Entries DEF Stat

(* A pull that ends and leaves its call running is one that succeeded.     *)
LEMMA EndsPull ==
  ASSUME TypeOK, [Next]_vars, NEW c \in Call, pc[c] = "pull",
         pc'[c] \notin Over \union {"pull"}
  PROVE  PullEnd(c)
BY DEF TypeOK, Over, Next, vars, diskVars, Moves, AppLogs, AppDeletes, Start,
       Refused, ReadMtimeCache, ListDeviceFiles, PullEnd, PullFails,
       NothingPulled, OpenTmp, WriteTmp, Puts, WriteFails, Rename, RenameFails, ReadAll, Report,
       CallFails, PullStart, ReadFile, ReadFails, Synced

(* A search has seen of a file what it had, or the copy that it now reads. *)
LEMMA SeenSteps ==
  ASSUME TypeOK, [Next]_vars, NEW c \in Call, NEW f \in File
  PROVE  \/ seen'[c][f] = seen[c][f]
         \/ seen'[c][f] = -1 /\ pc'[c] = "failed"
         \/ /\ pc[c] = "read" /\ mem[c][f] # None /\ seen'[c][f] = local[f]
            /\ UNCHANGED <<pc, listing>>
<1> USE CallsAssumption DEF TypeOK, Over, First, ToRead
<1>1. CASE UNCHANGED vars
  BY <1>1 DEF vars, diskVars
<1>2. CASE \E i \in File : AppLogs(i)
  BY <1>2 DEF AppLogs, diskVars
<1>3. CASE \E i \in File : AppDeletes(i)
  BY <1>3 DEF AppDeletes, diskVars
<1>4. CASE \E i \in Call : Start(i)
  BY <1>4 DEF Start, Moves, diskVars
<1>5. CASE \E i \in Call : Refused(i)
  BY <1>5 DEF Refused, Moves, diskVars
<1>6. CASE \E i \in Call : ReadMtimeCache(i)
  BY <1>6 DEF ReadMtimeCache, Moves, diskVars
<1>7. CASE \E i \in Call : ListDeviceFiles(i)
  BY <1>7 DEF ListDeviceFiles, StatDeviceFile, Moves, diskVars
<1>8. CASE \E i \in Call : PullEnd(i)
  BY <1>8 DEF PullEnd, Moves, diskVars
<1>9. CASE \E i \in Call : PullFails(i)
  BY <1>9 DEF PullFails, Forgets, Remains, Moves, diskVars
<1>10. CASE \E i \in Call : NothingPulled(i)
  BY <1>10 DEF NothingPulled, Moves, diskVars
<1>11. CASE \E i \in Call : WriteTmp(i)
  BY <1>11 DEF WriteTmp, Puts, Moves, diskVars
<1>12. CASE \E i \in Call : Rename(i)
  BY <1>12 DEF Rename, Moves, diskVars
<1>13. CASE \E i \in Call : RenameFails(i)
  BY <1>13 DEF RenameFails, Forgets, Moves, diskVars
<1>14. CASE \E i \in Call : ReadAll(i)
  BY <1>14 DEF ReadAll, Moves, diskVars
<1>15. CASE \E i \in Call : Report(i)
  BY <1>15 DEF Report, Moves, diskVars
<1>16. CASE \E i \in Call : CallFails(i)
  BY <1>16 DEF CallFails, Forgets, Moves, diskVars
<1>17. CASE \E i \in Call, j \in File : PullStart(i, j)
  BY <1>17 DEF PullStart, Moves, diskVars
<1>18. CASE \E i \in Call, j \in File : ReadFile(i, j)
  BY <1>18 DEF ReadFile, diskVars
<1>19. CASE \E i \in Call, j \in File : ReadFails(i, j)
  BY <1>19 DEF ReadFails, Forgets, Moves, diskVars
<1>20. CASE \E i \in Call : OpenTmp(i)
  BY <1>20 DEF OpenTmp, Moves, diskVars
<1>21. CASE \E i \in Call : WriteFails(i)
  BY <1>21 DEF WriteFails, Puts, Text, Forgets, Moves, diskVars
<1> QED
  BY <1>1, <1>2, <1>3, <1>4, <1>5, <1>6, <1>7, <1>8, <1>9, <1>10, <1>11,
     <1>12, <1>13, <1>14, <1>15, <1>16, <1>17, <1>18, <1>19,
     <1>20, <1>21 DEF Next

(* An entry of a file's past remains one, and if it is what stat says      *)
(* after a step, it was so before it.                                      *)
LEMMA PastStays ==
  ASSUME PullInv, [Next]_vars, NEW f \in File, NEW e \in Entry, Past(f, e)
  PROVE  Past(f, e)' /\ (e # None /\ device'[f] = e => device[f] = e)
<1> USE DEF PullInv
<1>1. \A x \in Entry : x # None => x.size \in 1 .. MaxSize
  BY Entries
<1>2. device[f] \in Entry /\ device'[f] \in Entry
  BY TypeOKStep DEF TypeOK
<1>3. CASE device'[f] = device[f]
  BY <1>3 DEF Past
<1>4. CASE device'[f] = None /\ f \in Rolled
  BY <1>4 DEF Past
<1>5. CASE /\ device'[f] # None
           /\ IF device[f] = None THEN f \notin Rolled
                                  ELSE device[f].size < device'[f].size
  BY <1>1, <1>2, <1>5, CallsAssumption DEF Past
<1> QED
  BY <1>3, <1>4, <1>5, DeviceSteps

(* Where the entries of a call and of the cache come from.                 *)
LEMMA EntriesArePastStep ==
  ASSUME PullInv, [Next]_vars
  PROVE  EntriesArePast'
<1> USE DEF PullInv, EntriesArePast
<1> SUFFICES ASSUME NEW f \in File
             PROVE  /\ Past(f, Cached(f))'
                    /\ \A c \in Call : Past(f, mem[c][f])' /\ Past(f, listing[c][f])'
  OBVIOUS
<1>1. Cached(f) \in Entry /\ \A c \in Call : mem[c][f] \in Entry /\ listing[c][f] \in Entry
  BY Texts DEF TypeOK
<1>2. Past(f, Cached(f))'
  <2>1. CASE Cached(f)' = Cached(f) \/ Cached(f)' = None
    BY <1>1, <2>1, PastStays DEF Past
  <2>2. CASE \E d \in Call : Cached(f)' = mem[d][f]
    BY <1>1, <2>2, PastStays DEF Past
  <2> QED
    BY <2>1, <2>2, CachedSteps
<1>3. ASSUME NEW c \in Call PROVE Past(f, mem[c][f])'
  <2>1. \/ mem'[c][f] = mem[c][f] \/ mem'[c][f] = None
        \/ mem'[c][f] = Cached(f) \/ mem'[c][f] = listing[c][f]
    BY MemSteps
  <2> QED
    BY <1>1, <2>1, PastStays DEF Past
<1>4. ASSUME NEW c \in Call PROVE Past(f, listing[c][f])'
  <2>1. CASE listing'[c][f] = listing[c][f] \/ listing'[c][f] = None
    BY <1>1, <2>1, PastStays DEF Past
  <2>2. CASE listing'[c][f] = device[f] /\ UNCHANGED device
    <3>1. device[f] # None => device[f].size \in 1 .. MaxSize
      BY Entries DEF TypeOK
    <3> QED
      BY <2>2, <3>1, CallsAssumption DEF Past
  <2> QED
    BY <2>1, <2>2, ListingSteps
<1> QED
  BY <1>2, <1>3, <1>4

(* A cache read before the listing and no longer what stat says.           *)
LEMMA ListingIsLaterStep ==
  ASSUME PullInv, [Next]_vars
  PROVE  ListingIsLater'
<1> USE DEF PullInv
<1> SUFFICES ASSUME NEW c \in Call, NEW f \in File, pc'[c] \in {"sync", "pull"},
                    mem'[c][f] # None, mem'[c][f] = device'[f]
             PROVE  listing'[c][f] = mem'[c][f]
  BY DEF ListingIsLater
<1>1. /\ mem[c][f] \in Entry /\ listing[c][f] \in Entry
      /\ Past(f, mem[c][f]) /\ Past(f, listing[c][f])
  BY DEF TypeOK, EntriesArePast
<1>2. pc[c] \in {"sync", "pull"} \/ (pc[c] = "list" /\ pc'[c] = "sync")
  BY PcSteps
<1>3. CASE mem'[c][f] = mem[c][f]
  <2>1. device[f] = mem[c][f]
    BY <1>1, <1>3, PastStays
  <2>2. CASE listing'[c][f] = listing[c][f] /\ pc[c] \in {"sync", "pull"}
    BY <1>3, <2>1, <2>2 DEF ListingIsLater
  <2>3. CASE listing'[c][f] = device[f]
    BY <1>3, <2>1, <2>3
  <2> QED
    BY <1>2, <2>2, <2>3, ListingSteps DEF Over
<1>4. CASE mem'[c][f] = listing[c][f] /\ pc[c] = "pull"
  BY <1>4, ListingSteps DEF Over
<1> QED
  BY <1>3, <1>4, MemSteps DEF Over

(* Only a call that has pulled something, and that any other running call  *)
(* has met, replaces the cache.                                            *)
LEMMA CacheIsAsReadStep ==
  ASSUME PullInv, [Next]_vars
  PROVE  CacheIsAsRead'
<1> USE DEF PullInv
<1> SUFFICES ASSUME NEW d \in Call, NEW f \in File,
                    pc'[d] \in {"list", "sync", "pull"}, f \notin pulled'[d]
             PROVE  \/ Cached(f)' = mem'[d][f]
                    \/ \E c \in Call : {c, d} \in met' /\ pulled'[c] # {}
  BY DEF CacheIsAsRead
<1>1. f \notin pulled[d]
  BY Grows
<1>2. pc[d] = "cache" \/ pc[d] \in {"list", "sync", "pull"}
  BY PcSteps
<1>3. CASE pc[d] = "cache"
  <2>1. pc'[d] = "list"
    BY <1>3, PcSteps
  <2> QED
    BY <1>3, <2>1, ReadsCache DEF Cached
<1>4. CASE pc[d] \in {"list", "sync", "pull"} /\ UNCHANGED cache
  <2>1. mem'[d][f] = mem[d][f]
    BY <1>4, MemSteps DEF Over
  <2>2. CASE Cached(f) = mem[d][f]
    BY <1>4, <2>1, <2>2 DEF Cached
  <2>3. CASE \E c \in Call : {c, d} \in met /\ pulled[c] # {}
    BY <2>3, Grows
  <2> QED
    BY <1>1, <1>4, <2>2, <2>3 DEF CacheIsAsRead
<1>5. CASE /\ pc[d] \in {"list", "sync", "pull"}
           /\ \E c \in Call : pc[c] \in {"write", "rename"} /\ pulled[c] # {}
  <2>1. PICK c \in Call : pc[c] \in {"write", "rename"} /\ pulled[c] # {}
    BY <1>5
  <2>2. {c, d} \in met
    BY <1>5, <2>1 DEF Meetings, Running, Over
  <2> QED
    BY <2>1, <2>2, Grows
<1> QED
  BY <1>2, <1>3, <1>4, <1>5, CacheSteps

(* What was so of a file stays so, of its pulls too.                       *)
LEMMA ExcusesStay ==
  ASSUME PullInv, [Next]_vars, NEW f \in File
  PROVE  /\ Doubled(f) => Doubled(f)'
         /\ Spoiled(f) => Spoiled(f)'
         /\ \A c \in Call : Excused(c, f) => Excused(c, f)'
<1> USE DEF PullInv
<1>1. Doubled(f) => Doubled(f)'
  <2> SUFFICES ASSUME NEW pair \in met, \A c \in pair : Pulled(c, f)
               PROVE  \A c \in pair : Pulled(c, f)'
    BY Grows DEF Doubled
  <2>1. pair \subseteq Call
    BY DEF TypeOK
  <2> QED
    BY <2>1, Grows
<1>2. Spoiled(f) => Spoiled(f)'
  BY Grows DEF Spoiled
<1> QED
  BY <1>1, <1>2, Grows DEF Excused

(* A local copy that is whole, or excused, stays so while the file does,   *)
(* but for a pull of it that fails.                                        *)
LEMMA KeptSteps ==
  ASSUME PullInv, [Next]_vars, NEW f \in File, Kept(f),
         device'[f] = device[f], device[f] # None
  PROVE  \/ Kept(f)'
         \/ \E d \in Call : pc[d] = "pull" /\ pulling[d] = f /\ Missed(d, f)'
<1> USE DEF PullInv
<1>1. CASE \E d \in Call : pc'[d] = "pull" /\ pulling'[d] = f
  BY <1>1 DEF Kept, BeingPulled
<1>2. CASE /\ \A d \in Call : ~(pc'[d] = "pull" /\ pulling'[d] = f)
           /\ \E d \in Call : pc[d] = "pull" /\ pulling[d] = f
  <2>1. PICK d \in Call : pc[d] = "pull" /\ pulling[d] = f
    BY <1>2
  <2>2. pc'[d] # "pull" \/ pulling'[d] # f
    BY <1>2
  <2>3. local'[f] = device[f].size \/ Missed(d, f)'
    BY <1>2, <2>1, <2>2, PullEnds
  <2>4. device[f].size \in 1 .. MaxSize
    BY Entries DEF TypeOK
  <2> QED
    BY <2>1, <2>3, <2>4, CallsAssumption DEF Kept
<1>3. CASE /\ \A d \in Call : ~(pc'[d] = "pull" /\ pulling'[d] = f)
           /\ \A d \in Call : ~(pc[d] = "pull" /\ pulling[d] = f)
  <2>1. local'[f] = local[f]
    BY <1>3, LocalSteps
  <2>2. ~BeingPulled(f)
    BY <1>3 DEF BeingPulled
  <2>3. CASE local[f] >= device[f].size
    BY <2>1, <2>3 DEF Kept
  <2>4. CASE Doubled(f) \/ Spoiled(f)
    <3>1. Doubled(f)' \/ Spoiled(f)'
      BY <2>4, ExcusesStay
    <3> QED
      BY <3>1 DEF Kept
  <2> QED
    BY <2>2, <2>3, <2>4 DEF Kept
<1> QED
  BY <1>1, <1>2, <1>3

(* A cache that says what stat says is true: it was before, or it is that  *)
(* of a call that has pulled something.                                    *)
LEMMA CacheIsTrueStep ==
  ASSUME PullInv, [Next]_vars
  PROVE  CacheIsTrue'
<1> USE DEF PullInv
<1> SUFFICES ASSUME NEW f \in File, Cached(f)' # None, Cached(f)' = device'[f]
             PROVE  Kept(f)'
  BY DEF CacheIsTrue
<1>1. CASE Cached(f)' = Cached(f)
  <2>1. Cached(f) \in Entry /\ Past(f, Cached(f))
    BY Texts DEF EntriesArePast
  <2>2. device[f] = Cached(f) /\ device'[f] = device[f] /\ device[f] # None
    BY <1>1, <2>1, PastStays
  <2>3. Kept(f)
    BY <2>2 DEF CacheIsTrue
  <2>4. CASE \E d \in Call : pc[d] = "pull" /\ pulling[d] = f /\ Missed(d, f)'
    <3>1. PICK d \in Call : pc[d] = "pull" /\ pulling[d] = f /\ Missed(d, f)'
      BY <2>4
    <3>2. /\ mem[d][f] # None => mem[d][f] # listing[d][f]
          /\ f \notin pulled[d]
      <4>1. f \in Due(d) /\ mem[d][f] \in Entry /\ listing[d][f] \in Entry
        BY <3>1 DEF Stages, TypeOK
      <4> QED
        BY <3>1, <4>1 DEF Stages, Due, Unchanged, Running, Over
    <3>3. CASE Cached(f) = mem[d][f]
      BY <2>2, <3>1, <3>2, <3>3 DEF ListingIsLater
    <3>4. CASE \E c \in Call : {c, d} \in met /\ pulled[c] # {}
      <4>1. PICK c \in Call : {c, d} \in met' /\ pulled'[c] # {}
        BY <3>4, Grows
      <4>2. Spoiled(f)'
        BY <3>1, <4>1 DEF Spoiled
      <4> QED
        BY <4>2 DEF Kept
    <3> QED
      BY <3>1, <3>2, <3>3, <3>4 DEF CacheIsAsRead
  <2> QED
    BY <2>2, <2>3, <2>4, KeptSteps
<1>2. CASE \E d \in Call : /\ pc[d] \in {"write", "rename"} /\ pulled[d] # {}
                           /\ Cached(f)' = mem[d][f] /\ UNCHANGED device
                           /\ \A e \in Call : pc[e] = "pull" => pc'[e] = "pull"
  <2>1. PICK d \in Call : /\ pc[d] \in {"write", "rename"} /\ pulled[d] # {}
                          /\ Cached(f)' = mem[d][f] /\ UNCHANGED device
                          /\ \A e \in Call : pc[e] = "pull" => pc'[e] = "pull"
    BY <1>2
  <2>2. mem[d][f] # None /\ mem[d][f] = device[f]
    BY <2>1
  <2>3. d \in Running
    BY <2>1 DEF Running, Over
  <2>4. CASE Kept(f)
    <3>1. ~\E e \in Call : pc[e] = "pull" /\ pulling[e] = f /\ Missed(e, f)'
      BY <2>1 DEF Missed
    <3> QED
      BY <2>1, <2>2, <2>4, <3>1, KeptSteps
  <2>5. CASE \E e \in Call : {d, e} \in met /\ Missed(e, f)
    <3>1. Spoiled(f)
      BY <2>1, <2>5 DEF Spoiled
    <3>2. Spoiled(f)'
      BY <3>1, ExcusesStay
    <3> QED
      BY <3>2 DEF Kept
  <2> QED
    BY <2>2, <2>3, <2>4, <2>5 DEF MemIsTrue
<1>3. Cached(f)' = Cached(f) \/ \E d \in Call :
         /\ pc[d] \in {"write", "rename"} /\ pulled[d] # {}
         /\ Cached(f)' = mem[d][f] /\ UNCHANGED device
         /\ \A e \in Call : pc[e] = "pull" => pc'[e] = "pull"
  BY CachedSteps
<1> QED
  BY <1>1, <1>2, <1>3

(* What a call has for an entry is true: as it was before, as the cache is *)
(* that it reads, or by its own pull.                                      *)
LEMMA MemIsTrueStep ==
  ASSUME PullInv, [Next]_vars
  PROVE  MemIsTrue'
<1> USE DEF PullInv
<1> SUFFICES ASSUME NEW c \in Running', NEW f \in File,
                    mem'[c][f] # None, mem'[c][f] = device'[f]
             PROVE  Kept(f)' \/ \E d \in Call : {c, d} \in met' /\ Missed(d, f)'
  BY DEF MemIsTrue
<1>1. c \in Call /\ pc'[c] \notin Over \union {"idle"}
  BY DEF Running
<1>2. /\ mem[c][f] \in Entry /\ Cached(f) \in Entry /\ listing[c][f] \in Entry
      /\ Past(f, mem[c][f]) /\ Past(f, Cached(f)) /\ Past(f, listing[c][f])
  BY <1>1, Texts DEF TypeOK, EntriesArePast
<1>3. mem'[c][f] \in {mem[c][f], Cached(f), listing[c][f]}
  BY <1>1, MemSteps
<1>4. device[f] = mem'[c][f] /\ device'[f] = device[f] /\ device[f] # None
  BY <1>2, <1>3, PastStays
<1>5. c \in Running \/ (pc[c] = "idle" /\ mem[c] = NoFiles)
  BY <1>1, PcSteps DEF Stages, Running, Over
<1>6. Kept(f) \/ \E d \in Call : {c, d} \in met /\ Missed(d, f)
  <2>1. CASE mem'[c][f] = mem[c][f]
    BY <1>1, <1>4, <1>5, <2>1, Entries DEF MemIsTrue
  <2>2. CASE mem'[c][f] = Cached(f)
    BY <1>4, <2>2 DEF CacheIsTrue
  <2>3. CASE pc[c] = "pull" /\ pulling[c] = f
    BY <1>1, <2>3 DEF Kept, BeingPulled
  <2> QED
    BY <1>1, <2>1, <2>2, <2>3, MemSteps
<1>7. CASE \E d \in Call : {c, d} \in met /\ Missed(d, f)
  BY <1>7, Grows
<1>8. CASE Kept(f) /\ ~Kept(f)'
  <2>1. PICK d \in Call : pc[d] = "pull" /\ pulling[d] = f /\ Missed(d, f)'
    BY <1>4, <1>8, KeptSteps
  <2>2. pc'[d] = "failed" /\ d # c /\ d \in Running
    BY <1>1, <2>1 DEF Missed, Running, Over
  <2>3. CASE c \in Running
    BY <2>1, <2>2, <2>3, Grows DEF Meetings
  <2>4. CASE mem[c] = NoFiles /\ pc[c] = "idle"
    BY <1>1, <1>4, <2>4, Entries, MemSteps
  <2> QED
    BY <1>5, <2>3, <2>4
<1> QED
  BY <1>6, <1>7, <1>8

(* What a call takes for unchanged stays whole, or is being pulled by a    *)
(* call it has met.                                                        *)
LEMMA CopyIsWholeStep ==
  ASSUME PullInv, [Next]_vars
  PROVE  CopyIsWhole'
<1> USE DEF PullInv
<1> SUFFICES ASSUME NEW c \in Call, NEW f \in File,
                    pc'[c] \in {"sync", "pull", "write", "rename", "read", "report"},
                    mem'[c][f] # None, mem'[c][f] = listing'[c][f]
             PROVE  local'[f] >= listing'[c][f].size \/ Excused(c, f)'
  BY DEF CopyIsWhole
<1>1. pc'[c] \notin Over /\ c \in Running' /\ c \in Running
  BY PcSteps DEF Running, Over
<1>2. CASE pc[c] = "list" /\ pc'[c] = "sync"
  <2>1. /\ listing'[c][f] = device[f] /\ mem'[c][f] = mem[c][f]
        /\ UNCHANGED <<local, met>>
    BY <1>1, <1>2, ListingSteps
  <2>2. CASE local[f] >= device[f].size
    BY <2>1, <2>2
  <2>3. CASE Doubled(f) \/ Spoiled(f) \/ \E d \in Call : {c, d} \in met /\ Missed(d, f)
    <3>1. Excused(c, f)
      BY <2>3 DEF Excused, Missed, Pulled
    <3> QED
      BY <3>1, ExcusesStay
  <2>4. CASE BeingPulled(f)
    <3>1. PICK d \in Call : pc[d] = "pull" /\ pulling[d] = f
      BY <2>4 DEF BeingPulled
    <3>2. {c, d} \in met
      BY <1>1, <1>2, <3>1 DEF Meetings, Running, Over
    <3>3. Excused(c, f)
      BY <3>1, <3>2 DEF Excused, Pulled
    <3> QED
      BY <3>3, ExcusesStay
  <2> QED
    BY <1>1, <2>1, <2>2, <2>3, <2>4 DEF MemIsTrue, Kept
<1>3. ASSUME NEW d \in Call, d # c, d \in Running, Pulled(d, f)'
      PROVE  Excused(c, f)'
  BY <1>1, <1>3, Grows DEF Meetings, Excused
<1>4. CASE pc[c] = "pull" /\ pulling[c] = f /\ pc'[c] # "pull"
  <2>1. PullEnd(c)
    BY <1>1, <1>4, EndsPull
  <2>2. /\ device[f] # None /\ device[f] \in Stat
        /\ listing[c][f] # None /\ listing[c][f] \in Stat
        /\ listing[c][f].size <= device[f].size
        /\ UNCHANGED <<listing, pulling, device>>
    BY <1>4, <2>1, Entries DEF PullEnd, Stages, Due, TypeOK, EntriesArePast, Past
  <2>3. CASE local'[f] = device[f].size
    BY <2>2, <2>3, Entries, CallsAssumption
  <2>4. CASE \E d \in Call \ {c} : pc[d] = "pull" /\ pulling[d] = f
    BY <1>3, <2>2, <2>4 DEF Running, Over, Pulled
  <2> QED
    BY <1>4, <2>1, <2>3, <2>4, CallsAssumption DEF PullEnd, TypeOK
<1>5. CASE /\ ~(pc[c] = "pull" /\ pulling[c] = f /\ pc'[c] # "pull")
           /\ ~(pc[c] = "list" /\ pc'[c] = "sync")
  <2>1. /\ pc[c] \in {"sync", "pull", "write", "rename", "read", "report"}
        /\ mem'[c][f] = mem[c][f] /\ listing'[c][f] = listing[c][f]
    BY <1>1, <1>5, PcSteps, MemSteps, ListingSteps DEF Over
  <2>2. CASE local'[f] = local[f]
    <3>1. local[f] >= listing[c][f].size \/ Excused(c, f)
      BY <2>1 DEF CopyIsWhole
    <3> QED
      BY <2>1, <2>2, <3>1, ExcusesStay
  <2>3. CASE \E d \in Call : /\ pc[d] = "sync" /\ f \in Due(d)
                             /\ pulling'[d] = f /\ UNCHANGED <<mem, listing>>
    <3>1. PICK d \in Call : pc[d] = "sync" /\ f \in Due(d) /\ pulling'[d] = f
      BY <2>3
    <3>2. d # c
      BY <2>1, <2>3, <3>1 DEF Due, Unchanged
    <3> QED
      BY <1>3, <3>1, <3>2 DEF Running, Over, Pulled
  <2>4. CASE \E d \in Call : pc[d] = "pull" /\ pulling[d] = f /\ pc'[d] # "pull"
    <3>1. PICK d \in Call : pc[d] = "pull" /\ pulling[d] = f /\ pc'[d] # "pull"
      BY <2>4
    <3>2. d # c /\ d \in Running /\ Pulled(d, f)'
      BY <1>5, <3>1, Grows DEF Running, Over, Pulled
    <3> QED
      BY <1>3, <3>1, <3>2
  <2> QED
    BY <2>2, <2>3, <2>4, LocalSteps
<1> QED
  BY <1>2, <1>4, <1>5

(* What a search reads of a file it takes for unchanged is whole.          *)
LEMMA SeenIsWholeStep ==
  ASSUME PullInv, [Next]_vars
  PROVE  SeenIsWhole'
<1> USE DEF PullInv
<1> SUFFICES ASSUME NEW c \in Call, NEW f \in File,
                    seen'[c][f] # -1, listing'[c][f] # None
             PROVE  seen'[c][f] >= listing'[c][f].size \/ Excused(c, f)'
  BY DEF SeenIsWhole
<1>1. pc'[c] \in {"read", "report", "done"}
  BY StagesStep DEF Stages
<1>2. CASE seen'[c][f] = seen[c][f]
  <2>1. pc[c] \in {"read", "report", "done"}
    BY <1>2 DEF Stages
  <2>2. listing'[c][f] = listing[c][f]
    BY <1>1, <2>1, ListingSteps
  <2>3. seen[c][f] >= listing[c][f].size \/ Excused(c, f)
    BY <1>2, <2>2 DEF SeenIsWhole
  <2> QED
    BY <1>2, <2>2, <2>3, ExcusesStay
<1>3. CASE /\ pc[c] = "read" /\ mem[c][f] # None /\ seen'[c][f] = local[f]
           /\ UNCHANGED listing
  <2>1. listing[c][f] # None /\ mem[c][f] \in Entry /\ listing[c][f] \in Entry
    BY <1>3 DEF TypeOK
  <2>2. mem[c][f] = listing[c][f]
    BY <1>3, <2>1, SameEntry DEF Stages, Due, Unchanged
  <2>3. local[f] >= listing[c][f].size \/ Excused(c, f)
    BY <1>3, <2>1, <2>2 DEF CopyIsWhole
  <2> QED
    BY <1>3, <2>3, ExcusesStay
<1> QED
  BY <1>2, <1>3, SeenSteps

(* An answer stays as whole as it was: a search has read what it has, and  *)
(* whoever pulls a file that a seal has left behind ran with it.           *)
LEMMA DoneIsWholeStep ==
  ASSUME PullInv, [Next]_vars
  PROVE  DoneIsWhole'
<1> USE DEF PullInv
<1> SUFFICES ASSUME NEW c \in Call, NEW f \in File,
                    pc'[c] = "done", listing'[c][f] # None
             PROVE  (IF c \in Seal THEN local'[f] ELSE seen'[c][f])
                        >= listing'[c][f].size \/ Excused(c, f)'
  BY DEF DoneIsWhole
<1>1. pc[c] \in {"report", "done"}
  BY PcSteps
<1>2. listing'[c][f] = listing[c][f]
  BY <1>1, ListingSteps
<1>3. seen'[c][f] = seen[c][f]
  BY <1>1, SeenSteps
<1>4. CASE c \notin Seal
  <2>1. CASE pc[c] = "report"
    <3>1. mem[c][f] # None
      BY <1>2, <2>1 DEF Stages, Due, Unchanged
    <3>2. seen[c][f] # -1
      BY <1>4, <2>1, <3>1 DEF Stages, ToRead
    <3>3. seen[c][f] >= listing[c][f].size \/ Excused(c, f)
      BY <1>2, <3>2 DEF SeenIsWhole
    <3> QED
      BY <1>2, <1>3, <1>4, <3>3, ExcusesStay
  <2>2. CASE pc[c] = "done"
    BY <1>2, <1>3, <1>4, <2>2, ExcusesStay DEF DoneIsWhole
  <2> QED
    BY <1>1, <2>1, <2>2
<1>5. CASE c \in Seal
  <2>1. local[f] >= listing[c][f].size \/ Excused(c, f)
    <3>1. CASE pc[c] = "report"
      <4>1. listing[c][f] # None /\ mem[c][f] \in Entry /\ listing[c][f] \in Entry
        BY <1>2 DEF TypeOK
      <4>2. mem[c][f] = listing[c][f]
        BY <3>1, <4>1, SameEntry DEF Stages, Due, Unchanged
      <4> QED
        BY <3>1, <4>1, <4>2 DEF CopyIsWhole
    <3>2. CASE pc[c] = "done"
      BY <1>2, <1>5, <3>2 DEF DoneIsWhole
    <3> QED
      BY <1>1, <3>1, <3>2
  <2>2. CASE local'[f] = local[f]
    BY <1>2, <1>5, <2>1, <2>2, ExcusesStay
  <2>3. CASE \E d \in Call : d \in Running /\ d # c /\ Pulled(d, f)'
    <3>1. PICK d \in Call : d \in Running /\ d # c /\ Pulled(d, f)'
      BY <2>3
    <3>2. {c, d} \in met
      BY <1>1, <1>5, <3>1 DEF Meetings, Running, Over
    <3> QED
      BY <3>1, <3>2, Grows DEF Excused
  <2>4. local'[f] = local[f] \/ \E d \in Call : d \in Running /\ d # c /\ Pulled(d, f)'
    <3>1. ASSUME NEW d \in Call, pc[d] \in {"sync", "pull"}
          PROVE  d \in Running /\ d # c
      BY <1>1, <3>1 DEF Running, Over
    <3>2. \A d \in Call : Pulled(d, f) => Pulled(d, f)'
      BY Grows
    <3> QED
      BY <3>1, <3>2, LocalSteps DEF Pulled
  <2> QED
    BY <2>2, <2>3, <2>4
<1> QED
  BY <1>4, <1>5

-----------------------------------------------------------------------------
(* The invariant holds of every behaviour, and with it each property.      *)
THEOREM PullInvariant == Spec => []PullInv
<1>1. Init => PullInv
  BY InvInit
<1>2. PullInv /\ [Next]_vars => PullInv'
  <2> SUFFICES ASSUME PullInv, [Next]_vars PROVE PullInv'
    OBVIOUS
  <2> QED
    BY TypeOKStep, MtimeOrderStep, StagesStep, MeetingsStep,
       WritesAloneStep, TornByTwoStep,
       EntriesArePastStep, TmpHasWriterStep, ListingIsLaterStep,
       CacheIsAsReadStep, CacheIsTrueStep, MemIsTrueStep, CopyIsWholeStep,
       SeenIsWholeStep, DoneIsWholeStep DEF PullInv
<1> QED
  BY <1>1, <1>2, PTL DEF Spec

(* Every variable keeps its type: no entry holds a stat that the app's     *)
(* appends cannot make, and every call is at one of its places.            *)
THEOREM TypeCorrect == Spec => []TypeOK
<1>1. PullInv => TypeOK
  BY DEF PullInv
<1> QED
  BY <1>1, PullInvariant, PTL

(* readMtimeCache and the Unchanged test: whatever calls have run together,*)
(* failed or been overtaken, a cache that tells of the present state of a  *)
(* file tells the truth of its local copy, but for the two cases named.    *)
THEOREM CacheIsHonest == Spec => []SkippedIsComplete
<1>1. PullInv => SkippedIsComplete
  BY DEF PullInv, CacheIsTrue, Kept, SkippedIsComplete
<1> QED
  BY <1>1, PullInvariant, PTL

(* writeMtimeCache and readMtimeCache: the cache that every later call of  *)
(* the source would fail on is left by calls that wrote at once, never by  *)
(* one whose write failed, or that another ended before.                   *)
THEOREM TornCacheTakesTwo == Spec => []TornByTwo
<1>1. PullInv => TornByTwo
  BY DEF PullInv
<1> QED
  BY <1>1, PullInvariant, PTL

(* What a search that succeeds has read, and a seal has left behind, is    *)
(* all that its listing announced, unless a call it met pulled the file.   *)
THEOREM AnswersWhole == Spec => []AnswersAreWhole
<1>1. ASSUME PullInv PROVE AnswersAreWhole
  <2> SUFFICES ASSUME NEW c \in Call, pc[c] = "done"
               PROVE  logged[c] = {f \in File : Pulled(c, f)}
    BY <1>1 DEF PullInv, DoneIsWhole, AnswersAreWhole
  <2>1. logged[c] = pulled[c] /\ pulled[c] \subseteq File
    BY <1>1 DEF PullInv, Stages, TypeOK
  <2>2. \A f \in File : Pulled(c, f) <=> f \in pulled[c]
    BY <1>1, CallsAssumption DEF PullInv, Stages, Pulled
  <2> QED
    BY <2>1, <2>2
<1> QED
  BY <1>1, PullInvariant, PTL

=============================================================================
