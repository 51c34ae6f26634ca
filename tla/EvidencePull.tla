---------------------------- MODULE EvidencePull ----------------------------
(***************************************************************************)
(* The lazy pull of one evidence source (evidence/runtime.ts,              *)
(* evidence/mtimeCache.ts, adb/evidence.ts, profile/poppo-vone/            *)
(* device_files.ts) under the calls of one session that share its local    *)
(* files and its cache: search_evidence, extract_evidence_context and the  *)
(* seal of stop_session.  Each runs up to its next await, and nothing      *)
(* serializes two of them.                                                 *)
(*                                                                         *)
(* A device file is an append-only log, so that its contents, and those of *)
(* its local copy, are known by their length.  Which records a search then *)
(* picks is Paging's matter; here it reads every file to its end.          *)
(***************************************************************************)
EXTENDS Integers, FiniteSets

CONSTANTS
    Call,       \* tool calls of one session
    Seal,       \* those that are seals
    File,       \* files the app logs to, numbered by name
    Rolled,     \* those it no longer writes to, and may delete
    MaxSize,    \* bound on their length
    Stamp,      \* milliseconds in which a cache is written
    Cache,      \* the name of the cache
    Blank,      \* what a file holds that is opened to be written,
    Torn,       \* and one whose text is that of two writers or half of one
    None        \* no entry, no file

ASSUME CallsAssumption ==
    /\ Seal \subseteq Call /\ Rolled \subseteq File
    /\ MaxSize \in Nat \ {0}
    /\ File \subseteq Nat
    /\ Cache \notin Stamp
    /\ None \notin File \union Stamp \union {Cache}
                       \union [size : Nat, mtime : Nat]

ASSUME TextsAssumption ==
    \A text \in {Blank, Torn} :
        text \notin [File -> [size : Nat, mtime : Nat] \union {None}]

VARIABLES
    device,     \* what stat says of each file: its length and its mtime
    local,      \* length of each local copy, or -1 if there is none
    cache,      \* .mtime-cache.json
    tmp,        \* the temporary file of each name
    pc,         \* where each call is
    mem,        \* the cache as the call has read and changed it
    listing,    \* the stats it has listed
    pulling,    \* the file of its latest pull, or None
    pulled,     \* the files it has pulled
    stamp,      \* the name of its temporary file
    writing,    \* the name that the file it writes has by now, or None
    seen,       \* the length of each file as it has read it, or -1
    logged,     \* the files named by its evidence_pulled event
    met         \* history: pairs of calls that ran at once

diskVars == <<local, cache, tmp>>
vars == <<device, diskVars, pc, mem, listing, pulling, pulled, stamp,
          writing, seen, logged, met>>

-----------------------------------------------------------------------------
Stat    == [size : 1 .. MaxSize, mtime : 1 .. MaxSize]
Entry   == Stat \union {None}
NoFiles == [f \in File |-> None]
Broken  == {Blank, Torn}    \* what readMtimeCache throws on
Over    == {"done", "failed"}
Running == {c \in Call : pc[c] \notin Over \union {"idle"}}

TypeOK ==
    /\ device \in [File -> Entry]
    /\ local \in [File -> -1 .. MaxSize]
    /\ cache \in [File -> Entry] \union Broken
    /\ tmp \in [Stamp -> [File -> Entry] \union Broken \union {None}]
    /\ pc \in [Call -> {"idle", "cache", "list", "sync", "pull", "write",
                        "rename", "read", "report"} \union Over]
    /\ mem \in [Call -> [File -> Entry]]
    /\ listing \in [Call -> [File -> Entry]]
    /\ pulling \in [Call -> File \union {None}]
    /\ pulled \in [Call -> SUBSET File]
    /\ stamp \in [Call -> Stamp \union {None}]
    /\ writing \in [Call -> Stamp \union {Cache, None}]
    /\ seen \in [Call -> [File -> -1 .. MaxSize]]
    /\ logged \in [Call -> SUBSET File]
    /\ met \in SUBSET (SUBSET Call)

Init ==
    /\ device = [f \in File |-> IF f \in Rolled THEN [size |-> 1, mtime |-> 1]
                                              ELSE None]
    /\ local = [f \in File |-> -1]
    /\ cache = NoFiles
    /\ tmp = [s \in Stamp |-> None]
    /\ pc = [c \in Call |-> "idle"]
    /\ mem = [c \in Call |-> NoFiles]
    /\ listing = [c \in Call |-> NoFiles]
    /\ pulling = [c \in Call |-> None]
    /\ pulled = [c \in Call |-> {}]
    /\ stamp = [c \in Call |-> None]
    /\ writing = [c \in Call |-> None]
    /\ seen = [c \in Call |-> [f \in File |-> -1]]
    /\ logged = [c \in Call |-> {}]
    /\ met = {}

-----------------------------------------------------------------------------
(* The app.                                                                *)

(* It appends to a file.  The mtime that stat prints is in seconds and may *)
(* stay as it was.                                                         *)
AppLogs(f) ==
    /\ f \in File \ Rolled
    /\ \/ /\ device[f] = None
          /\ device' = [device EXCEPT ![f] = [size |-> 1, mtime |-> 1]]
       \/ /\ device[f] # None
          /\ device[f].size < MaxSize
          /\ \E later \in {0, 1} :
                device' = [device EXCEPT ![f] =
                    [size |-> @.size + 1, mtime |-> @.mtime + later]]
    /\ UNCHANGED <<diskVars, pc, mem, listing, pulling, pulled, stamp,
                   writing, seen, logged, met>>

(* A rolled file is removed; its name does not come back.                  *)
AppDeletes(f) ==
    /\ f \in Rolled /\ device[f] # None
    /\ device' = [device EXCEPT ![f] = None]
    /\ UNCHANGED <<diskVars, pc, mem, listing, pulling, pulled, stamp,
                   writing, seen, logged, met>>

-----------------------------------------------------------------------------
(* A call.                                                                 *)

Moves(c, from, to) == pc[c] = from /\ pc' = [pc EXCEPT ![c] = to]

(* A call that fails forgets what it has read.                             *)
Forgets(c) ==
    /\ mem' = [mem EXCEPT ![c] = NoFiles]
    /\ listing' = [listing EXCEPT ![c] = NoFiles]
    /\ stamp' = [stamp EXCEPT ![c] = None]
    /\ seen' = [seen EXCEPT ![c] = [f \in File |-> -1]]

(* A search needs a session that is connected, which it no longer is once  *)
(* a seal is over, and a query that dispatchQuery accepts; otherwise it    *)
(* ends before it touches a file.                                          *)
Start(c) ==
    /\ Moves(c, "idle", "cache")
    /\ \A s \in Seal : pc[s] \notin Over
    /\ met' = met \union {{c, d} : d \in Running}
    /\ UNCHANGED <<device, diskVars, mem, listing, pulling, pulled, stamp,
                   writing, seen, logged>>

Refused(c) ==
    /\ c \notin Seal
    /\ Moves(c, "idle", "failed")
    /\ UNCHANGED <<device, diskVars, mem, listing, pulling, pulled, stamp,
                   writing, seen, logged, met>>

ReadMtimeCache(c) ==
    /\ Moves(c, "cache", "list")
    /\ cache \notin Broken
    /\ mem' = [mem EXCEPT ![c] = cache]
    /\ UNCHANGED <<device, diskVars, listing, pulling, pulled, stamp,
                   writing, seen, logged, met>>

(* Mutant: a file that is missing is listed as an empty one.               *)
StatEmpty(f) == IF device[f] = None THEN [size |-> 0, mtime |-> 0] ELSE device[f]

(* statDeviceFile: a file that went between ls and stat is passed over.    *)
StatDeviceFile(f) == device[f]

(* The files are listed and each one's stat taken; the files share nothing,*)
(* so that all their stats can be those of one moment.                     *)
ListDeviceFiles(c) ==
    /\ Moves(c, "list", "sync")
    /\ listing' = [listing EXCEPT ![c] = [f \in File |-> StatDeviceFile(f)]]
    /\ UNCHANGED <<device, diskVars, mem, pulling, pulled, stamp, writing,
                   seen, logged, met>>

(* Mutant: the size is not compared.                                       *)
UnchangedMtime(c, f) ==
    mem[c][f] # None /\ mem[c][f].mtime = listing[c][f].mtime

(* A file whose cached mtime and size are the listed ones is frozen.       *)
Unchanged(c, f) ==
    /\ mem[c][f] # None
    /\ mem[c][f].mtime = listing[c][f].mtime
    /\ mem[c][f].size = listing[c][f].size

Due(c) == {f \in File : listing[c][f] # None /\ ~Unchanged(c, f)}

(* Files are pulled and read in the order of their names.                  *)
First(f, files) == f \in files /\ \A g \in files : f <= g

(* adb pull opens the local copy, which from here on is not what it was.   *)
PullStart(c, f) ==
    /\ Moves(c, "sync", "pull")
    /\ First(f, Due(c))
    /\ pulling' = [pulling EXCEPT ![c] = f]
    /\ local' = [local EXCEPT ![f] = 0]
    /\ UNCHANGED <<device, cache, tmp, mem, listing, pulled, stamp, writing,
                   seen, logged, met>>

(* It has read the file to its end.  Of two pulls that overlap, either may *)
(* have the name; the entry is the stat that was listed.                   *)
PullEnd(c) ==
    LET f        == pulling[c]
        overlaps == \E d \in Call \ {c} : pc[d] = "pull" /\ pulling[d] = f
    IN  /\ Moves(c, "pull", "sync")
        /\ device[f] # None
        /\ \/ local' = [local EXCEPT ![f] = device[f].size]
           \/ overlaps /\ UNCHANGED local
        /\ mem' = [mem EXCEPT ![c][f] = listing[c][f]]
        /\ pulled' = [pulled EXCEPT ![c] = @ \union {f}]
        /\ UNCHANGED <<device, cache, tmp, listing, pulling, stamp, writing,
                       seen, logged, met>>

(* What a pull that fails leaves: nothing, or the beginning of the file.   *)
Remains(f) ==
    \/ local' = [local EXCEPT ![f] = -1]
    \/ UNCHANGED local
    \/ \E n \in 1 .. MaxSize - 1 :
          /\ device[f] # None /\ n < device[f].size
          /\ local' = [local EXCEPT ![f] = n]

(* Mutant: a pull that fails is passed over.                               *)
PullFailsQuietly(c) ==
    /\ Moves(c, "pull", "sync")
    /\ Remains(pulling[c])
    /\ mem' = [mem EXCEPT ![c][pulling[c]] = listing[c][pulling[c]]]
    /\ pulled' = [pulled EXCEPT ![c] = @ \union {pulling[c]}]
    /\ UNCHANGED <<device, cache, tmp, listing, pulling, stamp, writing,
                   seen, logged, met>>

(* The adb call fails or times out, and the call with it: the cache is not *)
(* written, whatever has been pulled before.                               *)
PullFails(c) ==
    /\ Moves(c, "pull", "failed")
    /\ Remains(pulling[c])
    /\ Forgets(c)
    /\ UNCHANGED <<device, cache, tmp, pulling, pulled, writing, logged, met>>

(* Where a call goes once the cache is up to date.                         *)
Synced(c) == IF c \in Seal THEN "report" ELSE "read"

NothingPulled(c) ==
    /\ Moves(c, "sync", Synced(c))
    /\ Due(c) = {} /\ pulled[c] = {}
    /\ UNCHANGED <<device, diskVars, mem, listing, pulling, pulled, stamp,
                   writing, seen, logged, met>>

(* The temporary file is named by the process and the millisecond, and     *)
(* opened, and emptied, by a call that finds one of that name as well as by*)
(* one that does not.                                                      *)
OpenTmp(c) ==
    /\ Moves(c, "sync", "write")
    /\ Due(c) = {} /\ pulled[c] # {}
    /\ \E s \in Stamp :
          /\ stamp' = [stamp EXCEPT ![c] = s]
          /\ writing' = [writing EXCEPT ![c] = s]
          /\ tmp' = [tmp EXCEPT ![s] = Blank]
    /\ UNCHANGED <<device, local, cache, mem, listing, pulling, pulled, seen,
                   logged, met>>

(* The file a call writes may by now be the cache, or have no name.        *)
Text(c) == CASE writing[c] \in Stamp -> tmp[writing[c]]
             [] writing[c] = Cache   -> cache
             [] OTHER                -> Blank

Puts(c, text) ==
    /\ tmp' = IF writing[c] \in Stamp THEN [tmp EXCEPT ![writing[c]] = text]
                                      ELSE tmp
    /\ cache' = IF writing[c] = Cache THEN text ELSE cache
    /\ writing' = [writing EXCEPT ![c] = None]

(* It writes from the start of the file, where another may have written    *)
(* since: the end of a longer text remains after it.                       *)
WriteTmp(c) ==
    /\ Moves(c, "write", "rename")
    /\ \/ Puts(c, mem[c])
       \/ Text(c) \notin {Blank, mem[c]} /\ Puts(c, Torn)
    /\ UNCHANGED <<device, local, mem, listing, pulling, pulled, stamp, seen,
                   logged, met>>

(* Mutant: a write that fails is passed over.                              *)
WriteFailsQuietly(c) ==
    /\ Moves(c, "write", "rename")
    /\ Puts(c, Text(c)) \/ Puts(c, Torn)
    /\ UNCHANGED <<device, local, mem, listing, pulling, pulled, stamp, seen,
                   logged, met>>

(* The write fails, at once or half done.                                  *)
WriteFails(c) ==
    /\ Moves(c, "write", "failed")
    /\ Puts(c, Text(c)) \/ Puts(c, Torn)
    /\ Forgets(c)
    /\ UNCHANGED <<device, local, pulling, pulled, logged, met>>

(* Whoever writes to the file goes on writing to it under its new name, and*)
(* whoever wrote to the cache before it, to a file that has none.          *)
Rename(c) ==
    /\ Moves(c, "rename", Synced(c))
    /\ tmp[stamp[c]] # None
    /\ cache' = tmp[stamp[c]]
    /\ tmp' = [tmp EXCEPT ![stamp[c]] = None]
    /\ writing' = [d \in Call |-> CASE writing[d] = stamp[c] -> Cache
                                    [] writing[d] = Cache    -> None
                                    [] OTHER                 -> writing[d]]
    /\ stamp' = [stamp EXCEPT ![c] = None]
    /\ UNCHANGED <<device, local, mem, listing, pulling, pulled, seen,
                   logged, met>>

(* Another call has renamed it.                                            *)
RenameFails(c) ==
    /\ Moves(c, "rename", "failed")
    /\ tmp[stamp[c]] = None
    /\ Forgets(c)
    /\ UNCHANGED <<device, diskVars, pulling, pulled, writing, logged, met>>

(* The files the call's cache names are read one after the other.          *)
ToRead(c) == {f \in File : mem[c][f] # None /\ seen[c][f] = -1}

ReadFile(c, f) ==
    /\ pc[c] = "read"
    /\ First(f, ToRead(c))
    /\ local[f] # -1
    /\ seen' = [seen EXCEPT ![c][f] = local[f]]
    /\ UNCHANGED <<device, diskVars, pc, mem, listing, pulling, pulled,
                   stamp, writing, logged, met>>

(* The local copy is gone.                                                 *)
ReadFails(c, f) ==
    /\ Moves(c, "read", "failed")
    /\ First(f, ToRead(c))
    /\ local[f] = -1
    /\ Forgets(c)
    /\ UNCHANGED <<device, diskVars, pulling, pulled, writing, logged, met>>

ReadAll(c) ==
    /\ Moves(c, "read", "report")
    /\ ToRead(c) = {}
    /\ UNCHANGED <<device, diskVars, mem, listing, pulling, pulled, stamp,
                   writing, seen, logged, met>>

(* One evidence_pulled event if there was a pull, and the command's row.   *)
Report(c) ==
    /\ Moves(c, "report", "done")
    /\ logged' = [logged EXCEPT ![c] = pulled[c]]
    /\ mem' = [mem EXCEPT ![c] = NoFiles]
    /\ UNCHANGED <<device, diskVars, listing, pulling, pulled, stamp,
                   writing, seen, met>>

(* The cache cannot be read or is not one, ls or stat fails, the temporary *)
(* file cannot be opened or the event not be written.  A seal's failure is *)
(* recorded and ends that source's part of it.                             *)
CallFails(c) ==
    /\ \E at \in {"cache", "list", "sync", "report"} : Moves(c, at, "failed")
    /\ Forgets(c)
    /\ UNCHANGED <<device, diskVars, pulling, pulled, writing, logged, met>>

-----------------------------------------------------------------------------
Next ==
    \/ \E f \in File : AppLogs(f) \/ AppDeletes(f)
    \/ \E c \in Call :
          \/ Start(c) \/ Refused(c) \/ ReadMtimeCache(c) \/ ListDeviceFiles(c)
          \/ PullEnd(c) \/ PullFails(c) \/ NothingPulled(c) \/ OpenTmp(c)
          \/ WriteTmp(c) \/ WriteFails(c) \/ Rename(c) \/ RenameFails(c)
          \/ ReadAll(c) \/ Report(c) \/ CallFails(c)
          \/ \E f \in File : PullStart(c, f) \/ ReadFile(c, f) \/ ReadFails(c, f)

Spec == Init /\ [][Next]_vars

-----------------------------------------------------------------------------
(* Properties.                                                             *)

Pulled(c, f) == f \in pulled[c] \/ pulling[c] = f

(* Two calls that ran at once have both pulled f.                          *)
Doubled(f) == \E pair \in met : \A c \in pair : Pulled(c, f)

(* A pull of f that failed.                                                *)
Missed(d, f) == pc[d] = "failed" /\ pulling[d] = f /\ f \notin pulled[d]

(* A pull of f has failed while a call that had pulled something ran, which*)
(* writes its cache whole, with the entry of f that it has read.           *)
Spoiled(f) ==
    \E c, d \in Call : {c, d} \in met /\ Missed(d, f) /\ pulled[c] # {}

BeingPulled(f) == \E c \in Call : pc[c] = "pull" /\ pulling[c] = f

(* What the cache says of f to a call that can read it.                    *)
Cached(f) == IF cache \in Broken THEN None ELSE cache[f]

(* The cache is honest (mtimeCache.ts:58-61): when it tells a search that  *)
(* a file has not changed, the local copy has all of it, unless two calls  *)
(* that ran at once have pulled that file, or one has and failed while the *)
(* other wrote the cache.  Pulls that failed at other times, caches        *)
(* written late or lost, and a file that grew while it was pulled or       *)
(* within one second do not make it lie.                                   *)
SkippedIsComplete ==
    \A f \in File :
        (Cached(f) # None /\ Cached(f) = device[f]
            /\ ~Doubled(f) /\ ~Spoiled(f) /\ ~BeingPulled(f))
        => local[f] >= device[f].size

(* Another call that ran with c has pulled something, and so writes too.   *)
Accompanied(c) == \E d \in Call \ {c} : {c, d} \in met /\ pulled[d] # {}

(* A cache that is no cache, on which every later call of the source would *)
(* fail (mtimeCache.ts:69-80), takes two calls that write at once: whatever*)
(* writes fail, the file that one call writes and renames by itself is     *)
(* whole.                                                                  *)
TornByTwo ==
    cache \in Broken => \E c \in Call : pulled[c] # {} /\ Accompanied(c)

(* What excuses an answer of c: as above, or f was pulled as c ran.        *)
Excused(c, f) ==
    Doubled(f) \/ Spoiled(f) \/ \E d \in Call : {c, d} \in met /\ Pulled(d, f)

(* A call that succeeds has had, of every file it listed, at least what    *)
(* the listing announced: a search has read it, a seal has left it behind  *)
(* for the bundle.  Its event names the files whose entries it wrote.      *)
AnswersAreWhole ==
    \A c \in Call : pc[c] = "done" =>
        /\ \A f \in File :
              (listing[c][f] # None /\ ~Excused(c, f))
              => (IF c \in Seal THEN local[f] ELSE seen[c][f])
                     >= listing[c][f].size
        /\ logged[c] = {f \in File : Pulled(c, f)}

-----------------------------------------------------------------------------
(* The inductive invariant.                                                *)

(* A file's mtime is at most the number of its appends.                    *)
MtimeOrder ==
    \A f \in File : device[f] # None => device[f].mtime <= device[f].size

(* What a call has at each place.                                          *)
Stages ==
    \A c \in Call :
        /\ pc[c] \in Over \union {"idle", "cache"} => mem[c] = NoFiles
        /\ pc[c] \in {"idle", "cache", "list"} =>
              pulled[c] = {} /\ pulling[c] = None /\ listing[c] = NoFiles
        /\ pc[c] \notin {"read", "report", "done"} =>
              \A f \in File : seen[c][f] = -1
        /\ pc[c] = "pull" => pulling[c] \in Due(c)
        /\ pc[c] \notin {"pull", "failed"} => pulling[c] \in pulled[c] \union {None}
        /\ pc[c] \in {"write", "rename", "read", "report"} => Due(c) = {}
        /\ pc[c] \in {"write", "rename"} => stamp[c] \in Stamp /\ pulled[c] # {}
        /\ pc[c] = "write" => writing[c] \in {stamp[c], Cache, None}
        /\ pc[c] = "report" /\ c \notin Seal => ToRead(c) = {}
        /\ pc[c] = "done" => logged[c] = pulled[c]
        /\ c \in Running => \A f \in pulled[c] :
              listing[c][f] # None /\ mem[c][f] = listing[c][f]

(* Calls that run have met, and those that run after a seal was over ran   *)
(* with it.                                                                *)
Meetings ==
    /\ \A pair \in met : \A c \in pair : pc[c] # "idle"
    /\ \A c, d \in Running : c # d => {c, d} \in met
    /\ \A c \in Seal, d \in Running : pc[c] \in Over => {c, d} \in met

(* An entry is a stat the file has had.                                    *)
Past(f, e) ==
    e # None => IF device[f] = None THEN f \in Rolled
                                    ELSE e.size <= device[f].size

EntriesArePast ==
    \A f \in File :
        /\ Past(f, Cached(f))
        /\ \A c \in Call : Past(f, mem[c][f]) /\ Past(f, listing[c][f])

(* A temporary file that is whole is that of a call about to rename it.    *)
TmpHasWriter ==
    \A s \in Stamp : tmp[s] \notin Broken \union {None} =>
        \E c \in Call : pc[c] = "rename" /\ stamp[c] = s /\ tmp[s] = mem[c]

(* What a call writes while no other does is in the file of its own name.  *)
WritesAlone ==
    \A c \in Call : ~Accompanied(c) =>
        /\ pc[c] = "write" => writing[c] = stamp[c] /\ tmp[stamp[c]] = Blank
        /\ pc[c] = "rename" => tmp[stamp[c]] = mem[c]

(* A cache read before the listing tells of a file's present state only if *)
(* the listing does, for a file only grows.                                *)
ListingIsLater ==
    \A c \in Call, f \in File :
        (pc[c] \in {"sync", "pull"} /\ mem[c][f] # None /\ mem[c][f] = device[f])
        => listing[c][f] = mem[c][f]

(* While a call has the entry it has read, only a call that it met and     *)
(* that had pulled something can have written another.                     *)
CacheIsAsRead ==
    \A d \in Call, f \in File :
        (pc[d] \in {"list", "sync", "pull"} /\ f \notin pulled[d])
        => \/ Cached(f) = mem[d][f]
           \/ \E c \in Call : {c, d} \in met /\ pulled[c] # {}

(* An entry that says what stat now says is true of the local copy.        *)
Kept(f) ==
    local[f] >= device[f].size \/ Doubled(f) \/ Spoiled(f) \/ BeingPulled(f)

CacheIsTrue ==
    \A f \in File : Cached(f) # None /\ Cached(f) = device[f] => Kept(f)

MemIsTrue ==
    \A c \in Running, f \in File :
        mem[c][f] # None /\ mem[c][f] = device[f]
        => Kept(f) \/ \E d \in Call : {c, d} \in met /\ Missed(d, f)

(* What a call takes for unchanged is there in full, and so is what it has *)
(* read or sealed.                                                         *)
CopyIsWhole ==
    \A c \in Call, f \in File :
        (/\ pc[c] \in {"sync", "pull", "write", "rename", "read", "report"}
         /\ mem[c][f] # None /\ mem[c][f] = listing[c][f])
        => local[f] >= listing[c][f].size \/ Excused(c, f)

SeenIsWhole ==
    \A c \in Call, f \in File :
        seen[c][f] # -1 /\ listing[c][f] # None
        => seen[c][f] >= listing[c][f].size \/ Excused(c, f)

DoneIsWhole ==
    \A c \in Call, f \in File :
        pc[c] = "done" /\ listing[c][f] # None
        => (IF c \in Seal THEN local[f] ELSE seen[c][f]) >= listing[c][f].size
           \/ Excused(c, f)

PullInv ==
    /\ TypeOK /\ MtimeOrder /\ Stages /\ Meetings /\ EntriesArePast
    /\ TmpHasWriter /\ WritesAlone /\ TornByTwo
    /\ ListingIsLater /\ CacheIsAsRead
    /\ CacheIsTrue /\ MemIsTrue /\ CopyIsWhole /\ SeenIsWhole /\ DoneIsWhole
=============================================================================
