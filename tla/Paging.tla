-------------------------------- MODULE Paging --------------------------------
(***************************************************************************)
(* Reading a run in pages: search_logs over logcat.jsonl                   *)
(* (search/search_logs.ts, search/cursor.ts, search/line_reader.ts) and    *)
(* search_evidence over the local copies of one evidence source            *)
(* (evidence/runtime.ts, evidence/cursor.ts), while the files grow between *)
(* pages and marks are set.  Nothing is kept between two pages but the     *)
(* cursor the client holds.                                                *)
(*                                                                         *)
(* A source is read in one of three ways: "logs" from a byte offset,       *)
(* "stream" (poppo_nav) from a line of a file, "sort" (poppo_http) from a  *)
(* sort key.  A line of a log counts from the moment its newline is        *)
(* written, a line of evidence from the moment it parses, with its newline *)
(* or without; a line that does not parse is one that is not wanted.       *)
(***************************************************************************)
EXTENDS Listing, FiniteSetsExt

CONSTANTS
    MaxLines,   \* bound on the lines of all files together
    MaxKey,     \* sort keys, or the groups of an aggregation
    MaxLimit,   \* bound on a page's limit
    Budget,     \* size of a response
    None        \* no cursor, no mark, no mode

ASSUME BoundsAssumption ==
    /\ MaxLines \in Nat /\ MaxKey \in Nat \ {0}
    /\ MaxLimit \in Nat \ {0} /\ Budget \in Nat \ {0}

Kinds == {"logs", "stream", "sort"}
File  == {1, 2}             \* in the order of their basenames
Here  == "this"

(* What a cursor of this run and source decodes to.                        *)
Cursor == [kind : Kinds, run : {Here}, source : {Here}, file : File, pos : Nat]

ASSUME NoneAssumption == None \notin Cursor

VARIABLES
    kind,       \* how the source is read
    limit,      \* the client's limit
    window,     \* its mark filter: "all", "after" or "before" the mark
    lines,      \* the lines of each file
    unended,    \* the files whose last line has no newline yet
    mark,       \* lines written when the mark was last set, or None
    cursor,     \* the cursor the client holds, or None
    returned,   \* the positions it has been given, in their order
    asked,      \* those that were wanted when it began
    state,      \* of its reading: "new", "open", "over" or "answered"
    page,       \* the latest page
    counts,     \* the latest aggregation
    remarked    \* history: the mark has moved since it began

query == <<kind, limit, window>>
vars  == <<query, lines, unended, mark, cursor, returned, asked, state, page,
           counts, remarked>>

-----------------------------------------------------------------------------
(* Lines and positions.                                                    *)

Small == 1
Large == Budget + 1

Line == [wanted : BOOLEAN, size : {Small, Large}, key : 1 .. MaxKey]

(* Only what the kind of source looks at varies.                           *)
LineOf(k) ==
    {l \in Line : /\ k # "logs" => l.size = Small
                  /\ k = "stream" => l.key = 1
                  /\ ~l.wanted => l.size = Small /\ l.key = 1}

Position == {p \in File \X (1 .. MaxLines) : p[2] <= Len(lines[p[1]])}
At(p)    == lines[p[1]][p[2]]

Precedes(p, q) == p[1] < q[1] \/ (p[1] = q[1] /\ p[2] < q[2])

(* compareSortKeys, then the order in which the records were collected, as *)
(* the sort is stable.                                                     *)
SortsBefore(p, q) ==
    IF kind = "sort" /\ At(p).key # At(q).key THEN At(p).key < At(q).key
                                              ELSE Precedes(p, q)

InOrder(set) == Sorted(set, {e \in set \X set : SortsBefore(e[1], e[2])})

(* A mark is an offset: resolveMarkOffset reads it anew for each page.     *)
InWindow(p) ==
    /\ window = "after"  => p[2] > mark
    /\ window = "before" => p[2] <= mark

Wanted == {p \in Position : At(p).wanted /\ InWindow(p)}

(* What readLinesFrom yields of it: lines that end in a newline.           *)
Ended == {p \in Wanted : p[1] \in unended => p[2] < Len(lines[p[1]])}

-----------------------------------------------------------------------------
(* Pages.  Each is what a reading from a cursor returns: its records, the  *)
(* cursor it ends with, and whether its record was cut.                    *)

Answer(records, next, cut) ==
    [status |-> "ok", records |-> records, next |-> next, cut |-> cut]

Refusal == [status |-> "refused", records |-> <<>>, next |-> None, cut |-> FALSE]

Sizes(s) == Total([i \in DOMAIN s |-> At(s[i]).size])

Resume(k, file, pos) ==
    [kind |-> k, run |-> Here, source |-> Here, file |-> file, pos |-> pos]

(* Mutant: the next page begins at the next match, not at the line.        *)
LogsNextMatch(found, n) ==
    IF n < Len(found) THEN Resume("logs", 1, found[n + 1][2] + 1) ELSE None

(* Where a page of logs that has taken the first n finds ends: at the next *)
(* line if the limit was reached, matching or not; at the record that did  *)
(* not fit; or nowhere, all lines having been read.                        *)
LogsNext(found, n) ==
    IF n = limit
    THEN IF found[n][2] < Len(lines[1])
         THEN Resume("logs", 1, found[n][2] + 1) ELSE None
    ELSE IF n < Len(found) THEN Resume("logs", 1, found[n + 1][2]) ELSE None

(* Mutant: a record that does not fit is not taken, be it the first.       *)
LogsPageStuck(from) ==
    LET found == InOrder({p \in Wanted : p[1] = 1 /\ p[2] >= from})
        n     == Max({k \in 0 .. Len(found) :
                        k <= limit /\ Sizes(SubSeq(found, 1, k)) <= Budget})
    IN  Answer(SubSeq(found, 1, n), LogsNext(found, n), FALSE)

(* searchLogs: matching lines until the limit is reached or one does not   *)
(* fit; the first is taken whatever its size, and cut if it is too large.  *)
LogsPage(from) ==
    LET found == InOrder({p \in Wanted : p[1] = 1 /\ p[2] >= from})
        n     == Max({k \in 0 .. Len(found) :
                        /\ k <= limit
                        /\ k <= 1 \/ Sizes(SubSeq(found, 1, k)) <= Budget})
    IN  Answer(SubSeq(found, 1, n), LogsNext(found, n),
               n > 0 /\ At(found[1]).size > Budget)

(* iterateLocal: from a line of a file on, and the rest of the files, read *)
(* whole and split at newlines; the cursor is the first match the page had *)
(* no room for.                                                            *)
StreamPage(file, pos) ==
    LET found == InOrder({p \in Wanted : ~Precedes(p, <<file, pos>>)})
        n     == Min({limit, Len(found)})
    IN  Answer(SubSeq(found, 1, n),
               IF n < Len(found) THEN Resume("stream", found[n + 1][1], found[n + 1][2])
                                 ELSE None,
               FALSE)

(* The next page holds the keys strictly greater than the cursor's.        *)
ResumesAfter(p, key) == At(p).key > key

(* runSortPath: every matching record of every file is collected, sorted,  *)
(* and resumed after a key.                                                *)
SortPage(key) ==
    LET found == InOrder({p \in Wanted : ResumesAfter(p, key)})
        n     == Min({limit, Len(found)})
    IN  Answer(SubSeq(found, 1, n),
               IF n > 0 /\ n < Len(found)
               THEN Resume("sort", 1, At(found[n]).key) ELSE None,
               FALSE)

PageFrom(c) ==
    CASE kind = "logs"   -> LogsPage(IF c = None THEN 1 ELSE c.pos)
      [] kind = "stream" -> IF c = None THEN StreamPage(1, 1)
                                        ELSE StreamPage(c.file, c.pos)
      [] kind = "sort"   -> SortPage(IF c = None THEN 0 ELSE c.pos)

-----------------------------------------------------------------------------
(* Answers that do not paginate.                                           *)

(* Mutant: the ring starts over at its first slot.                         *)
PutAtFront(ring, p) ==
    IF ring.count < limit
    THEN [ring EXCEPT !.slot[ring.count] = p, !.count = @ + 1]
    ELSE [ring EXCEPT !.slot[0] = p]

(* iterateLocalDesc keeps the latest matches in a ring of limit slots, of  *)
(* the lines that readLinesFrom yields.                                    *)
Put(ring, p) ==
    IF ring.count < limit
    THEN [ring EXCEPT !.slot[(ring.start + ring.count) % limit] = p,
                      !.count = @ + 1]
    ELSE [ring EXCEPT !.slot[ring.start] = p,
                      !.start = (@ + 1) % limit]

(* Newest first: of a stream by the ring, of a sorted source by its keys.  *)
NewestFirst ==
    LET ring == FoldLeft(Put, [slot  |-> [i \in 0 .. limit - 1 |-> None],
                               start |-> 0, count |-> 0], InOrder(Ended))
        descending == {e \in Wanted \X Wanted :
                         \/ At(e[1]).key > At(e[2]).key
                         \/ At(e[1]).key = At(e[2]).key /\ Precedes(e[1], e[2])}
        sorted == Sorted(Wanted, descending)
    IN  IF kind = "stream"
        THEN Reverse([i \in 1 .. ring.count |->
                        ring.slot[(ring.start + i - 1) % limit]])
        ELSE SubSeq(sorted, 1, Min({limit, Len(sorted)}))

(* aggregateLogs: the groups of the matching lines, largest first, as many *)
(* as asked for, and the count of the lines outside them.                  *)
Aggregated(top) ==
    LET found  == {p \in Wanted : p[1] = 1}
        size   == [g \in {At(p).key : p \in found} |->
                     Cardinality({p \in found : At(p).key = g})]
        larger == {e \in (DOMAIN size) \X (DOMAIN size) :
                     \/ size[e[1]] > size[e[2]]
                     \/ size[e[1]] = size[e[2]] /\ e[1] < e[2]}
        groups == Sorted(DOMAIN size, larger)
        shown  == SubSeq(groups, 1, Min({top, Len(groups)}))
    IN  [top     |-> top,
         matched |-> Cardinality(found),
         groups  |-> Len(groups),
         shown   |-> [i \in DOMAIN shown |-> <<shown[i], size[shown[i]]>>],
         other   |-> Cardinality(found)
                       - Total([i \in DOMAIN shown |-> size[shown[i]]])]

-----------------------------------------------------------------------------
(* Calls.                                                                  *)

(* Cursors of another run, another source, another kind, and of a file     *)
(* that has not been pulled.                                               *)
Foreign ==
    LET own == Resume(kind, 1, 2)
    IN  {[own EXCEPT !.kind = IF kind = "sort" THEN "stream" ELSE "sort"]}
        \union IF kind = "logs" THEN {}
               ELSE {[own EXCEPT !.run = "other"], [own EXCEPT !.source = "other"],
                     [own EXCEPT !.file = 3]}

(* What a client may ask: a page from a cursor, the newest records, or the *)
(* counts of the top groups; with a narrowing filter or without.           *)
Call == [cursor : {None, cursor} \union Foreign, newest : BOOLEAN,
         top : {None} \union 1 .. MaxKey, narrow : BOOLEAN]

(* decodeCursor: of logs, an offset; of evidence, a cursor of this run and *)
(* source, of the kind the source is read in, and of a file that has been  *)
(* pulled.                                                                 *)
Decodes(c) ==
    /\ c.kind = kind
    /\ kind # "logs" => c.run = Here /\ c.source = Here /\ c.file \in File

(* The handlers' gates: a filter that narrows, for logs and poppo_http; no *)
(* cursor for an answer that does not paginate.                            *)
Malformed(call) ==
    \/ ~call.narrow /\ kind # "stream"
    \/ call.cursor # None /\ (call.newest \/ call.top # None)

Accepted(call) ==
    /\ ~Malformed(call)
    /\ call.cursor # None => Decodes(call.cursor)
    /\ window # "all" => mark # None

Refused(call) ==
    /\ ~Accepted(call)
    /\ page' = Refusal
    /\ UNCHANGED <<query, lines, unended, mark, cursor, returned, asked, state,
                   counts, remarked>>

(* A page.  Log lines are only ever appended behind what has been read, so *)
(* that each page of logs may be held to all lines there are by then.      *)
GetPage(call) ==
    LET begins == call.cursor = None
        answer == PageFrom(call.cursor)
    IN  /\ Accepted(call) /\ ~call.newest /\ call.top = None
        /\ page' = answer
        /\ cursor' = answer.next
        /\ returned' = IF begins THEN answer.records
                       ELSE returned \o answer.records
        /\ asked' = IF begins \/ kind = "logs" THEN Wanted ELSE asked
        /\ remarked' = (remarked /\ ~begins)
        /\ state' = IF answer.next = None THEN "over" ELSE "open"
        /\ UNCHANGED <<query, lines, unended, mark, counts>>

GetNewest(call) ==
    /\ Accepted(call) /\ call.newest /\ call.top = None
    /\ kind # "logs"
    /\ returned' = NewestFirst
    /\ state' = "answered"
    /\ UNCHANGED <<query, lines, unended, mark, cursor, asked, page, counts,
                   remarked>>

GetCounts(call) ==
    /\ Accepted(call) /\ call.top # None /\ ~call.newest
    /\ kind = "logs"
    /\ counts' = Aggregated(call.top)
    /\ state' = "answered"
    /\ UNCHANGED <<query, lines, unended, mark, cursor, returned, asked, page,
                   remarked>>

-----------------------------------------------------------------------------
(* The run goes on.                                                        *)

(* A logcat line is derived, or a record pulled with its file, which may   *)
(* have been written up to the record's newline: that comes with a later   *)
(* pull, alone or with a record behind it.                                 *)
Appended(f, l) ==
    /\ Cardinality(Position) < MaxLines
    /\ kind = "logs" => f = 1
    /\ lines' = [lines EXCEPT ![f] = Append(@, l)]
    /\ unended' \in {unended \ {f}} \union
                    IF kind = "logs" THEN {} ELSE {unended \union {f}}
    /\ UNCHANGED <<query, mark, cursor, returned, asked, state, page, counts,
                   remarked>>

Newline(f) ==
    /\ f \in unended
    /\ unended' = unended \ {f}
    /\ UNCHANGED <<query, lines, mark, cursor, returned, asked, state, page,
                   counts, remarked>>

(* mark_event, for the name the query uses: the latest such mark counts.   *)
SetMark ==
    /\ window # "all"
    /\ mark' = Len(lines[1])
    /\ remarked' = TRUE
    /\ UNCHANGED <<query, lines, unended, cursor, returned, asked, state, page,
                   counts>>

Init ==
    /\ kind \in Kinds /\ limit \in 1 .. MaxLimit
    /\ window \in IF kind = "logs" THEN {"all", "after", "before"} ELSE {"all"}
    /\ lines = [f \in File |-> <<>>] /\ unended = {}
    /\ mark = None /\ cursor = None
    /\ returned = <<>> /\ asked = {}
    /\ state = "new"
    /\ page = Refusal
    /\ counts = None
    /\ remarked = FALSE

Next ==
    /\ state # "answered"
    /\ \/ \E call \in Call :
             Refused(call) \/ GetPage(call) \/ GetNewest(call) \/ GetCounts(call)
       \/ \E f \in File, l \in LineOf(kind) : Appended(f, l)
       \/ \E f \in File : Newline(f)
       \/ SetMark

Spec == Init /\ [][Next]_vars

-----------------------------------------------------------------------------
(* Properties.                                                             *)

Reading == state \in {"open", "over"}

(* A record shares its sort key with another: a page boundary between the  *)
(* two loses the second (runtime.ts:300-309).                              *)
Tied(p) == kind = "sort" /\ \E q \in Wanted \ {p} : At(q).key = At(p).key

(* Reading to the end returns every record that parsed and matched when it *)
(* began, its newline written or not, and every log line there was when    *)
(* its last page was read: each once, in order, whatever was appended in   *)
(* between and whatever cursors of other runs, sources or kinds were       *)
(* submitted.  A mark set anew while the reading is under way moves its    *)
(* window.                                                                 *)
PagesLoseNothing ==
    Reading =>
        /\ \A i, j \in DOMAIN returned :
              i < j => SortsBefore(returned[i], returned[j])
        /\ state = "over" /\ ~remarked
              => \A p \in asked : p \in Range(returned) \/ Tied(p)

(* A page keeps to the limit and, of logs, to the response budget, which   *)
(* only a single record that is marked as cut may exceed, and a page that  *)
(* is not the last brings the client forward.                              *)
PagesFit ==
    page.status = "ok" =>
        /\ Len(page.records) <= limit
        /\ page.cut <=> kind = "logs" /\ Sizes(page.records) > Budget
        /\ page.cut => Len(page.records) = 1
        /\ page.next # None => page.records # <<>>

(* The answers without pages are exact.  The newest records of a sorted    *)
(* source have the largest keys; those of a stream are the end of what     *)
(* pages return, backwards, but for a last line whose newline is missing,  *)
(* which the pages hold and they do not (runtime.ts:262-271, 455, 493-498).*)
(* Every counted line is in the group shown for it or among the others,    *)
(* which are no larger.                                                    *)
AnswersAreExact ==
    state = "answered" =>
        /\ kind = "logs" =>
              LET found == {p \in Wanted : p[1] = 1}
                  of(g) == Cardinality({p \in found : At(p).key = g})
                  shown == {s[1] : s \in Range(counts.shown)}
              IN  /\ counts.matched = Cardinality(found)
                  /\ \A s \in Range(counts.shown) : s[2] = of(s[1])
                  /\ counts.other =
                        Cardinality({p \in found : At(p).key \notin shown})
                  /\ \A g \in shown, h \in (1 .. MaxKey) \ shown : of(g) >= of(h)
                  /\ Len(counts.shown) = Min({counts.top, counts.groups})
        /\ kind = "stream" =>
              LET tails == {p \in Position : p[1] \in unended
                                            /\ p[2] = Len(lines[p[1]])}
                  held  == Wanted \ tails
                  first == Cardinality(held) - Min({limit, Cardinality(held)})
              IN  returned =
                     Reverse(SubSeq(InOrder(held), first + 1, Cardinality(held)))
        /\ kind = "sort" =>
              /\ Len(returned) = Min({limit, Cardinality(Wanted)})
              /\ \A i, j \in DOMAIN returned :
                    i < j => At(returned[i]).key >= At(returned[j]).key
              /\ \A p \in Wanted \ Range(returned), i \in DOMAIN returned :
                    At(p).key <= At(returned[i]).key

-----------------------------------------------------------------------------
(* Why: what a reading has passed by is what it has returned.              *)

TypeOK ==
    /\ kind \in Kinds /\ limit \in 1 .. MaxLimit
    /\ window \in {"all", "after", "before"}
    /\ lines \in [File -> Seq(Line)] /\ unended \subseteq File
    /\ mark \in Nat \union {None}
    /\ cursor \in Cursor \union {None}
    /\ returned \in Seq(Position) \/ state = "answered"
    /\ asked \in SUBSET Position
    /\ state \in {"new", "open", "over", "answered"}
    /\ page \in [status : {"ok", "refused"}, records : Seq(Position),
                 next : Cursor \union {None}, cut : BOOLEAN]
    /\ remarked \in BOOLEAN

(* Only logs have marks, and one file; evidence that was wanted stays so.  *)
KindsDiffer ==
    IF kind = "logs" THEN lines[2] = <<>>
                     ELSE window = "all" /\ asked \subseteq Wanted

(* A position that a page from cursor c leaves behind.                     *)
Passed(p, c) ==
    /\ c # None
    /\ CASE kind = "logs"   -> p[2] < c.pos
         [] kind = "stream" -> Precedes(p, <<c.file, c.pos>>)
         [] kind = "sort"   -> At(p).key <= c.pos

(* The cursor is held while there is more to read, and decodes.            *)
CursorHeld ==
    /\ state \in {"new", "over"} => cursor = None
    /\ state = "open" => /\ cursor # None /\ cursor.kind = kind
                         /\ kind = "logs" => cursor.pos <= Len(lines[1])

(* Of each of these, no record is behind the cursor but those returned.    *)
Sought == IF kind = "logs" THEN Wanted ELSE asked

ReadSoFar ==
    /\ Reading => \A i, j \in DOMAIN returned :
                    i < j => SortsBefore(returned[i], returned[j])
    /\ state = "open" =>
          /\ \A i \in DOMAIN returned : Passed(returned[i], cursor)
          /\ ~remarked => \A p \in Sought :
                Passed(p, cursor) => p \in Range(returned) \/ Tied(p)
    /\ state = "over" /\ ~remarked =>
          \A p \in asked : p \in Range(returned) \/ Tied(p)

ReadingInv == TypeOK /\ KindsDiffer /\ CursorHeld /\ ReadSoFar /\ PagesFit
=============================================================================
