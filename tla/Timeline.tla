-------------------------------- MODULE Timeline -------------------------------
(***************************************************************************)
(* extract_evidence_context: what was recorded around a moment, from one   *)
(* evidence source or merged from several with the run's own logcat lines  *)
(* and events (mcp/tools/extract_evidence_context.ts).                     *)
(*                                                                         *)
(* The recorded items of all files are one sequence in which each file's   *)
(* items keep their order.  A log line has a pid and a tag, an event a     *)
(* type; evidence is poppo_nav's.                                          *)
(***************************************************************************)
EXTENDS Clock, Sequences, SequencesExt, FiniteSetsExt

CONSTANTS
    CapLeast, CapMost,  \* bounds on the log groups of a timeline: 5 and 25
    MaxFullLimit,       \* MAX_FULL_LIMIT
    NoFilter            \* a filter that is left out

Kinds(source) ==
    CASE source = "events"    -> {"mark", "crash", "evidence_pulled"}
      [] source = "logcat"    -> {"plain", "noisy", "foreign"}
      [] source = "poppo_nav" -> {"screen"}

Sources == {"events", "logcat", "poppo_nav"}

(* Strings are sorted; so are their places.                                *)
SourceRank(source) ==
    CASE source = "events" -> 1 [] source = "logcat" -> 2 [] source = "poppo_nav" -> 3

PidOf(kind) == IF kind = "foreign" THEN "other" ELSE "app"
TagOf(kind) == IF kind = "noisy" THEN "noisy" ELSE "plain"

(* Of a session: its zone if known, when it began, whether it has a        *)
(* profile (which declares the source and the noisy tags), and the app's   *)
(* pids, if any.                                                           *)
Setting == [zone : Zone, known : BOOLEAN, start : Nat, profile : BOOLEAN,
            running : BOOLEAN]

(* What a client asks.  query and sources are one source and several; own  *)
(* is the one whose query sets a tsMsRange, which this tool sets itself;   *)
(* narrow is a positive log filter.                                        *)
Asking == [query : Sources \union {NoFilter}, sources : Seq(Sources) \union {NoFilter},
           from : Int, to : Int, limit : Nat, full : BOOLEAN,
           own : Sources \union {NoFilter}, cursor : BOOLEAN, narrow : BOOLEAN, tags : SUBSET {"plain", "noisy"},
           pids : SUBSET {"app", "other"}, types : SUBSET Kinds("events")]

-----------------------------------------------------------------------------
(* Records.                                                                *)

TimelineRecord(source, ts, kind, ref) ==
    [source |-> source, ts |-> ts, kind |-> kind, count |-> 1, ref |-> ref]

Of(items, source) == SelectSeq(items, LAMBDA x : x.source = source)

(* Tags default to all but the noisy ones, pids to those the app has now.  *)
WantedLine(line, ask, set) ==
    /\ IF ask.tags # {} THEN TagOf(line.kind) \in ask.tags
       ELSE set.profile => TagOf(line.kind) # "noisy"
    /\ IF ask.pids # {} THEN PidOf(line.kind) \in ask.pids
       ELSE set.running => PidOf(line.kind) = "app"

Grouped(groups, line) ==
    IF groups # <<>> /\ Last(groups).kind = line.kind
    THEN [groups EXCEPT ![Len(groups)].count = @ + 1]
    ELSE Append(groups, line)

LogCap(limit) == Min({CapMost, Max({CapLeast, limit \div 4})})

Page(records, limit) ==
    [records |-> SubSeq(records, 1, Min({limit, Len(records)})),
     cut     |-> Len(records) > limit]

LineRecord(line, set) ==
    TimelineRecord("logcat",
        LogcatTsToEpoch(StampOf(line.at, set.zone), set.start, set.zone), line.kind, 0)

(* Lines of one level, tag and pid that follow each other are one record.  *)
CollectLogcatTimeline(items, ask, set) ==
    LET lines == SelectSeq(Of(items, "logcat"), LAMBDA x : WantedLine(x, ask, set))
        after(groups, r) ==
            IF r.ts = NoTime \/ r.ts \notin ask.from .. ask.to THEN groups
            ELSE Grouped(groups, r)
    IN  Page(FoldLeft(after, <<>>, [i \in DOMAIN lines |-> LineRecord(lines[i], set)]),
             LogCap(ask.limit))

IncludeEvent(event, ask) ==
    IF ask.types # {} THEN event.kind \in ask.types
                      ELSE event.kind # "evidence_pulled"

(* A crash is numbered among all crashes of the run, asked for or not.     *)
CollectEventsTimeline(items, ask) ==
    LET events == Of(items, "events")
        ref(i) == IF events[i].kind # "crash" THEN 0
                  ELSE Cardinality({j \in 1 .. i : events[j].kind = "crash"})
        wanted == SetToSortSeq({i \in DOMAIN events :
                                  /\ IncludeEvent(events[i], ask)
                                  /\ events[i].at \in ask.from .. ask.to},
                               LAMBDA i, j : i < j)
    IN  [k \in DOMAIN wanted |->
           TimelineRecord("events", events[wanted[k]].at, events[wanted[k]].kind,
                          ref(wanted[k]))]

(* bindSession: the window of evidence never begins before the session.    *)
BindSession(ask, set) == [ask EXCEPT !.from = Max({ask.from, set.start})]

MatchEvidence(x, ask) == x.at \in ask.from .. ask.to

(* A page of the evidence.                                                 *)
CollectEvidence(items, ask, set) ==
    LET found == SelectSeq(Of(items, "poppo_nav"),
                    LAMBDA x : MatchEvidence(x, BindSession(ask, set)))
    IN  Page([k \in DOMAIN found |->
                 TimelineRecord("poppo_nav", found[k].at, found[k].kind, 0)], ask.limit)

-----------------------------------------------------------------------------
(* One call.                                                               *)

TimelineRefused(ask) ==
    \/ ask.full /\ ask.limit > MaxFullLimit
    \/ (ask.query = NoFilter) = (ask.sources = NoFilter)
    \/ ask.query # NoFilter /\ ask.own = ask.query
    \/ ask.sources # NoFilter /\ ask.cursor

(* One of several sources is refused in its turn, after the ones before it *)
(* have been read, and pulled.                                             *)
SourceRefused(source, ask) ==
    source = ask.own \/ (source = "logcat" /\ ~ask.narrow)

(* The evidence file is pulled when it has items no pull has fetched; that *)
(* becomes an event of the run, dated now.                                 *)
Pulled(items, now) ==
    IF /\ Of(items, "poppo_nav") # <<>>
       /\ ~\E i \in DOMAIN items : items[i].kind = "evidence_pulled"
    THEN Append(items, [source |-> "events", at |-> now, kind |-> "evidence_pulled"])
    ELSE items

(* With a page of the evidence, if the profile declares it.                *)
WithEvidence(acc, ask, set, now) ==
    LET got == CollectEvidence(acc.items, ask, set)
    IN  IF set.profile
        THEN [acc EXCEPT !.items   = Pulled(@, now),
                         !.records = @ \o got.records,
                         !.cut     = @ \/ got.cut]
        ELSE [acc EXCEPT !.warnings = @ \union {"source"}]

(* What the timeline has so far, after one more source.  Warnings: no zone,*)
(* pids unresolved, log groups cut, source unknown to the profile, and     *)
(* records cut.                                                            *)
AfterSource(acc, source, ask, set, now) ==
    IF acc.refused \/ SourceRefused(source, ask)
    THEN [acc EXCEPT !.refused = TRUE]
    ELSE CASE source = "logcat" /\ ~set.known ->
                [acc EXCEPT !.warnings = @ \union {"zone"}]
           [] source = "logcat" /\ set.known ->
                LET got == CollectLogcatTimeline(acc.items, ask, set)
                IN  [acc EXCEPT !.records  = @ \o got.records,
                                !.warnings = @ \union
                                   (IF got.cut THEN {"groups"} ELSE {}) \union
                                   (IF ask.pids = {} /\ ~set.running THEN {"pids"} ELSE {})]
           [] source = "events" ->
                [acc EXCEPT !.records = @ \o CollectEventsTimeline(acc.items, ask)]
           [] source = "poppo_nav" -> WithEvidence(acc, ask, set, now)

(* By time, then source, and otherwise as collected.                       *)
Merged(records) ==
    LET before(i, j) ==
            LET a == records[i]  b == records[j]
            IN  IF a.ts # b.ts THEN a.ts < b.ts
                ELSE IF a.source # b.source
                THEN SourceRank(a.source) < SourceRank(b.source) ELSE i < j
        order == SetToSortSeq(DOMAIN records, before)
    IN  [k \in DOMAIN order |-> records[order[k]]]

(* The handler, past its gates: of several sources a merged answer without *)
(* pages; of one a page, and if there is more a cursor, which tells so as a*)
(* warning does.  Only a source of the profile can be asked for alone.     *)
ExtractEvidenceContext(items, ask, set, now) ==
    LET empty == [items |-> items, records |-> <<>>, warnings |-> {}, cut |-> FALSE,
                  refused |-> FALSE]
        acc   == FoldLeft(LAMBDA a, s : AfterSource(a, s, ask, set, now),
                          empty, ask.sources)
    IN  IF ask.sources # NoFilter
        THEN [acc EXCEPT !.records  = SubSeq(Merged(@), 1, Min({ask.limit, Len(@)})),
                         !.warnings = @ \union
                            (IF acc.cut \/ Len(acc.records) > ask.limit
                             THEN {"limit"} ELSE {})]
        ELSE IF ask.query = "poppo_nav"
        THEN LET page == WithEvidence(empty, ask, set, now)
             IN  [page EXCEPT !.warnings = @ \union (IF page.cut THEN {"cursor"} ELSE {})]
        ELSE [empty EXCEPT !.warnings = {"source"}]
=============================================================================
