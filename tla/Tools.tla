---------------------------------- MODULE Tools --------------------------------
(***************************************************************************)
(* The tools that read what a run has recorded and answer in one go:       *)
(* extract_evidence_context (Timeline), extract_crash_context              *)
(* (CrashWindow), screen_recording's contact sheet (ContactSheet),         *)
(* wire_snapshot with wire_diff (Wire), collect_bundle (Bundle), and       *)
(* tap_node, list_elements and capture (Screen).  A run records items, or  *)
(* a screen shows views, any of the lines, frames, requests, files and     *)
(* views that the bounds allow, and a tool is called.                      *)
(***************************************************************************)
EXTENDS Timeline, CrashWindow, ContactSheet, Wire, Bundle, Screen

CONSTANTS
    MaxItems, MaxRawLines, MaxFramesRecorded, MaxRequests, MaxFiles, MaxViews,
                \* bounds
    None        \* no answer yet

VARIABLES
    reading,    \* what is recorded: "timeline", "crash", "sheet", "wire", "bundle"
                \* or "screen"
    setting,    \* of the session, for the timeline
    recorded,   \* the items recorded so far
    ask,        \* the call
    answer      \* what it was answered

vars == <<reading, setting, recorded, ask, answer>>

-----------------------------------------------------------------------------
(* Sessions: around the end of a year, the leap day, and the two changes   *)
(* of a clock; in the first of them, also without a known zone, a profile  *)
(* or a running app.                                                       *)

At(base, summer, start) ==
    [zone |-> [base |-> base, summer |-> summer], start |-> start,
     known |-> TRUE, profile |-> TRUE, running |-> TRUE]

NewYear == At(-2, FALSE, 31)

Ordinary == {NewYear, At(2, TRUE, 31), At(2, TRUE, 23), At(-2, TRUE, 30)}

Settings ==
    Ordinary \union
    {[NewYear EXCEPT !.known = FALSE], [NewYear EXCEPT !.profile = FALSE],
     [NewYear EXCEPT !.running = FALSE]}

Now == setting.start + 1

-----------------------------------------------------------------------------
(* What is recorded.                                                       *)

Item == {x \in [source : Sources, at : setting.start - 1 .. Now,
                kind : UNION {Kinds(s) : s \in Sources}] :
           x.kind \in Kinds(x.source) /\ x.kind # "evidence_pulled"}

(* Each source has a file of its own: the order between them is idle.      *)
RecordItem(x) ==
    /\ reading = "timeline" /\ Len(recorded) < MaxItems
    /\ recorded # <<>> => SourceRank(Last(recorded).source) <= SourceRank(x.source)
    /\ recorded' = Append(recorded, x)

RecordRawLine(line) ==
    /\ reading = "crash" /\ Len(recorded) < MaxRawLines
    /\ recorded' = Append(recorded, line)

RecordFrame(gap, score) ==
    /\ reading = "sheet" /\ Len(recorded) < MaxFramesRecorded
    /\ recorded' = Append(recorded,
                      [time  |-> gap + (IF recorded = <<>> THEN 0 ELSE Last(recorded).time),
                       score |-> score])

(* The app's requests: a plain query, one that echoes an identity, a       *)
(* signed form that was decrypted or not, and a plain form; by the         *)
(* identity they carry and a word.  None is in a log before it is recorded.*)
RequestsWith(id, w) ==
    LET request(method, params, form, decoded, role) ==
            [method |-> method, path |-> IF method = "GET" THEN "/profile" ELSE "/login",
             params |-> params, form |-> form, decoded |-> decoded, role |-> role,
             headers |-> {"accept"}, build |-> None, at |-> 0]
        sign == <<"_sign", "s">>
    IN  {request("GET", <<<<"userid", id>>, <<"nick", w>>>>, <<>>, NoDecoded, "Current"),
         request("GET", <<<<"nick", id>>, <<"userid", IF w = "x" THEN "" ELSE id>>>>,
                 <<>>, NoDecoded, "Candidate"),
         request("POST", <<<<"_uid", id>>>>, <<sign>>,
                 <<<<"type", w>>, <<"code", id>>, <<"_mtime", w>>>>, "Current"),
         request("POST", <<<<"_uid", id>>>>, <<sign>>, NoDecoded, "Current"),
         request("POST", <<<<"type", w>>, <<"nick", w>>>>,
                 <<<<"type", w>>, <<"imei", id>>>>, NoDecoded, NoRole)}

(* Some of them with headers that describe the device.                     *)
Requests ==
    LET sent == UNION {RequestsWith(id, w) : id \in {"idA", "idB"}, w \in {"x", "y"}}
        described(id, headers) ==
            {[q EXCEPT !.headers = headers] :
                q \in {p \in RequestsWith(id, "x") : p.method = "GET" /\ p.role = "Current"}}
    IN  sent \union described("idA", {"x-request-time"})
             \union described("idB", {"accept", "x-device-info"})

RequestsOf(build) == Only(recorded, {r \in Range(recorded) : r.build = build})

(* Each build logs its own run.                                            *)
RecordRequest(build, r) ==
    /\ reading = "wire" /\ Len(recorded) < MaxRequests
    /\ recorded # <<>> => (Last(recorded).build = "capture" => build = "capture")
    /\ recorded' = Append(recorded,
                      [r EXCEPT !.build = build, !.at = Len(RequestsOf(build)) + 1])

(* The files of a run: its streams, whose events are redacted as they are   *)
(* written, the logs, the files pulled of a source that the profile        *)
(* declares and of one it does not, and what an operating system adds; "." *)
(* is the folder of a source from which nothing was pulled.                *)
RunFiles ==
    LET file(place, name, lines) == [place |-> place, name |-> name, lines |-> lines]
        texts == {<<"secret">>, <<"plain", "torn", "secret">>, <<"plain", "full">>}
    IN  {file("run", "events.jsonl", <<"hidden", "torn">>)}
        \union {file("run", name, lines) : name \in LogcatFiles, lines \in texts}
        \union {file(source, ".", <<>>) : source \in {"http", "gone"}}
        \union UNION {{file(source, "log.jsonl", lines), file(source, name, <<"plain">>)} :
                         source \in {"http", "gone"}, lines \in texts,
                         name \in {"attachment", ".mtime-cache.json", ".DS_Store"}}

RecordFile(f) ==
    /\ reading = "bundle" /\ Len(recorded) < MaxFiles
    /\ \A g \in Range(recorded) : g.place = f.place => g.name # f.name
    /\ recorded' = Append(recorded, f)

(* What an app draws: a container that fills the screen, one that takes    *)
(* every tap, two views that overlap, one that is partly off the screen,   *)
(* and one of no width or of no readable bounds.                           *)
Views ==
    LET view(bounds, id, text, clickable) ==
            [bounds |-> bounds, id |-> id, text |-> text, clickable |-> clickable,
             checkable |-> FALSE, class |-> IF clickable THEN "button" ELSE "view"]
    IN  {view(<<0, 4>>, "", "", FALSE), view(<<0, 4>>, "", "", TRUE),
         view(<<0, 2>>, "app", "hello", FALSE), view(<<1, 3>>, "app", "", TRUE),
         [view(<<3, 6>>, "android", "", FALSE) EXCEPT !.checkable = TRUE],
         view(<<2, 2>>, "app", "hello", TRUE), view(<<2>>, "", "hello", FALSE)}

RecordView(view, depth) ==
    /\ reading = "screen" /\ Len(recorded) < MaxViews
    /\ depth <= IF recorded = <<>> THEN 0 ELSE Last(recorded).depth + 1
    /\ recorded' = Append(recorded, [view |-> view, depth |-> depth])

-----------------------------------------------------------------------------
(* Calls.                                                                  *)

TimelineAsk ==
    [query |-> NoFilter, sources |-> <<"poppo_nav", "logcat", "events">>,
     from |-> setting.start - 1, to |-> setting.start, limit |-> 8,
     full |-> FALSE, own |-> NoFilter, cursor |-> FALSE, narrow |-> TRUE,
     tags |-> {}, pids |-> {}, types |-> {}]

TimelineAsks ==
    LET later == [TimelineAsk EXCEPT !.from = setting.start, !.to = Now]
        some  == {TimelineAsk, [later EXCEPT !.limit = 2],
                  [later EXCEPT !.sources = <<"events", "logcat", "poppo_nav">>,
                                !.types = {"crash", "evidence_pulled"}]}
    IN  IF setting \notin Ordinary THEN some
        ELSE some \union
             {later, [TimelineAsk EXCEPT !.limit = 1], [TimelineAsk EXCEPT !.limit = 2],
              [later EXCEPT !.types = {"crash", "evidence_pulled"}],
              [later EXCEPT !.tags = {"noisy"}], [later EXCEPT !.pids = {"other"}],
              [later EXCEPT !.sources = NoFilter, !.query = "poppo_nav", !.limit = 1],
              [later EXCEPT !.sources = <<"poppo_nav", "logcat">>, !.narrow = FALSE]}

(* Calls no recording can make right.                                      *)
TimelineMisuses ==
    {[TimelineAsk EXCEPT !.full = TRUE], [TimelineAsk EXCEPT !.query = "events"],
     [TimelineAsk EXCEPT !.sources = NoFilter], [TimelineAsk EXCEPT !.cursor = TRUE],
     [TimelineAsk EXCEPT !.own = "events"],
     [TimelineAsk EXCEPT !.sources = NoFilter, !.query = "events"],
     [TimelineAsk EXCEPT !.sources = NoFilter, !.query = "poppo_nav", !.own = "poppo_nav"]}

Refusal == [refused |-> TRUE, items |-> recorded]

AskTimeline(a) ==
    /\ reading = "timeline"
    /\ ask' = a
    /\ answer' = IF TimelineRefused(a) THEN Refusal
                 ELSE ExtractEvidenceContext(recorded, a, setting, Now)
    /\ recorded' = answer'.items

(* The raw log may be a line behind the record of its crashes.             *)
RecordedMarkers == 1 .. Len(recorded) + 1

AskCrash(markers, index, before, after) ==
    /\ reading = "crash" /\ UNCHANGED recorded
    /\ ask' = [index |-> index, before |-> before, after |-> after]
    /\ answer' = ExtractCrashContext(recorded, markers, index, before, after)

AskSheet(failure) ==
    /\ reading = "sheet" /\ UNCHANGED recorded
    /\ ask' = failure
    /\ answer' = BuildVideoContactSheet(recorded, failure)

WireAsk ==
    [label |-> TRUE, run |-> TRUE, files |-> FALSE, outDir |-> FALSE, absolute |-> TRUE,
     mark |-> FALSE, marks |-> <<>>, from |-> 1, to |-> MaxRequests, only |-> {}, session |-> "active",
     pull |-> TRUE, report |-> FALSE, readable |-> TRUE, compared |-> {},
     maxGroups |-> 1]

WireAsks ==
    {WireAsk,
     [WireAsk EXCEPT !.from = NoBound, !.mark = TRUE, !.marks = <<1, 2>>,
                     !.session = "over", !.maxGroups = 2],
     [WireAsk EXCEPT !.only = {"/login"}, !.report = TRUE],
     [WireAsk EXCEPT !.compared = {"/profile"}]}

WireMisuses ==
    {[WireAsk EXCEPT !.session = "degraded"], [WireAsk EXCEPT !.pull = FALSE],
     [WireAsk EXCEPT !.label = FALSE, !.report = TRUE], [WireAsk EXCEPT !.run = FALSE],
     [WireAsk EXCEPT !.absolute = FALSE, !.outDir = TRUE], 
     [WireAsk EXCEPT !.from = NoBound, !.mark = TRUE],
     [WireAsk EXCEPT !.to = 0], [WireAsk EXCEPT !.readable = FALSE]}

(* Both builds' snapshots, and their comparison.                           *)
AskWire(a) ==
    LET snapshot(build) == BuildSnapshot(Available(RequestsOf(build), a), a)
    IN  /\ reading = "wire" /\ UNCHANGED recorded
        /\ ask' = a
        /\ answer' = IF SnapshotRefused(a) \/ DiffRefused(a) THEN Refusal
                     ELSE [baseline |-> snapshot("baseline"),
                           capture  |-> snapshot("capture"),
                           diff     |-> WireDiff(snapshot("baseline").records,
                                                 snapshot("capture").records, a)]

BundleAsks ==
    [logs : {"none", "redacted", "raw"}, acknowledged : BOOLEAN,
     profile : {"builtin", "unknown", Null}, works : BOOLEAN, listed : 0 .. MaxFiles]

(* The last files are recorded once the profile has been checked.          *)
AskBundle(a) ==
    /\ reading = "bundle" /\ UNCHANGED recorded
    /\ a.listed <= Len(recorded)
    /\ ask' = a
    /\ answer' = CollectBundle(Range(SubSeq(recorded, 1, a.listed)), Range(recorded), a)

(* A device that does as it is told, and the ways in which one does not.   *)
Device ==
    [tries |-> <<TRUE>>, torn |-> "no", adb |-> "works", screencap |-> TRUE,
     paints |-> TRUE, rows |-> 3, wm |-> [override |-> Null, physical |-> 4]]

Devices ==
    {[Device EXCEPT !.tries = <<FALSE, FALSE, FALSE, FALSE>>],
     [Device EXCEPT !.tries = <<FALSE, FALSE, FALSE, TRUE>>, !.paints = FALSE],
     [Device EXCEPT !.torn = "unclosed"], [Device EXCEPT !.torn = "surplus"],
     [Device EXCEPT !.adb = "foreground"], [Device EXCEPT !.adb = "tap"],
     [Device EXCEPT !.screencap = FALSE],
     [Device EXCEPT !.rows = 0], [Device EXCEPT !.rows = 2],
     [Device EXCEPT !.wm = [override |-> 3, physical |-> 4]],
     [Device EXCEPT !.wm = [override |-> Null, physical |-> Null]]}

(* The larger screens are shown by a device that works.                    *)
Faced == IF Len(recorded) \in 1 .. 2 THEN {Device} \union Devices ELSE {Device}

AskTap(device, x) ==
    /\ reading = "screen" /\ UNCHANGED recorded
    /\ ask' = [tool |-> "tap_node", device |-> device, x |-> x]
    /\ answer' = TapNode(recorded, device, x)

Filter == [clickableOnly |-> FALSE, contains |-> <<>>, inViewport |-> FALSE]

Filters ==
    {Null, [Filter EXCEPT !.clickableOnly = TRUE], [Filter EXCEPT !.inViewport = TRUE],
     [Filter EXCEPT !.contains = [text |-> {"hello"}, id |-> {"app", "android"}]]}

AskElements(device, filter, limit) ==
    /\ reading = "screen" /\ UNCHANGED recorded
    /\ ask' = [tool |-> "list_elements", device |-> device, filter |-> filter,
               limit |-> limit]
    /\ answer' = ListElements(recorded, device, filter, limit)

CaptureAsk ==
    [tool |-> "capture", device |-> Null, kinds |-> {"screenshot"}, annotate |-> TRUE,
     filter |-> Null, limit |-> Null, ids |-> Null]

(* With ids that are asked for twice, out of order, or not there.          *)
CaptureAsks ==
    {[CaptureAsk EXCEPT !.kinds = {"screenshot", "ui_dump"}, !.ids = <<2, 1, 2>>],
     [CaptureAsk EXCEPT !.filter = [Filter EXCEPT !.inViewport = TRUE], !.limit = 2,
                        !.ids = <<2>>]}

(* Without badges, and the calls that are refused.                         *)
OtherCaptureAsks ==
    {CaptureAsk, [CaptureAsk EXCEPT !.kinds = {"ui_dump"}, !.annotate = FALSE],
     [CaptureAsk EXCEPT !.kinds = {"ui_dump"}], 
     [CaptureAsk EXCEPT !.annotate = FALSE, !.limit = DefaultLimit]}

AskCapture(device, a) ==
    /\ reading = "screen" /\ UNCHANGED recorded
    /\ ask' = [a EXCEPT !.device = device]
    /\ answer' = Capture(recorded, device, a)

-----------------------------------------------------------------------------
Init ==
    /\ \/ reading = "timeline" /\ setting \in Settings
       \/ reading \in {"crash", "sheet", "wire", "bundle", "screen"} /\ setting = None
    /\ recorded = <<>>
    /\ ask = None
    /\ answer = None

Record ==
    /\ \/ \E x \in (IF reading = "timeline" THEN Item ELSE {}) : RecordItem(x)
       \/ \E line \in RawLine : RecordRawLine(line)
       \/ \E gap \in 1 .. 2, score \in 0 .. 2 : RecordFrame(gap, score)
       \/ \E build \in {"baseline", "capture"}, r \in Requests : RecordRequest(build, r)
       \/ \E f \in RunFiles : RecordFile(f)
       \/ \E view \in Views, depth \in 0 .. MaxViews : RecordView(view, depth)
    /\ UNCHANGED <<reading, setting, ask, answer>>

Call ==
    /\ \/ \E a \in (IF reading # "timeline" THEN {}
                    ELSE TimelineAsks \union
                         (IF recorded = <<>> THEN TimelineMisuses ELSE {})) : AskTimeline(a)
       \/ /\ reading = "crash"
          /\ \E markers \in {<<>>} \union {<<m>> : m \in RecordedMarkers}
                                  \union {<<NoLine, m>> : m \in RecordedMarkers},
                index \in 1 .. 2, before \in 0 .. 2, after \in 0 .. 2 :
                AskCrash(markers, index, before, after)
       \/ \E failure \in SheetFailure : AskSheet(failure)
       \/ \E a \in WireAsks \union (IF recorded = <<>> THEN WireMisuses ELSE {}) : AskWire(a)
       \/ \E a \in (IF reading = "bundle" THEN BundleAsks ELSE {}) : AskBundle(a)
       \/ \E device \in Faced, x \in {1, 2, 5} : AskTap(device, x)
       \/ \E device \in Faced, filter \in Filters, limit \in 1 .. 2 :
            AskElements(device, filter, limit)
       \/ \E device \in Faced,
             a \in CaptureAsks \union (IF Len(recorded) = 2 THEN OtherCaptureAsks ELSE {}) :
            AskCapture(device, a)
    /\ UNCHANGED <<reading, setting>>

Next == answer = None /\ (Record \/ Call)

Spec == Init /\ [][Next]_vars

-----------------------------------------------------------------------------
(* Properties.                                                             *)

Answered(what) == reading = what /\ answer # None
Accepted(what) == Answered(what) /\ ("refused" \in DOMAIN answer => ~answer.refused)

(* The items a timeline was asked for: in its window, in fact and whatever *)
(* the device printed; evidence of earlier runs is never the session's.    *)
AskedFor(x) ==
    /\ x.at \in ask.from .. ask.to
    /\ CASE x.source = "logcat"    -> WantedLine(x, ask, setting)
         [] x.source = "events"    -> IncludeEvent(x, ask)
         [] x.source = "poppo_nav" -> x.at >= setting.start

Records(source) == SelectSeq(answer.records, LAMBDA r : r.source = source)

(* A timeline is in order and within its limit, a crash's number finds that*)
(* crash, and it leaves nothing out in silence: every line, event and      *)
(* evidence record in the window that was asked for is in it exactly once, *)
(* in a year, on a leap day and through a change of the clock that the     *)
(* device's stamps do not tell, unless a warning says what was cut.  (A    *)
(* stamp the clock shows twice may stand for its other hour.)              *)
TimelineIsHonest ==
    Accepted("timeline") =>
        LET r == answer.records
            complete(s) == answer.warnings \intersect
                    (CASE s = "logcat"    -> {"zone", "groups", "limit"}
                       [] s = "events"    -> {"limit"}
                       [] s = "poppo_nav" -> {"source", "limit", "cursor"}) = {}
            wanted(s) == SelectSeq(Of(recorded, s), AskedFor)
            counted(s, k) == FoldSeq(LAMBDA x, n : n + (IF x.kind = k THEN x.count ELSE 0),
                                     0, Records(s))
            clear == \A i \in DOMAIN recorded : Unambiguous(recorded[i].at, setting.zone)
            asked == IF ask.sources = NoFilter THEN {ask.query} ELSE Range(ask.sources)
        IN  /\ Len(r) <= ask.limit
            /\ ask.sources # NoFilter =>
                  \A i, j \in DOMAIN r : i < j =>
                     \/ r[i].ts < r[j].ts
                     \/ r[i].ts = r[j].ts /\ SourceRank(r[i].source) <= SourceRank(r[j].source)
            /\ \A i \in DOMAIN r : r[i].ref # 0 =>
                  LET crashes == SelectSeq(recorded, LAMBDA x : x.kind = "crash")
                  IN  crashes[r[i].ref].at = r[i].ts
            /\ \A s \in asked : complete(s) /\ (s = "logcat" => clear) =>
                  \A k \in Kinds(s) \ {"evidence_pulled"} :
                     counted(s, k) = Len(SelectSeq(wanted(s), LAMBDA x : x.kind = k))

(* The window around a crash is the lines asked for, as far as the log     *)
(* goes.  It holds on to its marker's line and loses no line it had room   *)
(* for before it was redacted: it is only ever shrunk to fit, by its front *)
(* and back in turn.  Of what is left every line is shown, the marker's    *)
(* too, unless redaction has lengthened one or the marker's is too large:  *)
(* then the end is cut, and may take the marker's with it.  Nothing is left*)
(* out in silence.  The exception and frame it names are the first from    *)
(* the marker on, even when they were shrunk away; of a marker that is past*)
(* the end, they can only be the last line.                                *)
HoldsMarker(raw, asked, got) ==
    LET w == got.window
        f == got.fitted
        held  == IF got.marker \in DOMAIN raw THEN got.marker ELSE Len(raw)
        front == f.from - w.from
        back  == w.to - f.to
        size(i, j) == Joined(raw, i, j, LineSize)
        later == {i \in w.from .. w.to : i >= held}
        named(line, kind) ==
            IF line = NoLine THEN \A i \in later : raw[i] # kind
            ELSE /\ line \in later /\ raw[line] = kind
                 /\ \A i \in later : i < line => raw[i] # kind
    IN  /\ \A i \in DOMAIN raw : i \in w.from .. w.to <=>
              i \in got.marker - asked.before .. got.marker + asked.after
        /\ w.from <= w.to =>
              /\ f.from <= held /\ held <= f.to
              /\ w.from <= f.from /\ f.to <= w.to
              /\ size(f.from, f.to) <= CharBudget \/ f.from = f.to
              /\ front + back > 0 =>
                    IF front > back \/ f.to = w.to
                    THEN size(f.from - 1, f.to) > CharBudget
                    ELSE \/ size(f.from, f.to + 1) > CharBudget
                         \/ size(f.from - 1, f.to) > CharBudget
              /\ front > back + 1 => w.to = held \/ f.to = held
              /\ back > front => f.from = held
        /\ w.from > w.to => f = w
        /\ got.whole \in f.from - 1 .. f.to
        /\ Joined(raw, f.from, got.whole, ShownSize) <= CharBudget
        /\ \A i \in f.from .. f.to : i > got.whole =>
              \/ \E k \in f.from .. i : raw[k] = "secret"
              \/ f.from = f.to /\ LineSize[raw[i]] > CharBudget
        /\ ~got.truncated => f = w /\ got.whole = f.to
        /\ named(got.signature.exception, "exception")
        /\ named(got.signature.frame, "frame")

(* What crash_context answers, when it finds the crash.                    *)
WindowHoldsMarker ==
    Answered("crash") /\ answer.status = "ok" =>
        HoldsMarker(recorded, ask, answer)

(* A contact sheet spans its recording: the first and the last frame, and  *)
(* of every stretch that has a change the strongest; no frame twice, none  *)
(* out of order, never too many; and while there is room, every change that*)
(* is not shown is close to one that is.  When it fails nothing of it is   *)
(* left and the caller is told.                                            *)
SpansRecording(frames, got) ==
    LET s     == got.sheet
        shown == Range(s)
        n     == CoverageSlots(frames)
        last  == Last(frames).time
        slotOf(f) == Min({n - 1, (frames[f].time * n) \div last})
        changes == {f \in DOMAIN frames : frames[f].score >= MinScore}
    IN  IF got.warned
        THEN s = <<>> /\ ~got.file /\ ~got.scratch
        ELSE /\ got.file
             /\ \A i, j \in DOMAIN s : i < j => s[i] < s[j]
             /\ Len(s) <= MaxFrames /\ Boundaries(frames) \subseteq shown
             /\ Len(s) <= got.columns * got.rows
             /\ (got.rows - 1) * got.columns < Len(s)
             /\ \A f \in changes \ shown :
                   /\ \E g \in shown \intersect changes :
                         slotOf(g) = slotOf(f) /\ frames[g].score >= frames[f].score
                   /\ \/ Len(s) = MaxFrames
                      \/ \E g \in shown \ Boundaries(frames) : Near(frames, f, g)

(* What is made of a screen recording when it stops.                       *)
SheetSpansRecording ==
    Answered("sheet") => SpansRecording(recorded, answer)

(* What a request means to the comparison, read from the request itself:   *)
(* the keys and the order of a query, and of each value that it changes,   *)
(* is empty, is an identity or a secret, or else what it is.               *)
ClassOf(key, value, known) ==
    IF key \in Volatile THEN "*" ELSE IF value = "" THEN ""
    ELSE IF \/ key \in UidKeys \union SecretKeys \union Sensitive
            \/ LengthOf(value) >= MinEchoLength /\ value \in known
    THEN "<r>" ELSE value

Classes(ps, known) ==
    [i \in DOMAIN ps |-> <<ps[i][1], ClassOf(ps[i][1], ps[i][2], known)>>]

Meaning(r, known, roles) ==
    <<r.method, r.path, Encrypted(r),
      IF r.method = "GET" THEN Classes(r.params, known)
                          ELSE SortedPairs(Classes(r.params, known)),
      SortedPairs(Classes(FieldsOf(r), known)), IF roles THEN RoleName(r.role) ELSE NoRole,
      r.headers \intersect DeviceHeaders # {}>>

(* The endpoint that a meaning is of.                                      *)
Endpoint(m) == <<m[1], m[2], {p \in DOMAIN m[5] : p[1] \in Discriminators}>>

(* The identities of a log, but those that only a signed form holds.       *)
Identities(log) ==
    {p[2] : p \in {q \in UNION {Range(r.params \o FieldsOf(r)) : r \in Range(log)} :
                     q[1] \in UidKeys /\ q[2] # ""}}

Meanings(log, a, roles) ==
    LET kept == ParseProjections(Kept(log, a), a.compared)
    IN  [i \in DOMAIN kept |-> Meaning(kept[i], Identities(log), roles)]

(* Two redacted snapshots compare as their requests would: one is MATCHed  *)
(* only if its endpoint was sent the same requests by both builds, and     *)
(* whatever identities, secrets and signatures they carry, under whatever  *)
(* alias, make no difference; what is not shown is counted as truncated.   *)
IsExact(old, new, diff, report) ==
    LET groups == {Endpoint(m) : m \in Range(old \o new)}
        of(ms, g) == {m \in Range(ms) : Endpoint(m) = g}
        more(g) == \E m \in of(new, g) : Times(new, m) > 1 /\ Times(new, m) > Times(old, m)
        same(g) == of(old, g) = of(new, g)
        named(status) == Cardinality({r \in diff.reports : r.status = status})
    IN  /\ named("MISSING") = Cardinality({g \in groups : of(new, g) = {}})
        /\ named("EXTRA") = Cardinality({g \in groups : of(old, g) = {}})
        /\ named("MATCH") = Cardinality({g \in groups : same(g) /\ ~more(g)})
        /\ named("DUPLICATE") = Cardinality({g \in groups : same(g) /\ more(g)})
        /\ Cardinality(diff.reports) = Cardinality(groups)
        /\ diff.truncated <=> Len(diff.shown) + named("MATCH") < Cardinality(diff.reports)
        /\ report => diff.written = diff.reports

LogOf(build) == Available(RequestsOf(build), ask)

DiffIsExact ==
    Accepted("wire") =>
        IsExact(Meanings(LogOf("baseline"), ask, answer.diff.roles),
                Meanings(LogOf("capture"), ask, answer.diff.roles), answer.diff, ask.report)

(* A snapshot shows no secret and no identity of its log, be it one that   *)
(* only a request outside the window carries under its own key, and the    *)
(* same identity is always the same alias, another one another.            *)
RedactsLog(log, a, records) ==
    LET kept  == Kept(log, a)
        shown == UNION {Range(q.query \o q.fields) : q \in Range(records)}
        named(i) == {k \in DOMAIN kept[i].params :
                       kept[i].params[k][1] \in UidKeys /\ kept[i].params[k][2] # ""}
        ids   == UNION {{<<kept[i].params[k][2], records[i].query[k][2]>> :
                           k \in named(i)} : i \in DOMAIN kept}
    IN  /\ \A p \in shown : p[2][1] = "plain" /\ p[2][2] # "" =>
              /\ p[1] \notin SecretKeys \union UidKeys
              /\ LengthOf(p[2][2]) >= MinEchoLength => p[2][2] \notin Identities(log)
        /\ \A x, y \in ids : x[1] = y[1] <=> x[2] = y[2]

(* The snapshots of both builds.                                           *)
SnapshotIsRedacted ==
    Accepted("wire") =>
        \A build \in {"baseline", "capture"} :
            RedactsLog(LogOf(build), ask, answer[build].records)

(* What a bundle of a run folder has to be: it shows what was redacted,    *)
(* and nothing else of the run's evidence; of the log, no more than was    *)
(* asked for, and as it is only if that was acknowledged.  It has every    *)
(* other file of the run, with every line that parses; and only what it    *)
(* cannot redact, what was not acknowledged, or a failure, refuses it.     *)
IsRedacted(run, a, got) ==
    LET logcat(f) == f.place = "run" /\ f.name \in LogcatFiles \union {"logcat.redacted.jsonl"}
        idle(f) == \/ f.name = ".DS_Store"
                   \/ f.place # "run" /\ f.name = ".mtime-cache.json"
        expected == CASE a.logs = "none" -> {f \in run : ~idle(f) /\ ~logcat(f)}
                      [] a.logs = "raw"  -> {f \in run : ~idle(f)}
                      [] OTHER -> {f \in run : ~idle(f) /\ (f.place = "run" =>
                                                              f.name # "logcat.raw.txt")}
        parsed(f) == Cardinality({i \in DOMAIN f.lines : f.lines[i] # "torn"})
        cause == \/ ~a.works \/ (a.logs = "raw" /\ ~a.acknowledged)
                 \/ a.profile # "builtin" /\ \E f \in run : f.place # "run"
                 \/ \E f \in run : f.place \notin DeclaredSources \union {"run"}
                 \/ \E f \in run : "full" \in Range(f.lines)
    IN  IF got.refused THEN cause /\ got.bundle = {}
        ELSE /\ \A f \in got.bundle :
                   /\ ~idle(f) /\ f.place \in DeclaredSources \union {"run"}
                   /\ "secret" \in Range(f.lines) =>
                         logcat(f) /\ a.logs = "raw" /\ a.acknowledged
                   /\ logcat(f) => a.logs # "none"
                   /\ \E g \in expected : g.place = f.place /\ parsed(g) = parsed(f)
             /\ Cardinality(got.bundle) = Cardinality(expected)
             /\ \A g \in expected : \E f \in got.bundle :
                   /\ f.place = g.place /\ parsed(f) = parsed(g)
                   /\ f.name = g.name \/ logcat(g)

(* The bundle of a run that may still be recorded is redacted so, whatever *)
(* appeared in the run after its profile was checked.                      *)
BundleIsRedacted ==
    Answered("bundle") => IsRedacted(Range(recorded), ask, answer)

-----------------------------------------------------------------------------
Nodes == Dump(recorded, ask.device).nodes

(* The views that hold the point, and whose ancestors all do.              *)
Under(nodes, x) ==
    {n \in DOMAIN nodes : \A m \in Range(Lineage(nodes, n)) : ContainsPoint(nodes[m], x)}

Hollow(nodes, n, x) ==
    /\ ~nodes[n].clickable /\ Children(nodes, n) # {}
    /\ \A c \in Children(nodes, n) : ~ContainsPoint(nodes[c], x)

(* Of a call that failed nothing is recorded but the dump it has saved.    *)
OnlyItsDump ==
    \A e \in Range(answer.events) :
        e = CaptureEvent({"ui_dump"}) /\ "dump" \in answer.saved

(* tap_node taps only what it can name: a device that cannot show its      *)
(* views, or shows none there, is not tapped; of a call that failed, after *)
(* its tap too, nothing is recorded but the dump it has saved.  The view   *)
(* it names holds the point with all that it is part of, in the topmost    *)
(* window, and none of its parts do; whatever is drawn over it there is an *)
(* empty container that lets taps through, and it is such a container      *)
(* itself only if its siblings are.  Its anchor is the nearest one of the  *)
(* app, and no text of the screen is recorded.                             *)
TapFindsTheView ==
    Answered("screen") /\ ask.tool = "tap_node" =>
        LET x      == ask.x
            nodes  == Nodes
            over   == Under(nodes, x)
            hit    == answer.hit
            own    == Range(Lineage(nodes, hit.node))
            ofApp  == {n \in own : nodes[n].id = "app"}
        IN  IF answer.refused
            THEN /\ OnlyItsDump
                 /\ answer.tapped => over # {}
                 /\ ask.device = Device => over = {}
            ELSE /\ hit.node \in over /\ own = {hit.node} \union Range(hit.chain)
                 /\ \A n \in over \intersect Roots(nodes) : n <= Min(own)
                 /\ \A c \in Children(nodes, hit.node) : c \notin over
                 /\ \A n \in over \ own :
                       /\ n > hit.node => Hollow(nodes, n, x)
                       /\ nodes[n].parent = nodes[hit.node].parent
                          /\ Hollow(nodes, hit.node, x) /\ nodes[n].parent # 0
                             => n < hit.node /\ Hollow(nodes, n, x)
                 /\ IF ofApp = {} THEN hit.anchor = Null ELSE hit.anchor = Max(ofApp)
                 /\ \A e \in Range(answer.events) : e.type = "tap_node" =>
                       \A n \in {e.node} \union Range(e.chain) : "text" \notin DOMAIN n

(* Whether a filter keeps a view, said of the view.                        *)
Wanted(node, filter, wm) ==
    LET width == IF wm.override # Null THEN wm.override ELSE wm.physical
    IN  filter # Null =>
            /\ filter.clickableOnly => node.clickable
            /\ \A f \in DOMAIN filter.contains : node[f] \in filter.contains[f]
            /\ filter.inViewport /\ width # Null =>
                  \E pixel \in 0 .. width - 1 : ContainsPoint(node, pixel)

(* The list of elements has every useful view that was asked for, once,    *)
(* the topmost window's first and parts before the whole, up to the limit, *)
(* and counts what it leaves out; a tap on the centre of one of them that  *)
(* is a leaf or clickable lands on it, or on what is drawn in or over it.  *)
(* The badges of a capture are the same elements under the same numbers,   *)
(* those that were asked for, and its record says as many as were drawn;   *)
(* what could not be drawn is no failure, and loses no screenshot.  Of a   *)
(* call that failed nothing is recorded but the dump it has saved.         *)
ElementsAreHonest ==
    Answered("screen") /\ ask.tool # "tap_node" =>
        LET nodes == Nodes
            useful == {n \in DOMAIN nodes : IsUseful(nodes[n]) /\ HasPositiveBounds(nodes[n])}
            kept   == {n \in useful : Wanted(nodes[n], ask.filter, ask.device.wm)}
            window(n) == Last(Lineage(nodes, n))
            first(a, b) ==
                \/ window(a) > window(b)
                \/ window(a) = window(b) /\ b \in Range(Lineage(nodes, a))
                \/ /\ window(a) = window(b) /\ a < b
                   /\ a \notin Range(Lineage(nodes, b))
            listed == answer.list.elements
            limit  == IF ask.limit = Null THEN DefaultLimit ELSE ask.limit
            place(n) == Cardinality({m \in kept : m # n /\ first(m, n)}) + 1
            drawn  == answer.annotation
            event  == Last(answer.events)
        IN  IF answer.refused THEN OnlyItsDump
            ELSE IF ask.tool = "list_elements"
            THEN /\ Len(listed) = Min({limit, Cardinality(kept)})
                 /\ \A i \in DOMAIN listed : listed[i].node \in kept /\ place(listed[i].node) = i
                 /\ event.unfiltered = Cardinality(useful) /\ event.count = Len(listed)
                 /\ event.truncated <=> Cardinality(kept) > Len(listed)
                 /\ \A e \in Range(listed) :
                       LET n == e.node
                       IN  /\ ContainsPoint(nodes[n], e.center)
                           /\ /\ n \in Under(nodes, e.center)
                              /\ nodes[n].clickable \/ Children(nodes, n) = {}
                              /\ TopmostWindow(nodes, e.center) = window(n)
                              => ResolveTap(nodes, e.center).node >= n
            ELSE /\ "screenshot" \in ask.kinds => "screenshot" \in answer.saved
                 /\ "annotated" \in answer.saved => "dump" \in answer.saved
                 /\ ask.annotate =>
                      /\ (drawn.error = Null) <=> ("annotated" \in answer.saved)
                      /\ event.badges.count = Len(drawn.elements)
                      /\ IF drawn.error # Null THEN drawn.elements = <<>>
                         ELSE /\ {b.annotationId : b \in Range(drawn.elements)} =
                                    IF ask.ids = Null THEN 1 .. Min({limit, Cardinality(kept)})
                                    ELSE Range(ask.ids)
                              /\ \A i, j \in DOMAIN drawn.elements : i < j =>
                                    drawn.elements[i].annotationId < drawn.elements[j].annotationId
                              /\ \A b \in Range(drawn.elements) :
                                    /\ b.element.node \in kept
                                    /\ place(b.element.node) = b.annotationId
=============================================================================
