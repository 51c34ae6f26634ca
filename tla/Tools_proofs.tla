------------------------------ MODULE Tools_proofs -----------------------------
(***************************************************************************)
(* Proofs about Tools, for recordings and calls of any size: what each of  *)
(* the tools answers of any recording, and that a run's answers are those. *)
(***************************************************************************)
EXTENDS Tools, Induction

-----------------------------------------------------------------------------
(* Bundles.                                                                *)

(* A file of a run folder: attachments of the evidence hold nothing to     *)
(* redact, nor do the streams that are redacted as they are written; and   *)
(* the names that the bundle gives are not taken.                          *)
RunFile(f) ==
  /\ f = [place |-> f.place, name |-> f.name, lines |-> f.lines]
  /\ \E E : f.lines \in Seq(E)
  /\ f.place # "run" /\ f.name # "log.jsonl" => "secret" \notin Range(f.lines)
  /\ f.place = "run" =>
        /\ f.name # "logcat.redacted.jsonl"
        /\ f.name \notin LogcatFiles => "secret" \notin Range(f.lines)

RunFolder(run) ==
  /\ IsFiniteSet(run)
  /\ \A f \in run : RunFile(f)
  /\ \A f, g \in run : f.place = g.place /\ f.name = g.name => f = g

Parsed(f) == Cardinality({i \in DOMAIN f.lines : f.lines[i] # "torn"})

(* A file that is written anew keeps its lines that parse, and no secret.  *)
LEMMA RewriteRedacts ==
  ASSUME NEW f, RunFile(f)
  PROVE  /\ Rewrite(f).place = f.place
         /\ Rewrite(f).name = IF f.name = "logcat.jsonl" THEN "logcat.redacted.jsonl"
                                                         ELSE f.name
         /\ "secret" \notin Range(Rewrite(f).lines)
         /\ Parsed(Rewrite(f)) = Parsed(f)
<1>counts. \A E : \A q \in Seq(E) : \A L : HowMany(Only(q, L), L) = HowMany(q, L \intersect L)
  BY OnlyCounts
<1>ranges. \A E : \A q \in Seq(E) : \A L : Range(Only(q, L)) = Range(q) \intersect L
  BY OnlyCounts
<1>1. \E E : f.lines \in Seq(E)
  BY DEF RunFile
<1> DEFINE lines == f.lines
           whole == Range(lines) \ {"torn"}
           t == Only(lines, whole)
           u == [i \in DOMAIN t |-> RedactString(t[i])]
<1>2. Rewrite(f) = [place |-> f.place,
                    name |-> IF f.name = "logcat.jsonl" THEN "logcat.redacted.jsonl"
                                                        ELSE f.name,
                    lines |-> u]
  <2>1. Rewrite(f) = [f EXCEPT !.name = IF @ = "logcat.jsonl" THEN "logcat.redacted.jsonl"
                                                           ELSE @,
                                !.lines = u]
    BY Zenon DEF Rewrite
  <2> HIDE DEF u
  <2> QED
    BY <2>1 DEF RunFile
<1>kept. Range(Only(f.lines, whole)) = Range(f.lines) \intersect whole
  <2> HIDE DEF t, u, lines, whole
  <2> QED BY <1>1, <1>ranges
<1>many. HowMany(Only(f.lines, whole), whole) = HowMany(f.lines, whole \intersect whole)
  <2> HIDE DEF t, u, lines, whole
  <2> QED BY <1>1, <1>counts
<1>3. /\ Range(t) = Range(lines) \intersect whole
      /\ HowMany(t, whole) = HowMany(lines, whole \intersect whole)
  BY <1>kept, <1>many, Zenon
<1>4. DOMAIN u = DOMAIN t
  OBVIOUS
<1>5. \A i \in DOMAIN t : t[i] \in whole
  BY <1>3 DEF Range
<1>6. \A i \in DOMAIN lines : lines[i] \in whole \intersect whole <=> lines[i] # "torn"
  BY DEF Range
<1>7. \A i \in DOMAIN u : u[i] # "torn" /\ u[i] # "secret"
  BY <1>5 DEF RedactString
<1>8. {i \in DOMAIN u : u[i] # "torn"} = {i \in DOMAIN t : t[i] \in whole}
  BY <1>4, <1>5, <1>7
<1>9. {i \in DOMAIN lines : lines[i] # "torn"} = {i \in DOMAIN lines : lines[i] \in whole \intersect whole}
  BY <1>6
<1> HIDE DEF whole, t, u
<1>10. Parsed(Rewrite(f)) = Parsed(f)
  <2>1. Parsed(f) = Cardinality({i \in DOMAIN lines : lines[i] # "torn"})
    BY DEF Parsed
  <2>2. Parsed(Rewrite(f)) = Cardinality({i \in DOMAIN u : u[i] # "torn"})
    <3>1. Rewrite(f).lines = u
      BY <1>2
    <3> QED
      BY <3>1 DEF Parsed
  <2> HIDE DEF lines
  <2> QED
    BY <2>1, <2>2, <1>3, <1>8, <1>9 DEF HowMany
<1> QED
  BY <1>2, <1>7, <1>10 DEF Range

(* What is packed of a file.                                               *)
LEMMA PackedIs ==
  ASSUME NEW f, RunFile(f), NEW logs \in {"none", "redacted", "raw"}, ~LeftOut(f, logs)
  PROVE  /\ Packed(f, logs).place = f.place
         /\ Parsed(Packed(f, logs)) = Parsed(f)
         /\ Packed(f, logs).name =
              IF f.place = "run" /\ f.name = "logcat.jsonl" /\ logs = "redacted"
              THEN "logcat.redacted.jsonl" ELSE f.name
         /\ "secret" \in Range(Packed(f, logs).lines) =>
              f.place = "run" /\ f.name \in LogcatFiles /\ logs = "raw"
<1>1. CASE Rewritten(f, logs)
  <2>1. f.name = "logcat.jsonl" => f.place = "run" /\ logs = "redacted"
    BY <1>1 DEF Rewritten
  <2> QED
    BY <1>1, <2>1, RewriteRedacts DEF Packed
<1>2. CASE ~Rewritten(f, logs)
  <2>1. Packed(f, logs) = f
    BY <1>2 DEF Packed
  <2>2. ASSUME "secret" \in Range(f.lines)
        PROVE  f.place = "run" /\ f.name \in LogcatFiles /\ logs = "raw"
    BY <1>2, <2>2 DEF RunFile, Rewritten, LeftOut, LogcatFiles
  <2>3. ~(f.place = "run" /\ f.name = "logcat.jsonl" /\ logs = "redacted")
    BY <1>2 DEF Rewritten
  <2> QED
    BY <2>1, <2>2, <2>3
<1> QED
  BY <1>1, <1>2

(* Two files of a folder are not packed as one.                            *)
LEMMA PackedApart ==
  ASSUME NEW run, RunFolder(run), NEW logs \in {"none", "redacted", "raw"},
         NEW f \in run, NEW g \in run, ~LeftOut(f, logs), ~LeftOut(g, logs),
         Packed(f, logs) = Packed(g, logs)
  PROVE  f = g
<1>1. RunFile(f) /\ RunFile(g)
  BY DEF RunFolder
<1>2. f.place = g.place
  BY <1>1, PackedIs
<1>3. (IF f.place = "run" /\ f.name = "logcat.jsonl" /\ logs = "redacted"
       THEN "logcat.redacted.jsonl" ELSE f.name)
      = (IF g.place = "run" /\ g.name = "logcat.jsonl" /\ logs = "redacted"
         THEN "logcat.redacted.jsonl" ELSE g.name)
  BY <1>1, PackedIs
<1>4. f.place = "run" => f.name # "logcat.redacted.jsonl" /\ g.name # "logcat.redacted.jsonl"
  BY <1>1, <1>2 DEF RunFile
<1>5. f.name = g.name
  BY <1>2, <1>3, <1>4
<1> QED
  BY <1>2, <1>5 DEF RunFolder

(* Whatever of a run folder was listed before it was copied, its bundle is *)
(* redacted.                                                               *)
LEMMA BundlesAreRedacted ==
  ASSUME NEW run, RunFolder(run), NEW listed \in SUBSET run, NEW a,
         a.logs \in {"none", "redacted", "raw"},
         a.acknowledged \in BOOLEAN, a.works \in BOOLEAN
  PROVE  IsRedacted(run, a, CollectBundle(listed, run, a))
<1> DEFINE got == CollectBundle(listed, run, a)
           logcat(f) == f.place = "run" /\ f.name \in LogcatFiles \union {"logcat.redacted.jsonl"}
           idle(f) == f.name = ".DS_Store" \/ (f.place # "run" /\ f.name = ".mtime-cache.json")
           expected == CASE a.logs = "none" -> {f \in run : ~idle(f) /\ ~logcat(f)}
                         [] a.logs = "raw"  -> {f \in run : ~idle(f)}
                         [] OTHER -> {f \in run : ~idle(f) /\ (f.place = "run" => f.name # "logcat.raw.txt")}
           cause == \/ ~a.works \/ (a.logs = "raw" /\ ~a.acknowledged)
                    \/ a.profile # "builtin" /\ \E f \in run : f.place # "run"
                    \/ \E f \in run : f.place \notin DeclaredSources \union {"run"}
                    \/ \E f \in run : "full" \in Range(f.lines)
           refused == \/ a.logs = "raw" /\ ~a.acknowledged
                      \/ RedactionUnavailable(SourceDirs(listed), a.profile)
                      \/ RedactionUnavailable(SourceDirs(run), a.profile)
                      \/ \E f \in run : TooLong(f, a.logs)
                      \/ ~a.works
           kept == {g \in run : ~LeftOut(g, a.logs)}
<1>1. CASE refused
  <2>1. got = [refused |-> TRUE, bundle |-> {}]
    BY <1>1 DEF CollectBundle, NoBundle
  <2>2. cause
    <3>1. ASSUME NEW files \in SUBSET run, RedactionUnavailable(SourceDirs(files), a.profile)
          PROVE  cause
      <4>1. PICK p \in SourceDirs(files) : a.profile # "builtin" \/ p \notin DeclaredSources
        BY <3>1 DEF RedactionUnavailable
      <4>2. PICK f \in run : f.place = p /\ p # "run"
        BY <4>1 DEF SourceDirs
      <4> QED
        BY <4>1, <4>2
    <3>2. \A f \in run : TooLong(f, a.logs) => "full" \in Range(f.lines)
      BY DEF TooLong
    <3> HIDE DEF cause
    <3>3. ASSUME RedactionUnavailable(SourceDirs(listed), a.profile)
          PROVE  cause
      BY <3>1, <3>3
    <3>4. ASSUME RedactionUnavailable(SourceDirs(run), a.profile)
          PROVE  cause
      BY <3>1, <3>4
    <3> QED
      BY <1>1, <3>2, <3>3, <3>4 DEF cause
  <2> HIDE DEF cause, got
  <2>3. got.refused /\ got.bundle = {}
    BY <2>1
  <2> QED
    BY <2>2, <2>3, Zenon DEF IsRedacted, cause, got
<1>2. CASE ~refused
  <2>1. /\ got = [refused |-> FALSE, bundle |-> {Packed(f, a.logs) : f \in kept}]
        /\ ~RedactionUnavailable(SourceDirs(run), a.profile)
        /\ a.logs = "raw" => a.acknowledged
    BY <1>2 DEF CollectBundle
  <2>2. expected = kept
    <3>1. ASSUME NEW f \in run
          PROVE  /\ LeftOut(f, "none") <=> idle(f) \/ logcat(f)
                 /\ LeftOut(f, "raw") <=> idle(f)
                 /\ LeftOut(f, "redacted") <=> idle(f) \/ (f.name = "logcat.raw.txt" /\ f.place = "run")
      BY DEF RunFolder, RunFile, LeftOut, LogcatFiles
    <3> QED
      BY <3>1
  <2>3. \A f \in run : f.place \in DeclaredSources \union {"run"}
    BY <2>1 DEF RedactionUnavailable, SourceDirs
  <2>4. IsFiniteSet(kept)
    BY FS_Subset DEF RunFolder
  <2> DEFINE pack == [f \in kept |-> Packed(f, a.logs)]
             bundle == {Packed(f, a.logs) : f \in kept}
  <2>5. pack \in Injection(kept, bundle)
    <3>1. pack \in [kept -> bundle]
      OBVIOUS
    <3>2. \A f, g \in kept : pack[f] = pack[g] => f = g
      BY PackedApart
    <3> HIDE DEF pack, bundle
    <3> QED
      BY <3>1, <3>2 DEF Injection, IsInjective
  <2>6. pack \in Surjection(kept, bundle)
    BY DEF Surjection
  <2>7. Cardinality(bundle) = Cardinality(kept)
    <3> HIDE DEF pack, bundle, kept
    <3>1. IsFiniteSet(bundle)
      BY <2>4, <2>6, FS_Surjection
    <3> QED
      BY <3>1, <2>5, <2>6, FS_Injection
  <2>8. ASSUME NEW g \in kept
        PROVE  LET f == Packed(g, a.logs)
               IN  /\ ~idle(f) /\ f.place = g.place /\ Parsed(f) = Parsed(g)
                   /\ "secret" \in Range(f.lines) =>
                         logcat(f) /\ a.logs = "raw" /\ a.acknowledged
                   /\ logcat(f) => a.logs # "none"
                   /\ f.name = g.name \/ logcat(g)
    <3>1. RunFile(g) /\ ~LeftOut(g, a.logs) /\ g \in run
      BY DEF RunFolder
    <3> DEFINE f == Packed(g, a.logs)
    <3>2. /\ f.place = g.place /\ Parsed(f) = Parsed(g)
          /\ f.name = IF g.place = "run" /\ g.name = "logcat.jsonl" /\ a.logs = "redacted"
                      THEN "logcat.redacted.jsonl" ELSE g.name
          /\ "secret" \in Range(f.lines) =>
                g.place = "run" /\ g.name \in LogcatFiles /\ a.logs = "raw"
      BY <3>1, PackedIs
    <3>3. ~idle(g) /\ (logcat(g) => a.logs # "none")
      BY <3>1 DEF LeftOut, RunFile, LogcatFiles
    <3>4. logcat(f) => logcat(g)
      BY <3>2 DEF LogcatFiles
    <3>5. "secret" \in Range(f.lines) => logcat(f) /\ a.logs = "raw" /\ a.acknowledged
      BY <2>1, <3>2 DEF LogcatFiles
    <3>6. f.name = g.name \/ logcat(g)
      BY <3>2 DEF LogcatFiles
    <3>7. ~idle(f)
      BY <3>2, <3>3
    <3> HIDE DEF f
    <3> QED
      BY <3>2, <3>3, <3>4, <3>5, <3>6, <3>7 DEF f
  <2>9. ~got.refused /\ got.bundle = bundle
    BY <2>1
  <2>10. /\ \A f \in bundle :
               /\ ~idle(f) /\ f.place \in DeclaredSources \union {"run"}
               /\ "secret" \in Range(f.lines) =>
                     logcat(f) /\ a.logs = "raw" /\ a.acknowledged
               /\ logcat(f) => a.logs # "none"
               /\ \E g \in kept : g.place = f.place /\ Parsed(g) = Parsed(f)
         /\ \A g \in kept : \E f \in bundle :
               /\ f.place = g.place /\ Parsed(f) = Parsed(g)
               /\ f.name = g.name \/ logcat(g)
    <3> HIDE DEF idle, logcat
    <3>1. \A g \in kept : g.place \in DeclaredSources \union {"run"}
      BY <2>3
    <3> HIDE DEF kept
    <3> QED
      BY <2>8, <3>1
  <2> HIDE DEF got, bundle, kept, refused, cause, idle, logcat, expected
  <2>11. IF got.refused THEN cause /\ got.bundle = {}
         ELSE /\ \A f \in got.bundle :
                    /\ ~idle(f) /\ f.place \in DeclaredSources \union {"run"}
                    /\ "secret" \in Range(f.lines) =>
                          logcat(f) /\ a.logs = "raw" /\ a.acknowledged
                    /\ logcat(f) => a.logs # "none"
                    /\ \E g \in expected : g.place = f.place /\ Parsed(g) = Parsed(f)
              /\ Cardinality(got.bundle) = Cardinality(expected)
              /\ \A g \in expected : \E f \in got.bundle :
                    /\ f.place = g.place /\ Parsed(f) = Parsed(g)
                    /\ f.name = g.name \/ logcat(g)
    BY <2>2, <2>7, <2>9, <2>10
  <2> QED
    BY <2>11, Zenon DEF IsRedacted, got, expected, idle, logcat, cause, Parsed
<1> QED
  BY <1>1, <1>2

(* What is recorded of a run folder is a file of one.                      *)
LEMMA RunFilesAre ==
  ASSUME NEW f \in RunFiles
  PROVE  RunFile(f)
<1> DEFINE texts == {<<"secret">>, <<"plain", "torn", "secret">>, <<"plain", "full">>}
<1>1. \E p, n : \E l \in texts \union {<<"hidden", "torn">>, <<"plain">>, <<>>} :
         f = [place |-> p, name |-> n, lines |-> l]
  <2> DEFINE file(place, name, lines) == [place |-> place, name |-> name, lines |-> lines]
  <2>1. \/ f = file("run", "events.jsonl", <<"hidden", "torn">>)
        \/ \E name \in LogcatFiles, lines \in texts : f = file("run", name, lines)
        \/ \E source \in {"http", "gone"} : f = file(source, ".", <<>>)
        \/ \E source \in {"http", "gone"}, lines \in texts,
              name \in {"attachment", ".mtime-cache.json", ".DS_Store"} :
              f \in {file(source, "log.jsonl", lines), file(source, name, <<"plain">>)}
    BY SMTT(60) DEF RunFiles
  <2> HIDE DEF texts
  <2> QED
    BY <2>1
<1>0. \A l \in texts \union {<<"hidden", "torn">>, <<"plain">>, <<>>} :
         \E E : l \in Seq(E)
  <2> SUFFICES ASSUME NEW l \in texts \union {<<"hidden", "torn">>, <<"plain">>, <<>>}
               PROVE  l \in Seq({"secret", "plain", "torn", "full", "hidden"})
    OBVIOUS
  <2>1. CASE l = <<"secret">>
    BY <2>1
  <2>2. CASE l = <<"plain", "torn", "secret">>
    BY <2>2
  <2>3. CASE l = <<"plain", "full">>
    BY <2>3
  <2>4. CASE l = <<"hidden", "torn">>
    BY <2>4
  <2>5. CASE l = <<"plain">>
    BY <2>5
  <2>6. CASE l = <<>>
    BY <2>6
  <2> QED
    BY <2>1, <2>2, <2>3, <2>4, <2>5, <2>6
<1>2. \/ f.place = "run" /\ f.name = "events.jsonl" /\ f.lines = <<"hidden", "torn">>
      \/ f.place = "run" /\ f.name \in LogcatFiles
      \/ f.place \in {"http", "gone"} /\ f.name = "log.jsonl"
      \/ f.place \in {"http", "gone"} /\ f.lines = <<"plain">>
      \/ f.place \in {"http", "gone"} /\ f.lines = <<>>
  BY SMTT(30) DEF RunFiles
<1>3. f = [place |-> f.place, name |-> f.name, lines |-> f.lines]
      /\ \E E : f.lines \in Seq(E)
  <2> HIDE DEF texts
  <2> QED
    BY <1>1, <1>0
<1>4. f.place = "run" => f.name # "logcat.redacted.jsonl"
  BY <1>2 DEF LogcatFiles
<1>5. f.lines \in {<<"hidden", "torn">>, <<"plain">>, <<>>} => "secret" \notin Range(f.lines)
  BY DEF Range
<1> QED
  BY <1>2, <1>3, <1>4, <1>5 DEF RunFile

-----------------------------------------------------------------------------
(* The run folder that is recorded, and what a call was answered.          *)
BundleInv ==
  reading = "bundle" =>
    /\ recorded \in Seq(RunFiles)
    /\ \A i, j \in 1 .. Len(recorded) :
          recorded[i].place = recorded[j].place /\ recorded[i].name = recorded[j].name
             => i = j
    /\ answer # None =>
          /\ ask \in BundleAsks /\ ask.listed <= Len(recorded)
          /\ answer = CollectBundle(Range(SubSeq(recorded, 1, ask.listed)),
                                    Range(recorded), ask)

LEMMA BundleStep ==
  ASSUME BundleInv, [Next]_vars
  PROVE  BundleInv'
<1> SUFFICES ASSUME reading' = "bundle"
             PROVE  /\ recorded' \in Seq(RunFiles)
                    /\ \A i, j \in 1 .. Len(recorded') :
                          recorded'[i].place = recorded'[j].place
                          /\ recorded'[i].name = recorded'[j].name => i = j
                    /\ answer' # None =>
                          /\ ask' \in BundleAsks /\ ask'.listed <= Len(recorded')
                          /\ answer' = CollectBundle(Range(SubSeq(recorded', 1, ask'.listed)),
                                                     Range(recorded'), ask')
  BY DEF BundleInv
<1>1. CASE UNCHANGED vars
  BY <1>1 DEF BundleInv, vars
<1>2. CASE Next
  <2>1. reading = "bundle" /\ answer = None
    BY <1>2 DEF Next, Record, Call
  <2>2. recorded \in Seq(RunFiles)
        /\ \A i, j \in 1 .. Len(recorded) :
              recorded[i].place = recorded[j].place /\ recorded[i].name = recorded[j].name
                 => i = j
    BY <2>1 DEF BundleInv
  <2>3. CASE Record
    <3>1. PICK f \in RunFiles : RecordFile(f) /\ answer' = answer
      BY <2>1, <2>3 DEF Record, RecordItem, RecordRawLine, RecordFrame, RecordRequest, RecordView
    <3>2. \A i \in 1 .. Len(recorded) : recorded[i] \in Range(recorded)
      BY <2>2 DEF Range
    <3>3. \A i \in 1 .. Len(recorded) : recorded[i].place = f.place => recorded[i].name # f.name
      BY <3>1, <3>2 DEF RecordFile
    <3> QED
      BY <2>1, <2>2, <3>1, <3>3 DEF RecordFile
  <2>4. CASE Call
    <3>1. PICK a \in BundleAsks : AskBundle(a)
      BY <2>1, <2>4 DEF Call, AskCrash, AskSheet, AskWire, AskTap, AskElements, AskCapture
    <3> QED
      BY <2>1, <2>2, <3>1 DEF AskBundle
  <2> QED
    BY <1>2, <2>3, <2>4 DEF Next
<1> QED
  BY <1>1, <1>2

LEMMA BundleInvImplies ==
  ASSUME BundleInv
  PROVE  BundleIsRedacted
<1> SUFFICES ASSUME reading = "bundle", answer # None
             PROVE  IsRedacted(Range(recorded), ask, answer)
  BY DEF BundleIsRedacted, Answered
<1>1. /\ recorded \in Seq(RunFiles) /\ ask \in BundleAsks
      /\ answer = CollectBundle(Range(SubSeq(recorded, 1, ask.listed)), Range(recorded), ask)
      /\ \A i, j \in 1 .. Len(recorded) :
            recorded[i].place = recorded[j].place /\ recorded[i].name = recorded[j].name
               => i = j
      /\ ask.listed <= Len(recorded)
  BY DEF BundleInv
<1>2. /\ ask.logs \in {"none", "redacted", "raw"} /\ ask.acknowledged \in BOOLEAN
      /\ ask.works \in BOOLEAN /\ ask.listed \in 0 .. MaxFiles
  BY <1>1 DEF BundleAsks
<1>3. RunFolder(Range(recorded))
  <2>1. \A f \in Range(recorded) : \E i \in 1 .. Len(recorded) : recorded[i] = f
    BY <1>1 DEF Range
  <2>2. \A f \in Range(recorded) : RunFile(f)
    BY <1>1, <2>1, RunFilesAre
  <2>3. \A f, g \in Range(recorded) : f.place = g.place /\ f.name = g.name => f = g
    BY <1>1, <2>1
  <2>4. IsFiniteSet(Range(recorded))
    <3> DEFINE at == [i \in 1 .. Len(recorded) |-> recorded[i]]
    <3>1. at \in Surjection(1 .. Len(recorded), Range(recorded))
      BY <1>1 DEF Surjection, Range
    <3>2. IsFiniteSet(1 .. Len(recorded))
      BY <1>1, FS_Interval
    <3> QED
      BY <3>1, <3>2, FS_Surjection
  <2> QED
    BY <2>2, <2>3, <2>4 DEF RunFolder
<1>4. Range(SubSeq(recorded, 1, ask.listed)) \in SUBSET Range(recorded)
  BY <1>1, <1>2 DEF Range
<1> QED
  BY <1>1, <1>2, <1>3, <1>4, BundlesAreRedacted

-----------------------------------------------------------------------------
(* Crash windows.                                                          *)

(* The windows of a log have a size.                                       *)
LEMMA JoinedIs ==
  ASSUME NEW raw \in Seq(RawLine), NEW i \in 1 .. Len(raw), NEW j \in 1 .. Len(raw),
         NEW size \in [RawLine -> Nat]
  PROVE  Joined(raw, i, j, size) \in Nat
<1>1. CASE i > j
  BY <1>1 DEF Joined
<1>2. CASE i <= j
  <2> DEFINE s == [k \in 1 .. j - i + 1 |-> size[raw[i + k - 1]]]
  <2>1. \A k \in 1 .. j - i + 1 : i + k - 1 \in 1 .. Len(raw)
    BY <1>2
  <2>2. \A l \in 1 .. Len(raw) : raw[l] \in RawLine
    OBVIOUS
  <2>3. j - i \in Nat /\ j - i + 1 \in Nat
    BY <1>2
  <2>4. s \in Seq(Nat)
    BY <2>1, <2>2, <2>3
  <2>5. Total(s) \in Nat
    <3> HIDE DEF s
    <3> QED
      BY <2>4, TotalBounds
  <2>6. Joined(raw, i, j, size) = Total(s) + (j - i)
    BY <1>2 DEF Joined
  <2> HIDE DEF s
  <2> QED
    BY <2>3, <2>5, <2>6
<1> QED
  BY <1>1, <1>2

LEMMA SizesAre ==
  LineSize \in [RawLine -> Nat] /\ ShownSize \in [RawLine -> Nat]
BY DEF LineSize, ShownSize

(* How far a window has shrunk to w after n steps: the marker is in it,    *)
(* and the front and the back have lost as much, until one was used up.    *)
Shrunk(w, n, odd, marker, window) ==
  LET front == w.from - window.from
      back  == window.to - w.to
  IN  /\ w \in [from : Int, to : Int]
      /\ front >= 0 /\ back >= 0 /\ front + back = n
      /\ w.from <= marker /\ marker <= w.to
      /\ w.from = marker \/ w.to = marker \/ front = back + odd
      /\ front > back + 1 => w.to = marker
      /\ back > front => w.from = marker

LEMMA ShrinkOnce ==
  ASSUME NEW marker \in Int, NEW window \in [from : Int, to : Int],
         NEW w, NEW n \in Nat, n < window.to - window.from,
         Shrunk(w, n, n % 2, marker, window)
  PROVE  LET next == Shrink(marker, w, (n + 1) % 2 = 1)
         IN  /\ Shrunk(next, n + 1, (n + 1) % 2, marker, window)
             /\ \/ w = [next EXCEPT !.from = @ - 1]
                \/ w = [next EXCEPT !.to = @ + 1] /\ next.from - window.from <= window.to - next.to
<1> DEFINE odd == (n + 1) % 2 = 1
           next == Shrink(marker, w, odd)
<1>1. PICK a \in Int, b \in Int, x \in Int, y \in Int :
         w = [from |-> a, to |-> b] /\ window.from = x /\ window.to = y
  <2>1. w \in [from : Int, to : Int]
    BY DEF Shrunk
  <2> QED
    BY <2>1
<1>2. PICK p \in {0, 1}, q \in {0, 1} : n % 2 = p /\ (n + 1) % 2 = q /\ q = 1 - p
  OBVIOUS
<1>3. /\ w.from = a /\ w.to = b
      /\ w \in [from : Int, to : Int]
  BY <1>1
<1>4. /\ a >= x /\ y >= b /\ (a - x) + (y - b) = n
      /\ a <= marker /\ marker <= b
      /\ a = marker \/ b = marker \/ a - x = (y - b) + p
      /\ a - x > (y - b) + 1 => b = marker
      /\ y - b > a - x => a = marker
      /\ a < b
  <2>1. /\ a - x >= 0 /\ y - b >= 0 /\ (a - x) + (y - b) = n
        /\ a <= marker /\ marker <= b
        /\ a = marker \/ b = marker \/ a - x = (y - b) + p
        /\ a - x > (y - b) + 1 => b = marker
        /\ y - b > a - x => a = marker
    <3>1. Shrunk(w, n, p, marker, window)
      BY <1>2, Zenon
    <3> HIDE DEF odd, next
    <3> QED
      BY <3>1, <1>1, <1>3 DEF Shrunk
  <2>2. n < y - x
    BY <1>1
  <2> QED
    BY <2>1, <2>2, <1>2
<1>5. odd <=> p = 0
  BY <1>2
<1>6. ASSUME NEW v, NEW c \in Int, NEW d \in Int, v = [from |-> c, to |-> d],
             c - x >= 0, y - d >= 0, (c - x) + (y - d) = n + 1,
             c <= marker, marker <= d,
             c = marker \/ d = marker \/ c - x = (y - d) + q,
             c - x > (y - d) + 1 => d = marker,
             y - d > c - x => c = marker
      PROVE  Shrunk(v, n + 1, (n + 1) % 2, marker, window)
  <2>1. v.from = c /\ v.to = d /\ v \in [from : Int, to : Int]
    BY <1>6
  <2> HIDE DEF odd, next
  <2> QED
    <3>1. Shrunk(v, n + 1, q, marker, window)
      BY <1>1, <1>6, <2>1 DEF Shrunk
    <3> QED
      BY <3>1, <1>2, Zenon
<1> HIDE DEF odd
<1>7. CASE w.from < marker /\ (odd \/ w.to <= marker)
  <2>1. next = [from |-> a + 1, to |-> b]
    BY <1>1, <1>7 DEF Shrink
  <2> HIDE DEF next
  <2>2. w = [next EXCEPT !.from = @ - 1]
    BY <2>1, <1>1
  <2>3. a < marker /\ (p = 0 \/ b <= marker)
    BY <1>3, <1>5, <1>7
  <2>4. /\ (a + 1) - x >= 0 /\ y - b >= 0 /\ ((a + 1) - x) + (y - b) = n + 1
        /\ a + 1 <= marker /\ marker <= b
        /\ a + 1 = marker \/ b = marker \/ (a + 1) - x = (y - b) + q
        /\ (a + 1) - x > (y - b) + 1 => b = marker
        /\ y - b > (a + 1) - x => a + 1 = marker
    BY <2>3, <1>2, <1>4
  <2>5. Shrunk(next, n + 1, (n + 1) % 2, marker, window)
    BY <2>1, <2>4, <1>6
  <2> QED
    BY <2>2, <2>5, Zenon DEF odd, next
<1>8. CASE ~(w.from < marker /\ (odd \/ w.to <= marker))
  <2>1. next = [from |-> a, to |-> b - 1]
    BY <1>1, <1>8 DEF Shrink
  <2> HIDE DEF next
  <2>2. w = [next EXCEPT !.to = @ + 1]
    BY <2>1, <1>1
  <2>3. a = marker \/ (p = 1 /\ b > marker)
    BY <1>3, <1>4, <1>5, <1>8
  <2>4. /\ a - x >= 0 /\ y - (b - 1) >= 0 /\ (a - x) + (y - (b - 1)) = n + 1
        /\ a <= marker /\ marker <= b - 1
        /\ a = marker \/ b - 1 = marker \/ a - x = (y - (b - 1)) + q
        /\ a - x > (y - (b - 1)) + 1 => b - 1 = marker
        /\ y - (b - 1) > a - x => a = marker
        /\ a - x <= y - (b - 1)
    BY <2>3, <1>2, <1>4
  <2>5. Shrunk(next, n + 1, (n + 1) % 2, marker, window)
    BY <2>1, <2>4, <1>6
  <2>6. next.from - window.from <= window.to - next.to
    BY <2>1, <2>4, <1>1
  <2> QED
    BY <2>2, <2>5, <2>6, Zenon DEF odd, next
<1> QED
  BY <1>7, <1>8

(* The ever smaller windows, of which the first that fits is taken.        *)
ShrinksTo(shrunk, raw, marker, window) ==
  LET most == Max({0, window.to - window.from})
  IN  /\ shrunk[0] = window
      /\ \A n \in 1 .. Len(raw) : shrunk[n] = Shrink(marker, shrunk[n - 1], n % 2 = 1)
      /\ FitWindow(raw, marker, window)
           = shrunk[Min({n \in 0 .. most :
                           \/ Joined(raw, shrunk[n].from, shrunk[n].to, LineSize) <= CharBudget
                           \/ n = most})]

LEMMA ShrinksExist ==
  ASSUME NEW raw \in Seq(RawLine), NEW marker \in Int, NEW window \in [from : Int, to : Int]
  PROVE  \E shrunk : ShrinksTo(shrunk, raw, marker, window)
<1> DEFINE N == Len(raw)
           V == [from : Int, to : Int]
           Rec(h) == h = [n \in 0 .. N |->
                            IF n = 0 THEN window
                            ELSE Shrink(marker, h[n - 1], n % 2 = 1)]
           step == [n \in 1 .. N |-> [w \in V |-> Shrink(marker, w, n % 2 = 1)]]
           most == Max({0, window.to - window.from})
<1>1. N \in Nat /\ marker \in Int /\ window \in V
  OBVIOUS
<1>2. step \in [1 .. N -> [V -> V]]
  <2>1. \A w \in V : \A b \in BOOLEAN : Shrink(marker, w, b) \in V
    <3> SUFFICES ASSUME NEW w \in V, NEW b \in BOOLEAN
                 PROVE  Shrink(marker, w, b) \in V
      OBVIOUS
    <3>1. /\ [w EXCEPT !.from = @ + 1] \in V /\ [w EXCEPT !.to = @ - 1] \in V
      OBVIOUS
    <3> HIDE DEF V
    <3> QED
      BY <3>1 DEF Shrink
  <2> HIDE DEF V
  <2> QED
    BY <2>1
<1>3. \E h : Rec(h)
  <2>1. PICK h \in [0 .. N -> V] : h[0] = window /\ \A k \in 1 .. N : h[k] = step[k][h[k - 1]]
    <3>1. N \in Nat /\ window \in V /\ step \in [1 .. N -> [V -> V]]
      BY <1>1, <1>2
    <3> HIDE DEF N, V, step
    <3>2. \E h : Recurs(h, N, V, window, step)
      BY <3>1, StepsExist
    <3> QED
      BY <3>2 DEF Recurs
  <2>2. Rec(h)
    <3>1. \A n \in 1 .. N : h[n] = Shrink(marker, h[n - 1], n % 2 = 1)
      <4>1. \A n \in 1 .. N : h[n - 1] \in V
        <5>1. \A n \in 1 .. N : n - 1 \in 0 .. N
          BY <1>1
        <5> HIDE DEF V, N
        <5> QED
          BY <5>1
      <4> HIDE DEF V, N
      <4> QED
        BY <2>1, <4>1
    <3>2. \A n \in 0 .. N : n = 0 \/ n \in 1 .. N
      BY <1>1
    <3> HIDE DEF V, N
    <3> QED
      BY <2>1, <3>1, <3>2
  <2> QED
    BY <2>2
<1> DEFINE shrunk == CHOOSE h : Rec(h)
           fits(n) == Joined(raw, shrunk[n].from, shrunk[n].to, LineSize) <= CharBudget
           T == {n \in 0 .. most : fits(n) \/ n = most}
<1>4. Rec(shrunk)
  <2> HIDE DEF Rec
  <2> QED
    BY <1>3
<1>5. FitWindow(raw, marker, window) = shrunk[Min(T)]
  BY Zenon DEF FitWindow
<1> HIDE DEF shrunk
<1>6. shrunk[0] = window
      /\ \A n \in 1 .. N : shrunk[n] = Shrink(marker, shrunk[n - 1], n % 2 = 1)
  <2>1. \A n \in 1 .. N : n \in 0 .. N /\ n # 0
    BY <1>1
  <2>2. 0 \in 0 .. N
    BY <1>1
  <2> QED
    BY <1>4, <2>1, <2>2
<1> HIDE DEF Rec
<1> QED
  BY <1>5, <1>6 DEF ShrinksTo

(* The window that is shown of a log: shrunk to fit, and no further.       *)
LEMMA FitsWell ==
  ASSUME NEW raw \in Seq(RawLine), NEW marker \in 1 .. Len(raw),
         NEW window \in [from : 1 .. Len(raw), to : 1 .. Len(raw)],
         window.from <= marker, marker <= window.to
  PROVE  LET f == FitWindow(raw, marker, window)
             n == (f.from - window.from) + (window.to - f.to)
         IN  /\ n \in Nat /\ Shrunk(f, n, n % 2, marker, window)
             /\ Joined(raw, f.from, f.to, LineSize) <= CharBudget \/ f.from = f.to
             /\ n > 0 =>
                   \/ Joined(raw, f.from - 1, f.to, LineSize) > CharBudget
                   \/ /\ f.from - window.from <= window.to - f.to
                      /\ Joined(raw, f.from, f.to + 1, LineSize) > CharBudget
<1> DEFINE N == Len(raw)
           most == window.to - window.from
<1>1. N \in Nat /\ marker \in Int /\ window \in [from : Int, to : Int] /\ most \in 0 .. N
      /\ window.from \in 1 .. N /\ window.to \in 1 .. N
  OBVIOUS
<1>2. most = Max({0, most})
  BY <1>1, MaxOfTwo
<1>3. PICK shrunk : ShrinksTo(shrunk, raw, marker, window)
  BY <1>1, ShrinksExist
<1> DEFINE fits(n) == Joined(raw, shrunk[n].from, shrunk[n].to, LineSize) <= CharBudget
           T == {n \in 0 .. most : fits(n) \/ n = most}
<1>5. FitWindow(raw, marker, window) = shrunk[Min(T)]
  BY <1>2, <1>3 DEF ShrinksTo
<1>6. shrunk[0] = window
      /\ \A n \in 1 .. N : shrunk[n] = Shrink(marker, shrunk[n - 1], n % 2 = 1)
  BY <1>3 DEF ShrinksTo
<1>7. \A n \in 0 .. most : Shrunk(shrunk[n], n, n % 2, marker, window)
  <2> DEFINE U == {n \in 0 .. most : Shrunk(shrunk[n], n, n % 2, marker, window)}
  <2>1. 0 \in U
    <3>1. Shrunk(window, 0, 0 % 2, marker, window)
      BY <1>1 DEF Shrunk
    <3> QED
      BY <1>1, <1>6, <3>1
  <2>2. ASSUME NEW n \in 1 .. most, n - 1 \in U
        PROVE  n \in U
    <3>1. n - 1 \in Nat /\ n - 1 < most /\ n - 1 + 1 = n /\ n \in 1 .. N /\ n \in 0 .. most
      BY <1>1
    <3>2. Shrunk(Shrink(marker, shrunk[n - 1], (n - 1 + 1) % 2 = 1), n - 1 + 1, (n - 1 + 1) % 2, marker, window)
      <4> HIDE DEF most
      <4> QED
        BY <2>2, <3>1, <1>1, ShrinkOnce DEF most
    <3> QED
      BY <3>1, <3>2, <1>6
  <2>3. \A n \in 0 .. most : n \in U
    <3> HIDE DEF U, most
    <3>1. most \in Nat
      BY <1>1
    <3> QED
      BY <3>1, <2>1, <2>2, UpTo
  <2> QED
    BY <2>3
<1> DEFINE m == Min(T)
           f == shrunk[m]
<1>8. m \in T /\ \A k \in T : m <= k
  <2>1. most \in T /\ T \in SUBSET Nat
    BY <1>1
  <2> HIDE DEF T
  <2> QED
    BY <2>1, MinIs
<1> HIDE DEF m
<1>9. m \in 0 .. most /\ (fits(m) \/ m = most)
  BY <1>8
<1>10. Shrunk(f, m, m % 2, marker, window)
  BY <1>7, <1>9
<1>11. /\ f.from \in Int /\ f.to \in Int /\ m = (f.from - window.from) + (window.to - f.to)
       /\ m = most => f.from = f.to
  BY <1>10, <1>1 DEF Shrunk
<1>12. ASSUME m > 0
       PROVE  \/ Joined(raw, f.from - 1, f.to, LineSize) > CharBudget
              \/ /\ f.from - window.from <= window.to - f.to
                 /\ Joined(raw, f.from, f.to + 1, LineSize) > CharBudget
  <2> DEFINE w == shrunk[m - 1]
  <2>1. m - 1 \in 0 .. most /\ m - 1 < m /\ m - 1 # most /\ m - 1 + 1 = m
        /\ m - 1 \in Nat /\ m - 1 < most /\ m \in 1 .. N
    BY <1>1, <1>9, <1>12
  <2>2. m - 1 \notin T
    <3> HIDE DEF T
    <3> QED
      BY <1>8, <2>1, <1>1
  <2>3. ~(Joined(raw, w.from, w.to, LineSize) <= CharBudget)
    BY <2>1, <2>2
  <2>4. Shrunk(w, m - 1, (m - 1) % 2, marker, window)
    BY <1>7, <2>1
  <2>5. f = Shrink(marker, w, (m - 1 + 1) % 2 = 1)
    BY <1>6, <2>1
  <2>6. \/ w = [f EXCEPT !.from = @ - 1]
        \/ w = [f EXCEPT !.to = @ + 1] /\ f.from - window.from <= window.to - f.to
    <3> HIDE DEF w, f
    <3> QED
      BY <2>1, <2>4, <2>5, <1>1, ShrinkOnce
  <2>7. w \in [from : Int, to : Int] /\ f \in [from : Int, to : Int]
    BY <2>4, <1>10 DEF Shrunk
  <2>8. /\ w.from >= window.from /\ w.to <= window.to /\ w.from <= w.to
    BY <2>4, <2>7, <1>1 DEF Shrunk
  <2>9. Joined(raw, w.from, w.to, LineSize) \in Nat
    <3>1. w.from \in 1 .. N /\ w.to \in 1 .. N
      BY <2>7, <2>8, <1>1
    <3> QED
      BY <3>1, JoinedIs, SizesAre
  <2>10. Joined(raw, w.from, w.to, LineSize) > CharBudget
    BY <2>3, <2>9, CrashAssumption
  <2>11. CASE w = [f EXCEPT !.from = @ - 1]
    <3>1. w.from = f.from - 1 /\ w.to = f.to
      <4> HIDE DEF w, f
      <4> QED
        BY <2>7, <2>11
    <3> QED
      BY <2>10, <3>1
  <2>12. CASE w = [f EXCEPT !.to = @ + 1] /\ f.from - window.from <= window.to - f.to
    <3>1. w.from = f.from /\ w.to = f.to + 1
      <4> HIDE DEF w, f
      <4> QED
        BY <2>7, <2>12
    <3> QED
      BY <2>10, <2>12, <3>1
  <2> QED
    BY <2>6, <2>11, <2>12
<1>13. Joined(raw, f.from, f.to, LineSize) <= CharBudget \/ f.from = f.to
  BY <1>9, <1>11
<1>14. FitWindow(raw, marker, window) = f
  BY <1>5 DEF m
<1>15. m \in Nat
  BY <1>9, <1>1
<1> HIDE DEF f
<1> QED
  BY <1>10, <1>11, <1>12, <1>13, <1>14, <1>15

(* A window of no lines stays as it is.                                    *)
LEMMA FitsNothing ==
  ASSUME NEW raw \in Seq(RawLine), NEW marker \in Int, NEW window \in [from : Int, to : Int],
         window.from > window.to
  PROVE  FitWindow(raw, marker, window) = window
<1>1. PICK shrunk : ShrinksTo(shrunk, raw, marker, window)
  BY ShrinksExist
<1>2. Max({0, window.to - window.from}) = 0
  BY MaxOfTwo
<1> DEFINE T == {n \in 0 .. 0 :
                   \/ Joined(raw, shrunk[n].from, shrunk[n].to, LineSize) <= CharBudget
                   \/ n = 0}
<1>3. FitWindow(raw, marker, window) = shrunk[Min(T)] /\ shrunk[0] = window
  BY <1>1, <1>2 DEF ShrinksTo
<1>4. T \in SUBSET Nat /\ 0 \in T /\ \A k \in T : k = 0
  OBVIOUS
<1>5. Min(T) = 0
  <2> HIDE DEF T
  <2> QED
    BY <1>4, MinIs
<1> QED
  BY <1>3, <1>5

(* The beginnings of a window: no larger than it, of no more lines than    *)
(* none it is nothing, and of one line, that line.                         *)
LEMMA JoinedGrows ==
  ASSUME NEW raw \in Seq(RawLine), NEW i \in 1 .. Len(raw), NEW j \in i .. Len(raw),
         NEW k \in i .. j, NEW size \in [RawLine -> Nat]
  PROVE  /\ Joined(raw, i, k, size) <= Joined(raw, i, j, size)
         /\ i = j => Joined(raw, i, j, size) = size[raw[i]]
<1> DEFINE s(m) == [n \in 1 .. m - i + 1 |-> size[raw[i + n - 1]]]
<1>1. ASSUME NEW m \in i .. Len(raw)
      PROVE  /\ s(m) \in Seq(Nat) /\ Len(s(m)) = m - i + 1
             /\ \A n \in 1 .. m - i + 1 : s(m)[n] = size[raw[i + n - 1]]
             /\ Joined(raw, i, m, size) = Total(s(m)) + (m - i)
  <2>1. m - i + 1 \in Nat /\ \A n \in 1 .. m - i + 1 : i + n - 1 \in 1 .. Len(raw)
    OBVIOUS
  <2>2. \A l \in 1 .. Len(raw) : size[raw[l]] \in Nat
    <3>1. \A l \in 1 .. Len(raw) : raw[l] \in RawLine
      OBVIOUS
    <3> QED
      BY <3>1
  <2>3. ~(i > m)
    OBVIOUS
  <2> QED
    BY <2>1, <2>2, <2>3 DEF Joined
<1>2. j \in i .. Len(raw) /\ k \in i .. Len(raw) /\ i <= k /\ k <= j /\ i \in Nat
  OBVIOUS
<1>3. /\ s(j) \in Seq(Nat) /\ Len(s(j)) = j - i + 1 /\ s(k) \in Seq(Nat) /\ Len(s(k)) = k - i + 1
      /\ Joined(raw, i, j, size) = Total(s(j)) + (j - i)
      /\ Joined(raw, i, k, size) = Total(s(k)) + (k - i)
      /\ s(j)[1] = size[raw[i]]
      /\ \A n \in 1 .. k - i + 1 : s(k)[n] = s(j)[n]
  <2>1. 1 \in 1 .. j - i + 1 /\ \A n \in 1 .. k - i + 1 : n \in 1 .. j - i + 1
    BY <1>2
  <2>2. i + 1 - 1 = i
    BY <1>2
  <2> HIDE DEF s
  <2> QED
    BY <1>1, <1>2, <2>1, <2>2
<1> HIDE DEF s
<1>n. \A n \in 1 .. j - i + 1 : s(j)[n] \in Nat
  <2> DEFINE q == s(j)
  <2>1. q \in Seq(Nat) /\ Len(q) = j - i + 1
    BY <1>3
  <2> HIDE DEF q
  <2>2. \A n \in 1 .. j - i + 1 : q[n] \in Nat
    BY <2>1
  <2> QED
    BY <2>2 DEF q
<1>4. Total(s(k)) <= Total(s(j))
  <2>1. PICK f \in [0 .. j - i + 1 -> Nat] :
           /\ f[0] = 0
           /\ \A n \in 1 .. j - i + 1 : f[n] = f[n - 1] + s(j)[n]
           /\ Total(s(j)) = f[j - i + 1]
    BY <1>3, TotalIs
  <2>2. PICK g \in [0 .. k - i + 1 -> Nat] :
           /\ g[0] = 0
           /\ \A n \in 1 .. k - i + 1 : g[n] = g[n - 1] + s(k)[n]
           /\ Total(s(k)) = g[k - i + 1]
    BY <1>3, TotalIs
  <2>3. \A n \in 0 .. k - i + 1 : g[n] = f[n]
    <3> DEFINE U == {n \in 0 .. k - i + 1 : g[n] = f[n]}
    <3>1. 0 \in U
      BY <1>2, <2>1, <2>2
    <3>2. ASSUME NEW n \in 1 .. k - i + 1, n - 1 \in U
          PROVE  n \in U
      <4>1. n \in 1 .. j - i + 1 /\ n \in 0 .. k - i + 1 /\ g[n - 1] = f[n - 1]
        BY <1>2, <3>2
      <4> QED
        BY <4>1, <1>3, <2>1, <2>2
    <3>3. k - i + 1 \in Nat
      BY <1>2
    <3> HIDE DEF U
    <3>4. \A n \in 0 .. k - i + 1 : n \in U
      BY <3>1, <3>2, <3>3, UpTo
    <3> QED
      BY <3>4 DEF U
  <2>4. \A n \in (k - i + 1) .. (j - i + 1) : f[n] >= f[k - i + 1]
    <3> DEFINE d == j - k
               U == {n \in 0 .. d : f[k - i + 1 + n] >= f[k - i + 1]}
    <3>1. d \in Nat /\ k - i + 1 \in 0 .. j - i + 1
      BY <1>2
    <3>2. 0 \in U
      <4>1. f[k - i + 1] \in Nat /\ k - i + 1 + 0 = k - i + 1
        BY <3>1
      <4> QED
        BY <3>1, <4>1
    <3>3. ASSUME NEW n \in 1 .. d, n - 1 \in U
          PROVE  n \in U
      <4>1. /\ n \in 0 .. d /\ k - i + 1 + n \in 1 .. j - i + 1
            /\ k - i + 1 + (n - 1) = (k - i + 1 + n) - 1
            /\ (k - i + 1 + n) - 1 \in 0 .. j - i + 1
        BY <1>2, <3>1
      <4>2. f[(k - i + 1 + n) - 1] >= f[k - i + 1]
        BY <3>3, <4>1
      <4>3. f[k - i + 1 + n] = f[(k - i + 1 + n) - 1] + s(j)[k - i + 1 + n]
        BY <2>1, <4>1
      <4>4. s(j)[k - i + 1 + n] \in Nat
        BY <1>n, <4>1
      <4>5. f[(k - i + 1 + n) - 1] \in Nat /\ f[k - i + 1] \in Nat
        BY <2>1, <3>1, <4>1
      <4> DEFINE x == f[(k - i + 1 + n) - 1]
                 y == f[k - i + 1]
                 z == s(j)[k - i + 1 + n]
      <4>6. x \in Nat /\ y \in Nat /\ z \in Nat /\ x >= y
        BY <4>2, <4>4, <4>5
      <4>7. x + z >= y
        <5> HIDE DEF x, y, z
        <5> QED
          BY <4>6
      <4>8. f[k - i + 1 + n] >= f[k - i + 1]
        BY <4>3, <4>7
      <4> QED
        BY <4>1, <4>8
    <3> HIDE DEF U
    <3>4. \A n \in 0 .. d : n \in U
      <4> HIDE DEF d
      <4> QED
        BY <3>1, <3>2, <3>3, UpTo
    <3>5. ASSUME NEW n \in (k - i + 1) .. (j - i + 1)
          PROVE  f[n] >= f[k - i + 1]
      <4>1. n - (k - i + 1) \in 0 .. d /\ (k - i + 1) + (n - (k - i + 1)) = n
        BY <1>2
      <4>2. n - (k - i + 1) \in U
        BY <3>4, <4>1
      <4> QED
        BY <4>1, <4>2 DEF U
    <3> QED
      BY <3>5
  <2> QED
    <3>1. k - i + 1 \in 0 .. k - i + 1 /\ j - i + 1 \in (k - i + 1) .. (j - i + 1)
      BY <1>2
    <3>2. g[k - i + 1] = f[k - i + 1] /\ f[j - i + 1] >= f[k - i + 1]
      BY <2>3, <2>4, <3>1
    <3>3. f[j - i + 1] \in Nat /\ f[k - i + 1] \in Nat
      BY <1>2
    <3> QED
      BY <2>1, <2>2, <3>2, <3>3
<1>5. Joined(raw, i, k, size) <= Joined(raw, i, j, size)
  <2>1. Total(s(k)) \in Nat /\ Total(s(j)) \in Nat
    BY <1>3, TotalBounds
  <2> QED
    BY <1>2, <1>3, <1>4, <2>1
<1>6. ASSUME i = j
      PROVE  Joined(raw, i, j, size) = size[raw[i]]
  <2>1. Len(s(j)) = 1
    BY <1>2, <1>3, <1>6
  <2>2. Total(s(j)) = s(j)[1] /\ Total(s(j)) \in Nat
    BY <1>3, <2>1, TotalBounds
  <2> QED
    BY <1>2, <1>3, <1>6, <2>2
<1> QED
  BY <1>5, <1>6

(* What of a window is shown whole: as many lines as fit when redacted, so *)
(* every line of a window that fits, before redaction has lengthened one.  *)
LEMMA ShowsWhole ==
  ASSUME NEW raw \in Seq(RawLine), NEW f \in [from : Nat, to : Nat],
         f.from \in 1 .. Len(raw) + 1, f.to \in f.from - 1 .. Len(raw),
         NEW whole, whole = ShownWhole(raw, f),
         f.from <= f.to => Joined(raw, f.from, f.to, LineSize) <= CharBudget \/ f.from = f.to
  PROVE  /\ whole \in f.from - 1 .. f.to
         /\ Joined(raw, f.from, whole, ShownSize) <= CharBudget
         /\ \A i \in f.from .. f.to : i > whole =>
               \/ \E k \in f.from .. i : raw[k] = "secret"
               \/ f.from = f.to /\ LineSize[raw[i]] > CharBudget
<1> DEFINE T == {k \in f.from - 1 .. f.to : Joined(raw, f.from, k, ShownSize) <= CharBudget}
<1>1. f.from \in Nat /\ f.to \in Nat /\ Len(raw) \in Nat /\ f.from - 1 \in f.from - 1 .. f.to
  OBVIOUS
<1>2. Joined(raw, f.from, f.from - 1, ShownSize) <= CharBudget
  BY <1>1, CrashAssumption DEF Joined
<1>3. f.from - 1 \in T
  BY <1>1, <1>2
<1>4. whole = Max(T)
  BY Zenon DEF ShownWhole
<1>5. whole \in T /\ \A k \in T : whole >= k
  <2>1. T \in SUBSET (0 .. f.to) /\ f.to \in Nat /\ T # {}
    BY <1>1, <1>3
  <2> HIDE DEF T
  <2> QED
    BY <1>4, <2>1, GreatestOf
<1>6. whole \in f.from - 1 .. f.to /\ Joined(raw, f.from, whole, ShownSize) <= CharBudget
  BY <1>5
<1>7. ASSUME NEW i \in f.from .. f.to, i > whole, ~ \E k \in f.from .. i : raw[k] = "secret"
      PROVE  f.from = f.to /\ LineSize[raw[i]] > CharBudget
  <2>1. /\ f.from \in 1 .. Len(raw) /\ f.to \in f.from .. Len(raw) /\ i \in f.from .. f.to
        /\ i \in f.from - 1 .. f.to /\ i \in 1 .. Len(raw) /\ f.from <= f.to
    BY <1>1
  <2>2. Joined(raw, f.from, i, ShownSize) = Joined(raw, f.from, i, LineSize)
    <3>1. \A n \in 1 .. i - f.from + 1 :
             /\ f.from + n - 1 \in f.from .. i /\ f.from + n - 1 \in 1 .. Len(raw)
      BY <2>1
    <3>2. \A l \in 1 .. Len(raw) : raw[l] \in RawLine
      OBVIOUS
    <3>3. \A line \in RawLine : line # "secret" => ShownSize[line] = LineSize[line]
      BY DEF ShownSize, LineSize
    <3>4. \A n \in 1 .. i - f.from + 1 :
             ShownSize[raw[f.from + n - 1]] = LineSize[raw[f.from + n - 1]]
      BY <1>7, <3>1, <3>2, <3>3
    <3>5. [n \in 1 .. i - f.from + 1 |-> ShownSize[raw[f.from + n - 1]]]
             = [n \in 1 .. i - f.from + 1 |-> LineSize[raw[f.from + n - 1]]]
      BY <3>4
    <3> QED
      BY <3>5, Zenon DEF Joined
  <2>3. i \notin T
    <3> HIDE DEF T
    <3> QED
      BY <1>5, <1>6, <1>7, <2>1
  <2>4. Joined(raw, f.from, i, LineSize) \in Nat
    BY <2>1, JoinedIs, SizesAre
  <2>5. Joined(raw, f.from, i, LineSize) > CharBudget
    <3>1. ~(Joined(raw, f.from, i, ShownSize) <= CharBudget)
      BY <2>1, <2>3
    <3> QED
      BY <2>2, <2>4, <3>1, CrashAssumption
  <2>6. Joined(raw, f.from, i, LineSize) <= Joined(raw, f.from, f.to, LineSize)
    BY <2>1, JoinedGrows, SizesAre
  <2>7. Joined(raw, f.from, f.to, LineSize) \in Nat
    BY <2>1, JoinedIs, SizesAre
  <2>8. f.from = f.to
    BY <2>1, <2>4, <2>5, <2>6, <2>7, CrashAssumption
  <2>9. i = f.from /\ f.from \in f.from .. f.to
    BY <2>1, <2>8
  <2>10. Joined(raw, f.from, f.to, LineSize) = LineSize[raw[f.from]]
    BY <2>1, <2>8, JoinedGrows, SizesAre
  <2> QED
    BY <2>5, <2>8, <2>9, <2>10
<1> HIDE DEF T
<1> QED
  BY <1>6, <1>7

(* The first line of a kind from a line on.                                *)
First(raw, held, to, kind) ==
  LET at == {i \in held .. to : raw[i] = kind}
  IN  IF at = {} THEN NoLine ELSE Min(at)

IsFirst(raw, later, kind, line) ==
  IF line = NoLine THEN \A i \in later : raw[i] # kind
  ELSE /\ line \in later /\ raw[line] = kind
       /\ \A i \in later : i < line => raw[i] # kind

LEMMA FirstOf ==
  ASSUME NEW raw \in Seq(RawLine), NEW held \in Nat, NEW to \in Nat, NEW kind,
         NEW later, later = held .. to
  PROVE  IsFirst(raw, later, kind, First(raw, held, to, kind))
<1> DEFINE at == {i \in held .. to : raw[i] = kind}
           line == First(raw, held, to, kind)
<1>1. at \in SUBSET Nat
  OBVIOUS
<1>2. CASE at = {}
  BY <1>2 DEF First, IsFirst
<1>3. CASE at # {}
  <2> DEFINE m == Min(at)
  <2>1. line = m
    BY <1>3 DEF First
  <2>2. m \in at /\ \A k \in at : m <= k
    <3> HIDE DEF at
    <3> QED
      BY <1>1, <1>3, MinIs
  <2> HIDE DEF m
  <2>3. m \in later /\ raw[m] = kind /\ m \in Nat
    BY <1>1, <2>2
  <2>4. ASSUME NEW i \in later, i < m
        PROVE  raw[i] # kind
    <3>1. i \notin at
      <4> HIDE DEF at
      <4>1. i \in Int
        OBVIOUS
      <4> QED
        BY <2>2, <2>3, <2>4, <4>1
    <3> QED
      BY <3>1
  <2> HIDE DEF line
  <2> QED
    BY <2>1, <2>3, <2>4, CrashAssumption DEF IsFirst, line
<1> QED
  BY <1>2, <1>3

(* The lines that are asked for, and the line that is held on to.          *)
Extracted(raw, marker, before, after, w, held) ==
  /\ w \in [from : Nat, to : Nat] /\ held \in Nat
  /\ w.from \in 1 .. Len(raw) + 1 /\ w.to \in w.from - 1 .. Len(raw)
  /\ \A i \in DOMAIN raw : i \in w.from .. w.to <=> i \in marker - before .. marker + after
  /\ w.from <= w.to => /\ held \in w.from .. w.to
                       /\ held = IF marker \in DOMAIN raw THEN marker ELSE Len(raw)
  /\ w.from > w.to => held = Len(raw) + 1

LEMMA ExtractsWindow ==
  ASSUME NEW raw \in Seq(RawLine), NEW marker \in 1 .. Len(raw) + 1,
         NEW before \in Nat, NEW after \in Nat,
         NEW w, w = ExtractWindow(raw, marker, before, after),
         NEW held, held = HeldLine(marker, w)
  PROVE  Extracted(raw, marker, before, after, w, held)
<1> DEFINE N == Len(raw)
           a == IF 1 >= marker - before THEN 1 ELSE marker - before
           c == IF N <= marker + after THEN N ELSE marker + after
           b == IF a - 1 >= c THEN a - 1 ELSE c
<1>1. N \in Nat /\ marker \in Nat /\ marker >= 1 /\ marker <= N + 1 /\ DOMAIN raw = 1 .. N
  OBVIOUS
<1>2. a \in Nat /\ a >= 1 /\ a <= marker /\ a >= marker - before /\ (a = 1 \/ a = marker - before)
  BY <1>1
<1>3. c \in Nat /\ c <= N /\ c <= marker + after /\ (c = N \/ c = marker + after)
  <2>1. CASE N <= marker + after
    <3>1. c = N
      BY <2>1
    <3> HIDE DEF c
    <3> QED
      BY <1>1, <2>1, <3>1
  <2>2. CASE ~(N <= marker + after)
    <3>1. c = marker + after
      BY <2>2
    <3> HIDE DEF c
    <3> QED
      BY <1>1, <2>2, <3>1
  <2> QED
    BY <2>1, <2>2
<1>4. Max({1, marker - before}) = a /\ Min({N, marker + after}) = c
  BY <1>1, MaxOfTwo, MinOfTwo
<1> HIDE DEF a, c
<1>5. Max({a - 1, c}) = b
  BY <1>2, <1>3, MaxOfTwo
<1>6. w = [from |-> a, to |-> b]
  BY <1>4, <1>5 DEF ExtractWindow
<1>7. b \in Nat /\ b >= a - 1 /\ b >= c /\ b <= N /\ (b = a - 1 \/ b = c)
  <2>1. CASE a - 1 >= c
    <3>1. b = a - 1
      BY <2>1
    <3> HIDE DEF b, N
    <3>2. a \in Nat /\ c \in Nat /\ N \in Nat /\ a >= 1 /\ a - 1 <= N /\ a - 1 >= c
      BY <1>1, <1>2, <1>3, <2>1
    <3> QED
      BY <3>1, <3>2
  <2>2. CASE ~(a - 1 >= c)
    <3>1. b = c
      BY <2>2
    <3> HIDE DEF b, N
    <3>2. a \in Nat /\ c \in Nat /\ N \in Nat /\ c <= N /\ c >= a - 1
      BY <1>1, <1>2, <1>3, <2>2
    <3> QED
      BY <3>1, <3>2
  <2> QED
    BY <2>1, <2>2
<1> HIDE DEF b, N
<1> DEFINE d == IF a >= b THEN a ELSE b
           e == IF marker <= d THEN marker ELSE d
<1>8. Max({a, b}) = d /\ d \in Nat
  BY <1>2, <1>7, MaxOfTwo
<1>9. Min({marker, d}) = e
  BY <1>1, <1>8, MinOfTwo
<1>10. w.from = a /\ w.to = b /\ w \in [from : Nat, to : Nat]
  BY <1>2, <1>6, <1>7
<1>11. held = e
  BY <1>8, <1>9, <1>10 DEF HeldLine
<1>12. ASSUME NEW i \in DOMAIN raw
       PROVE  i \in a .. b <=> i \in marker - before .. marker + after
  <2>1. i \in Nat /\ i >= 1 /\ i <= N
    BY <1>1
  <2> QED
    BY <2>1, <1>1, <1>2, <1>3, <1>7
<1>13. a <= b => /\ e \in a .. b
                 /\ e = IF marker \in DOMAIN raw THEN marker ELSE N
  BY <1>1, <1>2, <1>3, <1>7
<1>14. a > b => e = N + 1
  BY <1>1, <1>2, <1>3, <1>7
<1>15. e \in Nat
  BY <1>1, <1>8
<1>16. a \in 1 .. N + 1 /\ b \in a - 1 .. N
  BY <1>1, <1>2, <1>7
<1> HIDE DEF e
<1> QED
  BY <1>10, <1>11, <1>12, <1>13, <1>14, <1>15, <1>16 DEF N, Extracted

(* Whatever of a log surrounds a crash, its window holds the marker.       *)
LEMMA CrashesHoldMarkers ==
  ASSUME NEW raw \in Seq(RawLine), NEW rows \in Seq((1 .. Len(raw) + 1) \union {NoLine}),
         NEW index \in Nat \ {0}, NEW asked, asked.before \in Nat, asked.after \in Nat,
         NEW got, got = ExtractCrashContext(raw, rows, index, asked.before, asked.after),
         got.status = "ok"
  PROVE  HoldsMarker(raw, asked, got)
<1> DEFINE markers == ReadCrashMarkers(rows)
           marker  == markers[index]
           w       == ExtractWindow(raw, marker, asked.before, asked.after)
           held    == HeldLine(marker, w)
           f       == FitWindow(raw, held, w)
           whole   == ShownWhole(raw, f)
<1>1. /\ markers # <<>> /\ index <= Len(markers)
      /\ got = [status    |-> "ok",
                marker    |-> marker,
                window    |-> w,
                fitted    |-> f,
                whole     |-> whole,
                truncated |-> f # w \/ whole # f.to,
                signature |-> ParseSignature(raw, held, w)]
  <2> DEFINE result == [status    |-> "ok",
                marker    |-> marker,
                window    |-> w,
                fitted    |-> f,
                whole     |-> whole,
                truncated |-> f # w \/ whole # f.to,
                signature |-> ParseSignature(raw, held, w)]
  <2>1. got = IF markers = <<>> THEN [status |-> "none"]
              ELSE IF index > Len(markers) THEN [status |-> "refused"] ELSE result
    BY Zenon DEF ExtractCrashContext
  <2>2. markers # <<>>
    <3> HIDE DEF markers, result
    <3> QED
      BY <2>1
  <2>3. ~(index > Len(markers))
    <3> HIDE DEF markers, result
    <3> QED
      BY <2>1, <2>2
  <2>4. markers \in Seq((1 .. Len(raw) + 1) \union {NoLine})
    BY OnlyCounts DEF ReadCrashMarkers
  <2>5. Len(markers) \in Nat
    <3> HIDE DEF markers
    <3> QED
      BY <2>4
  <2> HIDE DEF markers, result
  <2> QED
    BY <2>1, <2>2, <2>3, <2>5 DEF result
<1>2. marker \in 1 .. Len(raw) + 1
  <2>1. /\ markers \in Seq((1 .. Len(raw) + 1) \union {NoLine})
        /\ Range(markers) = Range(rows) \intersect (Range(rows) \ {NoLine})
    BY OnlyCounts DEF ReadCrashMarkers
  <2> HIDE DEF markers
  <2>2. index \in 1 .. Len(markers)
    BY <1>1, <2>1
  <2>3. markers[index] \in Range(markers)
    BY <2>1, <2>2 DEF Range
  <2>4. markers[index] \in (1 .. Len(raw) + 1) \union {NoLine}
    BY <2>1, <2>2
  <2> QED
    BY <2>1, <2>3, <2>4
<1> HIDE DEF marker
<1>3. /\ w \in [from : Nat, to : Nat] /\ held \in Nat
      /\ w.from \in 1 .. Len(raw) + 1 /\ w.to \in w.from - 1 .. Len(raw)
      /\ \A i \in DOMAIN raw :
            i \in w.from .. w.to <=> i \in marker - asked.before .. marker + asked.after
      /\ w.from <= w.to => /\ held \in w.from .. w.to
                           /\ held = IF marker \in DOMAIN raw THEN marker ELSE Len(raw)
      /\ w.from > w.to => held = Len(raw) + 1
  <2> HIDE DEF held, w
  <2>1. w = ExtractWindow(raw, marker, asked.before, asked.after) /\ held = HeldLine(marker, w)
    BY DEF w, held
  <2> HIDE DEF f, whole, markers
  <2>2. asked.before \in Nat /\ asked.after \in Nat
    OBVIOUS
  <2> QED
    <3>1. Extracted(raw, marker, asked.before, asked.after, w, held)
      BY <1>2, <2>1, <2>2, ExtractsWindow
    <3> QED
      BY <3>1 DEF Extracted
<1> HIDE DEF w, held
<1>4. PICK x \in Nat, y \in Nat :
         w = [from |-> x, to |-> y] /\ w.from = x /\ w.to = y
  BY <1>3
<1>5. x \in 1 .. Len(raw) + 1 /\ y \in x - 1 .. Len(raw)
  BY <1>3, <1>4
<1>6. /\ \A i \in DOMAIN raw :
            i \in w.from .. w.to <=> i \in got.marker - asked.before .. got.marker + asked.after
      /\ got.window = w /\ got.fitted = f /\ got.marker = marker /\ got.whole = whole
      /\ got.truncated = (f # w \/ whole # f.to)
      /\ got.signature = ParseSignature(raw, held, w)
  BY <1>1, <1>3
<1>7. ~got.truncated => f = w /\ got.whole = f.to
  <2> SUFFICES ASSUME ~got.truncated
               PROVE  f = w /\ whole = f.to
    BY <1>6
  <2>1. ~(f # w \/ whole # f.to)
    BY <1>6, Zenon
  <2> QED
    BY <2>1
<1> DEFINE line  == IF got.marker \in DOMAIN raw THEN got.marker ELSE Len(raw)
           later == {i \in w.from .. w.to : i >= line}
           front == f.from - w.from
           back  == w.to - f.to
<1>8. later = held .. w.to
  <2>1. CASE x <= y
    <3>1. held = line /\ held \in x .. y
      BY <1>3, <1>4, <1>6, <2>1
    <3> HIDE DEF line
    <3> QED
      BY <1>4, <3>1
  <2>2. CASE x > y
    <3>1. held = Len(raw) + 1
      BY <1>3, <1>4, <2>2
    <3> HIDE DEF line
    <3> QED
      BY <1>4, <1>5, <2>2, <3>1
  <2> QED
    BY <1>4, <2>1, <2>2
<1>9. /\ IsFirst(raw, later, "exception", got.signature.exception)
      /\ IsFirst(raw, later, "frame", got.signature.frame)
  <2>1. got.signature = [exception |-> First(raw, held, w.to, "exception"),
                         frame     |-> First(raw, held, w.to, "frame")]
    BY <1>6, Zenon DEF ParseSignature, First
  <2> HIDE DEF later
  <2>2. \A kind : IsFirst(raw, later, kind, First(raw, held, w.to, kind))
    BY <1>3, <1>4, <1>8, FirstOf
  <2> QED
    BY <2>1, <2>2
<1>10. CASE x > y
  <2>1. f = w
    BY <1>3, <1>4, <1>10, FitsNothing
  <2> HIDE DEF f
  <2>2. /\ whole \in f.from - 1 .. f.to
        /\ Joined(raw, f.from, whole, ShownSize) <= CharBudget
        /\ \A i \in f.from .. f.to : i > whole =>
              \/ \E k \in f.from .. i : raw[k] = "secret"
              \/ f.from = f.to /\ LineSize[raw[i]] > CharBudget
    BY <1>3, <1>4, <1>10, <2>1, ShowsWhole
  <2> HIDE DEF whole
  <2>3. ~(w.from <= w.to)
    BY <1>4, <1>10
  <2> QED
    BY <1>6, <1>7, <1>9, <2>1, <2>2, <2>3 DEF HoldsMarker, IsFirst
<1>11. CASE x <= y
  <2>1. /\ held \in 1 .. Len(raw) /\ held = line /\ w.from <= held /\ held <= w.to
        /\ w \in [from : 1 .. Len(raw), to : 1 .. Len(raw)]
    <3> HIDE DEF line
    <3>1. held \in w.from .. w.to /\ w.from <= w.to
      BY <1>3, <1>4, <1>11
    <3>2. held = line
      BY <1>3, <1>4, <1>6, <1>11 DEF line
    <3> QED
      BY <1>4, <1>5, <3>1, <3>2
  <2> DEFINE n == (f.from - w.from) + (w.to - f.to)
  <2>2. /\ n \in Nat /\ Shrunk(f, n, n % 2, held, w)
        /\ Joined(raw, f.from, f.to, LineSize) <= CharBudget \/ f.from = f.to
        /\ n > 0 =>
              \/ Joined(raw, f.from - 1, f.to, LineSize) > CharBudget
              \/ /\ f.from - w.from <= w.to - f.to
                 /\ Joined(raw, f.from, f.to + 1, LineSize) > CharBudget
    <3> HIDE DEF line, later
    <3> QED
      BY <2>1, FitsWell
  <2> HIDE DEF f, line
  <2>3. PICK a \in Int, b \in Int : f = [from |-> a, to |-> b] /\ f.from = a /\ f.to = b
    BY <2>2 DEF Shrunk
  <2>4. /\ a >= x /\ y >= b /\ a <= held /\ held <= b
        /\ a - x > (y - b) + 1 => b = held
        /\ y - b > a - x => a = held
    BY <1>4, <2>2, <2>3 DEF Shrunk
  <2>5. /\ a \in 1 .. Len(raw) /\ b \in a .. Len(raw) /\ a \in Nat /\ b \in Nat
        /\ f \in [from : Nat, to : Nat]
    BY <1>5, <2>1, <2>3, <2>4
  <2>6. /\ whole \in f.from - 1 .. f.to
        /\ Joined(raw, f.from, whole, ShownSize) <= CharBudget
        /\ \A i \in f.from .. f.to : i > whole =>
              \/ \E k \in f.from .. i : raw[k] = "secret"
              \/ f.from = f.to /\ LineSize[raw[i]] > CharBudget
    <3> HIDE DEF later
    <3>1. f.from \in 1 .. Len(raw) + 1 /\ f.to \in f.from - 1 .. Len(raw)
      BY <2>3, <2>5
    <3> QED
      BY <2>2, <2>5, <3>1, ShowsWhole
  <2> HIDE DEF whole, later, n
  <2>7. /\ f.from <= line /\ line <= f.to
        /\ w.from <= f.from /\ f.to <= w.to
        /\ front > back + 1 => w.to = line \/ f.to = line
        /\ back > front => f.from = line
    BY <1>4, <2>1, <2>3, <2>4
  <2>8. front + back > 0 =>
           IF front > back \/ f.to = w.to
           THEN Joined(raw, f.from - 1, f.to, LineSize) > CharBudget
           ELSE \/ Joined(raw, f.from, f.to + 1, LineSize) > CharBudget
                \/ Joined(raw, f.from - 1, f.to, LineSize) > CharBudget
    BY <1>4, <2>2, <2>3, <2>4 DEF n
  <2> DEFINE room == /\ f.from <= line /\ line <= f.to
                     /\ w.from <= f.from /\ f.to <= w.to
                     /\ Joined(raw, f.from, f.to, LineSize) <= CharBudget \/ f.from = f.to
                     /\ front + back > 0 =>
                           IF front > back \/ f.to = w.to
                           THEN Joined(raw, f.from - 1, f.to, LineSize) > CharBudget
                           ELSE \/ Joined(raw, f.from, f.to + 1, LineSize) > CharBudget
                                \/ Joined(raw, f.from - 1, f.to, LineSize) > CharBudget
                     /\ front > back + 1 => w.to = line \/ f.to = line
                     /\ back > front => f.from = line
  <2>9. room
    <3> HIDE DEF front, back
    <3> QED
      BY <2>2, <2>7, <2>8
  <2>10. ~(w.from > w.to)
    BY <1>4, <1>11
  <2> QED
    BY <1>6, <1>7, <1>9, <2>6, <2>9, <2>10, Zenon DEF HoldsMarker, IsFirst, line, later
<1> QED
  BY <1>4, <1>10, <1>11

-----------------------------------------------------------------------------
(* The log that is recorded, and what a call was answered.                 *)
CrashInv ==
  reading = "crash" =>
    /\ recorded \in Seq(RawLine)
    /\ answer # None =>
          /\ ask.before \in Nat /\ ask.after \in Nat
          /\ \E rows \in Seq((1 .. Len(recorded) + 1) \union {NoLine}), index \in Nat \ {0} :
                answer = ExtractCrashContext(recorded, rows, index, ask.before, ask.after)

LEMMA CrashStep ==
  ASSUME CrashInv, [Next]_vars
  PROVE  CrashInv'
<1> SUFFICES ASSUME reading' = "crash"
             PROVE  /\ recorded' \in Seq(RawLine)
                    /\ answer' # None =>
                          /\ ask'.before \in Nat /\ ask'.after \in Nat
                          /\ \E rows \in Seq((1 .. Len(recorded') + 1) \union {NoLine}),
                                index \in Nat \ {0} :
                                answer' = ExtractCrashContext(recorded', rows, index,
                                                              ask'.before, ask'.after)
  BY DEF CrashInv
<1>1. CASE UNCHANGED vars
  BY <1>1 DEF CrashInv, vars
<1>2. CASE Next
  <2>1. reading = "crash" /\ answer = None
    BY <1>2 DEF Next, Record, Call
  <2>2. recorded \in Seq(RawLine)
    BY <2>1 DEF CrashInv
  <2>3. CASE Record
    <3>1. PICK line \in RawLine : RecordRawLine(line) /\ answer' = answer
      BY <2>1, <2>3 DEF Record, RecordItem, RecordFile, RecordFrame, RecordRequest, RecordView
    <3> QED
      BY <2>1, <2>2, <3>1 DEF RecordRawLine
  <2>4. CASE Call
    <3>1. PICK rows \in {<<>>} \union {<<m>> : m \in RecordedMarkers}
                               \union {<<NoLine, m>> : m \in RecordedMarkers},
               index \in 1 .. 2, before \in 0 .. 2, after \in 0 .. 2 :
               AskCrash(rows, index, before, after)
      BY <2>1, <2>4 DEF Call, AskBundle, AskSheet, AskWire, AskTap, AskElements, AskCapture
    <3>2. RecordedMarkers = 1 .. Len(recorded) + 1
      BY DEF RecordedMarkers
    <3>3. rows \in Seq((1 .. Len(recorded) + 1) \union {NoLine})
      <4>1. \/ rows = <<>>
            \/ \E m \in 1 .. Len(recorded) + 1 : rows = <<m>> \/ rows = <<NoLine, m>>
        BY <3>1, <3>2
      <4> DEFINE L == (1 .. Len(recorded) + 1) \union {NoLine}
      <4>2. ASSUME NEW m \in L
            PROVE  <<m>> \in Seq(L) /\ <<NoLine, m>> \in Seq(L)
        <5>1. NoLine \in L
          OBVIOUS
        <5> HIDE DEF L
        <5> QED
          BY <4>2, <5>1
      <4>3. <<>> \in Seq(L)
        OBVIOUS
      <4>4. \A m \in 1 .. Len(recorded) + 1 : m \in L
        OBVIOUS
      <4> HIDE DEF L
      <4>5. rows \in Seq(L)
        BY <4>1, <4>2, <4>3, <4>4
      <4> QED
        BY <4>5 DEF L
    <3>4. index \in Nat \ {0} /\ before \in Nat /\ after \in Nat
      OBVIOUS
    <3>5. /\ recorded' = recorded
          /\ ask' = [index |-> index, before |-> before, after |-> after]
          /\ answer' = ExtractCrashContext(recorded, rows, index, before, after)
      BY <3>1 DEF AskCrash
    <3>6. ask'.before = before /\ ask'.after = after
      BY <3>5
    <3> QED
      BY <2>2, <3>3, <3>4, <3>5, <3>6
  <2> QED
    BY <1>2, <2>3, <2>4 DEF Next
<1> QED
  BY <1>1, <1>2

LEMMA CrashInvImplies ==
  ASSUME CrashInv
  PROVE  WindowHoldsMarker
<1> SUFFICES ASSUME reading = "crash", answer # None, answer.status = "ok"
             PROVE  HoldsMarker(recorded, ask, answer)
  BY DEF WindowHoldsMarker, Answered
<1>1. PICK rows \in Seq((1 .. Len(recorded) + 1) \union {NoLine}), index \in Nat \ {0} :
         answer = ExtractCrashContext(recorded, rows, index, ask.before, ask.after)
  BY DEF CrashInv
<1>2. recorded \in Seq(RawLine) /\ ask.before \in Nat /\ ask.after \in Nat
  BY DEF CrashInv
<1> QED
  BY <1>1, <1>2, CrashesHoldMarkers

-----------------------------------------------------------------------------
(* Contact sheets.                                                         *)

(* A division rounded up.                                                 *)
LEMMA RoundedUp ==
  ASSUME NEW a \in Nat \ {0}, NEW b \in Nat \ {0}
  PROVE  /\ CeilDiv(a, b) \in Nat
         /\ a <= b * CeilDiv(a, b)
         /\ (CeilDiv(a, b) - 1) * b < a
<1> DEFINE c == a + b - 1
           q == c \div b
<1>1. c \in Nat
  OBVIOUS
<1>2. q \in Nat /\ b * q <= c /\ c < b * (q + 1)
  <2> HIDE DEF c
  <2> QED
    BY <1>1, Divided
<1> HIDE DEF q
<1>3. b * (q + 1) = b * q + b /\ (q - 1) * b = b * q - b /\ b * q \in Nat
  BY <1>2
<1>4. a <= b * q /\ (q - 1) * b < a
  BY <1>2, <1>3
<1> QED
  BY <1>2, <1>4 DEF CeilDiv, q

(* A recording: its frames have times that rise.                           *)
IsRecording(frames) ==
  /\ frames \in Seq([time : Nat, score : Nat])
  /\ \A i \in 1 .. Len(frames) : frames[i].time > 0
  /\ \A i, j \in 1 .. Len(frames) : i < j => frames[i].time < frames[j].time

LEMMA FramesAre ==
  ASSUME NEW frames, IsRecording(frames)
  PROVE  \A i \in 1 .. Len(frames) : frames[i] \in [time : Nat, score : Nat]
<1> DEFINE V == [time : Nat, score : Nat]
<1>1. frames \in Seq(V)
  BY DEF IsRecording
<1> HIDE DEF V
<1>2. \A i \in 1 .. Len(frames) : frames[i] \in V
  BY <1>1
<1> QED
  BY <1>2 DEF V

(* The slots are no more than leave room for both ends.                    *)
LEMMA SlotsFit ==
  ASSUME NEW frames, IsRecording(frames), frames # <<>>
  PROVE  /\ Boundaries(frames) = {0, Len(frames)} /\ Len(frames) \in Nat \ {0}
         /\ IsFiniteSet(Boundaries(frames)) /\ Cardinality(Boundaries(frames)) = 2
         /\ CoverageSlots(frames) \in Nat \ {0}
         /\ CoverageSlots(frames) + 2 <= MaxFrames
<1>1. Len(frames) \in Nat \ {0}
  BY DEF IsRecording
<1>2. Boundaries(frames) = {0, Len(frames)}
  BY DEF Boundaries
<1>3. IsFiniteSet({0, Len(frames)}) /\ Cardinality({0, Len(frames)}) = 2
  <2> DEFINE one == {0}
             two == one \union {Len(frames)}
  <2>1. IsFiniteSet(one) /\ Cardinality(one) = 1 /\ Len(frames) \notin one
    BY <1>1, FS_Singleton
  <2>2. two = {0, Len(frames)}
    OBVIOUS
  <2> HIDE DEF one
  <2>3. IsFiniteSet(two) /\ Cardinality(two) = 2
    BY <2>1, FS_AddElement
  <2> QED
    BY <2>2, <2>3, Zenon
<1>4. CeilDiv(MaxFrames - 2, 2) \in Nat /\ CeilDiv(MaxFrames - 2, 2) + 2 <= MaxFrames
  BY SheetAssumption DEF CeilDiv
<1>5. CoverageSlots(frames) = Max({1, CeilDiv(MaxFrames - 2, 2)})
  BY <1>2, <1>3 DEF CoverageSlots
<1>6. Max({1, CeilDiv(MaxFrames - 2, 2)})
         = IF 1 >= CeilDiv(MaxFrames - 2, 2) THEN 1 ELSE CeilDiv(MaxFrames - 2, 2)
  BY <1>4, MaxOfTwo
<1> QED
  BY <1>1, <1>2, <1>3, <1>4, <1>5, <1>6, SheetAssumption

LEMMA StrongerOrders ==
  ASSUME NEW frames, IsRecording(frames), NEW S \in SUBSET (1 .. Len(frames))
  PROVE  Orders(S, {p \in S \X S : Stronger(frames, p[1], p[2])})
<1>1. \A i \in S : i \in Nat /\ frames[i].score \in Nat
  <2>1. \A i \in 1 .. Len(frames) : frames[i] \in [time : Nat, score : Nat]
    BY FramesAre
  <2> QED
    BY <2>1
<1> DEFINE R == {p \in S \X S : Stronger(frames, p[1], p[2])}
<1>2. \A x, y \in S : <<x, y>> \in R <=> Stronger(frames, x, y)
  OBVIOUS
<1> HIDE DEF R
<1>3. \A x \in S : ~Stronger(frames, x, x)
  BY <1>1 DEF Stronger
<1>4. \A x, y, z \in S : Stronger(frames, x, y) /\ Stronger(frames, y, z)
                            => Stronger(frames, x, z)
  BY <1>1 DEF Stronger
<1>5. \A x, y \in S : x # y => Stronger(frames, x, y) \/ Stronger(frames, y, x)
  BY <1>1 DEF Stronger
<1> HIDE DEF R
<1>6. Orders(S, R)
  BY <1>2, <1>3, <1>4, <1>5 DEF Orders
<1> QED
  BY <1>6 DEF R

LEMMA StrongestIs ==
  ASSUME NEW frames, IsRecording(frames), NEW S \in SUBSET (1 .. Len(frames)), S # {}
  PROVE  \E g \in S : /\ Strongest(frames, S) = {g}
                      /\ \A h \in S \ {g} : Stronger(frames, g, h)
<1> DEFINE R == {p \in S \X S : Stronger(frames, p[1], p[2])}
           s == Sorted(S, R)
<1>1. IsFiniteSet(S)
  <2>1. IsFiniteSet(1 .. Len(frames))
    BY FS_Interval DEF IsRecording
  <2> QED
    BY <2>1, FS_Subset
<1>2. /\ Cardinality(S) \in Nat /\ s \in [1 .. Cardinality(S) -> S]
      /\ \A i, j \in 1 .. Cardinality(S) : i < j <=> <<s[i], s[j]>> \in R
      /\ \A x \in S : \E i \in 1 .. Cardinality(S) : s[i] = x
  <2>1. Orders(S, R)
    BY StrongerOrders
  <2> HIDE DEF R
  <2> QED
    BY <1>1, <2>1, SortedEnumerates
<1> HIDE DEF s
<1>3. 1 \in 1 .. Cardinality(S)
  <2>1. PICK x \in S : TRUE
    OBVIOUS
  <2>2. PICK i \in 1 .. Cardinality(S) : s[i] = x
    BY <1>2
  <2> QED
    BY <1>2, <2>2
<1>4. s[1] \in S
  BY <1>2, <1>3
<1>5. ASSUME NEW h \in S \ {s[1]}
      PROVE  Stronger(frames, s[1], h)
  <2>1. PICK i \in 1 .. Cardinality(S) : s[i] = h
    BY <1>2
  <2>2. 1 < i
    BY <1>2, <1>3, <2>1
  <2>3. <<s[1], h>> \in R
    BY <1>2, <1>3, <2>1, <2>2
  <2> QED
    BY <2>3
<1>6. \E g \in S : \A h \in S \ {g} : Stronger(frames, g, h)
  BY <1>4, <1>5
<1> DEFINE g == CHOOSE f \in S : \A h \in S \ {f} : Stronger(frames, f, h)
<1>7. g \in S /\ \A h \in S \ {g} : Stronger(frames, g, h)
  BY <1>6, Zenon
<1>8. Strongest(frames, S) = {g}
  BY Zenon DEF Strongest
<1> HIDE DEF g
<1> QED
  BY <1>7, <1>8

(* Every change is in one slot.                                            *)
SlotOf(frames, f) ==
  Min({CoverageSlots(frames) - 1,
       (frames[f].time * CoverageSlots(frames)) \div Last(frames).time})

LEMMA SlotIs ==
  ASSUME NEW t \in Nat, NEW last \in Nat \ {0}, t <= last, NEW n \in Nat \ {0}
  PROVE  LET q == (t * n) \div last
             s == Min({n - 1, q})
         IN  /\ s \in 0 .. n - 1
             /\ t * n >= last * s
             /\ t * n < last * (s + 1) \/ s = n - 1
             /\ \A r \in 0 .. n - 1 :
                   t * n >= last * r /\ (t * n < last * (r + 1) \/ r = n - 1) => s = r
<1> DEFINE a == t * n
           q == a \div last
           s == Min({n - 1, q})
<1>1. a \in Nat
  OBVIOUS
<1>2. q \in Nat /\ last * q <= a /\ a < last * (q + 1)
  <2> HIDE DEF a
  <2> QED
    BY <1>1, Divided
<1>3. s = IF n - 1 <= q THEN n - 1 ELSE q
  <2> HIDE DEF q
  <2> QED
    BY <1>2, MinOfTwo
<1>4. a <= last * n
  OBVIOUS
<1> HIDE DEF q, s
<1>5. last * s <= last * q
  <2>1. s <= q /\ s \in Nat
    BY <1>2, <1>3
  <2> QED
    BY <2>1, <1>2
<1>6. last * s \in Nat /\ last * q \in Nat
  BY <1>2, <1>3
<1>7. s \in 0 .. n - 1 /\ a >= last * s
  <2> HIDE DEF a
  <2> QED
    BY <1>1, <1>2, <1>3, <1>5, <1>6
<1>8. a < last * (s + 1) \/ s = n - 1
  <2> HIDE DEF a
  <2> QED
    BY <1>2, <1>3
<1>9. ASSUME NEW r \in 0 .. n - 1, a >= last * r, a < last * (r + 1) \/ r = n - 1
      PROVE  s = r
  <2>1. r \in Nat /\ last * r <= a
    BY <1>9 
  <2>2. r <= q /\ (a < last * (r + 1) => q = r)
    <3> HIDE DEF a
    <3> QED
      BY <1>1, <2>1, DividedIs DEF q
  <2> HIDE DEF a
  <2> QED
    BY <1>2, <1>3, <1>9, <2>2
<1> QED
  BY <1>7, <1>8, <1>9 DEF s, q

LEMMA SlotsCover ==
  ASSUME NEW frames, IsRecording(frames), NEW f \in Candidates(frames)
  PROVE  /\ SlotOf(frames, f) \in 0 .. CoverageSlots(frames) - 1
         /\ f \in InSlot(frames, SlotOf(frames, f))
         /\ \A r \in 0 .. CoverageSlots(frames) - 1 :
               f \in InSlot(frames, r) => SlotOf(frames, f) = r
<1> DEFINE N == Len(frames)
           n == CoverageSlots(frames)
           t == frames[f].time
           last == frames[N].time
<1>1. N \in Nat \ {0} /\ f \in 1 .. N /\ frames # <<>>
  BY DEF IsRecording, Candidates
<1>2. t \in Nat /\ last \in Nat \ {0} /\ t <= last
  <2>1. N \in 1 .. N
    BY <1>1
  <2>2. t \in Nat /\ last \in Nat /\ last > 0
    <3>1. \A i \in 1 .. N : frames[i] \in [time : Nat, score : Nat]
      BY FramesAre
    <3>2. last > 0
      BY <2>1 DEF IsRecording
    <3> QED
      BY <1>1, <2>1, <3>1, <3>2
  <2>3. f < N => t < last
    BY <1>1, <2>1 DEF IsRecording
  <2> HIDE DEF t, last
  <2>4. f = N => t = last
    BY DEF t, last
  <2> QED
    BY <1>1, <2>2, <2>3, <2>4
<1>3. n \in Nat \ {0}
  BY <1>1, SlotsFit
<1>4. Last(frames).time = last
  BY DEF Last
<1>5. SlotOf(frames, f) = Min({n - 1, (t * n) \div last})
  BY <1>4, Zenon DEF SlotOf
<1>6. \A r : f \in InSlot(frames, r) <=>
                t * n >= last * r /\ (t * n < last * (r + 1) \/ (r = n - 1 /\ t <= last))
  BY DEF InSlot
<1> HIDE DEF n, t, last
<1> DEFINE s == Min({n - 1, (t * n) \div last})
<1>7. /\ s \in 0 .. n - 1
      /\ t * n >= last * s
      /\ t * n < last * (s + 1) \/ s = n - 1
      /\ \A r \in 0 .. n - 1 :
            t * n >= last * r /\ (t * n < last * (r + 1) \/ r = n - 1) => s = r
  BY <1>2, <1>3, SlotIs
<1> HIDE DEF s
<1>8. f \in InSlot(frames, s)
  BY <1>2, <1>6, <1>7
<1>9. \A r \in 0 .. n - 1 : f \in InSlot(frames, r) => s = r
  BY <1>6, <1>7
<1> QED
  BY <1>5, <1>7, <1>8, <1>9 DEF s, n

(* Before any is added, the ends and a change of every slot that has one   *)
(* are shown, and there is room for them.                                  *)
LEMMA CoveredIs ==
  ASSUME NEW frames, IsRecording(frames), frames # <<>>
  PROVE  /\ Boundaries(frames) \subseteq Covered(frames)
         /\ Covered(frames) \in SUBSET (0 .. Len(frames))
         /\ IsFiniteSet(Covered(frames)) /\ Cardinality(Covered(frames)) <= MaxFrames
         /\ \A f \in Candidates(frames) :
               \E g \in Covered(frames) \intersect Candidates(frames) :
                  /\ SlotOf(frames, g) = SlotOf(frames, f)
                  /\ g = f \/ Stronger(frames, g, f)
<1> DEFINE N == Len(frames)
           n == CoverageSlots(frames)
           used == {s \in 0 .. n - 1 : InSlot(frames, s) # {}}
           P == UNION {Strongest(frames, InSlot(frames, s)) : s \in 0 .. n - 1}
           best == [s \in used |-> CHOOSE g \in InSlot(frames, s) :
                                     Strongest(frames, InSlot(frames, s)) = {g}]
<1>1. /\ N \in Nat \ {0} /\ Boundaries(frames) = {0, N}
      /\ IsFiniteSet(Boundaries(frames)) /\ Cardinality(Boundaries(frames)) = 2
      /\ n \in Nat \ {0} /\ n + 2 <= MaxFrames
  BY SlotsFit
<1>2. Covered(frames) = Boundaries(frames) \union P
  BY Zenon DEF Covered
<1>3. DOMAIN frames = 1 .. N
  BY DEF IsRecording
<1>4. \A s : InSlot(frames, s) \in SUBSET (1 .. N) /\ InSlot(frames, s) \in SUBSET Candidates(frames)
  BY <1>3 DEF InSlot, Candidates
<1>5. ASSUME NEW s \in 0 .. n - 1, InSlot(frames, s) # {}
      PROVE  \E g \in InSlot(frames, s) :
                /\ Strongest(frames, InSlot(frames, s)) = {g}
                /\ \A h \in InSlot(frames, s) \ {g} : Stronger(frames, g, h)
  BY <1>4, <1>5, StrongestIs
<1>6. \A s \in used : best[s] \in InSlot(frames, s)
                      /\ Strongest(frames, InSlot(frames, s)) = {best[s]}
  <2> SUFFICES ASSUME NEW s \in used
               PROVE  best[s] \in InSlot(frames, s)
                      /\ Strongest(frames, InSlot(frames, s)) = {best[s]}
    OBVIOUS
  <2>1. \E g \in InSlot(frames, s) : Strongest(frames, InSlot(frames, s)) = {g}
    BY <1>5
  <2>2. best[s] = CHOOSE g \in InSlot(frames, s) : Strongest(frames, InSlot(frames, s)) = {g}
    OBVIOUS
  <2> HIDE DEF best, used
  <2> QED
    BY <2>1, <2>2
<1>7. Strongest(frames, {}) = {}
  BY DEF Strongest
<1>8. P = {best[s] : s \in used}
  <2>1. ASSUME NEW x \in P
        PROVE  x \in {best[s] : s \in used}
    <3>1. PICK s \in 0 .. n - 1 : x \in Strongest(frames, InSlot(frames, s))
      OBVIOUS
    <3>2. s \in used
      BY <3>1, <1>7
    <3>3. x = best[s]
      <4> HIDE DEF best, used
      <4> QED
        BY <3>1, <3>2, <1>6
    <3> HIDE DEF best, used
    <3> QED
      BY <3>2, <3>3
  <2>2. ASSUME NEW s \in used
        PROVE  best[s] \in P
    <3>1. s \in 0 .. n - 1
      OBVIOUS
    <3>2. best[s] \in Strongest(frames, InSlot(frames, s))
      <4> HIDE DEF best, used
      <4> QED
        BY <1>6
    <3> HIDE DEF best
    <3> QED
      BY <3>1, <3>2
  <2> HIDE DEF P, best, used
  <2> QED
    BY <2>1, <2>2
<1>9. IsFiniteSet(P) /\ Cardinality(P) <= n /\ Cardinality(P) \in Nat
  <2>1. IsFiniteSet(0 .. n - 1) /\ Cardinality(0 .. n - 1) = n
    <3> HIDE DEF n
    <3> QED
      BY <1>1, CountedFrom
  <2>2. used \in SUBSET (0 .. n - 1)
    OBVIOUS
  <2>3. best \in Surjection(used, P)
    <3>1. best \in [used -> P]
      <4>1. \A s \in used : best[s] \in P
        <5> HIDE DEF P, best, used
        <5> QED
          BY <1>8
      <4>2. DOMAIN best = used /\ best = [s \in used |-> best[s]]
        OBVIOUS
      <4> HIDE DEF P, best, used
      <4> QED
        BY <4>1, <4>2
    <3> HIDE DEF P, best, used
    <3> QED
      BY <3>1, <1>8 DEF Surjection
  <2> HIDE DEF P, best, used, n
  <2>4. IsFiniteSet(used) /\ Cardinality(used) <= n
    BY <2>1, <2>2, FS_Subset
  <2>5. IsFiniteSet(P) /\ Cardinality(P) <= Cardinality(used)
    BY <2>3, <2>4, FS_Surjection
  <2>6. Cardinality(P) \in Nat /\ Cardinality(used) \in Nat
    BY <2>4, <2>5, FS_CardinalityType
  <2> QED
    BY <2>4, <2>5, <2>6, <1>1
<1>10. P \in SUBSET (1 .. N) /\ P \in SUBSET Candidates(frames)
  <2>1. \A s \in used : best[s] \in 1 .. N /\ best[s] \in Candidates(frames)
    <3> HIDE DEF best, used
    <3> QED
      BY <1>4, <1>6
  <2> HIDE DEF P, best, used
  <2> QED
    BY <2>1, <1>8
<1>11. IsFiniteSet(Covered(frames)) /\ Cardinality(Covered(frames)) <= MaxFrames
  <2> DEFINE B == Boundaries(frames)
  <2> HIDE DEF P, B
  <2>1. /\ IsFiniteSet(B \union P)
        /\ Cardinality(B \union P) = Cardinality(B) + Cardinality(P) - Cardinality(B \intersect P)
    BY <1>1, <1>9, FS_Union DEF B
  <2>2. IsFiniteSet(B \intersect P)
    BY <1>9, FS_Subset
  <2>3. Cardinality(B \intersect P) \in Nat
    BY <2>2, FS_CardinalityType
  <2>4. Cardinality(B) = 2
    BY <1>1 DEF B
  <2>5. Cardinality(B \union P) <= MaxFrames
    BY <2>1, <2>3, <2>4, <1>1, <1>9, SheetAssumption
  <2> QED
    BY <1>2, <2>1, <2>5 DEF B
<1>12. ASSUME NEW f \in Candidates(frames)
       PROVE  \E g \in Covered(frames) \intersect Candidates(frames) :
                 /\ SlotOf(frames, g) = SlotOf(frames, f)
                 /\ g = f \/ Stronger(frames, g, f)
  <2> DEFINE s == SlotOf(frames, f)
  <2>1. s \in 0 .. n - 1 /\ f \in InSlot(frames, s)
    BY SlotsCover
  <2> HIDE DEF s
  <2>2. PICK g \in InSlot(frames, s) :
           /\ Strongest(frames, InSlot(frames, s)) = {g}
           /\ \A h \in InSlot(frames, s) \ {g} : Stronger(frames, g, h)
    BY <2>1, <1>5
  <2>3. g \in P
    BY <2>1, <2>2
  <2>4. g \in Candidates(frames) /\ SlotOf(frames, g) = s
    BY <1>4, <2>1, <2>2, SlotsCover
  <2>5. g = f \/ Stronger(frames, g, f)
    BY <2>1, <2>2
  <2> HIDE DEF P
  <2> QED
    BY <2>3, <2>4, <2>5, <1>2 DEF s
<1>13. Covered(frames) \in SUBSET (0 .. N) /\ Boundaries(frames) \subseteq Covered(frames)
  <2> HIDE DEF P
  <2>1. {0, N} \in SUBSET (0 .. N) /\ 1 .. N \in SUBSET (0 .. N)
    BY <1>1
  <2> QED
    BY <2>1, <1>1, <1>2, <1>10
<1> QED
  BY <1>11, <1>12, <1>13

(* One more candidate leaves what is shown within its limit, and is shown, *)
(* or has no room, or is near a change that is.                            *)
LEMMA AddedChangeIs ==
  ASSUME NEW frames, NEW shown, IsFiniteSet(shown), Cardinality(shown) <= MaxFrames, NEW f
  PROVE  LET more == AddedChange(frames, shown, f)
         IN  /\ shown \subseteq more /\ more \subseteq shown \union {f}
             /\ IsFiniteSet(more) /\ Cardinality(more) <= MaxFrames
             /\ \/ f \in more \/ Cardinality(more) = MaxFrames
                \/ \E g \in more \ Boundaries(frames) : Near(frames, f, g)
<1>1. Cardinality(shown) \in Nat
  BY FS_CardinalityType
<1> DEFINE skip == \/ Cardinality(shown) >= MaxFrames
                   \/ \E g \in shown \ Boundaries(frames) : Near(frames, f, g)
<1>2. CASE skip
  <2>1. AddedChange(frames, shown, f) = shown
    BY <1>2, Zenon DEF AddedChange
  <2>2. Cardinality(shown) >= MaxFrames => Cardinality(shown) = MaxFrames
    BY <1>1, SheetAssumption
  <2> QED
    BY <1>2, <2>1, <2>2
<1>3. CASE ~skip
  <2>1. AddedChange(frames, shown, f) = shown \union {f}
    BY <1>3, Zenon DEF AddedChange
  <2>2. IsFiniteSet(shown \union {f})
        /\ Cardinality(shown \union {f})
              = IF f \in shown THEN Cardinality(shown) ELSE Cardinality(shown) + 1
    BY FS_AddElement
  <2>3. Cardinality(shown) < MaxFrames
    BY <1>1, <1>3, SheetAssumption
  <2>4. Cardinality(shown \union {f}) <= MaxFrames
    BY <1>1, <2>2, <2>3, SheetAssumption
  <2> QED
    BY <2>1, <2>2, <2>4
<1> QED
  BY <1>2, <1>3

(* What is shown once candidate after candidate was tried.                 *)
RestOf(frames) ==
  Sorted(Candidates(frames), {p \in Candidates(frames) \X Candidates(frames) :
                                Stronger(frames, p[1], p[2])})

Tried(frames, rest, shown) ==
  /\ DOMAIN shown = 0 .. Len(rest) /\ shown[0] = Covered(frames)
  /\ \A k \in 1 .. Len(rest) : shown[k] = AddedChange(frames, shown[k - 1], rest[k])

LEMMA SelectsTried ==
  ASSUME NEW frames, frames # <<>>, NEW rest \in Seq(Candidates(frames)),
         rest = RestOf(frames)
  PROVE  \E shown : /\ Tried(frames, rest, shown)
                    /\ SelectVisualKeyFrames(frames) = shown[Len(rest)]
<1> DEFINE M == Len(rest)
           V == SUBSET (Covered(frames) \union Candidates(frames))
           base == Covered(frames)
           step == [k \in 1 .. M |-> [v \in V |-> AddedChange(frames, v, rest[k])]]
           Iter(g) == g = [t \in SUBSET (DOMAIN rest) |->
                             IF t = {} THEN Covered(frames)
                             ELSE AddedChange(frames, g[t \ {Max(t)}], rest[Max(t)])]
<1>1. M \in Nat /\ DOMAIN rest = 1 .. M /\ \A k \in 1 .. M : rest[k] \in Candidates(frames)
  OBVIOUS
<1>2. step \in [1 .. M -> [V -> V]] /\ base \in V
  <2>1. \A v \in V : \A f \in Candidates(frames) : AddedChange(frames, v, f) \in V
    BY DEF AddedChange
  <2>2. base \in V
    OBVIOUS
  <2> HIDE DEF V
  <2> QED
    BY <1>1, <2>1, <2>2
<1>3. PICK some : Iterates(some, M, V, base, step)
  <2> HIDE DEF M, V, step, base
  <2> QED
    BY <1>1, <1>2, IterExists
<1>4. \E g : Iter(g)
  <2>1. \A t \in SUBSET (1 .. M) : t # {} => Max(t) \in 1 .. M
    <3> HIDE DEF M
    <3> QED
      BY <1>1, MaxOf
  <2>2. Iter(some)
    <3>1. ASSUME NEW t \in SUBSET (1 .. M)
          PROVE  some[t] = IF t = {} THEN Covered(frames)
                           ELSE AddedChange(frames, some[t \ {Max(t)}], rest[Max(t)])
      <4>1. some \in [SUBSET (1 .. M) -> V]
            /\ some[t] = IF t = {} THEN base ELSE step[Max(t)][some[t \ {Max(t)}]]
        BY <1>3 DEF Iterates
      <4>2. some[t \ {Max(t)}] \in V
        <5> HIDE DEF V
        <5> QED
          BY <4>1
      <4>3. t # {} => step[Max(t)][some[t \ {Max(t)}]]
                        = AddedChange(frames, some[t \ {Max(t)}], rest[Max(t)])
        <5> HIDE DEF V
        <5> QED
          BY <2>1, <4>2
      <4> HIDE DEF step
      <4> QED
        BY <4>1, <4>3
    <3>2. some = [t \in SUBSET (DOMAIN rest) |-> some[t]]
      BY <1>1, <1>3 DEF Iterates
    <3> QED
      BY <1>1, <3>1, <3>2
  <2> QED
    BY <2>2
<1>5. PICK g : Iter(g) /\ SelectVisualKeyFrames(frames) = g[DOMAIN rest]
  <2>1. SelectVisualKeyFrames(frames)
           = FoldLeft(LAMBDA shown, f : AddedChange(frames, shown, f), Covered(frames), rest)
    BY Zenon DEF SelectVisualKeyFrames, RestOf
  <2> QED
    BY <1>4, <2>1, Zenon DEF FoldLeft, MapThenFoldSet
<1> DEFINE shown == [k \in 0 .. M |-> g[1 .. k]]
<1>6. shown[0] = Covered(frames)
  <2>1. 1 .. 0 = {} /\ {} \in SUBSET (DOMAIN rest) /\ 0 \in 0 .. M
    BY <1>1
  <2> QED
    BY <1>5, <2>1
<1>7. ASSUME NEW k \in 1 .. M
      PROVE  shown[k] = AddedChange(frames, shown[k - 1], rest[k])
  <2>1. /\ 1 .. k \in SUBSET (DOMAIN rest) /\ 1 .. k # {}
        /\ Max(1 .. k) = k /\ (1 .. k) \ {k} = 1 .. (k - 1)
    <3> HIDE DEF M
    <3> QED
      BY <1>1, Beginnings
  <2>2. g[1 .. k] = AddedChange(frames, g[1 .. (k - 1)], rest[k])
    BY <1>5, <2>1
  <2>3. k \in 0 .. M /\ k - 1 \in 0 .. M
    BY <1>1
  <2> QED
    BY <2>2, <2>3
<1>8. SelectVisualKeyFrames(frames) = shown[M] /\ DOMAIN shown = 0 .. M
  <2>1. M \in 0 .. M
    BY <1>1
  <2> QED
    BY <1>1, <1>5, <2>1
<1>9. Tried(frames, rest, shown)
  <2> HIDE DEF shown
  <2> QED
    BY <1>6, <1>7, <1>8 DEF Tried
<1> HIDE DEF shown
<1> QED
  BY <1>8, <1>9

(* What a contact sheet shows.                                             *)
LEMMA SelectedIs ==
  ASSUME NEW frames, IsRecording(frames)
  PROVE  LET shown == SelectVisualKeyFrames(frames)
         IN  /\ Boundaries(frames) \subseteq shown
             /\ shown \in SUBSET (0 .. Len(frames))
             /\ IsFiniteSet(shown) /\ Cardinality(shown) <= MaxFrames
             /\ \A f \in Candidates(frames) \ shown :
                   /\ \E g \in shown \intersect Candidates(frames) :
                         SlotOf(frames, g) = SlotOf(frames, f) /\ Stronger(frames, g, f)
                   /\ \/ Cardinality(shown) = MaxFrames
                      \/ \E g \in shown \ Boundaries(frames) : Near(frames, f, g)
<1> DEFINE N == Len(frames)
           C == Candidates(frames)
           B == Boundaries(frames)
           final == SelectVisualKeyFrames(frames)
<1>1. N \in Nat /\ DOMAIN frames = 1 .. N
  BY DEF IsRecording
<1>2. C \in SUBSET (1 .. N)
  BY <1>1 DEF Candidates
<1>3. CASE frames = <<>>
  <2>1. final = {0} /\ B = {0} /\ C = {} /\ N = 0
    BY <1>3 DEF SelectVisualKeyFrames, Boundaries, Candidates
  <2>2. IsFiniteSet({0}) /\ Cardinality({0}) = 1
    BY FS_Singleton
  <2>3. Cardinality(final) <= MaxFrames /\ IsFiniteSet(final)
    <3> HIDE DEF final
    <3> QED
      BY <2>1, <2>2, SheetAssumption
  <2>4. {0} \in SUBSET (0 .. N)
    BY <2>1
  <2> HIDE DEF final, B, C
  <2> QED
    BY <2>1, <2>3, <2>4 DEF B, C, final
<1>4. CASE frames # <<>>
  <2> DEFINE rest == RestOf(frames)
             M == Len(rest)
  <2>1. /\ M = Cardinality(C) /\ rest \in [1 .. M -> C] /\ M \in Nat
        /\ \A x \in C : \E i \in 1 .. M : rest[i] = x
    <3>1. Orders(C, {p \in C \X C : Stronger(frames, p[1], p[2])})
      BY <1>2, StrongerOrders
    <3>2. IsFiniteSet(C)
      <4>1. IsFiniteSet(1 .. N)
        BY <1>1, CountedFrom
      <4> HIDE DEF C
      <4> QED
        BY <4>1, <1>2, FS_Subset
    <3> DEFINE R == {p \in C \X C : Stronger(frames, p[1], p[2])}
    <3>3. rest = Sorted(C, R)
      BY Zenon DEF RestOf
    <3> HIDE DEF C, R
    <3>4. /\ Cardinality(C) \in Nat
          /\ Sorted(C, R) \in [1 .. Cardinality(C) -> C]
          /\ Len(Sorted(C, R)) = Cardinality(C)
          /\ \A x \in C : \E i \in 1 .. Cardinality(C) : Sorted(C, R)[i] = x
      BY <3>1, <3>2, SortedEnumerates DEF R
    <3> HIDE DEF rest
    <3>5. M = Cardinality(C)
      BY <3>3, <3>4
    <3> QED
      BY <3>3, <3>4, <3>5
  <2>2. rest \in Seq(C)
    <3> HIDE DEF C, rest
    <3> QED
      BY <2>1
  <2>3. PICK shown : Tried(frames, rest, shown) /\ final = shown[M]
    BY <1>4, <2>2, SelectsTried
  <2> HIDE DEF rest, final
  <2>4. /\ B \subseteq Covered(frames)
        /\ Covered(frames) \in SUBSET (0 .. N)
        /\ IsFiniteSet(Covered(frames)) /\ Cardinality(Covered(frames)) <= MaxFrames
        /\ \A f \in C :
              \E g \in Covered(frames) \intersect C :
                 /\ SlotOf(frames, g) = SlotOf(frames, f)
                 /\ g = f \/ Stronger(frames, g, f)
    BY <1>4, CoveredIs
  <2> DEFINE full(k) == Cardinality(shown[k]) = MaxFrames
             near(k, f) == \E g \in shown[k] \ B : Near(frames, f, g)
             Good(k) == /\ Covered(frames) \subseteq shown[k] /\ shown[k] \in SUBSET (0 .. N)
                        /\ IsFiniteSet(shown[k]) /\ Cardinality(shown[k]) <= MaxFrames
                        /\ \A j \in 1 .. k : rest[j] \in shown[k] \/ full(k) \/ near(k, rest[j])
             T == {k \in 0 .. M : Good(k)}
  <2>5. 0 \in T
    <3>1. shown[0] = Covered(frames) /\ 0 \in 0 .. M /\ 1 .. 0 = {}
      BY <2>1, <2>3 DEF Tried
    <3> HIDE DEF full, near, B, N
    <3> QED
      BY <2>4, <3>1
  <2>6. ASSUME NEW k \in 1 .. M, k - 1 \in T
        PROVE  k \in T
    <3> DEFINE f == rest[k]
               old == shown[k - 1]
               new == shown[k]
    <3>1. k \in 0 .. M /\ 1 .. k = (1 .. k - 1) \union {k} /\ k \in Nat
      BY <2>1
    <3>2. Good(k - 1)
      BY <2>6
    <3>3. new = AddedChange(frames, old, f)
      BY <2>3 DEF Tried
    <3>4. f \in 0 .. N
      <4>1. f \in C
        BY <2>1
      <4> HIDE DEF C, f
      <4> QED
        BY <4>1, <1>1, <1>2
    <3>5. IsFiniteSet(old) /\ Cardinality(old) <= MaxFrames
      BY <3>2
    <3> HIDE DEF f, old, new, B
    <3>6. /\ old \subseteq new /\ new \subseteq old \union {f}
          /\ IsFiniteSet(new) /\ Cardinality(new) <= MaxFrames
          /\ \/ f \in new \/ Cardinality(new) = MaxFrames
             \/ \E g \in new \ B : Near(frames, f, g)
      BY <3>3, <3>5, AddedChangeIs DEF B
    <3>7. Cardinality(old) = MaxFrames => Cardinality(new) = MaxFrames
      <4>1. Cardinality(old) <= Cardinality(new)
        BY <3>6, FS_Subset
      <4>2. Cardinality(old) \in Nat /\ Cardinality(new) \in Nat
        BY <3>5, <3>6, FS_CardinalityType
      <4> QED
        BY <4>1, <4>2, <3>6, SheetAssumption
    <3>8. \A j \in 1 .. k : rest[j] \in new \/ full(k) \/ near(k, rest[j])
      <4> SUFFICES ASSUME NEW j \in 1 .. k
                   PROVE  rest[j] \in new \/ full(k) \/ near(k, rest[j])
        OBVIOUS
      <4>1. CASE j = k
        BY <3>6, <4>1 DEF f, new
      <4>2. CASE j \in 1 .. k - 1
        <5>1. rest[j] \in old \/ full(k - 1) \/ near(k - 1, rest[j])
          BY <3>2, <4>2 DEF old
        <5>2. full(k - 1) => full(k)
          BY <3>7 DEF old, new
        <5>3. near(k - 1, rest[j]) => near(k, rest[j])
          BY <3>6 DEF old, new
        <5> HIDE DEF full, near
        <5> QED
          BY <3>6, <5>1, <5>2, <5>3
      <4> QED
        BY <3>1, <4>1, <4>2
    <3>9. Covered(frames) \subseteq new /\ new \in SUBSET (0 .. N)
      <4>1. Covered(frames) \subseteq old /\ old \in SUBSET (0 .. N)
        BY <3>2 DEF old
      <4> HIDE DEF N, full, near
      <4> QED
        BY <4>1, <3>4, <3>6
    <3> HIDE DEF full, near, N
    <3> QED
      BY <3>1, <3>6, <3>8, <3>9 DEF new
  <2>7. Good(M)
    <3>1. \A k \in 0 .. M : k \in T
      <4> HIDE DEF T
      <4> QED
        BY <2>1, <2>5, <2>6, UpTo
    <3>2. M \in 0 .. M
      BY <2>1
    <3> HIDE DEF Good
    <3> QED
      BY <3>1, <3>2
  <2>8. ASSUME NEW f \in C \ final
        PROVE  /\ \E g \in final \intersect C :
                     SlotOf(frames, g) = SlotOf(frames, f) /\ Stronger(frames, g, f)
               /\ \/ Cardinality(final) = MaxFrames
                  \/ \E g \in final \ B : Near(frames, f, g)
    <3>1. PICK g \in Covered(frames) \intersect C :
             SlotOf(frames, g) = SlotOf(frames, f) /\ (g = f \/ Stronger(frames, g, f))
      BY <2>4
    <3>2. Covered(frames) \subseteq final
      BY <2>3, <2>7
    <3>3. PICK j \in 1 .. M : rest[j] = f
      BY <2>1
    <3>4. f \in final \/ Cardinality(final) = MaxFrames
          \/ \E h \in final \ B : Near(frames, f, h)
      BY <2>3, <2>7, <3>3
    <3> HIDE DEF B, C
    <3> QED
      BY <3>1, <3>2, <3>4
  <2>9. /\ B \subseteq final /\ final \in SUBSET (0 .. N)
        /\ IsFiniteSet(final) /\ Cardinality(final) <= MaxFrames
    BY <2>3, <2>4, <2>7
  <2> HIDE DEF B, C, N
  <2> QED
    BY <2>8, <2>9 DEF final, B, C, N
<1> QED
  BY <1>3, <1>4

(* The numbers of a finite set, in their order.                            *)
LEMMA Ascending ==
  ASSUME NEW N \in Nat, NEW S \in SUBSET (0 .. N), NEW s,
         s = Sorted(S, {p \in S \X S : p[1] < p[2]})
  PROVE  /\ IsFiniteSet(S) /\ Cardinality(S) \in Nat
         /\ DOMAIN s = 1 .. Len(s) /\ Len(s) = Cardinality(S) /\ Range(s) = S
         /\ \A i, j \in DOMAIN s : i < j => s[i] < s[j]
<1> DEFINE R == {p \in S \X S : p[1] < p[2]}
<1>1. IsFiniteSet(S)
  <2>1. IsFiniteSet(0 .. N)
    BY FS_Interval
  <2> QED
    BY <2>1, FS_Subset
<1>2. Orders(S, R)
  <2>1. \A x, y \in S : <<x, y>> \in R <=> x < y
    OBVIOUS
  <2> HIDE DEF R
  <2>2. \A x \in S : x \in Int
    OBVIOUS
  <2> QED
    BY <2>1, <2>2 DEF Orders
<1>3. \A x, y : <<x, y>> \in R => x < y
  OBVIOUS
<1>4. s = Sorted(S, R)
  OBVIOUS
<1> HIDE DEF R
<1>5. /\ Cardinality(S) \in Nat
      /\ Sorted(S, R) \in [1 .. Cardinality(S) -> S]
      /\ Len(Sorted(S, R)) = Cardinality(S)
      /\ \A i, j \in 1 .. Cardinality(S) :
            i < j <=> <<Sorted(S, R)[i], Sorted(S, R)[j]>> \in R
      /\ \A x \in S : \E i \in 1 .. Cardinality(S) : Sorted(S, R)[i] = x
  BY <1>1, <1>2, SortedEnumerates
<1>6. DOMAIN s = 1 .. Len(s) /\ Len(s) = Cardinality(S)
  BY <1>4, <1>5
<1>7. Range(s) = S
  BY <1>4, <1>5 DEF Range
<1>8. \A i, j \in DOMAIN s : i < j => s[i] < s[j]
  BY <1>3, <1>4, <1>5
<1> QED
  BY <1>1, <1>5, <1>6, <1>7, <1>8

(* The sheet of any recording spans it, wherever building it may fail.     *)
LEMMA SheetsSpanRecordings ==
  ASSUME NEW frames, IsRecording(frames), NEW failure, NEW got,
         got = BuildVideoContactSheet(frames, failure)
  PROVE  SpansRecording(frames, got)
<1> DEFINE shown == SelectVisualKeyFrames(frames)
           count == Cardinality(shown)
           columns == Min({MaxColumns, count})
           s == Sorted(shown, {p \in shown \X shown : p[1] < p[2]})
           C == Candidates(frames)
           B == Boundaries(frames)
<1>1. CASE failure # "none"
  <2>1. got = [sheet   |-> <<>>, columns |-> 0, rows |-> 0,
               file    |-> FALSE, scratch |-> FALSE, warned |-> TRUE]
    BY <1>1, Zenon DEF BuildVideoContactSheet
  <2>2. got.warned /\ got.sheet = <<>> /\ ~got.file /\ ~got.scratch
    BY <2>1
  <2> QED
    BY <2>2, Zenon DEF SpansRecording
<1>2. CASE failure = "none"
  <2>1. got = [sheet   |-> s,
               columns |-> columns, rows |-> CeilDiv(count, columns),
               file    |-> TRUE, scratch |-> FALSE, warned |-> FALSE]
    BY <1>2, Zenon DEF BuildVideoContactSheet
  <2>2. /\ B \subseteq shown /\ shown \in SUBSET (0 .. Len(frames))
        /\ IsFiniteSet(shown) /\ count <= MaxFrames
        /\ \A f \in C \ shown :
              /\ \E g \in shown \intersect C :
                    SlotOf(frames, g) = SlotOf(frames, f) /\ Stronger(frames, g, f)
              /\ count = MaxFrames \/ \E g \in shown \ B : Near(frames, f, g)
    BY SelectedIs
  <2> HIDE DEF shown
  <2>3. /\ count \in Nat /\ DOMAIN s = 1 .. Len(s) /\ Len(s) = count /\ Range(s) = shown
        /\ \A i, j \in DOMAIN s : i < j => s[i] < s[j]
    <3>1. Len(frames) \in Nat
      BY DEF IsRecording
    <3> QED
      BY <2>2, <3>1, Ascending
  <2>4. count \in Nat \ {0}
    <3>1. 0 \in shown
      BY <2>2 DEF Boundaries
    <3>2. count # 0
      BY <2>2, <3>1, FS_EmptySet
    <3> QED
      BY <2>3, <3>2
  <2>5. columns \in Nat \ {0} /\ columns <= count
    BY <2>4, MinOfTwo, SheetAssumption
  <2>6. /\ CeilDiv(count, columns) \in Nat
        /\ count <= columns * CeilDiv(count, columns)
        /\ (CeilDiv(count, columns) - 1) * columns < count
    <3> HIDE DEF count, columns
    <3> QED
      BY <2>4, <2>5, RoundedUp
  <2>7. /\ got.sheet = s /\ got.columns = columns /\ got.rows = CeilDiv(count, columns)
        /\ got.file /\ ~got.warned
    <3> HIDE DEF s, columns, count
    <3> QED
      BY <2>1
  <2> HIDE DEF s, columns, count
  <2>8. C = {f \in DOMAIN frames : frames[f].score >= MinScore}
    BY DEF Candidates
  <2>9. \A f, g \in C : Stronger(frames, g, f) => frames[g].score >= frames[f].score
    <3>1. \A f \in 1 .. Len(frames) : frames[f] \in [time : Nat, score : Nat]
      BY FramesAre
    <3>2. \A f \in C : f \in 1 .. Len(frames)
      BY <2>8 DEF IsRecording
    <3>3. \A f \in C : frames[f].score \in Nat
      BY <3>1, <3>2
    <3> HIDE DEF C
    <3> QED
      BY <3>3 DEF Stronger
  <2>10. \A f \in C \ Range(s) :
            /\ \E g \in Range(s) \intersect C :
                  SlotOf(frames, g) = SlotOf(frames, f) /\ frames[g].score >= frames[f].score
            /\ Len(s) = MaxFrames \/ \E g \in Range(s) \ B : Near(frames, f, g)
    <3> HIDE DEF C, B
    <3> QED
      BY <2>2, <2>3, <2>9
  <2>11. Len(got.sheet) <= got.columns * got.rows
         /\ (got.rows - 1) * got.columns < Len(got.sheet)
    BY <2>3, <2>6, <2>7
  <2>12. Len(got.sheet) <= MaxFrames /\ B \subseteq Range(got.sheet)
    BY <2>2, <2>3, <2>7 DEF count
  <2> DEFINE slotOf(f) == Min({CoverageSlots(frames) - 1,
                               (frames[f].time * CoverageSlots(frames)) \div Last(frames).time})
  <2>13. \A f \in C \ Range(got.sheet) :
            /\ \E g \in Range(got.sheet) \intersect C :
                  slotOf(g) = slotOf(f) /\ frames[g].score >= frames[f].score
            /\ Len(got.sheet) = MaxFrames
               \/ \E g \in Range(got.sheet) \ B : Near(frames, f, g)
    <3>1. \A f : SlotOf(frames, f) = slotOf(f)
      BY Zenon DEF SlotOf
    <3> HIDE DEF C, B, slotOf
    <3> QED
      BY <2>7, <2>10, <3>1
  <2>14. \A i, j \in DOMAIN got.sheet : i < j => got.sheet[i] < got.sheet[j]
    BY <2>3, <2>7
  <2>15. got.file /\ ~got.warned
    BY <2>7
  <2> HIDE DEF C, B
  <2> QED
    BY <2>8, <2>11, <2>12, <2>13, <2>14, <2>15, Zenon DEF SpansRecording, B
<1> QED
  BY <1>1, <1>2

-----------------------------------------------------------------------------
(* The frames that are recorded, and what a call was answered.             *)
SheetInv ==
  reading = "sheet" =>
    /\ IsRecording(recorded)
    /\ answer # None => answer = BuildVideoContactSheet(recorded, ask)

LEMMA SheetStep ==
  ASSUME SheetInv, [Next]_vars
  PROVE  SheetInv'
<1> SUFFICES ASSUME reading' = "sheet"
             PROVE  /\ IsRecording(recorded')
                    /\ answer' # None => answer' = BuildVideoContactSheet(recorded', ask')
  BY DEF SheetInv
<1>1. CASE UNCHANGED vars
  BY <1>1 DEF SheetInv, vars
<1>2. CASE Next
  <2>1. reading = "sheet" /\ answer = None
    BY <1>2 DEF Next, Record, Call
  <2>2. IsRecording(recorded)
    BY <2>1 DEF SheetInv
  <2>3. CASE Record
    <3>1. PICK gap \in 1 .. 2, score \in 0 .. 2 : RecordFrame(gap, score) /\ answer' = answer
      BY <2>1, <2>3 DEF Record, RecordItem, RecordFile, RecordRawLine, RecordRequest, RecordView
    <3> DEFINE V == [time : Nat, score : Nat]
               before == IF recorded = <<>> THEN 0 ELSE Last(recorded).time
               new == [time |-> gap + before, score |-> score]
               N == Len(recorded)
    <3>2. recorded' = Append(recorded, new)
      BY <3>1, Zenon DEF RecordFrame
    <3>3. /\ recorded \in Seq(V) /\ N \in Nat
          /\ \A i \in 1 .. N : recorded[i].time > 0 /\ recorded[i] \in V
          /\ \A i, j \in 1 .. N : i < j => recorded[i].time < recorded[j].time
      BY <2>2, FramesAre DEF IsRecording
    <3>4. recorded # <<>> => N \in 1 .. N /\ before = recorded[N].time
      <4> HIDE DEF V
      <4> QED
        BY <3>3 DEF Last
    <3>5. \A i \in 1 .. N : recorded[i].time \in Nat
      BY <3>3
    <3>6. before \in Nat
      <4>1. recorded = <<>> => before = 0
        OBVIOUS
      <4> HIDE DEF before
      <4> QED
        BY <3>4, <3>5, <4>1
    <3>7. \A i \in 1 .. N : recorded[i].time <= before
      <4> SUFFICES ASSUME NEW i \in 1 .. N
                   PROVE  recorded[i].time <= before
        OBVIOUS
      <4>1. recorded # <<>>
        BY <3>3
      <4>2. N \in 1 .. N /\ before = recorded[N].time
        BY <3>4, <4>1
      <4>3. i < N => recorded[i].time < recorded[N].time
        BY <3>3, <4>2
      <4> HIDE DEF before
      <4> QED
        BY <3>3, <3>5, <4>2, <4>3
    <3> HIDE DEF before
    <3>8. new \in V /\ new.time > before /\ new.time > 0
      BY <3>6
    <3> HIDE DEF new, V
    <3>9. /\ recorded' \in Seq(V) /\ Len(recorded') = N + 1
          /\ \A i \in 1 .. N : recorded'[i] = recorded[i]
          /\ recorded'[N + 1] = new
      BY <3>2, <3>3, <3>8
    <3>10. new.time \in Nat
      BY <3>8 DEF V
    <3>11. \A i \in 1 .. N + 1 : i = N + 1 \/ i \in 1 .. N
      BY <3>3
    <3>12. \A i \in 1 .. N + 1 : recorded'[i].time > 0
      BY <3>3, <3>8, <3>9, <3>11
    <3>13. \A i, j \in 1 .. N + 1 : i < j => recorded'[i].time < recorded'[j].time
      <4> SUFFICES ASSUME NEW i \in 1 .. N + 1, NEW j \in 1 .. N + 1, i < j
                   PROVE  recorded'[i].time < recorded'[j].time
        OBVIOUS
      <4>1. i \in 1 .. N
        BY <3>3
      <4>2. CASE j \in 1 .. N
        BY <4>1, <4>2, <3>3, <3>9
      <4>3. CASE j = N + 1
        <5>1. recorded[i].time <= before /\ before < new.time
              /\ recorded[i].time \in Nat
          BY <4>1, <3>5, <3>7, <3>8
        <5> QED
          BY <5>1, <4>1, <4>3, <3>6, <3>9, <3>10
      <4> QED
        BY <3>11, <4>2, <4>3
    <3>14. IsRecording(recorded')
      BY <3>9, <3>12, <3>13 DEF IsRecording, V
    <3> QED
      BY <2>1, <3>1, <3>14
  <2>4. CASE Call
    <3>1. PICK failure \in SheetFailure : AskSheet(failure)
      BY <2>1, <2>4 DEF Call, AskCrash, AskBundle, AskWire, AskTap, AskElements, AskCapture
    <3> QED
      BY <2>2, <3>1 DEF AskSheet
  <2> QED
    BY <1>2, <2>3, <2>4 DEF Next
<1> QED
  BY <1>1, <1>2

LEMMA SheetInvImplies ==
  ASSUME SheetInv
  PROVE  SheetSpansRecording
BY SheetsSpanRecordings DEF SheetInv, SheetSpansRecording, Answered

-----------------------------------------------------------------------------
(* Snapshots.                                                              *)

(* A request, of pairs of keys and words.                                  *)
IsRequest(r, K, W) ==
  /\ r.method \in {"GET", "POST"}
  /\ r.params \in Seq(K \X W) /\ r.form \in Seq(K \X W)
  /\ r.decoded = NoDecoded \/ r.decoded \in Seq(K \X W)

Distinct(s) == \A i, j \in 1 .. Len(s) : s[i] = s[j] => i = j

(* The identities that pairs name.                                         *)
NamedBy(pairs) == {p[2] : p \in {q \in Range(pairs) : q[1] \in UidKeys /\ q[2] # ""}}

LEMMA FieldsAre ==
  ASSUME NEW K, NEW W, NEW r, IsRequest(r, K, W)
  PROVE  FieldsOf(r) \in Seq(K \X W)
<1> DEFINE P == K \X W
<1>1. /\ r.params \in Seq(P) /\ r.form \in Seq(P)
      /\ r.decoded = NoDecoded \/ r.decoded \in Seq(P)
  BY DEF IsRequest
<1> HIDE DEF P
<1>2. \A s \in Seq(P) : \A keys : Without(s, keys) \in Seq(P)
  BY OnlyCounts DEF Without
<1>3. Envelope(r) \in Seq(P)
  BY <1>1 DEF Envelope
<1>4. <<>> \in Seq(P)
  OBVIOUS
<1> DEFINE payload == IF ~Encrypted(r) THEN Without(Envelope(r), GlobalKeys)
                      ELSE IF r.decoded = NoDecoded THEN <<>>
                      ELSE Without(r.decoded, DecodedNoise)
           rest == Without(r.params, GlobalKeys \union Keys(r.form))
<1>5. payload \in Seq(P)
  BY <1>1, <1>2, <1>3, <1>4
<1>6. rest \in Seq(P)
  BY <1>1, <1>2
<1>7. FieldsOf(r) = IF r.method = "POST" THEN payload \o rest ELSE payload
  BY Zenon DEF FieldsOf
<1> HIDE DEF payload, rest
<1>8. payload \o rest \in Seq(P)
  BY <1>5, <1>6
<1> QED
  BY <1>5, <1>7, <1>8 DEF P

LEMMA LearnOneIs ==
  ASSUME NEW W, NEW seen \in Seq(W), Distinct(seen), NEW p, p[2] \in W
  PROVE  /\ LearnOne(seen, p) \in Seq(W) /\ Distinct(LearnOne(seen, p))
         /\ Range(LearnOne(seen, p))
               = Range(seen) \union (IF p[1] \in UidKeys /\ p[2] # "" THEN {p[2]} ELSE {})
<1>1. CASE p[1] \in UidKeys /\ p[2] # "" /\ p[2] \notin Range(seen)
  <2> DEFINE t == Append(seen, p[2])
  <2>1. /\ t \in Seq(W) /\ Len(t) = Len(seen) + 1 /\ Len(seen) \in Nat
        /\ \A i \in 1 .. Len(seen) : t[i] = seen[i]
        /\ t[Len(seen) + 1] = p[2]
    OBVIOUS
  <2>2. LearnOne(seen, p) = t
    BY <1>1 DEF LearnOne
  <2> HIDE DEF t
  <2>3. DOMAIN t = 1 .. Len(seen) + 1 /\ DOMAIN seen = 1 .. Len(seen)
    BY <2>1
  <2>4. \A i \in 1 .. Len(seen) + 1 : i \in 1 .. Len(seen) \/ i = Len(seen) + 1
    BY <2>1
  <2>5. Range(t) = Range(seen) \union {p[2]}
    <3>1. \A x \in Range(t) : x \in Range(seen) \union {p[2]}
      BY <2>1, <2>3, <2>4 DEF Range
    <3>2. \A i \in 1 .. Len(seen) : i \in 1 .. Len(seen) + 1
      BY <2>1
    <3>3. Len(seen) + 1 \in 1 .. Len(seen) + 1
      BY <2>1
    <3>4. \A x \in Range(seen) \union {p[2]} : x \in Range(t)
      BY <2>1, <2>3, <3>2, <3>3 DEF Range
    <3> QED
      BY <3>1, <3>4
  <2>6. Distinct(t)
    <3>1. \A i \in 1 .. Len(seen) : seen[i] # p[2]
      BY <1>1, <2>3 DEF Range
    <3> QED
      BY <2>1, <2>4, <3>1 DEF Distinct
  <2> QED
    BY <1>1, <2>1, <2>2, <2>5, <2>6
<1>2. CASE ~(p[1] \in UidKeys /\ p[2] # "" /\ p[2] \notin Range(seen))
  BY <1>2 DEF LearnOne
<1> QED
  BY <1>1, <1>2

(* Learning from pairs adds the identities that they name, each once.      *)
ArePairs(s, K, W) == s \in Seq(K \X W)

Learns(t, seen, pairs, W) ==
  /\ t \in Seq(W) /\ Distinct(t)
  /\ Range(t) = Range(seen) \union NamedBy(pairs)

LEMMA LearnIs ==
  ASSUME NEW K, NEW W, NEW seen \in Seq(W), Distinct(seen), NEW pairs, ArePairs(pairs, K, W)
  PROVE  Learns(Learn(seen, pairs), seen, pairs, W)
<1> DEFINE n == Len(pairs)
           V == {t \in Seq(W) : Distinct(t)}
           step == [k \in 1 .. n |-> [v \in V |-> LearnOne(v, pairs[k])]]
           Iter(g) == g = [t \in SUBSET (DOMAIN pairs) |->
                             IF t = {} THEN seen
                             ELSE LearnOne(g[t \ {Max(t)}], pairs[Max(t)])]
<1>1. n \in Nat /\ DOMAIN pairs = 1 .. n /\ \A k \in 1 .. n : pairs[k] \in K \X W
  BY DEF ArePairs
<1>2. \A v \in V : \A k \in 1 .. n :
         /\ LearnOne(v, pairs[k]) \in V
         /\ Range(LearnOne(v, pairs[k]))
               = Range(v) \union (IF pairs[k][1] \in UidKeys /\ pairs[k][2] # ""
                                  THEN {pairs[k][2]} ELSE {})
  <2>1. \A k \in 1 .. n : pairs[k][2] \in W
    BY <1>1
  <2> QED
    BY <2>1, LearnOneIs
<1>3. step \in [1 .. n -> [V -> V]] /\ seen \in V
  <2> HIDE DEF V
  <2>1. seen \in V
    BY DEF V
  <2> QED
    BY <1>2, <2>1
<1>4. PICK some : Iterates(some, n, V, seen, step)
  <2> HIDE DEF n, V, step
  <2> QED
    BY <1>1, <1>3, IterExists
<1>5. some \in [SUBSET (1 .. n) -> V] /\ Iter(some)
  <2>1. \A t \in SUBSET (1 .. n) : t # {} => Max(t) \in 1 .. n
    <3> HIDE DEF n
    <3> QED
      BY <1>1, MaxOf
  <2>2. some \in [SUBSET (1 .. n) -> V]
    BY <1>4 DEF Iterates
  <2>3. ASSUME NEW t \in SUBSET (1 .. n)
        PROVE  some[t] = IF t = {} THEN seen
                         ELSE LearnOne(some[t \ {Max(t)}], pairs[Max(t)])
    <3>1. some[t] = IF t = {} THEN seen ELSE step[Max(t)][some[t \ {Max(t)}]]
      BY <1>4 DEF Iterates
    <3>2. some[t \ {Max(t)}] \in V
      <4> HIDE DEF V
      <4> QED
        BY <2>2
    <3>3. t # {} => step[Max(t)][some[t \ {Max(t)}]]
                      = LearnOne(some[t \ {Max(t)}], pairs[Max(t)])
      <4> HIDE DEF V
      <4> QED
        BY <2>1, <3>2
    <3> HIDE DEF step
    <3> QED
      BY <3>1, <3>3
  <2>4. some = [t \in SUBSET (DOMAIN pairs) |-> some[t]]
    BY <1>1, <2>2
  <2> QED
    BY <1>1, <2>2, <2>3, <2>4
<1>6. PICK g : Iter(g) /\ Learn(seen, pairs) = g[DOMAIN pairs]
  BY <1>5, Zenon DEF Learn, FoldLeft, MapThenFoldSet
<1> DEFINE f == [k \in 0 .. n |-> g[1 .. k]]
<1>7. f[0] = seen
  <2>1. 1 .. 0 = {} /\ {} \in SUBSET (DOMAIN pairs) /\ 0 \in 0 .. n
    BY <1>1
  <2> QED
    BY <1>6, <2>1
<1>8. ASSUME NEW k \in 1 .. n
      PROVE  f[k] = LearnOne(f[k - 1], pairs[k])
  <2>1. /\ 1 .. k \in SUBSET (DOMAIN pairs) /\ 1 .. k # {}
        /\ Max(1 .. k) = k /\ (1 .. k) \ {k} = 1 .. (k - 1)
    <3> HIDE DEF n
    <3> QED
      BY <1>1, Beginnings
  <2>2. g[1 .. k] = LearnOne(g[1 .. (k - 1)], pairs[k])
    BY <1>6, <2>1
  <2>3. k \in 0 .. n /\ k - 1 \in 0 .. n
    BY <1>1
  <2> QED
    BY <2>2, <2>3
<1> DEFINE upto(k) == {pairs[j][2] : j \in {i \in 1 .. k : pairs[i][1] \in UidKeys
                                                            /\ pairs[i][2] # ""}}
           T == {k \in 0 .. n : f[k] \in V /\ Range(f[k]) = Range(seen) \union upto(k)}
<1>9. 0 \in T
  <2>1. 0 \in 0 .. n /\ upto(0) = {}
    BY <1>1
  <2> HIDE DEF f, V, upto
  <2> QED
    BY <1>3, <1>7, <2>1
<1>10. ASSUME NEW k \in 1 .. n, k - 1 \in T
       PROVE  k \in T
  <2>1. k \in 0 .. n /\ 1 .. k = (1 .. (k - 1)) \union {k}
    BY <1>1
  <2> HIDE DEF f
  <2>2. f[k - 1] \in V /\ Range(f[k - 1]) = Range(seen) \union upto(k - 1)
    BY <1>10
  <2>3. f[k] \in V
        /\ Range(f[k]) = Range(f[k - 1])
                         \union (IF pairs[k][1] \in UidKeys /\ pairs[k][2] # ""
                                 THEN {pairs[k][2]} ELSE {})
    <3> HIDE DEF V
    <3> QED
      BY <1>2, <1>8, <2>2
  <2>4. upto(k) = upto(k - 1) \union (IF pairs[k][1] \in UidKeys /\ pairs[k][2] # ""
                                      THEN {pairs[k][2]} ELSE {})
    BY <2>1
  <2> HIDE DEF V, upto
  <2> QED
    BY <2>1, <2>2, <2>3, <2>4
<1>11. \A k \in 0 .. n : k \in T
  <2> HIDE DEF T
  <2> QED
    BY <1>1, <1>9, <1>10, UpTo
<1>12. f[n] = Learn(seen, pairs) /\ n \in 0 .. n
  BY <1>1, <1>6
<1>13. upto(n) = NamedBy(pairs)
  BY <1>1 DEF NamedBy, Range
<1> HIDE DEF f, upto
<1> QED
  BY <1>11, <1>12, <1>13 DEF Learns

NamedIn(r) == NamedBy(FieldsOf(r)) \union NamedBy(r.params)

LEMMA LearnRequestIs ==
  ASSUME NEW K, NEW W, NEW r, IsRequest(r, K, W), NEW v \in Seq(W), Distinct(v)
  PROVE  /\ LearnRequest(v, r) \in Seq(W) /\ Distinct(LearnRequest(v, r))
         /\ Range(LearnRequest(v, r)) = Range(v) \union NamedIn(r)
<1>1. ArePairs(FieldsOf(r), K, W) /\ ArePairs(r.params, K, W)
  BY FieldsAre DEF IsRequest, ArePairs
<1> DEFINE u == Learn(v, FieldsOf(r))
<1>2. u \in Seq(W) /\ Distinct(u) /\ Range(u) = Range(v) \union NamedBy(FieldsOf(r))
  <2>1. Learns(u, v, FieldsOf(r), W)
    BY <1>1, LearnIs
  <2> QED
    BY <2>1 DEF Learns
<1> HIDE DEF u
<1>3. /\ Learn(u, r.params) \in Seq(W) /\ Distinct(Learn(u, r.params))
      /\ Range(Learn(u, r.params)) = Range(u) \union NamedBy(r.params)
  <2>1. Learns(Learn(u, r.params), u, r.params, W)
    BY <1>1, <1>2, LearnIs
  <2> QED
    BY <2>1 DEF Learns
<1>4. LearnRequest(v, r) = Learn(u, r.params)
  BY Zenon DEF LearnRequest, u
<1> QED
  BY <1>2, <1>3, <1>4 DEF NamedIn

(* A log's first pass learns its identities, each once.                    *)
LEMMA LearnedIs ==
  ASSUME NEW K, NEW W, NEW R, \A r \in R : IsRequest(r, K, W), NEW log \in Seq(R), NEW kept
  PROVE  /\ Learned(log, kept) \in Seq(W) /\ Distinct(Learned(log, kept))
         /\ Range(Learned(log, kept)) = Identities(log)
<1> DEFINE n == Len(log)
           V == {t \in Seq(W) : Distinct(t)}
           step == [k \in 1 .. n |-> [v \in V |-> LearnRequest(v, log[k])]]
           Iter(g) == g = [t \in SUBSET (DOMAIN log) |->
                             IF t = {} THEN <<>>
                             ELSE LearnRequest(g[t \ {Max(t)}], log[Max(t)])]
<1>1. n \in Nat /\ DOMAIN log = 1 .. n /\ \A k \in 1 .. n : log[k] \in R
  OBVIOUS
<1>2. \A v \in V : \A k \in 1 .. n :
         /\ LearnRequest(v, log[k]) \in V
         /\ Range(LearnRequest(v, log[k]))
               = Range(v) \union NamedIn(log[k])
  <2>1. \A k \in 1 .. n : IsRequest(log[k], K, W)
    BY <1>1
  <2> SUFFICES ASSUME NEW v \in V, NEW k \in 1 .. n
               PROVE  /\ LearnRequest(v, log[k]) \in V
                      /\ Range(LearnRequest(v, log[k])) = Range(v) \union NamedIn(log[k])
    OBVIOUS
  <2> QED
    BY <2>1, LearnRequestIs
<1>3. step \in [1 .. n -> [V -> V]] /\ <<>> \in V /\ Range(<<>>) = {}
  <2>1. <<>> \in V /\ Range(<<>>) = {}
    BY DEF Distinct, Range
  <2> HIDE DEF V
  <2> QED
    BY <1>2, <2>1
<1>4. PICK some : Iterates(some, n, V, <<>>, step)
  <2> HIDE DEF n, V, step
  <2> QED
    BY <1>1, <1>3, IterExists
<1>5. some \in [SUBSET (1 .. n) -> V] /\ Iter(some)
  <2>1. \A t \in SUBSET (1 .. n) : t # {} => Max(t) \in 1 .. n
    <3> HIDE DEF n
    <3> QED
      BY <1>1, MaxOf
  <2>2. some \in [SUBSET (1 .. n) -> V]
    BY <1>4 DEF Iterates
  <2>3. ASSUME NEW t \in SUBSET (1 .. n)
        PROVE  some[t] = IF t = {} THEN <<>>
                         ELSE LearnRequest(some[t \ {Max(t)}], log[Max(t)])
    <3>1. some[t] = IF t = {} THEN <<>> ELSE step[Max(t)][some[t \ {Max(t)}]]
      BY <1>4 DEF Iterates
    <3>2. some[t \ {Max(t)}] \in V
      <4> HIDE DEF V
      <4> QED
        BY <2>2
    <3>3. t # {} => step[Max(t)][some[t \ {Max(t)}]]
                      = LearnRequest(some[t \ {Max(t)}], log[Max(t)])
      <4> HIDE DEF V
      <4> QED
        BY <2>1, <3>2
    <3> HIDE DEF step
    <3> QED
      BY <3>1, <3>3
  <2>4. some = [t \in SUBSET (DOMAIN log) |-> some[t]]
    BY <1>1, <2>2
  <2> QED
    BY <1>1, <2>2, <2>3, <2>4
<1>6. PICK g : Iter(g) /\ Learned(log, kept) = g[DOMAIN log]
  BY <1>5, Zenon DEF Learned, FoldLeft, MapThenFoldSet
<1> DEFINE f == [k \in 0 .. n |-> g[1 .. k]]
<1>7. f[0] = <<>>
  <2>1. 1 .. 0 = {} /\ {} \in SUBSET (DOMAIN log) /\ 0 \in 0 .. n
    BY <1>1
  <2> QED
    BY <1>6, <2>1
<1>8. ASSUME NEW k \in 1 .. n
      PROVE  f[k] = LearnRequest(f[k - 1], log[k])
  <2>1. /\ 1 .. k \in SUBSET (DOMAIN log) /\ 1 .. k # {}
        /\ Max(1 .. k) = k /\ (1 .. k) \ {k} = 1 .. (k - 1)
    <3> HIDE DEF n
    <3> QED
      BY <1>1, Beginnings
  <2>2. g[1 .. k] = LearnRequest(g[1 .. (k - 1)], log[k])
    BY <1>6, <2>1
  <2>3. k \in 0 .. n /\ k - 1 \in 0 .. n
    BY <1>1
  <2> QED
    BY <2>2, <2>3
<1> DEFINE upto(k) == UNION {NamedIn(log[j]) : j \in 1 .. k}
           T == {k \in 0 .. n : f[k] \in V /\ Range(f[k]) = upto(k)}
<1>9. 0 \in T
  <2>1. 0 \in 0 .. n /\ upto(0) = {}
    BY <1>1
  <2> HIDE DEF f, V, upto
  <2> QED
    BY <1>3, <1>7, <2>1
<1>10. ASSUME NEW k \in 1 .. n, k - 1 \in T
       PROVE  k \in T
  <2>1. k \in 0 .. n /\ 1 .. k = (1 .. (k - 1)) \union {k}
    BY <1>1
  <2> HIDE DEF f
  <2>2. f[k - 1] \in V /\ Range(f[k - 1]) = upto(k - 1)
    BY <1>10
  <2>3. f[k] \in V
        /\ Range(f[k]) = Range(f[k - 1])
                         \union NamedIn(log[k])
    <3> HIDE DEF V
    <3> QED
      BY <1>2, <1>8, <2>2
  <2>4. upto(k) = upto(k - 1) \union NamedIn(log[k])
    BY <2>1
  <2> HIDE DEF V, upto
  <2> QED
    BY <2>1, <2>2, <2>3, <2>4
<1>11. \A k \in 0 .. n : k \in T
  <2> HIDE DEF T
  <2> QED
    BY <1>1, <1>9, <1>10, UpTo
<1>12. f[n] = Learned(log, kept) /\ n \in 0 .. n
  BY <1>1, <1>6
<1>13. upto(n) = Identities(log)
  <2>1. \A j \in 1 .. n : Range(log[j].params \o FieldsOf(log[j]))
                             = Range(log[j].params) \union Range(FieldsOf(log[j]))
    <3> SUFFICES ASSUME NEW j \in 1 .. n
                 PROVE  Range(log[j].params \o FieldsOf(log[j]))
                           = Range(log[j].params) \union Range(FieldsOf(log[j]))
      OBVIOUS
    <3>1. IsRequest(log[j], K, W)
      BY <1>1
    <3>2. log[j].params \in Seq(K \X W) /\ FieldsOf(log[j]) \in Seq(K \X W)
      BY <3>1, FieldsAre DEF IsRequest
    <3> QED
      BY <3>2, RangeOfBoth
  <2>2. Range(log) = {log[j] : j \in 1 .. n}
    BY <1>1 DEF Range
  <2>3. ASSUME NEW v
        PROVE  v \in Identities(log) <=> \E j \in 1 .. n : v \in NamedIn(log[j])
    <3>1. v \in Identities(log) <=>
             \E j \in 1 .. n : \E p \in Range(log[j].params \o FieldsOf(log[j])) :
                p[1] \in UidKeys /\ p[2] # "" /\ v = p[2]
      BY <2>2 DEF Identities
    <3>2. \A j \in 1 .. n :
             v \in NamedIn(log[j]) <=>
                \E p \in Range(log[j].params) \union Range(FieldsOf(log[j])) :
                   p[1] \in UidKeys /\ p[2] # "" /\ v = p[2]
      BY DEF NamedIn, NamedBy
    <3> QED
      BY <2>1, <3>1, <3>2
  <2> QED
    BY <2>3
<1> HIDE DEF f, upto
<1> QED
  BY <1>11, <1>12, <1>13

LEMMA ShownIs ==
  /\ \A n : Alias(n)[1] = "alias" /\ Alias(n)[2] = n
  /\ \A v : Plain(v)[1] = "plain" /\ Plain(v)[2] = v
  /\ Redacted[1] = "redacted"
BY DEF Alias, Plain, Redacted

(* What a snapshot shows of a value: nothing of an identity or a secret,   *)
(* and of an identity's key the place where it was learned.                *)
LEMMA ScrubIs ==
  ASSUME NEW seen, NEW key, NEW value, key \in UidKeys /\ value # "" => value \in Range(seen)
  PROVE  /\ Scrub(seen, key, value)[1] = "plain" /\ Scrub(seen, key, value)[2] # "" =>
               /\ Scrub(seen, key, value)[2] = value
               /\ key \notin SecretKeys \union UidKeys
               /\ LengthOf(value) >= MinEchoLength => value \notin Range(seen)
         /\ key \in UidKeys /\ value # "" =>
               \E n \in DOMAIN seen : seen[n] = value /\ Scrub(seen, key, value) = Alias(n)
<1>1. \A v \in Range(seen) : \E n \in DOMAIN seen : seen[n] = v /\ AliasOf(seen, v) = Alias(n)
  BY DEF AliasOf, Range
<1>2. CASE value = ""
  BY <1>2 DEF Scrub, Plain
<1>3. CASE value # "" /\ key \in UidKeys
  <2>1. Scrub(seen, key, value) = AliasOf(seen, value)
    BY <1>3, Zenon DEF Scrub
  <2>2. PICK n \in DOMAIN seen : seen[n] = value /\ AliasOf(seen, value) = Alias(n)
    BY <1>1, <1>3
  <2>3. Scrub(seen, key, value)[1] = "alias"
    BY <2>1, <2>2, ShownIs
  <2> QED
    BY <2>1, <2>2, <2>3
<1>4. CASE value # "" /\ key \notin UidKeys
  <2>1. CASE key \in SecretKeys
    BY <1>4, <2>1 DEF Scrub, Redacted
  <2>2. CASE key \notin SecretKeys /\ LengthOf(value) >= MinEchoLength /\ value \in Range(seen)
    <3>1. Scrub(seen, key, value) = AliasOf(seen, value)
      BY <1>4, <2>2, Zenon DEF Scrub
    <3>2. PICK n \in DOMAIN seen : AliasOf(seen, value) = Alias(n)
      BY <1>1, <2>2
    <3>3. Scrub(seen, key, value)[1] = "alias"
      BY <3>1, <3>2, ShownIs
    <3> QED
      BY <1>4, <3>3
  <2>3. CASE key \notin SecretKeys /\ ~(LengthOf(value) >= MinEchoLength /\ value \in Range(seen))
    <3>1. Scrub(seen, key, value) = Plain(value)
      BY <1>4, <2>3, Zenon DEF Scrub
    <3> QED
      BY <1>4, <2>3, <3>1, ShownIs
  <2> QED
    BY <2>1, <2>2, <2>3
<1> QED
  BY <1>2, <1>3, <1>4

LEMMA ScrubbedIs ==
  ASSUME NEW K, NEW W, NEW seen, NEW pairs, ArePairs(pairs, K, W)
  PROVE  /\ Scrubbed(seen, pairs) \in Seq(Range(Scrubbed(seen, pairs)))
         /\ \A q \in Range(Scrubbed(seen, pairs)) :
               \E p \in Range(pairs) : q = <<p[1], Scrub(seen, p[1], p[2])>>
         /\ DOMAIN Scrubbed(seen, pairs) = DOMAIN pairs
<1> DEFINE s == Scrubbed(seen, pairs)
<1>1. Len(pairs) \in Nat /\ DOMAIN pairs = 1 .. Len(pairs)
  BY DEF ArePairs
<1>2. /\ DOMAIN s = DOMAIN pairs
      /\ s = [i \in DOMAIN pairs |-> s[i]]
      /\ \A i \in DOMAIN pairs : s[i] = <<pairs[i][1], Scrub(seen, pairs[i][1], pairs[i][2])>>
  BY DEF Scrubbed
<1> HIDE DEF s
<1>3. \A i \in DOMAIN pairs : s[i] \in Range(s)
  BY <1>2 DEF Range
<1>4. s \in Seq(Range(s))
  BY <1>1, <1>2, <1>3
<1>5. \A q \in Range(s) : \E p \in Range(pairs) : q = <<p[1], Scrub(seen, p[1], p[2])>>
  BY <1>2 DEF Range
<1> QED
  BY <1>2, <1>4, <1>5 DEF s

(* An identity that pairs of a log's request name is one of the log's.     *)
LEMMA IdentitiesAre ==
  ASSUME NEW K, NEW W, NEW log, NEW r \in Range(log), IsRequest(r, K, W)
  PROVE  /\ Range(r.params \o FieldsOf(r)) = Range(r.params) \union Range(FieldsOf(r))
         /\ \A p \in Range(r.params) \union Range(FieldsOf(r)) :
               p[1] \in UidKeys /\ p[2] # "" => p[2] \in Identities(log)
<1>1. r.params \in Seq(K \X W) /\ FieldsOf(r) \in Seq(K \X W)
  BY FieldsAre DEF IsRequest
<1>2. Range(r.params \o FieldsOf(r)) = Range(r.params) \union Range(FieldsOf(r))
  BY <1>1, RangeOfBoth
<1>3. ASSUME NEW p \in Range(r.params \o FieldsOf(r)), p[1] \in UidKeys, p[2] # ""
      PROVE  p[2] \in Identities(log)
  BY <1>3 DEF Identities
<1> QED
  BY <1>2, <1>3

(* The requests that are kept are the log's.                               *)
LEMMA KeptAre ==
  ASSUME NEW R, NEW log \in Seq(R), NEW a
  PROVE  /\ Kept(log, a) \in Seq(R)
         /\ \A i \in DOMAIN Kept(log, a) : Kept(log, a)[i] \in R /\ Kept(log, a)[i] \in Range(log)
<1> DEFINE K == {r \in Range(log) : /\ r.at >= From(a) /\ r.at <= a.to
                                    /\ a.only # {} => r.path \in a.only}
           kept == Kept(log, a)
<1>1. kept = Only(log, K)
  BY DEF Kept
<1> HIDE DEF K, kept
<1>2. kept \in Seq(R) /\ Range(kept) = Range(log) \intersect K
  BY <1>1, OnlyCounts
<1>3. \A i \in DOMAIN kept : kept[i] \in Range(kept)
  BY DEF Range
<1>4. \A i \in DOMAIN kept : kept[i] \in R
  BY <1>2
<1> QED
  BY <1>2, <1>3, <1>4 DEF kept

(* A snapshot of any log of requests is redacted.                          *)
LEMMA SnapshotsAreRedacted ==
  ASSUME NEW K, NEW W, NEW R, \A r \in R : IsRequest(r, K, W), NEW log \in Seq(R), NEW a
  PROVE  RedactsLog(log, a, BuildSnapshot(log, a).records)
<1> DEFINE kept == Kept(log, a)
           seen == Learned(log, kept)
           records == BuildSnapshot(log, a).records
           named(i) == {k \in DOMAIN kept[i].params :
                          kept[i].params[k][1] \in UidKeys /\ kept[i].params[k][2] # ""}
           ids == UNION {{<<kept[i].params[k][2], records[i].query[k][2]>> :
                            k \in named(i)} : i \in DOMAIN kept}
           shown == UNION {Range(q.query \o q.fields) : q \in Range(records)}
<1>1. /\ seen \in Seq(W) /\ Distinct(seen) /\ Range(seen) = Identities(log)
  <2> HIDE DEF kept
  <2> QED
    BY LearnedIs
<1>2. \A i \in DOMAIN kept : IsRequest(kept[i], K, W) /\ kept[i] \in Range(log)
  BY KeptAre
<1>3. records = [i \in DOMAIN kept |-> ProjectRecord(seen, kept[i])]
  BY DEF BuildSnapshot
<1> HIDE DEF kept, seen, records
<1>4. \A i \in DOMAIN kept : /\ records[i].query = Scrubbed(seen, kept[i].params)
                             /\ records[i].fields = Scrubbed(seen, FieldsOf(kept[i]))
  BY <1>3 DEF ProjectRecord
<1>5. ASSUME NEW p \in shown, p[2][1] = "plain", p[2][2] # ""
      PROVE  /\ p[1] \notin SecretKeys \union UidKeys
             /\ LengthOf(p[2][2]) >= MinEchoLength => p[2][2] \notin Identities(log)
  <2> HIDE DEF ids
  <2>shows. \A t \in Range(records) : \E i \in DOMAIN kept : t = records[i]
    BY <1>3 DEF Range
  <2>1. PICK i \in DOMAIN kept : p \in Range(records[i].query \o records[i].fields)
    BY <2>shows
  <2> DEFINE r == kept[i]
             q == Scrubbed(seen, r.params)
             f == Scrubbed(seen, FieldsOf(r))
             E == Range(q) \union Range(f)
  <2>2. ArePairs(r.params, K, W) /\ ArePairs(FieldsOf(r), K, W)
    BY <1>2, FieldsAre DEF IsRequest, ArePairs
  <2>3. q \in Seq(Range(q)) /\ f \in Seq(Range(f))
        /\ (\A x \in Range(q) : \E y \in Range(r.params) : x = <<y[1], Scrub(seen, y[1], y[2])>>)
        /\ (\A x \in Range(f) : \E y \in Range(FieldsOf(r)) :
                                   x = <<y[1], Scrub(seen, y[1], y[2])>>)
    <3> HIDE DEF r
    <3> QED
      BY <2>2, ScrubbedIs
  <2>4. p \in Range(q \o f)
    BY <1>4, <2>1
  <2>5. IsRequest(r, K, W) /\ r \in Range(log)
    BY <1>2
  <2> HIDE DEF q, f, r
  <2>6. q \in Seq(E) /\ f \in Seq(E)
    <3> DEFINE A == Range(q)
               B == Range(f)
    <3>1. q \in Seq(A) /\ f \in Seq(B)
      BY <2>3
    <3> HIDE DEF A, B
    <3>2. q \in Seq(A \union B) /\ f \in Seq(A \union B)
      BY <3>1
    <3> QED
      BY <3>2 DEF A, B
  <2>7. Range(q \o f) = E
    <3> HIDE DEF E
    <3>1. Range(q \o f) = Range(q) \union Range(f)
      BY <2>6, RangeOfBoth
    <3> QED
      BY <3>1 DEF E
  <2>8. PICK y \in Range(r.params) \union Range(FieldsOf(r)) :
           p = <<y[1], Scrub(seen, y[1], y[2])>>
    BY <2>3, <2>4, <2>7
  <2>9. y[1] \in UidKeys /\ y[2] # "" => y[2] \in Range(seen)
    <3>1. \A z \in Range(r.params) \union Range(FieldsOf(r)) :
             z[1] \in UidKeys /\ z[2] # "" => z[2] \in Identities(log)
      BY <2>5, IdentitiesAre
    <3> QED
      BY <1>1, <2>8, <3>1
  <2>10. p[1] = y[1] /\ p[2] = Scrub(seen, y[1], y[2])
    BY <2>8
  <2>11. p[2][1] = "plain" /\ p[2][2] # "" =>
            /\ p[2][2] = y[2]
            /\ y[1] \notin SecretKeys \union UidKeys
            /\ LengthOf(y[2]) >= MinEchoLength => y[2] \notin Range(seen)
    <3> DEFINE key == y[1]
               value == y[2]
               got == Scrub(seen, key, value)
    <3>1. key \in UidKeys /\ value # "" => value \in Range(seen)
      BY <2>9
    <3>2. p[2] = got
      BY <2>10
    <3> HIDE DEF key, value
    <3>3. got[1] = "plain" /\ got[2] # "" =>
            /\ got[2] = value
            /\ key \notin SecretKeys \union UidKeys
            /\ LengthOf(value) >= MinEchoLength => value \notin Range(seen)
      BY <3>1, ScrubIs
    <3> HIDE DEF got
    <3> QED
      BY <3>2, <3>3 DEF key, value
  <2> QED
    BY <1>1, <1>5, <2>10, <2>11
<1>6. \A x \in ids : \E n \in DOMAIN seen : x[1] = seen[n] /\ x[2] = Alias(n)
  <2> SUFFICES ASSUME NEW x \in ids
               PROVE  \E n \in DOMAIN seen : x[1] = seen[n] /\ x[2] = Alias(n)
    OBVIOUS
  <2>w. PICK i \in DOMAIN kept :
           x \in {<<kept[i].params[k][2], records[i].query[k][2]>> : k \in named(i)}
    OBVIOUS
  <2>x. PICK k \in named(i) : x = <<kept[i].params[k][2], records[i].query[k][2]>>
    BY <2>w
  <2> DEFINE r == kept[i]
             p == r.params[k]
  <2>1. p[1] \in UidKeys /\ p[2] # "" /\ p \in Range(r.params) /\ k \in DOMAIN r.params
    BY DEF Range
  <2>2. records[i].query[k][2] = Scrub(seen, p[1], p[2])
    <3>1. Scrubbed(seen, r.params)[k] = <<p[1], Scrub(seen, p[1], p[2])>>
      BY <2>1 DEF Scrubbed
    <3>2. records[i].query[k] = Scrubbed(seen, r.params)[k]
      BY <1>4
    <3>3. <<p[1], Scrub(seen, p[1], p[2])>>[2] = Scrub(seen, p[1], p[2])
      OBVIOUS
    <3> HIDE DEF p, r
    <3>4. records[i].query[k] = <<p[1], Scrub(seen, p[1], p[2])>>
      BY <3>1, <3>2, Zenon
    <3> QED
      BY <3>3, <3>4, Zenon
  <2>3. IsRequest(r, K, W) /\ r \in Range(log)
    BY <1>2
  <2> HIDE DEF p, r
  <2>4. p[2] \in Range(seen)
    <3>1. \A z \in Range(r.params) \union Range(FieldsOf(r)) :
             z[1] \in UidKeys /\ z[2] # "" => z[2] \in Identities(log)
      BY <2>3, IdentitiesAre
    <3> QED
      BY <1>1, <2>1, <3>1
  <2>5. \E n \in DOMAIN seen : seen[n] = p[2] /\ Scrub(seen, p[1], p[2]) = Alias(n)
    BY <2>1, <2>4, ScrubIs
  <2> QED
    BY <2>x, <2>2, <2>5 DEF p, r
<1>7. \A x, y \in ids : x[1] = y[1] <=> x[2] = y[2]
  <2> HIDE DEF ids
  <2> SUFFICES ASSUME NEW x \in ids, NEW y \in ids
               PROVE  x[1] = y[1] <=> x[2] = y[2]
    OBVIOUS
  <2>1. PICK m \in DOMAIN seen : x[1] = seen[m] /\ x[2] = Alias(m)
    BY <1>6
  <2>2. PICK n \in DOMAIN seen : y[1] = seen[n] /\ y[2] = Alias(n)
    BY <1>6
  <2>3. seen[m] = seen[n] <=> m = n
    BY <1>1 DEF Distinct
  <2>4. Alias(m) = Alias(n) <=> m = n
    BY DEF Alias
  <2> QED
    BY <2>1, <2>2, <2>3, <2>4
<1> QED
  BY <1>5, <1>7, Zenon DEF RedactsLog, kept, records

WireKeys == {"userid", "nick", "_uid", "_sign", "type", "code", "_mtime", "imei"}
WireWords == {"", "x", "y", "s", "idA", "idB"}

LEMMA RequestsWithAre ==
  ASSUME NEW r, \E id \in {"idA", "idB"}, w \in {"x", "y"} : r \in RequestsWith(id, w)
  PROVE  IsRequest(r, WireKeys, WireWords)
         /\ DOMAIN r = {"method", "path", "params", "form", "decoded", "role", "headers",
                        "build", "at"}
<1> DEFINE request(method, params, form, decoded, role) ==
             [method |-> method, path |-> IF method = "GET" THEN "/profile" ELSE "/login",
              params |-> params, form |-> form, decoded |-> decoded, role |-> role,
              headers |-> {"accept"}, build |-> None, at |-> 0]
           sign == <<"_sign", "s">>
           P == WireKeys \X WireWords
           Sent(x) == \E m \in {"GET", "POST"} : \E p, f, d, o :
                         /\ x = request(m, p, f, d, o)
                         /\ p \in Seq(P) /\ f \in Seq(P) /\ (d = NoDecoded \/ d \in Seq(P))
<1>1. ASSUME NEW id \in {"idA", "idB"}, NEW w \in {"x", "y"}
      PROVE  /\ Sent(request("GET", <<<<"userid", id>>, <<"nick", w>>>>, <<>>, NoDecoded, "Current"))
             /\ Sent(request("GET", <<<<"nick", id>>, <<"userid", IF w = "x" THEN "" ELSE id>>>>,
                             <<>>, NoDecoded, "Candidate"))
             /\ Sent(request("POST", <<<<"_uid", id>>>>, <<sign>>,
                             <<<<"type", w>>, <<"code", id>>, <<"_mtime", w>>>>, "Current"))
             /\ Sent(request("POST", <<<<"_uid", id>>>>, <<sign>>, NoDecoded, "Current"))
             /\ Sent(request("POST", <<<<"type", w>>, <<"nick", w>>>>,
                             <<<<"type", w>>, <<"imei", id>>>>, NoDecoded, NoRole))
  <2>1. /\ <<"userid", id>> \in P /\ <<"nick", w>> \in P /\ <<"nick", id>> \in P
        /\ <<"userid", IF w = "x" THEN "" ELSE id>> \in P /\ <<"_uid", id>> \in P
        /\ sign \in P /\ <<"type", w>> \in P /\ <<"code", id>> \in P
        /\ <<"_mtime", w>> \in P /\ <<"imei", id>> \in P
    BY DEF WireKeys, WireWords
  <2> DEFINE a == <<"userid", id>>
             b == <<"nick", w>>
             c == <<"nick", id>>
             d == <<"userid", IF w = "x" THEN "" ELSE id>>
             e == <<"_uid", id>>
             g == <<"type", w>>
             h == <<"code", id>>
             i == <<"_mtime", w>>
             j == <<"imei", id>>
  <2>2. /\ a \in P /\ b \in P /\ c \in P /\ d \in P /\ e \in P /\ sign \in P /\ g \in P
        /\ h \in P /\ i \in P /\ j \in P
    BY <2>1
  <2> HIDE DEF P, a, b, c, d, e, g, h, i, j, sign
  <2>3. /\ <<a, b>> \in Seq(P) /\ <<c, d>> \in Seq(P) /\ <<e>> \in Seq(P) /\ <<sign>> \in Seq(P)
        /\ <<g, h, i>> \in Seq(P) /\ <<g, b>> \in Seq(P) /\ <<g, j>> \in Seq(P)
        /\ <<>> \in Seq(P)
    BY <2>2
  <2> DEFINE q(m, p, f, x, o) == request(m, p, f, x, o)
  <2>4. ASSUME NEW m \in {"GET", "POST"}, NEW p \in Seq(P), NEW f \in Seq(P),
               NEW x, x = NoDecoded \/ x \in Seq(P), NEW o
        PROVE  Sent(request(m, p, f, x, o))
    BY <2>4, Zenon
  <2> HIDE DEF Sent, request
  <2>5. /\ Sent(request("GET", <<a, b>>, <<>>, NoDecoded, "Current"))
        /\ Sent(request("GET", <<c, d>>, <<>>, NoDecoded, "Candidate"))
        /\ Sent(request("POST", <<e>>, <<sign>>, <<g, h, i>>, "Current"))
        /\ Sent(request("POST", <<e>>, <<sign>>, NoDecoded, "Current"))
        /\ Sent(request("POST", <<g, b>>, <<g, j>>, NoDecoded, NoRole))
    BY <2>3, <2>4
  <2> QED
    BY <2>5, Zenon DEF a, b, c, d, e, g, h, i, j
<1>2. \E id \in {"idA", "idB"}, w \in {"x", "y"} :
         \/ r = request("GET", <<<<"userid", id>>, <<"nick", w>>>>, <<>>, NoDecoded, "Current")
         \/ r = request("GET", <<<<"nick", id>>, <<"userid", IF w = "x" THEN "" ELSE id>>>>,
                        <<>>, NoDecoded, "Candidate")
         \/ r = request("POST", <<<<"_uid", id>>>>, <<sign>>,
                        <<<<"type", w>>, <<"code", id>>, <<"_mtime", w>>>>, "Current")
         \/ r = request("POST", <<<<"_uid", id>>>>, <<sign>>, NoDecoded, "Current")
         \/ r = request("POST", <<<<"type", w>>, <<"nick", w>>>>,
                        <<<<"type", w>>, <<"imei", id>>>>, NoDecoded, NoRole)
  <2> DEFINE A(id, w) ==
               {request("GET", <<<<"userid", id>>, <<"nick", w>>>>, <<>>, NoDecoded, "Current"),
                request("GET", <<<<"nick", id>>, <<"userid", IF w = "x" THEN "" ELSE id>>>>,
                        <<>>, NoDecoded, "Candidate"),
                request("POST", <<<<"_uid", id>>>>, <<sign>>,
                        <<<<"type", w>>, <<"code", id>>, <<"_mtime", w>>>>, "Current"),
                request("POST", <<<<"_uid", id>>>>, <<sign>>, NoDecoded, "Current"),
                request("POST", <<<<"type", w>>, <<"nick", w>>>>,
                        <<<<"type", w>>, <<"imei", id>>>>, NoDecoded, NoRole)}
  <2>1. \A id, w : RequestsWith(id, w) = A(id, w)
    BY Zenon DEF RequestsWith
  <2>2. PICK id \in {"idA", "idB"}, w \in {"x", "y"} : r \in A(id, w)
    <3> HIDE DEF A
    <3> QED
      BY <2>1
  <2>3. \/ r = request("GET", <<<<"userid", id>>, <<"nick", w>>>>, <<>>, NoDecoded, "Current")
        \/ r = request("GET", <<<<"nick", id>>, <<"userid", IF w = "x" THEN "" ELSE id>>>>,
                       <<>>, NoDecoded, "Candidate")
        \/ r = request("POST", <<<<"_uid", id>>>>, <<sign>>,
                       <<<<"type", w>>, <<"code", id>>, <<"_mtime", w>>>>, "Current")
        \/ r = request("POST", <<<<"_uid", id>>>>, <<sign>>, NoDecoded, "Current")
        \/ r = request("POST", <<<<"type", w>>, <<"nick", w>>>>,
                       <<<<"type", w>>, <<"imei", id>>>>, NoDecoded, NoRole)
    <3> HIDE DEF request, sign
    <3> QED
      BY <2>2, Zenon
  <2> HIDE DEF A, request, sign
  <2> QED
    BY <2>3, Zenon
<1>3. Sent(r)
  <2> HIDE DEF Sent, request
  <2> QED
    BY <1>1, <1>2, Zenon
<1>m. PICK m \in {"GET", "POST"} : \E p, f, d, o :
         /\ r = request(m, p, f, d, o)
         /\ p \in Seq(P) /\ f \in Seq(P) /\ (d = NoDecoded \/ d \in Seq(P))
  BY <1>3
<1>4. PICK p, f, d, o :
         /\ r = request(m, p, f, d, o)
         /\ p \in Seq(P) /\ f \in Seq(P) /\ (d = NoDecoded \/ d \in Seq(P))
  BY <1>m
<1>5. /\ r.method = m /\ r.params = p /\ r.form = f /\ r.decoded = d
      /\ DOMAIN r = {"method", "path", "params", "form", "decoded", "role", "headers",
                     "build", "at"}
  BY <1>4
<1> QED
  BY <1>4, <1>5 DEF IsRequest

LEMMA RequestsAre ==
  ASSUME NEW r \in Requests
  PROVE  IsRequest(r, WireKeys, WireWords)
         /\ DOMAIN r = {"method", "path", "params", "form", "decoded", "role", "headers",
                        "build", "at"}
<1> DEFINE with(q) == \E id \in {"idA", "idB"}, w \in {"x", "y"} : q \in RequestsWith(id, w)
<1>1. with(r) \/ \E q, h : with(q) /\ r = [q EXCEPT !.headers = h]
  <2> DEFINE described(id, headers) ==
               {[q EXCEPT !.headers = headers] :
                   q \in {p \in RequestsWith(id, "x") : p.method = "GET" /\ p.role = "Current"}}
             sent == UNION {RequestsWith(id, w) : id \in {"idA", "idB"}, w \in {"x", "y"}}
             a == described("idA", {"x-request-time"})
             b == described("idB", {"accept", "x-device-info"})
  <2>1. Requests = (sent \union a) \union b
    BY DEF Requests
  <2>2. ASSUME r \in sent
        PROVE  with(r)
    BY <2>2
  <2>3. ASSUME NEW id \in {"idA", "idB"}, NEW h, r \in described(id, h)
        PROVE  \E q : with(q) /\ r = [q EXCEPT !.headers = h]
    <3>1. PICK q \in RequestsWith(id, "x") : r = [q EXCEPT !.headers = h]
      BY <2>3
    <3>2. with(q)
      BY <3>1
    <3> QED
      BY <3>1, <3>2
  <2> HIDE DEF with, sent
  <2>4. CASE r \in a
    BY <2>3, <2>4, Zenon
  <2>5. CASE r \in b
    BY <2>3, <2>5, Zenon
  <2> HIDE DEF a, b
  <2> QED
    BY <2>1, <2>2, <2>4, <2>5
<1>2. \A q : with(q) =>
         IsRequest(q, WireKeys, WireWords)
         /\ DOMAIN q = {"method", "path", "params", "form", "decoded", "role", "headers",
                        "build", "at"}
  BY RequestsWithAre
<1> HIDE DEF with
<1>3. CASE \E q, h : with(q) /\ r = [q EXCEPT !.headers = h]
  <2>1. PICK q, h : with(q) /\ r = [q EXCEPT !.headers = h]
    BY <1>3
  <2>2. /\ r["method"] = q["method"] /\ r["params"] = q["params"] /\ r["form"] = q["form"]
        /\ r["decoded"] = q["decoded"] /\ DOMAIN r = DOMAIN q
    BY <1>2, <2>1
  <2> QED
    BY <1>2, <2>1, <2>2 DEF IsRequest
<1> QED
  BY <1>1, <1>2, <1>3

(* The requests that a run logs.                                           *)
LoggedAs(r, build, n) == [r EXCEPT !.build = build, !.at = n]

Logged ==
  UNION {UNION {{LoggedAs(r, b, n) : n \in Nat} : b \in {"baseline", "capture"}} :
           r \in Requests}

LEMMA LoggedAre ==
  ASSUME NEW x \in Logged
  PROVE  IsRequest(x, WireKeys, WireWords)
<1>1. PICK r \in Requests, b \in {"baseline", "capture"}, n \in Nat :
         x = LoggedAs(r, b, n)
  BY DEF Logged
<1>2. IsRequest(r, WireKeys, WireWords)
      /\ DOMAIN r = {"method", "path", "params", "form", "decoded", "role", "headers",
                     "build", "at"}
  BY RequestsAre
<1>3. /\ x["method"] = r["method"] /\ x["params"] = r["params"] /\ x["form"] = r["form"]
      /\ x["decoded"] = r["decoded"]
  BY <1>1, <1>2 DEF LoggedAs
<1> QED
  BY <1>2, <1>3 DEF IsRequest

Sent(build) == BuildSnapshot(LogOf(build), ask)

(* The inductive invariant of two snapshots and their comparison.          *)
WireInv ==
  reading = "wire" =>
    /\ recorded \in Seq(Logged)
    /\ answer # None =>
          /\ ask.maxGroups \in Nat
          /\ ("refused" \in DOMAIN answer => ~answer.refused) =>
                answer = [baseline |-> Sent("baseline"), capture |-> Sent("capture"),
                          diff |-> WireDiff(Sent("baseline").records,
                                            Sent("capture").records, ask)]

LEMMA WireStep ==
  ASSUME WireInv, [Next]_vars
  PROVE  WireInv'
<1>1. CASE UNCHANGED vars
  BY <1>1 DEF WireInv, vars, Sent, LogOf, RequestsOf
<1>2. CASE Next
  <2> SUFFICES ASSUME reading' = "wire"
               PROVE  WireInv'
    BY DEF WireInv
  <2>1. reading = "wire" /\ answer = None
    BY <1>2 DEF Next, Record, Call
  <2>2. recorded \in Seq(Logged)
    BY <2>1 DEF WireInv
  <2>3. CASE Record
    <3>1. PICK build \in {"baseline", "capture"}, r \in Requests :
             RecordRequest(build, r) /\ answer' = answer
      BY <2>1, <2>3 DEF Record, RecordItem, RecordFile, RecordRawLine, RecordFrame, RecordView
    <3> DEFINE n == Len(RequestsOf(build)) + 1
               x == LoggedAs(r, build, n)
    <3>2. recorded' = Append(recorded, x)
      BY <3>1, Zenon DEF RecordRequest, LoggedAs
    <3>3. n \in Nat
      <4>1. RequestsOf(build) \in Seq(Logged)
        BY <2>2, OnlyCounts DEF RequestsOf
      <4> QED
        BY <4>1
    <3>4. x \in Logged
      <4> HIDE DEF n
      <4> QED
        BY <3>3 DEF Logged
    <3> HIDE DEF x
    <3>5. recorded' \in Seq(Logged)
      BY <2>2, <3>2, <3>4
    <3> QED
      BY <2>1, <3>1, <3>5 DEF WireInv
  <2>4. CASE Call
    <3>1. PICK a \in WireAsks \union WireMisuses : AskWire(a)
      BY <2>1, <2>4 DEF Call, AskCrash, AskSheet, AskBundle, AskTap, AskElements, AskCapture
    <3>2. recorded' = recorded /\ ask' = a
      BY <3>1 DEF AskWire
    <3>3. a.maxGroups \in Nat
      <4>1. WireAsk.maxGroups = 1 /\ DOMAIN WireAsk = DOMAIN WireAsk \union {"maxGroups"}
        BY DEF WireAsk
      <4>2. a \in WireAsks => a.maxGroups \in {1, 2}
        BY <4>1 DEF WireAsks
      <4>3. a \in WireMisuses => a.maxGroups = 1
        BY <4>1 DEF WireMisuses
      <4> QED
        BY <4>2, <4>3
    <3> DEFINE snapshot(build) == BuildSnapshot(Available(RequestsOf(build), a), a)
               diff == [baseline |-> snapshot("baseline"), capture |-> snapshot("capture"),
                        diff |-> WireDiff(snapshot("baseline").records,
                                          snapshot("capture").records, a)]
    <3>4. answer' = Refusal \/ answer' = diff
      BY <3>1, Zenon DEF AskWire
    <3>5. Refusal.refused = TRUE /\ "refused" \in DOMAIN Refusal
      BY DEF Refusal
    <3>6. Sent("baseline")' = snapshot("baseline") /\ Sent("capture")' = snapshot("capture")
      BY <3>2, Zenon DEF Sent, LogOf, RequestsOf
    <3> HIDE DEF Refusal
    <3> QED
      BY <2>2, <3>2, <3>3, <3>4, <3>5, <3>6, Zenon DEF WireInv
  <2> QED
    BY <1>2, <2>3, <2>4 DEF Next
<1> QED
  BY <1>1, <1>2

LEMMA LogsAre ==
  ASSUME recorded \in Seq(Logged), NEW build
  PROVE  LogOf(build) \in Seq(Logged)
<1>1. RequestsOf(build) \in Seq(Logged)
  BY OnlyCounts DEF RequestsOf
<1> QED
  BY <1>1 DEF LogOf, Available

LEMMA WireInvRedacts ==
  ASSUME WireInv
  PROVE  SnapshotIsRedacted
<1> SUFFICES ASSUME Accepted("wire"), NEW build \in {"baseline", "capture"}
             PROVE  RedactsLog(LogOf(build), ask, answer[build].records)
  BY DEF SnapshotIsRedacted
<1>1. /\ recorded \in Seq(Logged)
      /\ answer = [baseline |-> Sent("baseline"), capture |-> Sent("capture"),
                   diff |-> WireDiff(Sent("baseline").records, Sent("capture").records, ask)]
  BY DEF WireInv, Accepted, Answered
<1>2. answer[build] = Sent(build)
  BY <1>1
<1>3. LogOf(build) \in Seq(Logged)
  BY <1>1, LogsAre
<1>4. \A r \in Logged : IsRequest(r, WireKeys, WireWords)
  BY LoggedAre
<1>5. RedactsLog(LogOf(build), ask, BuildSnapshot(LogOf(build), ask).records)
  BY <1>3, <1>4, SnapshotsAreRedacted
<1> QED
  BY <1>2, <1>5, Zenon DEF Sent

-----------------------------------------------------------------------------
(* Comparisons.                                                            *)

(* How a comparison sees a class of values.                                *)
Look(c) == IF c = "*" THEN <<"*", 0>> ELSE IF c = "" THEN Plain("")
           ELSE IF c = "<r>" THEN Redacted ELSE Plain(c)

(* Classes look alike only if they are one.                                *)
LEMMA LookIs ==
  ASSUME NEW c, NEW d
  PROVE  Look(c) = Look(d) <=> c = d
<1>1. /\ Look("*")[1] = "*" /\ Look("")[1] = "plain" /\ Look("")[2] = ""
      /\ Look("<r>")[1] = "redacted"
  BY DEF Look, Plain, Redacted
<1>2. ASSUME NEW x, x # "*", x # "", x # "<r>"
      PROVE  Look(x)[1] = "plain" /\ Look(x)[2] = x
  <2>1. Look(x) = Plain(x)
    BY <1>2, Zenon DEF Look
  <2> QED
    BY <2>1, ShownIs
<1>3. ASSUME Look(c) = Look(d)
      PROVE  c = d
  <2>1. Look(c)[1] = Look(d)[1] /\ Look(c)[2] = Look(d)[2]
    BY <1>3
  <2>2. CASE c \in {"*", "", "<r>"} /\ d \in {"*", "", "<r>"}
    BY <1>1, <2>1, <2>2
  <2>3. CASE c \in {"*", "", "<r>"} /\ d \notin {"*", "", "<r>"}
    <3>1. Look(d)[1] = "plain" /\ Look(d)[2] = d
      BY <1>2, <2>3
    <3> QED
      BY <1>1, <2>1, <2>3, <3>1
  <2>4. CASE c \notin {"*", "", "<r>"} /\ d \in {"*", "", "<r>"}
    <3>1. Look(c)[1] = "plain" /\ Look(c)[2] = c
      BY <1>2, <2>4
    <3> QED
      BY <1>1, <2>1, <2>4, <3>1
  <2>5. CASE c \notin {"*", "", "<r>"} /\ d \notin {"*", "", "<r>"}
    <3>1. Look(c)[2] = c /\ Look(d)[2] = d
      BY <1>2, <2>5
    <3> QED
      BY <2>1, <3>1
  <2> QED
    BY <2>2, <2>3, <2>4, <2>5
<1> QED
  BY <1>3

(* A redacted value is compared as its class.                              *)
LEMMA NormIs ==
  ASSUME NEW seen, NEW key, NEW value, value # "*", value # "<r>",
         key \in UidKeys /\ value # "" => value \in Range(seen)
  PROVE  NormValue(key, Scrub(seen, key, value)) = Look(ClassOf(key, value, Range(seen)))
<1> DEFINE shown == Scrub(seen, key, value)
           class == ClassOf(key, value, Range(seen))
<1>1. CASE key \in Volatile
  <2>1. class = "*"
    BY <1>1, Zenon DEF ClassOf
  <2> QED
    BY <1>1, <2>1, Zenon DEF NormValue, Look
<1>2. CASE key \notin Volatile /\ value = ""
  <2>1. class = ""
    BY <1>2, Zenon DEF ClassOf
  <2>2. shown = Plain("")
    BY <1>2, Zenon DEF Scrub
  <2>3. Look("") = Plain("")
    BY DEF Look
  <2> QED
    BY <1>2, <2>1, <2>2, <2>3, Zenon DEF NormValue
<1>3. CASE /\ key \notin Volatile /\ value # ""
           /\ \/ key \in UidKeys \union SecretKeys \union Sensitive
              \/ LengthOf(value) >= MinEchoLength /\ value \in Range(seen)
  <2>1. class = "<r>"
    BY <1>3, Zenon DEF ClassOf
  <2>2. Look("<r>") = Redacted
    BY DEF Look
  <2>3. shown # Plain("") /\ (key \in Sensitive \/ shown[1] # "plain")
    <3>1. \A v \in Range(seen) : AliasOf(seen, v)[1] = "alias"
      BY ShownIs, Zenon DEF AliasOf
    <3>2. CASE key \in UidKeys
      <4>1. shown = AliasOf(seen, value)
        BY <1>3, <3>2, Zenon DEF Scrub
      <4>2. shown[1] = "alias"
        BY <1>3, <3>1, <3>2, <4>1
      <4> HIDE DEF shown
      <4> QED
        BY <4>2, ShownIs
    <3>3. CASE key \notin UidKeys /\ key \in SecretKeys
      <4>1. shown = Redacted
        BY <1>3, <3>3, Zenon DEF Scrub
      <4>2. shown[1] = "redacted"
        BY <4>1, ShownIs
      <4> HIDE DEF shown
      <4> QED
        BY <4>2, ShownIs
    <3>4. CASE /\ key \notin UidKeys /\ key \notin SecretKeys
               /\ LengthOf(value) >= MinEchoLength /\ value \in Range(seen)
      <4>1. shown = AliasOf(seen, value)
        BY <1>3, <3>4, Zenon DEF Scrub
      <4>2. shown[1] = "alias"
        BY <3>1, <3>4, <4>1
      <4> HIDE DEF shown
      <4> QED
        BY <4>2, ShownIs
    <3>5. CASE /\ key \notin UidKeys /\ key \notin SecretKeys
               /\ ~(LengthOf(value) >= MinEchoLength /\ value \in Range(seen))
      <4>1. shown = Plain(value)
        BY <1>3, <3>5, Zenon DEF Scrub
      <4>2. shown[2] = value /\ Plain("")[2] = ""
        BY <4>1, ShownIs
      <4>3. key \in Sensitive
        BY <1>3, <3>5
      <4> HIDE DEF shown
      <4> QED
        BY <1>3, <4>2, <4>3
    <3> QED
      BY <3>2, <3>3, <3>4, <3>5
  <2>4. NormValue(key, shown) = Redacted
    <3> HIDE DEF shown
    <3> QED
      BY <1>3, <2>3, Zenon DEF NormValue
  <2> QED
    BY <2>1, <2>2, <2>4
<1>4. CASE /\ key \notin Volatile /\ value # ""
           /\ ~(\/ key \in UidKeys \union SecretKeys \union Sensitive
                \/ LengthOf(value) >= MinEchoLength /\ value \in Range(seen))
  <2>1. class = value
    BY <1>4, Zenon DEF ClassOf
  <2>2. Look(value) = Plain(value)
    BY <1>4, Zenon DEF Look
  <2>3. key \notin UidKeys /\ key \notin SecretKeys /\ key \notin Sensitive
    BY <1>4
  <2>4. shown = Plain(value)
    BY <1>4, <2>3, Zenon DEF Scrub
  <2>5. shown # Plain("") /\ shown[1] = "plain"
    <3>1. shown[1] = "plain" /\ shown[2] = value /\ Plain("")[2] = ""
      BY <2>4, ShownIs
    <3> HIDE DEF shown
    <3> QED
      BY <1>4, <3>1
  <2>6. NormValue(key, shown) = shown
    <3> HIDE DEF shown
    <3> QED
      BY <1>4, <2>3, <2>5, Zenon DEF NormValue
  <2> QED
    BY <2>1, <2>2, <2>4, <2>6
<1> QED
  BY <1>1, <1>2, <1>3, <1>4

-----------------------------------------------------------------------------
(* Pairs.                                                                  *)

(* One sequence of pairs is another's as a comparison sees it.             *)
Mirrors(s, t) ==
  /\ DOMAIN s = DOMAIN t
  /\ s = [i \in DOMAIN s |-> s[i]] /\ t = [i \in DOMAIN t |-> t[i]]
  /\ \A i \in DOMAIN t : \E k, c : s[i] = <<k, Look(c)>> /\ t[i] = <<k, c>>

Knows(seen, pairs) ==
  \A p \in Range(pairs) : p[1] \in UidKeys /\ p[2] # "" => p[2] \in Range(seen)

LEMMA PairsMirror ==
  ASSUME NEW K, NEW W, "*" \notin W, "<r>" \notin W, NEW seen, NEW pairs,
         ArePairs(pairs, K, W), Knows(seen, pairs)
  PROVE  Mirrors(NormPairs(Scrubbed(seen, pairs)), Classes(pairs, Range(seen)))
<1> DEFINE s == NormPairs(Scrubbed(seen, pairs))
           t == Classes(pairs, Range(seen))
           c(i) == ClassOf(pairs[i][1], pairs[i][2], Range(seen))
<1>1. DOMAIN Scrubbed(seen, pairs) = DOMAIN pairs
      /\ \A i \in DOMAIN pairs : Scrubbed(seen, pairs)[i] =
            <<pairs[i][1], Scrub(seen, pairs[i][1], pairs[i][2])>>
  BY DEF Scrubbed
<1>2. DOMAIN s = DOMAIN pairs /\ s = [i \in DOMAIN s |-> s[i]]
      /\ \A i \in DOMAIN pairs : s[i] = <<Scrubbed(seen, pairs)[i][1],
              NormValue(Scrubbed(seen, pairs)[i][1], Scrubbed(seen, pairs)[i][2])>>
  BY <1>1 DEF NormPairs
<1>3. DOMAIN t = DOMAIN pairs /\ t = [i \in DOMAIN t |-> t[i]]
      /\ \A i \in DOMAIN pairs : t[i] = <<pairs[i][1], c(i)>>
  BY DEF Classes
<1>4. \A i \in DOMAIN pairs : pairs[i][2] \in W /\ pairs[i] \in Range(pairs)
  BY DEF ArePairs, Range
<1> HIDE DEF s, t, c
<1>5. ASSUME NEW i \in DOMAIN pairs
      PROVE  s[i] = <<pairs[i][1], Look(c(i))>>
  <2> DEFINE k == pairs[i][1]
             v == pairs[i][2]
  <2>1. v # "*" /\ v # "<r>"
    BY <1>4
  <2>2. k \in UidKeys /\ v # "" => v \in Range(seen)
    BY <1>4 DEF Knows
  <2>3. Scrubbed(seen, pairs)[i][1] = k /\ Scrubbed(seen, pairs)[i][2] = Scrub(seen, k, v)
    <3>1. Scrubbed(seen, pairs)[i] = <<k, Scrub(seen, k, v)>>
      BY <1>1
    <3>2. <<k, Scrub(seen, k, v)>>[1] = k /\ <<k, Scrub(seen, k, v)>>[2] = Scrub(seen, k, v)
      OBVIOUS
    <3> QED
      BY <3>1, <3>2, Zenon
  <2>4. s[i] = <<k, NormValue(k, Scrub(seen, k, v))>>
    BY <1>2, <2>3, Zenon
  <2>5. c(i) = ClassOf(k, v, Range(seen))
    BY DEF c
  <2> HIDE DEF k, v
  <2>6. NormValue(k, Scrub(seen, k, v)) = Look(ClassOf(k, v, Range(seen)))
    BY <2>1, <2>2, NormIs
  <2> QED
    BY <2>4, <2>5, <2>6, Zenon DEF k
<1>6. \A i \in DOMAIN t : \E k, d : s[i] = <<k, Look(d)>> /\ t[i] = <<k, d>>
  <2> SUFFICES ASSUME NEW i \in DOMAIN t
               PROVE  \E k, d : s[i] = <<k, Look(d)>> /\ t[i] = <<k, d>>
    OBVIOUS
  <2>1. i \in DOMAIN pairs
    BY <1>3
  <2>2. s[i] = <<pairs[i][1], Look(c(i))>> /\ t[i] = <<pairs[i][1], c(i)>>
    BY <1>3, <1>5, <2>1, Zenon
  <2> QED
    BY <2>2, Zenon
<1>7. Mirrors(s, t)
  BY <1>2, <1>3, <1>6, Zenon DEF Mirrors
<1> QED
  BY <1>7 DEF s, t

(* Two sequences are equal, in their order or whatever it is, or have the  *)
(* same discriminators, just when what they mirror is and has.             *)
LEMMA MirrorsAgree ==
  ASSUME NEW s, NEW t, NEW u, NEW v, Mirrors(s, t), Mirrors(u, v)
  PROVE  \A i \in DOMAIN s : \A j \in DOMAIN u : s[i] = u[j] <=> t[i] = v[j]
<1> SUFFICES ASSUME NEW i \in DOMAIN s, NEW j \in DOMAIN u
             PROVE  s[i] = u[j] <=> t[i] = v[j]
  OBVIOUS
<1>1. PICK k, c : s[i] = <<k, Look(c)>> /\ t[i] = <<k, c>>
  BY DEF Mirrors
<1>2. PICK l, d : u[j] = <<l, Look(d)>> /\ v[j] = <<l, d>>
  BY DEF Mirrors
<1>3. Look(c) = Look(d) <=> c = d
  BY LookIs
<1>4. <<k, Look(c)>> = <<l, Look(d)>> <=> k = l /\ Look(c) = Look(d)
  OBVIOUS
<1>5. <<k, c>> = <<l, d>> <=> k = l /\ c = d
  OBVIOUS
<1> QED
  BY <1>1, <1>2, <1>3, <1>4, <1>5, Zenon

(* What two sequences hold alike, in either of which alike is the same.    *)
Alike(s, t, u, v) ==
  /\ DOMAIN s = DOMAIN t /\ DOMAIN u = DOMAIN v
  /\ \A i \in DOMAIN s : \A j \in DOMAIN u : s[i] = u[j] <=> t[i] = v[j]
  /\ \A i, j \in DOMAIN s : s[i] = s[j] <=> t[i] = t[j]
  /\ \A i, j \in DOMAIN u : u[i] = u[j] <=> v[i] = v[j]

LEMMA AlikeSorts ==
  ASSUME NEW s, NEW t, NEW u, NEW v, Alike(s, t, u, v), SortedPairs(s) = SortedPairs(u)
  PROVE  SortedPairs(t) = SortedPairs(v)
<1>1. /\ DOMAIN SortedPairs(s) = Range(s) /\ DOMAIN SortedPairs(u) = Range(u)
      /\ DOMAIN SortedPairs(t) = Range(t) /\ DOMAIN SortedPairs(v) = Range(v)
      /\ SortedPairs(t) = [p \in Range(t) |-> SortedPairs(t)[p]]
      /\ SortedPairs(v) = [p \in Range(v) |-> SortedPairs(v)[p]]
  BY DEF SortedPairs
<1>2. Range(s) = Range(u)
  BY <1>1
<1>3. \A i \in DOMAIN s : \E j \in DOMAIN u : s[i] = u[j]
  BY <1>2 DEF Range
<1>4. \A j \in DOMAIN u : \E i \in DOMAIN s : s[i] = u[j]
  BY <1>2 DEF Range
<1>5. Range(t) = Range(v)
  <2>1. \A x \in Range(t) : x \in Range(v)
    BY <1>3 DEF Alike, Range
  <2>2. \A x \in Range(v) : x \in Range(t)
    BY <1>4 DEF Alike, Range
  <2> QED
    BY <2>1, <2>2
<1>6. ASSUME NEW x \in Range(t)
      PROVE  SortedPairs(t)[x] = SortedPairs(v)[x]
  <2>1. PICK i \in DOMAIN s : x = t[i]
    BY DEF Range, Alike
  <2>2. PICK j \in DOMAIN u : s[i] = u[j]
    BY <1>3
  <2>3. x = v[j]
    BY <2>1, <2>2 DEF Alike
  <2>4. {k \in DOMAIN t : t[k] = x} = {k \in DOMAIN s : s[k] = s[i]}
    BY <2>1 DEF Alike
  <2>5. {k \in DOMAIN v : v[k] = x} = {k \in DOMAIN u : u[k] = u[j]}
    BY <2>3 DEF Alike
  <2>6. /\ SortedPairs(t)[x] = Cardinality({k \in DOMAIN t : t[k] = x})
        /\ SortedPairs(v)[x] = Cardinality({k \in DOMAIN v : v[k] = x})
    BY <1>5 DEF SortedPairs
  <2>7. /\ SortedPairs(s)[s[i]] = Cardinality({k \in DOMAIN s : s[k] = s[i]})
        /\ SortedPairs(u)[u[j]] = Cardinality({k \in DOMAIN u : u[k] = u[j]})
    BY DEF SortedPairs, Range
  <2> QED
    BY <2>2, <2>4, <2>5, <2>6, <2>7, Zenon
<1> QED
  BY <1>1, <1>5, <1>6, Zenon

Marked(s, D) == {p \in Range(s) : p[1] \in D}

LEMMA AlikeMarks ==
  ASSUME NEW s, NEW t, NEW u, NEW v, NEW D, Alike(s, t, u, v),
         \A i \in DOMAIN s : s[i][1] = t[i][1], \A i \in DOMAIN u : u[i][1] = v[i][1],
         Marked(s, D) = Marked(u, D)
  PROVE  Marked(t, D) = Marked(v, D)
<1>1. ASSUME NEW x \in Marked(t, D)
      PROVE  x \in Marked(v, D)
  <2>1. PICK i \in DOMAIN s : x = t[i] /\ s[i][1] \in D
    BY DEF Marked, Range, Alike
  <2>2. s[i] \in Marked(u, D)
    BY <2>1 DEF Marked, Range
  <2>3. PICK j \in DOMAIN u : s[i] = u[j]
    BY <2>2 DEF Marked, Range
  <2>4. x = v[j] /\ x[1] \in D /\ j \in DOMAIN v
    BY <2>1, <2>3 DEF Alike
  <2> QED
    BY <2>4 DEF Marked, Range
<1>2. ASSUME NEW x \in Marked(v, D)
      PROVE  x \in Marked(t, D)
  <2>1. PICK j \in DOMAIN u : x = v[j] /\ u[j][1] \in D
    BY DEF Marked, Range, Alike
  <2>2. u[j] \in Marked(s, D)
    BY <2>1 DEF Marked, Range
  <2>3. PICK i \in DOMAIN s : s[i] = u[j]
    BY <2>2 DEF Marked, Range
  <2>4. x = t[i] /\ x[1] \in D /\ i \in DOMAIN t
    BY <2>1, <2>3 DEF Alike
  <2> QED
    BY <2>4 DEF Marked, Range
<1> QED
  BY <1>1, <1>2

LEMMA MirrorsSort ==
  ASSUME NEW s, NEW t, NEW u, NEW v, Mirrors(s, t), Mirrors(u, v)
  PROVE  /\ SortedPairs(s) = SortedPairs(u) <=> SortedPairs(t) = SortedPairs(v)
         /\ \A D : Marked(s, D) = Marked(u, D) <=> Marked(t, D) = Marked(v, D)
<1>1. Alike(s, t, u, v)
  <2>1. \A i \in DOMAIN s : \A j \in DOMAIN u : s[i] = u[j] <=> t[i] = v[j]
    BY MirrorsAgree
  <2>2. \A i \in DOMAIN s : \A j \in DOMAIN s : s[i] = s[j] <=> t[i] = t[j]
    BY MirrorsAgree
  <2>3. \A i \in DOMAIN u : \A j \in DOMAIN u : u[i] = u[j] <=> v[i] = v[j]
    BY MirrorsAgree
  <2>4. DOMAIN s = DOMAIN t /\ DOMAIN u = DOMAIN v
    BY DEF Mirrors
  <2> QED
    BY <2>1, <2>2, <2>3, <2>4 DEF Alike
<1>2. Alike(t, s, v, u)
  BY <1>1 DEF Alike
<1>3. /\ \A i \in DOMAIN s : s[i][1] = t[i][1]
      /\ \A i \in DOMAIN u : u[i][1] = v[i][1]
      /\ DOMAIN s = DOMAIN t /\ DOMAIN u = DOMAIN v
  BY DEF Mirrors
<1>4. \A D : Marked(s, D) = Marked(u, D) <=> Marked(t, D) = Marked(v, D)
  BY <1>1, <1>2, <1>3, AlikeMarks
<1> QED
  BY <1>1, <1>2, <1>4, AlikeSorts

LEMMA MirrorsEqual ==
  ASSUME NEW s, NEW t, NEW u, NEW v, Mirrors(s, t), Mirrors(u, v)
  PROVE  s = u <=> t = v
<1>1. \A i \in DOMAIN s : \A j \in DOMAIN u : s[i] = u[j] <=> t[i] = v[j]
  BY MirrorsAgree
<1>2. /\ DOMAIN s = DOMAIN t /\ DOMAIN u = DOMAIN v
      /\ s = [i \in DOMAIN s |-> s[i]] /\ t = [i \in DOMAIN t |-> t[i]]
      /\ u = [i \in DOMAIN u |-> u[i]] /\ v = [i \in DOMAIN v |-> v[i]]
  BY DEF Mirrors
<1>3. ASSUME s = u
      PROVE  t = v
  <2>1. DOMAIN t = DOMAIN v /\ \A i \in DOMAIN t : t[i] = v[i]
    BY <1>1, <1>2, <1>3
  <2> QED
    BY <1>2, <2>1, Zenon
<1>4. ASSUME t = v
      PROVE  s = u
  <2>1. DOMAIN s = DOMAIN u /\ \A i \in DOMAIN s : s[i] = u[i]
    BY <1>1, <1>2, <1>4
  <2> QED
    BY <1>2, <2>1, Zenon
<1> QED
  BY <1>3, <1>4

(* A request as its snapshot's comparison sees it.                         *)
Seen(seen, r, roles) ==
  IF roles THEN FromCapture(ProjectRecord(seen, r))
           ELSE [FromCapture(ProjectRecord(seen, r)) EXCEPT !.role = NoRole]

KnowsRequest(seen, r) == Knows(seen, r.params) /\ Knows(seen, FieldsOf(r))

LEMMA SeenIs ==
  ASSUME NEW seen, NEW r, NEW roles \in BOOLEAN
  PROVE  LET q == NormPairs(Scrubbed(seen, r.params))
             f == NormPairs(Scrubbed(seen, FieldsOf(r)))
         IN  Seen(seen, r, roles) =
               [method |-> r.method, path |-> r.path, encrypted |-> Encrypted(r),
                query |-> IF r.method = "POST" THEN <<>> ELSE q,
                queried |-> SortedPairs(q),
                device |-> r.headers \intersect DeviceHeaders # {},
                fields |-> SortedPairs(f), role |-> IF roles THEN RoleName(r.role) ELSE NoRole]
<1> DEFINE q == NormPairs(Scrubbed(seen, r.params))
           f == NormPairs(Scrubbed(seen, FieldsOf(r)))
           p == ProjectRecord(seen, r)
<1>1. /\ p.method = r.method /\ p.path = r.path /\ p.encrypted = Encrypted(r)
      /\ p.query = Scrubbed(seen, r.params) /\ p.fields = Scrubbed(seen, FieldsOf(r))
      /\ p.role = r.role /\ p.headers = r.headers
  BY DEF ProjectRecord
<1> HIDE DEF p
<1>2. FromCapture(p) =
        [method |-> r.method, path |-> r.path, encrypted |-> Encrypted(r),
         query |-> IF r.method = "POST" THEN <<>> ELSE q,
         queried |-> SortedPairs(q), device |-> r.headers \intersect DeviceHeaders # {},
         fields |-> SortedPairs(f), role |-> RoleName(r.role)]
  BY <1>1, Zenon DEF FromCapture
<1> DEFINE g == SortedPairs(f)
           h == SortedPairs(q)
           x == IF r.method = "POST" THEN <<>> ELSE q
           e == Encrypted(r)
           o == RoleName(r.role)
           d == r.headers \intersect DeviceHeaders # {}
<1> HIDE DEF g, h, x, e, o, d
<1>3. FromCapture(p) = [method |-> r.method, path |-> r.path, encrypted |-> e,
                        query |-> x, queried |-> h, device |-> d, fields |-> g, role |-> o]
  BY <1>2 DEF g, h, x, e, o, d
<1>4. Seen(seen, r, roles) =
        [method |-> r.method, path |-> r.path, encrypted |-> e,
         query |-> x, queried |-> h, device |-> d, fields |-> g, role |-> IF roles THEN o ELSE NoRole]
  <2>1. CASE roles
    BY <1>3, <2>1, Zenon DEF Seen, p
  <2>2. CASE ~roles
    <3>1. Seen(seen, r, roles) = [FromCapture(p) EXCEPT !.role = NoRole]
      BY <2>2, Zenon DEF Seen, p
    <3>2. Seen(seen, r, roles) =
            [method |-> r.method, path |-> r.path, encrypted |-> e,
             query |-> x, queried |-> h, device |-> d, fields |-> g, role |-> NoRole]
      BY <1>3, <3>1
    <3> QED
      BY <2>2, <3>2, Zenon
  <2> QED
    BY <2>1, <2>2
<1> QED
  BY <1>4, Zenon DEF g, h, x, e, o, d

(* Two requests look alike to the comparison just when they mean the same, *)
(* and are of one group just when they are of one endpoint.                *)
Agree(seen, r, other, q, roles) ==
  /\ Seen(seen, r, roles) = Seen(other, q, roles)
        <=> Meaning(r, Range(seen), roles) = Meaning(q, Range(other), roles)
  /\ GroupKey(Seen(seen, r, roles)) = GroupKey(Seen(other, q, roles))
        <=> Endpoint(Meaning(r, Range(seen), roles)) = Endpoint(Meaning(q, Range(other), roles))

LEMMA RequestsAgree ==
  ASSUME NEW K, NEW W, "*" \notin W, "<r>" \notin W, NEW roles \in BOOLEAN,
         NEW seen, NEW r, IsRequest(r, K, W), KnowsRequest(seen, r),
         NEW other, NEW q, IsRequest(q, K, W), KnowsRequest(other, q)
  PROVE  Agree(seen, r, other, q, roles)
<1> DEFINE s  == NormPairs(Scrubbed(seen, r.params))
           t  == Classes(r.params, Range(seen))
           u  == NormPairs(Scrubbed(other, q.params))
           v  == Classes(q.params, Range(other))
           fs == NormPairs(Scrubbed(seen, FieldsOf(r)))
           ft == Classes(FieldsOf(r), Range(seen))
           fu == NormPairs(Scrubbed(other, FieldsOf(q)))
           fv == Classes(FieldsOf(q), Range(other))
           device(x) == x.headers \intersect DeviceHeaders # {}
           role(x) == IF roles THEN RoleName(x.role) ELSE NoRole
           a == Seen(seen, r, roles)
           b == Seen(other, q, roles)
           m == Meaning(r, Range(seen), roles)
           n == Meaning(q, Range(other), roles)
<1>1. /\ ArePairs(r.params, K, W) /\ ArePairs(FieldsOf(r), K, W)
      /\ ArePairs(q.params, K, W) /\ ArePairs(FieldsOf(q), K, W)
  BY FieldsAre DEF IsRequest, ArePairs
<1>2. Mirrors(s, t) /\ Mirrors(u, v) /\ Mirrors(fs, ft) /\ Mirrors(fu, fv)
  BY <1>1, PairsMirror DEF KnowsRequest
<1>3. /\ a = [method |-> r.method, path |-> r.path, encrypted |-> Encrypted(r),
              query |-> IF r.method = "POST" THEN <<>> ELSE s,
              queried |-> SortedPairs(s), device |-> device(r), fields |-> SortedPairs(fs),
              role |-> role(r)]
      /\ b = [method |-> q.method, path |-> q.path, encrypted |-> Encrypted(q),
              query |-> IF q.method = "POST" THEN <<>> ELSE u,
              queried |-> SortedPairs(u), device |-> device(q), fields |-> SortedPairs(fu),
              role |-> role(q)]
  BY SeenIs, Zenon
<1>4. /\ m = <<r.method, r.path, Encrypted(r),
               IF r.method = "GET" THEN t ELSE SortedPairs(t), SortedPairs(ft), role(r),
               device(r)>>
      /\ n = <<q.method, q.path, Encrypted(q),
               IF q.method = "GET" THEN v ELSE SortedPairs(v), SortedPairs(fv), role(q),
               device(q)>>
  BY Zenon DEF Meaning
<1>5. r.method \in {"GET", "POST"} /\ q.method \in {"GET", "POST"}
  BY DEF IsRequest
<1> HIDE DEF s, t, u, v, fs, ft, fu, fv, role, device, a, b, m, n
<1>6. /\ s = u <=> t = v
      /\ SortedPairs(s) = SortedPairs(u) <=> SortedPairs(t) = SortedPairs(v)
      /\ SortedPairs(fs) = SortedPairs(fu) <=> SortedPairs(ft) = SortedPairs(fv)
      /\ Marked(fs, Discriminators) = Marked(fu, Discriminators)
            <=> Marked(ft, Discriminators) = Marked(fv, Discriminators)
  BY <1>2, MirrorsSort, MirrorsEqual
<1> DEFINE ss == SortedPairs(s)
           st == SortedPairs(t)
           su == SortedPairs(u)
           sv == SortedPairs(v)
           gs == SortedPairs(fs)
           gt == SortedPairs(ft)
           gu == SortedPairs(fu)
           gv == SortedPairs(fv)
           er == Encrypted(r)
           eq == Encrypted(q)
           or == role(r)
           oq == role(q)
           dr == device(r)
           dq == device(q)
<1>d. /\ DOMAIN gs = Range(fs) /\ DOMAIN gt = Range(ft)
      /\ DOMAIN gu = Range(fu) /\ DOMAIN gv = Range(fv)
  BY DEF SortedPairs
<1>7. /\ a.fields = gs /\ b.fields = gu /\ a.method = r.method /\ b.method = q.method
      /\ a.path = r.path /\ b.path = q.path
      /\ m[5] = gt /\ n[5] = gv /\ m[1] = r.method /\ n[1] = q.method
      /\ m[2] = r.path /\ n[2] = q.path
  <2> HIDE DEF gs, gt, gu, gv
  <2> QED
    BY <1>3, <1>4 DEF gs, gt, gu, gv
<1> HIDE DEF ss, st, su, sv, gs, gt, gu, gv, er, eq, or, oq, dr, dq
<1>8. a = b <=> m = n
  <2>1. a = b <=> /\ r.method = q.method /\ r.path = q.path /\ er = eq /\ or = oq /\ dr = dq
                  /\ gs = gu /\ ss = su
                  /\ (IF r.method = "POST" THEN <<>> ELSE s)
                        = (IF q.method = "POST" THEN <<>> ELSE u)
    <3> DEFINE x == IF r.method = "POST" THEN <<>> ELSE s
               y == IF q.method = "POST" THEN <<>> ELSE u
    <3>1. /\ a = [method |-> r.method, path |-> r.path, encrypted |-> er,
                  query |-> x, queried |-> ss, device |-> dr, fields |-> gs, role |-> or]
          /\ b = [method |-> q.method, path |-> q.path, encrypted |-> eq,
                  query |-> y, queried |-> su, device |-> dq, fields |-> gu, role |-> oq]
      BY <1>3, Zenon DEF ss, su, gs, gu, er, eq, or, oq, dr, dq
    <3> HIDE DEF x, y
    <3>2. a = b <=> /\ r.method = q.method /\ r.path = q.path /\ er = eq /\ or = oq /\ dr = dq
                    /\ gs = gu /\ ss = su /\ x = y
      BY <3>1
    <3> QED
      BY <3>2 DEF x, y
  <2>2. m = n <=> /\ r.method = q.method /\ r.path = q.path /\ er = eq /\ or = oq /\ dr = dq
                  /\ gt = gv
                  /\ (IF r.method = "GET" THEN t ELSE st) = (IF q.method = "GET" THEN v ELSE sv)
    <3> DEFINE x == IF r.method = "GET" THEN t ELSE st
               y == IF q.method = "GET" THEN v ELSE sv
    <3>1. /\ m = <<r.method, r.path, er, x, gt, or, dr>>
          /\ n = <<q.method, q.path, eq, y, gv, oq, dq>>
      BY <1>4, Zenon DEF st, sv, gt, gv, er, eq, or, oq, dr, dq
    <3> HIDE DEF x, y
    <3>2. m = n <=> /\ r.method = q.method /\ r.path = q.path /\ er = eq /\ or = oq /\ dr = dq
                    /\ gt = gv /\ x = y
      BY <3>1
    <3> QED
      BY <3>2 DEF x, y
  <2>3. /\ s = u <=> t = v
        /\ ss = su <=> st = sv
        /\ gs = gu <=> gt = gv
        /\ s = u => ss = su
    BY <1>6 DEF ss, su, st, sv, gs, gu, gt, gv
  <2>4. CASE r.method = "GET" /\ q.method = "GET"
    BY <2>1, <2>2, <2>3, <2>4
  <2>5. CASE r.method = "POST" /\ q.method = "POST"
    BY <2>1, <2>2, <2>3, <2>5
  <2>6. CASE r.method # q.method
    BY <2>1, <2>2, <2>6
  <2> QED
    BY <1>5, <2>4, <2>5, <2>6
<1>9. GroupKey(a) = GroupKey(b) <=> Endpoint(m) = Endpoint(n)
  <2>1. /\ GroupKey(a) = <<r.method, r.path, Marked(fs, Discriminators)>>
        /\ GroupKey(b) = <<q.method, q.path, Marked(fu, Discriminators)>>
        /\ Endpoint(m) = <<r.method, r.path, Marked(ft, Discriminators)>>
        /\ Endpoint(n) = <<q.method, q.path, Marked(fv, Discriminators)>>
    BY <1>7, <1>d, Zenon DEF GroupKey, Endpoint, Marked
  <2> DEFINE ka == Marked(fs, Discriminators)
             kb == Marked(fu, Discriminators)
             km == Marked(ft, Discriminators)
             kn == Marked(fv, Discriminators)
  <2>2. ka = kb <=> km = kn
    BY <1>6
  <2> HIDE DEF ka, kb, km, kn
  <2>3. /\ GroupKey(a) = <<r.method, r.path, ka>> /\ GroupKey(b) = <<q.method, q.path, kb>>
        /\ Endpoint(m) = <<r.method, r.path, km>> /\ Endpoint(n) = <<q.method, q.path, kn>>
    BY <2>1 DEF ka, kb, km, kn
  <2> QED
    BY <2>2, <2>3
<1> QED
  BY <1>8, <1>9 DEF Agree, a, b, m, n

-----------------------------------------------------------------------------
(* One side of a comparison: the requests at some places of a log, what    *)
(* they mean and how they are seen, and the sequences of both.             *)
IsMapped(u, I, f) ==
  /\ Len(u) \in Nat /\ DOMAIN u = 1 .. Len(u) /\ u \in Seq(Range(u))
  /\ Range(u) = {f[i] : i \in I}
  /\ \A y : Times(u, y) = Cardinality({i \in I : f[i] = y})

IsSide(I, meant, seen, ms, ps) ==
  IsFiniteSet(I) /\ IsMapped(ms, I, meant) /\ IsMapped(ps, I, seen)

(* What is picked from a sequence and then mapped.                         *)
LEMMA MappedOnly ==
  ASSUME NEW E, NEW s \in Seq(E), NEW L, NEW f, NEW u,
         u = [i \in DOMAIN Only(s, L) |-> f[Only(s, L)[i]]],
         NEW I, I = {i \in DOMAIN s : s[i] \in L},
         NEW h, \A i \in I : h[i] = f[s[i]]
  PROVE  IsMapped(u, I, h)
<1> DEFINE t == Only(s, L)
<1>1. /\ t \in Seq(E) /\ Range(t) = Range(s) \intersect L
      /\ \A M : HowMany(t, M) = HowMany(s, L \intersect M)
  <2>1. t \in Seq(E) /\ Range(t) = Range(s) \intersect L
    BY OnlyCounts
  <2>2. ASSUME NEW M
        PROVE  HowMany(t, M) = HowMany(s, L \intersect M)
    BY OnlyCounts
  <2> QED
    BY <2>1, <2>2
<1>2. u = [i \in DOMAIN t |-> f[t[i]]]
  OBVIOUS
<1> HIDE DEF t
<1>3. DOMAIN u = DOMAIN t /\ DOMAIN t = 1 .. Len(t) /\ Len(t) \in Nat
  BY <1>1, <1>2
<1>4. \A i \in DOMAIN u : u[i] = f[t[i]] /\ u[i] \in Range(u)
  BY <1>2, <1>3 DEF Range
<1>5. u \in Seq(Range(u)) /\ Len(u) \in Nat /\ DOMAIN u = 1 .. Len(u)
  <2> DEFINE U == Range(u)
             N == Len(t)
  <2>1. u = [i \in 1 .. N |-> u[i]] /\ N \in Nat /\ \A i \in 1 .. N : u[i] \in U
    BY <1>2, <1>3, <1>4
  <2> HIDE DEF U, N
  <2>2. u \in Seq(U)
    BY <2>1
  <2>3. Len(u) \in Nat /\ DOMAIN u = 1 .. Len(u)
    BY <2>2
  <2> QED
    BY <2>2, <2>3 DEF U
<1>6. Range(u) = {f[s[i]] : i \in I}
  <2>1. \A y \in Range(u) : \E x \in Range(t) : y = f[x]
    BY <1>3, <1>4 DEF Range
  <2>2. \A x \in Range(t) : f[x] \in Range(u)
    BY <1>3, <1>4 DEF Range
  <2>3. \A x : x \in Range(t) <=> \E i \in I : x = s[i]
    BY <1>1 DEF Range
  <2> QED
    BY <2>1, <2>2, <2>3
<1>7. ASSUME NEW y
      PROVE  Times(u, y) = Cardinality({i \in I : f[s[i]] = y})
  <2> DEFINE M == {x \in Range(s) : f[x] = y}
  <2>1. {i \in DOMAIN u : u[i] = y} = {i \in DOMAIN t : t[i] \in M}
    <3>1. \A i \in DOMAIN t : t[i] \in Range(s)
      BY <1>1 DEF Range
    <3> QED
      BY <1>3, <1>4, <3>1
  <2>2. {i \in I : f[s[i]] = y} = {i \in DOMAIN s : s[i] \in L \intersect M}
    BY DEF Range
  <2>3. HowMany(t, M) = HowMany(s, L \intersect M)
    BY <1>1
  <2> HIDE DEF M
  <2> QED
    BY <2>1, <2>2, <2>3, Zenon DEF HowMany, Times
<1>8. {f[s[i]] : i \in I} = {h[i] : i \in I}
  OBVIOUS
<1>9. \A y : {i \in I : f[s[i]] = y} = {i \in I : h[i] = y}
  OBVIOUS
<1> QED
  BY <1>5, <1>6, <1>7, <1>8, <1>9, Zenon DEF IsMapped

(* A log's requests that are compared: what they mean, of the log, and how *)
(* they are seen, of its snapshot.                                         *)
Places(log, a) ==
  {i \in DOMAIN Kept(log, a) : a.compared # {} => Kept(log, a)[i].path \in a.compared}

Meant(log, a, roles) ==
  [i \in Places(log, a) |-> Meaning(Kept(log, a)[i], Identities(log), roles)]

SeenAt(log, a, roles) ==
  [i \in Places(log, a) |-> Seen(Learned(log, Kept(log, a)), Kept(log, a)[i], roles)]

LEMMA MeaningsSide ==
  ASSUME NEW R, NEW log \in Seq(R), NEW a, NEW roles \in BOOLEAN
  PROVE  IsMapped(Meanings(log, a, roles), Places(log, a), Meant(log, a, roles))
<1> DEFINE kept == Kept(log, a)
           L == {r \in Range(kept) : a.compared # {} => r.path \in a.compared}
           fn == [r \in Range(kept) |-> Meaning(r, Identities(log), roles)]
           ms == Meanings(log, a, roles)
           I  == Places(log, a)
           f  == Meant(log, a, roles)
           t  == Only(kept, L)
<1>1. kept \in Seq(R)
  BY KeptAre
<1>2. /\ ms = [i \in DOMAIN t |-> Meaning(t[i], Identities(log), roles)]
      /\ I = {i \in DOMAIN kept : a.compared # {} => kept[i].path \in a.compared}
      /\ f = [i \in I |-> Meaning(kept[i], Identities(log), roles)]
  BY Zenon DEF Meanings, ParseProjections, Places, Meant
<1> HIDE DEF kept, ms, f, I
<1>3. I = {i \in DOMAIN kept : kept[i] \in L}
  BY <1>2 DEF Range
<1>4. \A i \in DOMAIN t : t[i] \in Range(kept)
  <2> HIDE DEF L
  <2>1. t \in Seq(R) /\ Range(t) = Range(kept) \intersect L
    BY <1>1, OnlyCounts
  <2> HIDE DEF t
  <2> QED
    BY <2>1 DEF Range
<1>5. ms = [i \in DOMAIN t |-> fn[t[i]]]
  <2> HIDE DEF t
  <2> QED
    BY <1>2, <1>4
<1>6. \A i \in I : f[i] = fn[kept[i]]
  BY <1>2, <1>3
<1> HIDE DEF fn, L
<1>7. IsMapped(ms, I, f)
  BY <1>1, <1>3, <1>5, <1>6, MappedOnly
<1> QED
  BY <1>7, Zenon DEF ms, I, f

LEMMA SeenSide ==
  ASSUME NEW R, NEW log \in Seq(R), NEW a, NEW roles \in BOOLEAN
  PROVE  IsMapped(
           Projections(ParseProjections(BuildSnapshot(log, a).records, a.compared), roles),
           Places(log, a), SeenAt(log, a, roles))
<1> DEFINE kept == Kept(log, a)
           seen == Learned(log, kept)
           records == BuildSnapshot(log, a).records
           E == Range(records)
           L == {r \in Range(records) : a.compared # {} => r.path \in a.compared}
           look(q) == IF roles THEN FromCapture(q) ELSE [FromCapture(q) EXCEPT !.role = NoRole]
           fn == [q \in E |-> look(q)]
           ps == Projections(ParseProjections(records, a.compared), roles)
           I  == Places(log, a)
           g  == SeenAt(log, a, roles)
           t  == Only(records, L)
<1>1. kept \in Seq(R)
  BY KeptAre
<1>2. /\ ps = [i \in DOMAIN t |-> look(t[i])]
      /\ I = {i \in DOMAIN kept : a.compared # {} => kept[i].path \in a.compared}
      /\ g = [i \in I |-> look(ProjectRecord(seen, kept[i]))]
      /\ records = [i \in DOMAIN kept |-> ProjectRecord(seen, kept[i])]
  <2>1. ps = [i \in DOMAIN t |-> look(t[i])]
    BY Zenon DEF Projections, ParseProjections
  <2>2. g = [i \in I |-> look(ProjectRecord(seen, kept[i]))]
    BY Zenon DEF SeenAt, Seen
  <2>3. records = [i \in DOMAIN kept |-> ProjectRecord(seen, kept[i])]
    BY DEF BuildSnapshot
  <2> QED
    BY <2>1, <2>2, <2>3, Zenon DEF Places
<1>p. \A i \in DOMAIN kept : ProjectRecord(seen, kept[i]).path = kept[i].path
  BY DEF ProjectRecord
<1> HIDE DEF kept, seen, records, ps, g, I, look
<1>r. /\ DOMAIN records = DOMAIN kept /\ records \in Seq(E)
      /\ \A i \in DOMAIN kept : records[i] = ProjectRecord(seen, kept[i])
  <2>1. DOMAIN kept = 1 .. Len(kept) /\ Len(kept) \in Nat
    BY <1>1
  <2>2. DOMAIN records = DOMAIN kept /\ records = [i \in 1 .. Len(kept) |-> records[i]]
    BY <1>2, <2>1
  <2>3. \A i \in 1 .. Len(kept) : records[i] \in E
    BY <2>1, <2>2 DEF Range
  <2> HIDE DEF E
  <2>4. records \in Seq(E)
    BY <2>1, <2>2, <2>3
  <2> QED
    BY <1>2, <2>2, <2>4
<1>3. I = {i \in DOMAIN records : records[i] \in L}
  BY <1>2, <1>p, <1>r DEF Range
<1>4. \A i \in DOMAIN t : t[i] \in E
  <2> HIDE DEF L
  <2>1. t \in Seq(E)
    BY <1>r, OnlyCounts
  <2> HIDE DEF t, E
  <2> QED
    BY <2>1
<1>5. ps = [i \in DOMAIN t |-> fn[t[i]]]
  <2> HIDE DEF t, E
  <2> QED
    BY <1>2, <1>4
<1>6. \A i \in I : g[i] = fn[records[i]]
  <2>1. \A i \in I : i \in DOMAIN kept /\ records[i] \in E
    BY <1>3, <1>r DEF Range
  <2> HIDE DEF E
  <2> QED
    BY <1>2, <1>r, <2>1
<1> HIDE DEF fn, L
<1>7. IsMapped(ps, I, g)
  <2> HIDE DEF E
  <2> QED
    BY <1>r, <1>3, <1>5, <1>6, MappedOnly
<1> QED
  BY <1>7, Zenon DEF ps, I, g, records

LEMMA SidesAre ==
  ASSUME NEW R, NEW log \in Seq(R), NEW a, NEW roles \in BOOLEAN
  PROVE  IsSide(Places(log, a), Meant(log, a, roles), SeenAt(log, a, roles),
                Meanings(log, a, roles),
                Projections(ParseProjections(BuildSnapshot(log, a).records, a.compared), roles))
<1>1. IsFiniteSet(Places(log, a))
  <2>1. Kept(log, a) \in Seq(R)
    BY KeptAre
  <2>2. DOMAIN Kept(log, a) = 1 .. Len(Kept(log, a)) /\ Len(Kept(log, a)) \in Nat
    BY <2>1
  <2>3. IsFiniteSet(1 .. Len(Kept(log, a)))
    BY <2>2, CountedFrom
  <2> QED
    BY <2>2, <2>3, FS_Subset DEF Places
<1> QED
  BY <1>1, MeaningsSide, SeenSide DEF IsSide

-----------------------------------------------------------------------------
(* Where what two sides mean and how they are seen have the same kernel.   *)
Kernel(I, f, g, J, d, e) ==
  \A i \in I : \A j \in J :
     /\ f[i] = d[j] <=> g[i] = e[j]
     /\ Endpoint(f[i]) = Endpoint(d[j]) <=> GroupKey(g[i]) = GroupKey(e[j])

LEMMA KernelsAre ==
  ASSUME NEW K, NEW W, "*" \notin W, "<r>" \notin W, NEW R, \A r \in R : IsRequest(r, K, W),
         NEW log \in Seq(R), NEW run \in Seq(R), NEW a, NEW roles \in BOOLEAN
  PROVE  Kernel(Places(log, a), Meant(log, a, roles), SeenAt(log, a, roles),
                Places(run, a), Meant(run, a, roles), SeenAt(run, a, roles))
<1> DEFINE kept == Kept(log, a)
           seen == Learned(log, kept)
           past == Kept(run, a)
           other == Learned(run, past)
<1>1. Range(seen) = Identities(log) /\ Range(other) = Identities(run)
  <2> HIDE DEF kept, past
  <2> QED
    BY LearnedIs
<1>2. /\ \A i \in DOMAIN kept : IsRequest(kept[i], K, W) /\ kept[i] \in Range(log)
      /\ \A i \in DOMAIN past : IsRequest(past[i], K, W) /\ past[i] \in Range(run)
  BY KeptAre
<1>3. ASSUME NEW i \in Places(log, a), NEW j \in Places(run, a)
      PROVE  /\ Meant(log, a, roles)[i] = Meaning(kept[i], Range(seen), roles)
             /\ Meant(run, a, roles)[j] = Meaning(past[j], Range(other), roles)
             /\ SeenAt(log, a, roles)[i] = Seen(seen, kept[i], roles)
             /\ SeenAt(run, a, roles)[j] = Seen(other, past[j], roles)
             /\ i \in DOMAIN kept /\ j \in DOMAIN past
  <2>1. i \in DOMAIN kept /\ j \in DOMAIN past
    BY DEF Places
  <2> HIDE DEF kept, past, seen, other
  <2> QED
    BY <1>1, <2>1 DEF Meant, SeenAt, kept, past, seen, other
<1>4. ASSUME NEW i \in DOMAIN kept, NEW j \in DOMAIN past
      PROVE  Agree(seen, kept[i], other, past[j], roles)
  <2> DEFINE r == kept[i]
             q == past[j]
  <2>1. IsRequest(r, K, W) /\ r \in Range(log) /\ IsRequest(q, K, W) /\ q \in Range(run)
    BY <1>2
  <2> HIDE DEF r, q, seen, other, kept, past
  <2>2. KnowsRequest(seen, r)
    <3>1. \A p \in Range(r.params) \union Range(FieldsOf(r)) :
             p[1] \in UidKeys /\ p[2] # "" => p[2] \in Identities(log)
      BY <2>1, IdentitiesAre
    <3> QED
      BY <1>1, <3>1 DEF KnowsRequest, Knows
  <2>3. KnowsRequest(other, q)
    <3>1. \A p \in Range(q.params) \union Range(FieldsOf(q)) :
             p[1] \in UidKeys /\ p[2] # "" => p[2] \in Identities(run)
      BY <2>1, IdentitiesAre
    <3> QED
      BY <1>1, <3>1 DEF KnowsRequest, Knows
  <2>4. Agree(seen, r, other, q, roles)
    BY <2>1, <2>2, <2>3, RequestsAgree
  <2> QED
    BY <2>4 DEF r, q
<1> HIDE DEF kept, past, seen, other
<1>5. ASSUME NEW i \in Places(log, a), NEW j \in Places(run, a)
      PROVE  /\ Meant(log, a, roles)[i] = Meant(run, a, roles)[j]
                   <=> SeenAt(log, a, roles)[i] = SeenAt(run, a, roles)[j]
             /\ Endpoint(Meant(log, a, roles)[i]) = Endpoint(Meant(run, a, roles)[j])
                   <=> GroupKey(SeenAt(log, a, roles)[i]) = GroupKey(SeenAt(run, a, roles)[j])
  <2>1. Agree(seen, kept[i], other, past[j], roles)
    BY <1>3, <1>4
  <2> QED
    BY <1>3, <2>1 DEF Agree
<1> QED
  BY <1>5 DEF Kernel

(* Each meaning matches one way of being seen, on both sides.              *)
Matches(h, ms, ns, ps, qs) ==
  LET X == Range(ms) \union Range(ns)
      Y == Range(ps) \union Range(qs)
  IN  /\ \A x \in X : h[x] \in Y
      /\ \A y \in Y : \E x \in X : h[x] = y
      /\ \A x, z \in X : h[x] = h[z] <=> x = z
      /\ \A x, z \in X : GroupKey(h[x]) = GroupKey(h[z]) <=> Endpoint(x) = Endpoint(z)
      /\ \A x \in X : /\ x \in Range(ms) <=> h[x] \in Range(ps)
                      /\ x \in Range(ns) <=> h[x] \in Range(qs)
                      /\ Times(ps, h[x]) = Times(ms, x)
                      /\ Times(qs, h[x]) = Times(ns, x)

LEMMA SidesMatch ==
  ASSUME NEW I, NEW f, NEW g, NEW J, NEW d, NEW e, NEW ms, NEW ns, NEW ps, NEW qs,
         IsSide(I, f, g, ms, ps), IsSide(J, d, e, ns, qs),
         Kernel(I, f, g, J, d, e), Kernel(J, d, e, I, f, g),
         Kernel(I, f, g, I, f, g), Kernel(J, d, e, J, d, e)
  PROVE  \E h : Matches(h, ms, ns, ps, qs)
<1> DEFINE X == Range(ms) \union Range(ns)
           Y == Range(ps) \union Range(qs)
           Rel == {<<f[i], g[i]>> : i \in I} \union {<<d[j], e[j]>> : j \in J}
           h == [x \in X |-> (CHOOSE r \in Rel : r[1] = x)[2]]
<1>1. /\ Range(ms) = {f[i] : i \in I} /\ Range(ps) = {g[i] : i \in I}
      /\ Range(ns) = {d[j] : j \in J} /\ Range(qs) = {e[j] : j \in J}
  BY DEF IsSide, IsMapped
<1>t. /\ \A y : Times(ms, y) = Cardinality({i \in I : f[i] = y})
      /\ \A y : Times(ps, y) = Cardinality({i \in I : g[i] = y})
      /\ \A y : Times(ns, y) = Cardinality({j \in J : d[j] = y})
      /\ \A y : Times(qs, y) = Cardinality({j \in J : e[j] = y})
  BY DEF IsSide, IsMapped
<1>2. \A r \in Rel : \/ \E i \in I : r[1] = f[i] /\ r[2] = g[i]
                     \/ \E j \in J : r[1] = d[j] /\ r[2] = e[j]
  OBVIOUS
<1>3. \A i \in I : \E r \in Rel : r[1] = f[i] /\ r[2] = g[i]
  <2> SUFFICES ASSUME NEW i \in I
               PROVE  \E r \in Rel : r[1] = f[i] /\ r[2] = g[i]
    OBVIOUS
  <2>1. <<f[i], g[i]>> \in Rel
    OBVIOUS
  <2>2. <<f[i], g[i]>>[1] = f[i] /\ <<f[i], g[i]>>[2] = g[i]
    OBVIOUS
  <2> QED
    BY <2>1, <2>2
<1>4. \A j \in J : \E r \in Rel : r[1] = d[j] /\ r[2] = e[j]
  <2> SUFFICES ASSUME NEW i \in J
               PROVE  \E r \in Rel : r[1] = d[i] /\ r[2] = e[i]
    OBVIOUS
  <2>1. <<d[i], e[i]>> \in Rel
    OBVIOUS
  <2>2. <<d[i], e[i]>>[1] = d[i] /\ <<d[i], e[i]>>[2] = e[i]
    OBVIOUS
  <2> QED
    BY <2>1, <2>2
<1> HIDE DEF Rel
<1>5. \A r, s \in Rel : /\ r[1] = s[1] <=> r[2] = s[2]
                        /\ Endpoint(r[1]) = Endpoint(s[1]) <=> GroupKey(r[2]) = GroupKey(s[2])
  BY <1>2 DEF Kernel
<1>6. \A r \in Rel : r[1] \in X /\ r[2] \in Y
  BY <1>1, <1>2
<1>7. \A x \in X : \E r \in Rel : r[1] = x
  BY <1>1, <1>3, <1>4
<1>8. \A y \in Y : \E r \in Rel : r[2] = y
  BY <1>1, <1>3, <1>4
<1>9. \A r \in Rel : h[r[1]] = r[2]
  <2> SUFFICES ASSUME NEW r \in Rel
               PROVE  h[r[1]] = r[2]
    OBVIOUS
  <2> DEFINE s == CHOOSE s \in Rel : s[1] = r[1]
  <2>1. s \in Rel /\ s[1] = r[1]
    OBVIOUS
  <2>2. h[r[1]] = s[2]
    BY <1>6
  <2> HIDE DEF s, h
  <2> QED
    BY <1>5, <2>1, <2>2
<1> HIDE DEF h
<1>10. \A x \in X : \E r \in Rel : x = r[1] /\ h[x] = r[2]
  BY <1>7, <1>9
<1>11. ASSUME NEW x \in X
       PROVE  /\ x \in Range(ms) <=> h[x] \in Range(ps)
              /\ x \in Range(ns) <=> h[x] \in Range(qs)
              /\ Times(ps, h[x]) = Times(ms, x)
              /\ Times(qs, h[x]) = Times(ns, x)
  <2>1. PICK r \in Rel : x = r[1] /\ h[x] = r[2]
    BY <1>10
  <2>2. \A i \in I : f[i] = x <=> g[i] = h[x]
    BY <1>3, <1>5, <2>1
  <2>3. \A j \in J : d[j] = x <=> e[j] = h[x]
    BY <1>4, <1>5, <2>1
  <2>4. /\ {i \in I : f[i] = x} = {i \in I : g[i] = h[x]}
        /\ {j \in J : d[j] = x} = {j \in J : e[j] = h[x]}
    BY <2>2, <2>3
  <2>5. /\ Times(ps, h[x]) = Times(ms, x)
        /\ Times(qs, h[x]) = Times(ns, x)
    BY <1>t, <2>4, Zenon
  <2>6. x \in Range(ms) <=> h[x] \in Range(ps)
    BY <1>1, <2>2
  <2>7. x \in Range(ns) <=> h[x] \in Range(qs)
    BY <1>1, <2>3
  <2> QED
    BY <2>5, <2>6, <2>7
<1>12. \A x \in X : h[x] \in Y
  BY <1>6, <1>10
<1>13. \A y \in Y : \E x \in X : h[x] = y
  BY <1>6, <1>8, <1>9
<1>14. \A x, z \in X : /\ h[x] = h[z] <=> x = z
                       /\ GroupKey(h[x]) = GroupKey(h[z]) <=> Endpoint(x) = Endpoint(z)
  BY <1>5, <1>10
<1>15. Matches(h, ms, ns, ps, qs)
  BY <1>11, <1>12, <1>13, <1>14 DEF Matches
<1> QED
  BY <1>15

-----------------------------------------------------------------------------
(* What of one side is of a group or an endpoint.                          *)
OfGroup(ps, key) == {p \in Range(ps) : GroupKey(p) = key}
OfEndpoint(ms, end) == {m \in Range(ms) : Endpoint(m) = end}

Repeated(ps, qs, key) == {p \in OfGroup(qs, key) : Times(qs, p) > Max({1, Times(ps, p)})}
More(ms, ns, end) ==
  \E m \in OfEndpoint(ns, end) : Times(ns, m) > 1 /\ Times(ns, m) > Times(ms, m)

LEMMA TimesAre ==
  ASSUME NEW I, NEW u, NEW f, IsFiniteSet(I), IsMapped(u, I, f), NEW y
  PROVE  Times(u, y) \in Nat
<1>1. IsFiniteSet({i \in I : f[i] = y})
  BY FS_Subset
<1>2. Cardinality({i \in I : f[i] = y}) \in Nat
  BY <1>1, FS_CardinalityType
<1> QED
  BY <1>2, Zenon DEF IsMapped

(* A group of the comparison is what its endpoint was sent.                *)
Faithful(ms, ns, ps, qs, end, key) ==
  /\ OfGroup(ps, key) = {} <=> OfEndpoint(ms, end) = {}
  /\ OfGroup(qs, key) = {} <=> OfEndpoint(ns, end) = {}
  /\ OfGroup(ps, key) = OfGroup(qs, key) <=> OfEndpoint(ms, end) = OfEndpoint(ns, end)
  /\ Repeated(ps, qs, key) # {} <=> More(ms, ns, end)

LEMMA GroupsMatch ==
  ASSUME NEW h, NEW ms, NEW ns, NEW ps, NEW qs, Matches(h, ms, ns, ps, qs),
         \A y : Times(ps, y) \in Nat /\ Times(qs, y) \in Nat,
         NEW z \in Range(ms) \union Range(ns)
  PROVE  Faithful(ms, ns, ps, qs, Endpoint(z), GroupKey(h[z]))
<1> DEFINE X == Range(ms) \union Range(ns)
           Y == Range(ps) \union Range(qs)
           end == Endpoint(z)
           key == GroupKey(h[z])
           A == OfEndpoint(ms, end)
           B == OfEndpoint(ns, end)
           C == OfGroup(ps, key)
           D == OfGroup(qs, key)
<1>1. \A x \in X : GroupKey(h[x]) = key <=> Endpoint(x) = end
  BY DEF Matches
<1>2. /\ \A x \in X : h[x] \in Y
      /\ \A y \in Y : \E x \in X : h[x] = y
      /\ \A x, w \in X : h[x] = h[w] <=> x = w
      /\ \A x \in X : /\ x \in Range(ms) <=> h[x] \in Range(ps)
                      /\ x \in Range(ns) <=> h[x] \in Range(qs)
                      /\ Times(ps, h[x]) = Times(ms, x)
                      /\ Times(qs, h[x]) = Times(ns, x)
  BY DEF Matches
<1>3. A \subseteq X /\ B \subseteq X /\ C \subseteq Y /\ D \subseteq Y
  BY DEF OfEndpoint, OfGroup
<1>4. \A x \in X : (x \in A <=> h[x] \in C) /\ (x \in B <=> h[x] \in D)
  <2> HIDE DEF end, key
  <2> QED
    BY <1>1, <1>2 DEF OfEndpoint, OfGroup
<1> HIDE DEF X, Y, end, key, A, B, C, D
<1>5. C = {} <=> A = {}
  BY <1>2, <1>3, <1>4
<1>6. D = {} <=> B = {}
  BY <1>2, <1>3, <1>4
<1>7. C = D <=> A = B
  <2>1. ASSUME A = B
        PROVE  C = D
    <3>1. \A y \in Y : y \in C <=> y \in D
      BY <1>2, <1>4, <2>1
    <3> QED
      BY <1>3, <3>1
  <2>2. ASSUME C = D
        PROVE  A = B
    <3>1. \A x \in X : x \in A <=> x \in B
      BY <1>4, <2>2
    <3> QED
      BY <1>3, <3>1
  <2> QED
    BY <2>1, <2>2
<1>8. ASSUME NEW y
      PROVE  Times(qs, y) > Max({1, Times(ps, y)})
                <=> Times(qs, y) > 1 /\ Times(qs, y) > Times(ps, y)
  <2> DEFINE a == Times(ps, y)
             b == Times(qs, y)
  <2>1. a \in Nat /\ b \in Nat
    OBVIOUS
  <2> HIDE DEF a, b
  <2>2. Max({1, a}) = IF 1 >= a THEN 1 ELSE a
    BY <2>1, MaxOfTwo
  <2>3. b > Max({1, a}) <=> b > 1 /\ b > a
    BY <2>1, <2>2
  <2> QED
    BY <2>3 DEF a, b
<1>9. Repeated(ps, qs, key) # {} <=> More(ms, ns, end)
  <2> DEFINE twice(x) == Times(qs, h[x]) > 1 /\ Times(qs, h[x]) > Times(ps, h[x])
  <2>1. Repeated(ps, qs, key) # {} <=>
           \E y \in D : Times(qs, y) > 1 /\ Times(qs, y) > Times(ps, y)
    BY <1>8 DEF Repeated, D
  <2>2. More(ms, ns, end) <=> \E m \in B : Times(ns, m) > 1 /\ Times(ns, m) > Times(ms, m)
    BY DEF More, B
  <2>3. ASSUME NEW y \in D, Times(qs, y) > 1, Times(qs, y) > Times(ps, y)
        PROVE  \E m \in B : Times(ns, m) > 1 /\ Times(ns, m) > Times(ms, m)
    <3>1. PICK x \in X : h[x] = y
      BY <1>2, <1>3
    <3>2. x \in B /\ Times(qs, y) = Times(ns, x) /\ Times(ps, y) = Times(ms, x)
      BY <1>2, <1>4, <3>1
    <3> QED
      BY <2>3, <3>2
  <2>4. ASSUME NEW m \in B, Times(ns, m) > 1, Times(ns, m) > Times(ms, m)
        PROVE  \E y \in D : Times(qs, y) > 1 /\ Times(qs, y) > Times(ps, y)
    <3>1. h[m] \in D /\ Times(qs, h[m]) = Times(ns, m) /\ Times(ps, h[m]) = Times(ms, m)
      BY <1>2, <1>3, <1>4
    <3> QED
      BY <2>4, <3>1
  <2> QED
    BY <2>1, <2>2, <2>3, <2>4
<1> QED
  BY <1>5, <1>6, <1>7, <1>9 DEF Faithful, A, B, C, D, end, key

(* The status of a group.                                                  *)
StatusOf(ps, qs, key) ==
  IF OfGroup(qs, key) = {} THEN "MISSING"
  ELSE IF OfGroup(ps, key) = {} THEN "EXTRA"
  ELSE IF OfGroup(ps, key) # OfGroup(qs, key) THEN "CHANGED"
  ELSE IF Repeated(ps, qs, key) # {} THEN "DUPLICATE" ELSE "MATCH"

LEMMA ReportIs ==
  ASSUME NEW ps, NEW qs, NEW key
  PROVE  /\ GroupReport(key, ps, qs).group = key
         /\ GroupReport(key, ps, qs).status = StatusOf(ps, qs, key)
BY DEF GroupReport, StatusOf, Repeated, OfGroup

LEMMA CountThrough ==
  ASSUME NEW S, IsFiniteSet(S), NEW T, NEW r, \A x \in S : r[x] \in T,
         \A x, z \in S : r[x] = r[z] => x = z, \A y \in T : \E x \in S : r[x] = y
  PROVE  /\ IsFiniteSet(T) /\ Cardinality(T) = Cardinality(S)
         /\ \A U \in SUBSET S : \A V \in SUBSET T :
               (\A x \in S : x \in U <=> r[x] \in V) => Cardinality(U) = Cardinality(V)
<1> SUFFICES ASSUME NEW U \in SUBSET S, NEW V \in SUBSET T,
                    \A x \in S : x \in U <=> r[x] \in V
             PROVE  Cardinality(U) = Cardinality(V) /\ IsFiniteSet(V)
  <2>1. \A U \in SUBSET S : \A V \in SUBSET T :
               (\A x \in S : x \in U <=> r[x] \in V)
                  => Cardinality(U) = Cardinality(V) /\ IsFiniteSet(V)
    OBVIOUS
  <2>2. S \in SUBSET S /\ T \in SUBSET T
    OBVIOUS
  <2> QED
    BY <2>1, <2>2
<1> DEFINE k == [x \in U |-> r[x]]
<1>1. IsFiniteSet(U)
  BY FS_Subset
<1>2. k \in Bijection(U, V)
  <2>1. \A x \in U : k[x] \in V
    OBVIOUS
  <2>2. \A x, z \in U : k[x] = k[z] => x = z
    OBVIOUS
  <2>3. \A y \in V : \E x \in U : k[x] = y
    OBVIOUS
  <2> HIDE DEF k
  <2>4. k \in [U -> V]
    BY <2>1 DEF k
  <2> QED
    BY <2>2, <2>3, <2>4 DEF Bijection, Injection, Surjection, IsInjective
<1>3. ExistsBijection(U, V)
  BY <1>2 DEF ExistsBijection
<1> QED
  BY <1>1, <1>3, FS_Bijection

(* What is to be exact about the reports of a comparison.                  *)
Endpoints(ms, ns) == {Endpoint(m) : m \in Range(ms) \union Range(ns)}

ReportsOf(ps, qs) ==
  {GroupReport(key, ps, qs) : key \in {GroupKey(p) : p \in Range(ps) \union Range(qs)}}

Named(reports, status) == {r \in reports : r.status = status}

IsCounted(ms, ns, reports) ==
  LET ends == Endpoints(ms, ns)
      same(g) == OfEndpoint(ms, g) = OfEndpoint(ns, g)
      count(status) == Cardinality(Named(reports, status))
  IN  /\ IsFiniteSet(reports) /\ Cardinality(reports) = Cardinality(ends)
      /\ count("MISSING") = Cardinality({g \in ends : OfEndpoint(ns, g) = {}})
      /\ count("EXTRA") = Cardinality({g \in ends : OfEndpoint(ms, g) = {}})
      /\ count("MATCH") = Cardinality({g \in ends : same(g) /\ ~More(ms, ns, g)})
      /\ count("DUPLICATE") = Cardinality({g \in ends : same(g) /\ More(ms, ns, g)})

(* Each endpoint has a report of its own, of the right status.             *)
LEMMA ReportsAreCounted ==
  ASSUME NEW h, NEW ms, NEW ns, NEW ps, NEW qs, Matches(h, ms, ns, ps, qs),
         \A y : Times(ps, y) \in Nat /\ Times(qs, y) \in Nat,
         IsFiniteSet(Endpoints(ms, ns))
  PROVE  IsCounted(ms, ns, ReportsOf(ps, qs))
<1> DEFINE X == Range(ms) \union Range(ns)
           Y == Range(ps) \union Range(qs)
           G == Endpoints(ms, ns)
           T == ReportsOf(ps, qs)
           k == [g \in G |-> CHOOSE m \in X : Endpoint(m) = g]
           r == [g \in G |-> GroupReport(GroupKey(h[k[g]]), ps, qs)]
           same(g) == OfEndpoint(ms, g) = OfEndpoint(ns, g)
<1>1. /\ \A g \in G : k[g] \in X /\ Endpoint(k[g]) = g
      /\ \A x \in X : Endpoint(x) \in G
  BY DEF Endpoints
<1>2. /\ \A x \in X : h[x] \in Y
      /\ \A y \in Y : \E x \in X : h[x] = y
      /\ \A x, z \in X : GroupKey(h[x]) = GroupKey(h[z]) <=> Endpoint(x) = Endpoint(z)
  BY DEF Matches
<1>3. \A g \in G : /\ r[g] = GroupReport(GroupKey(h[k[g]]), ps, qs)
                   /\ r[g].group = GroupKey(h[k[g]])
                   /\ r[g].status = StatusOf(ps, qs, GroupKey(h[k[g]]))
  <2> HIDE DEF k
  <2> QED
    BY ReportIs
<1>4. /\ \A y \in Y : GroupReport(GroupKey(y), ps, qs) \in T
      /\ \A t \in T : \E y \in Y : t = GroupReport(GroupKey(y), ps, qs)
  BY DEF ReportsOf
<1>5. \A g \in G : \/ OfEndpoint(ms, g) # {}
                   \/ OfEndpoint(ns, g) # {}
  <2> HIDE DEF k
  <2> QED
    BY <1>1 DEF OfEndpoint
<1>6. \A g \in G : Faithful(ms, ns, ps, qs, g, GroupKey(h[k[g]]))
  <2> SUFFICES ASSUME NEW g \in G
               PROVE  Faithful(ms, ns, ps, qs, g, GroupKey(h[k[g]]))
    OBVIOUS
  <2> HIDE DEF k
  <2>1. Faithful(ms, ns, ps, qs, Endpoint(k[g]), GroupKey(h[k[g]]))
    BY <1>1, GroupsMatch
  <2> QED
    BY <1>1, <2>1
<1> HIDE DEF X, Y, G, T, k, r
<1>7. ASSUME NEW g \in G
      PROVE  /\ r[g].status = "MISSING" <=> OfEndpoint(ns, g) = {}
             /\ r[g].status = "EXTRA" <=> OfEndpoint(ms, g) = {}
             /\ r[g].status = "MATCH" <=> same(g) /\ ~More(ms, ns, g)
             /\ r[g].status = "DUPLICATE" <=> same(g) /\ More(ms, ns, g)
  <2> DEFINE key == GroupKey(h[k[g]])
             A == OfGroup(ps, key)
             B == OfGroup(qs, key)
             C == OfEndpoint(ms, g)
             D == OfEndpoint(ns, g)
             s == r[g].status
  <2>1. s = IF B = {} THEN "MISSING" ELSE IF A = {} THEN "EXTRA"
            ELSE IF A # B THEN "CHANGED"
            ELSE IF Repeated(ps, qs, key) # {} THEN "DUPLICATE" ELSE "MATCH"
    BY <1>3, Zenon DEF StatusOf
  <2>2. /\ A = {} <=> C = {}
        /\ B = {} <=> D = {}
        /\ A = B <=> C = D
        /\ Repeated(ps, qs, key) # {} <=> More(ms, ns, g)
    BY <1>6, Zenon DEF Faithful
  <2>3. C # {} \/ D # {}
    BY <1>5
  <2> DEFINE again == Repeated(ps, qs, key) # {}
             more == More(ms, ns, g)
  <2>4. /\ s = IF B = {} THEN "MISSING" ELSE IF A = {} THEN "EXTRA"
               ELSE IF A # B THEN "CHANGED" ELSE IF again THEN "DUPLICATE" ELSE "MATCH"
        /\ again <=> more
    BY <2>1, <2>2
  <2> HIDE DEF A, B, C, D, s, again, more
  <2>5. /\ s = "MISSING" <=> D = {}
        /\ s = "EXTRA" <=> C = {}
        /\ s = "MATCH" <=> C = D /\ ~more
        /\ s = "DUPLICATE" <=> C = D /\ more
    BY <2>2, <2>3, <2>4
  <2> QED
    BY <2>5, Zenon DEF s, C, D, more
<1>8. \A g \in G : r[g] \in T
  BY <1>1, <1>2, <1>3, <1>4
<1>9. \A f, g \in G : r[f] = r[g] => f = g
  BY <1>1, <1>2, <1>3
<1>10. \A t \in T : \E g \in G : r[g] = t
  <2> SUFFICES ASSUME NEW t \in T
               PROVE  \E g \in G : r[g] = t
    OBVIOUS
  <2>1. PICK y \in Y : t = GroupReport(GroupKey(y), ps, qs)
    BY <1>4
  <2>2. PICK x \in X : h[x] = y
    BY <1>2
  <2>3. Endpoint(x) \in G /\ k[Endpoint(x)] \in X /\ Endpoint(k[Endpoint(x)]) = Endpoint(x)
    BY <1>1
  <2>4. GroupKey(h[k[Endpoint(x)]]) = GroupKey(y)
    BY <1>2, <2>2, <2>3
  <2>5. r[Endpoint(x)] = t
    BY <1>3, <2>1, <2>3, <2>4
  <2> QED
    BY <2>3, <2>5
<1>11. IsFiniteSet(G)
  BY DEF G
<1>12. /\ IsFiniteSet(T) /\ Cardinality(T) = Cardinality(G)
       /\ \A U \in SUBSET G : \A V \in SUBSET T :
             (\A x \in G : x \in U <=> r[x] \in V) => Cardinality(U) = Cardinality(V)
  BY <1>8, <1>9, <1>10, <1>11, CountThrough
<1>13. ASSUME NEW status, NEW U \in SUBSET G, \A g \in G : g \in U <=> r[g].status = status
       PROVE  Cardinality(Named(T, status)) = Cardinality(U)
  <2>1. Named(T, status) \in SUBSET T
    BY DEF Named
  <2>2. \A g \in G : g \in U <=> r[g] \in Named(T, status)
    BY <1>8, <1>13 DEF Named
  <2> QED
    BY <1>12, <2>1, <2>2
<1>14. Cardinality(Named(T, "MISSING")) = Cardinality({g \in G : OfEndpoint(ns, g) = {}})
  <2> DEFINE U == {g \in G : OfEndpoint(ns, g) = {}}
  <2>1. U \in SUBSET G /\ \A g \in G : g \in U <=> r[g].status = "MISSING"
    BY <1>7
  <2> HIDE DEF U
  <2>2. Cardinality(Named(T, "MISSING")) = Cardinality(U)
    BY <1>13, <2>1
  <2> QED
    BY <2>2 DEF U
<1>15. Cardinality(Named(T, "EXTRA")) = Cardinality({g \in G : OfEndpoint(ms, g) = {}})
  <2> DEFINE U == {g \in G : OfEndpoint(ms, g) = {}}
  <2>1. U \in SUBSET G /\ \A g \in G : g \in U <=> r[g].status = "EXTRA"
    BY <1>7
  <2> HIDE DEF U
  <2>2. Cardinality(Named(T, "EXTRA")) = Cardinality(U)
    BY <1>13, <2>1
  <2> QED
    BY <2>2 DEF U
<1>16. Cardinality(Named(T, "MATCH")) = Cardinality({g \in G : same(g) /\ ~More(ms, ns, g)})
  <2> DEFINE U == {g \in G : same(g) /\ ~More(ms, ns, g)}
  <2>1. U \in SUBSET G /\ \A g \in G : g \in U <=> r[g].status = "MATCH"
    BY <1>7
  <2> HIDE DEF U
  <2>2. Cardinality(Named(T, "MATCH")) = Cardinality(U)
    BY <1>13, <2>1
  <2> QED
    BY <2>2 DEF U
<1>17. Cardinality(Named(T, "DUPLICATE")) = Cardinality({g \in G : same(g) /\ More(ms, ns, g)})
  <2> DEFINE U == {g \in G : same(g) /\ More(ms, ns, g)}
  <2>1. U \in SUBSET G /\ \A g \in G : g \in U <=> r[g].status = "DUPLICATE"
    BY <1>7
  <2> HIDE DEF U
  <2>2. Cardinality(Named(T, "DUPLICATE")) = Cardinality(U)
    BY <1>13, <2>1
  <2> QED
    BY <2>2 DEF U
<1> QED
  BY <1>12, <1>14, <1>15, <1>16, <1>17, Zenon DEF IsCounted, G, T

-----------------------------------------------------------------------------
(* What is shown is cut just when something that differs is left out.      *)
LEMMA FitsAreHonest ==
  ASSUME NEW reports, IsFiniteSet(reports), NEW maxGroups \in Nat
  PROVE  FitGroups(reports, maxGroups).truncated <=>
           Len(FitGroups(reports, maxGroups).shown) + Cardinality(Named(reports, "MATCH"))
              < Cardinality(reports)
<1> DEFINE D == {r \in reports : r.status # "MATCH"}
           M == Named(reports, "MATCH")
           differ == SetToSeq(D)
           size(n) == Total([i \in 1 .. n |-> ReportSize(differ[i])])
           s == {k \in 0 .. Len(differ) : k <= maxGroups /\ (k <= 1 \/ size(k) <= GroupBudget)}
           n == Max(s)
           fit == FitGroups(reports, maxGroups)
<1>1. /\ fit = [shown |-> SubSeq(differ, 1, n), truncated |-> n < Len(differ)]
  BY Zenon DEF FitGroups
<1>2. IsFiniteSet(D) /\ IsFiniteSet(M)
  BY FS_Subset DEF Named
<1>3. Cardinality(D) \in Nat /\ Cardinality(M) \in Nat /\ Cardinality(reports) \in Nat
  BY <1>2, FS_CardinalityType
<1>4. Cardinality(reports) = Cardinality(D) + Cardinality(M)
  <2>1. D \union M = reports /\ D \intersect M = {}
    BY DEF Named
  <2>2. Cardinality(D \union M) = Cardinality(D) + Cardinality(M) - Cardinality(D \intersect M)
    BY <1>2, FS_Union
  <2>3. Cardinality({}) = 0
    BY FS_EmptySet
  <2> DEFINE a == Cardinality(D)
             b == Cardinality(M)
             c == Cardinality(reports)
  <2>4. c = a + b - 0
    BY <2>1, <2>2, <2>3, Zenon
  <2>5. a \in Nat /\ b \in Nat
    BY <1>3
  <2> HIDE DEF a, b, c
  <2>6. c = a + b
    BY <2>4, <2>5
  <2> QED
    BY <2>6 DEF a, b, c
<1>5. differ \in [1 .. Cardinality(D) -> D]
  <2> DEFINE m == Cardinality(D)
  <2>1. ExistsBijection(1 .. m, D)
    BY <1>2, FS_CardinalityType
  <2>2. \E f \in [1 .. m -> D] : IsInjective(f)
    <3> HIDE DEF m, D
    <3>1. PICK f : f \in Bijection(1 .. m, D)
      BY <2>1 DEF ExistsBijection
    <3>2. f \in [1 .. m -> D]
      BY <3>1 DEF Bijection, Injection
    <3>3. IsInjective(f)
      BY <3>1, <3>2 DEF Bijection, Injection, IsInjective
    <3> QED
      BY <3>2, <3>3
  <2> HIDE DEF m
  <2>3. SetToSeq(D) = CHOOSE f \in [1 .. m -> D] : IsInjective(f)
    BY DEF SetToSeq, m
  <2> HIDE DEF D
  <2> QED
    BY <2>2, <2>3 DEF m
<1> DEFINE d == Cardinality(D)
<1> HIDE DEF D, M, differ, size
<1>6. Len(differ) = d /\ DOMAIN differ = 1 .. d /\ differ \in Seq(D) /\ d \in Nat
  <2> HIDE DEF d
  <2> QED
    BY <1>3, <1>5 DEF d
<1>7. n \in 0 .. d
  <2> HIDE DEF d
  <2>1. s \in SUBSET (0 .. d) /\ 0 \in s
    BY <1>6
  <2> HIDE DEF s
  <2>2. Max(s) \in s
    BY <1>6, <2>1, GreatestOf
  <2> QED
    BY <2>1, <2>2
<1> HIDE DEF n, d, fit
<1>8. Len(SubSeq(differ, 1, n)) = n
  BY <1>6, <1>7
<1>9. fit.truncated = (n < d) /\ Len(fit.shown) = n
  BY <1>1, <1>6, <1>8
<1>10. fit.truncated <=> Len(fit.shown) + Cardinality(M) < Cardinality(reports)
  <2>1. Cardinality(reports) = d + Cardinality(M)
    BY <1>4 DEF d
  <2>2. n < d <=> n + Cardinality(M) < d + Cardinality(M)
    BY <1>3, <1>6, <1>7
  <2> QED
    BY <1>9, <2>1, <2>2
<1> QED
  BY <1>10 DEF fit, M

LEMMA MappedBoth ==
  ASSUME NEW I, NEW f, NEW ms, IsFiniteSet(I), IsMapped(ms, I, f),
         NEW J, NEW d, NEW ns, IsFiniteSet(J), IsMapped(ns, J, d)
  PROVE  /\ Range(ms \o ns) = Range(ms) \union Range(ns)
         /\ IsFiniteSet(Range(ms) \union Range(ns))
<1>1. /\ ms \in Seq(Range(ms)) /\ ns \in Seq(Range(ns))
      /\ Range(ms) = {f[i] : i \in I} /\ Range(ns) = {d[j] : j \in J}
  BY DEF IsMapped
<1>2. Range(ms \o ns) = Range(ms) \union Range(ns)
  <2> DEFINE E == Range(ms) \union Range(ns)
             A == Range(ms)
             B == Range(ns)
  <2>1. ms \in Seq(A) /\ ns \in Seq(B) /\ A \subseteq E /\ B \subseteq E
    BY <1>1
  <2> HIDE DEF E, A, B
  <2>2. ms \in Seq(E) /\ ns \in Seq(E)
    BY <2>1
  <2> QED
    BY <2>2, RangeOfBoth
<1>3. ASSUME NEW S, NEW u, IsFiniteSet(S)
      PROVE  IsFiniteSet({u[i] : i \in S})
  <2> DEFINE T == {u[i] : i \in S}
             g == [i \in S |-> u[i]]
  <2>1. g \in Surjection(S, T)
    BY DEF Surjection
  <2> HIDE DEF g, T
  <2>2. IsFiniteSet(T)
    BY <1>3, <2>1, FS_Surjection
  <2> QED
    BY <2>2 DEF T
<1>4. IsFiniteSet(Range(ms)) /\ IsFiniteSet(Range(ns))
  BY <1>1, <1>3
<1> QED
  BY <1>2, <1>4, FS_Union

LEMMA EndpointsAreFinite ==
  ASSUME NEW ms, NEW ns, IsFiniteSet(Range(ms) \union Range(ns))
  PROVE  IsFiniteSet(Endpoints(ms, ns))
<1> DEFINE X == Range(ms) \union Range(ns)
           T == Endpoints(ms, ns)
           g == [m \in X |-> Endpoint(m)]
<1>1. T = {Endpoint(m) : m \in X}
  BY Zenon DEF Endpoints
<1> HIDE DEF X, T
<1>2. g \in Surjection(X, T)
  BY <1>1 DEF Surjection
<1> HIDE DEF g
<1>3. IsFiniteSet(T)
  BY <1>2, FS_Surjection DEF X
<1> QED
  BY <1>3 DEF T

(* Two logs, as their snapshots compare, and as their requests would.      *)
ComparesExactly(log, run, a) ==
  LET diff == WireDiff(BuildSnapshot(log, a).records, BuildSnapshot(run, a).records, a)
  IN  IsExact(Meanings(log, a, diff.roles), Meanings(run, a, diff.roles), diff, a.report)

LEMMA ComparisonsAreExact ==
  ASSUME NEW K, NEW W, "*" \notin W, "<r>" \notin W, NEW R, \A r \in R : IsRequest(r, K, W),
         NEW log \in Seq(R), NEW run \in Seq(R), NEW a, a.maxGroups \in Nat
  PROVE  ComparesExactly(log, run, a)
<1> DEFINE old == ParseProjections(BuildSnapshot(log, a).records, a.compared)
           new == ParseProjections(BuildSnapshot(run, a).records, a.compared)
           roles == RoleCompared(old \o new)
           ps == Projections(old, roles)
           qs == Projections(new, roles)
           ms == Meanings(log, a, roles)
           ns == Meanings(run, a, roles)
           diff == WireDiff(BuildSnapshot(log, a).records, BuildSnapshot(run, a).records, a)
           reports == ReportsOf(ps, qs)
           fit == FitGroups(reports, a.maxGroups)
           I == Places(log, a)
           f == Meant(log, a, roles)
           g == SeenAt(log, a, roles)
           J == Places(run, a)
           d == Meant(run, a, roles)
           e == SeenAt(run, a, roles)
<1>1. roles \in BOOLEAN
  BY DEF RoleCompared
<1>2. diff = LET comparison == CompareProjections(old, new)
                 fitted == FitGroups(comparison.reports, a.maxGroups)
             IN  [reports |-> comparison.reports, roles |-> comparison.roles,
                  shown |-> fitted.shown, truncated |-> fitted.truncated,
                  written |-> IF a.report THEN comparison.reports ELSE {}]
  BY Zenon DEF WireDiff
<1>3. CompareProjections(old, new) =
        [reports |-> {GroupReport(key, ps, qs) : key \in {GroupKey(p) : p \in Range(ps \o qs)}},
         roles |-> roles]
  BY Zenon DEF CompareProjections
<1> HIDE DEF old, new, roles, diff
<1>4. IsSide(I, f, g, ms, ps)
  <2> HIDE DEF I, f, g, ms
  <2> QED
    BY <1>1, SidesAre, Zenon DEF old, ps, I, f, g, ms
<1>5. IsSide(J, d, e, ns, qs)
  <2> HIDE DEF J, d, e, ns
  <2> QED
    BY <1>1, SidesAre, Zenon DEF new, qs, J, d, e, ns
<1>6. /\ Kernel(I, f, g, J, d, e) /\ Kernel(J, d, e, I, f, g)
      /\ Kernel(I, f, g, I, f, g) /\ Kernel(J, d, e, J, d, e)
  BY <1>1, KernelsAre
<1> HIDE DEF ps, qs, ms, ns, I, f, g, J, d, e
<1>7. PICK h : Matches(h, ms, ns, ps, qs)
  BY <1>4, <1>5, <1>6, SidesMatch
<1>8. /\ IsFiniteSet(I) /\ IsMapped(ms, I, f) /\ IsMapped(ps, I, g)
      /\ IsFiniteSet(J) /\ IsMapped(ns, J, d) /\ IsMapped(qs, J, e)
  BY <1>4, <1>5 DEF IsSide
<1>9. /\ Range(ms \o ns) = Range(ms) \union Range(ns)
      /\ IsFiniteSet(Range(ms) \union Range(ns))
      /\ Range(ps \o qs) = Range(ps) \union Range(qs)
  <2>1. /\ Range(ms \o ns) = Range(ms) \union Range(ns)
        /\ IsFiniteSet(Range(ms) \union Range(ns))
    BY <1>8, MappedBoth, Zenon
  <2>s. IsFiniteSet(I) /\ IsMapped(ps, I, g) /\ IsFiniteSet(J) /\ IsMapped(qs, J, e)
    BY <1>8
  <2>2. /\ Range(ps \o qs) = Range(ps) \union Range(qs)
        /\ IsFiniteSet(Range(ps) \union Range(qs))
    BY <2>s, MappedBoth, Zenon
  <2> QED
    BY <2>1, <2>2
<1>10. \A y : Times(ps, y) \in Nat /\ Times(qs, y) \in Nat
  BY <1>8, TimesAre
<1>11. IsCounted(ms, ns, reports)
  <2>1. IsFiniteSet(Endpoints(ms, ns))
    BY <1>9, EndpointsAreFinite
  <2> QED
    BY <1>7, <1>10, <2>1, ReportsAreCounted
<1>12. CompareProjections(old, new) = [reports |-> reports, roles |-> roles]
  BY <1>3, <1>9, Zenon DEF ReportsOf
<1> HIDE DEF reports
<1>13. /\ CompareProjections(old, new).reports = reports
       /\ CompareProjections(old, new).roles = roles
  BY <1>12
<1>14. diff = [reports |-> reports, roles |-> roles, shown |-> fit.shown,
               truncated |-> fit.truncated, written |-> IF a.report THEN reports ELSE {}]
  BY <1>2, <1>13, Zenon
<1> HIDE DEF fit
<1>15. /\ diff.reports = reports /\ diff.roles = roles /\ diff.shown = fit.shown
       /\ diff.truncated = fit.truncated /\ (a.report => diff.written = reports)
  BY <1>14
<1>16. fit.truncated <=>
          Len(fit.shown) + Cardinality(Named(reports, "MATCH")) < Cardinality(reports)
  <2>1. IsFiniteSet(reports)
    BY <1>11 DEF IsCounted
  <2> QED
    BY <2>1, FitsAreHonest, Zenon DEF fit
<1>17. IsExact(ms, ns, diff, a.report)
  <2> DEFINE G == {Endpoint(m) : m \in Range(ms \o ns)}
             same(x) == OfEndpoint(ms, x) = OfEndpoint(ns, x)
             more(x) == \E m \in OfEndpoint(ns, x) :
                           Times(ns, m) > 1 /\ Times(ns, m) > Times(ms, m)
             count(status) == Cardinality(Named(reports, status))
  <2>1. G = Endpoints(ms, ns)
    BY <1>9, Zenon DEF Endpoints
  <2>2. /\ Cardinality(reports) = Cardinality(G)
        /\ count("MISSING") = Cardinality({x \in G : OfEndpoint(ns, x) = {}})
        /\ count("EXTRA") = Cardinality({x \in G : OfEndpoint(ms, x) = {}})
        /\ count("MATCH") = Cardinality({x \in G : same(x) /\ ~more(x)})
        /\ count("DUPLICATE") = Cardinality({x \in G : same(x) /\ more(x)})
    BY <1>11, <2>1, Zenon DEF IsCounted, More
  <2>3. IsExact(ms, ns, diff, a.report) <=>
          /\ count("MISSING") = Cardinality({x \in G : OfEndpoint(ns, x) = {}})
          /\ count("EXTRA") = Cardinality({x \in G : OfEndpoint(ms, x) = {}})
          /\ count("MATCH") = Cardinality({x \in G : same(x) /\ ~more(x)})
          /\ count("DUPLICATE") = Cardinality({x \in G : same(x) /\ more(x)})
          /\ Cardinality(reports) = Cardinality(G)
          /\ fit.truncated <=> Len(fit.shown) + count("MATCH") < Cardinality(reports)
          /\ a.report => diff.written = reports
    BY <1>15, Zenon DEF IsExact, Named, OfEndpoint
  <2> QED
    BY <1>15, <1>16, <2>2, <2>3, Zenon
<1>18. IsExact(Meanings(log, a, diff.roles), Meanings(run, a, diff.roles), diff, a.report)
  BY <1>15, <1>17, Zenon DEF ms, ns
<1> QED
  BY <1>18, Zenon DEF ComparesExactly, diff

LEMMA WireInvExact ==
  ASSUME WireInv
  PROVE  DiffIsExact
<1> SUFFICES ASSUME Accepted("wire")
             PROVE  IsExact(Meanings(LogOf("baseline"), ask, answer.diff.roles),
                            Meanings(LogOf("capture"), ask, answer.diff.roles),
                            answer.diff, ask.report)
  BY DEF DiffIsExact
<1>1. /\ recorded \in Seq(Logged) /\ ask.maxGroups \in Nat
      /\ answer = [baseline |-> Sent("baseline"), capture |-> Sent("capture"),
                   diff |-> WireDiff(Sent("baseline").records, Sent("capture").records, ask)]
  BY DEF WireInv, Accepted, Answered
<1>2. answer.diff = WireDiff(Sent("baseline").records, Sent("capture").records, ask)
  BY <1>1
<1>3. LogOf("baseline") \in Seq(Logged) /\ LogOf("capture") \in Seq(Logged)
  BY <1>1, LogsAre
<1>4. \A r \in Logged : IsRequest(r, WireKeys, WireWords)
  BY LoggedAre
<1>5. "*" \notin WireWords /\ "<r>" \notin WireWords
  BY DEF WireWords
<1>6. ComparesExactly(LogOf("baseline"), LogOf("capture"), ask)
  BY <1>1, <1>3, <1>4, <1>5, ComparisonsAreExact
<1> QED
  BY <1>2, <1>6, Zenon DEF ComparesExactly, Sent

-----------------------------------------------------------------------------
(* What is on the screen.                                                  *)

(* The nodes of a dump: a parent comes before its children.                *)
IsForest(nodes) ==
  /\ Len(nodes) \in Nat /\ DOMAIN nodes = 1 .. Len(nodes)
  /\ \A n \in DOMAIN nodes : nodes[n].parent \in 0 .. n - 1

LEMMA ForestInduction ==
  ASSUME NEW nodes, IsForest(nodes), NEW T, 0 \in T,
         \A n \in DOMAIN nodes : nodes[n].parent \in T => n \in T
  PROVE  \A n \in 0 .. Len(nodes) : n \in T
<1> DEFINE N == Len(nodes)
           U == {k \in 0 .. N : \A n \in 0 .. k : n \in T}
<1>1. N \in Nat /\ DOMAIN nodes = 1 .. N /\ \A n \in 1 .. N : nodes[n].parent \in 0 .. n - 1
  BY DEF IsForest
<1> HIDE DEF N
<1>2. 0 \in U
  BY <1>1
<1>3. ASSUME NEW k \in 1 .. N, k - 1 \in U
      PROVE  k \in U
  <2>1. \A n \in 0 .. k - 1 : n \in T
    BY <1>3
  <2>2. k \in T
    BY <1>1, <2>1
  <2>3. \A n \in 0 .. k : n \in 0 .. k - 1 \/ n = k
    BY <1>1
  <2> QED
    BY <1>1, <2>1, <2>2, <2>3
<1>4. \A k \in 0 .. N : k \in U
  <2> HIDE DEF U
  <2> QED
    BY <1>1, <1>2, <1>3, UpTo
<1>5. \A k \in 0 .. N : k \in T
  <2>1. \A k \in 0 .. N : k \in 0 .. k
    BY <1>1
  <2>2. \A k \in 0 .. N : \A n \in 0 .. k : n \in T
    BY <1>4
  <2> QED
    BY <2>1, <2>2
<1> QED
  BY <1>5 DEF N

(* A function that follows parents up exists.                              *)
Climbs(f, nodes, V, base, step) ==
  /\ f \in [0 .. Len(nodes) -> V] /\ f[0] = base
  /\ \A n \in DOMAIN nodes : f[n] = step[n][f[nodes[n].parent]]

LEMMA ClimbsExist ==
  ASSUME NEW nodes, IsForest(nodes), NEW V, NEW base \in V,
         NEW step \in [1 .. Len(nodes) -> [V -> V]]
  PROVE  \E f : Climbs(f, nodes, V, base, step)
<1> DEFINE N == Len(nodes)
           up(n) == nodes[n].parent
           Upto(k, f) == /\ f \in [0 .. k -> V] /\ f[0] = base
                         /\ \A n \in 1 .. k : f[n] = step[n][f[up(n)]]
           T == {k \in 0 .. N : \E f : Upto(k, f)}
<1>1. N \in Nat /\ DOMAIN nodes = 1 .. N /\ \A n \in 1 .. N : up(n) \in 0 .. n - 1
  BY DEF IsForest
<1> HIDE DEF N, up
<1>2. 0 \in T
  <2> DEFINE f == [k \in 0 .. 0 |-> base]
  <2>1. Upto(0, f)
    OBVIOUS
  <2>2. 0 \in 0 .. N
    BY <1>1
  <2> HIDE DEF Upto, f
  <2> QED
    BY <2>1, <2>2
<1>3. ASSUME NEW k \in 1 .. N, k - 1 \in T
      PROVE  k \in T
  <2>1. PICK f : Upto(k - 1, f)
    BY <1>3
  <2> DEFINE g == [n \in 0 .. k |-> IF n = k THEN step[k][f[up(k)]] ELSE f[n]]
  <2>2. /\ k \in 1 .. N /\ k - 1 \in 0 .. k /\ 0 \in 0 .. k - 1
        /\ \A n \in 0 .. k : n = k \/ n \in 0 .. k - 1
        /\ \A n \in 0 .. k - 1 : n # k /\ n \in 0 .. k
        /\ \A n \in 1 .. k : /\ up(n) \in 0 .. k - 1 /\ n \in 0 .. k
                             /\ n # k => n \in 1 .. k - 1
    BY <1>1
  <2>3. \A n \in 0 .. k - 1 : f[n] \in V /\ g[n] = f[n]
    BY <2>1, <2>2
  <2>4. g[k] = step[k][f[up(k)]] /\ g[k] \in V
    <3>1. step[k] \in [V -> V] /\ f[up(k)] \in V
      <4>1. up(k) \in 0 .. k - 1
        BY <1>1
      <4> QED
        BY <2>1, <4>1 DEF N
    <3> QED
      BY <2>2, <3>1
  <2>5. g \in [0 .. k -> V]
    <3>1. \A n \in 0 .. k : g[n] \in V
      BY <2>2, <2>3, <2>4
    <3> QED
      BY <3>1
  <2> HIDE DEF g
  <2>6. g[0] = base
    BY <2>1, <2>2, <2>3
  <2>7. \A n \in 1 .. k : g[n] = step[n][g[up(n)]]
    <3> SUFFICES ASSUME NEW n \in 1 .. k
                 PROVE  g[n] = step[n][g[up(n)]]
      OBVIOUS
    <3>1. g[up(n)] = f[up(n)]
      BY <2>2, <2>3
    <3>2. CASE n = k
      BY <2>4, <3>1, <3>2
    <3>3. CASE n # k
      <4>1. n \in 1 .. k - 1 /\ n \in 0 .. k - 1
        BY <2>2, <3>3
      <4> QED
        BY <2>1, <2>3, <3>1, <4>1
    <3> QED
      BY <3>2, <3>3
  <2>8. Upto(k, g)
    BY <2>5, <2>6, <2>7
  <2>9. k \in 0 .. N
    BY <1>1
  <2> HIDE DEF Upto
  <2> QED
    BY <2>8, <2>9
<1>4. \A k \in 0 .. N : k \in T
  <2> HIDE DEF T
  <2> QED
    BY <1>1, <1>2, <1>3, UpTo
<1>5. \E f : Upto(N, f)
  <2>1. N \in 0 .. N
    BY <1>1
  <2> HIDE DEF Upto
  <2> QED
    BY <1>4, <2>1
<1>6. PICK f : Upto(N, f)
  BY <1>5
<1>7. Climbs(f, nodes, V, base, step)
  BY <1>1, <1>6 DEF Climbs, N, up
<1> QED
  BY <1>7

(* A node and its ancestors.                                               *)
Line(nodes, n) == Range(Lineage(nodes, n))

LEMMA LineageIs ==
  ASSUME NEW nodes, IsForest(nodes)
  PROVE  /\ Lineage(nodes, 0) = <<>>
         /\ \A n \in DOMAIN nodes :
               Lineage(nodes, n) = <<n>> \o Lineage(nodes, nodes[n].parent)
         /\ \A n \in 0 .. Len(nodes) : Lineage(nodes, n) \in Seq(Nat)
<1> DEFINE N == Len(nodes)
           par(n) == nodes[n].parent
           V == Seq(Nat)
           Rec(h) == h = [m \in 0 .. N |-> IF m = 0 THEN <<>> ELSE <<m>> \o h[par(m)]]
           step == [n \in 1 .. N |-> [s \in V |-> <<n>> \o s]]
<1>1. N \in Nat /\ DOMAIN nodes = 1 .. N /\ \A n \in 1 .. N : par(n) \in 0 .. n - 1
  BY DEF IsForest
<1>2. step \in [1 .. N -> [V -> V]] /\ <<>> \in V
  <2>1. \A n \in 1 .. N : \A s \in V : <<n>> \o s \in V
    BY <1>1
  <2> HIDE DEF N, V
  <2> QED
    BY <2>1 DEF V
<1>3. \E h : Rec(h)
  <2>1. PICK h : Climbs(h, nodes, V, <<>>, step)
    <3> HIDE DEF V, step
    <3> QED
      BY <1>2, ClimbsExist DEF N
  <2>2. /\ h \in [0 .. N -> V] /\ h[0] = <<>>
        /\ \A n \in 1 .. N : h[n] = step[n][h[par(n)]]
    BY <1>1, <2>1 DEF Climbs
  <2> HIDE DEF N, par
  <2>3. \A n \in 1 .. N : par(n) \in 0 .. N
    BY <1>1
  <2>4. \A n \in 1 .. N : h[n] = <<n>> \o h[par(n)]
    <3>1. \A n \in 1 .. N : h[par(n)] \in V
      BY <2>2, <2>3
    <3> HIDE DEF V
    <3> QED
      BY <2>2, <3>1
  <2>5. \A n \in 0 .. N : n = 0 \/ (n # 0 /\ n \in 1 .. N)
    BY <1>1
  <2>6. Rec(h)
    <3> HIDE DEF V, step
    <3> QED
      BY <2>2, <2>4, <2>5
  <2> QED
    BY <2>6
<1> DEFINE up == CHOOSE h : Rec(h)
<1>4. Rec(up)
  <2> HIDE DEF Rec
  <2> QED
    BY <1>3
<1>5. \A n : Lineage(nodes, n) = up[n]
  BY Zenon DEF Lineage
<1> HIDE DEF up
<1>6. /\ up[0] = <<>>
      /\ \A n \in 1 .. N : up[n] = <<n>> \o up[par(n)]
  <2>1. \A n \in 1 .. N : n \in 0 .. N /\ n # 0
    BY <1>1
  <2>2. 0 \in 0 .. N
    BY <1>1
  <2> HIDE DEF N, par
  <2> QED
    BY <1>4, <2>1, <2>2
<1> HIDE DEF Rec
<1>7. \A n \in 0 .. N : up[n] \in V
  <2> DEFINE T == {n \in 0 .. N : up[n] \in V}
  <2>1. 0 \in T
    <3>1. <<>> \in Seq(Nat) /\ 0 \in 0 .. N
      BY <1>1
    <3> QED
      BY <1>6, <3>1
  <2>2. ASSUME NEW n \in 1 .. N, par(n) \in T
        PROVE  n \in T
    <3>1. up[par(n)] \in Seq(Nat) /\ n \in Nat /\ n \in 0 .. N
      BY <1>1, <2>2
    <3> DEFINE s == up[par(n)]
    <3> HIDE DEF s
    <3>2. <<n>> \o s \in Seq(Nat)
      BY <3>1 DEF s
    <3> QED
      BY <1>6, <3>1, <3>2 DEF s
  <2> HIDE DEF T
  <2>3. \A n \in 0 .. N : n \in T
    BY <1>1, <2>1, <2>2, ForestInduction DEF N, par
  <2> QED
    BY <2>3 DEF T
<1> QED
  BY <1>1, <1>5, <1>6, <1>7 DEF N, par

(* From a node up the numbers fall.                                        *)
LEMMA LinesAre ==
  ASSUME NEW nodes, IsForest(nodes)
  PROVE  /\ Line(nodes, 0) = {}
         /\ \A n \in DOMAIN nodes :
               /\ Line(nodes, n) = {n} \union Line(nodes, nodes[n].parent)
               /\ Lineage(nodes, n) # <<>> /\ Head(Lineage(nodes, n)) = n
               /\ Tail(Lineage(nodes, n)) = Lineage(nodes, nodes[n].parent)
         /\ \A n \in 0 .. Len(nodes) :
               /\ Line(nodes, n) \subseteq 1 .. n
               /\ \A i, j \in DOMAIN Lineage(nodes, n) :
                     i < j => Lineage(nodes, n)[i] > Lineage(nodes, n)[j]
<1> DEFINE N == Len(nodes)
           par(n) == nodes[n].parent
           lin(n) == Lineage(nodes, n)
<1>1. N \in Nat /\ DOMAIN nodes = 1 .. N /\ \A n \in 1 .. N : par(n) \in 0 .. n - 1
  BY DEF IsForest
<1>2. /\ lin(0) = <<>> /\ \A n \in 1 .. N : lin(n) = <<n>> \o lin(par(n))
      /\ \A n \in 0 .. N : lin(n) \in Seq(Nat)
  BY <1>1, LineageIs
<1>3. \A n \in 1 .. N : n \in 0 .. N /\ par(n) \in 0 .. N /\ n \in Nat
  BY <1>1
<1> HIDE DEF N, par, lin
<1>4. ASSUME NEW n \in 1 .. N
      PROVE  /\ Range(lin(n)) = {n} \union Range(lin(par(n)))
             /\ lin(n) # <<>> /\ Head(lin(n)) = n /\ Tail(lin(n)) = lin(par(n))
             /\ DOMAIN lin(n) = 1 .. Len(lin(par(n))) + 1
             /\ lin(n)[1] = n
             /\ \A i \in 2 .. Len(lin(par(n))) + 1 : lin(n)[i] = lin(par(n))[i - 1]
  <2> DEFINE s == lin(par(n))
             one == <<n>>
  <2>1. lin(n) = one \o s /\ s \in Seq(Nat) /\ one \in Seq(Nat)
    BY <1>2, <1>3
  <2>2. Range(one) = {n}
    BY DEF Range
  <2>3. Range(one \o s) = Range(one) \union Range(s)
    <3> HIDE DEF one, s
    <3> QED
      BY <2>1, RangeOfBoth
  <2> HIDE DEF s
  <2>4. /\ one \o s # <<>> /\ Head(one \o s) = n /\ Tail(one \o s) = s
        /\ DOMAIN (one \o s) = 1 .. Len(s) + 1 /\ (one \o s)[1] = n
        /\ \A i \in 2 .. Len(s) + 1 : (one \o s)[i] = s[i - 1]
    <3>1. n \in Nat
      BY <1>3
    <3>2. Tail(one \o s) = s
      BY <2>1, <3>1
    <3> QED
      BY <2>1, <3>1, <3>2
  <2> QED
    BY <2>1, <2>2, <2>3, <2>4 DEF s
<1>5. \A n \in 0 .. N :
         /\ Range(lin(n)) \subseteq 1 .. n
         /\ \A i, j \in DOMAIN lin(n) : i < j => lin(n)[i] > lin(n)[j]
  <2> DEFINE Falls(n) == /\ Range(lin(n)) \subseteq 1 .. n
                         /\ \A i, j \in DOMAIN lin(n) : i < j => lin(n)[i] > lin(n)[j]
             T == {n \in 0 .. N : Falls(n)}
  <2>1. 0 \in T
    <3>1. DOMAIN <<>> = {} /\ Range(<<>>) = {}
      BY DEF Range
    <3> QED
      BY <1>1, <1>2, <3>1
  <2>2. ASSUME NEW n \in 1 .. N, par(n) \in T
        PROVE  n \in T
    <3> DEFINE s == lin(par(n))
               l == lin(n)
    <3>1. /\ Range(s) \subseteq 1 .. par(n)
          /\ \A i, j \in DOMAIN s : i < j => s[i] > s[j]
      BY <2>2
    <3>2. /\ Range(l) = {n} \union Range(s) /\ DOMAIN l = 1 .. Len(s) + 1 /\ l[1] = n
          /\ \A i \in 2 .. Len(s) + 1 : l[i] = s[i - 1]
      BY <1>4
    <3>3. s \in Seq(Nat) /\ Len(s) \in Nat /\ DOMAIN s = 1 .. Len(s) /\ n \in Nat
          /\ par(n) \in 0 .. n - 1
      BY <1>1, <1>2, <1>3
    <3> HIDE DEF s, l
    <3>4. Range(l) \subseteq 1 .. n
      BY <3>1, <3>2, <3>3
    <3>5. ASSUME NEW i \in DOMAIN l, NEW j \in DOMAIN l, i < j
          PROVE  l[i] > l[j]
      <4>1. j \in 2 .. Len(s) + 1 /\ j - 1 \in 1 .. Len(s) /\ l[j] = s[j - 1]
        BY <3>2, <3>3, <3>5
      <4>2. s[j - 1] \in 1 .. par(n)
        BY <3>1, <3>3, <4>1 DEF Range
      <4>3. CASE i = 1
        BY <3>2, <3>3, <4>1, <4>2, <4>3
      <4>4. CASE i # 1
        <5>1. i \in 2 .. Len(s) + 1 /\ i - 1 \in 1 .. Len(s) /\ l[i] = s[i - 1] /\ i - 1 < j - 1
          BY <3>2, <3>3, <3>5, <4>1, <4>4
        <5> QED
          BY <3>1, <3>3, <4>1, <5>1
      <4> QED
        BY <4>3, <4>4
    <3> QED
      BY <1>3, <3>4, <3>5 DEF l
  <2> HIDE DEF T
  <2>3. \A n \in 0 .. N : n \in T
    BY <1>1, <2>1, <2>2, ForestInduction DEF N, par
  <2> QED
    BY <2>3 DEF T
<1>6. Range(lin(0)) = {}
  BY <1>2 DEF Range
<1> QED
  BY <1>1, <1>4, <1>5, <1>6 DEF N, par, lin, Line

LEMMA LinesNest ==
  ASSUME NEW nodes, IsForest(nodes), NEW n \in 0 .. Len(nodes), NEW p \in Line(nodes, n)
  PROVE  Line(nodes, p) \subseteq Line(nodes, n) /\ p \in DOMAIN nodes /\ p <= n
<1> DEFINE N == Len(nodes)
           par(m) == nodes[m].parent
           line(m) == Line(nodes, m)
           T == {m \in 0 .. N : \A q \in line(m) : line(q) \subseteq line(m)}
<1>1. N \in Nat /\ DOMAIN nodes = 1 .. N /\ \A m \in 1 .. N : par(m) \in 0 .. m - 1
  BY DEF IsForest
<1>2. /\ line(0) = {} /\ \A m \in 1 .. N : line(m) = {m} \union line(par(m))
      /\ \A m \in 0 .. N : line(m) \subseteq 1 .. m
  BY <1>1, LinesAre
<1>3. p \in 1 .. N /\ p <= n
  BY <1>1, <1>2
<1> HIDE DEF N, par, line
<1>4. 0 \in T
  BY <1>1, <1>2
<1>5. ASSUME NEW m \in 1 .. N, par(m) \in T
      PROVE  m \in T
  <2>1. m \in 0 .. N /\ line(m) = {m} \union line(par(m))
    BY <1>1, <1>2
  <2>2. \A q \in line(par(m)) : line(q) \subseteq line(par(m))
    BY <1>5
  <2>3. \A q \in line(m) : line(q) \subseteq line(m)
    BY <2>1, <2>2
  <2> QED
    BY <2>1, <2>3
<1>6. \A m \in 0 .. N : m \in T
  <2> HIDE DEF T
  <2> QED
    BY <1>1, <1>4, <1>5, ForestInduction DEF N, par
<1>7. line(p) \subseteq line(n)
  BY <1>6 DEF N, line
<1> QED
  BY <1>1, <1>3, <1>7 DEF N, line

(* Whatever is above a node has a child on the way down to it.             *)
LEMMA Toward ==
  ASSUME NEW nodes, IsForest(nodes), NEW n \in 0 .. Len(nodes),
         NEW a \in {0} \union Line(nodes, n), a # n
  PROVE  \E c \in Line(nodes, n) : nodes[c].parent = a
<1> DEFINE N == Len(nodes)
           par(m) == nodes[m].parent
           line(m) == Line(nodes, m)
           T == {m \in 0 .. N : a \in {0} \union line(m) /\ a # m =>
                                  \E c \in line(m) : par(c) = a}
<1>1. N \in Nat /\ DOMAIN nodes = 1 .. N /\ \A m \in 1 .. N : par(m) \in 0 .. m - 1
  BY DEF IsForest
<1>2. /\ line(0) = {} /\ \A m \in 1 .. N : line(m) = {m} \union line(par(m))
  BY <1>1, LinesAre
<1> HIDE DEF N, par, line
<1>4. 0 \in T
  BY <1>1, <1>2
<1>5. ASSUME NEW m \in 1 .. N, par(m) \in T
      PROVE  m \in T
  BY <1>1, <1>2, <1>5
<1>6. \A m \in 0 .. N : m \in T
  <2> HIDE DEF T
  <2> QED
    BY <1>1, <1>4, <1>5, ForestInduction DEF N, par
<1> QED
  BY <1>6 DEF N, line, par

(* Whatever is not in a set leaves it somewhere above.                     *)
LEMMA Leaves ==
  ASSUME NEW nodes, IsForest(nodes), NEW S, NEW n \in DOMAIN nodes, n \notin S
  PROVE  \E d \in Line(nodes, n) : d \notin S /\ nodes[d].parent \in {0} \union S
<1> DEFINE N == Len(nodes)
           par(m) == nodes[m].parent
           line(m) == Line(nodes, m)
           T == {m \in 0 .. N : m # 0 /\ m \notin S =>
                                  \E d \in line(m) : d \notin S /\ par(d) \in {0} \union S}
<1>1. N \in Nat /\ DOMAIN nodes = 1 .. N /\ \A m \in 1 .. N : par(m) \in 0 .. m - 1
  BY DEF IsForest
<1>2. /\ line(0) = {} /\ \A m \in 1 .. N : line(m) = {m} \union line(par(m))
  BY <1>1, LinesAre
<1> HIDE DEF N, par, line
<1>4. 0 \in T
  BY <1>1, <1>2
<1>5. ASSUME NEW m \in 1 .. N, par(m) \in T
      PROVE  m \in T
  BY <1>1, <1>2, <1>5
<1>6. \A m \in 0 .. N : m \in T
  <2> HIDE DEF T
  <2> QED
    BY <1>1, <1>4, <1>5, ForestInduction DEF N, par
<1>7. n \in 0 .. N /\ n # 0
  BY <1>1
<1> QED
  BY <1>6, <1>7 DEF N, line, par

(* Nodes are numbered as a dump has them: what is in one comes before what *)
(* is next to it.                                                          *)
IsTree(nodes) ==
  /\ IsForest(nodes)
  /\ \A n \in DOMAIN nodes :
        n > 1 => nodes[n].parent \in {0} \union Line(nodes, n - 1)

LEMMA SiblingsPart ==
  ASSUME NEW nodes, IsTree(nodes), NEW d \in DOMAIN nodes, NEW c \in DOMAIN nodes, d < c,
         nodes[d].parent = nodes[c].parent, NEW n \in DOMAIN nodes, c <= n
  PROVE  d \notin Line(nodes, n)
<1> DEFINE N == Len(nodes)
           par(m) == nodes[m].parent
           line(m) == Line(nodes, m)
           T == {k \in 0 .. N : c + k <= N => d \notin line(c + k)}
<1>1. N \in Nat /\ DOMAIN nodes = 1 .. N /\ \A m \in 1 .. N : par(m) \in 0 .. m - 1
  BY DEF IsForest, IsTree
<1>2. /\ line(0) = {} /\ \A m \in 1 .. N : line(m) = {m} \union line(par(m))
      /\ \A m \in 0 .. N : line(m) \subseteq 1 .. m
  BY <1>1, LinesAre DEF IsTree
<1>3. \A m \in 0 .. N : \A p \in line(m) : line(p) \subseteq line(m)
  BY LinesNest DEF IsTree
<1>4. \A m \in 1 .. N : m > 1 => par(m) \in {0} \union line(m - 1)
  BY <1>1 DEF IsTree
<1>c. c \in 1 .. N /\ d \in 1 .. N /\ n \in 1 .. N /\ d < c /\ c <= n /\ par(d) = par(c)
  BY <1>1
<1> HIDE DEF N, par, line
<1>5. 0 \in T
  <2>1. line(c) = {c} \union line(par(d))
    BY <1>2, <1>c
  <2>2. par(d) \in 0 .. d - 1 /\ line(par(d)) \subseteq 1 .. par(d)
    <3>1. par(d) \in 0 .. d - 1 /\ par(d) \in 0 .. N
      BY <1>1, <1>c
    <3> QED
      BY <1>2, <3>1
  <2>3. d \notin line(c)
    BY <1>1, <1>c, <2>1, <2>2
  <2>4. c + 0 = c
    BY <1>1, <1>c
  <2> QED
    BY <1>1, <2>3, <2>4
<1>6. ASSUME NEW k \in 1 .. N, k - 1 \in T
      PROVE  k \in T
  <2> SUFFICES ASSUME c + k <= N
               PROVE  d \notin line(c + k)
    BY <1>1
  <2> DEFINE m == c + k
  <2>1. m \in 1 .. N /\ m > 1 /\ m - 1 = c + (k - 1) /\ m - 1 \in 0 .. N /\ d < m
    <3>1. N \in Nat
      BY <1>1
    <3>2. c \in 1 .. N /\ d \in 1 .. N /\ d < c
      BY <1>c
    <3>3. c \in Nat /\ d \in Nat /\ k \in Nat /\ c > 0 /\ k > 0
      BY <3>1, <3>2
    <3> QED
      BY <3>1, <3>2, <3>3
  <2>2. d \notin line(m - 1)
    BY <1>1, <1>6, <2>1
  <2> HIDE DEF m
  <2>3. line(m) = {m} \union line(par(m)) /\ par(m) \in {0} \union line(m - 1)
    BY <1>2, <1>4, <2>1
  <2>4. d \notin line(par(m))
    BY <1>2, <1>3, <2>1, <2>2, <2>3
  <2>5. d # m
    BY <1>1, <1>c, <2>1
  <2> QED
    BY <2>3, <2>4, <2>5 DEF m
<1>7. \A k \in 0 .. N : k \in T
  <2> HIDE DEF T
  <2> QED
    BY <1>1, <1>5, <1>6, UpTo
<1>8. n - c \in 0 .. N /\ c + (n - c) = n
  <2>1. N \in Nat
    BY <1>1
  <2>2. c \in 1 .. N /\ n \in 1 .. N /\ c <= n
    BY <1>c
  <2>3. c \in Nat /\ n \in Nat /\ c > 0 /\ n <= N
    BY <2>1, <2>2
  <2> QED
    BY <2>1, <2>2, <2>3
<1>9. d \notin line(n)
  BY <1>1, <1>7, <1>8, <1>c
<1> QED
  BY <1>9 DEF line

(* The children of a node that hold the point, and those of them that      *)
(* settle it.                                                              *)
Holding(nodes, x, n) == {c \in Children(nodes, n) : ContainsPoint(nodes[c], x)}

Settles(nodes, x, c) ==
  Holding(nodes, x, c) # {} \/ Children(nodes, c) = {} \/ nodes[c].clickable

Sure(nodes, x, n) == {c \in Holding(nodes, x, n) : Settles(nodes, x, c)}

GoesOn(nodes, x, n) ==
  Sure(nodes, x, n) # {} /\ Holding(nodes, x, Max(Sure(nodes, x, n))) # {}

StopsAt(nodes, x, n) ==
  IF Holding(nodes, x, n) = {} THEN n
  ELSE IF Sure(nodes, x, n) = {} THEN Max(Holding(nodes, x, n)) ELSE Max(Sure(nodes, x, n))

LEMMA HoldingIs ==
  ASSUME NEW nodes, IsForest(nodes), NEW x, NEW n \in DOMAIN nodes
  PROVE  /\ Holding(nodes, x, n) \in SUBSET (n + 1 .. Len(nodes))
         /\ Sure(nodes, x, n) \subseteq Holding(nodes, x, n)
         /\ Holding(nodes, x, n) # {} =>
               /\ Max(Holding(nodes, x, n)) \in Holding(nodes, x, n)
               /\ \A c \in Holding(nodes, x, n) : c <= Max(Holding(nodes, x, n))
         /\ Sure(nodes, x, n) # {} =>
               /\ Max(Sure(nodes, x, n)) \in Sure(nodes, x, n)
               /\ \A c \in Sure(nodes, x, n) : c <= Max(Sure(nodes, x, n))
<1> DEFINE N == Len(nodes)
           H == Holding(nodes, x, n)
           S == Sure(nodes, x, n)
<1>1. N \in Nat /\ DOMAIN nodes = 1 .. N /\ \A c \in 1 .. N : nodes[c].parent \in 0 .. c - 1
  BY DEF IsForest
<1>2. H \in SUBSET (n + 1 .. N)
  <2>1. \A c \in H : c \in 1 .. N /\ n \in 0 .. c - 1
    BY <1>1 DEF Holding, Children
  <2> QED
    BY <1>1, <2>1
<1>3. S \subseteq H
  BY DEF Sure
<1> HIDE DEF N, H, S
<1>4. H \in SUBSET (0 .. N) /\ S \in SUBSET (0 .. N)
  BY <1>1, <1>2, <1>3
<1>5. /\ H # {} => Max(H) \in H /\ \A c \in H : Max(H) >= c
      /\ S # {} => Max(S) \in S /\ \A c \in S : Max(S) >= c
  BY <1>1, <1>4, GreatestOf
<1>6. /\ H # {} => Max(H) \in H /\ \A c \in H : c <= Max(H)
      /\ S # {} => Max(S) \in S /\ \A c \in S : c <= Max(S)
  BY <1>5
<1> QED
  BY <1>2, <1>3, <1>6, Zenon DEF N, H, S

LEMMA DescendIs ==
  ASSUME NEW nodes, IsForest(nodes), NEW x
  PROVE  \A n \in DOMAIN nodes :
            Descend(nodes, x, n) =
              IF GoesOn(nodes, x, n) THEN Descend(nodes, x, Max(Sure(nodes, x, n)))
                                     ELSE StopsAt(nodes, x, n)
<1> DEFINE N == Len(nodes)
           holding(n) == Holding(nodes, x, n)
           top(n) == Max(Sure(nodes, x, n))
           on(n) == GoesOn(nodes, x, n)
           end(n) == StopsAt(nodes, x, n)
           Rec(h) == h = [n \in DOMAIN nodes |->
                            LET sure == {c \in holding(n) : Settles(nodes, x, c)}
                            IN  IF holding(n) = {} THEN n
                                ELSE IF sure = {} THEN Max(holding(n))
                                ELSE IF holding(Max(sure)) = {} THEN Max(sure)
                                ELSE h[Max(sure)]]
           Runs(h) == h = [n \in 1 .. N |-> IF on(n) THEN h[top(n)] ELSE end(n)]
<1>1. N \in Nat /\ DOMAIN nodes = 1 .. N
  BY DEF IsForest
<1>2. \A n \in 1 .. N : /\ on(n) => top(n) \in n + 1 .. N
                        /\ end(n) \in 0 .. N
  <2> SUFFICES ASSUME NEW n \in 1 .. N
               PROVE  (on(n) => top(n) \in n + 1 .. N) /\ end(n) \in 0 .. N
    OBVIOUS
  <2> DEFINE H == Holding(nodes, x, n)
             S == Sure(nodes, x, n)
  <2>1. /\ H \in SUBSET (n + 1 .. N) /\ S \subseteq H
        /\ H # {} => Max(H) \in H
        /\ S # {} => Max(S) \in S
    <3> HIDE DEF N
    <3> QED
      BY <1>1, HoldingIs, Zenon DEF N
  <2>2. on(n) => S # {}
    BY Zenon DEF GoesOn
  <2>3. end(n) = IF H = {} THEN n ELSE IF S = {} THEN Max(H) ELSE Max(S)
    BY Zenon DEF StopsAt
  <2> HIDE DEF H, S, on, end, N
  <2>4. n \in 0 .. N /\ \A c \in n + 1 .. N : c \in 0 .. N
    BY <1>1
  <2>5. end(n) \in 0 .. N
    BY <2>1, <2>3, <2>4
  <2>6. on(n) => Max(S) \in n + 1 .. N
    BY <2>1, <2>2
  <2> QED
    BY <2>5, <2>6 DEF S
<1>3. \A h : Rec(h) <=> Runs(h)
  <2> SUFFICES ASSUME NEW h
               PROVE  Rec(h) <=> Runs(h)
    OBVIOUS
  <2> DEFINE a(n) == LET sure == {c \in holding(n) : Settles(nodes, x, c)}
                     IN  IF holding(n) = {} THEN n
                         ELSE IF sure = {} THEN Max(holding(n))
                         ELSE IF holding(Max(sure)) = {} THEN Max(sure)
                         ELSE h[Max(sure)]
             b(n) == IF on(n) THEN h[top(n)] ELSE end(n)
  <2>1. ASSUME NEW n \in 1 .. N
        PROVE  a(n) = b(n)
    <3> DEFINE H == Holding(nodes, x, n)
               S == Sure(nodes, x, n)
               m == Max(S)
    <3>1. S \subseteq H
      BY <1>1, HoldingIs
    <3>2. a(n) = IF H = {} THEN n ELSE IF S = {} THEN Max(H)
                 ELSE IF holding(m) = {} THEN m ELSE h[m]
      BY Zenon DEF Sure
    <3>3. on(n) <=> S # {} /\ holding(m) # {}
      BY Zenon DEF GoesOn
    <3>4. b(n) = IF on(n) THEN h[m] ELSE IF H = {} THEN n ELSE IF S = {} THEN Max(H) ELSE m
      BY Zenon DEF StopsAt
    <3> HIDE DEF a, b, on, holding, S, H, m
    <3> QED
      BY <3>1, <3>2, <3>3, <3>4
  <2> HIDE DEF N, holding, top, on, end
  <2>2. Rec(h) <=> h = [n \in 1 .. N |-> a(n)]
    BY <1>1, Zenon
  <2>3. Runs(h) <=> h = [n \in 1 .. N |-> b(n)]
    BY Zenon
  <2> HIDE DEF a, b, Rec, Runs
  <2>4. [n \in 1 .. N |-> a(n)] = [n \in 1 .. N |-> b(n)]
    BY <2>1
  <2> QED
    BY <2>2, <2>3, <2>4, Zenon
<1> HIDE DEF holding, top, on, end
<1>4. \E h : Runs(h)
  <2> DEFINE back(m) == N + 1 - m
             rev == [m \in 1 .. N |->
                       [parent |-> IF on(back(m)) THEN back(top(back(m))) ELSE 0]]
             V == 0 .. N
             step == [m \in 1 .. N |-> [v \in V |-> IF on(back(m)) THEN v ELSE end(back(m))]]
  <2> HIDE DEF N
  <2>1. \A m \in 1 .. N : back(m) \in 1 .. N /\ back(back(m)) = m
    BY <1>1
  <2>2. IsForest(rev)
    <3>1. Len(rev) = N /\ DOMAIN rev = 1 .. N
      BY <1>1
    <3>2. ASSUME NEW m \in 1 .. N
          PROVE  rev[m].parent \in 0 .. m - 1
      <4>1. rev[m].parent = IF on(back(m)) THEN back(top(back(m))) ELSE 0
        OBVIOUS
      <4> DEFINE n == back(m)
                 t == top(n)
      <4>2. n \in 1 .. N /\ n = N + 1 - m /\ (on(n) => t \in n + 1 .. N)
        BY <1>2, <2>1
      <4>3. rev[m].parent = IF on(n) THEN N + 1 - t ELSE 0
        BY <4>1
      <4> HIDE DEF n, t, rev
      <4> QED
        BY <1>1, <4>2, <4>3
    <3> HIDE DEF rev
    <3> QED
      BY <1>1, <3>1, <3>2 DEF IsForest
  <2>3. 0 \in V /\ step \in [1 .. N -> [V -> V]] /\ Len(rev) = N /\ DOMAIN rev = 1 .. N
    <3>1. 0 \in V
      BY <1>1
    <3>2. \A m \in 1 .. N : end(back(m)) \in V
      BY <1>2, <2>1
    <3>3. step \in [1 .. N -> [V -> V]]
      <4> HIDE DEF back, V
      <4> QED
        BY <3>2
    <3>4. Len(rev) = N /\ DOMAIN rev = 1 .. N
      BY <1>1
    <3> QED
      BY <3>1, <3>3, <3>4
  <2>4. \A m \in 1 .. N : /\ rev[m].parent = IF on(back(m)) THEN back(top(back(m))) ELSE 0
                          /\ \A v \in V : step[m][v] = IF on(back(m)) THEN v ELSE end(back(m))
    <3> HIDE DEF back, V
    <3> QED
      OBVIOUS
  <2> HIDE DEF rev, step, V
  <2>5. PICK f : Climbs(f, rev, V, 0, step)
    BY <2>2, <2>3, ClimbsExist
  <2>6. /\ f \in [0 .. N -> V]
        /\ \A m \in 1 .. N : f[m] = step[m][f[rev[m].parent]]
    BY <2>3, <2>5 DEF Climbs
  <2> DEFINE h == [n \in 1 .. N |-> f[back(n)]]
  <2>7. ASSUME NEW n \in 1 .. N
        PROVE  h[n] = IF on(n) THEN h[top(n)] ELSE end(n)
    <3> DEFINE m == back(n)
    <3>1. m \in 1 .. N /\ back(m) = n
      BY <2>1
    <3>2. rev[m].parent \in 0 .. m - 1 /\ rev[m].parent \in 0 .. N
      BY <1>1, <2>2, <2>3, <3>1 DEF IsForest
    <3>3. f[m] = IF on(n) THEN f[back(top(n))] ELSE end(n)
      <4> DEFINE p == rev[m].parent
      <4>1. f[p] \in V
        BY <2>6, <3>2
      <4>2. f[m] = step[m][f[p]]
        BY <2>6, <3>1
      <4>3. step[m][f[p]] = IF on(back(m)) THEN f[p] ELSE end(back(m))
        BY <2>4, <3>1, <4>1
      <4>4. p = IF on(back(m)) THEN back(top(back(m))) ELSE 0
        BY <2>4, <3>1
      <4> HIDE DEF p, m, back
      <4> QED
        BY <3>1, <4>2, <4>3, <4>4
    <3>4. on(n) => top(n) \in 1 .. N
      BY <1>1, <1>2
    <3>5. h[n] = f[m]
      OBVIOUS
    <3>6. on(n) => h[top(n)] = f[back(top(n))]
      BY <3>4
    <3> HIDE DEF h, m, back
    <3> QED
      BY <3>3, <3>5, <3>6
  <2>8. Runs(h)
    <3>1. h = [n \in 1 .. N |-> h[n]]
      OBVIOUS
    <3> HIDE DEF h
    <3> QED
      BY <2>7, <3>1
  <2> QED
    BY <2>8
<1> DEFINE hit == CHOOSE h : Rec(h)
<1>5. Rec(hit)
  <2> HIDE DEF Rec, Runs
  <2> QED
    BY <1>3, <1>4
<1>6. \A n : Descend(nodes, x, n) = hit[n]
  BY Zenon DEF Descend, holding, Holding, Settles
<1> HIDE DEF hit, Rec
<1>7. Runs(hit)
  <2> HIDE DEF Runs
  <2> QED
    BY <1>3, <1>5
<1>8. \A n \in 1 .. N : hit[n] = IF on(n) THEN hit[top(n)] ELSE end(n)
  <2> HIDE DEF N
  <2> QED
    BY <1>7
<1> HIDE DEF Runs
<1>9. \A n \in DOMAIN nodes :
         Descend(nodes, x, n) = IF on(n) THEN Descend(nodes, x, top(n)) ELSE end(n)
  BY <1>1, <1>6, <1>8
<1> QED
  BY <1>9 DEF on, top, end

(* A view is chosen among its siblings there: none over it settles the     *)
(* point, and none at all if it does not.                                  *)
Chosen(nodes, x, m) ==
  /\ m \in Holding(nodes, x, nodes[m].parent)
  /\ \A d \in Holding(nodes, x, nodes[m].parent) :
        /\ d > m => ~Settles(nodes, x, d)
        /\ ~Settles(nodes, x, m) => ~Settles(nodes, x, d) /\ d <= m

(* What the descent from a node ends at.                                   *)
Finds(nodes, x, n, e) ==
  /\ e \in DOMAIN nodes /\ n \in Line(nodes, e) /\ Holding(nodes, x, e) = {}
  /\ \A m \in Line(nodes, e) :
        \/ m \in Line(nodes, n)
        \/ m > n /\ n \in Line(nodes, nodes[m].parent) /\ Chosen(nodes, x, m)

LEMMA DescendFinds ==
  ASSUME NEW nodes, IsForest(nodes), NEW x, NEW start \in DOMAIN nodes
  PROVE  Finds(nodes, x, start, Descend(nodes, x, start))
<1> DEFINE N == Len(nodes)
           par(m) == nodes[m].parent
           line(m) == Line(nodes, m)
           found(n) == Descend(nodes, x, n)
           T == {k \in 0 .. N : \A n \in 1 .. N : n > N - k => Finds(nodes, x, n, found(n))}
<1>1. N \in Nat /\ DOMAIN nodes = 1 .. N /\ \A m \in 1 .. N : par(m) \in 0 .. m - 1
  BY DEF IsForest
<1>2. \A m \in 1 .. N : line(m) = {m} \union line(par(m)) /\ m \in line(m)
  BY <1>1, LinesAre
<1>3. \A m \in 0 .. N : \A p \in line(m) : line(p) \subseteq line(m) /\ p \in 1 .. N /\ p <= m
  BY <1>1, LinesNest
<1> HIDE DEF N, par, line, found
<1>4. 0 \in T
  BY <1>1
<1>5. ASSUME NEW n \in 1 .. N, \A t \in n + 1 .. N : Finds(nodes, x, t, found(t))
      PROVE  Finds(nodes, x, n, found(n))
  <2> DEFINE H == Holding(nodes, x, n)
             S == Sure(nodes, x, n)
             e == found(n)
  <2>1. found(n) = IF GoesOn(nodes, x, n) THEN found(Max(S)) ELSE StopsAt(nodes, x, n)
    BY <1>1, DescendIs, Zenon DEF found
  <2>2. /\ H \in SUBSET (n + 1 .. N) /\ S \subseteq H
        /\ H # {} => Max(H) \in H /\ \A c \in H : c <= Max(H)
        /\ S # {} => Max(S) \in S /\ \A c \in S : c <= Max(S)
    BY <1>1, HoldingIs, Zenon DEF N
  <2>3. \A c \in H : c \in S <=> Settles(nodes, x, c)
    BY DEF Sure
  <2>4. \A c \in H : c \in 1 .. N /\ par(c) = n
    BY <1>1, <2>2 DEF Holding, Children, par
  <2>5. S # {} => Chosen(nodes, x, Max(S))
    <3> SUFFICES ASSUME S # {}
                 PROVE  Chosen(nodes, x, Max(S))
      OBVIOUS
    <3> DEFINE t == Max(S)
    <3>1. t \in H /\ Settles(nodes, x, t) /\ par(t) = n
      BY <2>2, <2>3, <2>4
    <3>2. \A d \in H : d > t => ~Settles(nodes, x, d)
      <4>1. \A d \in H : d > t => ~(d <= t)
        BY <1>1, <2>2, <3>1
      <4> HIDE DEF t, H, S
      <4> QED
        BY <2>2, <2>3, <4>1 DEF t
    <3> HIDE DEF t, S
    <3> QED
      BY <3>1, <3>2 DEF Chosen, par, t
  <2>6. CASE GoesOn(nodes, x, n)
    <3> DEFINE t == Max(S)
    <3>1. S # {}
      BY <2>6, Zenon DEF GoesOn
    <3>2. t \in H /\ Chosen(nodes, x, t) /\ t \in n + 1 .. N /\ t \in 1 .. N /\ par(t) = n
      BY <2>2, <2>4, <2>5, <3>1
    <3>3. e = found(t)
      BY <2>1, <2>6
    <3> HIDE DEF H, S, t, e
    <3>4. Finds(nodes, x, t, e)
      BY <1>5, <3>2, <3>3
    <3>5. /\ e \in 1 .. N /\ t \in line(e) /\ Holding(nodes, x, e) = {}
          /\ \A m \in line(e) : \/ m \in line(t)
                                \/ m > t /\ t \in line(par(m)) /\ Chosen(nodes, x, m)
      BY <1>1, <3>4 DEF Finds, line, par
    <3>6. line(t) = {t} \union line(n) /\ n \in line(n)
      BY <1>2, <3>2
    <3>7. e \in 0 .. N /\ t > n
      BY <1>1, <3>2, <3>5
    <3>8. n \in line(e)
      BY <1>3, <3>5, <3>6, <3>7
    <3>9. ASSUME NEW m \in line(e)
          PROVE  \/ m \in line(n)
                 \/ m > n /\ n \in line(par(m)) /\ Chosen(nodes, x, m)
      <4>1. CASE m = t
        BY <3>2, <3>6, <3>7, <4>1
      <4>2. CASE m \in line(t) /\ m # t
        BY <3>6, <4>2
      <4>3. CASE m \notin line(t)
        <5>1. m > t /\ t \in line(par(m)) /\ Chosen(nodes, x, m)
          BY <3>5, <4>3
        <5>2. m \in 1 .. N
          BY <1>3, <3>7
        <5>3. par(m) \in 0 .. N
          BY <1>1, <5>2
        <5>4. n \in line(par(m))
          BY <1>3, <3>6, <5>1, <5>3
        <5>5. m > n
          BY <1>1, <3>2, <5>1, <5>2
        <5> QED
          BY <5>1, <5>4, <5>5
      <4> QED
        BY <4>1, <4>2, <4>3
    <3> QED
      BY <1>1, <3>5, <3>8, <3>9 DEF Finds, line, par, e
  <2>7. CASE ~GoesOn(nodes, x, n)
    <3>1. e = IF H = {} THEN n ELSE IF S = {} THEN Max(H) ELSE Max(S)
      BY <2>1, <2>7, Zenon DEF StopsAt
    <3>2. CASE H = {}
      <4>1. e = n /\ Holding(nodes, x, e) = {}
        BY <3>1, <3>2
      <4> HIDE DEF e, H, S
      <4>2. e \in DOMAIN nodes /\ n \in line(e) /\ line(e) = line(n)
        BY <1>1, <1>2, <4>1
      <4> QED
        BY <4>1, <4>2 DEF Finds, line, e
    <3>3. CASE H # {}
      <4>1. e \in H /\ Chosen(nodes, x, e) /\ Holding(nodes, x, e) = {}
        <5>1. CASE S # {}
          <6>1. e = Max(S) /\ e \in H /\ Chosen(nodes, x, Max(S))
            BY <2>2, <2>5, <3>1, <3>3, <5>1
          <6>2. Holding(nodes, x, Max(S)) = {}
            BY <2>7, <5>1, Zenon DEF GoesOn
          <6> QED
            BY <6>1, <6>2
        <5>2. CASE S = {}
          <6>1. e = Max(H) /\ e \in H /\ \A c \in H : c <= e
            BY <2>2, <3>1, <3>3, <5>2
          <6>2. \A c \in H : ~Settles(nodes, x, c)
            BY <2>3, <5>2
          <6> HIDE DEF e, S
          <6>3. Holding(nodes, x, e) = {}
            BY <6>1, <6>2 DEF Settles
          <6>4. par(e) = n
            BY <2>4, <6>1
          <6>5. Chosen(nodes, x, e)
            BY <6>1, <6>2, <6>4 DEF Chosen, par
          <6> QED
            BY <6>1, <6>3, <6>5
        <5> QED
          BY <5>1, <5>2
      <4>2. e \in 1 .. N /\ par(e) = n /\ e > n
        <5>1. e \in n + 1 .. N /\ e \in 1 .. N /\ par(e) = n
          BY <2>2, <2>4, <4>1
        <5> HIDE DEF e
        <5> QED
          BY <1>1, <5>1
      <4> HIDE DEF e, H, S
      <4>3. line(e) = {e} \union line(n) /\ n \in line(n)
        BY <1>2, <4>2
      <4> QED
        BY <1>1, <4>1, <4>2, <4>3 DEF Finds, line, par, e
    <3> QED
      BY <3>2, <3>3
  <2> QED
    BY <2>6, <2>7
<1>6. ASSUME NEW k \in 1 .. N, k - 1 \in T
      PROVE  k \in T
  <2>1. \A n \in 1 .. N : n > N - (k - 1) => Finds(nodes, x, n, found(n))
    BY <1>6
  <2>2. ASSUME NEW n \in 1 .. N, n > N - k
        PROVE  Finds(nodes, x, n, found(n))
    <3>1. CASE n > N - (k - 1)
      BY <2>1, <3>1
    <3>2. CASE ~(n > N - (k - 1))
      <4>1. n = N - (k - 1)
        BY <1>1, <2>2, <3>2
      <4>2. \A t \in n + 1 .. N : t \in 1 .. N /\ t > N - (k - 1)
        BY <1>1, <4>1
      <4>3. \A t \in n + 1 .. N : Finds(nodes, x, t, found(t))
        BY <2>1, <4>2
      <4> QED
        BY <1>5, <4>3
    <3> QED
      BY <3>1, <3>2
  <2>3. k \in 0 .. N
    BY <1>1
  <2> QED
    BY <2>2, <2>3
<1>7. \A k \in 0 .. N : k \in T
  <2> HIDE DEF T
  <2> QED
    BY <1>1, <1>4, <1>6, UpTo
<1>8. start \in 1 .. N /\ N \in 0 .. N /\ start > N - N
  BY <1>1
<1>9. Finds(nodes, x, start, found(start))
  BY <1>7, <1>8
<1> QED
  BY <1>9 DEF found

LEMMA WindowIs ==
  ASSUME NEW nodes, IsForest(nodes), NEW x
  PROVE  LET w == TopmostWindow(nodes, x)
         IN  /\ w \in 0 .. Len(nodes)
             /\ w # 0 => w \in Roots(nodes) /\ ContainsPoint(nodes[w], x)
             /\ \A r \in Roots(nodes) : ContainsPoint(nodes[r], x) => r <= w
             /\ w = 0 => Under(nodes, x) = {}
<1> DEFINE N == Len(nodes)
           R == Roots(nodes)
           W == {0} \union {r \in R : ContainsPoint(nodes[r], x)}
           w == TopmostWindow(nodes, x)
<1>1. N \in Nat /\ DOMAIN nodes = 1 .. N /\ \A c \in 1 .. N : nodes[c].parent \in 0 .. c - 1
  BY DEF IsForest
<1>2. w = Max(W)
  BY Zenon DEF TopmostWindow
<1>3. R \subseteq 1 .. N /\ \A c \in 1 .. N : c \in R <=> nodes[c].parent = 0
  BY <1>1 DEF Roots, Children
<1> HIDE DEF N, R, w
<1>4. W \in SUBSET (0 .. N) /\ W # {}
  <2>1. 0 \in 0 .. N /\ \A r \in 1 .. N : r \in 0 .. N
    BY <1>1
  <2>2. \A r \in W : r = 0 \/ r \in R
    OBVIOUS
  <2>3. \A r \in W : r \in 0 .. N
    BY <1>3, <2>1, <2>2
  <2> QED
    BY <2>3
<1>5. w \in W /\ \A r \in W : w >= r
  <2> HIDE DEF W
  <2> QED
    BY <1>1, <1>2, <1>4, GreatestOf
<1>6. w \in 0 .. N /\ (w # 0 => w \in R /\ ContainsPoint(nodes[w], x))
  BY <1>4, <1>5
<1>7. \A r \in R : ContainsPoint(nodes[r], x) => r <= w
  <2>1. \A r \in W : r <= w
    BY <1>5
  <2> QED
    BY <2>1
<1>8. ASSUME w = 0, NEW n \in Under(nodes, x)
      PROVE  FALSE
  <2>1. n \in 1 .. N /\ \A m \in Line(nodes, n) : ContainsPoint(nodes[m], x)
    BY <1>1, Zenon DEF Under, Line
  <2>2. n \in 0 .. Len(nodes) /\ n # 0
    BY <1>1, <2>1 DEF N
  <2>3. PICK c \in Line(nodes, n) : nodes[c].parent = 0
    BY <2>2, Toward
  <2>4. c \in 1 .. N
    BY <1>1, <2>2, LinesNest
  <2>5. c \in R /\ ContainsPoint(nodes[c], x)
    BY <1>3, <2>1, <2>3, <2>4
  <2> QED
    BY <1>7, <1>8, <2>4, <2>5
<1> QED
  BY <1>6, <1>7, <1>8 DEF N, R, w

(* What a tap is to name: as TapFindsTheView says it of an answer.         *)
NamesTheView(nodes, x, hit) ==
  LET over  == Under(nodes, x)
      own   == Line(nodes, hit.node)
      ofApp == {n \in own : nodes[n].id = "app"}
  IN  /\ hit.node \in over /\ own = {hit.node} \union Range(hit.chain)
      /\ \A n \in over \intersect Roots(nodes) : n <= Min(own)
      /\ \A c \in Children(nodes, hit.node) : c \notin over
      /\ \A n \in over \ own :
            /\ n > hit.node => Hollow(nodes, n, x)
            /\ nodes[n].parent = nodes[hit.node].parent
               /\ Hollow(nodes, hit.node, x) /\ nodes[n].parent # 0
                  => n < hit.node /\ Hollow(nodes, n, x)
      /\ IF ofApp = {} THEN hit.anchor = Null ELSE hit.anchor = Max(ofApp)

(* Of a falling sequence, the first that has something is the greatest.    *)
LEMMA FirstIsGreatest ==
  ASSUME NEW s \in Seq(Nat), NEW N \in Nat, Range(s) \subseteq 0 .. N, NEW A,
         \A i, j \in DOMAIN s : i < j => s[i] > s[j],
         {i \in DOMAIN s : s[i] \in A} # {}
  PROVE  s[Min({i \in DOMAIN s : s[i] \in A})] = Max({n \in Range(s) : n \in A})
<1> DEFINE I == {i \in DOMAIN s : s[i] \in A}
           B == {n \in Range(s) : n \in A}
           k == Min(I)
<1>1. Len(s) \in Nat /\ DOMAIN s = 1 .. Len(s)
  OBVIOUS
<1>2. I \in SUBSET Nat /\ I # {}
  BY <1>1
<1>3. k \in I /\ \A i \in I : k <= i
  <2> HIDE DEF I
  <2> QED
    BY <1>2, MinIs
<1>4. B \in SUBSET (0 .. N) /\ s[k] \in B
  BY <1>3 DEF Range
<1>5. \A b \in B : s[k] >= b
  <2> SUFFICES ASSUME NEW b \in B
               PROVE  s[k] >= b
    OBVIOUS
  <2>1. PICK i \in DOMAIN s : s[i] = b
    BY DEF Range
  <2>2. i \in I /\ k <= i /\ k \in DOMAIN s
    BY <1>3, <2>1
  <2> HIDE DEF k, I, B
  <2>3. k \in Nat /\ i \in Nat /\ s[k] \in Nat /\ s[i] \in Nat
    BY <1>1, <2>2
  <2>4. CASE k = i
    BY <2>1, <2>3, <2>4
  <2>5. CASE k # i
    <3>1. k < i
      BY <2>2, <2>3, <2>5
    <3>2. s[k] > s[i]
      BY <2>2, <3>1
    <3> QED
      BY <2>1, <2>3, <3>2
  <2> QED
    BY <2>4, <2>5
<1> HIDE DEF B, k
<1>6. Max(B) \in B /\ \A b \in B : Max(B) >= b
  BY <1>4, GreatestOf
<1>7. Max(B) = s[k]
  <2>1. \A b \in B : b \in Nat
    BY <1>4
  <2>0. Max(B) \in Nat /\ s[k] \in Nat
    BY <1>4, <1>6, <2>1
  <2>2. Max(B) >= s[k] /\ s[k] >= Max(B)
    BY <1>4, <1>5, <1>6
  <2> QED
    BY <2>0, <2>2
<1> QED
  BY <1>7 DEF B, k, I

LEMMA TapsFind ==
  ASSUME NEW nodes, IsTree(nodes), NEW x, TopmostWindow(nodes, x) # 0
  PROVE  /\ NamesTheView(nodes, x, ResolveTap(nodes, x))
         /\ ResolveTap(nodes, x) \in [node : Nat, chain : Seq(Nat), anchor : Nat \union {Null}]
<1> DEFINE N == Len(nodes)
           par(n) == nodes[n].parent
           line(n) == Line(nodes, n)
           over == Under(nodes, x)
           w == TopmostWindow(nodes, x)
           e == Descend(nodes, x, w)
           lineage == Lineage(nodes, e)
           anchors == {d \in DOMAIN lineage : nodes[lineage[d]].id = "app"}
           hit == ResolveTap(nodes, x)
           own == line(e)
           holds(n) == ContainsPoint(nodes[n], x)
           holding(n) == Holding(nodes, x, n)
           ofApp == {n \in own : nodes[n].id = "app"}
<1>f. IsForest(nodes)
  BY DEF IsTree
<1>1. N \in Nat /\ DOMAIN nodes = 1 .. N /\ \A n \in 1 .. N : par(n) \in 0 .. n - 1
  BY <1>f DEF IsForest
<1>2. /\ line(0) = {}
      /\ \A n \in 1 .. N : line(n) = {n} \union line(par(n)) /\ n \in line(n)
      /\ \A n \in 0 .. N : line(n) \subseteq 1 .. n
  BY <1>1, <1>f, LinesAre
<1>3. \A n \in 0 .. N : \A p \in line(n) : line(p) \subseteq line(n) /\ p \in 1 .. N /\ p <= n
  BY <1>1, <1>f, LinesNest
<1>4. /\ w \in 1 .. N /\ par(w) = 0 /\ holds(w)
      /\ \A r \in Roots(nodes) : holds(r) => r <= w
  <2> HIDE DEF w, N
  <2>1. /\ w \in 0 .. N /\ w \in Roots(nodes) /\ holds(w)
        /\ \A r \in Roots(nodes) : holds(r) => r <= w
    BY <1>f, WindowIs DEF w, N
  <2> QED
    BY <1>1, <2>1 DEF Roots, Children
<1>5. Finds(nodes, x, w, e)
  <2> HIDE DEF w
  <2> QED
    BY <1>1, <1>4, <1>f, DescendFinds DEF w
<1>6. hit = [node |-> e, chain |-> Tail(lineage),
             anchor |-> IF anchors = {} THEN Null ELSE lineage[Min(anchors)]]
  BY Zenon DEF ResolveTap
<1>7. over = {n \in 1 .. N : \A m \in line(n) : holds(m)}
  BY <1>1, Zenon DEF Under, Line
<1>h. \A n, c : c \in holding(n) <=> c \in 1 .. N /\ par(c) = n /\ holds(c)
  BY <1>1 DEF Holding, Children
<1> HIDE DEF holding, N, par, line, over, w, e, holds
<1>8. /\ e \in 1 .. N /\ w \in own /\ holding(e) = {}
      /\ \A m \in own : \/ m \in line(w)
                        \/ m > w /\ w \in line(par(m)) /\ Chosen(nodes, x, m)
  BY <1>1, <1>5 DEF Finds, line, holding, par
<1>9. line(w) = {w} /\ e \in own
  BY <1>2, <1>4, <1>8
<1>10. /\ \A m \in own : m = w \/ (m > w /\ w \in line(par(m)) /\ Chosen(nodes, x, m))
       /\ own \subseteq 1 .. N /\ \A m \in own : m >= w
  <2>1. own \subseteq 1 .. N
    BY <1>1, <1>3, <1>8
  <2>2. \A m \in own : m = w \/ (m > w /\ w \in line(par(m)) /\ Chosen(nodes, x, m))
    BY <1>8, <1>9
  <2>3. \A m \in own : m >= w
    <3> HIDE DEF own
    <3>1. SUFFICES ASSUME NEW m \in own
                   PROVE  m >= w
      OBVIOUS
    <3>2. m \in Nat /\ w \in Nat /\ (m = w \/ m > w)
      BY <1>1, <1>4, <2>1, <2>2
    <3> QED
      BY <3>2
  <2> QED
    BY <2>1, <2>2, <2>3
<1>11. \A m \in own : m # w => m \in holding(par(m))
                               /\ \A d \in holding(par(m)) :
                                     /\ d > m => ~Settles(nodes, x, d)
                                     /\ ~Settles(nodes, x, m) => ~Settles(nodes, x, d) /\ d <= m
  BY <1>10 DEF Chosen, holding, par
<1>12. e \in over
  <2>1. \A m \in own : holds(m)
    BY <1>4, <1>11, <1>h
  <2> QED
    BY <1>7, <1>8, <2>1
<1>13. own = {e} \union Range(Tail(lineage))
  <2>1. Tail(lineage) = Lineage(nodes, par(e))
    BY <1>1, <1>8, <1>f, LinesAre DEF par
  <2> QED
    BY <1>2, <1>8, <2>1 DEF line, Line
<1>14. \A n \in over \intersect Roots(nodes) : n <= Min(own)
  <2>1. Min(own) = w
    <3>1. own \in SUBSET Nat /\ own # {}
      BY <1>1, <1>8, <1>10
    <3> HIDE DEF own
    <3>2. Min(own) \in own /\ \A m \in own : Min(own) <= m
      BY <3>1, MinIs
    <3>3. Min(own) <= w /\ Min(own) >= w /\ Min(own) \in Nat /\ w \in Nat
      BY <1>8, <1>10, <3>1, <3>2
    <3> QED
      BY <3>3
  <2>2. \A n \in over : holds(n)
    BY <1>2, <1>7
  <2> HIDE DEF own
  <2> QED
    BY <1>4, <2>1, <2>2
<1>15. \A c \in Children(nodes, e) : c \notin over
  <2>1. \A c \in Children(nodes, e) : c \in 1 .. N /\ par(c) = e
    BY <1>1 DEF Children, par
  <2>2. \A n \in over : holds(n)
    BY <1>2, <1>7
  <2> QED
    BY <1>8, <1>h, <2>1, <2>2
<1>s. \A d \in 1 .. N : ~Settles(nodes, x, d) =>
         /\ holding(d) = {} /\ Children(nodes, d) # {} /\ ~nodes[d].clickable
         /\ Hollow(nodes, d, x)
  <2>1. \A d \in 1 .. N : ~Settles(nodes, x, d) =>
           holding(d) = {} /\ Children(nodes, d) # {} /\ ~nodes[d].clickable
    BY DEF Settles, holding
  <2>2. \A d : holding(d) = {} => \A c \in Children(nodes, d) : ~ContainsPoint(nodes[c], x)
    BY DEF holding, Holding
  <2> QED
    BY <2>1, <2>2 DEF Hollow
<1>16. ASSUME NEW n \in over, n \notin own, n > e
       PROVE  Hollow(nodes, n, x)
  <2>1. n \in 1 .. N /\ \A m \in line(n) : holds(m)
    BY <1>7
  <2>2. PICK d \in line(n) : d \notin own /\ par(d) \in {0} \union own
    BY <1>1, <1>16, <1>f, <2>1, Leaves DEF line, par
  <2>3. d \in 1 .. N /\ holds(d) /\ n \in 0 .. N
    BY <1>1, <1>3, <2>1
  <2>4. par(d) # e
    BY <1>8, <1>h, <2>3
  <2>5. e \in 0 .. N
    BY <1>1, <1>8
  <2>6. \E c \in line(e) : par(c) = par(d)
    BY <1>f, <2>2, <2>4, <2>5, Toward DEF line, par, N
  <2>7. PICK c \in own : par(c) = par(d)
    BY <2>6
  <2>8. c # d /\ c \in 1 .. N /\ c <= e
    BY <1>3, <2>2, <2>5, <2>7
  <2>9. ~(d < c)
    <3> SUFFICES ASSUME d < c
                 PROVE  FALSE
      OBVIOUS
    <3>1. c <= n
      BY <1>1, <1>8, <1>16, <2>1, <2>8
    <3>2. d \notin Line(nodes, n)
      BY <1>1, <2>1, <2>3, <2>7, <2>8, <3>1, SiblingsPart DEF par
    <3> QED
      BY <3>2 DEF line
  <2>10. d > c
    BY <1>1, <2>3, <2>8, <2>9
  <2>11. c # w
    <3> SUFFICES ASSUME c = w
                 PROVE  FALSE
      OBVIOUS
    <3>1. d \in Roots(nodes)
      BY <1>1, <1>4, <2>3, <2>7 DEF Roots, Children, par
    <3>2. d <= w
      BY <1>4, <2>3, <3>1
    <3> QED
      BY <1>1, <1>4, <2>3, <2>10, <3>2
  <2>12. ~Settles(nodes, x, d)
    BY <1>11, <1>h, <2>3, <2>7, <2>10, <2>11
  <2>13. n = d
    <3> SUFFICES ASSUME n # d
                 PROVE  FALSE
      OBVIOUS
    <3>1. PICK b \in line(n) : par(b) = d
      BY <1>f, <2>2, <2>3, Toward DEF line, par, N
    <3>2. b \in holding(d)
      BY <1>3, <1>h, <2>1, <2>3, <3>1
    <3> QED
      BY <1>s, <2>3, <2>12, <3>2
  <2> QED
    BY <1>s, <2>1, <2>12, <2>13
<1>17. ASSUME NEW n \in over, n \notin own, par(n) = par(e), Hollow(nodes, e, x), par(n) # 0
       PROVE  n < e /\ Hollow(nodes, n, x)
  <2>1. n \in 1 .. N /\ holds(n) /\ n # e /\ e # w
    BY <1>2, <1>4, <1>7, <1>9, <1>17
  <2>2. n \in holding(par(e))
    BY <1>17, <1>h, <2>1
  <2>3. ~Settles(nodes, x, e)
    <3>1. Holding(nodes, x, e) = {}
      BY <1>8 DEF holding
    <3> QED
      BY <1>17, <3>1 DEF Settles, Hollow
  <2>4. ~Settles(nodes, x, n) /\ n <= e
    BY <1>9, <1>11, <2>1, <2>2, <2>3
  <2> QED
    BY <1>1, <1>8, <1>s, <2>1, <2>4
<1>18. hit.anchor = IF ofApp = {} THEN Null ELSE Max(ofApp)
  <2> DEFINE A == {n \in 1 .. N : nodes[n].id = "app"}
  <2>1. /\ lineage \in Seq(Nat) /\ Range(lineage) = own
        /\ \A i, j \in DOMAIN lineage : i < j => lineage[i] > lineage[j]
    <3>1. e \in 0 .. Len(nodes)
      BY <1>1, <1>8 DEF N
    <3> QED
      BY <1>f, <3>1, LineageIs, LinesAre DEF line, Line
  <2>2. ofApp = {n \in Range(lineage) : n \in A}
    BY <1>10, <2>1
  <2>3. anchors = {d \in DOMAIN lineage : lineage[d] \in A}
    <3>1. \A d \in DOMAIN lineage : lineage[d] \in 1 .. N
      BY <1>10, <2>1 DEF Range
    <3> HIDE DEF lineage
    <3> QED
      BY <3>1
  <2>4. Range(lineage) \subseteq 0 .. N
    BY <1>1, <1>10, <2>1
  <2>5. hit.anchor = IF anchors = {} THEN Null ELSE lineage[Min(anchors)]
    BY <1>6
  <2> HIDE DEF lineage, A, anchors, ofApp, hit
  <2>6. anchors = {} <=> ofApp = {}
    BY <2>2, <2>3 DEF Range
  <2>7. anchors # {} => lineage[Min(anchors)] = Max(ofApp)
    <3> SUFFICES ASSUME anchors # {}
                 PROVE  lineage[Min(anchors)] = Max(ofApp)
      OBVIOUS
    <3>1. {d \in DOMAIN lineage : lineage[d] \in A} # {}
      BY <2>3
    <3>2. lineage[Min({d \in DOMAIN lineage : lineage[d] \in A})]
             = Max({n \in Range(lineage) : n \in A})
      BY <1>1, <2>1, <2>4, <3>1, FirstIsGreatest
    <3> QED
      BY <2>2, <2>3, <3>2, Zenon
  <2> QED
    BY <2>5, <2>6, <2>7
<1>19. hit.node = e /\ hit.chain = Tail(lineage)
  BY <1>6
<1>a. hit \in [node : Nat, chain : Seq(Nat), anchor : Nat \union {Null}]
  <2>1. e \in Nat
    BY <1>1, <1>8
  <2>2. Tail(lineage) \in Seq(Nat)
    <3>1. e \in DOMAIN nodes /\ par(e) \in 0 .. Len(nodes)
      BY <1>1, <1>8 DEF N
    <3>2. Tail(lineage) = Lineage(nodes, par(e))
      BY <1>f, <3>1, LinesAre DEF par
    <3>3. Lineage(nodes, par(e)) \in Seq(Nat)
      BY <1>f, <3>1, LineageIs
    <3> QED
      BY <3>2, <3>3
  <2>3. ofApp # {} => Max(ofApp) \in Nat
    <3>1. ofApp \in SUBSET (1 .. N)
      BY <1>10
    <3> HIDE DEF ofApp
    <3>2. ofApp # {} => Max(ofApp) \in 1 .. N
      BY <1>1, <3>1, MaxOf
    <3> QED
      BY <3>2
  <2>4. hit = [node |-> e, chain |-> Tail(lineage), anchor |-> hit.anchor]
    BY <1>6
  <2>5. hit.anchor \in Nat \union {Null}
    <3> HIDE DEF hit, ofApp
    <3> QED
      BY <1>18, <2>3
  <2> DEFINE chain == Tail(lineage)
             anchor == hit.anchor
  <2>6. chain \in Seq(Nat) /\ anchor \in Nat \union {Null}
        /\ hit = [node |-> e, chain |-> chain, anchor |-> anchor]
    BY <2>2, <2>4, <2>5
  <2> HIDE DEF hit, chain, anchor
  <2> QED
    BY <2>1, <2>6
<1> HIDE DEF hit, lineage, anchors, ofApp
<1>20. NamesTheView(nodes, x, hit)
  <2>1. ofApp = {n \in Line(nodes, e) : nodes[n].id = "app"}
    BY DEF ofApp, line
  <2>2. \A n \in over \ own :
            /\ n > e => Hollow(nodes, n, x)
            /\ par(n) = par(e) /\ Hollow(nodes, e, x) /\ par(n) # 0
                  => n < e /\ Hollow(nodes, n, x)
    BY <1>16, <1>17
  <2> QED
    BY <1>12, <1>13, <1>14, <1>15, <1>18, <1>19, <2>1, <2>2, Zenon
       DEF NamesTheView, over, line, par
<1> QED
  BY <1>a, <1>20 DEF hit

(* The tags of views W, and what the reading of them may have come to.     *)
TagsOf(W) == [name : {"open", "leaf"}, view : W]
             \union [name : {"other", "hierarchy", "close"}, view : {Null}]

NodesOf(W) == {BuildNode(v, q) : v \in W, q \in Nat}

ParsesOf(W) == [nodes : Seq(NodesOf(W)), stack : Seq(Nat),
                sawHierarchy : BOOLEAN, broken : BOOLEAN]

ParentIn(stack) == IF stack = <<>> THEN 0 ELSE Last(stack)

(* What a tag makes of what was read.                                      *)
TagMakes(p, t, r) ==
  /\ p.broken => r = p
  /\ ~p.broken =>
       /\ t.name = "other" => r = p
       /\ t.name = "hierarchy" => r = [p EXCEPT !.sawHierarchy = TRUE]
       /\ t.name \in {"open", "leaf"} =>
             r = [p EXCEPT !.nodes = Append(p.nodes, BuildNode(t.view, ParentIn(p.stack))),
                           !.stack = IF t.name = "leaf" THEN p.stack
                                     ELSE Append(p.stack, Len(p.nodes) + 1)]
       /\ t.name = "close" =>
             r = IF p.stack = <<>> THEN [p EXCEPT !.broken = TRUE]
                 ELSE [p EXCEPT !.stack = Front(p.stack)]

LEMMA ReadTagIs ==
  ASSUME NEW W, NEW p \in ParsesOf(W), NEW t \in TagsOf(W)
  PROVE  ReadTag(p, t) \in ParsesOf(W) /\ TagMakes(p, t, ReadTag(p, t))
<1> DEFINE r == ReadTag(p, t)
           node == BuildNode(t.view, ParentIn(p.stack))
<1>1. /\ p.nodes \in Seq(NodesOf(W)) /\ p.stack \in Seq(Nat)
      /\ p.sawHierarchy \in BOOLEAN /\ p.broken \in BOOLEAN
      /\ Len(p.nodes) \in Nat /\ Len(p.stack) \in Nat
      /\ t.name \in {"other", "hierarchy", "open", "leaf", "close"}
      /\ t.name \in {"open", "leaf"} => t.view \in W
  BY DEF ParsesOf, TagsOf
<1>2. ParentIn(p.stack) \in Nat
  BY <1>1 DEF ParentIn, Last
<1>3. t.name \in {"open", "leaf"} => node \in NodesOf(W)
  BY <1>1, <1>2 DEF NodesOf
<1>4. CASE p.broken
  <2>1. r = p
    BY <1>4 DEF ReadTag
  <2> QED
    BY <1>4, <2>1 DEF TagMakes
<1>5. CASE ~p.broken /\ t.name = "other"
  <2>1. r = p
    BY <1>5 DEF ReadTag
  <2> QED
    BY <1>5, <2>1 DEF TagMakes
<1>6. CASE ~p.broken /\ t.name = "hierarchy"
  <2>1. r = [p EXCEPT !.sawHierarchy = TRUE]
    BY <1>6 DEF ReadTag
  <2>2. r \in ParsesOf(W)
    BY <2>1 DEF ParsesOf
  <2> QED
    BY <1>6, <2>1, <2>2 DEF TagMakes
<1>7. CASE ~p.broken /\ t.name \in {"open", "leaf"}
  <2> DEFINE nodes == Append(p.nodes, node)
             stack == IF t.name = "leaf" THEN p.stack
                      ELSE Append(p.stack, Len(p.nodes) + 1)
  <2>1. r = [p EXCEPT !.nodes = nodes, !.stack = stack]
    BY <1>7 DEF ReadTag, ParentIn
  <2>2. nodes \in Seq(NodesOf(W)) /\ stack \in Seq(Nat)
    <3> HIDE DEF node
    <3> QED
      BY <1>1, <1>3, <1>7
  <2>3. r \in ParsesOf(W)
    <3> HIDE DEF nodes, stack, r
    <3> QED
      BY <2>1, <2>2 DEF ParsesOf
  <2> QED
    BY <1>7, <2>1, <2>3 DEF TagMakes
<1>8. CASE ~p.broken /\ t.name = "close"
  <2>1. r = IF p.stack = <<>> THEN [p EXCEPT !.broken = TRUE]
            ELSE [p EXCEPT !.stack = Front(p.stack)]
    BY <1>8 DEF ReadTag
  <2>2. p.stack # <<>> => Front(p.stack) \in Seq(Nat)
    BY <1>1 DEF Front
  <2>3. r \in ParsesOf(W)
    <3> HIDE DEF r
    <3> QED
      BY <2>1, <2>2 DEF ParsesOf
  <2> QED
    BY <1>8, <2>1, <2>3 DEF TagMakes
<1>9. r \in ParsesOf(W)
  BY <1>1, <1>4, <1>5, <1>6, <1>7, <1>8
<1>10. TagMakes(p, t, r)
  BY <1>1, <1>4, <1>5, <1>6, <1>7, <1>8 DEF TagMakes
<1> QED
  BY <1>9, <1>10

(* What reading tags comes to, from what was read before.                  *)
Read(base, tags) == FoldLeft(ReadTag, base, tags)

(* The readings of the beginnings of a dump.                               *)
Reads(f, W, base, tags) ==
  /\ f \in [0 .. Len(tags) -> ParsesOf(W)] /\ f[0] = base
  /\ \A k \in 1 .. Len(tags) : f[k] = ReadTag(f[k - 1], tags[k])
  /\ Read(base, tags) = f[Len(tags)]

LEMMA ReadsExist ==
  ASSUME NEW W, NEW base \in ParsesOf(W), NEW tags \in Seq(TagsOf(W))
  PROVE  \E f : Reads(f, W, base, tags)
<1> DEFINE n == Len(tags)
           V == ParsesOf(W)
           step == [k \in 1 .. n |-> [v \in V |-> ReadTag(v, tags[k])]]
           Iter(g) == g = [t \in SUBSET (DOMAIN tags) |->
                             IF t = {} THEN base
                             ELSE ReadTag(g[t \ {Max(t)}], tags[Max(t)])]
<1>1. n \in Nat /\ DOMAIN tags = 1 .. n /\ \A k \in 1 .. n : tags[k] \in TagsOf(W)
  OBVIOUS
<1>2. \A v \in V : \A k \in 1 .. n : ReadTag(v, tags[k]) \in V
  BY <1>1, ReadTagIs
<1>3. step \in [1 .. n -> [V -> V]]
  <2> HIDE DEF V
  <2> QED
    BY <1>2
<1>4. PICK some : Iterates(some, n, V, base, step)
  <2> HIDE DEF n, V, step
  <2> QED
    BY <1>1, <1>3, IterExists DEF V
<1>5. some \in [SUBSET (1 .. n) -> V] /\ Iter(some)
  <2>1. \A t \in SUBSET (1 .. n) : t # {} => Max(t) \in 1 .. n
    <3> HIDE DEF n
    <3> QED
      BY <1>1, MaxOf
  <2>2. some \in [SUBSET (1 .. n) -> V]
    BY <1>4 DEF Iterates
  <2>3. ASSUME NEW t \in SUBSET (1 .. n)
        PROVE  some[t] = IF t = {} THEN base
                         ELSE ReadTag(some[t \ {Max(t)}], tags[Max(t)])
    <3>1. some[t] = IF t = {} THEN base ELSE step[Max(t)][some[t \ {Max(t)}]]
      BY <1>4 DEF Iterates
    <3>2. some[t \ {Max(t)}] \in V
      <4> HIDE DEF V
      <4> QED
        BY <2>2
    <3>3. t # {} => step[Max(t)][some[t \ {Max(t)}]]
                      = ReadTag(some[t \ {Max(t)}], tags[Max(t)])
      <4> HIDE DEF V
      <4> QED
        BY <2>1, <3>2
    <3> HIDE DEF step
    <3> QED
      BY <3>1, <3>3
  <2>4. some = [t \in SUBSET (DOMAIN tags) |-> some[t]]
    BY <1>1, <2>2
  <2> QED
    BY <1>1, <2>2, <2>3, <2>4
<1>6. PICK g : Iter(g) /\ Read(base, tags) = g[DOMAIN tags]
  BY <1>5, Zenon DEF Read, FoldLeft, MapThenFoldSet
<1> DEFINE f == [k \in 0 .. n |-> g[1 .. k]]
<1>7. f[0] = base
  <2>1. 1 .. 0 = {} /\ {} \in SUBSET (DOMAIN tags) /\ 0 \in 0 .. n
    BY <1>1
  <2> QED
    BY <1>6, <2>1
<1>8. ASSUME NEW k \in 1 .. n
      PROVE  f[k] = ReadTag(f[k - 1], tags[k])
  <2>1. /\ 1 .. k \in SUBSET (DOMAIN tags) /\ 1 .. k # {}
        /\ Max(1 .. k) = k /\ (1 .. k) \ {k} = 1 .. (k - 1)
    <3> HIDE DEF n
    <3> QED
      BY <1>1, Beginnings
  <2>2. g[1 .. k] = ReadTag(g[1 .. (k - 1)], tags[k])
    BY <1>6, <2>1
  <2>3. k \in 0 .. n /\ k - 1 \in 0 .. n
    BY <1>1
  <2> QED
    BY <2>2, <2>3
<1>9. Read(base, tags) = f[n]
  BY <1>1, <1>6
<1> HIDE DEF f
<1>10. \A k \in 0 .. n : f[k] \in V
  <2> DEFINE T == {k \in 0 .. n : f[k] \in V}
  <2>1. 0 \in T
    BY <1>1, <1>7
  <2>2. \A k \in 1 .. n : k - 1 \in T => k \in T
    <3>1. \A k \in 1 .. n : k \in 0 .. n
      BY <1>1
    <3> HIDE DEF V, n
    <3> QED
      BY <1>2, <1>8, <3>1
  <2> HIDE DEF T, n
  <2>3. \A k \in 0 .. n : k \in T
    BY <1>1, <2>1, <2>2, UpTo
  <2> QED
    BY <2>3 DEF T
<1>11. f \in [0 .. n -> V]
  BY <1>10 DEF f
<1> QED
  BY <1>7, <1>8, <1>9, <1>11 DEF Reads

(* A node that is added leaves the lines of the others as they are.        *)
LEMMA LinesOfMore ==
  ASSUME NEW E, NEW nodes \in Seq(E), IsForest(nodes), NEW x \in E,
         x.parent \in 0 .. Len(nodes)
  PROVE  LET more == Append(nodes, x)
             N    == Len(nodes)
         IN  /\ IsForest(more) /\ Len(more) = N + 1 /\ DOMAIN more = 1 .. N + 1
             /\ more[N + 1] = x /\ \A m \in 1 .. N : more[m] = nodes[m]
             /\ \A m \in 0 .. N : Line(more, m) = Line(nodes, m)
             /\ Line(more, N + 1) = {N + 1} \union Line(nodes, x.parent)
<1> DEFINE more == Append(nodes, x)
           N == Len(nodes)
           T == {m \in 0 .. N : Line(more, m) = Line(nodes, m)}
<1>1. /\ N \in Nat /\ DOMAIN nodes = 1 .. N
      /\ \A m \in 1 .. N : nodes[m].parent \in 0 .. m - 1
  BY DEF IsForest
<1>2. /\ Len(more) = N + 1 /\ DOMAIN more = 1 .. N + 1
      /\ more[N + 1] = x /\ \A m \in 1 .. N : more[m] = nodes[m]
  BY <1>1
<1>3. IsForest(more)
  <2> HIDE DEF more, N
  <2>1. \A m \in 1 .. N + 1 : m \in 1 .. N \/ m = N + 1
    BY <1>1
  <2>2. \A m \in 1 .. N + 1 : more[m].parent \in 0 .. m - 1
    <3>1. x.parent \in 0 .. (N + 1) - 1
      BY <1>1 DEF N
    <3> QED
      BY <1>1, <1>2, <2>1, <3>1
  <2> QED
    BY <1>1, <1>2, <2>2 DEF IsForest
<1>4. /\ Line(nodes, 0) = {} /\ Line(more, 0) = {}
      /\ \A m \in 1 .. N : Line(nodes, m) = {m} \union Line(nodes, nodes[m].parent)
      /\ \A m \in 1 .. N + 1 : Line(more, m) = {m} \union Line(more, more[m].parent)
  <2> HIDE DEF more
  <2> QED
    BY <1>1, <1>2, <1>3, LinesAre
<1>5. 0 \in T
  <2>1. 0 \in 0 .. N
    BY <1>1
  <2> HIDE DEF more, N
  <2> QED
    BY <1>4, <2>1
<1>6. ASSUME NEW m \in 1 .. N, nodes[m].parent \in T
      PROVE  m \in T
  <2>0. Line(more, nodes[m].parent) = Line(nodes, nodes[m].parent)
    BY <1>6
  <2>1. m \in 0 .. N /\ m \in 1 .. N + 1 /\ more[m] = nodes[m]
    BY <1>1, <1>2
  <2> HIDE DEF more, N
  <2>2. Line(more, m) = Line(nodes, m)
    BY <1>4, <2>0, <2>1
  <2> QED
    BY <2>1, <2>2
<1>7. \A m \in 0 .. N : m \in T
  <2> HIDE DEF T, N
  <2> QED
    BY <1>1, <1>5, <1>6, ForestInduction DEF N
<1>8. Line(more, N + 1) = {N + 1} \union Line(nodes, x.parent)
  <2>1. N + 1 \in 1 .. N + 1 /\ x.parent \in 0 .. N
    BY <1>1
  <2> HIDE DEF more, N
  <2> QED
    BY <1>2, <1>4, <1>7, <2>1
<1> QED
  BY <1>2, <1>3, <1>7, <1>8

(* What has been read so far: the open views are one line, and the last    *)
(* view read is in all of them.                                            *)
AreOpen(nodes, stack) ==
  /\ IsTree(nodes)
  /\ \A k \in 1 .. Len(stack) :
        /\ stack[k] \in 1 .. Len(nodes)
        /\ Line(nodes, stack[k]) = {stack[j] : j \in 1 .. k}
        /\ stack[k] \in Line(nodes, Len(nodes))

IsRead(p) == AreOpen(p.nodes, p.stack)

LEMMA ViewKeepsRead ==
  ASSUME NEW W, NEW p \in ParsesOf(W), IsRead(p), NEW x \in NodesOf(W),
         x.parent = ParentIn(p.stack)
  PROVE  /\ IsRead([p EXCEPT !.nodes = Append(p.nodes, x)])
         /\ IsRead([p EXCEPT !.nodes = Append(p.nodes, x),
                             !.stack = Append(p.stack, Len(p.nodes) + 1)])
<1> DEFINE nodes == p.nodes
           stack == p.stack
           N == Len(nodes)
           S == Len(stack)
           more == Append(nodes, x)
           deeper == Append(stack, N + 1)
<1>1. /\ nodes \in Seq(NodesOf(W)) /\ stack \in Seq(Nat) /\ N \in Nat /\ S \in Nat
      /\ DOMAIN nodes = 1 .. N
  BY DEF ParsesOf
<1>2. /\ IsForest(nodes)
      /\ \A n \in 1 .. N : n > 1 => nodes[n].parent \in {0} \union Line(nodes, n - 1)
  BY <1>1 DEF IsRead, AreOpen, IsTree
<1>3. \A k \in 1 .. S : /\ stack[k] \in 1 .. N
                        /\ Line(nodes, stack[k]) = {stack[j] : j \in 1 .. k}
                        /\ stack[k] \in Line(nodes, N)
  BY DEF IsRead, AreOpen
<1>4. /\ x.parent \in 0 .. N /\ x.parent \in {0} \union Line(nodes, N)
      /\ Line(nodes, x.parent) = {stack[j] : j \in 1 .. S}
  <2>1. CASE stack = <<>>
    <3>1. x.parent = 0 /\ S = 0
      BY <2>1 DEF ParentIn
    <3>2. Line(nodes, 0) = {}
      BY <1>2, LinesAre
    <3>3. 0 \in 0 .. N /\ 1 .. 0 = {}
      BY <1>1
    <3> QED
      BY <3>1, <3>2, <3>3
  <2>2. CASE stack # <<>>
    <3>1. S \in 1 .. S /\ x.parent = stack[S]
      BY <1>1, <2>2 DEF ParentIn, Last
    <3> HIDE DEF stack, S, N
    <3>2. x.parent \in 1 .. N
      BY <1>3, <3>1
    <3>3. x.parent \in 0 .. N
      BY <1>1, <3>2
    <3> QED
      BY <1>3, <3>1, <3>3
  <2> QED
    BY <2>1, <2>2
<1>5. /\ IsForest(more) /\ Len(more) = N + 1 /\ DOMAIN more = 1 .. N + 1
      /\ more[N + 1] = x /\ \A m \in 1 .. N : more[m] = nodes[m]
      /\ \A m \in 0 .. N : Line(more, m) = Line(nodes, m)
      /\ Line(more, N + 1) = {N + 1} \union Line(nodes, x.parent)
  <2> HIDE DEF nodes
  <2> QED
    BY <1>1, <1>2, <1>4, LinesOfMore
<1>6. /\ Len(deeper) = S + 1 /\ deeper[S + 1] = N + 1
      /\ \A k \in 1 .. S : deeper[k] = stack[k]
  BY <1>1
<1> HIDE DEF nodes, stack, N, S, more, deeper
<1>7. IsTree(more)
  <2>1. ASSUME NEW n \in 1 .. N + 1, n > 1
        PROVE  more[n].parent \in {0} \union Line(more, n - 1)
    <3>1. n - 1 \in 0 .. N /\ Line(more, n - 1) = Line(nodes, n - 1)
      BY <1>1, <1>5, <2>1
    <3>2. CASE n = N + 1
      <4>1. n - 1 = N
        BY <1>1, <3>2
      <4> QED
        BY <1>4, <1>5, <3>1, <3>2, <4>1
    <3>3. CASE n # N + 1
      <4>1. n \in 1 .. N
        BY <1>1, <3>3
      <4> QED
        BY <1>2, <1>5, <2>1, <3>1, <4>1
    <3> QED
      BY <3>2, <3>3
  <2> QED
    BY <1>5, <2>1 DEF IsTree
<1>8. \A k \in 1 .. S : /\ stack[k] \in 1 .. N + 1
                        /\ Line(more, stack[k]) = {stack[j] : j \in 1 .. k}
                        /\ stack[k] \in Line(more, N + 1)
  <2> SUFFICES ASSUME NEW k \in 1 .. S
               PROVE  /\ stack[k] \in 1 .. N + 1
                      /\ Line(more, stack[k]) = {stack[j] : j \in 1 .. k}
                      /\ stack[k] \in Line(more, N + 1)
    OBVIOUS
  <2>1. stack[k] \in 1 .. N /\ stack[k] \in 1 .. N + 1 /\ stack[k] \in 0 .. N
    <3>1. stack[k] \in 1 .. N
      BY <1>3
    <3> QED
      BY <1>1, <3>1
  <2>2. Line(more, stack[k]) = {stack[j] : j \in 1 .. k}
    BY <1>3, <1>5, <2>1
  <2>3. stack[k] \in Line(more, N + 1)
    BY <1>4, <1>5
  <2> QED
    BY <2>1, <2>2, <2>3
<1>9. IsRead([p EXCEPT !.nodes = more])
  <2> DEFINE q == [p EXCEPT !.nodes = more]
  <2>1. q.nodes = more /\ q.stack = stack
    BY DEF ParsesOf, stack
  <2>2. AreOpen(more, stack)
    BY <1>5, <1>7, <1>8 DEF AreOpen, S
  <2> QED
    BY <2>1, <2>2, Zenon DEF IsRead
<1>10. IsRead([p EXCEPT !.nodes = more, !.stack = deeper])
  <2> DEFINE q == [p EXCEPT !.nodes = more, !.stack = deeper]
  <2>1. q.nodes = more /\ q.stack = deeper
    BY DEF ParsesOf
  <2>2. ASSUME NEW k \in 1 .. S + 1
        PROVE  /\ deeper[k] \in 1 .. N + 1
               /\ Line(more, deeper[k]) = {deeper[j] : j \in 1 .. k}
               /\ deeper[k] \in Line(more, N + 1)
    <3>1. CASE k = S + 1
      <4>1. {deeper[j] : j \in 1 .. S + 1} = {N + 1} \union {stack[j] : j \in 1 .. S}
        <5>1. 1 .. S + 1 = {S + 1} \union (1 .. S)
          BY <1>1
        <5> QED
          BY <1>6, <5>1
      <4>2. N + 1 \in 1 .. N + 1
        BY <1>1
      <4> QED
        BY <1>4, <1>5, <1>6, <3>1, <4>1, <4>2
    <3>2. CASE k # S + 1
      <4>1. k \in 1 .. S /\ 1 .. k \subseteq 1 .. S
        BY <1>1, <3>2
      <4>2. {deeper[j] : j \in 1 .. k} = {stack[j] : j \in 1 .. k}
        BY <1>6, <4>1
      <4> QED
        BY <1>6, <1>8, <4>1, <4>2
    <3> QED
      BY <3>1, <3>2
  <2>3. AreOpen(more, deeper)
    BY <1>5, <1>6, <1>7, <2>2 DEF AreOpen
  <2> QED
    BY <2>1, <2>3, Zenon DEF IsRead
<1> QED
  BY <1>9, <1>10 DEF more, nodes, deeper, stack, N

LEMMA TagKeepsRead ==
  ASSUME NEW W, NEW p \in ParsesOf(W), IsRead(p), NEW t \in TagsOf(W)
  PROVE  IsRead(ReadTag(p, t))
<1> DEFINE r == ReadTag(p, t)
<1>1. /\ p.stack \in Seq(Nat) /\ Len(p.stack) \in Nat /\ p.nodes \in Seq(NodesOf(W))
      /\ t.name \in {"other", "hierarchy", "open", "leaf", "close"}
      /\ t.name \in {"open", "leaf"} => t.view \in W
  BY DEF ParsesOf, TagsOf
<1>2. /\ p.broken => r = p
      /\ ~p.broken =>
           /\ t.name = "other" => r = p
           /\ t.name = "hierarchy" => r = [p EXCEPT !.sawHierarchy = TRUE]
           /\ t.name \in {"open", "leaf"} =>
                 r = [p EXCEPT !.nodes = Append(p.nodes, BuildNode(t.view, ParentIn(p.stack))),
                               !.stack = IF t.name = "leaf" THEN p.stack
                                         ELSE Append(p.stack, Len(p.nodes) + 1)]
           /\ t.name = "close" =>
                 r = IF p.stack = <<>> THEN [p EXCEPT !.broken = TRUE]
                     ELSE [p EXCEPT !.stack = Front(p.stack)]
  <2>1. TagMakes(p, t, r)
    BY ReadTagIs
  <2> HIDE DEF r
  <2> QED
    BY <2>1 DEF TagMakes
<1> HIDE DEF r
<1>3. CASE r = p
  BY <1>3 DEF r
<1>4. CASE ~p.broken /\ t.name = "hierarchy"
  <2>1. r.nodes = p.nodes /\ r.stack = p.stack
    BY <1>2, <1>4 DEF ParsesOf
  <2> QED
    BY <2>1, Zenon DEF IsRead, r
<1>5. CASE ~p.broken /\ t.name \in {"open", "leaf"}
  <2> DEFINE x == BuildNode(t.view, ParentIn(p.stack))
  <2>1. x \in NodesOf(W) /\ x.parent = ParentIn(p.stack)
    <3>1. ParentIn(p.stack) \in Nat
      BY <1>1 DEF ParentIn, Last
    <3>2. x \in NodesOf(W)
      BY <1>1, <1>5, <3>1 DEF NodesOf
    <3> QED
      BY <3>2 DEF BuildNode
  <2>2. r = [p EXCEPT !.nodes = Append(p.nodes, x),
                      !.stack = IF t.name = "leaf" THEN p.stack
                                ELSE Append(p.stack, Len(p.nodes) + 1)]
    BY <1>2, <1>5
  <2> HIDE DEF x
  <2>3. /\ IsRead([p EXCEPT !.nodes = Append(p.nodes, x)])
        /\ IsRead([p EXCEPT !.nodes = Append(p.nodes, x),
                            !.stack = Append(p.stack, Len(p.nodes) + 1)])
    BY <2>1, ViewKeepsRead, Zenon
  <2>4. [p EXCEPT !.nodes = Append(p.nodes, x), !.stack = p.stack]
          = [p EXCEPT !.nodes = Append(p.nodes, x)]
    BY DEF ParsesOf
  <2>5. CASE t.name = "leaf"
    BY <2>2, <2>3, <2>4, <2>5 DEF r
  <2>6. CASE t.name # "leaf"
    BY <2>2, <2>3, <2>6 DEF r
  <2> QED
    BY <2>5, <2>6
<1>6. CASE ~p.broken /\ t.name = "close" /\ p.stack = <<>>
  <2>1. r.nodes = p.nodes /\ r.stack = p.stack
    BY <1>2, <1>6 DEF ParsesOf
  <2> QED
    BY <2>1, Zenon DEF IsRead, r
<1>7. CASE ~p.broken /\ t.name = "close" /\ p.stack # <<>>
  <2> DEFINE rest == Front(p.stack)
  <2>1. r.nodes = p.nodes /\ r.stack = rest
    BY <1>2, <1>7 DEF ParsesOf
  <2>2. /\ Len(rest) = Len(p.stack) - 1
        /\ \A k \in 1 .. Len(p.stack) - 1 : rest[k] = p.stack[k]
    BY <1>1, <1>7 DEF Front
  <2> HIDE DEF rest
  <2>3. \A k \in 1 .. Len(p.stack) - 1 :
           k \in 1 .. Len(p.stack) /\ 1 .. k \subseteq 1 .. Len(p.stack) - 1
    BY <1>1
  <2>4. \A k \in 1 .. Len(p.stack) - 1 :
           {rest[j] : j \in 1 .. k} = {p.stack[j] : j \in 1 .. k}
    BY <2>2, <2>3
  <2>5. AreOpen(p.nodes, rest)
    BY <2>2, <2>3, <2>4 DEF IsRead, AreOpen
  <2> QED
    BY <2>1, <2>5, Zenon DEF IsRead, r
<1> QED
  BY <1>1, <1>2, <1>3, <1>4, <1>5, <1>6, <1>7

Unread == [nodes |-> <<>>, stack |-> <<>>, sawHierarchy |-> FALSE, broken |-> FALSE]

LEMMA UnreadIs ==
  ASSUME NEW W
  PROVE  Unread \in ParsesOf(W) /\ IsRead(Unread)
<1>1. IsForest(<<>>)
  BY DEF IsForest
<1>2. IsTree(<<>>)
  BY <1>1 DEF IsTree
<1> QED
  BY <1>2 DEF Unread, ParsesOf, IsRead, AreOpen

(* Whatever the tags, what is read is a tree.                              *)
LEMMA DumpsAreTrees ==
  ASSUME NEW W, NEW tags \in Seq(TagsOf(W))
  PROVE  /\ Read(Unread, tags) \in ParsesOf(W)
         /\ IsTree(Read(Unread, tags).nodes)
<1> DEFINE n == Len(tags)
<1>1. n \in Nat /\ \A k \in 1 .. n : tags[k] \in TagsOf(W)
  OBVIOUS
<1>2. Unread \in ParsesOf(W) /\ IsRead(Unread)
  BY UnreadIs
<1>3. PICK f : Reads(f, W, Unread, tags)
  BY <1>2, ReadsExist
<1> DEFINE T == {k \in 0 .. n : IsRead(f[k])}
<1>4. /\ f \in [0 .. n -> ParsesOf(W)] /\ f[0] = Unread
      /\ \A k \in 1 .. n : f[k] = ReadTag(f[k - 1], tags[k])
      /\ Read(Unread, tags) = f[n]
  BY <1>3 DEF Reads
<1> HIDE DEF n
<1>5. 0 \in T
  BY <1>1, <1>2, <1>4
<1>6. ASSUME NEW k \in 1 .. n, k - 1 \in T
      PROVE  k \in T
  <2>1. k - 1 \in 0 .. n /\ k \in 0 .. n
    BY <1>1
  <2>2. f[k - 1] \in ParsesOf(W) /\ IsRead(f[k - 1]) /\ tags[k] \in TagsOf(W)
    BY <1>1, <1>4, <1>6, <2>1
  <2>3. IsRead(f[k])
    BY <1>4, <2>2, TagKeepsRead
  <2> QED
    BY <2>1, <2>3
<1>7. \A k \in 0 .. n : k \in T
  <2> HIDE DEF T
  <2> QED
    BY <1>1, <1>5, <1>6, UpTo
<1>8. n \in 0 .. n
  BY <1>1
<1> QED
  BY <1>4, <1>7, <1>8 DEF IsRead, AreOpen

LEMMA ReadNone ==
  ASSUME NEW W, NEW base \in ParsesOf(W)
  PROVE  Read(base, <<>>) = base
<1>1. <<>> \in Seq(TagsOf(W)) /\ Len(<<>>) = 0
  OBVIOUS
<1>2. PICK f : Reads(f, W, base, <<>>)
  BY <1>1, ReadsExist
<1> QED
  BY <1>1, <1>2 DEF Reads

LEMMA ReadOne ==
  ASSUME NEW W, NEW base \in ParsesOf(W), NEW tag \in TagsOf(W)
  PROVE  Read(base, <<tag>>) = ReadTag(base, tag)
<1> DEFINE one == <<tag>>
<1>1. one \in Seq(TagsOf(W)) /\ Len(one) = 1 /\ one[1] = tag /\ 1 \in 1 .. 1 /\ 1 - 1 = 0
  OBVIOUS
<1> HIDE DEF one
<1>2. PICK f : Reads(f, W, base, one)
  BY <1>1, ReadsExist
<1>3. Read(base, one) = f[1] /\ f[1] = ReadTag(f[1 - 1], tag) /\ f[0] = base
  BY <1>1, <1>2 DEF Reads
<1> QED
  BY <1>1, <1>3 DEF one

(* To read on is to read from where the reading stopped.                   *)
LEMMA ReadBoth ==
  ASSUME NEW W, NEW base \in ParsesOf(W),
         NEW s \in Seq(TagsOf(W)), NEW t \in Seq(TagsOf(W))
  PROVE  /\ Read(base, s) \in ParsesOf(W)
         /\ Read(base, s \o t) = Read(Read(base, s), t)
<1> DEFINE u == s \o t
           S == Len(s)
           T == Len(t)
           V == ParsesOf(W)
<1>1. /\ u \in Seq(TagsOf(W)) /\ Len(u) = S + T /\ S \in Nat /\ T \in Nat
      /\ \A k \in 1 .. S : u[k] = s[k]
      /\ \A k \in 1 .. T : u[S + k] = t[k]
  OBVIOUS
<1> HIDE DEF u
<1>2. PICK g : Reads(g, W, base, s)
  BY ReadsExist
<1>3. /\ g \in [0 .. S -> V] /\ g[0] = base
      /\ \A k \in 1 .. S : g[k] = ReadTag(g[k - 1], s[k])
      /\ Read(base, s) = g[S]
  BY <1>2 DEF Reads
<1> HIDE DEF V, S, T
<1>4. Read(base, s) \in V
  <2>1. S \in 0 .. S
    BY <1>1
  <2> QED
    BY <1>3, <2>1
<1>5. PICK f : Reads(f, W, base, u)
  BY <1>1, ReadsExist
<1>6. PICK h : Reads(h, W, Read(base, s), t)
  BY <1>4, ReadsExist DEF V
<1>7. /\ f[0] = base /\ \A k \in 1 .. S + T : f[k] = ReadTag(f[k - 1], u[k])
      /\ Read(base, u) = f[S + T]
  BY <1>1, <1>5 DEF Reads
<1>8. /\ h[0] = Read(base, s) /\ \A k \in 1 .. T : h[k] = ReadTag(h[k - 1], t[k])
      /\ Read(Read(base, s), t) = h[T]
  BY <1>6 DEF Reads, T
<1>9. f[S] = g[S]
  <2> DEFINE Q == {k \in 0 .. S : f[k] = g[k]}
  <2>1. 0 \in Q
    BY <1>1, <1>3, <1>7
  <2>2. ASSUME NEW k \in 1 .. S, k - 1 \in Q
        PROVE  k \in Q
    <3>1. k \in 0 .. S /\ k \in 1 .. S + T
      BY <1>1
    <3>2. f[k] = ReadTag(f[k - 1], u[k]) /\ g[k] = ReadTag(g[k - 1], s[k]) /\ u[k] = s[k]
      BY <1>1, <1>3, <1>7, <3>1
    <3> QED
      BY <2>2, <3>1, <3>2
  <2>3. \A k \in 0 .. S : k \in Q
    <3> HIDE DEF Q
    <3> QED
      BY <1>1, <2>1, <2>2, UpTo
  <2>4. S \in 0 .. S
    BY <1>1
  <2> QED
    BY <2>3, <2>4
<1>10. f[S + T] = h[T]
  <2> DEFINE Q == {k \in 0 .. T : f[S + k] = h[k]}
  <2>1. 0 \in Q
    <3>1. S + 0 = S /\ 0 \in 0 .. T
      BY <1>1
    <3> QED
      BY <1>3, <1>8, <1>9, <3>1
  <2>2. ASSUME NEW k \in 1 .. T, k - 1 \in Q
        PROVE  k \in Q
    <3>1. k \in 0 .. T /\ S + k \in 1 .. S + T /\ (S + k) - 1 = S + (k - 1)
      BY <1>1
    <3>2. f[S + k] = ReadTag(f[(S + k) - 1], u[S + k]) /\ h[k] = ReadTag(h[k - 1], t[k])
          /\ u[S + k] = t[k]
      BY <1>1, <1>7, <1>8, <3>1
    <3> QED
      BY <2>2, <3>1, <3>2
  <2>3. \A k \in 0 .. T : k \in Q
    <3> HIDE DEF Q
    <3> QED
      BY <1>1, <2>1, <2>2, UpTo
  <2>4. T \in 0 .. T
    BY <1>1
  <2> QED
    BY <2>3, <2>4
<1> QED
  BY <1>4, <1>7, <1>8, <1>10 DEF u, V

(* A dump that is well so far, with as many views open.                    *)
Stands(W, p, open) ==
  /\ p \in ParsesOf(W) /\ ~p.broken /\ p.sawHierarchy /\ Len(p.stack) = open

(* Tags that close what is open.                                           *)
LEMMA CloseReads ==
  ASSUME NEW W, NEW open \in Nat, NEW n \in 0 .. open, NEW p, Stands(W, p, open),
         NEW tags \in Seq(TagsOf(W)), Len(tags) = n,
         \A k \in 1 .. n : tags[k].name = "close"
  PROVE  Stands(W, Read(p, tags), open - n)
<1>1. p \in ParsesOf(W)
  BY DEF Stands
<1>2. PICK f : Reads(f, W, p, tags)
  BY <1>1, ReadsExist
<1>3. /\ f[0] = p /\ \A k \in 1 .. n : f[k] = ReadTag(f[k - 1], tags[k])
      /\ Read(p, tags) = f[n]
  BY <1>2 DEF Reads
<1> DEFINE T == {k \in 0 .. n : Stands(W, f[k], open - k)}
<1>4. 0 \in T
  BY <1>3
<1>5. ASSUME NEW k \in 1 .. n, k - 1 \in T
      PROVE  k \in T
  <2> DEFINE q == f[k - 1]
             r == ReadTag(q, tags[k])
  <2>1. /\ q \in ParsesOf(W) /\ ~q.broken /\ q.sawHierarchy
        /\ Len(q.stack) = open - (k - 1)
    BY <1>5 DEF Stands
  <2>2. tags[k] \in TagsOf(W) /\ tags[k].name = "close"
    OBVIOUS
  <2> HIDE DEF q
  <2>3. r \in ParsesOf(W) /\ TagMakes(q, tags[k], r)
    BY <2>1, <2>2, ReadTagIs
  <2>4. q.stack \in Seq(Nat) /\ Len(q.stack) \in Nat /\ Len(q.stack) > 0
        /\ Len(q.stack) - 1 = open - k
    BY <2>1 DEF ParsesOf
  <2>5. q.stack # <<>> /\ Len(Front(q.stack)) = open - k
    BY <2>4 DEF Front
  <2> HIDE DEF r
  <2>6. r = [q EXCEPT !.stack = Front(q.stack)]
    BY <2>1, <2>2, <2>3, <2>5 DEF TagMakes
  <2>7. r.broken = q.broken /\ r.sawHierarchy = q.sawHierarchy /\ r.stack = Front(q.stack)
    BY <2>1, <2>6 DEF ParsesOf
  <2>8. Stands(W, r, open - k)
    BY <2>1, <2>3, <2>5, <2>7 DEF Stands
  <2> QED
    BY <1>3, <2>8 DEF r, q
<1>6. \A k \in 0 .. n : k \in T
  <2> HIDE DEF T
  <2>1. n \in Nat
    OBVIOUS
  <2> QED
    BY <1>4, <1>5, <2>1, UpTo
<1>7. n \in 0 .. n
  OBVIOUS
<1> QED
  BY <1>3, <1>6, <1>7

(* The depths of a screen: a view is at most one deeper than the last.     *)
AreViews(W, views) ==
  /\ views \in Seq([view : W, depth : Nat])
  /\ \A i \in 1 .. Len(views) :
        views[i].depth <= IF i = 1 THEN 0 ELSE views[i - 1].depth + 1

Depth(views, i) == IF i > Len(views) THEN 0 ELSE views[i].depth

Closing(views, i) == Max({0, Depth(views, i) - Depth(views, i + 1)})

TagsAt(views, i) ==
  <<[name |-> IF Depth(views, i + 1) > Depth(views, i) THEN "open" ELSE "leaf",
     view |-> views[i].view]>>
  \o [k \in 1 .. Closing(views, i) |-> [name |-> "close", view |-> Null]]

LEMMA DepthsAre ==
  ASSUME NEW W, NEW views, AreViews(W, views)
  PROVE  /\ \A i \in 1 .. Len(views) + 1 : Depth(views, i) \in Nat
         /\ Depth(views, 1) = 0 /\ Depth(views, Len(views) + 1) = 0
         /\ \A i \in 1 .. Len(views) :
               /\ Depth(views, i + 1) <= Depth(views, i) + 1
               /\ views[i].view \in W
<1> DEFINE n == Len(views)
<1>1. n \in Nat /\ \A i \in 1 .. n : views[i].depth \in Nat /\ views[i].view \in W
  <2>1. views \in Seq([view : W, depth : Nat])
    BY DEF AreViews
  <2>2. n \in Nat /\ \A i \in 1 .. n : views[i] \in [view : W, depth : Nat]
    <3> DEFINE E == [view : W, depth : Nat]
    <3>1. views \in Seq(E)
      BY <2>1
    <3> HIDE DEF E
    <3>2. n \in Nat /\ \A i \in 1 .. n : views[i] \in E
      BY <3>1
    <3> QED
      BY <3>2 DEF E
  <2> QED
    BY <2>2
<1>2. \A i \in 1 .. n : views[i].depth <= IF i = 1 THEN 0 ELSE views[i - 1].depth + 1
  BY DEF AreViews
<1>3. \A i \in 1 .. n : Depth(views, i) = views[i].depth
  BY <1>1 DEF Depth
<1>4. Depth(views, n + 1) = 0
  BY <1>1 DEF Depth
<1> HIDE DEF n
<1>5. \A i \in 1 .. n + 1 : i \in 1 .. n \/ i = n + 1
  BY <1>1
<1>6. \A i \in 1 .. n + 1 : Depth(views, i) \in Nat
  BY <1>1, <1>3, <1>4, <1>5
<1>7. Depth(views, 1) = 0
  <2>1. CASE n = 0
    BY <1>4, <2>1
  <2>2. CASE n # 0
    <3>1. 1 \in 1 .. n
      BY <1>1, <2>2
    <3>2. Depth(views, 1) \in Nat /\ Depth(views, 1) <= 0
      BY <1>1, <1>2, <1>3, <3>1
    <3> QED
      BY <3>2
  <2> QED
    BY <2>1, <2>2
<1>8. ASSUME NEW i \in 1 .. n
      PROVE  Depth(views, i + 1) <= Depth(views, i) + 1
  <2>1. Depth(views, i) \in Nat
    BY <1>1, <1>3
  <2>2. CASE i = n
    BY <1>4, <2>1, <2>2
  <2>3. CASE i # n
    <3>1. i + 1 \in 1 .. n /\ (i + 1) - 1 = i /\ i + 1 # 1
      BY <1>1, <2>3
    <3>2. views[i + 1].depth <= views[i].depth + 1
      BY <1>2, <3>1
    <3> QED
      BY <1>3, <3>1, <3>2
  <2> QED
    BY <2>2, <2>3
<1> QED
  BY <1>1, <1>4, <1>6, <1>7, <1>8 DEF n

(* A view with its tags leaves open what the next one is in.               *)
LEMMA ViewReads ==
  ASSUME NEW W, NEW views, AreViews(W, views), NEW i \in 1 .. Len(views),
         NEW p, Stands(W, p, Depth(views, i))
  PROVE  /\ TagsAt(views, i) \in Seq(TagsOf(W))
         /\ Stands(W, Read(p, TagsAt(views, i)), Depth(views, i + 1))
<1> DEFINE d == Depth(views, i)
           e == Depth(views, i + 1)
           c == Closing(views, i)
           tag == [name |-> IF e > d THEN "open" ELSE "leaf", view |-> views[i].view]
           one == <<tag>>
           closes == [k \in 1 .. c |-> [name |-> "close", view |-> Null]]
           q == ReadTag(p, tag)
<1>1. d \in Nat /\ e \in Nat /\ e <= d + 1 /\ views[i].view \in W
  <2>1. Len(views) \in Nat
    BY DEF AreViews
  <2>2. i + 1 \in 1 .. Len(views) + 1 /\ i \in 1 .. Len(views) + 1
    BY <2>1
  <2> QED
    BY <2>2, DepthsAre
<1> HIDE DEF d, e
<1>2. c = IF 0 >= d - e THEN 0 ELSE d - e
  <2>1. 0 \in Int /\ d - e \in Int
    BY <1>1
  <2>2. c = Max({0, d - e})
    BY DEF Closing, d, e
  <2> HIDE DEF c
  <2> QED
    BY <2>1, <2>2, MaxOfTwo
<1> HIDE DEF c
<1>3. c \in Nat
  BY <1>1, <1>2
<1>4. /\ tag \in TagsOf(W) /\ one \in Seq(TagsOf(W))
      /\ closes \in Seq(TagsOf(W)) /\ Len(closes) = c
      /\ \A k \in 1 .. c : closes[k].name = "close"
  <2>1. tag \in TagsOf(W)
    BY <1>1 DEF TagsOf
  <2>2. [name |-> "close", view |-> Null] \in TagsOf(W)
    BY DEF TagsOf
  <2>3. closes \in Seq(TagsOf(W)) /\ Len(closes) = c
    <3> DEFINE closing == [name |-> "close", view |-> Null]
    <3> HIDE DEF closing
    <3> QED
      BY <1>3, <2>2 DEF closing
  <2>4. \A k \in 1 .. c : closes[k].name = "close"
    OBVIOUS
  <2>5. one \in Seq(TagsOf(W))
    <3> HIDE DEF tag
    <3> QED
      BY <2>1
  <2> HIDE DEF tag, one, closes
  <2> QED
    BY <2>1, <2>3, <2>4, <2>5
<1>5. TagsAt(views, i) = one \o closes
  BY DEF TagsAt, d, e, c
<1> HIDE DEF one, closes
<1>6. TagsAt(views, i) \in Seq(TagsOf(W))
  BY <1>4, <1>5
<1>7. /\ p \in ParsesOf(W) /\ ~p.broken /\ p.sawHierarchy /\ Len(p.stack) = d
      /\ p.stack \in Seq(Nat)
  BY DEF Stands, ParsesOf, d
<1>8. tag.name = IF e > d THEN "open" ELSE "leaf"
  OBVIOUS
<1> HIDE DEF tag, q
<1>9. q \in ParsesOf(W) /\ TagMakes(p, tag, q)
  BY <1>4, <1>7, ReadTagIs DEF q
<1>10. Stands(W, q, IF e > d THEN d + 1 ELSE d)
  <2>1. q = [p EXCEPT !.nodes = Append(p.nodes, BuildNode(tag.view, ParentIn(p.stack))),
                      !.stack = IF tag.name = "leaf" THEN p.stack
                                ELSE Append(p.stack, Len(p.nodes) + 1)]
    BY <1>7, <1>8, <1>9 DEF TagMakes
  <2>2. /\ q.broken = p.broken /\ q.sawHierarchy = p.sawHierarchy
        /\ q.stack = IF tag.name = "leaf" THEN p.stack
                     ELSE Append(p.stack, Len(p.nodes) + 1)
    BY <1>7, <2>1 DEF ParsesOf
  <2>3. Len(Append(p.stack, Len(p.nodes) + 1)) = d + 1
    BY <1>7
  <2> QED
    BY <1>7, <1>8, <1>9, <2>2, <2>3 DEF Stands
<1>11. Read(p, one) = q /\ Read(p, one \o closes) = Read(q, closes)
  <2>1. Read(p, one) = q
    BY <1>4, <1>7, ReadOne DEF one, q
  <2> QED
    BY <1>4, <1>7, <2>1, ReadBoth
<1>12. Stands(W, Read(q, closes), e)
  <2> DEFINE open == IF e > d THEN d + 1 ELSE d
  <2>1. open \in Nat /\ c \in 0 .. open /\ open - c = e
    BY <1>1, <1>2
  <2> HIDE DEF open
  <2>2. Stands(W, q, open)
    BY <1>10 DEF open
  <2>3. Stands(W, Read(q, closes), open - c)
    BY <1>4, <2>1, <2>2, CloseReads
  <2> QED
    BY <2>1, <2>3
<1> QED
  BY <1>5, <1>6, <1>11, <1>12 DEF e

LEMMA ReadOn ==
  ASSUME NEW W, NEW s \in Seq(TagsOf(W)), NEW t \in Seq(TagsOf(W))
  PROVE  s \o t \in Seq(TagsOf(W)) /\ Read(Unread, s \o t) = Read(Read(Unread, s), t)
<1>1. Unread \in ParsesOf(W)
  BY UnreadIs
<1>2. Read(Unread, s \o t) = Read(Read(Unread, s), t)
  BY <1>1, ReadBoth
<1> QED
  BY <1>2

(* A dump that is not torn is read whole.                                  *)
LEMMA WholeDumpsAreOk ==
  ASSUME NEW W, NEW views, AreViews(W, views)
  PROVE  LET tags == <<[name |-> "other", view |-> Null], [name |-> "hierarchy", view |-> Null]>>
                     \o FlattenSeq([i \in DOMAIN views |-> TagsAt(views, i)])
         IN  tags \in Seq(TagsOf(W)) /\ Stands(W, Read(Unread, tags), 0)
<1> DEFINE n == Len(views)
           seqs == [i \in DOMAIN views |-> TagsAt(views, i)]
           other == [name |-> "other", view |-> Null]
           hier == [name |-> "hierarchy", view |-> Null]
           head == <<other, hier>>
           E == TagsOf(W)
           start == Read(Unread, head)
<1>1. n \in Nat /\ DOMAIN views = 1 .. n
  BY DEF AreViews
<1>2. /\ other \in E /\ hier \in E /\ head \in Seq(E)
      /\ Len(head) = 2 /\ head[1] = other /\ head[2] = hier
      /\ other.name = "other" /\ hier.name = "hierarchy"
  <2>1. other \in E /\ hier \in E
    BY DEF TagsOf
  <2>2. other.name = "other" /\ hier.name = "hierarchy"
    OBVIOUS
  <2> HIDE DEF other, hier, E
  <2> QED
    BY <2>1, <2>2
<1>u. Unread \in ParsesOf(W)
  BY UnreadIs
<1>3. Stands(W, start, 0)
  <2> HIDE DEF other, hier, E, start, head
  <2>1. PICK f : Reads(f, W, Unread, head)
    BY <1>2, <1>u, ReadsExist DEF E
  <2> DEFINE q == ReadTag(Unread, other)
             r == ReadTag(q, hier)
  <2>2. start = r
    <3>1. /\ f[0] = Unread /\ \A k \in 1 .. 2 : f[k] = ReadTag(f[k - 1], head[k])
          /\ start = f[2]
      BY <1>2, <2>1 DEF Reads, start
    <3>2. f[1] = ReadTag(f[1 - 1], head[1]) /\ f[2] = ReadTag(f[2 - 1], head[2])
      BY <3>1
    <3>3. 1 - 1 = 0 /\ 2 - 1 = 1
      OBVIOUS
    <3> QED
      BY <1>2, <3>1, <3>2, <3>3
  <2> HIDE DEF q
  <2>3. q \in ParsesOf(W) /\ TagMakes(Unread, other, q)
    BY <1>2, <1>u, ReadTagIs DEF E, q
  <2>4. q = Unread
    BY <1>2, <2>3 DEF TagMakes, Unread
  <2>5. r \in ParsesOf(W) /\ TagMakes(q, hier, r)
    BY <1>2, <2>3, ReadTagIs DEF E
  <2> HIDE DEF r
  <2>6. r = [Unread EXCEPT !.sawHierarchy = TRUE]
    BY <1>2, <2>4, <2>5 DEF TagMakes, Unread
  <2>7. ~r.broken /\ r.sawHierarchy /\ Len(r.stack) = 0
    BY <2>6 DEF Unread
  <2> QED
    BY <2>2, <2>5, <2>7 DEF Stands
<1>4. seqs \in Seq(Seq(E)) /\ Len(seqs) = n /\ \A i \in 1 .. n : seqs[i] = TagsAt(views, i)
  <2>1. \A i \in 1 .. n : TagsAt(views, i) \in Seq(E)
    <3> SUFFICES ASSUME NEW i \in 1 .. n
                 PROVE  TagsAt(views, i) \in Seq(E)
      OBVIOUS
    <3> DEFINE at == Depth(views, i)
               stack == [k \in 1 .. at |-> 0]
               p == [nodes |-> <<>>, stack |-> stack, sawHierarchy |-> TRUE, broken |-> FALSE]
    <3>1. at \in Nat
      <4>1. i \in 1 .. n + 1
        BY <1>1
      <4> QED
        BY <4>1, DepthsAre
    <3> HIDE DEF at
    <3>2. Stands(W, p, at)
      <4>1. stack \in Seq(Nat) /\ Len(stack) = at
        BY <3>1
      <4> HIDE DEF stack
      <4>2. p \in ParsesOf(W)
        BY <4>1 DEF ParsesOf
      <4> QED
        BY <4>1, <4>2 DEF Stands
    <3> HIDE DEF p
    <3> QED
      BY <3>2, ViewReads DEF at
  <2> HIDE DEF E, n
  <2>2. seqs = [i \in 1 .. n |-> TagsAt(views, i)]
    BY <1>1
  <2> QED
    BY <1>1, <2>1, <2>2
<1> HIDE DEF E, head, start, seqs, other, hier, n
<1>5. PICK f : Flattens(f, E, seqs)
  BY <1>4, FlattenIs
<1>6. /\ f \in [0 .. n -> Seq(E)] /\ f[0] = <<>>
      /\ \A k \in 1 .. n : f[k] = f[k - 1] \o TagsAt(views, k)
      /\ FlattenSeq(seqs) = f[n]
  BY <1>4, <1>5 DEF Flattens
<1> DEFINE T == {k \in 0 .. n : Stands(W, Read(start, f[k]), Depth(views, k + 1))}
<1>7. 0 \in T
  <2>1. Depth(views, 1) = 0
    BY DepthsAre
  <2>2. Read(start, <<>>) = start
    BY <1>3, ReadNone DEF Stands
  <2>3. 0 \in 0 .. n /\ 0 + 1 = 1
    BY <1>1
  <2> QED
    BY <1>3, <1>6, <2>1, <2>2, <2>3
<1>8. ASSUME NEW k \in 1 .. n, k - 1 \in T
      PROVE  k \in T
  <2>1. k - 1 \in 0 .. n /\ k \in 0 .. n /\ (k - 1) + 1 = k
    BY <1>1
  <2>2. Stands(W, Read(start, f[k - 1]), Depth(views, k))
    BY <1>8, <2>1
  <2>3. /\ TagsAt(views, k) \in Seq(E)
        /\ Stands(W, Read(Read(start, f[k - 1]), TagsAt(views, k)), Depth(views, k + 1))
    BY <2>2, ViewReads DEF E, n
  <2>4. f[k - 1] \in Seq(E) /\ start \in ParsesOf(W)
    BY <1>3, <1>6, <2>1 DEF Stands
  <2>5. Read(start, f[k - 1] \o TagsAt(views, k)) = Read(Read(start, f[k - 1]), TagsAt(views, k))
    BY <2>3, <2>4, ReadBoth DEF E
  <2> QED
    BY <1>6, <2>1, <2>3, <2>5
<1>9. \A k \in 0 .. n : k \in T
  <2> HIDE DEF T
  <2> QED
    BY <1>1, <1>7, <1>8, UpTo
<1>10. Stands(W, Read(start, f[n]), 0) /\ f[n] \in Seq(E)
  <2>1. n \in 0 .. n
    BY <1>1
  <2>2. Depth(views, n + 1) = 0
    BY DepthsAre DEF n
  <2> QED
    BY <1>6, <1>9, <2>1, <2>2
<1>11. Read(Unread, head \o f[n]) = Read(start, f[n]) /\ head \o f[n] \in Seq(E)
  <2> DEFINE g == f[n]
  <2>1. g \in Seq(TagsOf(W)) /\ head \in Seq(TagsOf(W))
    BY <1>2, <1>10 DEF E
  <2> HIDE DEF g
  <2>2. head \o g \in Seq(TagsOf(W)) /\ Read(Unread, head \o g) = Read(Read(Unread, head), g)
    BY <2>1, ReadOn
  <2> QED
    BY <2>2 DEF start, g, E
<1> QED
  BY <1>6, <1>10, <1>11 DEF E, head, other, hier, seqs

LEMMA DumpsAre ==
  ASSUME NEW W, NEW views, AreViews(W, views), NEW device,
         device.torn \in {"no", "unclosed", "surplus"},
         views = <<>> => device.torn = "no"
  PROVE  /\ IsTree(Dump(views, device).nodes)
         /\ Dump(views, device).nodes \in Seq(NodesOf(W))
         /\ device.torn = "no" => Dump(views, device).ok
<1> DEFINE whole == <<[name |-> "other", view |-> Null], [name |-> "hierarchy", view |-> Null]>>
                    \o FlattenSeq([i \in DOMAIN views |-> TagsAt(views, i)])
           other == [name |-> "other", view |-> Null]
           close == [name |-> "close", view |-> Null]
           open == [name |-> "open", view |-> views[1].view]
           tags == Tags(views, device.torn)
           end == Read(Unread, tags)
<1>1. Dump(views, device) = [ok    |-> ~end.broken /\ end.sawHierarchy /\ end.stack = <<>>,
                             nodes |-> end.nodes]
  BY Zenon DEF Dump, ParseUiHierarchy, Read, Unread
<1>2. whole \in Seq(TagsOf(W)) /\ Stands(W, Read(Unread, whole), 0)
  BY WholeDumpsAreOk
<1>3. /\ Tags(views, "no") = Append(whole, other)
      /\ Tags(views, "unclosed") = Append(whole, open)
      /\ Tags(views, "surplus") = Append(whole, close)
  BY DEF Tags, TagsAt, Closing, Depth
<1> HIDE DEF whole
<1>4. views # <<>> => views[1].view \in W
  <2>1. views \in Seq([view : W, depth : Nat])
    BY DEF AreViews
  <2>2. views # <<>> => 1 \in 1 .. Len(views)
    BY <2>1
  <2> QED
    BY <2>2, DepthsAre
<1>5. /\ other \in TagsOf(W) /\ close \in TagsOf(W)
      /\ views # <<>> => open \in TagsOf(W)
  BY <1>4 DEF TagsOf
<1> HIDE DEF other, close, open
<1>6. tags \in Seq(TagsOf(W))
  <2>1. device.torn # "no" => views # <<>>
    OBVIOUS
  <2>2. \A t \in TagsOf(W) : Append(whole, t) \in Seq(TagsOf(W))
    BY <1>2
  <2> QED
    BY <1>3, <1>5, <2>1, <2>2
<1>7. IsTree(end.nodes) /\ end.nodes \in Seq(NodesOf(W))
  <2>1. IsTree(end.nodes) /\ end \in ParsesOf(W)
    BY <1>6, DumpsAreTrees
  <2> HIDE DEF end
  <2> QED
    BY <2>1 DEF ParsesOf
<1>8. ASSUME device.torn = "no"
      PROVE  ~end.broken /\ end.sawHierarchy /\ end.stack = <<>>
  <2> DEFINE q == Read(Unread, whole)
  <2>1. q \in ParsesOf(W) /\ ~q.broken /\ q.sawHierarchy /\ Len(q.stack) = 0
    BY <1>2 DEF Stands
  <2>2. Append(whole, other) = whole \o <<other>> /\ <<other>> \in Seq(TagsOf(W))
    BY <1>2, <1>5
  <2>3. Read(Unread, whole \o <<other>>) = Read(q, <<other>>)
    <3> DEFINE one == <<other>>
    <3>1. one \in Seq(TagsOf(W))
      BY <2>2
    <3> HIDE DEF one, q
    <3>2. Read(Unread, whole \o one) = Read(Read(Unread, whole), one)
      BY <1>2, <3>1, ReadOn
    <3> QED
      BY <3>2 DEF one, q
  <2> HIDE DEF q
  <2>4. Read(q, <<other>>) = ReadTag(q, other)
    BY <1>5, <2>1, ReadOne
  <2>5. TagMakes(q, other, ReadTag(q, other))
    BY <1>5, <2>1, ReadTagIs
  <2>6. other.name = "other"
    BY DEF other
  <2>7. ReadTag(q, other) = q
    BY <2>1, <2>5, <2>6 DEF TagMakes
  <2>8. end = q
    BY <1>3, <1>8, <2>2, <2>3, <2>4, <2>7
  <2>9. q.stack = <<>>
    BY <2>1 DEF ParsesOf
  <2> QED
    BY <2>1, <2>8, <2>9
<1> DEFINE dump == Dump(views, device)
           fine == ~end.broken /\ end.sawHierarchy /\ end.stack = <<>>
<1>9. dump.nodes = end.nodes /\ dump.ok = fine
  <2> HIDE DEF end, dump, fine
  <2> QED
    BY <1>1 DEF dump, fine
<1>10. device.torn = "no" => dump.ok
  <2>1. device.torn = "no" => fine
    BY <1>8
  <2> HIDE DEF fine, dump
  <2> QED
    BY <1>9, <2>1, Zenon
<1> QED
  BY <1>7, <1>9, <1>10

(* What is known of a screen, and of the answer of a call.                 *)
ScreenInv ==
  reading = "screen" =>
    /\ AreViews(Views, recorded)
    /\ answer # None =>
         /\ ask.device \in {Device} \union Devices
         /\ recorded = <<>> => ask.device = Device
         /\ ask.tool = "tap_node" => answer = TapNode(recorded, ask.device, ask.x)
         /\ ask.tool = "list_elements" =>
               /\ answer = ListElements(recorded, ask.device, ask.filter, ask.limit)
               /\ ask.filter \in Filters /\ ask.limit \in Nat
         /\ ask.tool \notin {"tap_node", "list_elements"} =>
               \E a \in CaptureAsks \union OtherCaptureAsks :
                  /\ ask = [a EXCEPT !.device = ask.device]
                  /\ answer = Capture(recorded, ask.device, a)

LEMMA DevicesAre ==
  ASSUME NEW device \in {Device} \union Devices
  PROVE  device.torn \in {"no", "unclosed", "surplus"}
<1>1. /\ Device.torn = "no"
      /\ DOMAIN Device = {"tries", "torn", "adb", "screencap", "paints", "rows", "wm"}
  BY DEF Device
<1>2. \A v, u : /\ [Device EXCEPT !.tries = v].torn = "no"
                /\ [Device EXCEPT !.tries = v, !.paints = u].torn = "no"
                /\ [Device EXCEPT !.torn = v].torn = v
                /\ [Device EXCEPT !.adb = v].torn = "no"
                /\ [Device EXCEPT !.screencap = v].torn = "no"
                /\ [Device EXCEPT !.rows = v].torn = "no"
                /\ [Device EXCEPT !.wm = v].torn = "no"
  BY <1>1
<1> QED
  BY <1>1, <1>2 DEF Devices

(* As many rows of a call are appended as the device's run lets it.        *)
LEMMA RowsAre ==
  ASSUME NEW device \in {Device} \union Devices
  PROVE  device.rows \in {0, 2, 3}
<1>1. /\ Device.rows = 3
      /\ DOMAIN Device = {"tries", "torn", "adb", "screencap", "paints", "rows", "wm"}
  BY DEF Device
<1>2. \A v, u : /\ [Device EXCEPT !.tries = v].rows = 3
                /\ [Device EXCEPT !.tries = v, !.paints = u].rows = 3
                /\ [Device EXCEPT !.torn = v].rows = 3
                /\ [Device EXCEPT !.adb = v].rows = 3
                /\ [Device EXCEPT !.screencap = v].rows = 3
                /\ [Device EXCEPT !.rows = v].rows = v
                /\ [Device EXCEPT !.wm = v].rows = 3
  BY <1>1
<1> QED
  BY <1>1, <1>2 DEF Devices

(* A call of two events is done as it should, or fails with at most the    *)
(* first of them recorded.                                                 *)
LEMMA TwoRows ==
  ASSUME NEW device, device.rows \in {0, 2, 3},
         NEW done, NEW c, NEW e, done.events = <<c, e>>
  PROVE  LET got == WithRows(device, done)
         IN  /\ device.rows = 3 => got = done
             /\ \/ got = done
                \/ /\ got.refused /\ got.tapped = done.tapped /\ got.saved = done.saved
                   /\ \A x \in Range(got.events) : x = c
<1> DEFINE part == SubSeq(done.events, 1, device.rows - 1)
           short == [refused |-> TRUE, code |-> "unrecorded", tapped |-> done.tapped,
                     saved |-> done.saved, events |-> part]
<1>1. Len(done.events) = 2
  OBVIOUS
<1>2. device.rows # 3 => \A x \in Range(part) : x = c
  <2>1. CASE device.rows = 0
    <3>1. DOMAIN SubSeq(done.events, 1, -1) = {}
      OBVIOUS
    <3> QED
      BY <2>1, <3>1 DEF Range
  <2>2. CASE device.rows = 2
    <3>1. /\ DOMAIN SubSeq(done.events, 1, 1) = {1}
          /\ SubSeq(done.events, 1, 1)[1] = c
      OBVIOUS
    <3> QED
      BY <2>2, <3>1 DEF Range
  <2> QED
    BY <2>1, <2>2
<1>3. WithRows(device, done) = IF device.rows > 2 THEN done ELSE short
  BY <1>1 DEF WithRows
<1> HIDE DEF part
<1>4. CASE device.rows = 3
  BY <1>3, <1>4
<1>5. CASE device.rows # 3
  BY <1>2, <1>3, <1>5
<1> QED
  BY <1>4, <1>5

(* A call of one event is done as it should, or fails with none recorded.  *)
LEMMA OneRow ==
  ASSUME NEW device, device.rows \in {0, 2, 3}, NEW done, NEW e, done.events = <<e>>
  PROVE  LET got == WithRows(device, done)
         IN  got = done \/ (got.refused /\ got.events = <<>>)
<1>1. Len(done.events) = 1
  OBVIOUS
<1>2. CASE device.rows = 0
  <2>1. SubSeq(done.events, 1, -1) = <<>>
    OBVIOUS
  <2> QED
    BY <1>1, <1>2, <2>1 DEF WithRows
<1>3. CASE device.rows # 0
  BY <1>1, <1>3 DEF WithRows
<1> QED
  BY <1>2, <1>3

LEMMA TapNodeFinds ==
  ASSUME ScreenInv, reading = "screen", answer # None, ask.tool = "tap_node"
  PROVE  TapFindsTheView
<1> DEFINE x      == ask.x
           device == ask.device
           dump   == Dump(recorded, device)
           nodes  == Nodes
           over   == Under(nodes, x)
           hit    == ResolveTap(nodes, x)
           w      == TopmostWindow(nodes, x)
<1>1. /\ answer = TapNode(recorded, device, x)
      /\ device \in {Device} \union Devices
      /\ recorded = <<>> => device = Device
      /\ AreViews(Views, recorded)
  BY DEF ScreenInv
<1>2. nodes = dump.nodes
  BY DEF Nodes
<1>3. IsTree(nodes) /\ (device = Device => dump.ok)
  <2> HIDE DEF dump, nodes
  <2>1. Device.torn = "no"
    BY DEF Device
  <2>2. device.torn \in {"no", "unclosed", "surplus"}
    BY <1>1, DevicesAre
  <2>3. recorded = <<>> => device.torn = "no"
    BY <1>1, <2>1
  <2> DEFINE W == Views
  <2> HIDE DEF W
  <2>5. AreViews(W, recorded)
    BY <1>1 DEF W
  <2>6. IsTree(dump.nodes) /\ (device.torn = "no" => dump.ok)
    BY <2>2, <2>3, <2>5, DumpsAre DEF dump
  <2> QED
    BY <1>2, <2>1, <2>6
<1>4. device = Device => CaptureUiDump(device) /\ device.adb = "works"
  <2>1. Device.tries = <<TRUE>> /\ Device.adb = "works"
    BY DEF Device
  <2>2. \E i \in DOMAIN <<TRUE>> : <<TRUE>>[i]
    <3>1. 1 \in DOMAIN <<TRUE>> /\ <<TRUE>>[1]
      OBVIOUS
    <3> QED
      BY <3>1
  <2>3. CaptureUiDump(Device)
    BY <2>1, <2>2, Zenon DEF CaptureUiDump
  <2> QED
    BY <2>1, <2>3
<1>5. IsForest(nodes)
  BY <1>3 DEF IsTree
<1>6. w = 0 => over = {}
  <2> HIDE DEF nodes
  <2> QED
    BY <1>5, WindowIs
<1>7. /\ w = 0 => hit = Null
      /\ w # 0 => NamesTheView(nodes, x, hit) /\ hit # Null
  <2> HIDE DEF nodes
  <2>1. w = 0 => hit = Null
    BY DEF ResolveTap
  <2>2. w # 0 => NamesTheView(nodes, x, hit)
                 /\ hit \in [node : Nat, chain : Seq(Nat), anchor : Nat \union {Null}]
    BY <1>3, TapsFind
  <2> QED
    BY <2>1, <2>2, ScreenAssumption
<1>8. w # 0 => over # {}
  BY <1>7 DEF NamesTheView
<1> DEFINE told(n) == SerializeNode(nodes[n])
           event == [type   |-> "tap_node",
                     node   |-> told(hit.node),
                     anchor |-> IF hit.anchor = Null THEN Null ELSE told(hit.anchor),
                     chain  |-> [d \in DOMAIN hit.chain |-> told(hit.chain[d])]]
           events == <<CaptureEvent({"ui_dump"}), event>>
           fine == [refused |-> FALSE, tapped |-> TRUE, saved |-> {"dump"}, hit |-> hit,
                    events |-> events]
<1>9. answer = IF ~CaptureUiDump(device) THEN Refused("ui_dump_failed", {})
               ELSE IF ~dump.ok THEN Refused("ui_dump_failed", {"dump"})
               ELSE IF hit = Null THEN Refused("invalid_argument", {"dump"})
               ELSE IF device.adb = "foreground" THEN Refused("adb_command_failed", {"dump"})
               ELSE IF device.adb = "tap"
                    THEN [Refused("adb_command_failed", {"dump"}) EXCEPT !.tapped = TRUE]
               ELSE WithRows(device, fine)
  BY <1>1, Zenon DEF TapNode, Nodes
<1>10. \A e \in Range(events) : e.type = "tap_node" =>
          \A n \in {e.node} \union Range(e.chain) : "text" \notin DOMAIN n
  <2>1. \A e \in Range(events) : e = CaptureEvent({"ui_dump"}) \/ e = event
    BY DEF Range
  <2>2. CaptureEvent({"ui_dump"}).type = "capture"
    BY DEF CaptureEvent
  <2>3. \A n : "text" \notin DOMAIN told(n)
    BY DEF SerializeNode
  <2>4. \A m \in {event.node} \union Range(event.chain) : \E n : m = told(n)
    BY DEF Range
  <2> HIDE DEF event, events, told
  <2> QED
    BY <2>1, <2>2, <2>3, <2>4
<1> DEFINE own   == Range(Lineage(nodes, answer.hit.node))
           ofApp == {n \in own : nodes[n].id = "app"}
           Finds1 ==
             IF answer.refused
             THEN /\ OnlyItsDump
                  /\ answer.tapped => over # {}
                  /\ device = Device => over = {}
             ELSE /\ NamesTheView(nodes, x, answer.hit)
                  /\ \A e \in Range(answer.events) : e.type = "tap_node" =>
                       \A n \in {e.node} \union Range(e.chain) : "text" \notin DOMAIN n
<1>11. Finds1
  <2>1. \A code, saved : /\ Refused(code, saved).refused /\ ~Refused(code, saved).tapped
                         /\ Refused(code, saved).events = <<>>
    BY DEF Refused
  <2>a. answer.events = <<>> => OnlyItsDump
    BY DEF OnlyItsDump, Range
  <2> HIDE DEF nodes, dump, events, over, w, hit, device
  <2>2. CASE ~CaptureUiDump(device) \/ ~dump.ok
    <3>1. device # Device
      BY <1>3, <1>4, <2>2
    <3>2. \E code, saved : answer = Refused(code, saved)
      BY <1>9, <2>2
    <3> QED
      BY <2>1, <2>a, <3>1, <3>2
  <2>3. CASE CaptureUiDump(device) /\ dump.ok /\ hit = Null
    <3>1. over = {}
      BY <1>6, <1>7, <2>3
    <3>2. \E code, saved : answer = Refused(code, saved)
      BY <1>9, <2>3
    <3> QED
      BY <2>1, <2>a, <3>1, <3>2
  <2>4. CASE CaptureUiDump(device) /\ dump.ok /\ hit # Null /\ device.adb \in {"foreground", "tap"}
    <3>1. device # Device /\ over # {}
      BY <1>4, <1>7, <1>8, <2>4
    <3>2. answer.refused /\ answer.events = <<>>
      BY <1>9, <2>4 DEF Refused
    <3> QED
      BY <2>a, <3>1, <3>2
  <2>5. CASE CaptureUiDump(device) /\ dump.ok /\ hit # Null /\ device.adb \notin {"foreground", "tap"}
    <3>1. NamesTheView(nodes, x, hit) /\ over # {}
      BY <1>7, <1>8, <2>5
    <3>2. /\ ~fine.refused /\ fine.hit = hit /\ fine.events = events
          /\ fine.saved = {"dump"}
      OBVIOUS
    <3>3. answer = WithRows(device, fine)
      BY <1>9, <2>5
    <3> HIDE DEF fine
    <3>4. /\ device.rows = 3 => answer = fine
          /\ \/ answer = fine
             \/ /\ answer.refused /\ answer.saved = fine.saved
                /\ \A e \in Range(answer.events) : e = CaptureEvent({"ui_dump"})
      <4>1. device.rows \in {0, 2, 3}
        BY <1>1, RowsAre
      <4> DEFINE dumped == CaptureEvent({"ui_dump"})
      <4>2. fine.events = <<dumped, event>>
        BY <3>2 DEF events
      <4> HIDE DEF dumped, event
      <4>3. LET got == WithRows(device, fine)
            IN  /\ device.rows = 3 => got = fine
                /\ \/ got = fine
                   \/ /\ got.refused /\ got.tapped = fine.tapped /\ got.saved = fine.saved
                      /\ \A e \in Range(got.events) : e = dumped
        BY <4>1, <4>2, TwoRows
      <4> QED
        BY <3>3, <4>3 DEF dumped
    <3>5. device = Device => device.rows = 3
      BY DEF Device
    <3>6. CASE answer = fine
      BY <1>10, <3>1, <3>2, <3>6
    <3>7. CASE answer # fine
      <4>1. answer.refused /\ OnlyItsDump
        BY <3>2, <3>4, <3>7 DEF OnlyItsDump
      <4>2. device # Device
        BY <3>4, <3>5, <3>7
      <4> QED
        BY <3>1, <4>1, <4>2
    <3> QED
      BY <3>6, <3>7
  <2> QED
    BY <2>2, <2>3, <2>4, <2>5
<1> QED
  BY <1>11, Zenon DEF TapFindsTheView, NamesTheView, Line

LEMMA ScreenInvImplies ==
  ASSUME ScreenInv
  PROVE  TapFindsTheView
<1>1. CASE reading = "screen" /\ answer # None /\ ask.tool = "tap_node"
  BY <1>1, TapNodeFinds
<1>2. CASE ~(reading = "screen" /\ answer # None /\ ask.tool = "tap_node")
  BY <1>2 DEF TapFindsTheView, Answered
<1> QED
  BY <1>1, <1>2

LEMMA MoreViews ==
  ASSUME NEW W, NEW views, AreViews(W, views), NEW view \in W, NEW depth \in Nat,
         depth <= IF views = <<>> THEN 0 ELSE Last(views).depth + 1
  PROVE  AreViews(W, Append(views, [view |-> view, depth |-> depth]))
<1> DEFINE E == [view : W, depth : Nat]
           x == [view |-> view, depth |-> depth]
           n == Len(views)
           more == Append(views, x)
<1>1. views \in Seq(E) /\ x \in E
  BY DEF AreViews
<1>2. \A i \in 1 .. n : views[i].depth <= IF i = 1 THEN 0 ELSE views[i - 1].depth + 1
  BY DEF AreViews
<1> HIDE DEF E
<1>3. /\ n \in Nat /\ more \in Seq(E) /\ Len(more) = n + 1 /\ more[n + 1] = x
      /\ \A i \in 1 .. n : more[i] = views[i]
  BY <1>1
<1>4. n # 0 => views # <<>> /\ Last(views) = views[n]
  BY <1>1 DEF Last
<1>5. n = 0 => views = <<>>
  BY <1>1
<1>6. x.depth = depth
  OBVIOUS
<1> HIDE DEF x, more, n
<1>7. ASSUME NEW i \in 1 .. n + 1
      PROVE  more[i].depth <= IF i = 1 THEN 0 ELSE more[i - 1].depth + 1
  <2>1. CASE i = n + 1
    <3>1. CASE n = 0
      BY <1>3, <1>5, <1>6, <2>1, <3>1
    <3>2. CASE n # 0
      <4>1. i - 1 = n /\ n \in 1 .. n /\ i # 1
        BY <1>3, <2>1, <3>2
      <4>2. more[i - 1] = Last(views) /\ more[i].depth = depth
        BY <1>3, <1>4, <1>6, <2>1, <3>2, <4>1
      <4> QED
        BY <1>4, <3>2, <4>1, <4>2
    <3> QED
      BY <3>1, <3>2
  <2>2. CASE i # n + 1
    <3>1. i \in 1 .. n /\ (i # 1 => i - 1 \in 1 .. n)
      BY <1>3, <2>2
    <3> QED
      BY <1>2, <1>3, <3>1
  <2> QED
    BY <2>1, <2>2
<1> QED
  BY <1>3, <1>7 DEF AreViews, E, more, x

LEMMA CapturesAre ==
  ASSUME NEW a \in CaptureAsks \union OtherCaptureAsks, NEW device
  PROVE  [a EXCEPT !.device = device].tool = "capture" /\ [a EXCEPT !.device = device].device = device
<1>1. /\ CaptureAsk.tool = "capture"
      /\ DOMAIN CaptureAsk = {"tool", "device", "kinds", "annotate", "filter", "limit", "ids"}
  BY DEF CaptureAsk
<1>2. a.tool = "capture" /\ DOMAIN a = DOMAIN CaptureAsk
  <2>1. CASE a \in CaptureAsks
    BY <1>1, <2>1 DEF CaptureAsks
  <2>2. CASE a \in OtherCaptureAsks
    BY <1>1, <2>2 DEF OtherCaptureAsks
  <2> QED
    BY <2>1, <2>2
<1> QED
  BY <1>1, <1>2

LEMMA ScreenStep ==
  ASSUME ScreenInv, [Next]_vars
  PROVE  ScreenInv'
<1> DEFINE W == Views
           AnswerIs ==
             /\ ask'.device \in {Device} \union Devices
             /\ recorded' = <<>> => ask'.device = Device
             /\ ask'.tool = "tap_node" => answer' = TapNode(recorded', ask'.device, ask'.x)
             /\ ask'.tool = "list_elements" =>
                   /\ answer' = ListElements(recorded', ask'.device, ask'.filter, ask'.limit)
                   /\ ask'.filter \in Filters /\ ask'.limit \in Nat
             /\ ask'.tool \notin {"tap_node", "list_elements"} =>
                   \E a \in CaptureAsks \union OtherCaptureAsks :
                      /\ ask' = [a EXCEPT !.device = ask'.device]
                      /\ answer' = Capture(recorded', ask'.device, a)
<1> SUFFICES ASSUME reading' = "screen"
             PROVE  AreViews(W, recorded') /\ (answer' # None => AnswerIs)
  BY DEF ScreenInv
<1>1. CASE UNCHANGED vars
  BY <1>1 DEF ScreenInv, vars
<1>2. CASE Next
  <2>1. reading = "screen" /\ answer = None
    BY <1>2 DEF Next, Record, Call
  <2>2. AreViews(W, recorded)
    BY <2>1 DEF ScreenInv
  <2>3. CASE Record
    <3>1. PICK view \in Views, depth \in 0 .. MaxViews :
             RecordView(view, depth) /\ answer' = answer
      BY <2>1, <2>3 DEF Record, RecordItem, RecordRawLine, RecordFrame, RecordRequest, RecordFile
    <3>2. depth \in Nat /\ view \in W
      OBVIOUS
    <3> HIDE DEF W
    <3>3. AreViews(W, recorded')
      BY <2>2, <3>1, <3>2, MoreViews DEF RecordView
    <3> QED
      BY <2>1, <3>1, <3>3
  <2>4. CASE Call
    <3>1. recorded' = recorded
      BY <2>1, <2>4 DEF Call, AskCrash, AskSheet, AskWire, AskBundle, AskTap, AskElements,
                        AskCapture
    <3>2. \/ \E device \in Faced, x \in {1, 2, 5} : AskTap(device, x)
          \/ \E device \in Faced, filter \in Filters, limit \in 1 .. 2 :
               AskElements(device, filter, limit)
          \/ \E device \in Faced,
                a \in CaptureAsks \union (IF Len(recorded) = 2 THEN OtherCaptureAsks ELSE {}) :
               AskCapture(device, a)
      BY <2>1, <2>4 DEF Call, AskCrash, AskSheet, AskWire
    <3>3. \A device \in Faced :
             device \in {Device} \union Devices /\ (recorded = <<>> => device = Device)
      BY DEF Faced
    <3>4. CASE \E device \in Faced, x \in {1, 2, 5} : AskTap(device, x)
      <4>1. PICK device \in Faced, x \in {1, 2, 5} : AskTap(device, x)
        BY <3>4
      <4>2. ask'.device = device /\ ask'.x = x /\ ask'.tool = "tap_node"
        BY <4>1 DEF AskTap
      <4>3. answer' = TapNode(recorded', ask'.device, ask'.x)
        BY <3>1, <4>1, <4>2 DEF AskTap
      <4> QED
        BY <2>2, <3>1, <3>3, <4>2, <4>3
    <3>5. CASE \E device \in Faced, filter \in Filters, limit \in 1 .. 2 :
                 AskElements(device, filter, limit)
      <4>1. PICK device \in Faced, filter \in Filters, limit \in 1 .. 2 :
               AskElements(device, filter, limit)
        BY <3>5
      <4>2. /\ ask'.device = device /\ ask'.filter = filter /\ ask'.limit = limit
            /\ ask'.tool = "list_elements"
        BY <4>1 DEF AskElements
      <4>3. answer' = ListElements(recorded', ask'.device, ask'.filter, ask'.limit)
        BY <3>1, <4>1, <4>2 DEF AskElements
      <4>4. limit \in Nat
        OBVIOUS
      <4> QED
        BY <2>2, <3>1, <3>3, <4>2, <4>3, <4>4
    <3>6. CASE \E device \in Faced,
                  a \in CaptureAsks \union (IF Len(recorded) = 2 THEN OtherCaptureAsks ELSE {}) :
                 AskCapture(device, a)
      <4>1. PICK device \in Faced, a \in CaptureAsks \union OtherCaptureAsks :
               AskCapture(device, a)
        BY <3>6
      <4>2. ask' = [a EXCEPT !.device = device]
        BY <4>1 DEF AskCapture
      <4>3. ask'.tool = "capture" /\ ask'.device = device
        <5> DEFINE b == [a EXCEPT !.device = device]
        <5>1. b.tool = "capture" /\ b.device = device
          BY CapturesAre
        <5> HIDE DEF b
        <5> QED
          BY <4>2, <5>1 DEF b
      <4>4. ask' = [a EXCEPT !.device = ask'.device] /\ answer' = Capture(recorded', ask'.device, a)
        BY <3>1, <4>1, <4>2, <4>3, Zenon DEF AskCapture
      <4> QED
        BY <2>2, <3>1, <3>3, <4>3, <4>4
    <3> QED
      BY <3>2, <3>4, <3>5, <3>6
  <2> QED
    BY <1>2, <2>3, <2>4 DEF Next
<1> QED
  BY <1>1, <1>2

-----------------------------------------------------------------------------
(* The elements that are listed.                                           *)

(* The window that a node is part of.                                      *)
TopOf(nodes, n) == Last(Lineage(nodes, n))

(* The order in which elements are listed.                                 *)
Before(nodes, a, b) ==
  \/ TopOf(nodes, a) > TopOf(nodes, b)
  \/ TopOf(nodes, a) = TopOf(nodes, b) /\ b \in Line(nodes, a)
  \/ TopOf(nodes, a) = TopOf(nodes, b) /\ a < b /\ a \notin Line(nodes, b)

Reading(nodes) ==
  {p \in (DOMAIN nodes) \X (DOMAIN nodes) : p[1] # p[2] /\ Before(nodes, p[1], p[2])}

(* A node and what is in it.                                               *)
Within(nodes, n) == {m \in DOMAIN nodes : n \in Line(nodes, m)}

LEMMA TopsAre ==
  ASSUME NEW nodes, IsForest(nodes)
  PROVE  /\ \A n \in DOMAIN nodes :
               /\ TopOf(nodes, n) = IF nodes[n].parent = 0 THEN n
                                    ELSE TopOf(nodes, nodes[n].parent)
               /\ TopOf(nodes, n) \in 1 .. n
               /\ nodes[TopOf(nodes, n)].parent = 0
               /\ TopOf(nodes, n) \in Line(nodes, n)
         /\ \A n \in DOMAIN nodes : \A p \in Line(nodes, n) :
               TopOf(nodes, p) = TopOf(nodes, n)
<1> DEFINE N == Len(nodes)
           par(n) == nodes[n].parent
           lin(n) == Lineage(nodes, n)
           line(n) == Line(nodes, n)
           top(n) == TopOf(nodes, n)
<1>1. N \in Nat /\ DOMAIN nodes = 1 .. N /\ \A n \in 1 .. N : par(n) \in 0 .. n - 1
  BY DEF IsForest
<1>2. /\ lin(0) = <<>>
      /\ \A n \in 1 .. N : lin(n) = <<n>> \o lin(par(n))
      /\ \A n \in 0 .. N : lin(n) \in Seq(Nat)
  BY <1>1, LineageIs
<1>3. /\ line(0) = {} /\ \A n \in 1 .. N : line(n) = {n} \union line(par(n))
      /\ \A n \in 1 .. N : lin(n) # <<>>
  BY <1>1, LinesAre
<1>4. \A n \in 1 .. N : /\ n \in 0 .. N /\ n \in Nat /\ n \in 1 .. n /\ n # 0
                        /\ par(n) \in 0 .. N
                        /\ par(n) # 0 => par(n) \in 1 .. N /\ par(n) < n
  BY <1>1
<1> HIDE DEF N, par, line
<1>5. ASSUME NEW n \in 1 .. N
      PROVE  top(n) = IF par(n) = 0 THEN n ELSE top(par(n))
  <2> DEFINE s == lin(par(n))
  <2>1. s \in Seq(Nat) /\ lin(n) = <<n>> \o s /\ n \in Nat
    BY <1>2, <1>4
  <2>2. par(n) = 0 => s = <<>>
    BY <1>2
  <2>3. par(n) # 0 => s # <<>>
    BY <1>3, <1>4
  <2>4. top(n) = Last(<<n>> \o s) /\ top(par(n)) = Last(s)
    BY <2>1 DEF TopOf
  <2> HIDE DEF s, top
  <2>5. s = <<>> => Last(<<n>> \o s) = n
    BY <2>1 DEF Last
  <2>6. s # <<>> => Last(<<n>> \o s) = Last(s)
    <3> DEFINE l == <<n>> \o s
    <3>1. Len(s) \in Nat /\ Len(l) = Len(s) + 1
      BY <2>1
    <3>2. s # <<>> => l[Len(s) + 1] = s[Len(s)]
      BY <2>1
    <3> HIDE DEF l
    <3> QED
      BY <3>1, <3>2 DEF Last, l
  <2> QED
    BY <2>2, <2>3, <2>4, <2>5, <2>6
<1> HIDE DEF top, lin
<1>6. \A n \in 0 .. N :
        n # 0 => /\ top(n) \in 1 .. n /\ par(top(n)) = 0 /\ top(n) \in line(n)
                 /\ \A p \in line(n) : top(p) = top(n)
  <2> DEFINE T == {n \in 0 .. N :
                     n # 0 => /\ top(n) \in 1 .. n /\ par(top(n)) = 0 /\ top(n) \in line(n)
                              /\ \A p \in line(n) : top(p) = top(n)}
  <2>1. 0 \in T
    BY <1>1
  <2>2. ASSUME NEW n \in 1 .. N, par(n) \in T
        PROVE  n \in T
    <3>1. n \in 0 .. N /\ line(n) = {n} \union line(par(n))
      BY <1>3, <1>4
    <3>2. CASE par(n) = 0
      <4>1. top(n) = n /\ line(n) = {n}
        BY <1>3, <1>5, <3>1, <3>2
      <4> QED
        BY <1>4, <3>1, <3>2, <4>1
    <3>3. CASE par(n) # 0
      <4>1. /\ top(n) = top(par(n)) /\ par(n) \in 1 .. N /\ par(n) < n
            /\ top(par(n)) \in 1 .. par(n) /\ par(top(par(n))) = 0
            /\ top(par(n)) \in line(par(n))
            /\ \A p \in line(par(n)) : top(p) = top(par(n))
        BY <1>4, <1>5, <2>2, <3>3
      <4>2. top(n) \in 1 .. n
        BY <1>1, <1>4, <4>1
      <4>3. \A p \in line(n) : top(p) = top(n)
        BY <3>1, <4>1
      <4> QED
        BY <3>1, <4>1, <4>2, <4>3
    <3> QED
      BY <3>2, <3>3
  <2> HIDE DEF T
  <2>3. \A n \in 0 .. N : n \in T
    BY <1>1, <2>1, <2>2, ForestInduction DEF N, par
  <2> QED
    BY <2>3 DEF T
<1>7. \A n \in 1 .. N : n \in 0 .. N /\ n # 0
  BY <1>1
<1> QED
  BY <1>1, <1>5, <1>6, <1>7 DEF N, par, top, line

LEMMA ReadingIs ==
  ASSUME NEW nodes
  PROVE  \A x, y : <<x, y>> \in Reading(nodes) <=>
            x \in DOMAIN nodes /\ y \in DOMAIN nodes /\ x # y /\ Before(nodes, x, y)
<1> SUFFICES ASSUME NEW x, NEW y
             PROVE  <<x, y>> \in Reading(nodes) <=>
                       x \in DOMAIN nodes /\ y \in DOMAIN nodes /\ x # y /\ Before(nodes, x, y)
  OBVIOUS
<1> DEFINE p == <<x, y>>
<1>1. p[1] = x /\ p[2] = y
  OBVIOUS
<1>2. p \in (DOMAIN nodes) \X (DOMAIN nodes) <=> x \in DOMAIN nodes /\ y \in DOMAIN nodes
  <2> DEFINE D == DOMAIN nodes
  <2> HIDE DEF D
  <2>1. p \in D \X D <=> x \in D /\ y \in D
    OBVIOUS
  <2> QED
    BY <2>1, Zenon DEF D
<1>3. p \in Reading(nodes) <=>
        p \in (DOMAIN nodes) \X (DOMAIN nodes) /\ p[1] # p[2] /\ Before(nodes, p[1], p[2])
  BY Zenon DEF Reading
<1> QED
  BY <1>1, <1>2, <1>3, Zenon

LEMMA ReadingIsOneWay ==
  ASSUME NEW nodes, IsForest(nodes), NEW a, NEW b, <<a, b>> \in Reading(nodes)
  PROVE  <<b, a>> \notin Reading(nodes)
<1> DEFINE N == Len(nodes)
           line(n) == Line(nodes, n)
           top(n) == TopOf(nodes, n)
<1>1. N \in Nat /\ DOMAIN nodes = 1 .. N
  BY DEF IsForest
<1>2. \A n \in 1 .. N : top(n) \in 1 .. n /\ line(n) \subseteq 1 .. n
  <2>1. \A n \in 1 .. N : n \in 0 .. N
    BY <1>1
  <2> QED
    BY <1>1, <2>1, TopsAre, LinesAre
<1>3. /\ \A x, y : <<x, y>> \in Reading(nodes) <=>
            /\ x \in 1 .. N /\ y \in 1 .. N /\ x # y
            /\ \/ top(x) > top(y)
               \/ top(x) = top(y) /\ y \in line(x)
               \/ top(x) = top(y) /\ x < y /\ x \notin line(y)
  BY <1>1, ReadingIs, Zenon DEF Before
<1> HIDE DEF N, line, top
<1>4. a \in 1 .. N /\ b \in 1 .. N
  BY <1>3
<1>5. /\ a \in Int /\ b \in Int /\ top(a) \in Int /\ top(b) \in Int
      /\ b \in line(a) => b <= a
      /\ a \in line(b) => a <= b
  BY <1>1, <1>2, <1>4
<1> QED
  BY <1>3, <1>5

LEMMA WithinIs ==
  ASSUME NEW nodes, IsForest(nodes)
  PROVE  /\ \A n \in DOMAIN nodes :
               Within(nodes, n) = (UNION {Within(nodes, c) : c \in Children(nodes, n)}) \union {n}
         /\ DOMAIN nodes = UNION {Within(nodes, r) : r \in Roots(nodes)}
<1> DEFINE N == Len(nodes)
           par(n) == nodes[n].parent
           line(n) == Line(nodes, n)
<1>1. N \in Nat /\ DOMAIN nodes = 1 .. N /\ \A n \in 1 .. N : par(n) \in 0 .. n - 1
  BY DEF IsForest
<1>2. \A n \in 1 .. N : line(n) = {n} \union line(par(n))
  BY <1>1, LinesAre
<1>3. \A n \in 1 .. N : n \in 0 .. N /\ n # 0
  BY <1>1
<1>4. \A m \in 1 .. N : \A p \in line(m) : line(p) \subseteq line(m) /\ p \in 1 .. N
  BY <1>1, <1>3, LinesNest
<1>5. \A m \in 1 .. N : \A a \in {0} \union line(m) :
         a # m => \E c \in line(m) : par(c) = a
  BY <1>3, Toward
<1>6. /\ \A n, m : m \in Within(nodes, n) <=> m \in 1 .. N /\ n \in line(m)
      /\ \A n, c : c \in Children(nodes, n) <=> c \in 1 .. N /\ par(c) = n
      /\ Roots(nodes) = Children(nodes, 0)
  BY <1>1 DEF Within, Children, Roots
<1> HIDE DEF N, par, line
<1>7. ASSUME NEW n \in 1 .. N, NEW m
      PROVE  m \in Within(nodes, n) <=>
                m = n \/ \E c \in Children(nodes, n) : m \in Within(nodes, c)
  <2>1. ASSUME m \in Within(nodes, n), m # n
        PROVE  \E c \in Children(nodes, n) : m \in Within(nodes, c)
    BY <1>4, <1>5, <1>6, <2>1
  <2>2. n \in Within(nodes, n)
    BY <1>2, <1>6
  <2>3. ASSUME NEW c \in Children(nodes, n), m \in Within(nodes, c)
        PROVE  m \in Within(nodes, n)
    <3>1. c \in 1 .. N /\ par(c) = n /\ m \in 1 .. N /\ c \in line(m)
      BY <1>6, <2>3
    <3>2. n \in line(n) /\ line(c) = {c} \union line(n) /\ line(c) \subseteq line(m)
      BY <1>2, <1>4, <3>1
    <3> QED
      BY <1>6, <3>1, <3>2
  <2> QED
    BY <2>1, <2>2, <2>3
<1>8. ASSUME NEW m
      PROVE  m \in 1 .. N <=> \E r \in Roots(nodes) : m \in Within(nodes, r)
  <2>1. ASSUME m \in 1 .. N
        PROVE  \E r \in Roots(nodes) : m \in Within(nodes, r)
    <3>1. 0 # m
      BY <1>3, <2>1
    <3>2. PICK r \in line(m) : par(r) = 0
      BY <1>5, <2>1, <3>1
    <3> QED
      BY <1>4, <1>6, <2>1, <3>2
  <2> QED
    BY <1>6, <2>1
<1>9. ASSUME NEW n \in 1 .. N
      PROVE  Within(nodes, n) = (UNION {Within(nodes, c) : c \in Children(nodes, n)}) \union {n}
  <2> DEFINE U == UNION {Within(nodes, c) : c \in Children(nodes, n)}
  <2>1. \A m : m \in U <=> \E c \in Children(nodes, n) : m \in Within(nodes, c)
    OBVIOUS
  <2> HIDE DEF U
  <2>2. \A m : m \in Within(nodes, n) <=> m \in U \union {n}
    BY <1>7, <2>1
  <2>3. Within(nodes, n) = U \union {n}
    BY <2>2
  <2> QED
    BY <2>3, Zenon DEF U
<1>10. 1 .. N = UNION {Within(nodes, r) : r \in Roots(nodes)}
  BY <1>8
<1> QED
  BY <1>1, <1>9, <1>10

(* What is in one of two views of the same comes before what is in the     *)
(* next, and before the whole.                                             *)
LEMMA PartsRead ==
  ASSUME NEW nodes, IsTree(nodes), NEW n \in DOMAIN nodes
  PROVE  /\ \A c, d \in Children(nodes, n) : c < d =>
               \A x \in Within(nodes, c) : \A y \in Within(nodes, d) :
                  <<x, y>> \in Reading(nodes)
         /\ \A c \in Children(nodes, n) : \A x \in Within(nodes, c) :
               <<x, n>> \in Reading(nodes)
<1> DEFINE N == Len(nodes)
           par(m) == nodes[m].parent
           line(m) == Line(nodes, m)
           top(m) == TopOf(nodes, m)
<1>f. IsForest(nodes)
  BY DEF IsTree
<1>1. N \in Nat /\ DOMAIN nodes = 1 .. N /\ \A m \in 1 .. N : par(m) \in 0 .. m - 1
  BY <1>f DEF IsForest
<1>3. \A m \in 1 .. N : m \in 0 .. N /\ m # 0 /\ m \in Int
  BY <1>1
<1>2. \A m \in 1 .. N : line(m) = {m} \union line(par(m)) /\ line(m) \subseteq 1 .. m
  BY <1>1, <1>3, <1>f, LinesAre
<1>4. \A m \in 1 .. N : \A p \in line(m) : line(p) \subseteq line(m) /\ p \in 1 .. N
  BY <1>1, <1>3, <1>f, LinesNest
<1>5. \A m \in 1 .. N : \A p \in line(m) : top(p) = top(m)
  BY <1>1, <1>f, TopsAre
<1>6. /\ \A k, m : m \in Within(nodes, k) <=> m \in 1 .. N /\ k \in line(m)
      /\ \A c : c \in Children(nodes, n) <=> c \in 1 .. N /\ par(c) = n
  BY <1>1 DEF Within, Children
<1>7. \A x, y : <<x, y>> \in Reading(nodes) <=>
            /\ x \in 1 .. N /\ y \in 1 .. N /\ x # y
            /\ \/ top(x) > top(y)
               \/ top(x) = top(y) /\ y \in line(x)
               \/ top(x) = top(y) /\ x < y /\ x \notin line(y)
  BY <1>1, ReadingIs, Zenon DEF Before
<1>8. \A c, d, m \in 1 .. N : c < d /\ par(c) = par(d) /\ d <= m => c \notin line(m)
  BY <1>1, SiblingsPart
<1>n. n \in 1 .. N
  BY <1>1
<1> HIDE DEF N, par, line, top
<1>9. ASSUME NEW c \in Children(nodes, n), NEW x \in Within(nodes, c)
      PROVE  /\ c \in 1 .. N /\ x \in 1 .. N /\ c \in line(x) /\ n \in line(x)
             /\ c <= x /\ n < c /\ top(x) = top(n)
  <2>1. c \in 1 .. N /\ par(c) = n /\ x \in 1 .. N /\ c \in line(x)
    BY <1>6
  <2>2. line(c) = {c} \union line(n) /\ n \in line(n) /\ line(c) \subseteq line(x)
    BY <1>2, <1>4, <1>n, <2>1
  <2>3. n \in line(x)
    BY <2>2
  <2>4. c <= x /\ n < c
    <3>1. c \in 1 .. x
      BY <1>2, <2>1
    <3>2. n \in 0 .. c - 1
      BY <1>1, <2>1
    <3> QED
      BY <1>3, <1>n, <2>1, <3>1, <3>2
  <2> QED
    BY <1>5, <2>1, <2>3, <2>4
<1>10. ASSUME NEW c \in Children(nodes, n), NEW x \in Within(nodes, c)
       PROVE  <<x, n>> \in Reading(nodes)
  <2>1. x # n
    BY <1>3, <1>9, <1>n
  <2> QED
    BY <1>7, <1>9, <1>n, <2>1
<1>11. ASSUME NEW c \in Children(nodes, n), NEW d \in Children(nodes, n), c < d,
              NEW x \in Within(nodes, c), NEW y \in Within(nodes, d)
       PROVE  <<x, y>> \in Reading(nodes)
  <2>1. par(c) = par(d) /\ c \in 1 .. N /\ d \in 1 .. N /\ x \in 1 .. N /\ y \in 1 .. N
        /\ c \in line(x) /\ d <= y
    BY <1>6, <1>9
  <2>2. ~(d <= x)
    BY <1>8, <1>11, <2>1
  <2>3. c \notin line(y)
    BY <1>8, <1>11, <2>1
  <2>4. x \notin line(y)
    BY <1>4, <2>1, <2>3
  <2>5. x < y
    BY <1>3, <2>1, <2>2
  <2>6. top(x) = top(y)
    BY <1>9
  <2> QED
    BY <1>3, <1>7, <2>1, <2>4, <2>5, <2>6
<1> QED
  BY <1>10, <1>11

(* The last window comes first.                                            *)
LEMMA WindowsRead ==
  ASSUME NEW nodes, IsForest(nodes), NEW r \in Roots(nodes), NEW q \in Roots(nodes), q < r,
         NEW x \in Within(nodes, r), NEW y \in Within(nodes, q)
  PROVE  <<x, y>> \in Reading(nodes)
<1> DEFINE N == Len(nodes)
           top(m) == TopOf(nodes, m)
<1>1. N \in Nat /\ DOMAIN nodes = 1 .. N
  BY DEF IsForest
<1>2. r \in 1 .. N /\ q \in 1 .. N /\ nodes[r].parent = 0 /\ nodes[q].parent = 0
  BY <1>1 DEF Roots, Children
<1>3. x \in 1 .. N /\ r \in Line(nodes, x) /\ y \in 1 .. N /\ q \in Line(nodes, y)
  BY <1>1 DEF Within
<1>4. top(r) = r /\ top(q) = q /\ top(x) = top(r) /\ top(y) = top(q)
  BY <1>1, <1>2, <1>3, TopsAre
<1>5. top(x) > top(y)
  BY <1>1, <1>2, <1>4
<1>6. x # y
  BY <1>2, <1>4, <1>1
<1>7. Before(nodes, x, y)
  BY <1>5 DEF Before
<1> QED
  BY <1>1, <1>3, <1>6, <1>7, ReadingIs

LEMMA KidsAre ==
  ASSUME NEW nodes, IsForest(nodes), NEW n \in 0 .. Len(nodes)
  PROVE  LET C == Children(nodes, n)
             s == InOrder(C)
         IN  /\ Cardinality(C) \in Nat
             /\ Len(s) = Cardinality(C) /\ DOMAIN s = 1 .. Cardinality(C) /\ Range(s) = C
             /\ \A i \in 1 .. Cardinality(C) : s[i] \in C /\ s[i] \in n + 1 .. Len(nodes)
             /\ \A i, j \in 1 .. Cardinality(C) : i < j => s[i] < s[j]
<1> DEFINE N == Len(nodes)
           C == Children(nodes, n)
           s == InOrder(C)
<1>1. N \in Nat /\ DOMAIN nodes = 1 .. N /\ \A m \in 1 .. N : nodes[m].parent \in 0 .. m - 1
  BY DEF IsForest
<1>2. \A c \in C : c \in n + 1 .. N
  <2> SUFFICES ASSUME NEW c \in C
               PROVE  c \in n + 1 .. N
    OBVIOUS
  <2>1. c \in 1 .. N /\ nodes[c].parent = n
    BY <1>1 DEF Children
  <2>2. n \in 0 .. c - 1
    BY <1>1, <2>1
  <2> QED
    BY <1>1, <2>1, <2>2
<1> HIDE DEF C
<1>3. C \in SUBSET (0 .. N)
  BY <1>1, <1>2
<1>4. s = Sorted(C, {p \in C \X C : p[1] < p[2]})
  BY DEF InOrder
<1> HIDE DEF s, N
<1>5. /\ Cardinality(C) \in Nat
      /\ DOMAIN s = 1 .. Len(s) /\ Len(s) = Cardinality(C) /\ Range(s) = C
      /\ \A i, j \in DOMAIN s : i < j => s[i] < s[j]
  BY <1>1, <1>3, <1>4, Ascending
<1>6. \A i \in 1 .. Cardinality(C) : s[i] \in C
  BY <1>5 DEF Range
<1> QED
  BY <1>2, <1>5, <1>6 DEF C, s, N

(* What is listed of a node: what is listed of its children, and then it.  *)
Listed(h, nodes, n) ==
  FlattenSeq([i \in 1 .. Cardinality(Children(nodes, n)) |->
                h[InOrder(Children(nodes, n))[i]]]) \o <<n>>

ListsAll(h, nodes) == h = [n \in DOMAIN nodes |-> Listed(h, nodes, n)]

LEMMA ListingsExist ==
  ASSUME NEW nodes, IsForest(nodes)
  PROVE  \E h : ListsAll(h, nodes)
<1> DEFINE N == Len(nodes)
           V == Seq(1 .. N)
           Lists(k, h) == /\ h \in [N - k + 1 .. N -> V]
                         /\ \A n \in N - k + 1 .. N : h[n] = Listed(h, nodes, n)
           T == {k \in 0 .. N : \E h : Lists(k, h)}
           num(n) == Cardinality(Children(nodes, n))
           kid(n, i) == InOrder(Children(nodes, n))[i]
<1>1. N \in Nat /\ DOMAIN nodes = 1 .. N
  BY DEF IsForest
<1>2. \A n \in 1 .. N : num(n) \in Nat /\ \A i \in 1 .. num(n) : kid(n, i) \in n + 1 .. N
  <2> SUFFICES ASSUME NEW n \in 1 .. N
               PROVE  num(n) \in Nat /\ \A i \in 1 .. num(n) : kid(n, i) \in n + 1 .. N
    OBVIOUS
  <2>1. n \in 0 .. Len(nodes)
    BY <1>1
  <2> QED
    BY <2>1, KidsAre
<1>3. \A h, n : Listed(h, nodes, n) =
                  FlattenSeq([i \in 1 .. num(n) |-> h[kid(n, i)]]) \o <<n>>
  BY Zenon DEF Listed
<1> HIDE DEF N, num, kid
<1>4. ASSUME NEW n \in 1 .. N, NEW h, \A m \in n + 1 .. N : h[m] \in V
      PROVE  Listed(h, nodes, n) \in V
  <2> DEFINE seqs == [i \in 1 .. num(n) |-> h[kid(n, i)]]
             E == 1 .. N
  <2>1. seqs \in Seq(V)
    <3>1. num(n) \in Nat /\ \A i \in 1 .. num(n) : seqs[i] \in V
      BY <1>2, <1>4
    <3>2. DOMAIN seqs = 1 .. num(n)
      OBVIOUS
    <3> HIDE DEF V
    <3> QED
      BY <3>1, <3>2
  <2> HIDE DEF seqs
  <2>2. FlattenSeq(seqs) \in Seq(E)
    <3>1. seqs \in Seq(Seq(E)) /\ Len(seqs) \in Nat
      BY <2>1
    <3> HIDE DEF E
    <3>2. PICK f : Flattens(f, E, seqs)
      BY <3>1, FlattenIs
    <3>3. Len(seqs) \in 0 .. Len(seqs)
      BY <3>1
    <3> QED
      BY <3>2, <3>3 DEF Flattens
  <2>3. <<n>> \in Seq(E)
    BY DEF E
  <2>4. Listed(h, nodes, n) = FlattenSeq(seqs) \o <<n>>
    BY <1>3 DEF seqs
  <2>5. FlattenSeq(seqs) \o <<n>> \in Seq(E)
    <3> DEFINE s == FlattenSeq(seqs)
               t == <<n>>
    <3>1. s \in Seq(E) /\ t \in Seq(E)
      BY <2>2, <2>3
    <3> HIDE DEF s, t, E
    <3>2. s \o t \in Seq(E)
      BY <3>1
    <3> QED
      BY <3>2 DEF s, t
  <2> QED
    BY <2>4, <2>5
<1>5. 0 \in T
  <2> DEFINE h == [n \in N - 0 + 1 .. N |-> <<>>]
  <2>1. \A n : n \notin N - 0 + 1 .. N
    BY <1>1
  <2>2. h \in [N - 0 + 1 .. N -> V]
    BY <2>1
  <2> HIDE DEF h, V
  <2>3. Lists(0, h)
    BY <2>1, <2>2
  <2>4. 0 \in 0 .. N
    BY <1>1
  <2> HIDE DEF Lists
  <2> QED
    BY <2>3, <2>4
<1>6. ASSUME NEW k \in 1 .. N, k - 1 \in T
      PROVE  k \in T
  <2>1. PICK f : Lists(k - 1, f)
    BY <1>6
  <2> DEFINE a == N - k + 1
             g == [n \in a .. N |-> IF n = a THEN Listed(f, nodes, a) ELSE f[n]]
  <2>2. /\ N - (k - 1) + 1 = a + 1 /\ a \in 1 .. N /\ k \in 0 .. N
        /\ \A n \in a .. N : n = a \/ n \in a + 1 .. N
        /\ \A n \in a + 1 .. N : n # a /\ n \in a .. N /\ n \in 1 .. N
        /\ \A n \in a .. N : n \in 1 .. N
        /\ \A n \in a .. N : \A m \in n + 1 .. N : m \in a + 1 .. N
        /\ a \in a .. N
    BY <1>1
  <2>3. f \in [a + 1 .. N -> V] /\ \A n \in a + 1 .. N : f[n] = Listed(f, nodes, n)
    <3> HIDE DEF V, a
    <3> QED
      BY <2>1, <2>2
  <2> HIDE DEF a
  <2>4. /\ g[a] = Listed(f, nodes, a)
        /\ \A n \in a + 1 .. N : g[n] = f[n] /\ f[n] \in V
    <3> HIDE DEF V
    <3> QED
      BY <2>2, <2>3
  <2>5. g[a] \in V
    <3> HIDE DEF V
    <3> QED
      BY <1>4, <2>2, <2>3, <2>4
  <2>6. g \in [a .. N -> V]
    <3>1. \A n \in a .. N : g[n] \in V
      <4> HIDE DEF V, g
      <4> QED
        BY <2>2, <2>4, <2>5
    <3> HIDE DEF V
    <3> QED
      BY <3>1
  <2> HIDE DEF g
  <2>7. ASSUME NEW n \in a .. N
        PROVE  g[n] = Listed(g, nodes, n)
    <3>1. \A i \in 1 .. num(n) : g[kid(n, i)] = f[kid(n, i)]
      BY <1>2, <2>2, <2>4
    <3>2. [i \in 1 .. num(n) |-> g[kid(n, i)]] = [i \in 1 .. num(n) |-> f[kid(n, i)]]
      BY <3>1
    <3>3. Listed(g, nodes, n) = Listed(f, nodes, n)
      BY <1>3, <3>2, Zenon
    <3>4. g[n] = Listed(f, nodes, n)
      BY <2>2, <2>3, <2>4
    <3> QED
      BY <3>3, <3>4
  <2>8. Lists(k, g)
    BY <2>6, <2>7 DEF a
  <2> HIDE DEF Lists
  <2> QED
    BY <2>2, <2>8
<1>7. \A k \in 0 .. N : k \in T
  <2> HIDE DEF T
  <2> QED
    BY <1>1, <1>5, <1>6, UpTo
<1>8. PICK h : Lists(N, h)
  <2>1. N \in 0 .. N
    BY <1>1
  <2> HIDE DEF Lists
  <2> QED
    BY <1>7, <2>1
<1>9. N - N + 1 = 1
  BY <1>1
<1>10. h \in [1 .. N -> V] /\ \A n \in 1 .. N : h[n] = Listed(h, nodes, n)
  <2> HIDE DEF V
  <2> QED
    BY <1>8, <1>9
<1>11. h = [n \in DOMAIN nodes |-> Listed(h, nodes, n)]
  <2> HIDE DEF V
  <2> QED
    BY <1>1, <1>10
<1> QED
  BY <1>11 DEF ListsAll

(* Of each node: all that is in it, each once, parts before the whole.     *)
LEMMA ListingsRise ==
  ASSUME NEW nodes, IsTree(nodes), NEW h, ListsAll(h, nodes)
  PROVE  \A n \in DOMAIN nodes : Rises(h[n], Within(nodes, n), Reading(nodes))
<1> DEFINE N == Len(nodes)
           R == Reading(nodes)
           in(n) == Within(nodes, n)
           num(n) == Cardinality(Children(nodes, n))
           kid(n, i) == InOrder(Children(nodes, n))[i]
           T == {k \in 0 .. N : \A n \in N - k + 1 .. N : Rises(h[n], in(n), R)}
<1>f. IsForest(nodes)
  BY DEF IsTree
<1>1. N \in Nat /\ DOMAIN nodes = 1 .. N
  BY <1>f DEF IsForest
<1>2. \A n \in 1 .. N :
        /\ num(n) \in Nat
        /\ \A i \in 1 .. num(n) : kid(n, i) \in Children(nodes, n) /\ kid(n, i) \in n + 1 .. N
        /\ \A i, j \in 1 .. num(n) : i < j => kid(n, i) < kid(n, j)
        /\ \A c \in Children(nodes, n) : \E i \in 1 .. num(n) : c = kid(n, i)
  <2> SUFFICES ASSUME NEW n \in 1 .. N
               PROVE  /\ num(n) \in Nat
                      /\ \A i \in 1 .. num(n) : kid(n, i) \in Children(nodes, n)
                                                /\ kid(n, i) \in n + 1 .. N
                      /\ \A i, j \in 1 .. num(n) : i < j => kid(n, i) < kid(n, j)
                      /\ \A c \in Children(nodes, n) : \E i \in 1 .. num(n) : c = kid(n, i)
    OBVIOUS
  <2>1. n \in 0 .. Len(nodes)
    BY <1>1
  <2> DEFINE C == Children(nodes, n)
             s == InOrder(C)
  <2>2. /\ Cardinality(C) \in Nat
        /\ Len(s) = Cardinality(C) /\ DOMAIN s = 1 .. Cardinality(C) /\ Range(s) = C
        /\ \A i \in 1 .. Cardinality(C) : s[i] \in C /\ s[i] \in n + 1 .. Len(nodes)
        /\ \A i, j \in 1 .. Cardinality(C) : i < j => s[i] < s[j]
    BY <1>f, <2>1, KidsAre
  <2> HIDE DEF C, s
  <2>3. \A c \in C : \E i \in 1 .. Cardinality(C) : c = s[i]
    BY <2>2 DEF Range
  <2> QED
    BY <2>2, <2>3 DEF C, s
<1>3. \A n \in 1 .. N : h[n] = FlattenSeq([i \in 1 .. num(n) |-> h[kid(n, i)]]) \o <<n>>
  <2>1. \A n \in 1 .. N : h[n] = Listed(h, nodes, n)
    BY <1>1 DEF ListsAll
  <2> QED
    BY <2>1, Zenon DEF Listed
<1>4. \A n \in 1 .. N :
        /\ in(n) = (UNION {in(c) : c \in Children(nodes, n)}) \union {n}
        /\ in(n) \subseteq 1 .. N
        /\ \A c, d \in Children(nodes, n) : c < d =>
              \A x \in in(c) : \A y \in in(d) : <<x, y>> \in R
        /\ \A c \in Children(nodes, n) : \A x \in in(c) : <<x, n>> \in R
  <2>1. \A n \in 1 .. N : in(n) = (UNION {in(c) : c \in Children(nodes, n)}) \union {n}
    BY <1>1, <1>f, WithinIs
  <2>2. \A n \in 1 .. N : in(n) \subseteq 1 .. N
    BY <1>1 DEF Within
  <2> HIDE DEF in
  <2> QED
    BY <1>1, <2>1, <2>2, PartsRead DEF in
<1> HIDE DEF N, R, in, num, kid
<1>5. ASSUME NEW n \in 1 .. N, \A m \in n + 1 .. N : Rises(h[m], in(m), R)
      PROVE  Rises(h[n], in(n), R)
  <2> DEFINE seqs == [i \in 1 .. num(n) |-> h[kid(n, i)]]
             sets == [i \in 1 .. num(n) |-> in(kid(n, i))]
             E == 1 .. N
             U == UNION {sets[i] : i \in 1 .. num(n)}
  <2>1. num(n) \in Nat /\ \A i \in 1 .. num(n) : kid(n, i) \in n + 1 .. N /\ kid(n, i) \in 1 .. N
    BY <1>1, <1>2
  <2>2. \A i \in 1 .. num(n) : seqs[i] = h[kid(n, i)] /\ sets[i] = in(kid(n, i))
    OBVIOUS
  <2>3. DOMAIN seqs = 1 .. num(n) /\ DOMAIN sets = 1 .. num(n)
    OBVIOUS
  <2>m. h[n] = FlattenSeq(seqs) \o <<n>>
    BY <1>3
  <2>s. sets = [i \in 1 .. num(n) |-> sets[i]]
    OBVIOUS
  <2>q. seqs = [i \in 1 .. num(n) |-> seqs[i]]
    OBVIOUS
  <2> HIDE DEF seqs, sets
  <2>4. \A i \in 1 .. num(n) : Rises(seqs[i], sets[i], R) /\ sets[i] \in SUBSET E
    <3> SUFFICES ASSUME NEW i \in 1 .. num(n)
                 PROVE  Rises(seqs[i], sets[i], R) /\ sets[i] \in SUBSET E
      OBVIOUS
    <3>1. Rises(h[kid(n, i)], in(kid(n, i)), R)
      BY <1>5, <2>1
    <3>2. in(kid(n, i)) \in SUBSET E
      BY <1>4, <2>1
    <3> QED
      BY <2>2, <3>1, <3>2
  <2>5. \A i \in 1 .. num(n) : seqs[i] \in Seq(E)
    <3> SUFFICES ASSUME NEW i \in 1 .. num(n)
                 PROVE  seqs[i] \in Seq(E)
      OBVIOUS
    <3>1. seqs[i] \in Seq(sets[i]) /\ sets[i] \subseteq E
      BY <2>4 DEF Rises
    <3> HIDE DEF E
    <3> QED
      BY <3>1
  <2>6. seqs \in Seq(Seq(E)) /\ Len(seqs) = num(n)
    <3> DEFINE V == Seq(E)
    <3> HIDE DEF V
    <3>1. \A i \in 1 .. num(n) : seqs[i] \in V
      BY <2>5 DEF V
    <3>2. seqs \in Seq(V) /\ Len(seqs) = num(n)
      BY <2>1, <2>q, <2>3, <3>1
    <3> QED
      BY <3>2 DEF V
  <2>7. sets \in [1 .. Len(seqs) -> SUBSET E]
    <3> HIDE DEF E
    <3> QED
      BY <2>4, <2>6, <2>s
  <2>8. \A i, j \in 1 .. Len(seqs) : i < j =>
           \A x \in sets[i] : \A y \in sets[j] : <<x, y>> \in R
    <3> SUFFICES ASSUME NEW i \in 1 .. num(n), NEW j \in 1 .. num(n), i < j,
                        NEW x \in in(kid(n, i)), NEW y \in in(kid(n, j))
                 PROVE  <<x, y>> \in R
      BY <2>2, <2>6
    <3>1. kid(n, i) < kid(n, j) /\ kid(n, i) \in Children(nodes, n)
          /\ kid(n, j) \in Children(nodes, n)
      BY <1>2
    <3> QED
      BY <1>4, <3>1
  <2>9. Rises(FlattenSeq(seqs), U, R)
    <3>1. \A i \in 1 .. Len(seqs) : Rises(seqs[i], sets[i], R)
      BY <2>4, <2>6
    <3>2. Rises(FlattenSeq(seqs), UNION {sets[i] : i \in 1 .. Len(seqs)}, R)
      <4> HIDE DEF E
      <4> QED
        BY <2>6, <2>7, <2>8, <3>1, RisesInAll
    <3> QED
      BY <2>6, <3>2
  <2>10. U = UNION {in(c) : c \in Children(nodes, n)}
    <3>1. \A x : x \in U <=> \E i \in 1 .. num(n) : x \in in(kid(n, i))
      BY <2>2
    <3>2. \A x : (\E i \in 1 .. num(n) : x \in in(kid(n, i)))
                   <=> \E c \in Children(nodes, n) : x \in in(c)
      BY <1>2
    <3> HIDE DEF U
    <3> QED
      BY <3>1, <3>2
  <2> HIDE DEF U
  <2>11. in(n) = U \union {n}
    BY <1>4, <2>10
  <2>12. Rises(<<n>>, {n}, R)
    <3> DEFINE one == <<n>>
    <3>1. one \in Seq({n}) /\ DOMAIN one = 1 .. 1 /\ one[1] = n
      OBVIOUS
    <3>2. Range(one) = {n}
      BY <3>1 DEF Range
    <3> HIDE DEF one
    <3>3. Rises(one, {n}, R)
      BY <3>1, <3>2 DEF Rises
    <3> QED
      BY <3>3 DEF one
  <2>13. \A x \in U : \A y \in {n} : <<x, y>> \in R
    <3>1. \A x \in U : \E c \in Children(nodes, n) : x \in in(c)
      BY <2>10
    <3> QED
      BY <1>4, <3>1
  <2>14. Rises(FlattenSeq(seqs) \o <<n>>, U \union {n}, R)
    BY <2>9, <2>12, <2>13, RisesTogether
  <2> QED
    BY <2>m, <2>11, <2>14, Zenon
<1>6. 0 \in T
  <2>1. \A n : n \notin N - 0 + 1 .. N
    BY <1>1
  <2>2. 0 \in 0 .. N
    BY <1>1
  <2> QED
    BY <2>1, <2>2
<1>7. ASSUME NEW k \in 1 .. N, k - 1 \in T
      PROVE  k \in T
  <2> DEFINE a == N - k + 1
  <2>1. a \in 1 .. N /\ k \in 0 .. N /\ N - (k - 1) + 1 = a + 1
        /\ \A n \in a .. N : n = a \/ n \in a + 1 .. N
    BY <1>1
  <2>2. \A n \in a + 1 .. N : Rises(h[n], in(n), R)
    <3>1. \A n \in N - (k - 1) + 1 .. N : Rises(h[n], in(n), R)
      BY <1>7
    <3> QED
      BY <2>1, <3>1
  <2> HIDE DEF a
  <2>3. Rises(h[a], in(a), R)
    BY <1>5, <2>1, <2>2
  <2>4. \A n \in a .. N : Rises(h[n], in(n), R)
    BY <2>1, <2>2, <2>3
  <2> QED
    BY <2>1, <2>4 DEF a
<1>8. \A k \in 0 .. N : k \in T
  <2> HIDE DEF T
  <2> QED
    BY <1>1, <1>6, <1>7, UpTo
<1>9. N \in 0 .. N /\ N - N + 1 = 1
  BY <1>1
<1>10. \A n \in N - N + 1 .. N : Rises(h[n], in(n), R)
  BY <1>8, <1>9
<1> QED
  BY <1>1, <1>9, <1>10 DEF N, in, R

UsefulOf(nodes) == {n \in DOMAIN nodes : IsUseful(nodes[n]) /\ HasPositiveBounds(nodes[n])}

(* The elements that nodes are shown as, and their order.                  *)
ElementsOf(nodes) == {ToElement(nodes, n, w) : n \in DOMAIN nodes, w \in Nat}

ListOrder(nodes) ==
  {p \in ElementsOf(nodes) \X ElementsOf(nodes) : <<p[1].node, p[2].node>> \in Reading(nodes)}

LEMMA ListOrderIs ==
  ASSUME NEW nodes, NEW a \in DOMAIN nodes, NEW b \in DOMAIN nodes, NEW v \in Nat, NEW w \in Nat,
         <<a, b>> \in Reading(nodes)
  PROVE  <<ToElement(nodes, a, v), ToElement(nodes, b, w)>> \in ListOrder(nodes)
<1> DEFINE e == ToElement(nodes, a, v)
           f == ToElement(nodes, b, w)
           p == <<e, f>>
           El == ElementsOf(nodes)
<1>1. e.node = a /\ f.node = b
  BY DEF ToElement
<1>2. e \in El /\ f \in El
  BY DEF ElementsOf
<1> HIDE DEF e, f, El
<1>3. p \in El \X El /\ p[1] = e /\ p[2] = f
  BY <1>2
<1>4. <<p[1].node, p[2].node>> \in Reading(nodes)
  BY <1>1, <1>3
<1>5. p \in ListOrder(nodes)
  BY <1>3, <1>4, Zenon DEF ListOrder, El
<1> QED
  BY <1>5, Zenon DEF e, f

LEMMA ListOrderGives ==
  ASSUME NEW nodes, NEW e, NEW f, <<e, f>> \in ListOrder(nodes)
  PROVE  <<e.node, f.node>> \in Reading(nodes)
<1> DEFINE p == <<e, f>>
<1>1. p[1] = e /\ p[2] = f
  OBVIOUS
<1>2. <<p[1].node, p[2].node>> \in Reading(nodes)
  BY Zenon DEF ListOrder
<1> QED
  BY <1>1, <1>2, Zenon

(* Every useful view is listed, and once.                                  *)
LEMMA CollectRises ==
  ASSUME NEW nodes, IsTree(nodes)
  PROVE  \E S : /\ S \subseteq ElementsOf(nodes) /\ {e.node : e \in S} = UsefulOf(nodes)
                /\ Rises(CollectElements(nodes), S, ListOrder(nodes))
<1> DEFINE N == Len(nodes)
           R == Reading(nodes)
           Q == ListOrder(nodes)
           El == ElementsOf(nodes)
           useful == UsefulOf(nodes)
           under == CHOOSE h : h = [n \in DOMAIN nodes |->
                       FlattenSeq([i \in 1 .. Cardinality(Children(nodes, n)) |->
                                     h[InOrder(Children(nodes, n))[i]]]) \o <<n>>]
           ord == InOrder(Roots(nodes))
           M == Cardinality(Roots(nodes))
           windows == Reverse(ord)
           listed(i) == Only(under[windows[i]], useful)
           row(i) == [k \in DOMAIN listed(i) |-> ToElement(nodes, listed(i)[k], i - 1)]
           rows == [i \in DOMAIN windows |-> row(i)]
<1>f. IsForest(nodes)
  BY DEF IsTree
<1>1. N \in Nat /\ DOMAIN nodes = 1 .. N
  BY <1>f DEF IsForest
<1>2. CollectElements(nodes) = FlattenSeq(rows)
  BY Zenon DEF CollectElements, UsefulOf
<1>3. \A n \in DOMAIN nodes : Rises(under[n], Within(nodes, n), R)
  <2>1. ListsAll(under, nodes)
    <3>1. \E h : ListsAll(h, nodes)
      BY <1>f, ListingsExist
    <3>2. under = CHOOSE h : ListsAll(h, nodes)
      BY Zenon DEF ListsAll, Listed
    <3> HIDE DEF under
    <3> QED
      BY <3>1, <3>2, Zenon
  <2> HIDE DEF under
  <2> QED
    BY <2>1, ListingsRise
<1> HIDE DEF under
<1>4. /\ M \in Nat /\ DOMAIN windows = 1 .. M
      /\ \A i \in 1 .. M : windows[i] \in Roots(nodes) /\ windows[i] \in 1 .. N
      /\ \A i, j \in 1 .. M : i < j => windows[j] < windows[i]
      /\ \A r \in Roots(nodes) : \E i \in 1 .. M : windows[i] = r
  <2>1. /\ M \in Nat /\ Len(ord) = M /\ DOMAIN ord = 1 .. M /\ Range(ord) = Roots(nodes)
        /\ \A i \in 1 .. M : ord[i] \in Roots(nodes) /\ ord[i] \in 0 + 1 .. N
        /\ \A i, j \in 1 .. M : i < j => ord[i] < ord[j]
    <3>1. 0 \in 0 .. Len(nodes)
      BY <1>1
    <3> QED
      BY <1>f, <3>1, KidsAre DEF Roots
  <2> HIDE DEF ord, M, N
  <2>2. windows = [i \in 1 .. M |-> ord[M - i + 1]]
    BY <2>1, Zenon DEF Reverse
  <2> HIDE DEF windows
  <2>3. \A i \in 1 .. M : M - i + 1 \in 1 .. M /\ M - (M - i + 1) + 1 = i
    BY <2>1
  <2>4. \A i, j \in 1 .. M : i < j => M - j + 1 < M - i + 1
    BY <2>1
  <2>5. \A i \in 1 .. M : windows[i] = ord[M - i + 1]
    BY <2>2
  <2>6. \A r \in Roots(nodes) : \E i \in 1 .. M : windows[i] = r
    <3> SUFFICES ASSUME NEW r \in Roots(nodes)
                 PROVE  \E i \in 1 .. M : windows[i] = r
      OBVIOUS
    <3>1. PICK i \in 1 .. M : ord[i] = r
      BY <2>1 DEF Range
    <3>2. windows[M - i + 1] = r /\ M - i + 1 \in 1 .. M
      BY <2>3, <2>5, <3>1
    <3> QED
      BY <3>2
  <2>7. \A i, j \in 1 .. M : i < j => windows[j] < windows[i]
    <3> SUFFICES ASSUME NEW i \in 1 .. M, NEW j \in 1 .. M, i < j
                 PROVE  windows[j] < windows[i]
      OBVIOUS
    <3>1. ord[M - j + 1] < ord[M - i + 1]
      BY <2>1, <2>3, <2>4
    <3> QED
      BY <2>5, <3>1
  <2>8. \A i \in 1 .. M : windows[i] \in Roots(nodes) /\ windows[i] \in 1 .. N
    <3>1. 0 + 1 = 1
      OBVIOUS
    <3> QED
      BY <2>1, <2>3, <2>5, <3>1
  <2> QED
    BY <2>1, <2>2, <2>6, <2>7, <2>8
<1> DEFINE own(i) == Within(nodes, windows[i]) \intersect useful
           shown(i) == {ToElement(nodes, n, i - 1) : n \in own(i)}
           sets == [i \in 1 .. M |-> shown(i)]
           S == UNION {sets[i] : i \in 1 .. M}
<1> HIDE DEF windows, M, N
<1>5. ASSUME NEW i \in 1 .. M
      PROVE  /\ i - 1 \in Nat /\ own(i) \subseteq DOMAIN nodes
             /\ shown(i) \in SUBSET El
             /\ Rises(row(i), shown(i), Q)
             /\ row(i) \in Seq(El)
  <2>1. i - 1 \in Nat
    BY <1>4
  <2>2. own(i) \subseteq DOMAIN nodes
    BY DEF Within
  <2>3. Rises(under[windows[i]], Within(nodes, windows[i]), R)
    BY <1>1, <1>3, <1>4
  <2>4. Rises(listed(i), own(i), R)
    <3> HIDE DEF R, useful
    <3> QED
      BY <2>3, RisesOnly
  <2> DEFINE D == own(i)
             l == listed(i)
             g == [n \in D |-> ToElement(nodes, n, i - 1)]
  <2> HIDE DEF D, l
  <2>5. \A x, y \in D : <<x, y>> \in R => <<g[x], g[y]>> \in Q
    <3> SUFFICES ASSUME NEW x \in D, NEW y \in D, <<x, y>> \in R
                 PROVE  <<g[x], g[y]>> \in Q
      OBVIOUS
    <3>1. x \in DOMAIN nodes /\ y \in DOMAIN nodes
      BY <2>2 DEF D
    <3>2. g[x] = ToElement(nodes, x, i - 1) /\ g[y] = ToElement(nodes, y, i - 1)
      OBVIOUS
    <3> HIDE DEF g
    <3>3. <<x, y>> \in Reading(nodes)
      OBVIOUS
    <3> HIDE DEF R
    <3>4. <<ToElement(nodes, x, i - 1), ToElement(nodes, y, i - 1)>> \in ListOrder(nodes)
      BY <2>1, <3>1, <3>3, ListOrderIs
    <3> QED
      BY <3>2, <3>4, Zenon
  <2>6. Rises(l, D, R)
    BY <2>4 DEF l, D
  <2>7. Rises([k \in DOMAIN l |-> g[l[k]]], {g[x] : x \in D}, Q)
    <3>1. DOMAIN g = D
      OBVIOUS
    <3> HIDE DEF g, Q, R
    <3> QED
      BY <2>5, <2>6, <3>1, RisesMapped
  <2>8. [k \in DOMAIN l |-> g[l[k]]] = [k \in DOMAIN l |-> ToElement(nodes, l[k], i - 1)]
    <3>1. \A k \in DOMAIN l : l[k] \in D
      BY <2>6 DEF Rises
    <3>2. \A k \in DOMAIN l : g[l[k]] = ToElement(nodes, l[k], i - 1)
      BY <3>1
    <3> HIDE DEF g
    <3> QED
      BY <3>2
  <2>9. {g[x] : x \in D} = {ToElement(nodes, n, i - 1) : n \in D}
    <3>1. \A n \in D : g[n] = ToElement(nodes, n, i - 1)
      OBVIOUS
    <3> HIDE DEF g
    <3> QED
      BY <3>1
  <2>10. Rises(row(i), shown(i), Q)
    <3>1. row(i) = [k \in DOMAIN l |-> ToElement(nodes, l[k], i - 1)]
      BY Zenon DEF l
    <3>2. shown(i) = {ToElement(nodes, n, i - 1) : n \in D}
      BY Zenon DEF D
    <3> HIDE DEF g, Q, R
    <3> QED
      BY <2>7, <2>8, <2>9, <3>1, <3>2, Zenon
  <2>11. shown(i) \in SUBSET El
    <3> SUFFICES ASSUME NEW n \in own(i)
                 PROVE  ToElement(nodes, n, i - 1) \in El
      OBVIOUS
    <3>1. n \in DOMAIN nodes
      BY <2>2
    <3> QED
      BY <2>1, <3>1 DEF ElementsOf
  <2> DEFINE rw == row(i)
             sh == shown(i)
  <2>12. rw \in Seq(El)
    <3>1. rw \in Seq(sh)
      BY <2>10 DEF Rises
    <3>2. sh \subseteq El
      BY <2>11
    <3> HIDE DEF rw, sh, El
    <3> QED
      BY <3>1, <3>2
  <2> HIDE DEF rw, sh, El, own, shown, row, Q
  <2>13. row(i) \in Seq(El)
    BY <2>12 DEF rw
  <2> QED
    BY <2>1, <2>2, <2>10, <2>11, <2>13
<1>6. ASSUME NEW i \in 1 .. M, NEW j \in 1 .. M, i < j, NEW x \in shown(i), NEW y \in shown(j)
      PROVE  <<x, y>> \in Q
  <2>1. PICK a \in own(i) : x = ToElement(nodes, a, i - 1)
    OBVIOUS
  <2>2. PICK b \in own(j) : y = ToElement(nodes, b, j - 1)
    OBVIOUS
  <2>3. a \in Within(nodes, windows[i]) /\ b \in Within(nodes, windows[j])
    OBVIOUS
  <2>4. windows[i] \in Roots(nodes) /\ windows[j] \in Roots(nodes) /\ windows[j] < windows[i]
    BY <1>4, <1>6
  <2>5. <<a, b>> \in R
    BY <1>f, <2>3, <2>4, WindowsRead
  <2>6. i - 1 \in Nat /\ j - 1 \in Nat /\ a \in DOMAIN nodes /\ b \in DOMAIN nodes
    BY <1>5
  <2>7. <<ToElement(nodes, a, i - 1), ToElement(nodes, b, j - 1)>> \in ListOrder(nodes)
    BY <2>5, <2>6, ListOrderIs
  <2> QED
    BY <2>1, <2>2, <2>7, Zenon
<1>7. /\ DOMAIN rows = 1 .. M /\ \A i \in 1 .. M : rows[i] = row(i)
      /\ rows = [i \in 1 .. M |-> rows[i]]
  BY <1>4
<1>8. \A x : x \in S <=> \E i \in 1 .. M : x \in shown(i)
  OBVIOUS
<1>s. /\ \A i \in 1 .. M : sets[i] = shown(i)
      /\ sets = [i \in 1 .. M |-> sets[i]]
  OBVIOUS
<1>n. {e.node : e \in S} = useful
  <2>1. \A i \in 1 .. M : \A n \in own(i) : ToElement(nodes, n, i - 1).node = n
    BY DEF ToElement
  <2>2. \A e \in S : e.node \in useful
    <3> SUFFICES ASSUME NEW i \in 1 .. M, NEW n \in own(i)
                 PROVE  ToElement(nodes, n, i - 1).node \in useful
      BY <1>8
    <3> QED
      BY <2>1
  <2>3. ASSUME NEW n \in useful
        PROVE  \E e \in S : e.node = n
    <3>1. n \in DOMAIN nodes
      BY DEF UsefulOf
    <3>0. n \in UNION {Within(nodes, r) : r \in Roots(nodes)}
      BY <1>f, <3>1, WithinIs
    <3>2. PICK r \in Roots(nodes) : n \in Within(nodes, r)
      BY <3>0
    <3>3. PICK i \in 1 .. M : windows[i] = r
      BY <1>4
    <3>4. n \in own(i)
      BY <3>2, <3>3
    <3>5. ToElement(nodes, n, i - 1) \in shown(i)
      BY <3>4
    <3>6. ToElement(nodes, n, i - 1) \in S
      BY <1>8, <3>5
    <3> QED
      BY <2>1, <3>4, <3>6
  <2> HIDE DEF S, useful
  <2> QED
    BY <2>2, <2>3
<1> HIDE DEF rows, row, shown, sets, El, Q
<1>9. rows \in Seq(Seq(El)) /\ Len(rows) = M
  <2> DEFINE V == Seq(El)
  <2>1. \A i \in 1 .. M : rows[i] \in V
    BY <1>5, <1>7
  <2> HIDE DEF V
  <2>2. rows \in Seq(V) /\ Len(rows) = M
    BY <1>4, <1>7, <2>1
  <2> QED
    BY <2>2 DEF V
<1>10. sets \in [1 .. Len(rows) -> SUBSET El]
  BY <1>5, <1>9, <1>s
<1>11. Rises(FlattenSeq(rows), UNION {sets[i] : i \in 1 .. Len(rows)}, Q)
  <2>1. \A i \in 1 .. Len(rows) : Rises(rows[i], sets[i], Q)
    BY <1>5, <1>7, <1>9, <1>s
  <2>2. \A i, j \in 1 .. Len(rows) : i < j =>
           \A x \in sets[i] : \A y \in sets[j] : <<x, y>> \in Q
    BY <1>6, <1>9, <1>s
  <2> QED
    BY <1>9, <1>10, <2>1, <2>2, RisesInAll
<1>12. S \subseteq El
  BY <1>5, <1>8
<1>13. Rises(FlattenSeq(rows), S, Q)
  BY <1>9, <1>11
<1> HIDE DEF S
<1>14. S \subseteq ElementsOf(nodes) /\ {e.node : e \in S} = UsefulOf(nodes)
       /\ Rises(CollectElements(nodes), S, ListOrder(nodes))
  BY <1>2, <1>12, <1>13, <1>n DEF El, Q
<1> QED
  BY <1>14

KeptOf(nodes, filter, wm) == {n \in UsefulOf(nodes) : Wanted(nodes[n], filter, wm)}

LEMMA ViewsAre ==
  \A v \in Views : Len(v.bounds) = 2 => v.bounds[1] \in Int /\ v.bounds[2] \in Int
<1> DEFINE view(bounds, id, text, clickable) ==
             [bounds |-> bounds, id |-> id, text |-> text, clickable |-> clickable,
              checkable |-> FALSE, class |-> IF clickable THEN "button" ELSE "view"]
           Are(b) == Len(b) = 2 => b[1] \in Int /\ b[2] \in Int
<1>1. \A b, i, t, c : view(b, i, t, c).bounds = b
                      /\ [view(b, i, t, c) EXCEPT !.checkable = TRUE].bounds = b
  OBVIOUS
<1>2. /\ Are(<<0, 4>>) /\ Are(<<0, 2>>) /\ Are(<<1, 3>>) /\ Are(<<3, 6>>)
      /\ Are(<<2, 2>>) /\ Are(<<2>>)
  OBVIOUS
<1>3. Views = {view(<<0, 4>>, "", "", FALSE), view(<<0, 4>>, "", "", TRUE),
               view(<<0, 2>>, "app", "hello", FALSE), view(<<1, 3>>, "app", "", TRUE),
               [view(<<3, 6>>, "android", "", FALSE) EXCEPT !.checkable = TRUE],
               view(<<2, 2>>, "app", "hello", TRUE), view(<<2>>, "", "hello", FALSE)}
  BY DEF Views
<1> HIDE DEF view, Are
<1>4. \A v \in Views :
        \/ v.bounds = <<0, 4>> \/ v.bounds = <<0, 2>> \/ v.bounds = <<1, 3>>
        \/ v.bounds = <<3, 6>> \/ v.bounds = <<2, 2>> \/ v.bounds = <<2>>
  <2> DEFINE a == <<0, 4>>
             b == <<0, 2>>
             c == <<1, 3>>
             d == <<3, 6>>
             e == <<2, 2>>
             f == <<2>>
  <2> HIDE DEF a, b, c, d, e, f
  <2>1. Views = {view(a, "", "", FALSE), view(a, "", "", TRUE),
                 view(b, "app", "hello", FALSE), view(c, "app", "", TRUE),
                 [view(d, "android", "", FALSE) EXCEPT !.checkable = TRUE],
                 view(e, "app", "hello", TRUE), view(f, "", "hello", FALSE)}
    BY <1>3, Zenon DEF a, b, c, d, e, f
  <2>2. \A v \in Views : \/ v.bounds = a \/ v.bounds = b \/ v.bounds = c
                         \/ v.bounds = d \/ v.bounds = e \/ v.bounds = f
    <3> SUFFICES ASSUME NEW v \in Views
                 PROVE  \/ v.bounds = a \/ v.bounds = b \/ v.bounds = c
                        \/ v.bounds = d \/ v.bounds = e \/ v.bounds = f
      OBVIOUS
    <3>1. \/ v = view(a, "", "", FALSE) \/ v = view(a, "", "", TRUE)
          \/ v = view(b, "app", "hello", FALSE) \/ v = view(c, "app", "", TRUE)
          \/ v = [view(d, "android", "", FALSE) EXCEPT !.checkable = TRUE]
          \/ v = view(e, "app", "hello", TRUE) \/ v = view(f, "", "hello", FALSE)
      BY <2>1
    <3>2. /\ view(a, "", "", FALSE).bounds = a /\ view(a, "", "", TRUE).bounds = a
          /\ view(b, "app", "hello", FALSE).bounds = b /\ view(c, "app", "", TRUE).bounds = c
          /\ [view(d, "android", "", FALSE) EXCEPT !.checkable = TRUE].bounds = d
          /\ view(e, "app", "hello", TRUE).bounds = e /\ view(f, "", "hello", FALSE).bounds = f
      BY DEF view
    <3> QED
      BY <3>1, <3>2
  <2> QED
    BY <2>2, Zenon DEF a, b, c, d, e, f
<1>5. \A v \in Views : Are(v.bounds)
  BY <1>2, <1>4, Zenon
<1> QED
  BY <1>5 DEF Are

LEMMA BoundsAre ==
  ASSUME NEW nodes \in Seq(NodesOf(Views)), NEW n \in UsefulOf(nodes)
  PROVE  LET b == nodes[n].bounds
         IN  b[1] \in Int /\ b[2] \in Int /\ b # Null /\ b[1] < b[2]
<1> DEFINE b == nodes[n].bounds
<1>1. n \in DOMAIN nodes /\ HasPositiveBounds(nodes[n])
  BY DEF UsefulOf
<1>2. nodes[n] \in NodesOf(Views)
  <2> DEFINE V == NodesOf(Views)
  <2>1. nodes \in Seq(V)
    OBVIOUS
  <2> HIDE DEF V
  <2>2. nodes[n] \in V
    BY <1>1, <2>1
  <2> QED
    BY <2>2 DEF V
<1>3. PICK v \in Views, q \in Nat : nodes[n] = BuildNode(v, q)
  BY <1>2 DEF NodesOf
<1>4. b = IF Len(v.bounds) = 2 THEN v.bounds ELSE Null
  <2>1. BuildNode(v, q).bounds = IF Len(v.bounds) = 2 THEN v.bounds ELSE Null
    BY DEF BuildNode
  <2> QED
    BY <1>3, <2>1, Zenon
<1>5. b # Null /\ b[2] > b[1]
  BY <1>1 DEF HasPositiveBounds
<1>6. b = v.bounds /\ b[1] \in Int /\ b[2] \in Int
  BY <1>4, <1>5, ViewsAre
<1> QED
  BY <1>5, <1>6

(* The centre of a view is in it.                                          *)
LEMMA CentresAreIn ==
  ASSUME NEW nodes \in Seq(NodesOf(Views)), NEW n \in UsefulOf(nodes), NEW w
  PROVE  ContainsPoint(nodes[n], ToElement(nodes, n, w).center)
<1> DEFINE b == nodes[n].bounds
           c == ToElement(nodes, n, w).center
<1>1. b[1] \in Int /\ b[2] \in Int /\ b # Null /\ b[1] < b[2]
  BY BoundsAre
<1>2. c = (b[1] + b[2]) \div 2
  BY DEF ToElement
<1> DEFINE l == b[1]
           r == b[2]
<1> HIDE DEF b, c, l, r
<1>3. l \in Int /\ r \in Int /\ l < r /\ c = (l + r) \div 2
  BY <1>1, <1>2 DEF l, r
<1>4. l <= c /\ c < r
  BY <1>3
<1> QED
  BY <1>1, <1>4 DEF ContainsPoint, l, r, b, c

(* How wide the screen is, of the devices that are asked.                  *)
Sized(wm) ==
  /\ wm.override = Null \/ (wm.override \in Nat /\ wm.override > 0)
  /\ wm.physical = Null \/ (wm.physical \in Nat /\ wm.physical > 0)

LEMMA DevicesAreSized ==
  ASSUME NEW device \in {Device} \union Devices
  PROVE  Sized(device.wm)
<1>1. /\ Device.wm = [override |-> Null, physical |-> 4]
      /\ DOMAIN Device = {"tries", "torn", "adb", "screencap", "paints", "rows", "wm"}
  BY DEF Device
<1>2. \A v, u : /\ [Device EXCEPT !.tries = v].wm = Device.wm
                /\ [Device EXCEPT !.tries = v, !.paints = u].wm = Device.wm
                /\ [Device EXCEPT !.torn = v].wm = Device.wm
                /\ [Device EXCEPT !.adb = v].wm = Device.wm
                /\ [Device EXCEPT !.screencap = v].wm = Device.wm
                /\ [Device EXCEPT !.rows = v].wm = Device.wm
                /\ [Device EXCEPT !.wm = v].wm = v
  BY <1>1
<1>3. device.wm \in {[override |-> Null, physical |-> 4], [override |-> 3, physical |-> 4],
                     [override |-> Null, physical |-> Null]}
  BY <1>1, <1>2 DEF Devices
<1> QED
  BY <1>3 DEF Sized

LEMMA ProbedIs ==
  ASSUME NEW wm, Sized(wm)
  PROVE  LET width == IF wm.override # Null THEN wm.override ELSE wm.physical
         IN  /\ ProbeViewport(wm) = width
             /\ width # Null => width \in Nat /\ width > 0
  BY ScreenAssumption DEF Sized, ProbeViewport

(* What the clause on the viewport says of the bounds is that some of the  *)
(* view is on the screen.                                                  *)
LEMMA OnScreen ==
  ASSUME NEW l \in Int, NEW r \in Int, l < r, NEW width \in Nat, width > 0
  PROVE  ~(r <= 0 \/ l >= width) <=> \E pixel \in 0 .. width - 1 : l <= pixel /\ pixel < r
<1>1. ASSUME ~(r <= 0 \/ l >= width)
      PROVE  \E pixel \in 0 .. width - 1 : l <= pixel /\ pixel < r
  <2>1. CASE l < 0
    <3>1. 0 \in 0 .. width - 1 /\ l <= 0 /\ 0 < r
      BY <1>1, <2>1
    <3> QED
      BY <3>1
  <2>2. CASE l >= 0
    <3>1. l \in 0 .. width - 1 /\ l <= l /\ l < r
      BY <1>1, <2>2
    <3> QED
      BY <3>1
  <2> QED
    BY <2>1, <2>2
<1> QED
  BY <1>1

PlaceIn(nodes, kept, n) == Cardinality({m \in kept : m # n /\ Before(nodes, m, n)}) + 1

Keeps(e, filter, viewport) ==
  /\ filter.clickableOnly => e.clickable
  /\ \A f \in DOMAIN filter.contains : e[f] \in filter.contains[f]
  /\ filter.inViewport /\ viewport # Null => IntersectsViewport(e.bounds, viewport)

LEMMA FiltersAre ==
  ASSUME NEW filter \in Filters, filter # Null
  PROVE  DOMAIN filter.contains \subseteq {"text", "id"} /\ filter.inViewport \in BOOLEAN
<1> DEFINE c == [text |-> {"hello"}, id |-> {"app", "android"}]
<1>1. /\ DOMAIN Filter = {"clickableOnly", "contains", "inViewport"}
      /\ Filter.contains = <<>> /\ Filter.inViewport = FALSE
  BY DEF Filter
<1>2. DOMAIN <<>> = {} /\ DOMAIN c = {"text", "id"}
  OBVIOUS
<1> HIDE DEF c
<1>3. /\ [Filter EXCEPT !.clickableOnly = TRUE].contains = <<>>
      /\ [Filter EXCEPT !.clickableOnly = TRUE].inViewport = FALSE
      /\ [Filter EXCEPT !.inViewport = TRUE].contains = <<>>
      /\ [Filter EXCEPT !.inViewport = TRUE].inViewport = TRUE
      /\ [Filter EXCEPT !.contains = c].contains = c
      /\ [Filter EXCEPT !.contains = c].inViewport = FALSE
  BY <1>1
<1>4. \/ filter = [Filter EXCEPT !.clickableOnly = TRUE]
      \/ filter = [Filter EXCEPT !.inViewport = TRUE]
      \/ filter = [Filter EXCEPT !.contains = c]
  BY Zenon DEF Filters, c
<1> QED
  BY <1>2, <1>3, <1>4

(* A filter keeps of an element what is wanted of its view.                *)
LEMMA FilterKeeps ==
  ASSUME NEW nodes \in Seq(NodesOf(Views)), NEW n \in UsefulOf(nodes), NEW w,
         NEW filter \in Filters, filter # Null, NEW wm, Sized(wm)
  PROVE  LET viewport == IF filter.inViewport THEN ProbeViewport(wm) ELSE Null
         IN  Keeps(ToElement(nodes, n, w), filter, viewport) <=> Wanted(nodes[n], filter, wm)
<1> DEFINE e == ToElement(nodes, n, w)
           node == nodes[n]
           b == node.bounds
           width == IF wm.override # Null THEN wm.override ELSE wm.physical
           viewport == IF filter.inViewport THEN ProbeViewport(wm) ELSE Null
<1>1. /\ e.clickable = node.clickable /\ e["text"] = node["text"] /\ e["id"] = node["id"]
      /\ e.bounds = b
  BY DEF ToElement
<1>2. b[1] \in Int /\ b[2] \in Int /\ b # Null /\ b[1] < b[2]
  BY BoundsAre
<1>3. ProbeViewport(wm) = width /\ (width # Null => width \in Nat /\ width > 0)
  BY ProbedIs
<1>4. DOMAIN filter.contains \subseteq {"text", "id"} /\ filter.inViewport \in BOOLEAN
  BY FiltersAre
<1>5. Wanted(node, filter, wm) <=>
        /\ filter.clickableOnly => node.clickable
        /\ \A f \in DOMAIN filter.contains : node[f] \in filter.contains[f]
        /\ filter.inViewport /\ width # Null =>
              \E pixel \in 0 .. width - 1 : ContainsPoint(node, pixel)
  BY Zenon DEF Wanted
<1> HIDE DEF e, width
<1>6. (\A f \in DOMAIN filter.contains : e[f] \in filter.contains[f])
        <=> (\A f \in DOMAIN filter.contains : node[f] \in filter.contains[f])
  <2>1. \A f \in DOMAIN filter.contains : f = "text" \/ f = "id"
    BY <1>4
  <2>2. \A f \in DOMAIN filter.contains : e[f] = node[f]
    BY <1>1, <2>1, Zenon
  <2> HIDE DEF node
  <2> QED
    BY <2>2
<1>7. ASSUME filter.inViewport, width # Null
      PROVE  IntersectsViewport(b, width)
               <=> \E pixel \in 0 .. width - 1 : ContainsPoint(node, pixel)
  <2> DEFINE l == b[1]
             r == b[2]
  <2>1. \A pixel : ContainsPoint(node, pixel) <=> l <= pixel /\ pixel < r
    BY <1>2 DEF ContainsPoint
  <2>2. IntersectsViewport(b, width) <=> ~(r <= 0 \/ l >= width)
    BY DEF IntersectsViewport
  <2>3. l \in Int /\ r \in Int /\ l < r /\ width \in Nat /\ width > 0
    BY <1>2, <1>3, <1>7
  <2> HIDE DEF l, r, b, node
  <2>4. ~(r <= 0 \/ l >= width) <=> \E pixel \in 0 .. width - 1 : l <= pixel /\ pixel < r
    BY <2>3, OnScreen
  <2> QED
    BY <2>1, <2>2, <2>4
<1> DEFINE kept == filter.inViewport /\ viewport # Null => IntersectsViewport(b, viewport)
           wanted == filter.inViewport /\ width # Null =>
                       \E pixel \in 0 .. width - 1 : ContainsPoint(node, pixel)
<1>8. kept <=> wanted
  <2>1. CASE filter.inViewport
    <3>1. viewport = width
      BY <1>3, <2>1
    <3> HIDE DEF viewport, node, b
    <3> QED
      BY <1>7, <2>1, <3>1
  <2>2. CASE ~filter.inViewport
    BY <2>2
  <2> QED
    BY <2>1, <2>2
<1>9. Keeps(e, filter, viewport) <=>
        /\ filter.clickableOnly => e.clickable
        /\ \A f \in DOMAIN filter.contains : e[f] \in filter.contains[f]
        /\ kept
  <2> HIDE DEF viewport
  <2>1. e.bounds = b
    BY <1>1
  <2> HIDE DEF b
  <2> QED
    BY <2>1, Zenon DEF Keeps
<1>10. Wanted(node, filter, wm) <=>
        /\ filter.clickableOnly => node.clickable
        /\ \A f \in DOMAIN filter.contains : node[f] \in filter.contains[f]
        /\ wanted
  BY <1>5, Zenon
<1>11. e.clickable = node.clickable
  BY <1>1
<1>12. Keeps(e, filter, viewport) <=> Wanted(node, filter, wm)
  <2> HIDE DEF kept, wanted, viewport, node
  <2> QED
    BY <1>6, <1>8, <1>9, <1>10, <1>11, Zenon
<1> QED
  BY <1>12, Zenon DEF e

(* The elements that are kept are those of the views that are wanted.      *)
LEMMA FilteredRises ==
  ASSUME NEW nodes \in Seq(NodesOf(Views)), IsTree(nodes), NEW filter \in Filters,
         NEW wm, Sized(wm)
  PROVE  LET viewport == IF filter # Null /\ filter.inViewport THEN ProbeViewport(wm) ELSE Null
         IN  \E S : /\ S \subseteq ElementsOf(nodes)
                    /\ {e.node : e \in S} = KeptOf(nodes, filter, wm)
                    /\ Rises(ApplyElementFilter(CollectElements(nodes), filter, viewport), S,
                             ListOrder(nodes))
<1> DEFINE viewport == IF filter # Null /\ filter.inViewport THEN ProbeViewport(wm) ELSE Null
           all == CollectElements(nodes)
           filtered == ApplyElementFilter(all, filter, viewport)
           useful == UsefulOf(nodes)
           kept == KeptOf(nodes, filter, wm)
           El == ElementsOf(nodes)
           Q == ListOrder(nodes)
<1>1. PICK S : S \subseteq El /\ {e.node : e \in S} = useful /\ Rises(all, S, Q)
  BY CollectRises
<1>2. CASE filter = Null
  <2>1. filtered = all
    BY <1>2 DEF ApplyElementFilter
  <2>2. kept = useful
    BY <1>2 DEF KeptOf, Wanted
  <2> HIDE DEF filtered, all, kept, useful, El, Q
  <2> QED
    BY <1>1, <2>1, <2>2 DEF filtered, all, kept, El, Q
<1>3. CASE filter # Null
  <2> DEFINE K == {e \in Range(all) : Keeps(e, filter, viewport)}
             T == S \intersect K
  <2>1. filtered = Only(all, K)
    BY <1>3, Zenon DEF ApplyElementFilter, Keeps
  <2> HIDE DEF all, Q
  <2>2. Range(all) = S /\ Rises(Only(all, K), T, Q)
    <3>1. Range(all) = S
      BY <1>1 DEF Rises
    <3> HIDE DEF K
    <3> QED
      BY <1>1, <3>1, RisesOnly
  <2>3. \A e \in S : e.node \in useful /\ (Keeps(e, filter, viewport)
                                            <=> Wanted(nodes[e.node], filter, wm))
    <3> SUFFICES ASSUME NEW e \in S
                 PROVE  e.node \in useful /\ (Keeps(e, filter, viewport)
                                               <=> Wanted(nodes[e.node], filter, wm))
      OBVIOUS
    <3>1. e.node \in useful
      BY <1>1
    <3>2. PICK n \in DOMAIN nodes, w \in Nat : e = ToElement(nodes, n, w)
      BY <1>1 DEF ElementsOf
    <3>3. e.node = n
      BY <3>2 DEF ToElement
    <3>4. viewport = IF filter.inViewport THEN ProbeViewport(wm) ELSE Null
      BY <1>3
    <3> DEFINE vp == IF filter.inViewport THEN ProbeViewport(wm) ELSE Null
    <3>5. n \in UsefulOf(nodes)
      BY <3>1, <3>3
    <3>6. Keeps(ToElement(nodes, n, w), filter, vp) <=> Wanted(nodes[n], filter, wm)
      BY <1>3, <3>5, FilterKeeps
    <3> HIDE DEF viewport, vp, useful
    <3> QED
      BY <3>1, <3>2, <3>3, <3>4, <3>6, Zenon DEF vp
  <2>4. {e.node : e \in T} = kept
    <3> HIDE DEF viewport, useful
    <3>1. \A e \in T : e.node \in kept
      BY <2>3 DEF KeptOf, useful
    <3>2. ASSUME NEW n \in kept
          PROVE  \E e \in T : e.node = n
      <4>1. n \in useful /\ Wanted(nodes[n], filter, wm)
        BY DEF KeptOf, useful
      <4>2. PICK e \in S : e.node = n
        BY <1>1, <4>1
      <4>3. e \in K
        BY <2>2, <2>3, <4>1, <4>2
      <4> QED
        BY <4>2, <4>3
    <3> HIDE DEF T, kept
    <3> QED
      BY <3>1, <3>2
  <2>5. T \subseteq El
    BY <1>1
  <2> HIDE DEF T, K, filtered, kept, El
  <2>6. T \subseteq El /\ {e.node : e \in T} = kept /\ Rises(filtered, T, Q)
    BY <2>1, <2>2, <2>4, <2>5
  <2> QED
    BY <2>6, Zenon DEF kept, El, Q, filtered, all
<1> QED
  BY <1>2, <1>3

(* As many elements as views, and each at the place of its view.           *)
LEMMA ListCounts ==
  ASSUME NEW nodes, IsForest(nodes), NEW T, T \subseteq ElementsOf(nodes),
         NEW s, Rises(s, T, ListOrder(nodes)), NEW kept, kept = {e.node : e \in T}
  PROVE  /\ kept \subseteq DOMAIN nodes
         /\ Len(s) \in Nat /\ DOMAIN s = 1 .. Len(s) /\ s \in Seq(ElementsOf(nodes))
         /\ Cardinality(kept) = Len(s)
         /\ \A i \in DOMAIN s : s[i].node \in kept /\ PlaceIn(nodes, kept, s[i].node) = i
<1> DEFINE R == Reading(nodes)
           Q == ListOrder(nodes)
           El == ElementsOf(nodes)
           g == [e \in T |-> e.node]
           t == [i \in DOMAIN s |-> g[s[i]]]
<1>1. s \in Seq(T) /\ Len(s) \in Nat /\ DOMAIN s = 1 .. Len(s) /\ Range(s) = T
  BY DEF Rises
<1>2. \A e \in T : g[e] = e.node
  OBVIOUS
<1>3. \A i \in DOMAIN s : s[i] \in T
  BY <1>1
<1>4. \A e \in El : e.node \in DOMAIN nodes
  <2> SUFFICES ASSUME NEW n \in DOMAIN nodes, NEW w \in Nat
               PROVE  ToElement(nodes, n, w).node \in DOMAIN nodes
    BY DEF ElementsOf
  <2> QED
    BY DEF ToElement
<1>5. \A x, y \in T : <<x, y>> \in Q => <<g[x], g[y]>> \in R
  <2> SUFFICES ASSUME NEW x \in T, NEW y \in T, <<x, y>> \in Q
               PROVE  <<g[x], g[y]>> \in R
    OBVIOUS
  <2>1. <<x.node, y.node>> \in Reading(nodes)
    BY ListOrderGives
  <2>2. g[x] = x.node /\ g[y] = y.node
    BY <1>2
  <2> HIDE DEF g
  <2> QED
    BY <2>1, <2>2, Zenon
<1>6. Rises(t, {g[x] : x \in T}, R)
  <2>1. DOMAIN g = T
    OBVIOUS
  <2> HIDE DEF g, R, Q
  <2>2. Rises(s, T, Q)
    BY DEF Q
  <2> QED
    BY <1>5, <2>1, <2>2, RisesMapped
<1>7. {g[x] : x \in T} = kept
  BY <1>2
<1>8. DOMAIN t = DOMAIN s /\ \A i \in DOMAIN s : t[i] = s[i].node
  BY <1>2, <1>3
<1>9. Len(t) = Len(s)
  BY <1>1, <1>8
<1> HIDE DEF t, g
<1>10. Rises(t, kept, R)
  BY <1>6, <1>7
<1>11. kept \subseteq DOMAIN nodes
  <2> HIDE DEF El
  <2> QED
    BY <1>4 DEF El
<1>12. \A x, y \in kept : <<x, y>> \in R => <<y, x>> \notin R
  BY ReadingIsOneWay
<1> HIDE DEF R
<1>13. /\ Cardinality(kept) = Len(t)
       /\ \A i \in DOMAIN t : Cardinality({y \in kept : <<y, t[i]>> \in R}) + 1 = i
  BY <1>10, <1>12, RisesCounts
<1>14. ASSUME NEW i \in DOMAIN s
       PROVE  s[i].node \in kept /\ PlaceIn(nodes, kept, s[i].node) = i
  <2> DEFINE n == s[i].node
  <2>1. n \in kept
    BY <1>3
  <2>2. t[i] = n /\ i \in DOMAIN t
    BY <1>8
  <2> HIDE DEF n
  <2>3. {m \in kept : m # n /\ Before(nodes, m, n)} = {y \in kept : <<y, n>> \in R}
    <3>1. \A m \in kept : <<m, n>> \in R <=> m # n /\ Before(nodes, m, n)
      BY <1>11, <2>1, ReadingIs DEF R
    <3> QED
      BY <3>1
  <2>4. Cardinality({y \in kept : <<y, n>> \in R}) + 1 = i
    BY <1>13, <2>2
  <2>5. PlaceIn(nodes, kept, n) = i
    BY <2>3, <2>4, Zenon DEF PlaceIn
  <2> QED
    BY <2>1, <2>5 DEF n
<1>15. s \in Seq(El)
  <2> HIDE DEF El
  <2>1. T \subseteq El
    BY DEF El
  <2> QED
    BY <1>1, <2>1
<1> QED
  BY <1>1, <1>9, <1>11, <1>13, <1>14, <1>15

(* The list of a call: the wanted views, each at its place, up to the      *)
(* limit.                                                                  *)
LEMMA NarrowedIs ==
  ASSUME NEW nodes \in Seq(NodesOf(Views)), IsTree(nodes), NEW filter \in Filters,
         NEW wm, Sized(wm), NEW limit \in Nat
  PROVE  LET list   == Narrowed(nodes, filter, limit, wm)
             listed == list.elements
             kept   == KeptOf(nodes, filter, wm)
         IN  /\ Cardinality(kept) \in Nat
             /\ Len(listed) \in Nat /\ DOMAIN listed = 1 .. Len(listed)
             /\ listed \in Seq(ElementsOf(nodes))
             /\ Len(listed) = Min({limit, Cardinality(kept)})
             /\ \A i \in DOMAIN listed : /\ listed[i].node \in kept
                                         /\ PlaceIn(nodes, kept, listed[i].node) = i
             /\ list.unfiltered = Cardinality(UsefulOf(nodes))
             /\ list.truncated <=> Cardinality(kept) > Len(listed)
<1> DEFINE viewport == IF filter # Null /\ filter.inViewport THEN ProbeViewport(wm) ELSE Null
           all == CollectElements(nodes)
           filtered == ApplyElementFilter(all, filter, viewport)
           m == Min({limit, Len(filtered)})
           listed == SubSeq(filtered, 1, m)
           list == Narrowed(nodes, filter, limit, wm)
           kept == KeptOf(nodes, filter, wm)
           useful == UsefulOf(nodes)
           El == ElementsOf(nodes)
           probed == filter # Null /\ filter.inViewport
<1>f. IsForest(nodes)
  BY DEF IsTree
<1>1. list = [elements   |-> listed,
              unfiltered |-> Len(all),
              filtered   |-> Len(filtered),
              truncated  |-> Len(filtered) > Len(listed),
              warned     |-> probed /\ viewport = Null]
  BY Zenon DEF Narrowed
<1>2. Cardinality(useful) = Len(all)
  <2>1. PICK S : S \subseteq El /\ {e.node : e \in S} = useful
                 /\ Rises(all, S, ListOrder(nodes))
    BY CollectRises
  <2> HIDE DEF all, useful
  <2> QED
    BY <1>f, <2>1, ListCounts
<1>3. /\ Len(filtered) \in Nat /\ DOMAIN filtered = 1 .. Len(filtered) /\ filtered \in Seq(El)
      /\ Cardinality(kept) = Len(filtered)
      /\ \A i \in DOMAIN filtered : /\ filtered[i].node \in kept
                                    /\ PlaceIn(nodes, kept, filtered[i].node) = i
  <2>1. PICK T : T \subseteq El /\ {e.node : e \in T} = kept
                 /\ Rises(filtered, T, ListOrder(nodes))
    BY FilteredRises
  <2> HIDE DEF filtered, kept, El
  <2>2. T \subseteq ElementsOf(nodes) /\ kept = {e.node : e \in T}
    BY <2>1 DEF El
  <2>3. /\ Len(filtered) \in Nat /\ DOMAIN filtered = 1 .. Len(filtered)
        /\ filtered \in Seq(ElementsOf(nodes)) /\ Cardinality(kept) = Len(filtered)
        /\ \A i \in DOMAIN filtered : /\ filtered[i].node \in kept
                                      /\ PlaceIn(nodes, kept, filtered[i].node) = i
    BY <1>f, <2>1, <2>2, ListCounts
  <2> QED
    BY <2>3 DEF El
<1> HIDE DEF all, filtered, kept, useful, viewport, El
<1>4. m = (IF limit <= Len(filtered) THEN limit ELSE Len(filtered)) /\ m \in 0 .. Len(filtered)
  <2>1. m = IF limit <= Len(filtered) THEN limit ELSE Len(filtered)
    BY <1>3, MinOfTwo
  <2> QED
    BY <1>3, <2>1
<1>5. /\ listed \in Seq(El) /\ Len(listed) = m /\ DOMAIN listed = 1 .. m
      /\ \A i \in 1 .. m : listed[i] = filtered[i]
  <2> HIDE DEF m
  <2>1. filtered \in Seq(El) /\ m \in 0 .. Len(filtered) /\ Len(filtered) \in Nat
    BY <1>3, <1>4
  <2>2. listed \in Seq(El)
    BY <2>1
  <2>3. Len(listed) = m /\ DOMAIN listed = 1 .. m
    BY <2>1
  <2>4. \A i \in 1 .. m : listed[i] = filtered[i]
    BY <2>1
  <2> QED
    BY <2>2, <2>3, <2>4
<1>6. \A i \in 1 .. m : i \in DOMAIN filtered
  BY <1>3, <1>4
<1>7. /\ list.elements = listed /\ list.unfiltered = Len(all)
      /\ list.truncated = (Len(filtered) > Len(listed))
  <2> HIDE DEF list, listed
  <2> QED
    BY <1>1
<1>8. m = Min({limit, Cardinality(kept)})
  BY <1>3
<1> HIDE DEF list, listed, m
<1>9. /\ Cardinality(kept) \in Nat
      /\ Len(list.elements) \in Nat /\ DOMAIN list.elements = 1 .. Len(list.elements)
      /\ list.elements \in Seq(El)
      /\ Len(list.elements) = Min({limit, Cardinality(kept)})
      /\ list.unfiltered = Cardinality(useful)
      /\ list.truncated <=> Cardinality(kept) > Len(list.elements)
  BY <1>2, <1>3, <1>4, <1>5, <1>7, <1>8
<1>10. ASSUME NEW i \in DOMAIN list.elements
       PROVE  /\ list.elements[i].node \in kept
              /\ PlaceIn(nodes, kept, list.elements[i].node) = i
  <2>1. i \in 1 .. m /\ list.elements[i] = filtered[i]
    BY <1>5, <1>7
  <2> QED
    BY <1>3, <1>6, <2>1
<1> QED
  BY <1>9, <1>10 DEF list, kept, useful, El

(* A tap on the centre of what is listed lands on it, or on what is drawn  *)
(* in or over it.                                                          *)
LEMMA CentresAreHit ==
  ASSUME NEW nodes, IsTree(nodes), NEW n \in DOMAIN nodes, NEW x, n \in Under(nodes, x),
         nodes[n].clickable \/ Children(nodes, n) = {},
         TopmostWindow(nodes, x) = TopOf(nodes, n)
  PROVE  ResolveTap(nodes, x).node >= n
<1> DEFINE hit == ResolveTap(nodes, x)
<1>f. IsForest(nodes)
  BY DEF IsTree
<1>1. Len(nodes) \in Nat /\ DOMAIN nodes = 1 .. Len(nodes)
  BY <1>f DEF IsForest
<1>2. TopmostWindow(nodes, x) # 0
  <2>1. TopOf(nodes, n) \in 1 .. n
    BY <1>f, TopsAre
  <2> QED
    BY <1>1, <2>1
<1>3. NamesTheView(nodes, x, hit)
  BY <1>2, TapsFind
<1> HIDE DEF hit
<1>4. /\ hit.node \in Under(nodes, x)
      /\ \A m \in Under(nodes, x) \ Line(nodes, hit.node) :
            m > hit.node => Hollow(nodes, m, x)
  BY <1>3 DEF NamesTheView
<1>5. hit.node \in 1 .. Len(nodes)
  BY <1>1, <1>4 DEF Under
<1>6. CASE n \in Line(nodes, hit.node)
  <2>1. Line(nodes, hit.node) \subseteq 1 .. hit.node
    <3>1. hit.node \in 0 .. Len(nodes)
      BY <1>1, <1>5
    <3> QED
      BY <1>f, <3>1, LinesAre
  <2> QED
    BY <1>1, <1>5, <1>6, <2>1 DEF hit
<1>7. CASE n \notin Line(nodes, hit.node)
  <2>1. ~Hollow(nodes, n, x)
    BY DEF Hollow
  <2>2. ~(n > hit.node)
    BY <1>4, <1>7, <2>1
  <2> QED
    BY <1>1, <1>5, <2>2 DEF hit
<1> QED
  BY <1>6, <1>7

(* The badges of a list: those asked for, in order, each of its element.   *)
LEMMA BadgesAre ==
  ASSUME NEW elements, NEW n \in Nat, DOMAIN elements = 1 .. n, NEW ids,
         ids # Null => Range(ids) \subseteq 1 .. n
  PROVE  LET badges == AnnotationIdsSubset(elements, ids)
         IN  /\ {b.annotationId : b \in Range(badges)} = IF ids = Null THEN 1 .. n ELSE Range(ids)
             /\ \A i, j \in DOMAIN badges : i < j =>
                   badges[i].annotationId < badges[j].annotationId
             /\ \A b \in Range(badges) :
                   b.annotationId \in 1 .. n /\ b.element = elements[b.annotationId]
<1> DEFINE wanted == IF ids = Null THEN 1 .. n ELSE Range(ids)
           s == InOrder(wanted)
           badge(i) == [annotationId |-> s[i], element |-> elements[s[i]]]
           badges == AnnotationIdsSubset(elements, ids)
<1>1. badges = [i \in DOMAIN s |-> badge(i)]
  BY Zenon DEF AnnotationIdsSubset
<1>2. wanted \subseteq 1 .. n
  OBVIOUS
<1> HIDE DEF wanted
<1>3. /\ Range(s) = wanted
      /\ \A i, j \in DOMAIN s : i < j => s[i] < s[j]
  <2>1. wanted \in SUBSET (0 .. n)
    BY <1>2
  <2>2. s = Sorted(wanted, {p \in wanted \X wanted : p[1] < p[2]})
    BY DEF InOrder
  <2> HIDE DEF s
  <2> QED
    BY <2>1, <2>2, Ascending
<1> HIDE DEF s, badges
<1>4. /\ DOMAIN badges = DOMAIN s
      /\ \A i \in DOMAIN s : /\ badges[i].annotationId = s[i]
                             /\ badges[i].element = elements[s[i]]
  BY <1>1
<1>5. \A i \in DOMAIN s : s[i] \in wanted
  BY <1>3 DEF Range
<1> HIDE DEF badge
<1>6. \A b : b \in Range(badges) <=> \E i \in DOMAIN s : b = badges[i]
  BY <1>4 DEF Range
<1>7. \A x : x \in wanted <=> \E i \in DOMAIN s : x = s[i]
  BY <1>3 DEF Range
<1>8. {b.annotationId : b \in Range(badges)} = wanted
  BY <1>4, <1>6, <1>7
<1>9. \A b \in Range(badges) :
         b.annotationId \in 1 .. n /\ b.element = elements[b.annotationId]
  <2> SUFFICES ASSUME NEW b \in Range(badges)
               PROVE  b.annotationId \in 1 .. n /\ b.element = elements[b.annotationId]
    OBVIOUS
  <2>1. PICK i \in DOMAIN s : b = badges[i]
    BY <1>6
  <2>2. b.annotationId = s[i] /\ b.element = elements[s[i]]
    BY <1>4, <2>1, Zenon
  <2>3. s[i] \in 1 .. n
    BY <1>2, <1>5
  <2> QED
    BY <2>2, <2>3, Zenon
<1>10. \A i, j \in DOMAIN badges : i < j => badges[i].annotationId < badges[j].annotationId
  BY <1>3, <1>4
<1> QED
  BY <1>8, <1>9, <1>10 DEF wanted, badges

(* What a capture answers, of any list of elements.                        *)
LEMMA CapturedIs ==
  ASSUME NEW device, device.rows \in {0, 2, 3}, NEW a, NEW whole, NEW list
  PROVE  LET got   == Captured(device, a, whole, list)
             drawn == got.annotation
         IN  IF got.refused THEN got.events = <<>>
             ELSE /\ "screenshot" \in a.kinds => "screenshot" \in got.saved
                  /\ "annotated" \in got.saved => "dump" \in got.saved
                  /\ a.annotate =>
                       /\ (drawn.error = Null) <=> ("annotated" \in got.saved)
                       /\ Last(got.events).badges.count = Len(drawn.elements)
                       /\ drawn.error # Null => drawn.elements = <<>>
                       /\ drawn.error = Null =>
                            /\ drawn.elements = AnnotationIdsSubset(list.elements, a.ids)
                            /\ a.ids # Null => Range(a.ids) \subseteq DOMAIN list.elements
<1> DEFINE
    dumped    == (a.annotate \/ "ui_dump" \in a.kinds) /\ CaptureUiDump(device)
    collected == dumped /\ a.annotate /\ whole
    dumpTold  == dumped /\ (a.annotate => whole)
    badges    == AnnotationIdsSubset(list.elements, a.ids)
    outside   == collected /\ a.ids # Null
                 /\ ~(Range(a.ids) \subseteq DOMAIN list.elements)
    drawn     == collected /\ (badges # <<>> => device.paints)
    applied   == IF a.ids = Null THEN Null ELSE IF collected THEN Len(badges) ELSE 0
    saved     == (a.kinds \intersect {"screenshot"})
                 \union (IF dumped THEN {"dump"} ELSE {})
    unavailable == EmptyAnnotation("annotate_elements_unavailable", a.ids)
    failed == EmptyAnnotation("annotate_failed", a.ids)
    full == [error |-> Null, elements |-> badges, unfiltered |-> list.unfiltered,
             filtered |-> list.filtered, truncated |-> list.truncated,
             warned |-> list.warned,
             requested |-> IF a.ids = Null THEN Null ELSE Len(a.ids),
             applied |-> applied]
    annotation ==
        IF ~a.annotate THEN Null
        ELSE IF ~collected THEN unavailable
        ELSE IF ~drawn THEN failed
        ELSE full
    row   == AnnotationRow(a, annotation, collected, list, applied)
    event == [type   |-> "capture", kinds |-> a.kinds,
              uiDumpFailed |-> "ui_dump" \in a.kinds /\ ~dumpTold, badges |-> row]
    fine  == [refused |-> FALSE, tapped |-> FALSE,
              saved   |-> saved \union (IF drawn THEN {"annotated"} ELSE {}),
              uiDump  |-> "ui_dump" \in a.kinds /\ dumpTold,
              annotation |-> annotation,
              events  |-> <<event>>]
    got   == Captured(device, a, whole, list)
<1>1. got = IF a.annotate /\ "screenshot" \notin a.kinds THEN Refused("query_malformed", {})
            ELSE IF ~a.annotate /\ AnnotateOnly(a) THEN Refused("query_malformed", {})
            ELSE IF "screenshot" \in a.kinds /\ ~device.screencap
                 THEN Refused("adb_command_failed", {})
            ELSE IF "ui_dump" \in a.kinds /\ dumpTold /\ device.adb = "foreground"
                 THEN Refused("adb_command_failed", saved)
            ELSE IF outside THEN Refused("query_malformed", saved)
            ELSE WithRows(device, fine)
  BY Zenon DEF Captured
<1>2. /\ unavailable.error = "annotate_elements_unavailable" /\ unavailable.elements = <<>>
      /\ failed.error = "annotate_failed" /\ failed.elements = <<>>
      /\ unavailable.error # Null /\ failed.error # Null
  BY ScreenAssumption DEF EmptyAnnotation
<1>3. full.error = Null /\ full.elements = badges
  OBVIOUS
<1>4. drawn => collected
  OBVIOUS
<1>5. collected => dumped
  OBVIOUS
<1>6. a.annotate => row.count = Len(annotation.elements)
  BY DEF AnnotationRow
<1>7. event.badges = row
  OBVIOUS
<1>8. fine.events = <<event>> /\ ~fine.refused /\ fine.annotation = annotation
      /\ fine.saved = saved \union (IF drawn THEN {"annotated"} ELSE {})
  OBVIOUS
<1>9. /\ "annotated" \notin saved
      /\ "screenshot" \in a.kinds => "screenshot" \in saved
      /\ dumped => "dump" \in saved
  OBVIOUS
<1>10. /\ drawn /\ a.annotate => annotation = full
       /\ ~drawn /\ a.annotate => annotation \in {unavailable, failed}
  BY <1>4
<1> HIDE DEF unavailable, failed, full, drawn, collected, dumped, dumpTold, badges, row, event,
             fine, got, saved, annotation
<1>11. Last(<<event>>) = event
  BY DEF Last
<1>12. \A code, s : Refused(code, s).refused /\ Refused(code, s).events = <<>>
  BY DEF Refused
<1>a. \/ WithRows(device, fine) = fine
      \/ WithRows(device, fine).refused /\ WithRows(device, fine).events = <<>>
  <2>1. fine.events = <<event>>
    BY <1>8
  <2> QED
    BY <2>1, OneRow
<1>13. \/ got = fine /\ ~outside
       \/ \E code, s : got = Refused(code, s)
       \/ got.refused /\ got.events = <<>>
  BY <1>1, <1>a
<1>14. CASE \E code, s : got = Refused(code, s)
  BY <1>12, <1>14 DEF got
<1>b. CASE got.refused /\ got.events = <<>>
  BY <1>b DEF got
<1>15. CASE got = fine /\ ~outside
  <2>1. "screenshot" \in a.kinds => "screenshot" \in got.saved
    BY <1>8, <1>9, <1>15
  <2>2. "annotated" \in got.saved <=> drawn
    BY <1>8, <1>9, <1>15
  <2>3. drawn => "dump" \in got.saved
    BY <1>4, <1>5, <1>8, <1>9, <1>15
  <2>4. ~got.refused /\ got.annotation = annotation /\ Last(got.events) = event
    BY <1>8, <1>11, <1>15
  <2>5. ASSUME a.annotate
        PROVE  /\ (annotation.error = Null) <=> drawn
               /\ Last(got.events).badges.count = Len(annotation.elements)
               /\ annotation.error # Null => annotation.elements = <<>>
               /\ annotation.error = Null =>
                    /\ annotation.elements = badges
                    /\ a.ids # Null => Range(a.ids) \subseteq DOMAIN list.elements
    <3>1. Last(got.events).badges.count = Len(annotation.elements)
      BY <1>6, <1>7, <2>4, <2>5
    <3>2. CASE drawn
      BY <1>3, <1>4, <1>10, <1>15, <2>5, <3>1, <3>2
    <3>3. CASE ~drawn
      BY <1>2, <1>10, <2>5, <3>1, <3>3
    <3> QED
      BY <3>2, <3>3
  <2> QED
    BY <2>1, <2>2, <2>3, <2>4, <2>5 DEF got, badges
<1> QED
  BY <1>13, <1>14, <1>15, <1>b

LEMMA CapturesAsk ==
  ASSUME NEW a \in CaptureAsks \union OtherCaptureAsks, NEW device
  PROVE  LET b == [a EXCEPT !.device = device]
         IN  /\ b.tool = "capture" /\ b.device = device
             /\ b.kinds = a.kinds /\ b.annotate = a.annotate /\ b.filter = a.filter
             /\ b.limit = a.limit /\ b.ids = a.ids
             /\ a.filter \in Filters /\ (a.limit # Null => a.limit \in Nat)
<1> DEFINE D == {"tool", "device", "kinds", "annotate", "filter", "limit", "ids"}
           viewport == [Filter EXCEPT !.inViewport = TRUE]
           Fine(b) == /\ DOMAIN b = D /\ b.tool = "capture"
                      /\ b.filter \in {Null, viewport}
                      /\ (b.limit # Null => b.limit \in Nat)
<1>1. /\ CaptureAsk.tool = "capture" /\ CaptureAsk.filter = Null /\ CaptureAsk.limit = Null
      /\ DOMAIN CaptureAsk = D
  BY DEF CaptureAsk
<1>2. Null \in Filters /\ viewport \in Filters
  BY DEF Filters
<1> HIDE DEF viewport
<1>3. Fine(a)
  <2>1. \A v, u, w : /\ Fine([CaptureAsk EXCEPT !.kinds = v, !.ids = u])
                     /\ Fine([CaptureAsk EXCEPT !.filter = viewport, !.limit = 2, !.ids = v])
                     /\ Fine([CaptureAsk EXCEPT !.kinds = v, !.annotate = u])
                     /\ Fine([CaptureAsk EXCEPT !.kinds = v])
    BY <1>1
  <2>2. \A v : Fine([CaptureAsk EXCEPT !.annotate = v, !.limit = DefaultLimit])
    BY <1>1, ScreenAssumption
  <2>3. Fine(CaptureAsk)
    BY <1>1
  <2>4. CASE a \in CaptureAsks
    <3>1. \/ a = [CaptureAsk EXCEPT !.kinds = {"screenshot", "ui_dump"}, !.ids = <<2, 1, 2>>]
          \/ a = [CaptureAsk EXCEPT !.filter = viewport, !.limit = 2, !.ids = <<2>>]
      BY <2>4, Zenon DEF CaptureAsks, viewport
    <3>2. /\ Fine([CaptureAsk EXCEPT !.kinds = {"screenshot", "ui_dump"}, !.ids = <<2, 1, 2>>])
          /\ Fine([CaptureAsk EXCEPT !.filter = viewport, !.limit = 2, !.ids = <<2>>])
      BY <2>1, Zenon
    <3> HIDE DEF Fine
    <3> QED
      BY <3>1, <3>2, Zenon
  <2>5. CASE a \in OtherCaptureAsks
    <3>1. \/ a = CaptureAsk
          \/ a = [CaptureAsk EXCEPT !.kinds = {"ui_dump"}, !.annotate = FALSE]
          \/ a = [CaptureAsk EXCEPT !.kinds = {"ui_dump"}]
          \/ a = [CaptureAsk EXCEPT !.annotate = FALSE, !.limit = DefaultLimit]
      BY <2>5, Zenon DEF OtherCaptureAsks
    <3>2. /\ Fine([CaptureAsk EXCEPT !.kinds = {"ui_dump"}, !.annotate = FALSE])
          /\ Fine([CaptureAsk EXCEPT !.kinds = {"ui_dump"}])
          /\ Fine([CaptureAsk EXCEPT !.annotate = FALSE, !.limit = DefaultLimit])
      BY <2>1, <2>2, Zenon
    <3> HIDE DEF Fine
    <3> QED
      BY <2>3, <3>1, <3>2, Zenon
  <2> QED
    BY <2>4, <2>5
<1> QED
  BY <1>2, <1>3

(* A screen that was dumped reads as a tree of its views.                  *)
LEMMA ScreensAre ==
  ASSUME ScreenInv, reading = "screen", answer # None
  PROVE  IsTree(Nodes) /\ Nodes \in Seq(NodesOf(Views)) /\ Sized(ask.device.wm)
<1> DEFINE W == Views
           device == ask.device
<1>1. /\ device \in {Device} \union Devices /\ AreViews(W, recorded)
      /\ recorded = <<>> => device = Device
  BY DEF ScreenInv
<1>2. Device.torn = "no"
  BY DEF Device
<1>3. device.torn \in {"no", "unclosed", "surplus"} /\ (recorded = <<>> => device.torn = "no")
  BY <1>1, <1>2, DevicesAre
<1>4. Sized(device.wm)
  BY <1>1, DevicesAreSized
<1> HIDE DEF W, device
<1>5. IsTree(Dump(recorded, device).nodes) /\ Dump(recorded, device).nodes \in Seq(NodesOf(W))
  BY <1>1, <1>3, DumpsAre
<1> QED
  BY <1>4, <1>5 DEF W, device, Nodes

(* What ElementsAreHonest says of an answer.                               *)
HonestList(nodes, got, filter, limit, wm) ==
  LET useful == UsefulOf(nodes)
      kept   == KeptOf(nodes, filter, wm)
      listed == got.list.elements
      event  == Last(got.events)
  IN  /\ Len(listed) = Min({limit, Cardinality(kept)})
      /\ \A i \in DOMAIN listed : /\ listed[i].node \in kept
                                  /\ PlaceIn(nodes, kept, listed[i].node) = i
      /\ event.unfiltered = Cardinality(useful) /\ event.count = Len(listed)
      /\ event.truncated <=> Cardinality(kept) > Len(listed)
      /\ \A e \in Range(listed) :
            LET n == e.node
            IN  /\ ContainsPoint(nodes[n], e.center)
                /\ /\ n \in Under(nodes, e.center)
                   /\ nodes[n].clickable \/ Children(nodes, n) = {}
                   /\ TopmostWindow(nodes, e.center) = TopOf(nodes, n)
                   => ResolveTap(nodes, e.center).node >= n

HonestBadges(nodes, got, a, limit) ==
  LET kept   == KeptOf(nodes, a.filter, a.device.wm)
      drawn  == got.annotation
      event  == Last(got.events)
  IN  /\ "screenshot" \in a.kinds => "screenshot" \in got.saved
      /\ "annotated" \in got.saved => "dump" \in got.saved
      /\ a.annotate =>
           /\ (drawn.error = Null) <=> ("annotated" \in got.saved)
           /\ event.badges.count = Len(drawn.elements)
           /\ IF drawn.error # Null THEN drawn.elements = <<>>
              ELSE /\ {b.annotationId : b \in Range(drawn.elements)} =
                         IF a.ids = Null THEN 1 .. Min({limit, Cardinality(kept)})
                         ELSE Range(a.ids)
                   /\ \A i, j \in DOMAIN drawn.elements : i < j =>
                         drawn.elements[i].annotationId < drawn.elements[j].annotationId
                   /\ \A b \in Range(drawn.elements) :
                         /\ b.element.node \in kept
                         /\ PlaceIn(nodes, kept, b.element.node) = b.annotationId

LEMMA ListsAreHonest ==
  ASSUME ScreenInv, reading = "screen", answer # None, ask.tool = "list_elements"
  PROVE  IF answer.refused THEN OnlyItsDump
         ELSE HonestList(Nodes, answer, ask.filter, ask.limit, ask.device.wm)
<1> DEFINE nodes == Nodes
           filter == ask.filter
           limit == ask.limit
           wm == ask.device.wm
           dump == Dump(recorded, ask.device)
           list == Narrowed(nodes, filter, limit, wm)
           listed == list.elements
           event == [type |-> "list_elements", count |-> Len(list.elements),
                     unfiltered |-> list.unfiltered, filtered |-> list.filtered,
                     truncated |-> list.truncated]
           events == <<CaptureEvent({"ui_dump"}), event>>
           fine == [refused |-> FALSE, tapped |-> FALSE, saved |-> {"dump"}, list |-> list,
                    windows |-> Cardinality(Roots(nodes)), events |-> events]
           kept == KeptOf(nodes, filter, wm)
<1>1. /\ answer = ListElements(recorded, ask.device, filter, limit)
      /\ filter \in Filters /\ limit \in Nat
  BY DEF ScreenInv
<1>2. IsTree(nodes) /\ nodes \in Seq(NodesOf(Views)) /\ Sized(wm)
  BY ScreensAre
<1>3. answer = IF ~CaptureUiDump(ask.device) THEN Refused("ui_dump_failed", {})
               ELSE IF ~dump.ok THEN Refused("ui_dump_failed", {"dump"})
               ELSE WithRows(ask.device, fine)
  BY <1>1, Zenon DEF ListElements, Nodes
<1>4. /\ fine.list = list /\ ~fine.refused /\ fine.events = events
      /\ event.count = Len(listed) /\ event.unfiltered = list.unfiltered
      /\ event.truncated = list.truncated /\ fine.saved = {"dump"}
  OBVIOUS
<1>5. Last(events) = event
  BY DEF Last
<1>6. \A code, s : Refused(code, s).refused /\ Refused(code, s).events = <<>>
  BY DEF Refused
<1> DEFINE dumped == CaptureEvent({"ui_dump"})
<1>a. events = <<dumped, event>>
  OBVIOUS
<1> HIDE DEF dumped
<1> HIDE DEF nodes, filter, wm, limit, fine, events, event, dump, list, kept
<1>b. LET got == WithRows(ask.device, fine)
      IN  \/ got = fine
          \/ /\ got.refused /\ got.saved = fine.saved
             /\ \A e \in Range(got.events) : e = dumped
  <2>1. ask.device.rows \in {0, 2, 3}
    BY RowsAre DEF ScreenInv
  <2>2. fine.events = <<dumped, event>>
    BY <1>4, <1>a
  <2> DEFINE device == ask.device
  <2> HIDE DEF device
  <2>3. device.rows \in {0, 2, 3}
    BY <2>1 DEF device
  <2>4. LET got == WithRows(device, fine)
        IN  /\ device.rows = 3 => got = fine
            /\ \/ got = fine
               \/ /\ got.refused /\ got.tapped = fine.tapped /\ got.saved = fine.saved
                  /\ \A e \in Range(got.events) : e = dumped
    BY <2>2, <2>3, TwoRows
  <2> QED
    BY <2>4, Zenon DEF device
<1>7. CASE \E code, s : answer = Refused(code, s)
  BY <1>6, <1>7 DEF OnlyItsDump, Range
<1>c. CASE /\ answer.refused /\ answer.saved = fine.saved
           /\ \A e \in Range(answer.events) : e = dumped
  BY <1>4, <1>c DEF OnlyItsDump, dumped
<1>8. CASE answer = fine
  <2>1. answer.list = list /\ ~answer.refused /\ Last(answer.events) = event
    BY <1>4, <1>5, <1>8
  <2>2. /\ Cardinality(kept) \in Nat
        /\ Len(listed) \in Nat /\ DOMAIN listed = 1 .. Len(listed)
        /\ listed \in Seq(ElementsOf(nodes))
        /\ Len(listed) = Min({limit, Cardinality(kept)})
        /\ \A i \in DOMAIN listed : /\ listed[i].node \in kept
                                    /\ PlaceIn(nodes, kept, listed[i].node) = i
        /\ list.unfiltered = Cardinality(UsefulOf(nodes))
        /\ list.truncated <=> Cardinality(kept) > Len(listed)
    BY <1>1, <1>2, NarrowedIs DEF list, kept
  <2>3. ASSUME NEW e \in Range(listed)
        PROVE  LET n == e.node
               IN  /\ ContainsPoint(nodes[n], e.center)
                   /\ /\ n \in Under(nodes, e.center)
                      /\ nodes[n].clickable \/ Children(nodes, n) = {}
                      /\ TopmostWindow(nodes, e.center) = TopOf(nodes, n)
                      => ResolveTap(nodes, e.center).node >= n
    <3> DEFINE n == e.node
    <3>1. PICK i \in DOMAIN listed : e = listed[i]
      BY DEF Range
    <3>2. n \in kept
      BY <2>2, <3>1
    <3>3. n \in UsefulOf(nodes) /\ n \in DOMAIN nodes
      BY <3>2 DEF kept, KeptOf, UsefulOf
    <3>4. e \in ElementsOf(nodes)
      BY <2>2, <3>1
    <3>5. PICK m \in DOMAIN nodes, w \in Nat : e = ToElement(nodes, m, w)
      BY <3>4 DEF ElementsOf
    <3>6. n = m
      BY <3>5 DEF ToElement
    <3>7. ContainsPoint(nodes[n], e.center)
      <4>1. ContainsPoint(nodes[m], ToElement(nodes, m, w).center)
        BY <1>2, <3>3, <3>6, CentresAreIn
      <4> QED
        BY <3>5, <3>6, <4>1, Zenon
    <3> HIDE DEF n
    <3>8. ASSUME n \in Under(nodes, e.center), nodes[n].clickable \/ Children(nodes, n) = {},
                 TopmostWindow(nodes, e.center) = TopOf(nodes, n)
          PROVE  ResolveTap(nodes, e.center).node >= n
      BY <1>2, <3>3, <3>8, CentresAreHit
    <3> QED
      BY <3>7, <3>8 DEF n
  <2> HIDE DEF kept
  <2>4. HonestList(nodes, answer, filter, limit, wm)
    <3>1. /\ answer.list.elements = listed
          /\ Last(answer.events).count = Len(listed)
          /\ Last(answer.events).unfiltered = list.unfiltered
          /\ Last(answer.events).truncated = list.truncated
      BY <1>4, <2>1
    <3> HIDE DEF listed
    <3> QED
      BY <2>2, <2>3, <3>1, Zenon DEF HonestList, kept
  <2> QED
    BY <2>1, <2>4 DEF nodes, filter, limit, wm
<1> QED
  BY <1>3, <1>7, <1>8, <1>b, <1>c

LEMMA CapturesAreHonest ==
  ASSUME ScreenInv, reading = "screen", answer # None,
         ask.tool \notin {"tap_node", "list_elements"}
  PROVE  IF answer.refused THEN OnlyItsDump
         ELSE HonestBadges(Nodes, answer, ask,
                           IF ask.limit = Null THEN DefaultLimit ELSE ask.limit)
<1> DEFINE nodes == Nodes
           device == ask.device
           wm == device.wm
           dump == Dump(recorded, device)
           limit == IF ask.limit = Null THEN DefaultLimit ELSE ask.limit
           list == Narrowed(nodes, ask.filter, limit, wm)
           listed == list.elements
           kept == KeptOf(nodes, ask.filter, wm)
           drawn == answer.annotation
<1>1. PICK a \in CaptureAsks \union OtherCaptureAsks :
         ask = [a EXCEPT !.device = device] /\ answer = Capture(recorded, device, a)
  BY DEF ScreenInv
<1>2. IsTree(nodes) /\ nodes \in Seq(NodesOf(Views)) /\ Sized(wm)
  BY ScreensAre
<1>3. /\ ask.kinds = a.kinds /\ ask.annotate = a.annotate /\ ask.filter = a.filter
      /\ ask.limit = a.limit /\ ask.ids = a.ids
      /\ ask.filter \in Filters /\ limit \in Nat
  <2> DEFINE b == [a EXCEPT !.device = device]
  <2>1. /\ b.kinds = a.kinds /\ b.annotate = a.annotate /\ b.filter = a.filter
        /\ b.limit = a.limit /\ b.ids = a.ids
        /\ a.filter \in Filters /\ (a.limit # Null => a.limit \in Nat)
    BY CapturesAsk
  <2> HIDE DEF b, device
  <2>2. ask = b
    BY <1>1 DEF b
  <2> QED
    BY <2>1, <2>2, ScreenAssumption
<1>4. answer = Captured(device, a, dump.ok, list)
  <2>1. Capture(recorded, device, a) =
          Captured(device, a, dump.ok,
                   Narrowed(dump.nodes, a.filter,
                            IF a.limit = Null THEN DefaultLimit ELSE a.limit, device.wm))
    BY Zenon DEF Capture
  <2>2. dump.nodes = nodes
    BY DEF Nodes
  <2> HIDE DEF dump, nodes
  <2> QED
    BY <1>1, <1>3, <2>1, <2>2, Zenon
<1> HIDE DEF nodes, wm, device, dump, limit, list, kept
<1>5. IF answer.refused THEN answer.events = <<>>
      ELSE /\ "screenshot" \in a.kinds => "screenshot" \in answer.saved
           /\ "annotated" \in answer.saved => "dump" \in answer.saved
           /\ a.annotate =>
                /\ (drawn.error = Null) <=> ("annotated" \in answer.saved)
                /\ Last(answer.events).badges.count = Len(drawn.elements)
                /\ drawn.error # Null => drawn.elements = <<>>
                /\ drawn.error = Null =>
                     /\ drawn.elements = AnnotationIdsSubset(listed, a.ids)
                     /\ a.ids # Null => Range(a.ids) \subseteq DOMAIN listed
  <2> DEFINE got == Captured(device, a, dump.ok, list)
  <2>1. IF got.refused THEN got.events = <<>>
        ELSE /\ "screenshot" \in a.kinds => "screenshot" \in got.saved
             /\ "annotated" \in got.saved => "dump" \in got.saved
             /\ a.annotate =>
                  /\ (got.annotation.error = Null) <=> ("annotated" \in got.saved)
                  /\ Last(got.events).badges.count = Len(got.annotation.elements)
                  /\ got.annotation.error # Null => got.annotation.elements = <<>>
                  /\ got.annotation.error = Null =>
                       /\ got.annotation.elements = AnnotationIdsSubset(list.elements, a.ids)
                       /\ a.ids # Null => Range(a.ids) \subseteq DOMAIN list.elements
    <3>1. device.rows \in {0, 2, 3}
      BY RowsAre DEF ScreenInv, device
    <3> QED
      BY <3>1, CapturedIs
  <2>2. answer = got
    BY <1>4
  <2> HIDE DEF got
  <2> QED
    BY <2>1, <2>2, Zenon
<1>6. /\ Cardinality(kept) \in Nat
      /\ Len(listed) \in Nat /\ DOMAIN listed = 1 .. Len(listed)
      /\ Len(listed) = Min({limit, Cardinality(kept)})
      /\ \A i \in DOMAIN listed : /\ listed[i].node \in kept
                                  /\ PlaceIn(nodes, kept, listed[i].node) = i
  <2> DEFINE filter == ask.filter
             l == Narrowed(nodes, filter, limit, wm)
             k == KeptOf(nodes, filter, wm)
  <2>1. filter \in Filters /\ limit \in Nat
    BY <1>3
  <2> HIDE DEF filter
  <2>2. /\ Cardinality(k) \in Nat
        /\ Len(l.elements) \in Nat /\ DOMAIN l.elements = 1 .. Len(l.elements)
        /\ l.elements \in Seq(ElementsOf(nodes))
        /\ Len(l.elements) = Min({limit, Cardinality(k)})
        /\ \A i \in DOMAIN l.elements : /\ l.elements[i].node \in k
                                        /\ PlaceIn(nodes, k, l.elements[i].node) = i
        /\ l.unfiltered = Cardinality(UsefulOf(nodes))
        /\ l.truncated <=> Cardinality(k) > Len(l.elements)
    BY <1>2, <2>1, NarrowedIs, Zenon
  <2>3. l = list /\ k = kept
    BY Zenon DEF list, kept, filter
  <2> HIDE DEF l, k
  <2> QED
    BY <2>2, <2>3, Zenon
<1>7. ASSUME drawn.elements = AnnotationIdsSubset(listed, a.ids),
             a.ids # Null => Range(a.ids) \subseteq DOMAIN listed
      PROVE  /\ {b.annotationId : b \in Range(drawn.elements)} =
                   IF a.ids = Null THEN 1 .. Min({limit, Cardinality(kept)}) ELSE Range(a.ids)
             /\ \A i, j \in DOMAIN drawn.elements : i < j =>
                   drawn.elements[i].annotationId < drawn.elements[j].annotationId
             /\ \A b \in Range(drawn.elements) :
                   /\ b.element.node \in kept
                   /\ PlaceIn(nodes, kept, b.element.node) = b.annotationId
  <2> DEFINE n == Len(listed)
             badges == AnnotationIdsSubset(listed, a.ids)
  <2> HIDE DEF listed
  <2>1. n \in Nat /\ DOMAIN listed = 1 .. n /\ (a.ids # Null => Range(a.ids) \subseteq 1 .. n)
    BY <1>6, <1>7
  <2>2. n = Min({limit, Cardinality(kept)})
    BY <1>6
  <2> HIDE DEF n
  <2>3. /\ {b.annotationId : b \in Range(badges)} = IF a.ids = Null THEN 1 .. n ELSE Range(a.ids)
        /\ \A i, j \in DOMAIN badges : i < j =>
              badges[i].annotationId < badges[j].annotationId
        /\ \A b \in Range(badges) :
              b.annotationId \in 1 .. n /\ b.element = listed[b.annotationId]
    BY <2>1, BadgesAre
  <2> HIDE DEF badges, drawn
  <2>4. drawn.elements = badges
    BY <1>7 DEF badges
  <2>5. \A b \in Range(badges) :
              /\ b.element.node \in kept
              /\ PlaceIn(nodes, kept, b.element.node) = b.annotationId
    <3> SUFFICES ASSUME NEW b \in Range(badges)
                 PROVE  /\ b.element.node \in kept
                        /\ PlaceIn(nodes, kept, b.element.node) = b.annotationId
      OBVIOUS
    <3> DEFINE k == b.annotationId
    <3>1. k \in DOMAIN listed /\ b.element = listed[k]
      BY <2>1, <2>3
    <3>2. listed[k].node \in kept /\ PlaceIn(nodes, kept, listed[k].node) = k
      BY <1>6, <3>1
    <3> QED
      BY <3>1, <3>2, Zenon
  <2> QED
    BY <2>2, <2>3, <2>4, <2>5, Zenon
<1> HIDE DEF listed
<1>8. CASE answer.refused
  BY <1>5, <1>8 DEF OnlyItsDump, Range
<1>9. CASE ~answer.refused
  <2>1. HonestBadges(nodes, answer, ask, limit)
    <3>1. kept = KeptOf(nodes, ask.filter, ask.device.wm)
      BY Zenon DEF kept, wm, device
    <3>2. a.annotate => IF drawn.error # Null THEN drawn.elements = <<>>
          ELSE /\ {b.annotationId : b \in Range(drawn.elements)} =
                   IF a.ids = Null THEN 1 .. Min({limit, Cardinality(kept)}) ELSE Range(a.ids)
               /\ \A i, j \in DOMAIN drawn.elements : i < j =>
                   drawn.elements[i].annotationId < drawn.elements[j].annotationId
               /\ \A b \in Range(drawn.elements) :
                   /\ b.element.node \in kept
                   /\ PlaceIn(nodes, kept, b.element.node) = b.annotationId
      BY <1>5, <1>7, <1>9, Zenon
    <3> QED
      BY <1>3, <1>5, <1>9, <3>1, <3>2, Zenon DEF HonestBadges
  <2> QED
    BY <1>9, <2>1 DEF nodes, limit
<1> QED
  BY <1>8, <1>9

LEMMA ScreenInvHonest ==
  ASSUME ScreenInv
  PROVE  ElementsAreHonest
<1>1. CASE ~(reading = "screen" /\ answer # None /\ ask.tool # "tap_node")
  BY <1>1 DEF ElementsAreHonest, Answered
<1>2. CASE reading = "screen" /\ answer # None /\ ask.tool = "list_elements"
  <2>1. ask.limit # Null
    BY <1>2, ScreenAssumption DEF ScreenInv
  <2>2. IF answer.refused THEN OnlyItsDump
        ELSE HonestList(Nodes, answer, ask.filter, ask.limit, ask.device.wm)
    BY <1>2, ListsAreHonest
  <2> QED
    BY <1>2, <2>1, <2>2, Zenon DEF ElementsAreHonest, HonestList, UsefulOf, KeptOf, PlaceIn,
                                   Before, TopOf, Line
<1>3. CASE reading = "screen" /\ answer # None /\ ask.tool \notin {"tap_node", "list_elements"}
  <2>1. IF answer.refused THEN OnlyItsDump
        ELSE HonestBadges(Nodes, answer, ask,
                          IF ask.limit = Null THEN DefaultLimit ELSE ask.limit)
    BY <1>3, CapturesAreHonest
  <2>2. ask.tool # "list_elements"
    BY <1>3
  <2> QED
    BY <2>1, <2>2, Zenon DEF ElementsAreHonest, HonestBadges, UsefulOf, KeptOf, PlaceIn,
                             Before, TopOf, Line
<1> QED
  BY <1>1, <1>2, <1>3

LEMMA InitsHold ==
  ASSUME Init
  PROVE  BundleInv /\ CrashInv /\ SheetInv /\ WireInv /\ ScreenInv
<1>1. recorded = <<>> /\ answer = None
  BY DEF Init
<1>2. <<>> \in Seq(RunFiles) /\ <<>> \in Seq(RawLine) /\ <<>> \in Seq(Logged) /\ Len(<<>>) = 0
  OBVIOUS
<1>3. IsRecording(<<>>)
  BY DEF IsRecording
<1>4. AreViews(Views, <<>>)
  BY DEF AreViews
<1> QED
  BY <1>1, <1>2, <1>3, <1>4 DEF BundleInv, CrashInv, SheetInv, WireInv, ScreenInv

(* A bundle of a run is redacted, whatever the run holds and whatever was  *)
(* asked for.                                                              *)
THEOREM BundlesRedacted == Spec => []BundleIsRedacted
<1>1. Init => BundleInv
  BY InitsHold
<1>2. BundleInv /\ [Next]_vars => BundleInv'
  BY BundleStep
<1>3. BundleInv => BundleIsRedacted
  BY BundleInvImplies
<1> QED
  BY <1>1, <1>2, <1>3, PTL DEF Spec

(* The window around a crash is what was asked for, holds on to its        *)
(* marker's line and loses no line it had room for; and every line of it is*)
(* shown but those behind one that redaction has lengthened, whatever the  *)
(* log and wherever in it, or past it, the marker.                         *)
THEOREM WindowsHoldMarkers == Spec => []WindowHoldsMarker
<1>1. Init => CrashInv
  BY InitsHold
<1>2. CrashInv /\ [Next]_vars => CrashInv'
  BY CrashStep
<1>3. CrashInv => WindowHoldsMarker
  BY CrashInvImplies
<1> QED
  BY <1>1, <1>2, <1>3, PTL DEF Spec

(* A contact sheet spans its recording, of any length and with any change  *)
(* in it, or the caller is told and nothing is left.                       *)
THEOREM SheetsSpan == Spec => []SheetSpansRecording
<1>1. Init => SheetInv
  BY InitsHold
<1>2. SheetInv /\ [Next]_vars => SheetInv'
  BY SheetStep
<1>3. SheetInv => SheetSpansRecording
  BY SheetInvImplies
<1> QED
  BY <1>1, <1>2, <1>3, PTL DEF Spec

(* A snapshot shows no secret and no identity of its log, whichever        *)
(* requests were recorded.                                                 *)
THEOREM SnapshotsRedacted == Spec => []SnapshotIsRedacted
<1>1. Init => WireInv
  BY InitsHold
<1>2. WireInv /\ [Next]_vars => WireInv'
  BY WireStep
<1>3. WireInv => SnapshotIsRedacted
  BY WireInvRedacts
<1> QED
  BY <1>1, <1>2, <1>3, PTL DEF Spec

(* Two redacted snapshots compare exactly as the requests that they stand  *)
(* for would, under whatever aliases, and what is cut is said to be.       *)
THEOREM DiffsAreExact == Spec => []DiffIsExact
<1>1. Init => WireInv
  BY InitsHold
<1>2. WireInv /\ [Next]_vars => WireInv'
  BY WireStep
<1>3. WireInv => DiffIsExact
  BY WireInvExact
<1> QED
  BY <1>1, <1>2, <1>3, PTL DEF Spec

(* A tap names the view on which it lands: the dump of a screen is read as *)
(* the tree it is, and of that tree the view that is found is in front.    *)
THEOREM TapsFindTheView == Spec => []TapFindsTheView
<1>1. Init => ScreenInv
  BY InitsHold
<1>2. ScreenInv /\ [Next]_vars => ScreenInv'
  BY ScreenStep
<1>3. ScreenInv => TapFindsTheView
  BY ScreenInvImplies
<1> QED
  BY <1>1, <1>2, <1>3, PTL DEF Spec

(* Elements are listed and numbered honestly: every useful view that was   *)
(* asked for, at its place, on any screen and with any limit; badges are   *)
(* the same elements under the same numbers, and what an event counts is   *)
(* what was shown.                                                         *)
THEOREM ElementsAreListed == Spec => []ElementsAreHonest
<1>1. Init => ScreenInv
  BY InitsHold
<1>2. ScreenInv /\ [Next]_vars => ScreenInv'
  BY ScreenStep
<1>3. ScreenInv => ElementsAreHonest
  BY ScreenInvHonest
<1> QED
  BY <1>1, <1>2, <1>3, PTL DEF Spec
================================================================================
