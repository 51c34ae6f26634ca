---------------------------- MODULE LogDerivation ----------------------------
(***************************************************************************)
(* What logcat.jsonl and crash.jsonl hold of a raw log: the parser of      *)
(* logcat/parser.ts, the scan of logcat/crash_marker.ts and the rebuilding *)
(* of both files by replayParse (logcat/recovery.ts), next to a            *)
(* declarative account of the records a log has.                           *)
(*                                                                         *)
(* A line is known by its kind:                                            *)
(*   header     the session_start line the channel writes first            *)
(*   entry      an entry of the app's uid or of a critical tag             *)
(*   byPid      an entry kept only once its pid is known to be the app's   *)
(*   startProc  an ActivityManager entry that makes that pid known         *)
(*   crash      an AndroidRuntime entry with a crash signature             *)
(*   wide       an entry longer in bytes than in UTF-16 units              *)
(*   long       an entry that fills the line buffer before its newline     *)
(*   cont       a continuation, or a line no pattern matches               *)
(*   cause      a continuation with a crash signature ("Caused by:")       *)
(*   blank      an empty line                                              *)
(***************************************************************************)
EXTENDS Integers, Sequences, FiniteSets, SequencesExt

Entries    == {"entry", "byPid", "startProc", "crash", "wide", "long"}
Joins      == {"cont", "cause"}
Signatures == {"crash", "cause"}
Kind       == Entries \union Joins \union {"header", "blank"}

(* parseThreadtimeLine; a line the header pattern does not match joins the *)
(* entry before it, if there is one.                                       *)
Parse(kind) ==
    CASE kind \in Entries              -> "entry"
      [] kind \in Joins \union {"header"} -> "continuation"
      [] OTHER                         -> "blank"

(* detectCrashSignature, on the raw line.                                  *)
HasSignature(kind) == kind \in Signatures

-----------------------------------------------------------------------------
(* The records of a log, declaratively: entry i with the continuations     *)
(* that follow it before the next entry.                                   *)

Body(s, i) ==
    {i} \union {j \in i + 1 .. Len(s) :
                   /\ Parse(s[j]) = "continuation"
                   /\ \A e \in i + 1 .. j : Parse(s[e]) # "entry"}

RecordsOf(s) ==
    {[no |-> i, lines |-> Body(s, i)] :
        i \in {e \in 1 .. Len(s) : Parse(s[e]) = "entry"}}

MarksOf(s) == {i \in 1 .. Len(s) : HasSignature(s[i])}

-----------------------------------------------------------------------------
(* replayParse.                                                            *)

NoEntry == [no |-> 0, lines |-> {}]

(* UTF-16 units and bytes of a line without its newline.                   *)
Units == [kind \in Kind |-> IF kind = "blank" THEN 0 ELSE 1]
Bytes == [kind \in Kind |-> IF kind = "wide" THEN 3 ELSE Units[kind]]

SumOver(s, width) == FoldLeft(LAMBDA n, k : n + width[k] + 1, 0, s)

(* The text of a file of lines s, whose last one is cut before its newline *)
(* or not, in units.                                                       *)
TextLength(s, cut) == SumOver(s, Units) - (IF cut THEN 1 ELSE 0)

(* An empty segment reached when the bytes counted so far make up the      *)
(* length of the text, which is counted in units, ends the loop.           *)
StopsAt(s, cut, i) ==
    s[i] = "blank" /\ SumOver(SubSeq(s, 1, i - 1), Bytes) >= TextLength(s, cut)

(* The lines the loop reads.                                               *)
ReplayedLines(s, cut) ==
    LET stops == {i \in 1 .. Len(s) : StopsAt(s, cut, i)}
    IN  IF stops = {} THEN s
        ELSE SubSeq(s, 1, (CHOOSE i \in stops : \A j \in stops : i <= j) - 1)

(* One line: a crash marker, the entry before it flushed, a new entry.     *)
ReplayLine(p, kind) ==
    LET no     == p.no + 1
        marks  == IF HasSignature(kind) THEN Append(p.marks, no) ELSE p.marks
        parsed == Parse(kind)
    IN  [no      |-> no,
         marks   |-> marks,
         out     |-> IF parsed = "entry" /\ p.pending # NoEntry
                     THEN Append(p.out, p.pending) ELSE p.out,
         pending |-> CASE parsed = "entry" -> [no |-> no, lines |-> {no}]
                       [] parsed = "continuation" /\ p.pending # NoEntry ->
                              [p.pending EXCEPT !.lines = @ \union {no}]
                       [] OTHER -> p.pending]

Parsed(s, cut) ==
    FoldLeft(ReplayLine,
             [no |-> 0, marks |-> <<>>, out |-> <<>>, pending |-> NoEntry],
             ReplayedLines(s, cut))

(* The records and markers a replay of the raw file s appends, in order.   *)
Replay(s, cut) ==
    LET end == Parsed(s, cut)
    IN  IF end.pending = NoEntry THEN end
        ELSE [end EXCEPT !.out = Append(@, end.pending)]
=============================================================================
