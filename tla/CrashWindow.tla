------------------------------- MODULE CrashWindow -----------------------------
(***************************************************************************)
(* extract_crash_context: the raw log around a recorded crash, shrunk      *)
(* around the marker line until it fits a response, redacted, and cut at   *)
(* its end if that made it too long (search/crash_context.ts).             *)
(*                                                                         *)
(* A raw line is what it says: "plain", "long", "secret" (redaction makes  *)
(* it longer), "exception" or "frame".  Lines are numbered from 1.  The    *)
(* crash may be recorded before its line is: the marker is then a line     *)
(* past the end.                                                           *)
(***************************************************************************)
EXTENDS Listing, FiniteSetsExt

CONSTANTS
    CharBudget,     \* the response budget
    NoLine          \* no such line

ASSUME CrashAssumption == CharBudget \in Nat /\ NoLine \notin Nat

RawLine == {"plain", "long", "secret", "exception", "frame"}

LineSize  == [line \in RawLine |-> IF line = "long" THEN 3 ELSE 1]
ShownSize == [line \in RawLine |-> IF line \in {"long", "secret"} THEN 3 ELSE 1]

(* Lines i to j, joined by newlines.                                       *)
Joined(raw, i, j, size) ==
    IF i > j THEN 0
    ELSE Total([k \in 1 .. j - i + 1 |-> size[raw[i + k - 1]]]) + (j - i)

(* extractWindow: the lines of the file from so many before the marker to  *)
(* so many after it, or none.                                              *)
ExtractWindow(raw, marker, before, after) ==
    LET from == Max({1, marker - before})
    IN  [from |-> from,
         to   |-> Max({from - 1, Min({Len(raw), marker + after})})]

(* The line that is taken for the marker's: the last one, if it is past it.*)
HeldLine(marker, window) == Min({marker, Max({window.from, window.to})})

(* Mutant: the marker is not held on to.                                   *)
ShrinkPast(marker, window, front) ==
    IF front THEN [window EXCEPT !.from = @ + 1] ELSE [window EXCEPT !.to = @ - 1]

(* One line less, of the front and the back in turn, while there is one to *)
(* drop before the marker, or after it.                                    *)
Shrink(marker, window, front) ==
    IF window.from < marker /\ (front \/ window.to <= marker)
    THEN [window EXCEPT !.from = @ + 1] ELSE [window EXCEPT !.to = @ - 1]

(* fitWindow: the first of the ever smaller windows that fits the budget,  *)
(* or the marker line alone.                                               *)
FitWindow(raw, marker, window) ==
    LET shrunk[n \in 0 .. Len(raw)] ==
            IF n = 0 THEN window
            ELSE Shrink(marker, shrunk[n - 1], n % 2 = 1)
        most  == Max({0, window.to - window.from})
        fits(n) == Joined(raw, shrunk[n].from, shrunk[n].to, LineSize) <= CharBudget
    IN  shrunk[Min({n \in 0 .. most : fits(n) \/ n = most})]

(* parseSignature, of a Java crash: the first line from the marker on that *)
(* names an exception and is no stack frame, and the first stack frame, in *)
(* the window as it was before it was shrunk.                              *)
ParseSignature(raw, marker, window) ==
    LET first(kind) ==
            LET at == {i \in marker .. window.to : raw[i] = kind}
            IN  IF at = {} THEN NoLine ELSE Min(at)
    IN  [exception |-> first("exception"), frame |-> first("frame")]

(* The redacted text is cut at the budget, and a note put behind it: the   *)
(* last line that is shown whole.                                          *)
ShownWhole(raw, fitted) ==
    Max({k \in fitted.from - 1 .. fitted.to :
           Joined(raw, fitted.from, k, ShownSize) <= CharBudget})

(* A row of crash.jsonl is the number of the marker's raw line; rows that  *)
(* do not parse are skipped.                                               *)
ReadCrashMarkers(rows) == Only(rows, Range(rows) \ {NoLine})

(* No crash is an answer; a crash that is not there is refused.  The range *)
(* that is named is the one that was fitted.                               *)
ExtractCrashContext(raw, rows, index, before, after) ==
    LET markers == ReadCrashMarkers(rows)
        marker  == markers[index]
        window  == ExtractWindow(raw, marker, before, after)
        held    == HeldLine(marker, window)
        fitted  == FitWindow(raw, held, window)
        whole   == ShownWhole(raw, fitted)
    IN  IF markers = <<>> THEN [status |-> "none"]
        ELSE IF index > Len(markers) THEN [status |-> "refused"]
        ELSE [status    |-> "ok",
              marker    |-> marker,
              window    |-> window,
              fitted    |-> fitted,
              whole     |-> whole,
              truncated |-> fitted # window \/ whole # fitted.to,
              signature |-> ParseSignature(raw, held, window)]
=============================================================================
