------------------------------ MODULE ContactSheet -----------------------------
(***************************************************************************)
(* The contact sheet of a screen recording: which of its frames are shown  *)
(* (media/video_contact_sheet.ts).  ffmpeg scores how much each frame      *)
(* differs from the one before it; the first and the last frame are shown, *)
(* the strongest change of every stretch of the recording, and then the    *)
(* strongest of the rest that keep a distance from those shown.            *)
(*                                                                         *)
(* A recording is the sequence of its frames after the first, frame 0,     *)
(* each with a time and a score; ffmpeg is external and fails as it likes. *)
(***************************************************************************)
EXTENDS Listing, FiniteSetsExt

CONSTANTS
    MaxFrames,      \* MAX_CONTACT_SHEET_FRAMES
    MinScore,       \* MIN_VISUAL_CHANGE_SCORE
    MinDistance,    \* MIN_CHANGE_DISTANCE_MS
    MaxColumns      \* MAX_COLUMNS

ASSUME SheetAssumption ==
    MaxFrames \in Nat /\ MaxFrames > 2 /\ MaxColumns \in Nat \ {0}

(* Where building it may fail: ffmpeg is missing or fails when it analyses,*)
(* extracts or tiles; it extracts fewer frames; its sheet is empty.        *)
SheetFailure == {"none", "analysis", "extract", "fewer", "tile", "empty"}

-----------------------------------------------------------------------------
CeilDiv(a, b) == (a + b - 1) \div b

(* compareByScoreThenTime.                                                 *)
Stronger(frames, f, g) ==
    \/ frames[f].score > frames[g].score
    \/ frames[f].score = frames[g].score /\ f < g

Boundaries(frames) == {0, Len(frames)}

Candidates(frames) == {f \in DOMAIN frames : frames[f].score >= MinScore}

CoverageSlots(frames) ==
    Max({1, CeilDiv(MaxFrames - Cardinality(Boundaries(frames)), 2)})

(* The candidates of one slot of the recording's time; the last slot has   *)
(* the end too.                                                            *)
InSlot(frames, slot) ==
    LET n    == CoverageSlots(frames)
        last == frames[Len(frames)].time
    IN  {f \in Candidates(frames) :
           /\ frames[f].time * n >= last * slot
           /\ \/ frames[f].time * n < last * (slot + 1)
              \/ slot = n - 1 /\ frames[f].time <= last}

Strongest(frames, set) ==
    IF set = {} THEN {}
    ELSE {CHOOSE f \in set : \A g \in set \ {f} : Stronger(frames, f, g)}

(* The strongest candidate of each slot, in the order of the slots.        *)
Covered(frames) ==
    Boundaries(frames) \union
        UNION {Strongest(frames, InSlot(frames, s)) : s \in 0 .. CoverageSlots(frames) - 1}

Near(frames, f, g) ==
    LET d == frames[f].time - frames[g].time
    IN  d < MinDistance /\ -d < MinDistance

(* Mutant: the distance is kept from the last frame too.                   *)
AddedChangeFar(frames, shown, f) ==
    IF \/ Cardinality(shown) >= MaxFrames
       \/ \E g \in shown \ {0} : Near(frames, f, g)
    THEN shown ELSE shown \union {f}

(* One more candidate: unless the sheet is full, or it is near a change    *)
(* that is shown.                                                          *)
AddedChange(frames, shown, f) ==
    IF \/ Cardinality(shown) >= MaxFrames
       \/ \E g \in shown \ Boundaries(frames) : Near(frames, f, g)
    THEN shown ELSE shown \union {f}

SelectVisualKeyFrames(frames) ==
    IF frames = <<>> THEN {0}
    ELSE LET all  == Candidates(frames)
             rest == Sorted(all, {p \in all \X all : Stronger(frames, p[1], p[2])})
         IN  FoldLeft(LAMBDA shown, f : AddedChange(frames, shown, f),
                      Covered(frames), rest)

-----------------------------------------------------------------------------
(* The sheet, or none and a warning.  Only the sheet itself stays behind.  *)
BuildVideoContactSheet(frames, failure) ==
    LET shown   == SelectVisualKeyFrames(frames)
        count   == Cardinality(shown)
        columns == Min({MaxColumns, count})
    IN  IF failure = "none"
        THEN [sheet   |-> Sorted(shown, {p \in shown \X shown : p[1] < p[2]}),
              columns |-> columns, rows |-> CeilDiv(count, columns),
              file    |-> TRUE, scratch |-> FALSE, warned |-> FALSE]
        ELSE [sheet   |-> <<>>, columns |-> 0, rows |-> 0,
              file    |-> FALSE, scratch |-> FALSE, warned |-> TRUE]
=============================================================================
