--------------------------------- MODULE Bundle --------------------------------
(***************************************************************************)
(* collect_bundle: the archive of a run folder, which is copied, redacted  *)
(* and packed (bundle/bundle.ts, mcp/tools/collect_bundle.ts).             *)
(*                                                                         *)
(* A file is known by the place it is in, the run folder itself or the     *)
(* evidence folder of a source, its name and its lines; the folder of a    *)
(* source may be there as an entry of its own, with no lines.  A line has  *)
(* something to redact ("secret") or not ("plain"), or had ("hidden"); it  *)
(* may not parse ("torn"), as when the copy has half of it, or no longer   *)
(* fit its stream once it is redacted ("full").                            *)
(***************************************************************************)
EXTENDS Listing

DeclaredSources == {"http"}     \* those the profile can redact

LogcatFiles == {"logcat.raw.txt", "logcat.jsonl", "crash.jsonl"}

(* listEvidenceSourceIds: the folders below evidence/, empty or not.       *)
SourceDirs(files) == {f.place : f \in files} \ {"run"}

(* resolveProfileForRedaction of the handler, and the check that           *)
(* redactEvidenceDir repeats on the copy: evidence needs a profile that is *)
(* built in and declares its source.                                       *)
RedactionUnavailable(dirs, profile) ==
    /\ dirs # {}
    /\ profile # "builtin" \/ ~(dirs \subseteq DeclaredSources)

(* The files that are written anew, line by line.                          *)
Rewritten(file, logs) ==
    IF file.place = "run"
    THEN logs = "redacted" /\ file.name \in {"logcat.jsonl", "crash.jsonl"}
    ELSE file.name = "log.jsonl"

(* AppendStream.append refuses a line above its cap.                       *)
TooLong(file, logs) == Rewritten(file, logs) /\ "full" \in Range(file.lines)

(* redactString, and the redactForBundle of a source: credentials are      *)
(* replaced, the rest of the line stays.                                   *)
RedactString(line) == IF line = "secret" THEN "hidden" ELSE line

(* redactEvidenceDir, redactLogcatJsonl, redactCrashJsonl: a line that     *)
(* does not parse is left out.                                             *)
Rewrite(file) ==
    LET parsed == Only(file.lines, Range(file.lines) \ {"torn"})
    IN  [file EXCEPT
            !.name  = IF @ = "logcat.jsonl" THEN "logcat.redacted.jsonl" ELSE @,
            !.lines = [i \in DOMAIN parsed |-> RedactString(parsed[i])]]

(* Mutant: crash.jsonl is left as it was.                                  *)
PackedButCrash(file, logs) ==
    IF Rewritten(file, logs) /\ file.name # "crash.jsonl" THEN Rewrite(file) ELSE file

Packed(file, logs) == IF Rewritten(file, logs) THEN Rewrite(file) ELSE file

(* removeMacMetadataFiles, the mtime cache, and applyLogsPolicy.           *)
LeftOut(file, logs) ==
    \/ file.name = ".DS_Store"
    \/ file.place # "run" /\ file.name = ".mtime-cache.json"
    \/ file.place = "run" /\ CASE logs = "none"     -> file.name \in LogcatFiles
                               [] logs = "redacted" -> file.name = "logcat.raw.txt"
                               [] logs = "raw"      -> FALSE

NoBundle == [refused |-> TRUE, bundle |-> {}]

(* The handler and createBundle.  The run may still be recorded: listed is *)
(* what the check of its profile has found, files what is copied.  Copying *)
(* or tar may fail (a.works).                                              *)
CollectBundle(listed, files, a) ==
    IF \/ a.logs = "raw" /\ ~a.acknowledged
       \/ RedactionUnavailable(SourceDirs(listed), a.profile)
       \/ RedactionUnavailable(SourceDirs(files), a.profile)
       \/ \E f \in files : TooLong(f, a.logs)
       \/ ~a.works
    THEN NoBundle
    ELSE [refused |-> FALSE,
          bundle  |-> {Packed(f, a.logs) : f \in {g \in files : ~LeftOut(g, a.logs)}}]
=============================================================================
