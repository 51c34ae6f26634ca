---------------------------------- MODULE Wire ---------------------------------
(***************************************************************************)
(* Request parity of two builds: a redacted snapshot of each one's HTTP    *)
(* log (wire/project.ts, wire/snapshot.ts) and the comparison of two       *)
(* snapshots, endpoint by endpoint (wire/compare.ts), with the handlers    *)
(* of wire_snapshot and wire_diff.                                         *)
(*                                                                         *)
(* A request has its ordered query parameters, its form body, and what the *)
(* app decrypted of it; each a sequence of <<key, value>>.  Values are     *)
(* empty, words, or identities, which are the long ones.  Of its headers   *)
(* only the names are kept, and whether one describes the device compared. *)
(***************************************************************************)
EXTENDS Listing, FiniteSetsExt

CONSTANTS
    MinEchoLength,      \* MIN_ECHO_LENGTH, in the lengths of LengthOf
    GroupBudget,        \* size of a response, in projections
    NoDecoded, NoRole,  \* a request with no decoded payload, or no role
    NoBound             \* a window with no such bound

(* The tables of keys, each by a representative.                           *)
GlobalKeys     == {"_uid", "_sign", "_mtime"}
DecodedNoise   == {"_mtime"}
SecretKeys     == {"code", "imei", "_sign"}
UidKeys        == {"userid", "_uid"}
Volatile       == {"_mtime", "_sign", "_uid"}
Sensitive      == {"code", "userid"}
Discriminators == {"type"}
DeviceHeaders  == {"x-request-time", "x-device-info"}

LengthOf(value) == IF value = "" THEN 0 ELSE IF value \in {"idA", "idB"} THEN 2 ELSE 1

RoleName(role) == IF role \in {"Current", "Candidate"} THEN "Current"
                  ELSE IF role = NoRole THEN NoRole ELSE "Anonymous"

Keys(pairs) == {p[1] : p \in Range(pairs)}

Without(pairs, keys) == Only(pairs, {p \in Range(pairs) : p[1] \notin keys})

-----------------------------------------------------------------------------
(* Redaction.  What a snapshot shows of a value: the value itself, the     *)
(* n-th alias, or that it was redacted.                                    *)

Plain(value) == <<"plain", value>>
Alias(n)     == <<"alias", n>>
Redacted     == <<"redacted", 0>>

(* Aliaser.alias, over the pairs of a request: each new identity under an  *)
(* identity's key is the next alias.                                       *)
LearnOne(seen, p) ==
    IF p[1] \in UidKeys /\ p[2] # "" /\ p[2] \notin Range(seen)
    THEN Append(seen, p[2]) ELSE seen

Learn(seen, pairs) == FoldLeft(LAMBDA s, p : LearnOne(s, p), seen, pairs)

AliasOf(seen, value) == Alias(CHOOSE n \in DOMAIN seen : seen[n] = value)

(* scrub: by the key, and an identity under another key if it is long.     *)
Scrub(seen, key, value) ==
    IF value = "" THEN Plain("")
    ELSE IF key \in UidKeys THEN AliasOf(seen, value)
    ELSE IF key \in SecretKeys THEN Redacted
    ELSE IF LengthOf(value) >= MinEchoLength /\ value \in Range(seen)
    THEN AliasOf(seen, value)
    ELSE Plain(value)

Scrubbed(seen, pairs) ==
    [i \in DOMAIN pairs |-> <<pairs[i][1], Scrub(seen, pairs[i][1], pairs[i][2])>>]

-----------------------------------------------------------------------------
(* projectRecord.                                                          *)

Envelope(r)  == IF r.method = "POST" THEN r.form ELSE r.params
Encrypted(r) == "_sign" \in Keys(Envelope(r))

(* The business fields: decoded if the request was encrypted, else of the  *)
(* form or the query without the app's own; of a POST also the parameters  *)
(* that the form does not hold.                                            *)
FieldsOf(r) ==
    LET payload == IF ~Encrypted(r) THEN Without(Envelope(r), GlobalKeys)
                   ELSE IF r.decoded = NoDecoded THEN <<>>
                   ELSE Without(r.decoded, DecodedNoise)
    IN  IF r.method = "POST"
        THEN payload \o Without(r.params, GlobalKeys \union Keys(r.form))
        ELSE payload

ProjectRecord(seen, r) ==
    [method    |-> r.method,
     path      |-> r.path,
     encrypted |-> Encrypted(r),
     query     |-> Scrubbed(seen, r.params),
     headers   |-> r.headers,
     fields    |-> Scrubbed(seen, FieldsOf(r)),
     role      |-> r.role]

-----------------------------------------------------------------------------
(* buildSnapshot and its handler.                                          *)

(* A request's identities: of its fields, then of its parameters.          *)
LearnRequest(seen, r) == Learn(Learn(seen, FieldsOf(r)), r.params)

(* Mutant: only what the snapshot keeps is looked at for identities.       *)
LearnedKept(log, kept) ==
    FoldLeft(LAMBDA s, r : LearnRequest(s, r), <<>>, kept)

(* Pass 1: the identities of the whole log, whatever of it is kept.        *)
Learned(log, kept) ==
    FoldLeft(LAMBDA s, r : LearnRequest(s, r), <<>>, log)

(* A window begins at a time, or at the latest mark of a name.             *)
From(ask) == IF ask.from # NoBound THEN ask.from
             ELSE IF ask.marks # <<>> THEN Last(ask.marks) ELSE 0

Kept(log, ask) ==
    Only(log, {r \in Range(log) : /\ r.at >= From(ask) /\ r.at <= ask.to
                                  /\ ask.only # {} => r.path \in ask.only})

(* An active session is pulled first, unless the device is degraded or the *)
(* client declines; the log of a run that is over has been pulled already. *)
Available(log, ask) ==
    IF ask.session = "over" \/ ask.files \/ (ask.session = "active" /\ ask.pull)
    THEN log ELSE <<>>

SnapshotRefused(ask) ==
    \/ ~ask.label
    \/ ~ask.run /\ ~(ask.files /\ ask.outDir)
    \/ ~ask.absolute /\ (ask.files \/ ask.outDir)
    \/ ask.mark /\ ask.from = NoBound /\ (~ask.run \/ ask.marks = <<>>)
    \/ ask.to < From(ask)

BuildSnapshot(log, ask) ==
    LET kept == Kept(log, ask)
        seen == Learned(log, kept)
    IN  [records   |-> [i \in DOMAIN kept |-> ProjectRecord(seen, kept[i])],
         undecoded |-> Cardinality({i \in DOMAIN kept : Encrypted(kept[i])
                                                /\ kept[i].decoded = NoDecoded}),
         aliases   |-> Len(seen)]

-----------------------------------------------------------------------------
(* compareProjections.                                                     *)

(* Mutant: the number of an alias is compared.                             *)
NormValueNumbered(key, shown) ==
    IF key \in Volatile THEN <<"*", 0>>
    ELSE IF shown = Plain("") \/ key \notin Sensitive THEN shown
    ELSE Redacted

(* normValue: of a volatile value only that it is there, of a sensitive or *)
(* redacted one whether it is empty.                                       *)
NormValue(key, shown) ==
    IF key \in Volatile THEN <<"*", 0>>
    ELSE IF shown = Plain("") THEN shown
    ELSE IF key \in Sensitive \/ shown[1] # "plain" THEN Redacted
    ELSE shown

NormPairs(pairs) ==
    [i \in DOMAIN pairs |-> <<pairs[i][1], NormValue(pairs[i][1], pairs[i][2])>>]

(* Sorting pairs forgets their order and nothing else.                     *)
SortedPairs(pairs) ==
    [p \in Range(pairs) |-> Cardinality({i \in DOMAIN pairs : pairs[i] = p})]

(* fromCapture: only the order of a GET query is compared.                 *)
FromCapture(record) ==
    [method    |-> record.method,
     path      |-> record.path,
     encrypted |-> record.encrypted,
     query     |-> IF record.method = "POST" THEN <<>> ELSE NormPairs(record.query),
     queried   |-> SortedPairs(NormPairs(record.query)),
     device    |-> record.headers \intersect DeviceHeaders # {},
     fields    |-> SortedPairs(NormPairs(record.fields)),
     role      |-> RoleName(record.role)]

(* groupKey; a request has each discriminator once.                        *)
GroupKey(p) ==
    <<p.method, p.path, {pair \in DOMAIN p.fields : pair[1] \in Discriminators}>>

(* Roles count if all records on both sides have one.                      *)
RoleCompared(records) == \A i \in DOMAIN records : records[i].role # NoRole

Projections(records, roles) ==
    [i \in DOMAIN records |->
       LET p == FromCapture(records[i])
       IN  IF roles THEN p ELSE [p EXCEPT !.role = NoRole]]

Times(projections, p) == Cardinality({i \in DOMAIN projections : projections[i] = p})

(* diffGroups, for one group of both sides' projections.                   *)
GroupReport(group, old, new) ==
    LET of(projections) == {p \in Range(projections) : GroupKey(p) = group}
        repeated == {p \in of(new) : Times(new, p) > Max({1, Times(old, p)})}
        status == IF of(new) = {} THEN "MISSING"
                  ELSE IF of(old) = {} THEN "EXTRA"
                  ELSE IF of(old) # of(new) THEN "CHANGED"
                  ELSE IF repeated # {} THEN "DUPLICATE" ELSE "MATCH"
    IN  [group  |-> group,
         status |-> status,
         onlyBaseline |-> IF status = "CHANGED" THEN of(old) \ of(new) ELSE {},
         onlyCapture  |-> IF status = "CHANGED" THEN of(new) \ of(old) ELSE {},
         repeated     |-> IF status = "DUPLICATE"
                          THEN {<<p, Times(new, p), Times(old, p)>> : p \in repeated}
                          ELSE {},
         projections  |-> CASE status \in {"MISSING", "DUPLICATE"} -> of(old)
                            [] status = "EXTRA" -> of(new)
                            [] OTHER -> {}]

CompareProjections(baseline, capture) ==
    LET roles == RoleCompared(baseline \o capture)
        old == Projections(baseline, roles)
        new == Projections(capture, roles)
    IN  [reports |-> {GroupReport(g, old, new) :
                        g \in {GroupKey(p) : p \in Range(old \o new)}},
         roles   |-> roles]

-----------------------------------------------------------------------------
(* wire_diff's handler.                                                    *)

DiffRefused(ask) ==
    \/ ask.report /\ ~(ask.label /\ ask.run)
    \/ ~ask.absolute /\ ~ask.run
    \/ ~ask.readable

ReportSize(report) ==
    Cardinality(report.onlyBaseline) + Cardinality(report.onlyCapture)
        + Cardinality(report.repeated) + Cardinality(report.projections)

(* fitGroups: the groups that differ, in their order, as many as were      *)
(* asked for and fit; the first whatever its size.                         *)
FitGroups(reports, maxGroups) ==
    LET differ == SetToSeq({r \in reports : r.status # "MATCH"})
        size(n) == Total([i \in 1 .. n |-> ReportSize(differ[i])])
        n == Max({k \in 0 .. Len(differ) :
                    k <= maxGroups /\ (k <= 1 \/ size(k) <= GroupBudget)})
    IN  [shown |-> SubSeq(differ, 1, n), truncated |-> n < Len(differ)]

(* Of the paths asked for, or all.                                         *)
ParseProjections(records, only) ==
    Only(records, {r \in Range(records) : only # {} => r.path \in only})

(* The whole report is written too if the client asks for it.              *)
WireDiff(baseline, capture, ask) ==
    LET comparison == CompareProjections(ParseProjections(baseline, ask.compared),
                                         ParseProjections(capture, ask.compared))
        fitted     == FitGroups(comparison.reports, ask.maxGroups)
    IN  [reports   |-> comparison.reports,
         roles     |-> comparison.roles,
         shown     |-> fitted.shown,
         truncated |-> fitted.truncated,
         written   |-> IF ask.report THEN comparison.reports ELSE {}]
=============================================================================
