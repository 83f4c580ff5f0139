--------------------------- MODULE ReleaseSignoff ---------------------------
(* The release-candidate signoff: scripts/release/rc_signoff.py checks the evidence links, runs   *)
(* the gates and the data validation, reads three advisory artifacts and writes a markdown        *)
(* report; parse_rc_signoff.py later reads that report back, line by line, into the JSON summary  *)
(* that the release notes use. The two scripts are separate processes that share only the file.   *)
(*                                                                                                *)
(* A report is a sequence of lines; a line is a record of the kind the parser's expressions tell  *)
(* apart. Paths, commands, durations and the execution context are left out: the parser copies    *)
(* them and nothing depends on them. What is printed and read back is a word of the report        *)
(* ("true", "PASS", "0") from the start; titles and field names are written without their blanks. *)
EXTENDS Naturals, Sequences, FiniteSets, SequencesExt

CONSTANTS
    EvidenceLinks,   \* REQUIRED_EVIDENCE_LINKS, a sequence of paths
    GateOutputs,     \* the line sequences a gate may print
    MetricsFiles,    \* the governance metrics artifacts that may be on disk
    SnapshotFiles,   \* the runtime snapshot artifacts that may be on disk
    UiFiles,         \* the UI automation artifacts that may be on disk
    MaxSignoffs      \* bound: signoffs started

VARIABLES
    signoff,     \* the running rc_signoff process
    report,      \* .local/rc-signoff.md, and what the process that wrote it saw
    summary,     \* .local/rc-signoff.json, and the report it was parsed from
    signoffs     \* signoffs started so far

signoffVars == <<signoff, report, summary, signoffs>>

-----------------------------------------------------------------------------
(* Lines of a report. *)

Line(kind, name, value) == [kind |-> kind, name |-> name, value |-> value]
Lines == [kind : STRING, name : STRING, value : STRING]
Heading(title) == Line("heading", title, "none")
GateLine(gate, exit) == Line("gate", gate, IF exit = "0" THEN "PASS" ELSE "FAIL")
LinkLine(path, missing) == Line("link", path, IF path \notin missing THEN "OK" ELSE "MISSING")
Field(name, value) == Line("field", name, value)
Text == Line("text", "none", "none")

Flag(b) == IF b THEN "true" ELSE "false"
Verdict(ok) == IF ok THEN "PASS" ELSE "FAIL"

(* The gate output that a report embeds never holds a heading of its own; it may hold lines that  *)
(* read like the fields of a section.                                                             *)
ASSUME OutputAssumption ==
    /\ EvidenceLinks \in Seq(STRING)
    /\ \A out \in GateOutputs :
          out \in Seq(Lines) /\ \A k \in DOMAIN out : out[k].kind \in {"field", "text"}

-----------------------------------------------------------------------------
(* rc_signoff.py *)

\* The mandatory gates, in the order they run.
Gates == <<"pytest", "validate_layers", "scan_forbidden_imports">>

\* Local data validation passes when the file exists, is intact and has every required table.
Databases == [there : BOOLEAN, intact : BOOLEAN, tables : BOOLEAN]
Validates(db) == db.there /\ db.intact /\ db.tables

\* The alerts of the two ratios; a missing ratio raises none.
Alerts(file) == {r \in {"cost", "rejection"} : file[r] = "high"}

\* There are two alerts at most.
Count(n) == IF n = 0 THEN "0" ELSE IF n = 1 THEN "1" ELSE "2"

\* An artifact that is absent or not JSON, or lacks a ratio, makes the section UNAVAILABLE; one
\* whose shape is unexpected is not caught (Misshapen below).
Governance(file) ==
    LET read == file.file = "read"
        whole == read /\ file.cost # "none" /\ file.rejection # "none"
        alerts == IF read THEN Cardinality(Alerts(file)) ELSE 0
    IN  [available |-> Flag(whole), alerts |-> Count(alerts),
         result |-> IF ~whole THEN "UNAVAILABLE" ELSE IF alerts > 0 THEN "ALERT" ELSE "PASS"]

Snapshots(file) ==
    [available |-> Flag(file.file = "read"),
     before |-> Flag(file.file = "read" /\ file.before),
     after |-> Flag(file.file = "read" /\ file.after)]

UiAutomation(file) ==
    [available |-> Flag(file.file = "read"),
     result |-> IF file.file = "read" /\ file.status \in {"PASS", "FAIL"}
                THEN file.status ELSE "UNAVAILABLE"]

\* An artifact that parses as JSON but is not a mapping, or nests null or text where a mapping or
\* a number is read, raises out of main before the report is written.
Misshapen(metrics, snapshots, ui) ==
    "misshapen" \in {metrics.file, snapshots.file, ui.file}

AllOk(results) == \A k \in DOMAIN results : results[k].exit = "0"

\* Mutation: the overall result forgets a required validation that failed.
OverallOfGates(s, data) == s.missing = {} /\ AllOk(s.results)

OverallPass(s, data) ==
    /\ s.missing = {}
    /\ AllOk(s.results)
    /\ s.required = "true" => data = "PASS"

\* The exit code: each early return of main in turn.
ExitCode(s, data) ==
    IF s.missing # {} THEN 1
    ELSE IF \E k \in DOMAIN s.results : s.results[k].exit # "0" THEN 1
    ELSE IF s.required = "true" /\ data # "PASS" THEN 1
    ELSE 0

GateSection(r) ==
    <<GateLine(r.gate, r.exit), Field("ExitCode", r.exit), Text>> \o r.output \o <<Text>>

\* The section of the k-th gate, if it ran.
GateResult(results, k) == IF k <= Len(results) THEN GateSection(results[k]) ELSE <<>>

\* The validation prints one line or a JSON object, neither of which reads like a field.
DataSection(required, data) ==
    <<Heading("LocalDataSafety"), Field("Required", required),
      Field("ExitCode", IF data = "PASS" THEN "0" ELSE "1"), Field("Result", data), Text>>

GovernanceSection(gov) ==
    <<Heading("GovernanceAlerts"), Field("MetricsAvailable", gov.available),
      Field("AlertCount", gov.alerts), Field("Result", gov.result), Text>>

SnapshotSection(snap) ==
    <<Heading("RuntimeSnapshots"), Field("Available", snap.available),
      Field("BeforeCaptured", snap.before), Field("AfterCaptured", snap.after), Text>>

UiSection(ui) ==
    <<Heading("UIE2EAutomation"), Field("Available", ui.available),
      Field("Result", ui.result), Text>>

LinkSection(missing) ==
    <<Heading("ExecutionContext"), Text, Heading("RequiredEvidenceLinks")>>
        \o [k \in 1 .. Len(EvidenceLinks) |-> LinkLine(EvidenceLinks[k], missing)]
        \o <<Text>>

GateSections(results) ==
    <<Heading("GateResults")>>
        \o GateResult(results, 1) \o GateResult(results, 2) \o GateResult(results, 3)

OverallSection(s, data) == <<Heading("Overall"), Field("Result", Verdict(OverallPass(s, data)))>>

ReportLines(s, data, gov, snap, ui) ==
    LinkSection(s.missing) \o GateSections(s.results) \o DataSection(s.required, data)
        \o GovernanceSection(gov) \o SnapshotSection(snap) \o UiSection(ui)
        \o OverallSection(s, data)

NotRunning == [phase |-> "none", missing |-> {}, results |-> <<>>, required |-> "false"]
NoSignoffReport == [there |-> "no"]

\* main up to the gate loop: the flags, and the links that are missing.
StartSignoff(missing, required) ==
    /\ signoff.phase = "none"
    /\ signoffs < MaxSignoffs
    /\ signoffs' = signoffs + 1
    /\ signoff' = [phase |-> "gates", missing |-> missing, results |-> <<>>,
                   required |-> required]
    /\ UNCHANGED <<report, summary>>

\* Gates are still to run while no link is missing and no gate has failed.
GatesLeft(s) ==
    /\ s.missing = {}
    /\ AllOk(s.results)
    /\ Len(s.results) < Len(Gates)

\* One gate runs to its end; the loop stops at the first that fails.
RunGate(exit, output) ==
    /\ signoff.phase = "gates"
    /\ GatesLeft(signoff)
    /\ signoff' = [signoff EXCEPT !.results =
           Append(@, [gate |-> Gates[Len(@) + 1], exit |-> exit, output |-> output])]
    /\ UNCHANGED <<report, summary, signoffs>>

\* What the finished process knew, kept beside the report it wrote.
Saw(s, data, gov, snap, ui) ==
    [exit |-> ExitCode(s, data), missing |-> s.missing, results |-> s.results,
     required |-> s.required, data |-> data, governance |-> gov.result,
     snapshots |-> snap.available, ui |-> ui.result]

\* The rest of main after the gates: the data validation and the advisory artifacts are read, the
\* report is written and the process returns; write_text replaces the old report first, so a kill
\* in the middle leaves the first lines (a line cut short matches none of the parser's expressions).
Conclude(db, metrics, snapshots, ui) ==
    LET gov == Governance(metrics)
        snap == Snapshots(snapshots)
        auto == UiAutomation(ui)
        data == Verdict(Validates(db))
        lines == ReportLines(signoff, data, gov, snap, auto)
        wrote(kept, whole) == [there |-> "yes", whole |-> whole, lines |-> kept,
                               saw |-> Saw(signoff, data, gov, snap, auto)]
    IN  /\ signoff.phase = "gates"
        /\ ~GatesLeft(signoff)
        /\ ~Misshapen(metrics, snapshots, ui)
        /\ \/ report' = wrote(lines, "yes")
           \/ \E n \in 0 .. Len(lines) - 1 : report' = wrote(SubSeq(lines, 1, n), "no")
        /\ signoff' = NotRunning
        /\ UNCHANGED <<summary, signoffs>>

\* A misshapen artifact ends the process with a traceback; the report of an earlier signoff stays.
Raise(metrics, snapshots, ui) ==
    /\ signoff.phase = "gates"
    /\ ~GatesLeft(signoff)
    /\ Misshapen(metrics, snapshots, ui)
    /\ signoff' = NotRunning
    /\ UNCHANGED <<report, summary, signoffs>>

-----------------------------------------------------------------------------
(* parse_rc_signoff.py *)

\* The values each section's expressions accept for the fields the model keeps.
Accepts(title) ==
    CASE title = "LocalDataSafety" ->
             [Required |-> {"true", "false"}, Result |-> {"PASS", "FAIL"}]
      [] title = "GovernanceAlerts" ->
             [Result |-> {"PASS", "ALERT", "UNAVAILABLE"}]
      [] title = "RuntimeSnapshots" ->
             [Available |-> {"true", "false"}]
      [] title = "UIE2EAutomation" ->
             [Result |-> {"PASS", "FAIL", "UNAVAILABLE"}]

HeadingsOf(lines) == {k \in DOMAIN lines : lines[k].kind = "heading"}

\* The lines of a section: from its heading up to the next heading or the end of the file.
SectionOf(lines, title) ==
    LET starts == {k \in HeadingsOf(lines) : lines[k].name = title}
    IN  {k \in DOMAIN lines : \E s \in starts :
            /\ s < k
            /\ \A h \in HeadingsOf(lines) : s < h => k < h}

\* Within a section the last accepted line of a field wins; a field that is missing keeps the
\* default the parser starts from.
LastField(lines, title, name, default) ==
    LET found == {k \in SectionOf(lines, title) : /\ lines[k].kind = "field"
                                                  /\ lines[k].name = name
                                                  /\ lines[k].value \in Accepts(title)[name]}
    IN  IF found = {} THEN default ELSE lines[Max(found)].value

ParsedLinks(lines) ==
    {lines[k].name : k \in {j \in SectionOf(lines, "RequiredEvidenceLinks") :
                               lines[j].kind = "link" /\ lines[j].value = "MISSING"}}

\* A gate's record ends at the next gate or at the overall heading, but not at the headings in
\* between: the last gate's exit code is the last one found before the overall result.
GateEnd(lines, k) ==
    LET ends == {j \in DOMAIN lines : j > k /\ (lines[j].kind = "gate" \/
                                                lines[j] = Heading("Overall"))}
    IN  IF ends = {} THEN Len(lines) + 1 ELSE Min(ends)

ParsedGates(lines) ==
    LET record(k) ==
            LET exits == {j \in DOMAIN lines : /\ k < j /\ j < GateEnd(lines, k)
                                               /\ lines[j].kind = "field"
                                               /\ lines[j].name = "ExitCode"}
            IN  [gate |-> lines[k].name, verdict |-> lines[k].value,
                 exit |-> IF exits = {} THEN "none" ELSE lines[Max(exits)].value]
    IN  {record(k) : k \in {j \in DOMAIN lines : lines[j].kind = "gate"}}

ParsedData(lines) ==
    [required |-> LastField(lines, "LocalDataSafety", "Required", "false"),
     result |-> LastField(lines, "LocalDataSafety", "Result", "none")]

ParsedGovernance(lines) == LastField(lines, "GovernanceAlerts", "Result", "UNAVAILABLE")

ParsedSnapshots(lines) == LastField(lines, "RuntimeSnapshots", "Available", "false")

ParsedUi(lines) == LastField(lines, "UIE2EAutomation", "Result", "UNAVAILABLE")

\* The first PASS or FAIL after the overall heading; FAIL when the file ends before it.
ParsedOverall(lines) ==
    LET found == {k \in DOMAIN lines :
                     /\ lines[k] \in {Field("Result", "PASS"), Field("Result", "FAIL")}
                     /\ \E h \in DOMAIN lines : h < k /\ lines[h] = Heading("Overall")}
    IN  IF found = {} THEN "FAIL" ELSE lines[Min(found)].value

ParseMarkdown(lines) ==
    [missing |-> ParsedLinks(lines), gates |-> ParsedGates(lines), data |-> ParsedData(lines),
     governance |-> ParsedGovernance(lines), snapshots |-> ParsedSnapshots(lines),
     ui |-> ParsedUi(lines), overall |-> ParsedOverall(lines)]

NoSummary == [there |-> "no"]

\* A missing report leaves the old summary as it was.
ParseReport ==
    /\ report.there = "yes"
    /\ summary' = [there |-> "yes", parsed |-> ParseMarkdown(report.lines),
                   whole |-> report.whole, saw |-> report.saw]
    /\ UNCHANGED <<signoff, report, signoffs>>

-----------------------------------------------------------------------------

SignoffInit ==
    /\ signoff = NotRunning
    /\ report = NoSignoffReport
    /\ summary = NoSummary
    /\ signoffs = 0

SignoffNext ==
    \/ \E missing \in SUBSET Range(EvidenceLinks), required \in {"true", "false"} :
          StartSignoff(missing, required)
    \/ \E exit \in {"0", "1"}, output \in GateOutputs : RunGate(exit, output)
    \/ \E db \in Databases, metrics \in MetricsFiles, snapshots \in SnapshotFiles, ui \in UiFiles :
          Conclude(db, metrics, snapshots, ui)
    \/ \E metrics \in MetricsFiles, snapshots \in SnapshotFiles, ui \in UiFiles :
          Raise(metrics, snapshots, ui)
    \/ ParseReport

SignoffSpec == SignoffInit /\ [][SignoffNext]_signoffVars

-----------------------------------------------------------------------------
(* Properties. *)

SignoffTypeOK ==
    /\ signoff.phase \in {"none", "gates"}
    /\ signoff.missing \subseteq Range(EvidenceLinks)
    /\ Len(signoff.results) <= Len(Gates)
    /\ {report.there, summary.there} \subseteq {"yes", "no"}
    /\ signoffs \in 0 .. MaxSignoffs

\* The JSON summary never says more than the signoff that wrote the report: it passes only when
\* that process found every link, ran every gate to success and, where required, a valid database,
\* even when the report was cut short by a kill or a gate printed lines that look like a section's
\* fields; and the summary of a whole report gives back each verdict of that process.
SummaryAgrees ==
    summary.there = "yes" =>
        LET parsed == summary.parsed
            saw == summary.saw
        IN  /\ parsed.overall = "PASS" =>
                   /\ saw.exit = 0
                   /\ {g.gate : g \in parsed.gates} = Range(Gates)
                   /\ \A g \in parsed.gates : g.verdict = "PASS"
            /\ summary.whole = "yes" =>
                   /\ (parsed.overall = "PASS") <=> (saw.exit = 0)
                   /\ parsed.missing = saw.missing
                   /\ {[gate |-> g.gate, verdict |-> g.verdict] : g \in parsed.gates}
                        = {[gate |-> r.gate, verdict |-> Verdict(r.exit = "0")] :
                              r \in Range(saw.results)}
                   /\ parsed.data = [required |-> saw.required, result |-> saw.data]
                   /\ parsed.governance = saw.governance
                   /\ parsed.snapshots = saw.snapshots
                   /\ parsed.ui = saw.ui

=============================================================================
