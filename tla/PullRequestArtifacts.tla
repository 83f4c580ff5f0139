------------------------ MODULE PullRequestArtifacts ------------------------
(* The artifacts of the pull-request scripts: review.py, prepare.py and merge.py.  There is one   *)
(* review.md, one prep.md and one merge.md for all pull requests, so that whoever works on one    *)
(* overwrites what another left. prepare.py runs its gates one after the other, which takes       *)
(* minutes, and writes prep.md at the end; meanwhile others review, prepare and merge. Artifacts  *)
(* are records of what the later scripts read and of the verdict they state; their wording, and   *)
(* the branch and HEAD they note, which no script reads again, are left out.                      *)
EXTENDS Naturals, Sequences

CONSTANTS
  PullRequests,    \* what --pr is given
  PlanningFiles,   \* what test-plan.md and test-index.md may be: missing, empty, text or marked
  Operators,       \* who runs the scripts, one script at a time each
  MaxScripts       \* bound: scripts that write an artifact

PrepareGates == <<"testing_artifacts", "pytest", "validate_layers", "scan_forbidden_imports">>
AlignmentFiles == {"alignment-audit.md", "alignment-todos.md"}
NoArtifact == [pr |-> "none"]
NotPreparing == [pr |-> "none", ran |-> 0]

VARIABLES
  review,          \* review.md
  prep,            \* prep.md
  merge,           \* merge.md
  planning,        \* test-plan.md and test-index.md
  alignment,       \* the alignment files that exist
  preparing,       \* prepare.py of each operator, between its start and its write
  scripts,
  reviewed,        \* history: pull requests of every review.md there was
  prepared         \* history: and of every prep.md

artifactVars == <<review, prep, merge, planning, alignment, preparing, scripts,
                  reviewed, prepared>>

ArtifactsInit ==
  /\ review = NoArtifact /\ prep = NoArtifact /\ merge = NoArtifact
  /\ planning = [plan |-> "text", index |-> "marked"]
  /\ alignment = {}
  /\ preparing = [o \in Operators |-> NotPreparing]
  /\ scripts = 0
  /\ reviewed = {} /\ prepared = {}

StartsScript == scripts < MaxScripts /\ scripts' = scripts + 1

\* review.py; with --no-overwrite an existing file is kept, whichever pull request it is of.
Review(pr, noOverwrite) ==
  /\ StartsScript
  /\ IF noOverwrite /\ review # NoArtifact
     THEN UNCHANGED <<review, reviewed>>
     ELSE review' = [pr |-> pr] /\ reviewed' = reviewed \cup {pr}
  /\ UNCHANGED <<prep, merge, planning, alignment, preparing, prepared>>

\* check_testing_artifacts.py, the first gate; the directories are there.
TestingArtifactsPass ==
  /\ planning.plan \notin {"missing", "empty"}
  /\ planning.index = "marked"

\* prepare.py up to its gates.
StartPrepare(o, pr) ==
  /\ preparing[o] = NotPreparing
  /\ StartsScript
  /\ preparing' = [preparing EXCEPT ![o] = [pr |-> pr, ran |-> 0, failed |-> FALSE]]
  /\ UNCHANGED <<review, prep, merge, planning, alignment, reviewed, prepared>>

\* The next gate.  All run, whatever the others said; those but the first are any outcome.
RunPrepareGate(o, passes) ==
  LET next == preparing[o].ran + 1
  IN  /\ preparing[o] # NotPreparing
      /\ next \in 1..Len(PrepareGates)
      /\ PrepareGates[next] = "testing_artifacts" => (passes <=> TestingArtifactsPass)
      /\ preparing' = [preparing EXCEPT ![o].ran = next,
                                        ![o].failed = preparing[o].failed \/ ~passes]
      /\ UNCHANGED <<review, prep, merge, planning, alignment, scripts, reviewed, prepared>>

\* The end of prepare.py: after the gates, or at once with --skip-gates.
WritePrep(o) ==
  LET p == preparing[o]
  IN  /\ p # NotPreparing
      /\ p.ran \in {0, Len(PrepareGates)}
      /\ prep' = [pr |-> p.pr, ready |-> ~p.failed]
      /\ prepared' = prepared \cup {p.pr}
      /\ preparing' = [preparing EXCEPT ![o] = NotPreparing]
      /\ UNCHANGED <<review, merge, planning, alignment, scripts, reviewed>>

\* Mutation: an artifact only has to be there.
ArtifactExists(artifact, pr) == artifact # NoArtifact

\* _artifact_matches_pr: the file is there and its first line names the pull request.
ArtifactMatchesPr(artifact, pr) == artifact # NoArtifact /\ artifact.pr = pr

\* What merge.py asks for.
Prerequisites(pr, archImpacting) ==
  /\ ArtifactMatchesPr(review, pr)
  /\ ArtifactMatchesPr(prep, pr)
  /\ archImpacting => AlignmentFiles \subseteq alignment

\* merge.py; with --check-only, or when a prerequisite is missing, it writes nothing.
Merge(pr, archImpacting) ==
  /\ StartsScript
  /\ Prerequisites(pr, archImpacting)
  /\ merge' = [pr |-> pr]
  /\ UNCHANGED <<review, prep, planning, alignment, preparing, reviewed, prepared>>

\* What people and agents do to the tree between the scripts.
EditPlanning(files) ==
  /\ planning' = files
  /\ UNCHANGED <<review, prep, merge, alignment, preparing, scripts, reviewed, prepared>>

EditAlignment(file) ==
  /\ alignment' = alignment \cup {file}
  /\ UNCHANGED <<review, prep, merge, planning, preparing, scripts, reviewed, prepared>>

ArtifactsNext ==
  \/ \E pr \in PullRequests, flag \in BOOLEAN : Review(pr, flag) \/ Merge(pr, flag)
  \/ \E o \in Operators : \/ \E pr \in PullRequests : StartPrepare(o, pr)
                          \/ \E passes \in BOOLEAN : RunPrepareGate(o, passes)
                          \/ WritePrep(o)
  \/ \E files \in PlanningFiles : EditPlanning(files)
  \/ \E file \in AlignmentFiles : EditAlignment(file)

ArtifactsSpec == ArtifactsInit /\ [][ArtifactsNext]_artifactVars

-----------------------------------------------------------------------------
ArtifactsTypeOK ==
  /\ review.pr \in PullRequests \cup {"none"}
  /\ prep = NoArtifact \/ prep \in [pr : PullRequests, ready : BOOLEAN]
  /\ merge.pr \in PullRequests \cup {"none"}
  /\ \A o \in Operators : preparing[o].ran \in 0..Len(PrepareGates)
  /\ scripts \in 0..MaxScripts

(* A merge is recorded only for a pull request that was itself reviewed and prepared (merge.py,   *)
(* _artifact_matches_pr), though review.md and prep.md are shared by all pull requests and are    *)
(* overwritten, or with --no-overwrite kept, while a long prepare of another is still running.    *)
MergedWasReviewed == merge # NoArtifact => merge.pr \in reviewed \cap prepared
=============================================================================
