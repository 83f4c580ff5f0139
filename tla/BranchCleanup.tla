---------------------------- MODULE BranchCleanup ----------------------------
(* The end of a pull request: scripts/pr/finalize.py removes the merged branch from the clone and *)
(* from origin, one git command at a time, each of which may fail, while colleagues go on pushing *)
(* to origin.                                                                                     *)
(*                                                                                                *)
(* A branch is the set of its commits. Git itself and the hosting service are external and        *)
(* modelled by what the scripts rely on. git branch -d asks whether the branch is contained in    *)
(* its upstream, or in the checked-out branch when it has none.                                   *)
EXTENDS Naturals, FiniteSets, Functions

CONSTANTS
    Branches,     \* the branches beside main
    MaxCommits,   \* bound: commits made
    MaxFinalizes  \* bound: calls of finalize.py

ASSUME CleanupAssumption == "main" \notin Branches

VARIABLES
    localBranches,  \* the clone's branches: a partial function from Branches to sets of commits
    tracking,       \* the clone's origin/<branch> references
    originBranches, \* the branches on origin
    localMain, originMain,
    current,        \* the branch checked out in the clone
    finalize,       \* the running finalize.py, or its outcome
    commits,        \* commits made so far
    pushed,         \* commits that were on origin at some time
    finalizes       \* calls of finalize.py so far

cleanupVars == <<localBranches, tracking, originBranches, localMain, originMain, current, finalize,
                 commits, pushed, finalizes>>

clone == <<localBranches, tracking, localMain, current>>
origin == <<originBranches, originMain, pushed>>
counts == <<commits, finalizes>>

NotFinalizing == [step |-> "none", branch |-> "main", extra |-> FALSE, dry |-> FALSE,
                  failed |-> FALSE]

BranchesWithout(f, b) == Restrict(f, DOMAIN f \ {b})
With(f, b, c) == [x \in DOMAIN f \union {b} |-> IF x = b THEN c ELSE f[x]]

-----------------------------------------------------------------------------
(* The developer, the colleagues and the hosting service. *)

\* What checking a branch out gives: the clone's own, else origin's as last fetched, else main.
CheckedOut(b) ==
    IF b \in DOMAIN localBranches THEN localBranches[b]
    ELSE IF b \in DOMAIN tracking THEN tracking[b] ELSE localMain

\* A branch is checked out and gets a commit.
Commit(b) ==
    /\ finalize.step \in {"none", "passed", "failed"}
    /\ commits < MaxCommits
    /\ commits' = commits + 1
    /\ current' = b
    /\ localBranches' = With(localBranches, b, CheckedOut(b) \union {commits + 1})
    /\ UNCHANGED <<tracking, localMain, origin, finalize, finalizes>>

\* git push -u origin b, refused when origin has commits the clone lacks.
Publish(b) ==
    /\ finalize.step \in {"none", "passed", "failed"}
    /\ b \in DOMAIN localBranches
    /\ b \in DOMAIN originBranches => originBranches[b] \subseteq localBranches[b]
    /\ originBranches' = With(originBranches, b, localBranches[b])
    /\ tracking' = With(tracking, b, localBranches[b])
    /\ pushed' = pushed \union localBranches[b]
    /\ UNCHANGED <<localBranches, localMain, originMain, current, finalize, counts>>

\* A colleague pushes a commit to a published branch, at any time.
ColleaguePush(b) ==
    /\ b \in DOMAIN originBranches
    /\ commits < MaxCommits
    /\ commits' = commits + 1
    /\ originBranches' = [originBranches EXCEPT ![b] = @ \union {commits + 1}]
    /\ pushed' = pushed \union {commits + 1}
    /\ UNCHANGED <<clone, originMain, finalize, finalizes>>

\* The pull request is merged on origin; a squash merge leaves the branch's own commits out.
MergePullRequest(b, squash) ==
    /\ b \in DOMAIN originBranches
    /\ originMain' = IF squash THEN originMain ELSE originMain \union originBranches[b]
    /\ UNCHANGED <<clone, originBranches, pushed, finalize, counts>>

\* The hosting service or a colleague removes the branch.
RemoveOnOrigin(b) ==
    /\ b \in DOMAIN originBranches
    /\ originBranches' = BranchesWithout(originBranches, b)
    /\ UNCHANGED <<clone, originMain, pushed, finalize, counts>>

-----------------------------------------------------------------------------
(* finalize.py *)

InStep(step) == finalize.step = step
Goto(step) == finalize' = [finalize EXCEPT !.step = step]
GotoWith(step, failed) == finalize' = [finalize EXCEPT !.step = step, !.failed = @ \/ failed]

\* A step that fails before the deletions ends the script.
StepFails(step) ==
    /\ InStep(step)
    /\ ~finalize.dry
    /\ GotoWith("failed", TRUE)
    /\ UNCHANGED <<clone, origin, counts>>

Start(b, extra, dry) ==
    /\ finalize.step \in {"none", "passed", "failed"}
    /\ finalizes < MaxFinalizes
    /\ finalizes' = finalizes + 1
    /\ finalize' = [step |-> IF current = "main" THEN "pull" ELSE "checkout", branch |-> b,
                    extra |-> extra, dry |-> dry, failed |-> FALSE]
    /\ UNCHANGED <<clone, origin, commits>>

CheckoutMain ==
    /\ InStep("checkout")
    /\ current' = IF finalize.dry THEN current ELSE "main"
    /\ Goto("pull")
    /\ UNCHANGED <<localBranches, tracking, localMain, origin, counts>>

PullMain ==
    /\ InStep("pull")
    /\ localMain' = IF finalize.dry THEN localMain ELSE originMain
    /\ Goto("fetch")
    /\ UNCHANGED <<localBranches, tracking, current, origin, counts>>

FetchPrune ==
    /\ InStep("fetch")
    /\ tracking' = IF finalize.dry THEN tracking ELSE originBranches
    /\ Goto("local")
    /\ UNCHANGED <<localBranches, localMain, current, origin, counts>>

\* Mutation: the branch is deleted with -D.
MergedForced(b) == b # current

\* git branch -d refuses the checked-out branch and one that its upstream, or main, does not hold.
Merged(b) ==
    /\ b # current
    /\ localBranches[b] \subseteq IF b \in DOMAIN tracking THEN tracking[b] ELSE localMain

\* A failed deletion is recorded and the script goes on.
DeleteLocal ==
    LET b == finalize.branch
        there == b \in DOMAIN localBranches
        deletes == there /\ ~finalize.dry /\ Merged(b)
    IN  /\ InStep("local")
        /\ localBranches' = IF deletes THEN BranchesWithout(localBranches, b) ELSE localBranches
        /\ GotoWith("remote", there /\ ~finalize.dry /\ ~deletes)
        /\ UNCHANGED <<tracking, localMain, current, origin, counts>>

\* ls-remote that cannot reach origin reads as a branch that is absent.
DeleteRemote(reachable, accepted) ==
    LET b == finalize.branch
        seen == reachable /\ b \in DOMAIN originBranches
        deletes == seen /\ ~finalize.dry /\ accepted
    IN  /\ InStep("remote")
        /\ originBranches' = IF deletes THEN BranchesWithout(originBranches, b) ELSE originBranches
        /\ tracking' = IF deletes THEN BranchesWithout(tracking, b) ELSE tracking
        /\ GotoWith(IF finalize.extra THEN "merged" ELSE "verify",
                    seen /\ ~finalize.dry /\ ~accepted)
        /\ UNCHANGED <<localBranches, localMain, current, originMain, pushed, counts>>

\* --delete-merged-local: the other branches contained in main, each deleted with -d.
DeleteMergedLocal ==
    LET listed == {b \in DOMAIN localBranches \ {finalize.branch} :
                      localBranches[b] \subseteq localMain}
        gone == IF finalize.dry THEN {} ELSE {b \in listed : Merged(b)}
    IN  /\ InStep("merged")
        /\ localBranches' = Restrict(localBranches, DOMAIN localBranches \ gone)
        /\ GotoWith("verify", ~finalize.dry /\ listed # gone)
        /\ UNCHANGED <<tracking, localMain, current, origin, counts>>

\* The last checks and the exit code; a dry run skips the checks.
VerifyAbsent(reachable) ==
    LET b == finalize.branch
        left == \/ b \in DOMAIN localBranches
                \/ reachable /\ b \in DOMAIN originBranches
        failed == finalize.failed \/ (~finalize.dry /\ left)
    IN  /\ InStep("verify")
        /\ GotoWith(IF failed THEN "failed" ELSE "passed", failed)
        /\ UNCHANGED <<clone, origin, counts>>

-----------------------------------------------------------------------------

CleanupInit ==
    /\ localBranches = <<>>
    /\ tracking = <<>>
    /\ originBranches = <<>>
    /\ localMain = {}
    /\ originMain = {}
    /\ current = "main"
    /\ finalize = NotFinalizing
    /\ commits = 0
    /\ pushed = {}
    /\ finalizes = 0

CleanupNext ==
    \/ \E b \in Branches : \/ Commit(b) \/ Publish(b) \/ ColleaguePush(b) \/ RemoveOnOrigin(b)
    \/ \E b \in Branches, squash \in BOOLEAN : MergePullRequest(b, squash)
    \/ \E b \in Branches, extra, dry \in BOOLEAN : Start(b, extra, dry)
    \/ \E step \in {"checkout", "pull", "fetch"} : StepFails(step)
    \/ CheckoutMain \/ PullMain \/ FetchPrune
    \/ DeleteLocal \/ DeleteMergedLocal
    \/ \E reachable, accepted \in BOOLEAN : DeleteRemote(reachable, accepted)
    \/ \E reachable \in BOOLEAN : VerifyAbsent(reachable)

CleanupSpec == CleanupInit /\ [][CleanupNext]_cleanupVars

-----------------------------------------------------------------------------
(* Properties. *)

CleanupTypeOK ==
    /\ DOMAIN localBranches \subseteq Branches
    /\ DOMAIN tracking \subseteq Branches
    /\ DOMAIN originBranches \subseteq Branches
    /\ current \in Branches \union {"main"}
    /\ commits \in 0 .. MaxCommits
    /\ finalizes \in 0 .. MaxFinalizes

\* finalize.py never drops work that exists only in this clone: whatever failed on the way, and
\* whatever was merged, squashed or removed on origin meanwhile, a commit that was never on origin
\* is still on a branch of the clone.
UnpublishedKept == 1 .. commits \ pushed \subseteq UNION Range(localBranches)

=============================================================================
