---------------------------- MODULE MergeMachine ----------------------------
(***************************************************************************)
(* The Smart Merge and Smart Commit machines over one session's worktree   *)
(* (workflows/merge/machine.ts, workflows/commit/machine.ts and their      *)
(* shared validate-fix-revalidate states): what a run of them does to the  *)
(* branch, to a merge in progress and to work it did not make, with agents *)
(* that do not do what they were told, an operator's stop at any point, a  *)
(* crash, and a person at work in the worktree between runs.               *)
(*                                                                         *)
(* Publishing is one step here with all its outcomes; JobQueue models it.  *)
(***************************************************************************)
EXTENDS Naturals

CONSTANTS
    MaxFixAttempts,     \* fix turns of one run (2 in the code)
    MaxCasAttempts,     \* publish attempts of one run (3 in the code)
    MaxRuns,            \* bound: runs dispatched
    MaxHands,           \* bound: steps of a person in the worktree
    MaxCrashes          \* bound: deaths of the server

ASSUME MergeBounds ==
    /\ MaxFixAttempts \in Nat \ {0} /\ MaxCasAttempts \in Nat \ {0}
    /\ MaxRuns \in Nat /\ MaxHands \in Nat /\ MaxCrashes \in Nat

VARIABLES
    at,         \* the machine's state, "idle" between runs
    ctx,        \* the machine's context
    last,       \* the session's latest job, as the registry or its row has it
    session,    \* "open" or "finished"
    owner,      \* whose merge is in progress: "none", "run", "past" (others')
    artifacts,  \* unmerged entries or conflict markers among tracked changes
    edits,      \* other changes against HEAD
    head,       \* what the branch's tip is, see MergeTypeOK
    merged,     \* the target's tip is in the branch
    halt,       \* history: was the last merge that halted on conflicts to keep
                \* the session open ("keep"), to finish it, or "none"
    spent       \* how much of each bound is used

tree == <<owner, artifacts, edits, head, merged>>
vars == <<at, ctx, last, session, tree, halt, spent>>

Kinds   == {"merge", "resolve-conflicts", "commit"}
Invoked == {"verifyingBranch", "classifyingWorktree", "committing",
            "mergingMain", "analyzingConflicts", "resolvingConflicts",
            "committingResolution", "validating", "fixingValidation",
            "checkingFixChanges", "committingFix", "revalidating", "preparing",
            "publishing"}
Verdicts == {"completed", "failed", "conflicts", "ready-to-land"}

Contexts == [kind : Kinds,              \* the job's type
             autoResolve : BOOLEAN, autoFix : BOOLEAN,
             listed : BOOLEAN,          \* conflictFiles is not empty
             keep : BOOLEAN,            \* skipMarkMerged
             opened : BOOLEAN,          \* openedMerge
             fixes : 0..MaxFixAttempts, attempt : 1..MaxCasAttempts,
             abort : BOOLEAN,           \* abortRequested
             soiled : BOOLEAN]          \* history: head.soiled at its start

MergeTypeOK ==
    /\ at \in Invoked \cup {"idle", "aborting"}
    /\ ctx \in Contexts
    /\ last \in [kind : Kinds \cup {"none"}, status : Verdicts,
                 listed : BOOLEAN, keep : BOOLEAN, live : BOOLEAN]
    /\ session \in {"open", "finished"}
    /\ owner \in {"none", "run", "past"}
    /\ artifacts \in BOOLEAN /\ edits \in BOOLEAN /\ merged \in BOOLEAN
    /\ head \in [isMerge : BOOLEAN,     \* a merge commit
                 validated : BOOLEAN,   \* this very commit passed validation
                 soiled : BOOLEAN]      \* carries conflict markers
    /\ halt \in {"none", "keep", "finish"}
    /\ spent \in [runs : 0..MaxRuns, hands : 0..MaxHands, crashes : 0..MaxCrashes]

\* A machine's context before it runs.
Fresh(kind) ==
    [kind |-> kind, autoResolve |-> FALSE, autoFix |-> TRUE, listed |-> FALSE,
     keep |-> FALSE, opened |-> FALSE, fixes |-> 0, attempt |-> 1,
     abort |-> FALSE, soiled |-> FALSE]

MergeInit ==
    /\ at = "idle"
    /\ ctx = Fresh("merge")
    /\ last = [kind |-> "none", status |-> "failed", listed |-> FALSE,
               keep |-> FALSE, live |-> FALSE]
    /\ session = "open"
    /\ owner = "none" /\ artifacts = FALSE /\ edits \in BOOLEAN
    /\ head = [isMerge |-> FALSE, validated |-> FALSE, soiled |-> FALSE]
    /\ merged = FALSE /\ halt = "none"
    /\ spent = [runs |-> 0, hands |-> 0, crashes |-> 0]

Spend(what, max) ==
    /\ spent[what] < max
    /\ spent' = [spent EXCEPT ![what] = @ + 1]

-----------------------------------------------------------------------------
(* What git commands and agents do to the worktree                          *)

Untouched == UNCHANGED tree

\* The branch's tip moves to a commit of everything in the worktree; whether
\* it keeps the markers an earlier one carried is the edits' business.
NewTip(soils, validated) ==
    /\ owner' = "none" /\ artifacts' = FALSE /\ edits' = FALSE
    /\ \E soiled \in {head.soiled \/ soils, (head.soiled /\ ~edits) \/ soils} :
           head' = [isMerge |-> owner # "none", validated |-> validated,
                    soiled |-> soiled]
    /\ merged' \in IF owner = "none" THEN {merged} ELSE {merged, TRUE}

HasWorkToCommit == edits \/ artifacts \/ owner # "none"

\* commitChanges: stage everything and commit, refused over conflict artifacts.
StagesAnything == HasWorkToCommit /\ NewTip(artifacts, FALSE)     \* mutant
StageAndCommit == HasWorkToCommit /\ ~artifacts /\ NewTip(FALSE, FALSE)

\* git merge of the target, which is left in progress when it conflicts.
MergeTarget ==
    /\ owner = "none"
    /\ \/ merged /\ Untouched
       \/ /\ ~merged /\ merged' = TRUE
          /\ head' = [head EXCEPT !.isMerge = TRUE, !.validated = FALSE]
          /\ UNCHANGED <<owner, artifacts, edits>>
       \/ /\ ~merged /\ owner' = "run" /\ artifacts' = TRUE
          /\ UNCHANGED <<edits, head, merged>>

AbortMerge ==
    /\ owner # "none"
    /\ owner' = "none" /\ artifacts' = FALSE /\ edits' = FALSE
    /\ UNCHANGED <<head, merged>>

\* A resolver stages a resolution, as it is told to, or does nothing, or
\* commits what is there itself, markers included, or aborts the merge.
ResolverTurn ==
    \/ Untouched
    \/ artifacts' = FALSE /\ edits' \in BOOLEAN /\ UNCHANGED <<owner, head, merged>>
    \/ HasWorkToCommit /\ \E soils \in {FALSE, artifacts} : NewTip(soils, FALSE)
    \/ AbortMerge

\* A fix turn edits, may leave a mess of markers behind, or edits and commits.
FixTurn ==
    \/ edits' \in BOOLEAN /\ artifacts' \in BOOLEAN /\ UNCHANGED <<owner, head, merged>>
    \/ ~artifacts /\ NewTip(FALSE, FALSE)

\* A validation command may rewrite files (formatters do).
ScriptRuns == edits' \in {edits, TRUE} /\ UNCHANGED <<owner, artifacts, head, merged>>

\* The commands passed, and what they rewrote is committed with the rest.
ScriptPasses ==
    /\ ~artifacts
    /\ \/ /\ ~edits /\ head' = [head EXCEPT !.validated = TRUE]
          /\ UNCHANGED <<owner, artifacts, edits, merged>>
       \/ NewTip(FALSE, TRUE)

\* What the work a state invoked may have done by the time it fails, is
\* stopped or dies with the server.
Effect ==
    \/ Untouched
    \/ at \in {"committing", "committingResolution", "committingFix"} /\ StageAndCommit
    \/ at = "mergingMain" /\ MergeTarget
    \/ at = "resolvingConflicts" /\ ResolverTurn
    \/ at = "fixingValidation" /\ FixTurn
    \/ at \in {"validating", "revalidating"} /\ (ScriptRuns \/ ScriptPasses)

-----------------------------------------------------------------------------
(* Moving through the machine and out of it                                 *)

Move(s, c) == at' = s /\ ctx' = c /\ UNCHANGED <<last, session, halt, spent>>
MoveTo(s)  == Move(s, ctx)

\* A final state: the job records the verdict and what a retry will ask it for.
Record(status, c) ==
    /\ at' = "idle" /\ ctx' = Fresh("merge")
    /\ last' = [kind |-> c.kind, status |-> status, listed |-> c.listed,
                keep |-> c.keep, live |-> TRUE]
    /\ halt' = IF status = "conflicts" /\ c.kind = "merge"
               THEN IF c.keep THEN "keep" ELSE "finish"
               ELSE halt
    /\ UNCHANGED spent
End(status) == Record(status, ctx) /\ UNCHANGED session
Fail        == End("failed")

-----------------------------------------------------------------------------
(* Dispatch: a merge that was in progress becomes somebody else's           *)

Begin(s, c) ==
    /\ at = "idle" /\ session = "open"
    /\ Spend("runs", MaxRuns)
    /\ at' = s
    /\ ctx' = [c EXCEPT !.soiled = head.soiled]
    /\ owner' = IF owner = "run" THEN "past" ELSE owner
    /\ UNCHANGED <<last, session, artifacts, edits, head, merged>>

StartMerge ==
    /\ \E auto, keep \in BOOLEAN :
           Begin("verifyingBranch", [Fresh("merge") EXCEPT
                 !.autoResolve = auto, !.autoFix = auto, !.keep = keep])
    /\ halt' = "none"

StartCommit == Begin("classifyingWorktree", Fresh("commit")) /\ UNCHANGED halt

\* The job a retry resumes: the one in memory whatever it was, else the latest
\* row when that is a merge halted on conflicts.
Resumes == \/ last.live
           \/ last.status = "conflicts" /\ last.kind \in {"merge", "resolve-conflicts"}

StartResolve ==
    /\ Begin("verifyingBranch", [Fresh("resolve-conflicts") EXCEPT
             !.listed = Resumes /\ last.listed, !.keep = Resumes /\ last.keep])
    /\ UNCHANGED halt

-----------------------------------------------------------------------------
(* The states up to a branch that holds the target                          *)

VerifyBranch ==
    /\ at = "verifyingBranch"
    /\ MoveTo(IF ctx.kind = "merge" THEN "classifyingWorktree" ELSE "resolvingConflicts")
    /\ Untouched

MidMerge == owner # "none"
Poisoned == owner = "none" /\ artifacts
Workable == ~MidMerge /\ ~Poisoned

EnterMerging == Move("mergingMain", [ctx EXCEPT !.opened = TRUE])

Classify ==
    /\ at = "classifyingWorktree"
    /\ \/ Workable /\ (edits \/ ctx.kind = "commit") /\ MoveTo("committing")
       \/ Workable /\ ~edits /\ ctx.kind = "merge" /\ EnterMerging
       \/ ~Workable /\ Fail
    /\ Untouched

Commit ==
    /\ at = "committing" /\ StageAndCommit
    /\ IF ctx.kind = "commit" THEN MoveTo("validating") ELSE EnterMerging

MergeMain ==
    /\ at = "mergingMain" /\ MergeTarget
    /\ \/ owner' = "none" /\ MoveTo("validating")
       \/ /\ owner' = "run"
          /\ Move(IF ctx.autoResolve THEN "resolvingConflicts" ELSE "analyzingConflicts",
                  [ctx EXCEPT !.listed = TRUE])

\* Whatever the analysis comes to, the conflict awaits a person.
Analyze == at = "analyzingConflicts" /\ Untouched /\ End("conflicts")

\* The reading of the worktree that a claimed resolution has to pass. The
\* files the run's own merge reported are read whatever git says of them; a
\* retry's list may be another merge's, and markers the branch had before may
\* sit in other files.
ClaimHolds ==
    /\ ~artifacts'
    /\ ctx.kind = "merge" /\ ctx.listed /\ ~ctx.soiled => ~head'.soiled

Resolve ==
    /\ at = "resolvingConflicts" /\ ResolverTurn
    /\ \/ ClaimHolds /\ MoveTo("committingResolution")
       \/ End("conflicts")

CommitResolution ==
    /\ at = "committingResolution"
    /\ \/ StageAndCommit
       \/ ~HasWorkToCommit /\ head.isMerge /\ merged /\ Untouched
    /\ MoveTo("validating")

-----------------------------------------------------------------------------
(* Validate, fix, check, commit the fix, validate again                     *)

Validated ==
    /\ at \in {"validating", "revalidating"} /\ ScriptPasses
    /\ IF ctx.kind = "commit" THEN End("completed") ELSE MoveTo("preparing")

OneFixMore == IF at = "validating" THEN ctx.autoFix ELSE ctx.fixes <= MaxFixAttempts \* mutant
MayFix == IF at = "validating" THEN ctx.autoFix ELSE ctx.fixes < MaxFixAttempts

Invalid ==
    /\ at \in {"validating", "revalidating"} /\ ScriptRuns /\ MayFix
    /\ Move("fixingValidation", [ctx EXCEPT !.fixes = @ + 1])

Fixed == at = "fixingValidation" /\ FixTurn /\ MoveTo("checkingFixChanges")

\* A check that fails has the commit try anyway.
CheckFix ==
    /\ at = "checkingFixChanges" /\ Untouched
    /\ \/ MoveTo("committingFix")
       \/ ~edits /\ ~artifacts /\ MoveTo("revalidating")

FixIsPublished == at = "committingFix" /\ StageAndCommit /\ MoveTo("preparing") \* mutant

CommitFix == at = "committingFix" /\ StageAndCommit /\ MoveTo("revalidating")

-----------------------------------------------------------------------------
(* Prepare and publish                                                      *)

Prepare ==
    /\ at = "preparing" /\ Untouched
    /\ \/ MoveTo("publishing")
       \/ Record("failed", [ctx EXCEPT !.listed = TRUE]) /\ UNCHANGED session

\* The landed commit is merged back into the branch when that is clean and
\* says the same; the session finishes unless it was asked to stay open.
Publish ==
    /\ at = "publishing"
    /\ Record("completed", ctx)
    /\ session' = IF ctx.keep THEN session ELSE "finished"
    /\ \/ /\ ~edits /\ merged' = TRUE
          /\ head' = [head EXCEPT !.isMerge = TRUE, !.validated = FALSE]
       \/ merged' \in {merged, FALSE} /\ UNCHANGED head
    /\ UNCHANGED <<owner, artifacts, edits>>

Park == at = "publishing" /\ Untouched /\ End("ready-to-land")

UncountedRetry ==                                                 \* mutant
    /\ at = "publishing"
    /\ merged' = FALSE /\ UNCHANGED <<owner, artifacts, edits, head>>
    /\ \/ ctx.abort /\ MoveTo("aborting")
       \/ ~ctx.abort /\ MoveTo("preparing")

\* The target moved first: a recorded stop is honoured now.
CasLost ==
    /\ at = "publishing"
    /\ merged' = FALSE /\ UNCHANGED <<owner, artifacts, edits, head>>
    /\ \/ ctx.abort /\ MoveTo("aborting")
       \/ /\ ~ctx.abort /\ ctx.attempt < MaxCasAttempts
          /\ Move("preparing", [ctx EXCEPT !.attempt = @ + 1])
       \/ ~ctx.abort /\ ctx.attempt = MaxCasAttempts /\ Fail

-----------------------------------------------------------------------------
(* Failing, stopping, and the cleanup after a stop                          *)

\* What a state invoked throws or reports a failure of its own.
ActorFails ==
    /\ at \in Invoked \ {"classifyingWorktree", "checkingFixChanges", "analyzingConflicts"}
    /\ Effect /\ Fail

Unreadable == at = "classifyingWorktree" /\ Untouched /\ Fail

\* abortSessionJob: every state but publishing is left at once, while what it
\* invoked may already have done its work.
Stop ==
    /\ at \in Invoked
    /\ IF at = "publishing"
       THEN ~ctx.abort /\ Untouched /\ Move(at, [ctx EXCEPT !.abort = TRUE])
       ELSE Effect /\ IF ctx.kind = "commit" THEN Fail ELSE MoveTo("aborting")

DiscardsAny        == owner # "none" /\ artifacts                 \* mutant
DiscardsUnresolved == ctx.opened /\ artifacts

CleanUp ==
    /\ at = "aborting"
    /\ Untouched \/ (DiscardsUnresolved /\ AbortMerge)
    /\ Fail

Restart ==
    /\ Spend("crashes", MaxCrashes)
    /\ at' = "idle" /\ ctx' = Fresh("merge") /\ Effect
    /\ last' = IF at = "idle" THEN [last EXCEPT !.live = FALSE]
               ELSE [kind |-> ctx.kind, status |-> "failed", listed |-> FALSE,
                     keep |-> ctx.keep, live |-> FALSE]
    /\ UNCHANGED <<session, halt>>

-----------------------------------------------------------------------------
(* The target, which other sessions land on, and a person in the worktree   *)

TargetMoves ==
    /\ merged /\ merged' = FALSE
    /\ UNCHANGED <<at, ctx, last, session, owner, artifacts, edits, head, halt, spent>>

\* A person edits, resolves, commits, opens a merge or aborts one, or has a
\* tool rewrite the index, which forgets the merge and keeps its markers.
Hands ==
    /\ at = "idle" /\ Spend("hands", MaxHands)
    /\ \/ edits' = TRUE /\ artifacts' \in {artifacts, FALSE} /\ UNCHANGED <<owner, head, merged>>
       \/ StageAndCommit
       \/ /\ owner = "none" /\ ~artifacts /\ ~merged
          /\ owner' = "past" /\ artifacts' = TRUE /\ UNCHANGED <<edits, head, merged>>
       \/ AbortMerge
       \/ owner # "none" /\ owner' = "none" /\ UNCHANGED <<artifacts, edits, head, merged>>
    /\ halt' = IF owner' = "none" THEN "none" ELSE halt
    /\ UNCHANGED <<at, ctx, last, session>>

-----------------------------------------------------------------------------
MachineStep ==
    \/ VerifyBranch \/ Classify \/ Commit \/ MergeMain \/ Analyze \/ Resolve
    \/ CommitResolution \/ Validated \/ Invalid \/ Fixed \/ CheckFix \/ CommitFix
    \/ Prepare \/ Publish \/ Park \/ CasLost \/ ActorFails \/ Unreadable \/ CleanUp

MergeNext ==
    \/ MachineStep \/ Stop \/ Restart
    \/ StartMerge \/ StartCommit \/ StartResolve
    \/ TargetMoves \/ Hands

MergeSpec == MergeInit /\ [][MergeNext]_vars

\* What a state invokes ends: agents' turns and validation commands have
\* timeouts, git commands return.
FairMergeSpec == MergeSpec /\ WF_vars(MachineStep)

-----------------------------------------------------------------------------
(* Properties                                                               *)

\* What is prepared and published is the branch's tip as a passing validation
\* left it (with the commit of what its commands rewrote): no fix, fix turn's
\* commit, hand-over from a resolver or publish retry slips in behind the
\* commands (states.ts committingFix, machine.ts validationRouting).  The
\* target's tip it is merged with may be newer.
ValidatedLands == at \in {"preparing", "publishing"} => head.validated

\* A merge that conflicted is not published with the markers its own resolver
\* left, staged or committed (conflict-resolution.ts verifyResolutionGroundTruth,
\* commits.ts assertNoConflictArtifacts).
ConflictsDoNotLand ==
    at \in {"preparing", "publishing"} /\ ctx.kind = "merge" /\ head.soiled => ctx.soiled

\* A merge in progress that ends without a merge commit was a person's or a
\* resolver's to end, or the stopped run's own and still unresolved: no stop,
\* failure, retry or commit throws away a merge someone else is in, or a
\* resolution that only waits to be committed (actors.ts abortMergeCleanupActor).
MergesAreNotThrownAway ==
    [][at \notin {"idle", "resolvingConflicts"} /\ owner # "none" /\ owner' = "none"
           => \/ head'.isMerge /\ ~artifacts
              \/ at = "aborting" /\ owner = "run" /\ artifacts]_vars

\* Every run reaches a verdict: fix rounds and publish retries are bounded and
\* a stop's cleanup ends (machine.ts casAttempt, states.ts fixAttempt).
RunsEnd == at # "idle" ~> at = "idle"

\* A retry finishes the session only if the merge it resumes would have:
\* "Whether the publish finishes the session is the RESUMED merge's fact, not
\* this route's assumption" (git/route-handlers.ts:631).
RetryKeepsSession ==
    ~(session = "finished" /\ last.kind = "resolve-conflicts" /\ halt = "keep")
=============================================================================
