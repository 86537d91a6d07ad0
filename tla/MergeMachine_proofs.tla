------------------------ MODULE MergeMachine_proofs -------------------------
(***************************************************************************)
(* Theorems about the merge and commit machines, for every value of the    *)
(* bounds: their type invariant, that only validated tips are published,   *)
(* no run throws away a merge that is not its own to discard, no merge     *)
(* lands with markers its resolver left, a run has a bounded number of     *)
(* moves to make, and a retry that finds the merge it resumes finishes the *)
(* session only as that merge would have.                                  *)
(***************************************************************************)
EXTENDS MergeMachine, Integers, TLAPS

-----------------------------------------------------------------------------
(* What the worktree operators preserve                                     *)

TreeOK ==
    /\ owner \in {"none", "run", "past"}
    /\ artifacts \in BOOLEAN /\ edits \in BOOLEAN /\ merged \in BOOLEAN
    /\ head \in [isMerge : BOOLEAN, validated : BOOLEAN, soiled : BOOLEAN]

\* A merge in progress is lost only to a merge commit of a resolved worktree.
Concludes == owner # "none" /\ owner' = "none" => head'.isMerge /\ ~artifacts

\* Nothing a run does makes a merge in progress somebody else's.
NotHandedOver == owner' = "past" => owner = "past"

\* A commit keeps the worktree well-typed, ends the merge, and is a merge
\* commit if there was one (git/commits.ts stageAndCommit).
LEMMA NewTipEffect ==
    ASSUME TreeOK, NEW soils \in BOOLEAN, NEW validated \in BOOLEAN,
           NewTip(soils, validated)
    PROVE  /\ TreeOK' /\ owner' = "none" /\ head'.validated = validated
           /\ head'.isMerge = (owner # "none")
  <1>1. PICK soiled \in {head.soiled \/ soils, (head.soiled /\ ~edits) \/ soils} :
              head' = [isMerge |-> owner # "none", validated |-> validated,
                       soiled |-> soiled]
    BY DEF NewTip
  <1>2. soiled \in BOOLEAN /\ (owner # "none") \in BOOLEAN
    BY <1>1, Zenon
  <1>3. head' \in [isMerge : BOOLEAN, validated : BOOLEAN, soiled : BOOLEAN]
    BY <1>1, <1>2
  <1>4. owner' = "none" /\ artifacts' = FALSE /\ edits' = FALSE
    BY DEF NewTip
  <1>5. merged' \in BOOLEAN
    BY DEF NewTip, TreeOK
  <1>6. head'.validated = validated /\ head'.isMerge = (owner # "none")
    BY <1>1
  <1> QED
    BY <1>3, <1>4, <1>5, <1>6 DEF TreeOK

\* Staging and committing is refused over conflict artifacts
\* (git/commits.ts assertNoConflictArtifacts).
LEMMA CommitEffect ==
    ASSUME TreeOK, StageAndCommit
    PROVE  TreeOK' /\ Concludes /\ NotHandedOver /\ owner' = "none"
  BY NewTipEffect DEF StageAndCommit, Concludes, NotHandedOver

\* git merge starts only where no merge is in progress.
LEMMA MergeTargetEffect ==
    ASSUME TreeOK, MergeTarget
    PROVE  TreeOK' /\ Concludes /\ NotHandedOver
  BY DEF MergeTarget, Untouched, tree, TreeOK, Concludes, NotHandedOver

\* A resolver's turn keeps the worktree well-typed.
LEMMA ResolverEffect ==
    ASSUME TreeOK, ResolverTurn
    PROVE  TreeOK' /\ NotHandedOver
  <1>1. CASE Untouched
    BY <1>1 DEF Untouched, tree, TreeOK, NotHandedOver
  <1>2. CASE artifacts' = FALSE /\ edits' \in BOOLEAN /\ UNCHANGED <<owner, head, merged>>
    BY <1>2 DEF TreeOK, NotHandedOver
  <1>3. CASE HasWorkToCommit /\ \E soils \in {FALSE, artifacts} : NewTip(soils, FALSE)
    <2>1. PICK soils \in {FALSE, artifacts} : NewTip(soils, FALSE)
      BY <1>3
    <2>2. soils \in BOOLEAN
      BY DEF TreeOK
    <2> QED
      BY <2>1, <2>2, NewTipEffect DEF NotHandedOver
  <1>4. CASE AbortMerge
    BY <1>4 DEF AbortMerge, TreeOK, NotHandedOver
  <1> QED
    BY <1>1, <1>2, <1>3, <1>4 DEF ResolverTurn

\* A fix turn commits only where there are no artifacts.
LEMMA FixEffect ==
    ASSUME TreeOK, FixTurn
    PROVE  TreeOK' /\ Concludes /\ NotHandedOver
  <1>1. CASE edits' \in BOOLEAN /\ artifacts' \in BOOLEAN /\ UNCHANGED <<owner, head, merged>>
    BY <1>1 DEF TreeOK, Concludes, NotHandedOver
  <1>2. CASE ~artifacts /\ NewTip(FALSE, FALSE)
    BY <1>2, NewTipEffect DEF Concludes, NotHandedOver
  <1> QED
    BY <1>1, <1>2 DEF FixTurn

\* A validation command rewrites files and nothing else.
LEMMA ScriptEffect ==
    ASSUME TreeOK, ScriptRuns
    PROVE  TreeOK' /\ Concludes /\ NotHandedOver
  BY DEF ScriptRuns, TreeOK, Concludes, NotHandedOver

\* A passing validation leaves a tip that passed it.
LEMMA PassEffect ==
    ASSUME TreeOK, ScriptPasses
    PROVE  TreeOK' /\ Concludes /\ NotHandedOver /\ head'.validated
  <1>1. CASE /\ ~edits /\ head' = [head EXCEPT !.validated = TRUE]
             /\ UNCHANGED <<owner, artifacts, edits, merged>>
    BY <1>1 DEF TreeOK, Concludes, NotHandedOver
  <1>2. CASE NewTip(FALSE, TRUE)
    BY <1>2, NewTipEffect DEF ScriptPasses, Concludes, NotHandedOver
  <1> QED
    BY <1>1, <1>2 DEF ScriptPasses

\* What an interrupted state did to the worktree.
LEMMA InterruptedEffect ==
    ASSUME TreeOK, Effect
    PROVE  /\ TreeOK' /\ NotHandedOver
           /\ at # "resolvingConflicts" => Concludes
  <1>1. CASE Untouched
    BY <1>1 DEF Untouched, tree, TreeOK, Concludes, NotHandedOver
  <1>2. CASE StageAndCommit
    BY <1>2, CommitEffect
  <1>3. CASE MergeTarget
    BY <1>3, MergeTargetEffect
  <1>4. CASE at = "resolvingConflicts" /\ ResolverTurn
    BY <1>4, ResolverEffect
  <1>5. CASE FixTurn
    BY <1>5, FixEffect
  <1>6. CASE ScriptRuns
    BY <1>6, ScriptEffect
  <1>7. CASE ScriptPasses
    BY <1>7, PassEffect
  <1> QED
    BY <1>1, <1>2, <1>3, <1>4, <1>5, <1>6, <1>7 DEF Effect

-----------------------------------------------------------------------------
(* The inductive invariant, a conjunct for everything but the worktree      *)

LastOK == last \in [kind : Kinds \cup {"none"}, status : Verdicts,
                    listed : BOOLEAN, keep : BOOLEAN, live : BOOLEAN]
SpentOK == spent \in [runs : 0..MaxRuns, hands : 0..MaxHands, crashes : 0..MaxCrashes]
HaltOK  == halt \in {"none", "keep", "finish"}

\* A run past the merge it opened is in nobody else's.
Ours == at # "idle" /\ ctx.opened => owner # "past"

\* No fix turn is spent before the first validation is over.
Early == {"verifyingBranch", "classifyingWorktree", "committing", "mergingMain",
          "analyzingConflicts", "resolvingConflicts", "committingResolution",
          "validating"}
Unspent == at \in Early => ctx.fixes = 0

MergeInv == MergeTypeOK /\ ValidatedLands /\ Ours /\ Unspent

\* What a step has to establish, whatever it does to the worktree.
Rest == /\ at \in Invoked \cup {"idle", "aborting"} /\ ctx \in Contexts
        /\ LastOK /\ session \in {"open", "finished"} /\ HaltOK /\ SpentOK

\* The type invariant splits into the worktree's part and the rest.
LEMMA TypeParts ==
    (MergeTypeOK <=> Rest /\ TreeOK) /\ (MergeTypeOK' <=> Rest' /\ TreeOK')
  BY DEF MergeTypeOK, Rest, TreeOK, LastOK, HaltOK, SpentOK

\* A transition between states of the machine (xstate assign).
LEMMA MoveEffect ==
    ASSUME Rest, NEW s \in Invoked \cup {"aborting"}, NEW c \in Contexts, Move(s, c)
    PROVE  Rest' /\ at' = s /\ ctx' = c
  BY DEF Rest, Move, LastOK, HaltOK, SpentOK

\* A machine's context at dispatch.
LEMMA FreshContext ==
    ASSUME NEW k \in Kinds
    PROVE  Fresh(k) \in Contexts /\ ~Fresh(k).opened /\ Fresh(k).fixes = 0
  BY MergeBounds DEF Fresh, Contexts

\* A run's verdict reaches its job (jobs/machine-host.ts complete).
LEMMA RecordEffect ==
    ASSUME Rest, NEW status \in Verdicts, NEW c \in Contexts, Record(status, c),
           session' \in {"open", "finished"}
    PROVE  Rest' /\ at' = "idle"
  <1>1. Fresh("merge") \in Contexts
    BY FreshContext DEF Kinds
  <1>2. LastOK'
    BY DEF Record, LastOK, Contexts, Verdicts
  <1>3. HaltOK' /\ SpentOK'
    BY DEF Record, HaltOK, SpentOK, Rest
  <1> QED
    BY <1>1, <1>2, <1>3 DEF Record, Rest

\* The same, where the session stays as it is.
LEMMA EndEffect ==
    ASSUME Rest, NEW status \in Verdicts, End(status)
    PROVE  Rest' /\ at' = "idle"
  BY RecordEffect DEF End, Rest

LEMMA FailEffect ==
    ASSUME Rest, Fail
    PROVE  Rest' /\ at' = "idle"
  BY EndEffect DEF Fail, Verdicts

\* The bounds' counters stay within them.
LEMMA SpendEffect ==
    ASSUME SpentOK, NEW what \in {"runs", "hands", "crashes"}, NEW max,
           Spend(what, max),
           max = IF what = "runs" THEN MaxRuns ELSE IF what = "hands" THEN MaxHands ELSE MaxCrashes
    PROVE  SpentOK'
  BY MergeBounds DEF SpentOK, Spend

\* A dispatch (jobs/queue.ts dispatchMergeJob and its siblings).
LEMMA BeginEffect ==
    ASSUME MergeInv, NEW s \in {"verifyingBranch", "classifyingWorktree"},
           NEW c \in Contexts, ~c.opened, c.fixes = 0, Begin(s, c), HaltOK'
    PROVE  MergeInv'
  <1>1. Rest /\ TreeOK
    BY TypeParts DEF MergeInv
  <1>2. SpentOK'
    BY <1>1, SpendEffect DEF Rest, Begin
  <1>3. ctx' \in Contexts /\ ~ctx'.opened /\ ctx'.fixes = 0 /\ at' = s
    BY <1>1 DEF Begin, Contexts, TreeOK
  <1>4. Rest'
    BY <1>1, <1>2, <1>3 DEF Rest, Begin, Invoked, LastOK
  <1>5. TreeOK'
    BY <1>1 DEF Begin, TreeOK
  <1> QED
    BY <1>3, <1>4, <1>5, TypeParts DEF MergeInv, ValidatedLands, Ours, Unspent, Early

\* A step to a state short of publishing that hands the merge to nobody.
LEMMA Onward ==
    ASSUME MergeInv, NEW s \in (Invoked \ {"preparing", "publishing"}) \cup {"aborting"},
           NEW c \in Contexts, c.opened => owner' # "past",
           s \in Early => c.fixes = 0,
           Move(s, c), TreeOK'
    PROVE  MergeInv'
  <1>1. Rest' /\ at' = s /\ ctx' = c
    BY MoveEffect, TypeParts DEF MergeInv
  <1> QED
    BY <1>1, TypeParts DEF MergeInv, ValidatedLands, Ours, Unspent, Early

\* A step that ends the run.
LEMMA Over ==
    ASSUME Rest', TreeOK', at' = "idle"
    PROVE  MergeInv'
  BY TypeParts DEF MergeInv, ValidatedLands, Ours, Unspent, Early

\* The machine's first state.
LEMMA MergeInitInv == MergeInit => MergeInv
  <1>1. MergeInit => Rest
    BY FreshContext, MergeBounds
    DEF MergeInit, Rest, Kinds, LastOK, Verdicts, HaltOK, SpentOK
  <1>2. MergeInit => TreeOK
    <2>1. MergeInit => head \in [isMerge : BOOLEAN, validated : BOOLEAN, soiled : BOOLEAN]
      BY DEF MergeInit
    <2>2. MergeInit => /\ owner \in {"none", "run", "past"} /\ artifacts \in BOOLEAN
                       /\ edits \in BOOLEAN /\ merged \in BOOLEAN
      BY Zenon DEF MergeInit
    <2> QED
      BY <2>1, <2>2 DEF TreeOK
  <1>3. MergeInit => at = "idle"
    BY DEF MergeInit
  <1> QED
    BY <1>1, <1>2, <1>3, TypeParts DEF MergeInv, ValidatedLands, Ours, Unspent, Early

-----------------------------------------------------------------------------
(* One step per action of the machine                                       *)

LEMMA MachineStepInv ==
    ASSUME MergeInv, MachineStep
    PROVE  MergeInv'
  <1>1. Rest /\ TreeOK /\ ctx \in Contexts
    BY TypeParts DEF MergeInv, Rest
  <1>2. Untouched => TreeOK' /\ UNCHANGED tree
    BY <1>1 DEF Untouched, tree, TreeOK
  <1>3. owner = "none" \/ at = "idle" \/ ~ctx.opened \/ owner = "run"
    BY <1>1 DEF MergeInv, Ours, TreeOK
  <1>4. TreeOK' /\ Fail => MergeInv'
    BY <1>1, FailEffect, Over
  <1>5. TreeOK' /\ End("conflicts") => MergeInv'
    BY <1>1, EndEffect, Over DEF Verdicts
  <1>6. ASSUME TreeOK', NotHandedOver, at # "idle",
               NEW s \in (Invoked \ {"preparing", "publishing"}) \cup {"aborting"},
               at \in Early \/ s \notin Early,
               MoveTo(s)
        PROVE  MergeInv'
    BY <1>1, <1>3, <1>6, Onward DEF MoveTo, NotHandedOver, MergeInv, Unspent, Early
  <1>7. [ctx EXCEPT !.opened = TRUE] \in Contexts
    BY <1>1 DEF Contexts
  <1>8. TreeOK' /\ owner' = "none" /\ at \in Early /\ EnterMerging => MergeInv'
    <2>1. [ctx EXCEPT !.opened = TRUE].fixes = ctx.fixes
      BY <1>1 DEF Contexts
    <2> QED
      BY <1>1, <1>7, <2>1, Onward DEF EnterMerging, Invoked, MergeInv, Unspent
  <1>9. UNCHANGED tree => NotHandedOver
    BY DEF tree, NotHandedOver
  <1>a. CASE VerifyBranch
    BY <1>a, <1>2, <1>6, <1>9 DEF VerifyBranch, Invoked, Early
  <1>b. CASE Classify
    <2>1. CASE (edits \/ ctx.kind = "commit") /\ MoveTo("committing")
      BY <1>b, <2>1, <1>2, <1>6, <1>9 DEF Classify, Invoked, Early
    <2>2. CASE Workable /\ EnterMerging
      BY <1>b, <2>2, <1>2, <1>8 DEF Classify, Workable, MidMerge, tree, Early
    <2>3. CASE Fail
      BY <1>b, <2>3, <1>2, <1>4 DEF Classify
    <2> QED
      BY <1>b, <2>1, <2>2, <2>3 DEF Classify
  <1>c. CASE Commit
    <2>1. TreeOK' /\ NotHandedOver /\ owner' = "none"
      BY <1>c, <1>1, CommitEffect DEF Commit
    <2> QED
      BY <1>c, <2>1, <1>6, <1>8 DEF Commit, Invoked, Early
  <1>d. CASE MergeMain
    <2>1. TreeOK' /\ NotHandedOver
      BY <1>d, <1>1, MergeTargetEffect DEF MergeMain
    <2>2. CASE owner' = "none" /\ MoveTo("validating")
      BY <1>d, <2>1, <2>2, <1>6 DEF MergeMain, Invoked, Early
    <2>3. CASE owner' = "run" /\ Move(IF ctx.autoResolve THEN "resolvingConflicts" ELSE "analyzingConflicts",
                                      [ctx EXCEPT !.listed = TRUE])
      <3>1. [ctx EXCEPT !.listed = TRUE] \in Contexts
        BY <1>1 DEF Contexts
      <3> QED
        BY <1>d, <2>1, <2>3, <3>1, Onward DEF MergeMain, Invoked, Early, MergeInv, Unspent, Contexts
    <2> QED
      BY <1>d, <2>2, <2>3 DEF MergeMain
  <1>e. CASE Analyze
    BY <1>e, <1>2, <1>5 DEF Analyze
  <1>f. CASE Resolve
    <2>1. TreeOK' /\ NotHandedOver
      BY <1>f, <1>1, ResolverEffect DEF Resolve
    <2> QED
      BY <1>f, <2>1, <1>5, <1>6 DEF Resolve, Invoked, Early
  <1>g. CASE CommitResolution
    <2>1. TreeOK' /\ NotHandedOver
      BY <1>g, <1>1, <1>2, <1>9, CommitEffect DEF CommitResolution
    <2> QED
      BY <1>g, <2>1, <1>6 DEF CommitResolution, Invoked, Early
  <1>h. CASE Validated
    <2>1. TreeOK' /\ NotHandedOver /\ head'.validated
      BY <1>h, <1>1, PassEffect DEF Validated
    <2>2. CASE End("completed")
      BY <2>1, <2>2, <1>1, EndEffect, Over DEF Verdicts
    <2>3. CASE MoveTo("preparing")
      <3>1. Rest' /\ at' = "preparing" /\ ctx' = ctx
        BY <1>1, <2>3, MoveEffect DEF MoveTo, Invoked
      <3>2. ctx.opened => owner' # "past"
        BY <1>h, <2>1, <1>3 DEF Validated, NotHandedOver
      <3> QED
        BY <2>1, <3>1, <3>2, TypeParts DEF MergeInv, ValidatedLands, Ours, Unspent, Early
    <2> QED
      BY <1>h, <2>2, <2>3 DEF Validated
  <1>i. CASE Invalid
    <2>1. TreeOK' /\ NotHandedOver
      BY <1>i, <1>1, ScriptEffect DEF Invalid
    <2>2. at \in {"validating", "revalidating"} /\ MayFix
      BY <1>i DEF Invalid
    <2>3. [ctx EXCEPT !.fixes = @ + 1] \in Contexts
      BY <1>1, <2>2, MergeBounds DEF Contexts, MayFix, MergeInv, Unspent, Early
    <2> QED
      BY <1>i, <2>1, <2>2, <2>3, <1>3, Onward DEF Invalid, NotHandedOver, Invoked, Contexts, Early
  <1>j. CASE Fixed
    <2>1. TreeOK' /\ NotHandedOver
      BY <1>j, <1>1, FixEffect DEF Fixed
    <2> QED
      BY <1>j, <2>1, <1>6 DEF Fixed, Invoked, Early
  <1>k. CASE CheckFix
    BY <1>k, <1>2, <1>6, <1>9 DEF CheckFix, Invoked, Early
  <1>l. CASE CommitFix
    <2>1. TreeOK' /\ NotHandedOver
      BY <1>l, <1>1, CommitEffect DEF CommitFix
    <2> QED
      BY <1>l, <2>1, <1>6 DEF CommitFix, Invoked, Early
  <1>m. CASE Prepare
    <2>1. CASE MoveTo("publishing")
      <3>1. Rest' /\ at' = "publishing" /\ ctx' = ctx
        BY <1>1, <2>1, MoveEffect DEF MoveTo, Invoked
      <3> QED
        BY <1>m, <1>2, <3>1, TypeParts DEF Prepare, tree, MergeInv, ValidatedLands, Ours, Unspent, Early
    <2>2. CASE Record("failed", [ctx EXCEPT !.listed = TRUE]) /\ UNCHANGED session
      <3>1. [ctx EXCEPT !.listed = TRUE] \in Contexts
        BY <1>1 DEF Contexts
      <3>2. Rest' /\ at' = "idle"
        BY <1>1, <2>2, <3>1, RecordEffect DEF Verdicts, Rest
      <3> QED
        BY <1>m, <1>2, <3>2, Over DEF Prepare
    <2> QED
      BY <1>m, <2>1, <2>2 DEF Prepare
  <1>n. CASE Publish
    <2>1. Rest' /\ at' = "idle"
      <3>1. session' \in {"open", "finished"}
        BY <1>n, <1>1 DEF Publish, Rest
      <3> QED
        BY <1>n, <1>1, <3>1, RecordEffect DEF Publish, Verdicts
    <2>2. TreeOK'
      BY <1>n, <1>1 DEF Publish, TreeOK
    <2> QED
      BY <2>1, <2>2, Over
  <1>o. CASE Park
    BY <1>o, <1>1, <1>2, EndEffect, Over DEF Park, Verdicts
  <1>p. CASE CasLost
    <2>1. TreeOK' /\ NotHandedOver /\ UNCHANGED head /\ UNCHANGED owner
      BY <1>p, <1>1 DEF CasLost, TreeOK, NotHandedOver
    <2>2. CASE MoveTo("aborting")
      BY <1>p, <2>1, <2>2, <1>6 DEF CasLost, Early
    <2>3. CASE ctx.attempt < MaxCasAttempts /\ Move("preparing", [ctx EXCEPT !.attempt = @ + 1])
      <3>1. /\ [ctx EXCEPT !.attempt = @ + 1] \in Contexts
            /\ [ctx EXCEPT !.attempt = @ + 1].opened = ctx.opened
        BY <1>1, <2>3, MergeBounds DEF Contexts
      <3>2. Rest' /\ at' = "preparing" /\ ctx' = [ctx EXCEPT !.attempt = @ + 1]
        BY <1>1, <2>3, <3>1, MoveEffect DEF Invoked
      <3> QED
        BY <1>p, <2>1, <3>1, <3>2, TypeParts DEF CasLost, MergeInv, ValidatedLands, Ours, Unspent, Early
    <2>4. CASE Fail
      BY <2>1, <2>4, <1>4
    <2> QED
      BY <1>p, <2>2, <2>3, <2>4 DEF CasLost
  <1>q. CASE ActorFails
    BY <1>q, <1>1, <1>4, InterruptedEffect DEF ActorFails
  <1>r. CASE Unreadable
    BY <1>r, <1>2, <1>4 DEF Unreadable
  <1>s. CASE CleanUp
    <2>1. TreeOK'
      BY <1>s, <1>1, <1>2 DEF CleanUp, AbortMerge, TreeOK
    <2> QED
      BY <1>s, <2>1, <1>4 DEF CleanUp
  <1> QED
    BY <1>a, <1>b, <1>c, <1>d, <1>e, <1>f, <1>g, <1>h, <1>i, <1>j, <1>k, <1>l,
       <1>m, <1>n, <1>o, <1>p, <1>q, <1>r, <1>s DEF MachineStep

\* Stops, restarts, dispatches and everybody else.
LEMMA NextInv ==
    ASSUME MergeInv, [MergeNext]_vars
    PROVE  MergeInv'
  <1>1. Rest /\ TreeOK /\ ctx \in Contexts
    BY TypeParts DEF MergeInv, Rest
  <1>2. Untouched => TreeOK' /\ UNCHANGED tree
    BY <1>1 DEF Untouched, tree, TreeOK
  <1>a. CASE MachineStep
    BY <1>a, MachineStepInv
  <1>b. CASE Stop
    <2>1. CASE at = "publishing" /\ Untouched /\ Move(at, [ctx EXCEPT !.abort = TRUE])
      <3>1. /\ [ctx EXCEPT !.abort = TRUE] \in Contexts
            /\ [ctx EXCEPT !.abort = TRUE].opened = ctx.opened
        BY <1>1 DEF Contexts
      <3>2. Rest' /\ at' = at /\ ctx' = [ctx EXCEPT !.abort = TRUE]
        BY <1>1, <2>1, <3>1, MoveEffect DEF Invoked
      <3> QED
        BY <1>2, <2>1, <3>1, <3>2, TypeParts
        DEF tree, MergeInv, ValidatedLands, Ours, Unspent, Early
    <2>2. CASE at # "publishing"
      <3>1. Effect /\ (Fail \/ MoveTo("aborting")) /\ at # "idle"
        BY <1>b, <2>2 DEF Stop, Invoked
      <3>2. TreeOK' /\ NotHandedOver
        BY <1>1, <3>1, InterruptedEffect
      <3>3. Fail => MergeInv'
        BY <1>1, <3>2, FailEffect, Over
      <3>4. ctx.opened => owner' # "past"
        BY <3>1, <3>2 DEF NotHandedOver, MergeInv, Ours
      <3>5. MoveTo("aborting") => MergeInv'
        BY <1>1, <3>2, <3>4, Onward DEF MoveTo, Early
      <3> QED
        BY <3>1, <3>3, <3>5
    <2> QED
      BY <1>b, <2>1, <2>2 DEF Stop
  <1>c. CASE Restart
    <2>1. TreeOK' /\ at' = "idle"
      BY <1>c, <1>1, InterruptedEffect DEF Restart
    <2>2. SpentOK'
      BY <1>c, <1>1, SpendEffect DEF Restart, Rest
    <2>3. LastOK'
      BY <1>c, <1>1 DEF Restart, Rest, LastOK, Contexts, Verdicts
    <2>4. ctx' \in Contexts
      BY <1>c, FreshContext DEF Restart, Kinds
    <2> QED
      BY <1>c, <1>1, <2>1, <2>2, <2>3, <2>4, Over DEF Restart, Rest, HaltOK
  <1>d. CASE StartMerge
    <2>1. PICK auto \in BOOLEAN, keep \in BOOLEAN :
              Begin("verifyingBranch", [Fresh("merge") EXCEPT
                    !.autoResolve = auto, !.autoFix = auto, !.keep = keep])
      BY <1>d DEF StartMerge
    <2> DEFINE c == [Fresh("merge") EXCEPT !.autoResolve = auto, !.autoFix = auto, !.keep = keep]
    <2>2. c \in Contexts /\ ~c.opened /\ c.fixes = 0
      BY FreshContext DEF Kinds, Contexts
    <2>3. HaltOK'
      BY <1>d DEF StartMerge, HaltOK
    <2> QED
      BY <2>1, <2>2, <2>3, BeginEffect
  <1>e. CASE StartCommit
    BY <1>e, <1>1, FreshContext, BeginEffect DEF StartCommit, Kinds, Rest, HaltOK
  <1>f. CASE StartResolve
    <2> DEFINE c == [Fresh("resolve-conflicts") EXCEPT
                     !.listed = Resumes /\ last.listed, !.keep = Resumes /\ last.keep]
    <2>1. (Resumes /\ last.listed) \in BOOLEAN /\ (Resumes /\ last.keep) \in BOOLEAN
      OBVIOUS
    <2>2. c \in Contexts /\ ~c.opened /\ c.fixes = 0
      BY <2>1, FreshContext DEF Kinds, Contexts
    <2>3. Begin("verifyingBranch", c) /\ HaltOK'
      BY <1>f, <1>1 DEF StartResolve, Rest, HaltOK
    <2> QED
      BY <2>2, <2>3, BeginEffect
  <1>g. CASE TargetMoves
    <2>1. TreeOK'
      BY <1>g, <1>1 DEF TargetMoves, TreeOK
    <2>2. Rest'
      BY <1>g, <1>1 DEF TargetMoves, Rest, LastOK, HaltOK, SpentOK
    <2> QED
      BY <1>g, <2>1, <2>2, TypeParts
      DEF TargetMoves, MergeInv, ValidatedLands, Ours, Unspent
  <1>h. CASE Hands
    <2>1. TreeOK'
      <3>1. CASE StageAndCommit
        BY <1>1, <3>1, CommitEffect
      <3>2. CASE AbortMerge
        BY <1>1, <3>2 DEF AbortMerge, TreeOK
      <3> QED
        BY <1>h, <1>1, <3>1, <3>2 DEF Hands, TreeOK
    <2>2. SpentOK'
      BY <1>h, <1>1, SpendEffect DEF Hands, Rest
    <2> QED
      BY <1>h, <1>1, <2>1, <2>2, Over DEF Hands, Rest, LastOK, HaltOK
  <1>i. CASE UNCHANGED vars
    BY <1>i DEF vars, tree, MergeInv, MergeTypeOK, ValidatedLands, Ours, Unspent
  <1> QED
    BY <1>a, <1>b, <1>c, <1>d, <1>e, <1>f, <1>g, <1>h, <1>i DEF MergeNext

\* The invariant that carries the theorems below.
LEMMA Invariant == MergeSpec => []MergeInv
  BY MergeInitInv, NextInv, PTL DEF MergeSpec

\* Every reachable state is of its type; in particular no run fixes or retries
\* its publish more often than the code's bounds allow.
THEOREM MergeTypeCorrect == MergeSpec => []MergeTypeOK
  <1>1. MergeInv => MergeTypeOK
    BY DEF MergeInv
  <1> QED
    BY <1>1, Invariant, PTL

\* What is prepared and published is the branch's tip as a passing validation
\* left it.
THEOREM OnlyValidatedLands == MergeSpec => []ValidatedLands
  <1>1. MergeInv => ValidatedLands
    BY DEF MergeInv
  <1> QED
    BY <1>1, Invariant, PTL

\* No run throws away a merge it did not open or whose resolution only waits
\* to be committed: one case per state that can touch the merge.
THEOREM NoMergeIsThrownAway == MergeSpec => MergesAreNotThrownAway
  <1> DEFINE Kept == at \notin {"idle", "resolvingConflicts"} /\ owner # "none" /\ owner' = "none"
                     => \/ head'.isMerge /\ ~artifacts
                        \/ at = "aborting" /\ owner = "run" /\ artifacts
  <1>1. ASSUME MergeInv, [MergeNext]_vars PROVE Kept
    <2>1. TreeOK
      BY <1>1, TypeParts DEF MergeInv
    <2>2. UNCHANGED owner => Kept
      BY Zenon
    <2>3. Concludes => Kept
      BY DEF Concludes
    <2>4. CASE /\ at # "resolvingConflicts"
               /\ Effect
      BY <2>1, <2>3, <2>4, InterruptedEffect
    <2>5. CASE CleanUp
      <3>1. CASE Untouched
        BY <2>2, <3>1 DEF Untouched, tree
      <3>2. CASE DiscardsUnresolved /\ AbortMerge
        BY <1>1, <2>1, <2>5, <3>2
        DEF DiscardsUnresolved, CleanUp, MergeInv, Ours, TreeOK, AbortMerge
      <3> QED
        BY <2>5, <3>1, <3>2 DEF CleanUp
    <2>6. CASE Commit \/ CommitFix \/ CommitResolution
      <3>1. CASE StageAndCommit
        BY <2>1, <2>3, <3>1, CommitEffect
      <3>2. CASE Untouched
        BY <2>2, <3>2 DEF Untouched, tree
      <3> QED
        BY <2>6, <3>1, <3>2 DEF Commit, CommitFix, CommitResolution
    <2>7. CASE MergeMain
      BY <2>1, <2>3, <2>7, MergeTargetEffect DEF MergeMain
    <2>8. CASE Validated \/ Invalid \/ Fixed
      BY <2>1, <2>3, <2>8, PassEffect, ScriptEffect, FixEffect DEF Validated, Invalid, Fixed
    <2>9. CASE \/ VerifyBranch \/ Classify \/ Analyze \/ CheckFix \/ Prepare \/ Park
               \/ Unreadable \/ Publish \/ CasLost \/ TargetMoves \/ UNCHANGED vars
      BY <2>2, <2>9 DEF VerifyBranch, Classify, Analyze, CheckFix, Prepare, Park, Unreadable,
         Publish, CasLost, TargetMoves, vars, tree, Untouched
    <2>10. CASE Resolve \/ StartMerge \/ StartCommit \/ StartResolve \/ Hands
      BY <2>10 DEF Resolve, StartMerge, StartCommit, StartResolve, Hands, Begin
    <2>11. CASE ActorFails \/ Restart
      BY <2>4, <2>11 DEF ActorFails, Restart
    <2>12. CASE Stop
      BY <2>2, <2>4, <2>12 DEF Stop, Untouched, tree
    <2> QED
      BY <1>1, <2>5, <2>6, <2>7, <2>8, <2>9, <2>10, <2>11, <2>12 DEF MergeNext, MachineStep
  <1>2. MergeInv /\ [MergeNext]_vars => [Kept]_vars
    BY <1>1
  <1> QED
    BY <1>2, Invariant, PTL DEF MergeSpec, MergesAreNotThrownAway
-----------------------------------------------------------------------------
(* Markers                                                                  *)

\* While a merge runs, its tip carries no markers it did not have at dispatch,
\* and its resolver knows which files its own merge left in conflict.
Unsoiled ==
    ctx.kind = "merge" =>
        /\ at = "resolvingConflicts" => ctx.listed
        /\ at \notin {"idle", "aborting"} /\ head.soiled => ctx.soiled

NoSoil == head'.soiled => head.soiled

\* Only a resolver puts markers into a commit.
LEMMA CleanEffects ==
    ASSUME TreeOK,
           Untouched \/ StageAndCommit \/ MergeTarget \/ FixTurn \/ ScriptRuns
              \/ ScriptPasses
    PROVE  NoSoil
  <1>1. ASSUME NEW v \in BOOLEAN, NewTip(FALSE, v) PROVE NoSoil
    <2>1. PICK soiled \in {head.soiled \/ FALSE, (head.soiled /\ ~edits) \/ FALSE} :
              head' = [isMerge |-> owner # "none", validated |-> v, soiled |-> soiled]
      BY <1>1 DEF NewTip
    <2>2. head'.soiled = soiled
      BY <2>1
    <2> QED
      BY <2>1, <2>2, Zenon DEF NoSoil
  <1>2. CASE Untouched
    BY <1>2 DEF Untouched, tree, NoSoil
  <1>3. CASE StageAndCommit
    BY <1>1, <1>3 DEF StageAndCommit
  <1>4. CASE MergeTarget
    BY <1>2, <1>4 DEF MergeTarget, TreeOK, NoSoil
  <1>5. CASE FixTurn
    BY <1>1, <1>5 DEF FixTurn, NoSoil
  <1>6. CASE ScriptRuns
    BY <1>6 DEF ScriptRuns, NoSoil
  <1>7. CASE ScriptPasses
    BY <1>1, <1>7 DEF ScriptPasses, TreeOK, NoSoil
  <1> QED
    BY <1>2, <1>3, <1>4, <1>5, <1>6, <1>7

\* A transition after work that adds no markers.
LEMMA CleanMove ==
    ASSUME Unsoiled, NoSoil, at \notin {"idle", "aborting"},
           NEW s, NEW c \in Contexts, Move(s, c),
           c.kind = ctx.kind, c.soiled = ctx.soiled,
           s = "resolvingConflicts" /\ c.kind = "merge" => c.listed
    PROVE  Unsoiled'
  BY DEF Unsoiled, NoSoil, Move

\* A run that is over, or only cleans up, owes nothing.
LEMMA CleanEnd ==
    ASSUME at' \in {"idle", "aborting"}
    PROVE  Unsoiled'
  BY DEF Unsoiled

\* No step lets a merge go on with markers its resolver left.
LEMMA UnsoiledNext ==
    ASSUME MergeInv, Unsoiled, [MergeNext]_vars
    PROVE  Unsoiled'
  <1>1. TreeOK /\ ctx \in Contexts
    BY TypeParts DEF MergeInv, Rest
  <1>2. Fail => at' = "idle"
    BY DEF Fail, End, Record
  <1>3. ASSUME NEW status, End(status) PROVE Unsoiled'
    BY <1>3, CleanEnd DEF End, Record
  <1>4. ASSUME NEW s, MoveTo(s), NoSoil, at \notin {"idle", "aborting"},
               s = "resolvingConflicts" /\ ctx.kind = "merge" => ctx.listed
        PROVE  Unsoiled'
    BY <1>1, <1>4, CleanMove DEF MoveTo
  <1>a. CASE VerifyBranch
    BY <1>a, <1>1, <1>4, CleanEffects DEF VerifyBranch
  <1>b. CASE Classify \/ Commit
    <2>1. NoSoil
      BY <1>b, <1>1, CleanEffects DEF Classify, Commit
    <2>2. /\ [ctx EXCEPT !.opened = TRUE] \in Contexts
          /\ [ctx EXCEPT !.opened = TRUE].kind = ctx.kind
          /\ [ctx EXCEPT !.opened = TRUE].soiled = ctx.soiled
      BY <1>1 DEF Contexts
    <2>3. EnterMerging => Unsoiled'
      BY <1>b, <2>1, <2>2, CleanMove DEF Classify, Commit, EnterMerging
    <2> QED
      BY <1>b, <1>2, <1>4, <2>1, <2>3, CleanEnd DEF Classify, Commit
  <1>c. CASE MergeMain
    <2>1. NoSoil
      BY <1>c, <1>1, CleanEffects DEF MergeMain
    <2>2. /\ [ctx EXCEPT !.listed = TRUE] \in Contexts
          /\ [ctx EXCEPT !.listed = TRUE].kind = ctx.kind
          /\ [ctx EXCEPT !.listed = TRUE].soiled = ctx.soiled
          /\ [ctx EXCEPT !.listed = TRUE].listed
      BY <1>1 DEF Contexts
    <2>3. CASE MoveTo("validating")
      BY <1>c, <1>4, <2>1, <2>3 DEF MergeMain
    <2>4. ASSUME NEW s, Move(s, [ctx EXCEPT !.listed = TRUE]) PROVE Unsoiled'
      BY <1>c, <2>1, <2>2, <2>4, CleanMove DEF MergeMain
    <2> QED
      BY <1>c, <2>3, <2>4 DEF MergeMain
  <1>d. CASE Analyze \/ Park
    BY <1>d, <1>3 DEF Analyze, Park
  <1>e. CASE Resolve
    <2>1. CASE ClaimHolds /\ MoveTo("committingResolution")
      BY <1>e, <2>1 DEF Resolve, ClaimHolds, MoveTo, Move, Unsoiled
    <2> QED
      BY <1>e, <1>3, <2>1 DEF Resolve
  <1>f. CASE CommitResolution \/ Fixed \/ CheckFix \/ CommitFix
    <2>1. NoSoil /\ at \notin {"idle", "aborting"}
      BY <1>f, <1>1, CleanEffects DEF CommitResolution, Fixed, CheckFix, CommitFix
    <2> QED
      BY <1>f, <1>4, <2>1 DEF CommitResolution, Fixed, CheckFix, CommitFix
  <1>g. CASE Validated
    BY <1>g, <1>1, <1>3, <1>4, CleanEffects DEF Validated
  <1>h. CASE Invalid
    <2>1. /\ ctx'.kind = ctx.kind /\ ctx'.soiled = ctx.soiled /\ at' = "fixingValidation"
      BY <1>h, <1>1 DEF Invalid, Move, Contexts
    <2>2. NoSoil /\ at \notin {"idle", "aborting"}
      BY <1>h, <1>1, CleanEffects DEF Invalid
    <2> QED
      BY <2>1, <2>2 DEF Unsoiled, NoSoil
  <1>i. CASE Prepare \/ Publish
    BY <1>i, <1>1, <1>4, CleanEnd, CleanEffects DEF Prepare, Publish, Record
  <1>j. CASE CasLost
    <2>1. /\ NoSoil /\ at = "publishing"
          /\ [ctx EXCEPT !.attempt = @ + 1].kind = ctx.kind
          /\ [ctx EXCEPT !.attempt = @ + 1].soiled = ctx.soiled
      BY <1>j, <1>1 DEF CasLost, NoSoil, Contexts
    <2>2. CASE Move("preparing", [ctx EXCEPT !.attempt = @ + 1])
      BY <2>1, <2>2 DEF Move, Unsoiled, NoSoil
    <2> QED
      BY <1>j, <1>2, <1>4, <2>1, <2>2, CleanEnd DEF CasLost
  <1>k. CASE ActorFails \/ Unreadable \/ CleanUp
    BY <1>k, <1>2, CleanEnd DEF ActorFails, Unreadable, CleanUp
  <1>l. CASE Stop
    <2>1. CASE Untouched /\ Move(at, [ctx EXCEPT !.abort = TRUE])
      <3>1. /\ [ctx EXCEPT !.abort = TRUE].kind = ctx.kind
            /\ [ctx EXCEPT !.abort = TRUE].soiled = ctx.soiled
            /\ [ctx EXCEPT !.abort = TRUE].listed = ctx.listed
        BY <1>1 DEF Contexts
      <3> QED
        BY <2>1, <3>1 DEF Untouched, tree, Move, Unsoiled
    <2>2. CASE MoveTo("aborting")
      BY <2>2, CleanEnd DEF MoveTo, Move
    <2> QED
      BY <1>l, <1>2, <2>1, <2>2, CleanEnd DEF Stop
  <1>m. CASE Restart
    BY <1>m, CleanEnd DEF Restart
  <1>n. CASE StartMerge \/ StartCommit \/ StartResolve
    <2>1. PICK s \in {"verifyingBranch", "classifyingWorktree"}, c \in Contexts : Begin(s, c)
      <3>1. ASSUME NEW auto \in BOOLEAN, NEW keep \in BOOLEAN
            PROVE  /\ [Fresh("merge") EXCEPT !.autoResolve = auto, !.autoFix = auto,
                                             !.keep = keep] \in Contexts
                   /\ [Fresh("resolve-conflicts") EXCEPT !.listed = auto,
                                             !.keep = keep] \in Contexts
        BY FreshContext DEF Kinds, Contexts
      <3>2. (Resumes /\ last.listed) \in BOOLEAN /\ (Resumes /\ last.keep) \in BOOLEAN
        OBVIOUS
      <3>3. Fresh("commit") \in Contexts
        BY FreshContext DEF Kinds
      <3> QED
        BY <1>n, <3>1, <3>2, <3>3 DEF StartMerge, StartCommit, StartResolve
    <2>2. at' = s /\ head' = head /\ ctx'.soiled = head.soiled
      BY <1>1, <2>1 DEF Begin, Contexts, TreeOK
    <2> QED
      BY <2>1, <2>2 DEF Unsoiled
  <1>o. CASE TargetMoves \/ UNCHANGED vars
    BY <1>o DEF TargetMoves, vars, tree, Unsoiled
  <1>p. CASE Hands
    BY <1>p, CleanEnd DEF Hands
  <1> QED
    BY <1>a, <1>b, <1>c, <1>d, <1>e, <1>f, <1>g, <1>h, <1>i, <1>j, <1>k, <1>l,
       <1>m, <1>n, <1>o, <1>p DEF MergeNext, MachineStep

\* A merge that conflicted is never published with markers of its own
\* resolver's, staged or committed, whatever fixes, retries and stops follow.
THEOREM MarkersDoNotLand == MergeSpec => []ConflictsDoNotLand
  <1>1. MergeInit => Unsoiled
    BY DEF MergeInit, Unsoiled
  <1>2. MergeInv /\ Unsoiled /\ [MergeNext]_vars => Unsoiled'
    BY UnsoiledNext
  <1>3. Unsoiled => ConflictsDoNotLand
    BY DEF Unsoiled, ConflictsDoNotLand
  <1> QED
    BY <1>1, <1>2, <1>3, Invariant, PTL DEF MergeSpec

-----------------------------------------------------------------------------
(* What a retry knows of the merge it resumes                               *)

\* A run's moves leave the session and its latest job alone, and a run keeps
\* what it was asked for ...
GoesOn == /\ at' # "idle" /\ ctx'.kind = ctx.kind /\ ctx'.keep = ctx.keep
          /\ UNCHANGED <<last, session, halt>>

\* ... until its verdict reaches its job.
Settles == /\ at' = "idle"
           /\ last'.kind = ctx.kind /\ last'.keep = ctx.keep
           /\ \/ halt' = halt
              \/ ctx.kind = "merge" /\ halt' = IF ctx.keep THEN "keep" ELSE "finish"
           /\ session' = session \/ ~ctx.keep

\* Every step of a run is one of these two.
LEMMA RunGoesOnOrSettles ==
    ASSUME MergeInv, MachineStep \/ Stop
    PROVE  at # "idle" /\ (GoesOn \/ Settles)
  <1>1. at \in Invoked \cup {"idle", "aborting"} /\ ctx \in Contexts
    BY TypeParts DEF MergeInv, Rest
  <1>2. ASSUME NEW status, NEW c \in Contexts, Record(status, c),
               c.kind = ctx.kind, c.keep = ctx.keep, session' = session \/ ~ctx.keep
        PROVE  Settles
    BY <1>2 DEF Record, Settles
  <1>3. ASSUME NEW status, End(status) PROVE Settles
    BY <1>1, <1>2, <1>3 DEF End
  <1>4. Fail => Settles
    BY <1>3 DEF Fail
  <1>5. ASSUME NEW s, NEW c \in Contexts, Move(s, c), s # "idle",
               c.kind = ctx.kind, c.keep = ctx.keep
        PROVE  GoesOn
    BY <1>5 DEF Move, GoesOn
  <1>6. ASSUME NEW s, MoveTo(s), s # "idle" PROVE GoesOn
    BY <1>1, <1>5, <1>6 DEF MoveTo
  <1>7. EnterMerging => GoesOn
    BY <1>1 DEF EnterMerging, Move, GoesOn, Contexts
  <1>a. CASE VerifyBranch \/ Classify \/ Unreadable
    BY <1>4, <1>6, <1>7, <1>a DEF VerifyBranch, Classify, Unreadable
  <1>b. CASE Commit \/ MergeMain \/ Analyze
    <2>1. CASE Commit
      BY <1>6, <1>7, <2>1 DEF Commit
    <2>2. CASE MergeMain
      BY <1>1, <1>6, <2>2 DEF MergeMain, Move, GoesOn, Contexts
    <2>3. CASE Analyze
      BY <1>3, <2>3 DEF Analyze
    <2> QED
      BY <1>b, <2>1, <2>2, <2>3
  <1>c. CASE Resolve \/ CommitResolution
    BY <1>3, <1>6, <1>c DEF Resolve, CommitResolution
  <1>d. CASE Validated \/ Invalid
    <2>1. CASE Validated
      BY <1>3, <1>6, <2>1 DEF Validated
    <2>2. CASE Invalid
      BY <1>1, <2>2 DEF Invalid, Move, GoesOn, Contexts
    <2> QED
      BY <1>d, <2>1, <2>2
  <1>e. CASE Fixed \/ CheckFix \/ CommitFix
    BY <1>6, <1>e DEF Fixed, CheckFix, CommitFix
  <1>f. CASE Prepare
    <2>1. [ctx EXCEPT !.listed = TRUE] \in Contexts
      BY <1>1 DEF Contexts
    <2> QED
      BY <1>1, <1>2, <1>6, <1>f, <2>1 DEF Prepare, Contexts
  <1>g. CASE Publish
    BY <1>1, <1>2, <1>g DEF Publish
  <1>h. CASE Park
    BY <1>3, <1>h DEF Park
  <1>i. CASE CasLost
    BY <1>1, <1>4, <1>6, <1>i DEF CasLost, Move, GoesOn, Contexts
  <1>j. CASE ActorFails \/ CleanUp
    BY <1>4, <1>j DEF ActorFails, CleanUp, Invoked
  <1>k. CASE Stop
    <2>1. CASE at = "publishing"
      BY <1>1, <1>k, <2>1 DEF Stop, Move, GoesOn, Contexts
    <2> QED
      BY <1>4, <1>6, <1>k, <2>1 DEF Stop, Invoked
  <1> QED
    BY <1>a, <1>b, <1>c, <1>d, <1>e, <1>f, <1>g, <1>h, <1>i, <1>j, <1>k DEF MachineStep

\* What a job says of the session is passed on from a merge to its retries:
\* a merge that halted to keep the session open leaves a job that says so, and
\* so does each retry of it; a new merge is a new request.
Remembers ==
    /\ at # "idle" => session = "open" /\ (ctx.kind = "merge" => halt = "none")
    /\ halt = "keep" =>
         /\ last.kind # "commit" => last.keep
         /\ at # "idle" /\ ctx.kind = "resolve-conflicts" => ctx.keep
    /\ RetryKeepsSession

\* The job a retry looks up is the merge it resumes or a retry of it: in
\* memory no commit has taken its place, and it has not failed since with a
\* restart after that (git/route-handlers.ts:593).
FindsItsMerge == StartResolve /\ halt = "keep" => Resumes /\ last.kind # "commit"

LEMMA RemembersNext ==
    ASSUME MergeInv, Remembers, [MergeNext /\ FindsItsMerge]_vars
    PROVE  Remembers'
  <1>1. /\ at \in Invoked \cup {"idle", "aborting"} /\ ctx \in Contexts
        /\ last.keep \in BOOLEAN /\ session \in {"open", "finished"}
    BY TypeParts DEF MergeInv, Rest, LastOK
  <1>2. ctx.kind \in Kinds /\ ctx.keep \in BOOLEAN
    BY <1>1 DEF Contexts
  <1>3. CASE MachineStep \/ Stop
    <2>1. CASE GoesOn
      BY <1>3, <2>1, RunGoesOnOrSettles DEF GoesOn, Remembers, RetryKeepsSession
    <2>2. CASE Settles
      <3>1. at # "idle" /\ session = "open"
        BY <1>3, RunGoesOnOrSettles DEF Remembers
      <3>2. ctx.kind = "merge" => halt # "keep"
        BY <3>1 DEF Remembers
      <3>3. halt' = "keep" /\ ctx.kind # "commit" => ctx.keep
        BY <1>2, <2>2, <3>1, <3>2 DEF Settles, Remembers, Kinds
      <3> QED
        BY <1>2, <2>2, <3>1, <3>3 DEF Settles, Remembers, RetryKeepsSession
    <2> QED
      BY <1>3, <2>1, <2>2, RunGoesOnOrSettles
  <1>4. CASE Restart
    BY <1>1, <1>2, <1>4 DEF Restart, Remembers, RetryKeepsSession, Kinds
  <1>5. CASE StartMerge
    BY <1>1, <1>5 DEF StartMerge, Begin, Remembers, RetryKeepsSession
  <1>6. CASE StartCommit
    <2>1. ctx'.kind = "commit"
      BY <1>6 DEF StartCommit, Begin, Fresh
    <2> QED
      BY <1>1, <1>6, <2>1 DEF StartCommit, Begin, Remembers, RetryKeepsSession
  <1>7. CASE StartResolve
    <2>1. /\ ctx'.kind = "resolve-conflicts" /\ ctx'.keep = (Resumes /\ last.keep)
          /\ session = "open" /\ UNCHANGED <<last, session, halt>>
      BY <1>7 DEF StartResolve, Begin, Fresh
    <2>2. halt = "keep" => Resumes /\ last.kind # "commit"
      BY <1>7 DEF FindsItsMerge, StartResolve, Begin, vars
    <2> QED
      BY <2>1, <2>2 DEF Remembers, RetryKeepsSession
  <1>8. CASE TargetMoves \/ UNCHANGED vars
    BY <1>8 DEF TargetMoves, vars, Remembers, RetryKeepsSession
  <1>9. CASE Hands
    BY <1>9 DEF Hands, Remembers, RetryKeepsSession
  <1> QED
    BY <1>3, <1>4, <1>5, <1>6, <1>7, <1>8, <1>9 DEF MergeNext

\* As long as every retry finds the merge it resumes, it finishes the session
\* only if that merge would have. The look-up is therefore all that is wrong
\* when a retry does so anyway: the flag is lost nowhere else, at no crash,
\* stop, failure or further retry.
THEOREM RetriesKeepSession ==
    MergeSpec /\ [][FindsItsMerge]_vars => []RetryKeepsSession
  <1>1. MergeInit => Remembers
    BY DEF MergeInit, Remembers, RetryKeepsSession
  <1>2. MergeInv /\ Remembers /\ [MergeNext]_vars /\ [FindsItsMerge]_vars => Remembers'
    BY RemembersNext
  <1>3. Remembers => RetryKeepsSession
    BY DEF Remembers
  <1> QED
    BY <1>1, <1>2, <1>3, Invariant, PTL DEF MergeSpec

-----------------------------------------------------------------------------
(* Runs are finite, whatever agents, fixes, races and stops they meet       *)

\* The transitions that neither count anything nor end the run.
Forward ==
    {<<"verifyingBranch", "classifyingWorktree">>,
     <<"verifyingBranch", "resolvingConflicts">>,
     <<"classifyingWorktree", "committing">>,
     <<"classifyingWorktree", "mergingMain">>,
     <<"committing", "mergingMain">>, <<"committing", "validating">>,
     <<"mergingMain", "validating">>, <<"mergingMain", "resolvingConflicts">>,
     <<"mergingMain", "analyzingConflicts">>,
     <<"resolvingConflicts", "committingResolution">>,
     <<"committingResolution", "validating">>,
     <<"validating", "preparing">>, <<"revalidating", "preparing">>,
     <<"fixingValidation", "checkingFixChanges">>,
     <<"checkingFixChanges", "committingFix">>,
     <<"checkingFixChanges", "revalidating">>,
     <<"committingFix", "revalidating">>, <<"preparing", "publishing">>}

SameCounts == /\ ctx'.fixes = ctx.fixes /\ ctx'.attempt = ctx.attempt
              /\ ctx'.abort = ctx.abort

\* What a move of a run does: it ends or is stopped, goes forward, spends a
\* fix turn or a publish attempt, or records a stop while it publishes.
Advances ==
    \/ at # "idle" /\ at' = "idle"
    \/ at \in Invoked /\ at' = "aborting"
    \/ <<at, at'>> \in Forward /\ SameCounts
    \/ /\ at \in {"validating", "revalidating"} /\ at' = "fixingValidation"
       /\ ctx'.fixes = ctx.fixes + 1 /\ ctx'.attempt = ctx.attempt
    \/ /\ at = "publishing" /\ at' = "preparing"
       /\ ctx'.attempt = ctx.attempt + 1
    \/ /\ at = "publishing" /\ at' = "publishing"
       /\ ~ctx.abort /\ ctx'.abort /\ ctx'.attempt = ctx.attempt

\* The moves a run has left at most: three for each publish attempt, four for
\* each fix turn, one for each state on the way to the first validation.
Retries == 3 * (MaxCasAttempts - ctx.attempt)
Rounds  == 4 * (MaxFixAttempts - ctx.fixes)
ToLand  == 3 * MaxCasAttempts + 2
ToFix   == 4 * MaxFixAttempts + ToLand

MovesLeft ==
    CASE at = "idle"                 -> 0
      [] at = "aborting"             -> 1
      [] at = "publishing"           -> Retries + (IF ctx.abort THEN 2 ELSE 3)
      [] at = "preparing"            -> Retries + 4
      [] at = "revalidating"         -> ToLand + Rounds
      [] at = "committingFix"        -> ToLand + Rounds + 1
      [] at = "checkingFixChanges"   -> ToLand + Rounds + 2
      [] at = "fixingValidation"     -> ToLand + Rounds + 3
      [] at = "validating"           -> ToFix
      [] at = "committingResolution" -> ToFix + 1
      [] at = "resolvingConflicts"   -> ToFix + 2
      [] at = "analyzingConflicts"   -> ToFix + 2
      [] at = "mergingMain"          -> ToFix + 3
      [] at = "committing"           -> ToFix + 4
      [] at = "classifyingWorktree"  -> ToFix + 5
      [] OTHER                       -> ToFix + 6

MaxMoves == 3 * MaxCasAttempts + 4 * MaxFixAttempts + 8

\* Every state the machine can be in has a bounded number of moves left.
LEMMA MovesBounded ==
    ASSUME MergeInv
    PROVE  MovesLeft \in 0..MaxMoves /\ (MovesLeft = 0 <=> at = "idle")
  <1>1. at \in Invoked \cup {"idle", "aborting"} /\ ctx.abort \in BOOLEAN
    BY TypeParts DEF MergeInv, Rest, Contexts
  <1>2. /\ ctx.attempt \in 1..MaxCasAttempts /\ ctx.fixes \in 0..MaxFixAttempts
        /\ MaxCasAttempts \in Nat \ {0} /\ MaxFixAttempts \in Nat \ {0}
    BY TypeParts, MergeBounds DEF MergeInv, Rest, Contexts
  <1>3. CASE at = "idle"
    <2>1. MovesLeft = 0
      BY <1>3 DEF MovesLeft
    <2> QED
      BY <1>2, <1>3, <2>1 DEF MaxMoves
  <1>4. ASSUME NEW n \in 1..MaxMoves, MovesLeft = n, at # "idle"
        PROVE  MovesLeft \in 0..MaxMoves /\ (MovesLeft = 0 <=> at = "idle")
    BY <1>2, <1>4 DEF MaxMoves
  <1>5. CASE at \in {"aborting", "publishing", "preparing"}
    <2>1. MovesLeft = IF at = "aborting" THEN 1
                      ELSE IF at = "preparing" THEN Retries + 4
                      ELSE Retries + (IF ctx.abort THEN 2 ELSE 3)
      BY <1>5 DEF MovesLeft
    <2> QED
      BY <1>1, <1>2, <1>4, <1>5, <2>1 DEF MaxMoves, Retries
  <1>6. CASE at \in {"revalidating", "committingFix", "checkingFixChanges",
                     "fixingValidation"}
    <2>1. \E n \in 0..3 : MovesLeft = ToLand + Rounds + n
      <3>1. ToLand + Rounds + 0 = ToLand + Rounds
        BY <1>2 DEF ToLand, Rounds
      <3>2. at = "revalidating" => MovesLeft = ToLand + Rounds
        BY DEF MovesLeft
      <3>3. at = "committingFix" => MovesLeft = ToLand + Rounds + 1
        BY DEF MovesLeft
      <3>4. at = "checkingFixChanges" => MovesLeft = ToLand + Rounds + 2
        BY DEF MovesLeft
      <3>5. at = "fixingValidation" => MovesLeft = ToLand + Rounds + 3
        BY DEF MovesLeft
      <3> QED
        BY <1>6, <3>1, <3>2, <3>3, <3>4, <3>5
    <2> QED
      BY <1>2, <1>4, <1>6, <2>1 DEF MaxMoves, Rounds, ToLand
  <1>7. CASE at \in Early
    <2>1. \E n \in 0..6 : MovesLeft = ToFix + n
      <3>1. ToFix + 0 = ToFix
        BY <1>2 DEF ToFix, ToLand
      <3>2. \/ MovesLeft = ToFix     \/ MovesLeft = ToFix + 1
            \/ MovesLeft = ToFix + 2 \/ MovesLeft = ToFix + 3
            \/ MovesLeft = ToFix + 4 \/ MovesLeft = ToFix + 5
            \/ MovesLeft = ToFix + 6
        BY <1>7 DEF MovesLeft, Early
      <3> QED
        BY <3>1, <3>2
    <2> QED
      BY <1>2, <1>4, <1>7, <2>1 DEF MaxMoves, ToLand, ToFix, Early
  <1> QED
    BY <1>1, <1>3, <1>5, <1>6, <1>7 DEF Invoked, Early

\* The machines' state charts: every step of a machine and every stop is one
\* of these moves (workflows/merge/machine.ts, workflows/commit/machine.ts).
LEMMA MachineAdvances ==
    ASSUME MergeInv, MachineStep \/ Stop
    PROVE  Advances
  <1>1. at \in Invoked \cup {"idle", "aborting"} /\ ctx \in Contexts
    BY TypeParts DEF MergeInv, Rest
  <1>2. Fail /\ at # "idle" => Advances
    BY DEF Fail, End, Record, Advances
  <1>3. ASSUME NEW s, MoveTo(s), <<at, s>> \in Forward PROVE Advances
    BY <1>3 DEF MoveTo, Move, Advances, SameCounts
  <1>4. CASE VerifyBranch \/ Classify \/ Unreadable
    BY <1>1, <1>2, <1>3, <1>4 DEF VerifyBranch, Classify, Unreadable, EnterMerging,
       Move, Advances, SameCounts, Contexts, Forward
  <1>5. CASE Commit \/ MergeMain \/ Analyze
    BY <1>1, <1>3, <1>5 DEF Commit, MergeMain, Analyze, End, Record, EnterMerging,
       Move, Advances, SameCounts, Contexts, Forward
  <1>6. CASE Resolve \/ CommitResolution
    BY <1>3, <1>6 DEF Resolve, CommitResolution, End, Record, Advances, Forward
  <1>7. CASE Validated \/ Invalid
    BY <1>1, <1>3, <1>7 DEF Validated, Invalid, End, Record, Move, Advances,
       Contexts, Forward
  <1>8. CASE Fixed \/ CheckFix \/ CommitFix
    BY <1>3, <1>8 DEF Fixed, CheckFix, CommitFix, Forward
  <1>9. CASE Prepare \/ Publish \/ Park
    BY <1>3, <1>9 DEF Prepare, Publish, Park, End, Record, Advances, Forward
  <1>10. CASE CasLost
    BY <1>1, <1>2, <1>10 DEF CasLost, MoveTo, Move, Advances, Contexts, Invoked
  <1>11. CASE ActorFails \/ CleanUp
    BY <1>2, <1>11 DEF ActorFails, CleanUp, Invoked
  <1>12. CASE Stop
    BY <1>1, <1>2, <1>12 DEF Stop, MoveTo, Move, Advances, Contexts, Invoked
  <1> QED
    BY <1>4, <1>5, <1>6, <1>7, <1>8, <1>9, <1>10, <1>11, <1>12 DEF MachineStep

\* Each of these moves leaves fewer to make.
LEMMA AdvancesDescend ==
    ASSUME MergeInv, MergeInv', Advances
    PROVE  MovesLeft' \in Int /\ MovesLeft' < MovesLeft
  <1>1. /\ at \in Invoked \cup {"idle", "aborting"} /\ ctx.abort \in BOOLEAN
        /\ ctx.attempt \in 1..MaxCasAttempts /\ ctx.fixes \in 0..MaxFixAttempts
        /\ at = "validating" => ctx.fixes = 0
    BY TypeParts DEF MergeInv, Rest, Contexts, Unspent, Early
  <1>2. /\ ctx'.attempt \in 1..MaxCasAttempts /\ ctx'.fixes \in 0..MaxFixAttempts
        /\ ctx'.abort \in BOOLEAN
    BY TypeParts DEF MergeInv, Rest, Contexts
  <1>3. MaxCasAttempts \in Nat \ {0} /\ MaxFixAttempts \in Nat \ {0}
    BY MergeBounds
  <1>4. MovesLeft \in Nat /\ (MovesLeft = 0 <=> at = "idle")
    BY MovesBounded DEF MaxMoves
  <1>5. CASE at # "idle" /\ at' = "idle"
    <2>1. MovesLeft' = 0
      BY <1>5 DEF MovesLeft
    <2> QED
      BY <1>4, <1>5, <2>1
  <1>6. CASE at \in Invoked /\ at' = "aborting"
    <2>1. MovesLeft' = 1
      BY <1>6 DEF MovesLeft
    <2>2. MovesLeft > 1
      BY <1>1, <1>3, <1>6 DEF MovesLeft, Invoked, Retries, Rounds, ToLand, ToFix
    <2> QED
      BY <2>1, <2>2
  <1>7. CASE <<at, at'>> \in Forward /\ SameCounts
    BY <1>1, <1>2, <1>3, <1>7
    DEF MovesLeft, Forward, SameCounts, Retries, Rounds, ToLand, ToFix
  <1>8. CASE /\ at \in {"validating", "revalidating"} /\ at' = "fixingValidation"
             /\ ctx'.fixes = ctx.fixes + 1 /\ ctx'.attempt = ctx.attempt
    BY <1>1, <1>2, <1>3, <1>8 DEF MovesLeft, Rounds, ToLand, ToFix
  <1>9. CASE /\ at = "publishing" /\ at' = "preparing"
             /\ ctx'.attempt = ctx.attempt + 1
    BY <1>1, <1>2, <1>3, <1>9 DEF MovesLeft, Retries
  <1>10. CASE /\ at = "publishing" /\ at' = "publishing"
              /\ ~ctx.abort /\ ctx'.abort /\ ctx'.attempt = ctx.attempt
    BY <1>1, <1>2, <1>3, <1>10 DEF MovesLeft, Retries
  <1> QED
    BY <1>5, <1>6, <1>7, <1>8, <1>9, <1>10 DEF Advances

\* Nobody but its own machine, a stop or a crash changes where a run is.
LEMMA OthersWait ==
    ASSUME MergeInv, [MergeNext]_vars, ~(MachineStep \/ Stop), at # "idle"
    PROVE  MovesLeft' = MovesLeft \/ at' = "idle"
  <1>1. CASE Restart
    BY <1>1 DEF Restart
  <1>2. CASE TargetMoves \/ UNCHANGED vars
    BY <1>2 DEF TargetMoves, vars, MovesLeft, Retries, Rounds
  <1> QED
    BY <1>1, <1>2 DEF MergeNext, StartMerge, StartCommit, StartResolve, Begin, Hands

\* Moves are used up, never regained.
RunsShrink ==
    [][/\ MachineStep \/ Stop => MovesLeft' < MovesLeft
       /\ at # "idle" => MovesLeft' <= MovesLeft]_vars

\* A run is over after at most 3 * MaxCasAttempts + 4 * MaxFixAttempts + 8
\* moves, whatever agents and commands do and however often the target moves:
\* every move of its machine and every stop leaves fewer to make, and no step
\* of anybody else leaves more (machine.ts casAttempt, states.ts fixAttempt).
THEOREM RunsAreBounded ==
    MergeSpec => [](MovesLeft \in 0..MaxMoves) /\ RunsShrink
  <1>1. MergeInv => MovesLeft \in 0..MaxMoves
    BY MovesBounded
  <1>2. ASSUME MergeInv, MergeInv', [MergeNext]_vars
        PROVE  [/\ MachineStep \/ Stop => MovesLeft' < MovesLeft
                /\ at # "idle" => MovesLeft' <= MovesLeft]_vars
    <2>1. MachineStep \/ Stop => MovesLeft' \in Int /\ MovesLeft' < MovesLeft
      BY <1>2, MachineAdvances, AdvancesDescend
    <2>2. MovesLeft \in Nat
      BY <1>2, MovesBounded DEF MaxMoves
    <2>3. at' = "idle" => MovesLeft' = 0
      BY DEF MovesLeft
    <2>4. at # "idle" => MovesLeft' <= MovesLeft
      BY <1>2, <2>1, <2>2, <2>3, OthersWait
    <2> QED
      BY <2>1, <2>4
  <1> QED
    BY <1>1, <1>2, Invariant, PTL DEF MergeSpec, RunsShrink
=============================================================================
