---------------------------- MODULE CeilingPublish ----------------------------
(***************************************************************************)
(* scripts/ci/publish-kanidm-version-ceiling.sh: the pull request that     *)
(* keeps the Renovate ceiling of kanidm/server with the pinned kaniop.     *)
(*                                                                         *)
(* A run reads main, the pull request and the branch one after the other,  *)
(* decides, pushes under a lease and opens the pull request.  People push  *)
(* to the branch, delete it, close or merge the pull request and move main *)
(* between any two of these, and the run may be cut off anywhere.  The     *)
(* workflow runs one at a time.                                            *)
(*                                                                         *)
(* Of .renovaterc.json5 the model keeps the managed ceiling and "rest";    *)
(* "outside" says that a commit changes another file.  Merging squashes.   *)
(***************************************************************************)
EXTENDS Integers, Sequences, FiniteSets

CONSTANTS
    Pins,      \* kaniop releases that main may pin
    Ceiling,   \* the ceiling that each of them asks for
    Rests,     \* what else .renovaterc.json5 may say
    None,
    MaxMain,   \* bounds: commits of main, commits after which others stop, and runs
    MaxWork,
    MaxPublishes

Ceilings == {Ceiling[p] : p \in Pins}

ASSUME PublishAssumption ==
    /\ Ceiling \in [Pins -> Ceilings] /\ Pins # {} /\ Rests # {}
    /\ MaxMain \in Nat \ {0} /\ MaxWork \in Nat /\ MaxPublishes \in Nat \ {0}

VARIABLES
    trunk,        \* main: its commits, [pin, ceiling, rest]
    syncHead,     \* the head of chore/kanidm-ceiling-sync, or None
    prOpen,       \* its pull request is open
    prShown,      \* the head that GitHub shows for it; it may lag
    publishStep,  \* of the run, or how it ended
    mainHead, prHead, remoteHead,  \* main_head, pr_head, remote_head
    commits,      \* made on the branch so far
    publishes,    \* runs begun
    othersWork,   \* history: commits of others that hold more than a ceiling
    discarded,    \* history: those that a push replaced
    touched       \* history: somebody else acted since the run began

publishVars == <<trunk, syncHead, prOpen, prShown, publishStep, mainHead, prHead, remoteHead,
                 commits, publishes, othersWork, discarded, touched>>
seenVars == <<mainHead, prHead, remoteHead>>
remote == <<trunk, syncHead, prOpen, prShown>>

-----------------------------------------------------------------------------
Commits == [id : Nat, base : Nat \ {0}, ceiling : Ceilings, rest : Rests, outside : BOOLEAN]
MainContents == [pin : Pins, ceiling : Ceilings, rest : Rests]

ASSUME NoneAssumption == None \notin Commits

Wanted(i) == Ceiling[trunk[i].pin]
InSync(i) == trunk[i].ceiling = Wanted(i)

\* What the worktree on commit i of main comes to: a commit on it, or itself.
Synced(i) ==
    [id |-> IF InSync(i) THEN 0 ELSE commits + 1, base |-> i,
     ceiling |-> Wanted(i), rest |-> trunk[i].rest, outside |-> FALSE]

\* branch_base: a branch that was begun on a later main meets it at main_head itself.
MergeBase(c) == IF c.base <= mainHead THEN c.base ELSE mainHead
OtherFiles(c) == c.outside \/ trunk[c.base].pin # trunk[MergeBase(c)].pin
BeyondCeiling(c) == c.rest # trunk[MergeBase(c)].rest
SameFile(c, i) == c.ceiling = Wanted(i) /\ c.rest = trunk[i].rest

\* Mutant: the push is forced without a lease.
Forced(seen) == TRUE
LeaseHolds(seen) == syncHead = seen

PublishOver == {"idle", "done", "nothing", "refused", "failed"}

-----------------------------------------------------------------------------
(* The run.                                                                *)

Begin ==
    /\ publishStep \in PublishOver /\ publishes < MaxPublishes
    /\ publishStep' = "main" /\ publishes' = publishes + 1 /\ touched' = FALSE
    /\ mainHead' = 0 /\ prHead' = None /\ remoteHead' = None
    /\ UNCHANGED <<remote, commits, othersWork, discarded>>

FetchMain ==
    /\ publishStep = "main"
    /\ mainHead' = Len(trunk) /\ publishStep' = "pr"
    /\ UNCHANGED <<remote, prHead, remoteHead, commits, publishes, othersWork, discarded, touched>>

ListPr ==
    /\ publishStep = "pr"
    /\ prHead' = IF prOpen THEN prShown ELSE None
    /\ publishStep' = "head"
    /\ UNCHANGED <<remote, mainHead, remoteHead, commits, publishes, othersWork, discarded, touched>>

\* "sync PR head and remote branch disagree"
LsRemote ==
    /\ publishStep = "head"
    /\ remoteHead' = syncHead
    /\ publishStep' = IF prHead # None /\ prHead # syncHead THEN "failed"
               ELSE IF syncHead = None THEN "prepare" ELSE "branch"
    /\ UNCHANGED <<remote, mainHead, prHead, commits, publishes, othersWork, discarded, touched>>

FetchBranch ==
    /\ publishStep = "branch"
    /\ publishStep' = IF syncHead # remoteHead THEN "failed" ELSE IF OtherFiles(remoteHead) THEN "refused" ELSE "prepare"
    /\ UNCHANGED <<remote, seenVars, commits, publishes, othersWork, discarded, touched>>

\* The worktree, the ceiling in it and in both sides of the branch, and what follows.
CompareSides ==
    /\ publishStep = "prepare"
    /\ publishStep' = IF remoteHead # None /\ BeyondCeiling(remoteHead) THEN "refused"
               ELSE IF prHead = None /\ InSync(mainHead) THEN "nothing"
               ELSE IF remoteHead # None /\ SameFile(remoteHead, mainHead) THEN "create" ELSE "push"
    /\ UNCHANGED <<remote, seenVars, commits, publishes, othersWork, discarded, touched>>

\* What a push replaces of others' work.  A branch begun on a later main than the run read
\* may undo what main changed since, which the run cannot tell from no change.
Replaced == {id \in othersWork : syncHead # None /\ syncHead.id = id /\ syncHead.base <= mainHead}

\* The push may fail on its way, or its answer may.
PushBranch ==
    /\ publishStep = "push"
    /\ \/ /\ LeaseHolds(remoteHead)
          /\ syncHead' = Synced(mainHead) /\ commits' = IF syncHead'.id = 0 THEN commits ELSE syncHead'.id
          /\ discarded' = discarded \cup Replaced
          /\ publishStep' \in {"create", "failed"}
       \/ publishStep' = "failed" /\ UNCHANGED <<syncHead, commits, discarded>>
    /\ UNCHANGED <<trunk, prOpen, prShown, seenVars, publishes, othersWork, touched>>

\* GitHub opens no second pull request, and none for a commit of main.
CreatePr ==
    /\ publishStep = "create"
    /\ IF prHead # None THEN publishStep' = "done" /\ UNCHANGED <<prOpen, prShown>>
       ELSE \/ /\ ~prOpen /\ syncHead # None /\ syncHead.id # 0
               /\ prOpen' = TRUE /\ prShown' = syncHead
               /\ publishStep' \in {"done", "failed"}
            \/ publishStep' = "failed" /\ UNCHANGED <<prOpen, prShown>>
    /\ UNCHANGED <<trunk, syncHead, seenVars, commits, publishes, othersWork, discarded, touched>>

\* A download, a parse or a request fails, the job is cancelled or its machine is gone.
CutOff ==
    /\ publishStep \notin PublishOver
    /\ publishStep' = "failed"
    /\ UNCHANGED <<remote, seenVars, commits, publishes, othersWork, discarded, touched>>

-----------------------------------------------------------------------------
(* GitHub and the others.                                                  *)

Shows ==
    /\ prOpen /\ prShown # syncHead /\ syncHead # None
    /\ prShown' = syncHead
    /\ UNCHANGED <<trunk, syncHead, prOpen, publishStep, seenVars, commits, publishes, othersWork, discarded, touched>>

\* A pull request without commits of its own is closed.
ClosesEmpty ==
    /\ prOpen /\ syncHead # None /\ syncHead.id = 0
    /\ prOpen' = FALSE /\ prShown' = None /\ touched' = TRUE
    /\ UNCHANGED <<trunk, syncHead, publishStep, seenVars, commits, publishes, othersWork, discarded>>

MainMoves ==
    /\ Len(trunk) < MaxMain
    /\ \E next \in MainContents : next # trunk[Len(trunk)] /\ trunk' = Append(trunk, next)
    /\ touched' = TRUE
    /\ UNCHANGED <<syncHead, prOpen, prShown, publishStep, seenVars, commits, publishes, othersWork, discarded>>

MergesPr ==
    /\ prOpen /\ syncHead # None /\ syncHead.id # 0 /\ Len(trunk) < MaxMain
    /\ trunk' = Append(trunk, [trunk[Len(trunk)] EXCEPT !.ceiling = syncHead.ceiling,
                                 !.rest = IF syncHead.rest = trunk[syncHead.base].rest THEN @ ELSE syncHead.rest])
    /\ prOpen' = FALSE /\ prShown' = None /\ touched' = TRUE
    /\ syncHead' \in {syncHead, None}
    /\ UNCHANGED <<publishStep, seenVars, commits, publishes, othersWork, discarded>>

ClosesPr ==
    /\ prOpen
    /\ prOpen' = FALSE /\ prShown' = None /\ touched' = TRUE
    /\ UNCHANGED <<trunk, syncHead, publishStep, seenVars, commits, publishes, othersWork, discarded>>

\* Somebody commits to the branch, or starts it from main: a ceiling, or work of their own
\* that stays in what is committed upon it.
Parent == IF syncHead = None THEN [id |-> 0, base |-> Len(trunk), ceiling |-> trunk[Len(trunk)].ceiling,
                                 rest |-> trunk[Len(trunk)].rest, outside |-> FALSE] ELSE syncHead
Works(c) == c.outside # Parent.outside \/ c.rest # Parent.rest
SomeoneCommits ==
    /\ commits < MaxWork /\ commits' = commits + 1
    /\ syncHead' \in {[Parent EXCEPT !.id = commits', !.ceiling = x] : x \in Ceilings}
          \cup {[Parent EXCEPT !.id = commits', !.outside = TRUE]}
          \cup {[Parent EXCEPT !.id = commits', !.rest = r] : r \in Rests \ {trunk[Parent.base].rest}}
    /\ othersWork' = IF Works(syncHead') \/ Parent.id \in othersWork THEN othersWork \cup {commits'} ELSE othersWork
    /\ touched' = TRUE
    /\ UNCHANGED <<trunk, prOpen, prShown, publishStep, seenVars, publishes, discarded>>

OpensPr ==
    /\ ~prOpen /\ syncHead # None /\ syncHead.id # 0
    /\ prOpen' = TRUE /\ prShown' = syncHead /\ touched' = TRUE
    /\ UNCHANGED <<trunk, syncHead, publishStep, seenVars, commits, publishes, othersWork, discarded>>

\* A pull request closes with its branch.
Deletes ==
    /\ syncHead # None
    /\ syncHead' = None /\ prOpen' = FALSE /\ prShown' = None /\ touched' = TRUE
    /\ UNCHANGED <<trunk, publishStep, seenVars, commits, publishes, othersWork, discarded>>

-----------------------------------------------------------------------------
PublishInit ==
    /\ \E first \in MainContents : trunk = <<first>>
    /\ syncHead = None /\ prOpen = FALSE /\ prShown = None
    /\ publishStep = "idle" /\ mainHead = 0 /\ prHead = None /\ remoteHead = None
    /\ commits = 0 /\ publishes = 0 /\ othersWork = {} /\ discarded = {} /\ touched = FALSE

PublishNext ==
    \/ Begin \/ FetchMain \/ ListPr \/ LsRemote \/ FetchBranch \/ CompareSides \/ PushBranch \/ CreatePr \/ CutOff
    \/ Shows \/ ClosesEmpty \/ MainMoves \/ MergesPr \/ ClosesPr \/ SomeoneCommits \/ OpensPr \/ Deletes

PublishSpec == PublishInit /\ [][PublishNext]_publishVars

-----------------------------------------------------------------------------
(* Properties.                                                             *)

PublishTypeOK ==
    /\ \A i \in DOMAIN trunk : trunk[i] \in MainContents
    /\ {syncHead, prShown, prHead, remoteHead} \subseteq Commits \cup {None}
    /\ prOpen \in BOOLEAN /\ touched \in BOOLEAN
    /\ publishStep \in PublishOver \cup {"main", "pr", "head", "branch", "prepare", "push", "create"}
    /\ mainHead \in 0 .. Len(trunk) /\ publishes \in 0 .. MaxPublishes
    /\ othersWork \cup discarded \subseteq 1 .. commits

\* "Only replace the observed branch head, and refuse to discard edits outside the ceiling
\* managed by the sync": no push replaces a commit with somebody's work, whenever it came.
NothingDiscarded == discarded = {}

\* A run that nobody crossed and that ends well leaves main in sync or a branch whose file
\* differs from main's in the ceiling only, with its pull request unless the branch is a
\* commit of main, wherever earlier runs were cut off.
PublishedIsTrue ==
    ~touched =>
        /\ publishStep = "done" =>
              /\ syncHead # None /\ ~syncHead.outside /\ SameFile(syncHead, Len(trunk))
              /\ syncHead.id # 0 => prOpen
        /\ publishStep = "nothing" => InSync(Len(trunk)) /\ ~prOpen

\* "Preserve them for manual review": a run refuses only a branch with somebody's work, or
\* one that was begun on a later main than it read.
RefusesWorkOnly ==
    publishStep = "refused" => remoteHead # None /\ (remoteHead.id \in othersWork \/ remoteHead.base > mainHead)

\* Nothing is discarded, what is published is right and what is refused has its reason.
CeilingSafe == PublishTypeOK /\ NothingDiscarded /\ PublishedIsTrue /\ RefusesWorkOnly
=============================================================================
