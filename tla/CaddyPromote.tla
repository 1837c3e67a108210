----------------------------- MODULE CaddyPromote -----------------------------
(***************************************************************************)
(* Publishing the Caddy image of hermes-1: hermes-caddy-inputs.py decides  *)
(* which pushes to main build one and whether an image is what its         *)
(* Dockerfile pins, hermes-caddy-promote.sh whether it becomes "candidate".*)
(* The scope jobs of several pushes run beside one another; publishers     *)
(* share a concurrency group of the workflow, which runs one, keeps the    *)
(* newest that asked waiting and cancels the one that waited before it.    *)
(* main moves on at any time, jobs fail, and a job is killed when its time *)
(* is up, also between writing the tag and reading it back.                *)
(*                                                                         *)
(* A commit of main is the version of the image inputs (PUBLISH_INPUTS)    *)
(* that it has: the releases its two FROM lines pin and the plugin's.  A   *)
(* report of an image is what qualification extracts from it; a build that *)
(* is not what was pinned has an "other" value in one field.               *)
(***************************************************************************)
EXTENDS Integers, Sequences, FiniteSets

CONSTANTS
    InputVersions,
    MaxCommits, MaxRuns \* bounds

ASSUME CaddyAssumption ==
    /\ InputVersions \subseteq [builder : STRING, runtime : STRING, plugin : STRING]
    /\ MaxCommits \in Nat \ {0} /\ MaxRuns \in Nat

VARIABLES
    branch,     \* main: the inputs of its commits
    publishers, \* workflow runs in the order they were triggered
    candidate,  \* the image the tag names, and when its inputs were last main's
    flagged     \* history: a failure or warning since the inputs last changed
caddyVars == <<branch, publishers, candidate, flagged>>

Inputs(commit) == branch[commit]
Newest == Len(branch)
Runs == DOMAIN publishers
Holders == {r \in Runs : publishers[r].stage \in {"building", "built", "qualified", "matching"}}

\* expected: one release for both stages.
OneRelease(pins) == pins.builder = pins.runtime
\* What the report of an image of these pins says when nothing else got into it.
Pinned(pins) ==
    [replaced |-> "no", core |-> pins.builder, plugin |-> pins.plugin, compiler |-> "gc", cli |-> pins.builder,
     modules |-> "cloudflare", builder |-> pins.builder, runtime |-> pins.runtime, platform |-> "amd64",
     served |-> pins.runtime, go |-> "builder"]

CaddyInit ==
    /\ \E v \in InputVersions :
          OneRelease(v) /\ branch = <<v>> /\ candidate = [inputs |-> v, report |-> Pinned(v), seen |-> 1]
    /\ publishers = <<>> /\ flagged = FALSE

Goes(r, stage) == publishers' = [publishers EXCEPT ![r].stage = stage]
Ends(r, stage) == publishers' = [publishers EXCEPT ![r].stage = stage, ![r].report = <<>>]
PromotionFails(r) == Ends(r, "failed") /\ flagged' = TRUE /\ UNCHANGED <<branch, candidate>>
-----------------------------------------------------------------------------
Triggered(commit, before, asked) ==
    Append(publishers, [commit |-> commit, before |-> before, asked |-> asked, stage |-> "scope",
                        report |-> <<>>, seen |-> 0])
\* A push of one commit.
Push ==
    /\ Newest < MaxCommits /\ Len(publishers) < MaxRuns
    /\ \E v \in InputVersions :
          /\ branch' = Append(branch, v)
          /\ flagged' = (flagged /\ v = Inputs(Newest))
    /\ publishers' = Triggered(Newest + 1, Newest, FALSE)
    /\ UNCHANGED candidate
\* workflow_dispatch of main.
Dispatch ==
    /\ Len(publishers) < MaxRuns
    /\ publishers' = Triggered(Newest, Newest, TRUE)
    /\ UNCHANGED <<branch, candidate, flagged>>

\* scope --publish; the history of the commit before may be missing: "Missing history ...
\* selects qualification."
Selected(run, known) ==
    run.asked \/ ~known \/ Inputs(run.before) # Inputs(run.commit)

\* A selected publisher joins the group and takes the waiting place.
Scope(r) ==
    /\ publishers[r].stage = "scope"
    /\ \E known \in BOOLEAN :
          publishers' = IF Selected(publishers[r], known)
                        THEN [p \in Runs |-> IF p = r THEN [publishers[p] EXCEPT !.stage = "waiting"]
                              ELSE IF publishers[p].stage = "waiting" THEN [publishers[p] EXCEPT !.stage = "cancelled"]
                              ELSE publishers[p]]
                        ELSE [publishers EXCEPT ![r].stage = "unselected"]
    /\ UNCHANGED <<branch, candidate, flagged>>

GroupFree == Holders = {}
StartPromotion(r) ==
    /\ publishers[r].stage = "waiting" /\ GroupFree
    /\ Goes(r, "building")
    /\ UNCHANGED <<branch, candidate, flagged>>

\* The build of this commit, pushed under a name of its own.
BuildImage(r) ==
    /\ publishers[r].stage = "building"
    /\ LET pins == Inputs(publishers[r].commit)
       IN \E report \in {Pinned(pins)} \cup {[Pinned(pins) EXCEPT ![field] = "other"] : field \in DOMAIN Pinned(pins)} :
             publishers' = [publishers EXCEPT ![r].stage = "built", ![r].report = report]
    /\ UNCHANGED <<branch, candidate, flagged>>

\* verify_artifact, a check for each line of the report.
LinkedAsPinned(pins, report) ==
    report.core = pins.builder /\ report.plugin = pins.plugin /\ report.compiler = "gc"

\* Mutant: the versions of the builder and of the runtime are not compared.
SameCommand(pins, report) ==
    /\ LinkedAsPinned(pins, report) /\ report.replaced = "no" /\ report.cli = pins.builder
    /\ report.modules = "cloudflare" /\ report.platform = "amd64" /\ report.go = "builder"
AsPinned(pins, report) ==
    /\ LinkedAsPinned(pins, report) /\ report.replaced = "no" /\ report.cli = pins.builder
    /\ report.modules = "cloudflare" /\ report.platform = "amd64" /\ report.go = "builder"
    /\ report.builder = pins.builder /\ report.runtime = pins.builder /\ report.served = pins.builder
Qualify(r) ==
    /\ publishers[r].stage = "built"
    /\ IF OneRelease(Inputs(publishers[r].commit)) /\ AsPinned(Inputs(publishers[r].commit), publishers[r].report)
       THEN Goes(r, "qualified") /\ UNCHANGED <<branch, candidate, flagged>>
       ELSE PromotionFails(r)

\* The fetch of main, and the comparison of the image inputs alone.
Compare(r) ==
    /\ publishers[r].stage = "qualified"
    /\ IF Inputs(publishers[r].commit) = Inputs(Newest)
       THEN /\ publishers' = [publishers EXCEPT ![r].stage = "matching", ![r].seen = Newest]
            /\ UNCHANGED flagged
       ELSE Ends(r, "warned") /\ flagged' = TRUE
    /\ UNCHANGED <<branch, candidate>>

\* imagetools create, and the read-back, which may yet fail.
Promote(r) ==
    /\ publishers[r].stage = "matching"
    /\ candidate' = [inputs |-> Inputs(publishers[r].commit), report |-> publishers[r].report,
                     seen |-> publishers[r].seen]
    /\ \/ Ends(r, "promoted") /\ UNCHANGED flagged
       \/ Ends(r, "failed") /\ flagged' = TRUE
    /\ UNCHANGED branch

\* A step fails, or the job has had its 30 minutes.
JobFails(r) == r \in Holders /\ PromotionFails(r)

CaddyNext ==
    \/ Push \/ Dispatch
    \/ \E r \in Runs : \/ Scope(r) \/ StartPromotion(r) \/ BuildImage(r) \/ Qualify(r) \/ Compare(r)
                       \/ Promote(r) \/ JobFails(r)
CaddySpec == CaddyInit /\ [][CaddyNext]_caddyVars
-----------------------------------------------------------------------------
(* Properties.                                                             *)

CaddyTypeOK ==
    /\ branch \in Seq(InputVersions) /\ Newest \in 1 .. MaxCommits /\ Len(publishers) <= MaxRuns
    /\ \A r \in Runs : /\ publishers[r].commit \in 1 .. Newest
                       /\ publishers[r].seen \in 0 .. Newest
    /\ Cardinality(Holders) <= 1 /\ flagged \in BOOLEAN
    /\ Cardinality({r \in Runs : publishers[r].stage = "waiting"}) <= 1

\* A candidate is what the Dockerfile of its commit pins, in every line of its report.
CandidateQualified == OneRelease(candidate.inputs) /\ candidate.report = Pinned(candidate.inputs)

\* "GitHub job ordering is not dispatch ordering": in whatever order publishers are
\* triggered, scoped, queued and killed, and wherever main moves between the comparison
\* and the tag, the tag never goes from inputs main had later to inputs it had earlier.
NeverBackwards == [][candidate'.seen >= candidate.seen]_candidate

\* "If no newer publisher completes, run Hermes Caddy Image": once nothing runs any
\* more, a candidate that is not main's inputs has been announced by a failure or a
\* warning since they changed; a cancelled publisher announces nothing, and none is
\* ever the last word.
StaleIsFlagged ==
    (\A r \in Runs : publishers[r].stage \in {"unselected", "cancelled", "failed", "warned", "promoted"}) =>
       candidate.inputs = Inputs(Newest) \/ flagged

\* What candidate names was qualified as it is, and a tag that stays behind main is never
\* left there in silence.
PromotionSafe == CaddyTypeOK /\ CandidateQualified /\ StaleIsFlagged
=============================================================================
