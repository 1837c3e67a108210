---------------------------- MODULE OperatorProofs ----------------------------
(***************************************************************************)
(* What the programs that run beside the cluster promise, for every value  *)
(* of the constants: the Grafana MCP probe, the Renovate problem check,    *)
(* Athena's deploy hook, the publishers of the Kanidm ceiling and of the   *)
(* Caddy candidate, the rows of the flow collector, the checker of the     *)
(* firewall's delta, and the review of the inference pins with the launch  *)
(* of what it accepted, one section each.                                  *)
(***************************************************************************)
EXTENDS McpProbe, RenovateProblems, AthenaCertificate, CeilingPublish, CaddyPromote, FlowRows, PolicyDelta,
        ServingPins, FiniteSetTheorems, SequenceTheorems, TLAPS

-----------------------------------------------------------------------------
(* McpProbe.                                                               *)

\* Nothing has gone wrong before the cleanup, and each call that comes next has all the
\* earlier ones answered; the cleanup's own exception is not there before the cleanup.
CallInv ==
    /\ probe \in {"idle", "initialize"} => error = "none" /\ answers = 0
    /\ probe = "initialized" => error = "none" /\ answers = 1
    /\ probe = "call" => error = "none" /\ answers = 2
    /\ probe = "cleanup" => error # "cleanup" /\ (error = "none" => answers = 3)

\* A session that is open and that the probe does not know of has an answer lost on the
\* way, so the probe does not succeed.
KnownInv == session = "open" /\ error = "none" => sid

ProbeInv == ProbeSafe /\ CallInv /\ KnownInv

\* The exit code of the MCP probe: it succeeds only if every call was answered as asked and
\* the session it knew of is gone, and it fails with the first thing that went wrong.
THEOREM ProbeIsSafe == ProbeSpec => []ProbeSafe
<1>1. ProbeInit => ProbeInv
  <2> SUFFICES ASSUME ProbeInit PROVE ProbeInv
    OBVIOUS
  <2>1. sid \in BOOLEAN
    BY Zenon DEF ProbeInit
  <2> QED
    BY <2>1 DEF ProbeInit, ProbeInv, ProbeSafe, ProbeTypeOK, ProbeTellsTheTruth, CallInv, KnownInv
<1>2. ProbeInv /\ [ProbeNext]_probeVars => ProbeInv'
  <2> SUFFICES ASSUME ProbeInv, [ProbeNext]_probeVars PROVE ProbeInv'
    OBVIOUS
  <2> USE DEF ProbeInv, ProbeSafe, ProbeTypeOK, ProbeTellsTheTruth, CallInv, KnownInv
  <2>1. CASE StartProbe
    BY <2>1 DEF StartProbe
  <2>2. CASE Initialize
    <3>1. CASE /\ session' \in {"open", "stateless"} /\ sid' = (session' = "open")
               /\ \/ probe' = "initialized" /\ answers' = 1 /\ UNCHANGED error
                  \/ probe' = "cleanup" /\ error' = "refused" /\ UNCHANGED answers
               /\ UNCHANGED line
      <4>1. sid' \in BOOLEAN /\ (session' = "open" => sid')
        BY <3>1, Zenon
      <4>2. session' \in {"open", "stateless"} /\ UNCHANGED line
        BY <3>1
      <4>3. \/ probe' = "initialized" /\ answers' = 1 /\ UNCHANGED error
            \/ probe' = "cleanup" /\ error' = "refused" /\ UNCHANGED answers
        BY <3>1
      <4>4. probe = "initialize"
        BY <2>2 DEF Initialize
      <4> QED
        BY <4>1, <4>2, <4>3, <4>4
    <3>2. CASE /\ session' \in {"none", "open", "stateless"} /\ Raises
               /\ probe' = "cleanup" /\ UNCHANGED <<sid, answers>>
      BY <2>2, <3>2 DEF Raises, Losses, Initialize
    <3> QED
      BY <2>2, <3>1, <3>2, Zenon DEF Initialize
  <2>3. CASE Initialized
    BY <2>3 DEF Initialized, Raises, Losses
  <2>4. CASE Call
    BY <2>4 DEF Call, Raises, Losses
  <2>5. CASE SessionExpires
    BY <2>5 DEF SessionExpires
  <2>6. CASE Cleanup
    BY <2>6 DEF Cleanup, CleanupFails, Closed
  <2>7. CASE UNCHANGED probeVars
    BY <2>7 DEF probeVars
  <2> QED
    BY <2>1, <2>2, <2>3, <2>4, <2>5, <2>6, <2>7 DEF ProbeNext
<1>3. ProbeInv => ProbeSafe
  BY DEF ProbeInv
<1> QED
  BY <1>1, <1>2, <1>3, PTL DEF ProbeSpec

-----------------------------------------------------------------------------
(* RenovateProblems.                                                       *)

LEMMA BodyIsIndexed ==
    ASSUME NEW body \in Bodies
    PROVE  \E n \in 0 .. MaxLines : body \in [1 .. n -> LineKinds] /\ DOMAIN body = 1 .. n
<1>1. PICK n \in 0 .. MaxLines : body \in [1 .. n -> LineKinds]
  BY DEF Bodies
<1> QED
  BY <1>1

LEMMA ProblemsAreLines ==
    ASSUME NEW body \in Bodies PROVE ProblemsIn(body) \subseteq 0 .. MaxLines
<1>1. PICK n \in 0 .. MaxLines : DOMAIN body = 1 .. n
  BY BodyIsIndexed
<1> QED
  BY <1>1, DashboardAssumption DEF ProblemsIn, ProblemsOf, ItemsOf, Sections

\* A section has a problem whatever is in it.
LEMMA SectionIsProblem ==
    ASSUME NEW body, ProblemsIn(body) = {}, NEW h \in DOMAIN body PROVE body[h] # "problems"
<1>1. \A g \in Sections(body) : ProblemsOf(body, g) = {}
  BY DEF ProblemsIn
<1> QED
  BY <1>1 DEF Sections, ProblemsOf

\* An item is a problem if and only if the last heading above it is that of the problems.
LEMMA ItemBelowHeading ==
    ASSUME NEW body \in Bodies, NEW i \in DOMAIN body, body[i] = "item"
    PROVE  LET above == {h \in 1 .. i : body[h] \in Headings}
           IN i \in ProblemsIn(body) <=> \E h \in above : body[h] = "problems" /\ \A g \in above : g <= h
<1> DEFINE above == {h \in 1 .. i : body[h] \in Headings}
<1>1. PICK n \in 0 .. MaxLines : DOMAIN body = 1 .. n
  BY BodyIsIndexed
<1>2. n \in Nat /\ i \in 1 .. n
  BY <1>1, DashboardAssumption
<1>3. i \in ProblemsIn(body) <=> \E h \in Sections(body) : i \in ProblemsOf(body, h)
  BY DEF ProblemsIn
<1>4. ASSUME NEW h \in Sections(body)
      PROVE  i \in ProblemsOf(body, h) <=> InSection(body, h, i)
  BY <1>2, <1>4 DEF ProblemsOf, ItemsOf
<1>5. ASSUME NEW h \in Sections(body), InSection(body, h, i)
      PROVE  h \in above /\ body[h] = "problems" /\ \A g \in above : g <= h
  BY <1>1, <1>2, <1>5 DEF Sections, InSection, Headings
<1>6. ASSUME NEW h \in above, body[h] = "problems", \A g \in above : g <= h
      PROVE  h \in Sections(body) /\ InSection(body, h, i)
  <2>1. h \in 1 .. i /\ h # i
    BY <1>6
  <2>2. h \in Sections(body)
    BY <1>1, <1>2, <1>6, <2>1 DEF Sections
  <2>3. ASSUME NEW j \in h + 1 .. i PROVE body[j] \notin Headings
    BY <1>2, <1>6, <2>1
  <2> QED
    BY <1>2, <2>1, <2>2, <2>3 DEF InSection
<1> QED
  BY <1>3, <1>4, <1>5, <1>6

\* An answer is that of the dashboard it was read from: it has been read, it looks like one
\* and what is annotated are its problems.
AnswerInv ==
    /\ exit \in {0, 1} => Recognised(fetched) /\ annotated = ProblemsIn(fetched.body)
    /\ exit = 2 => fetched # Nothing
    /\ exit \in {-1, 2} => annotated = {}

FetchedType == fetched \in [state : {"open", "closed", "nothing", "unreadable"}, body : Bodies]

ReportInv == DashboardTypeOK /\ dashboard \in [state : {"open", "closed"}, body : Bodies] /\ FetchedType /\ AnswerInv

LEMMA ReportsAreSafe == ReportInv => DashboardSafe
<1> SUFFICES ASSUME ReportInv PROVE DashboardSafe
  OBVIOUS
<1> USE DEF ReportInv, FetchedType, AnswerInv
<1>1. fetched.body \in Bodies /\ DashboardTypeOK
  OBVIOUS
<1>2. CleanHasNoProblem
  <2>1. exit = 0 => annotated = {}
    BY <1>1 DEF DashboardTypeOK
  <2> QED
    BY <2>1, SectionIsProblem DEF CleanHasNoProblem, Recognised
<1>3. EveryProblemIsSaid
  <2> SUFFICES ASSUME exit = 1 PROVE EveryProblemIsSaid
    BY DEF EveryProblemIsSaid
  <2>1. annotated = ProblemsIn(fetched.body)
    OBVIOUS
  <2> QED
    BY <1>1, <2>1, ItemBelowHeading DEF EveryProblemIsSaid
<1> QED
  BY <1>1, <1>2, <1>3 DEF DashboardSafe

LEMMA SmallBodies ==
    /\ <<>> \in Bodies
    /\ <<"problems", "item", "dependencies">> \in Bodies
<1>1. <<>> \in [1 .. 0 -> LineKinds]
  OBVIOUS
<1>2. <<"problems", "item", "dependencies">> \in [1 .. 3 -> LineKinds]
  BY DEF LineKinds
<1> QED
  BY <1>1, <1>2, DashboardAssumption DEF Bodies

\* The check's answer is that of the dashboard it read, at every length of it: it is clean
\* only of an open dashboard without a problem, and otherwise names every one of them and
\* nothing from another section.
THEOREM DashboardIsSafe == DashboardSpec => []DashboardSafe
<1>1. DashboardInit => ReportInv
  BY SmallBodies, DashboardAssumption
     DEF DashboardInit, ReportInv, DashboardTypeOK, FetchedType, AnswerInv, Nothing
<1>2. ReportInv /\ [DashboardNext]_rvars => ReportInv'
  <2> SUFFICES ASSUME ReportInv, [DashboardNext]_rvars PROVE ReportInv'
    OBVIOUS
  <2> USE DEF ReportInv, DashboardTypeOK, FetchedType, AnswerInv
  <2>1. ASSUME NEW body \in Bodies, RenovateWrites(body) PROVE ReportInv'
    BY <2>1 DEF RenovateWrites
  <2>2. CASE SomeoneCloses
    BY <2>2 DEF SomeoneCloses
  <2>3. CASE Fetch
    <3>1. exit = -1 /\ annotated = {}
      BY <2>3 DEF Fetch, Nothing, Recognised
    <3>2. FetchedType'
      BY <2>3, SmallBodies DEF Fetch, NoAnswer
    <3> QED
      BY <2>3, <3>1, <3>2 DEF Fetch
  <2>4. CASE Unreadable
    BY <2>4 DEF Unreadable
  <2>5. CASE Reports
    <3>1. annotated' \subseteq 0 .. MaxLines
      BY <2>5, ProblemsAreLines DEF Reports
    <3>2. exit' \in {0, 1} /\ (exit' = 1 <=> annotated' # {})
      BY <2>5 DEF Reports
    <3>3. Recognised(fetched') /\ annotated' = ProblemsIn(fetched'.body)
      BY <2>5 DEF Reports
    <3> QED
      BY <2>5, <3>1, <3>2, <3>3 DEF Reports
  <2>6. CASE NextRun
    BY <2>6, SmallBodies DEF NextRun, Nothing, Recognised
  <2>7. CASE UNCHANGED rvars
    BY <2>7 DEF rvars
  <2> QED
    BY <2>1, <2>2, <2>3, <2>4, <2>5, <2>6, <2>7 DEF DashboardNext
<1> QED
  BY <1>1, <1>2, ReportsAreSafe, PTL DEF DashboardSpec

-----------------------------------------------------------------------------
(* AthenaCertificate.                                                      *)

HookStages == {"idle", "verify", "check", "copy", "import", "recheck", "done", "failed"}
IssuedFiles == [Fields -> 1 .. MaxIssues]
Verified == {"check", "copy", "import"}

HookTypeOK(k) ==
    /\ DOMAIN k = {"stage", "staged", "began", "checked"}
    /\ k.stage \in HookStages /\ k.began \in Nat
    /\ DOMAIN k.staged \subseteq Fields
    /\ \A f \in DOMAIN k.staged : k.staged[f] \in 1 .. MaxIssues

\* Lego writes a later leaf before its chain.
IssueInv ==
    /\ issue \in IssuedFiles /\ issue.leaf = issues /\ issue.chain <= issue.leaf
    /\ \A h \in Hooks : hooks[h].began <= issue.leaf

\* The copies are taken in their order, all of them before the import.
StagedInv(k) ==
    /\ k.stage \in {"verify", "check"} => DOMAIN k.staged = {}
    /\ k.stage = "copy" => DOMAIN k.staged \in {{}, {"key"}, {"key", "leaf"}}
    /\ k.stage = "import" => DOMAIN k.staged = Fields

\* A copy is of an issue between the one that was verified, which is whole and no older than
\* the run, and the one that is there now: issues only grow, so a file that is still the
\* verified one was the verified one when it was copied.
BetweenInv(k) ==
    k.stage \in Verified =>
        /\ k.checked \in IssuedFiles /\ k.checked.leaf = k.checked.chain /\ k.began <= k.checked.leaf
        /\ k.checked.leaf <= issue.leaf /\ k.checked.chain <= issue.chain
        /\ \A f \in DOMAIN k.staged \cap {"leaf", "chain"} :
              k.checked[f] <= k.staged[f] /\ k.staged[f] <= issue[f]

\* From its import on, what a run found issued is installed.
ImportedInv(k) == k.stage \in {"recheck", "done"} => target.leaf >= k.began \/ late

HookInv(k) == HookTypeOK(k) /\ StagedInv(k) /\ BetweenInv(k) /\ ImportedInv(k)

CertInv ==
    /\ lego \in {"idle", "chain", "hook"} /\ late \in BOOLEAN
    /\ target \in [leaf : 1 .. MaxIssues, chain : 1 .. MaxIssues, bound : BOOLEAN]
    /\ issues \in 1 .. MaxIssues /\ importFaults \in 0 .. MaxImportFaults /\ rebinds \in 0 .. MaxRebinds
    /\ DOMAIN hooks = Hooks
    /\ IssueInv /\ InstalledIsWhole
    /\ \A h \in Hooks : HookInv(hooks[h])

LEMMA CertificatesAreSafe == CertInv => CertificateSafe
<1> SUFFICES ASSUME CertInv PROVE CertificateSafe
  OBVIOUS
<1>1. AthenaTypeOK
  BY AthenaAssumption DEF CertInv, IssueInv, IssuedFiles, HookInv, HookTypeOK, AthenaTypeOK
<1>2. DoneIsIssued
  BY DEF CertInv, HookInv, ImportedInv, DoneIsIssued
<1> QED
  BY <1>1, <1>2 DEF CertInv, CertificateSafe

LEMMA FreshHook ==
    ASSUME issue.leaf \in Nat
    PROVE  LET begun == [NoHook EXCEPT !.stage = "verify", !.began = issue.leaf]
           IN HookInv(NoHook) /\ NoHook.began = 0 /\ HookInv(begun) /\ begun.began = issue.leaf
<1> DEFINE begun == [NoHook EXCEPT !.stage = "verify", !.began = issue.leaf]
<1>1. /\ DOMAIN NoHook = {"stage", "staged", "began", "checked"}
      /\ NoHook.stage = "idle" /\ NoHook.began = 0 /\ NoHook.staged = <<>>
  BY DEF NoHook
<1>2. /\ DOMAIN begun = {"stage", "staged", "began", "checked"}
      /\ begun.stage = "verify" /\ begun.began = issue.leaf /\ begun.staged = <<>>
  BY <1>1
<1>3. DOMAIN <<>> = {}
  OBVIOUS
<1> HIDE DEF begun
<1>4. DOMAIN NoHook.staged = {} /\ DOMAIN begun.staged = {}
  BY <1>1, <1>2, <1>3
<1>5. HookInv(NoHook)
  BY <1>1, <1>4 DEF HookInv, HookTypeOK, HookStages, StagedInv, BetweenInv, Verified, ImportedInv
<1>6. HookInv(begun)
  BY <1>2, <1>4 DEF HookInv, HookTypeOK, HookStages, StagedInv, BetweenInv, Verified, ImportedInv
<1> QED
  BY <1>1, <1>2, <1>5, <1>6 DEF begun

\* A step of one hook that changes nothing but the hook.
LEMMA OneHookMoves ==
    ASSUME CertInv, NEW h \in Hooks, NEW k, hooks' = [hooks EXCEPT ![h] = k],
           HookInv(k), k.began <= issue.leaf,
           UNCHANGED <<issue, target, late, issues, rebinds>>,
           lego' \in {"idle", "chain", "hook"}, importFaults' \in 0 .. MaxImportFaults
    PROVE  CertInv'
<1>1. DOMAIN hooks' = Hooks /\ \A g \in Hooks : hooks'[g] = IF g = h THEN k ELSE hooks[g]
  BY DEF CertInv
<1>2. ASSUME NEW g \in Hooks PROVE HookInv(hooks[g])'
  <2>1. HookInv(hooks'[g])
    BY <1>1 DEF CertInv
  <2> QED
    BY <2>1 DEF HookInv, HookTypeOK, StagedInv, BetweenInv, ImportedInv
<1>3. IssueInv'
  BY <1>1 DEF CertInv, IssueInv
<1>4. InstalledIsWhole'
  BY DEF CertInv, InstalledIsWhole
<1> QED
  BY <1>1, <1>2, <1>3, <1>4 DEF CertInv

\* The hook goes on, and what it holds stays as it is.
LEMMA HookEnters ==
    ASSUME CertInv, NEW h \in Hooks, NEW stage, Enters(h, stage)
    PROVE  \E k : /\ hooks' = [hooks EXCEPT ![h] = k] /\ DOMAIN k = {"stage", "staged", "began", "checked"}
                  /\ k.stage = stage /\ k.staged = hooks[h].staged
                  /\ k.began = hooks[h].began /\ k.checked = hooks[h].checked
<1> DEFINE k == [hooks[h] EXCEPT !.stage = stage]
<1>1. DOMAIN hooks[h] = {"stage", "staged", "began", "checked"}
  BY DEF CertInv, HookInv, HookTypeOK
<1>2. hooks' = [hooks EXCEPT ![h] = k]
  BY DEF Enters
<1>3. /\ DOMAIN k = {"stage", "staged", "began", "checked"}
      /\ k.stage = stage /\ k.staged = hooks[h].staged
      /\ k.began = hooks[h].began /\ k.checked = hooks[h].checked
  BY <1>1
<1> QED
  BY <1>2, <1>3

LEMMA CertificateStarts == AthenaInit => CertInv
<1> SUFFICES ASSUME AthenaInit PROVE CertInv
  OBVIOUS
<1>0. late \in BOOLEAN
  BY Zenon DEF AthenaInit
<1>1. target \in [leaf : 1 .. MaxIssues, chain : 1 .. MaxIssues, bound : BOOLEAN]
  <2>1. 1 \in 1 .. MaxIssues
    BY AthenaAssumption
  <2>2. target = [leaf |-> 1, chain |-> 1, bound |-> TRUE]
    BY Zenon DEF AthenaInit
  <2>3. TRUE \in BOOLEAN
    BY Zenon
  <2> QED
    BY <2>1, <2>2, <2>3
<1>2. IssueInv /\ InstalledIsWhole
  BY AthenaAssumption DEF AthenaInit, IssueInv, IssuedFiles, Fields, NoHook, InstalledIsWhole
<1>3. \A h \in Hooks : HookInv(hooks[h])
  BY FreshHook DEF AthenaInit
<1> QED
  BY <1>0, <1>1, <1>2, <1>3, AthenaAssumption DEF AthenaInit, CertInv

\* Lego, and the administrators of DSM.
LEMMA LegoKeepsCertificate ==
    ASSUME CertInv, LegoRenews \/ LegoSaves \/ LegoEnds \/ Rebind \/ RestoreBinding
    PROVE  CertInv'
<1>0. /\ \A h \in Hooks : HookInv(hooks[h])
      /\ issues \in Nat /\ issue.leaf \in Nat /\ issue.chain \in Nat
  BY AthenaAssumption DEF CertInv, IssueInv, IssuedFiles, Fields
<1>1. CASE LegoRenews
  <2>1. issues' \in 1 .. MaxIssues /\ issues' = issue.leaf + 1
    BY <1>1, AthenaAssumption DEF LegoRenews, CertInv, IssueInv
  <2>2. /\ issue' \in IssuedFiles /\ issue'.leaf = issue.leaf + 1
        /\ issue'.chain = issue.chain
    BY <1>1, <2>1 DEF LegoRenews, CertInv, IssueInv, IssuedFiles, Fields
  <2>3. IssueInv'
    BY <1>0, <1>1, <2>1, <2>2 DEF LegoRenews, CertInv, IssueInv, HookInv, HookTypeOK
  <2>4. ASSUME NEW h \in Hooks PROVE HookInv(hooks[h])'
    <3>1. hooks' = hooks /\ target' = target /\ late' = late
      BY <1>1 DEF LegoRenews
    <3>2. BetweenInv(hooks[h])'
      BY <1>0, <2>2, <3>1, AthenaAssumption DEF HookInv, HookTypeOK, BetweenInv, IssuedFiles, Fields
    <3> QED
      BY <1>0, <3>1, <3>2 DEF HookInv, HookTypeOK, StagedInv, ImportedInv
  <2>5. InstalledIsWhole'
    BY <1>1 DEF LegoRenews, CertInv, InstalledIsWhole
  <2> QED
    BY <1>1, <2>1, <2>3, <2>4, <2>5 DEF LegoRenews, CertInv
<1>2. CASE LegoSaves
  <2> DEFINE k == [NoHook EXCEPT !.stage = "verify", !.began = issue.leaf]
  <2>1. issue' \in IssuedFiles /\ issue'.leaf = issue.leaf /\ issue'.chain = issue.leaf
    BY <1>2 DEF LegoSaves, CertInv, IssueInv, IssuedFiles, Fields
  <2>2. /\ DOMAIN hooks' = Hooks
        /\ \A g \in Hooks : hooks'[g] = IF g = LegoHook THEN k ELSE hooks[g]
    BY <1>2 DEF LegoSaves, CertInv
  <2>3. HookInv(k) /\ k.began = issue.leaf
    BY <1>0, FreshHook
  <2> HIDE DEF k
  <2>4. IssueInv'
    BY <1>0, <1>2, <2>1, <2>2, <2>3 DEF LegoSaves, CertInv, IssueInv
  <2>5. ASSUME NEW h \in Hooks PROVE HookInv(hooks[h])'
    <3>1. target' = target /\ late' = late
      BY <1>2 DEF LegoSaves
    <3>2. HookInv(hooks'[h])
      BY <1>0, <2>2, <2>3
    <3>3. issue.chain <= issue.leaf
      BY DEF CertInv, IssueInv
    <3>4. BetweenInv(hooks[h])'
      BY <1>0, <2>1, <3>2, <3>3, AthenaAssumption DEF HookInv, HookTypeOK, BetweenInv, IssuedFiles, Fields
    <3> QED
      BY <3>1, <3>2, <3>4 DEF HookInv, HookTypeOK, StagedInv, ImportedInv
  <2>6. InstalledIsWhole'
    BY <1>2 DEF LegoSaves, CertInv, InstalledIsWhole
  <2> QED
    BY <1>2, <2>2, <2>4, <2>5, <2>6 DEF LegoSaves, CertInv
<1>3. CASE LegoEnds
  <2>1. ASSUME NEW h \in Hooks PROVE HookInv(hooks[h])'
    BY <1>0, <1>3 DEF LegoEnds, HookInv, HookTypeOK, StagedInv, BetweenInv, ImportedInv
  <2> QED
    BY <1>3, <2>1 DEF LegoEnds, CertInv, IssueInv, InstalledIsWhole
<1>4. CASE Rebind \/ RestoreBinding
  <2>1. /\ target' \in [leaf : 1 .. MaxIssues, chain : 1 .. MaxIssues, bound : BOOLEAN]
        /\ target'.leaf = target.leaf /\ target'.chain = target.chain
    BY <1>4 DEF Rebind, RestoreBinding, CertInv
  <2>2. rebinds' \in 0 .. MaxRebinds
    BY <1>4, AthenaAssumption DEF Rebind, RestoreBinding, CertInv
  <2>3. UNCHANGED <<issue, lego, hooks, late, issues, importFaults>>
    BY <1>4 DEF Rebind, RestoreBinding
  <2>4. ASSUME NEW h \in Hooks PROVE HookInv(hooks[h])'
    BY <1>0, <2>1, <2>3 DEF HookInv, HookTypeOK, StagedInv, BetweenInv, ImportedInv
  <2> QED
    BY <2>1, <2>2, <2>3, <2>4 DEF CertInv, IssueInv, InstalledIsWhole
<1> QED
  BY <1>1, <1>2, <1>3, <1>4

\* The steps of a hook that leave what it copied alone.
LEMMA HookKeepsCopies ==
    ASSUME CertInv, NEW h \in Hooks, RunByHand(h) \/ VerifyIssued(h) \/ CheckTarget(h) \/ CallFails(h)
    PROVE  CertInv'
<1>0. /\ HookInv(hooks[h]) /\ hooks[h].began <= issue.leaf /\ issue.leaf \in Nat
      /\ issue \in IssuedFiles /\ importFaults \in 0 .. MaxImportFaults /\ lego \in {"idle", "chain", "hook"}
  BY AthenaAssumption DEF CertInv, IssueInv, IssuedFiles, Fields
<1>1. CASE RunByHand(h)
  <2> DEFINE k == [NoHook EXCEPT !.stage = "verify", !.began = issue.leaf]
  <2>1. HookInv(k) /\ k.began = issue.leaf
    BY <1>0, FreshHook
  <2>2. hooks' = [hooks EXCEPT ![h] = k] /\ UNCHANGED <<issue, target, late, issues, rebinds, lego, importFaults>>
    BY <1>1 DEF RunByHand, AthKeep
  <2> HIDE DEF k
  <2>3. k.began <= issue.leaf /\ importFaults' \in 0 .. MaxImportFaults /\ lego' \in {"idle", "chain", "hook"}
    BY <1>0, <2>1, <2>2
  <2> QED
    BY <2>1, <2>2, <2>3, OneHookMoves
<1>2. CASE VerifyIssued(h)
  <2> DEFINE k == [hooks[h] EXCEPT !.stage = IF ChainVerifies THEN "check" ELSE "failed", !.checked = issue]
  <2>1. hooks' = [hooks EXCEPT ![h] = k] /\ UNCHANGED <<issue, target, late, issues, rebinds, lego, importFaults>>
    BY <1>2 DEF VerifyIssued, AthKeep
  <2>2. /\ DOMAIN k = {"stage", "staged", "began", "checked"}
        /\ k.staged = hooks[h].staged /\ k.began = hooks[h].began /\ k.checked = issue
        /\ k.stage = IF ChainVerifies THEN "check" ELSE "failed"
    BY <1>0 DEF HookInv, HookTypeOK
  <2> HIDE DEF k
  <2>3. hooks[h].stage = "verify" /\ DOMAIN k.staged = {}
    BY <1>0, <1>2, <2>2 DEF VerifyIssued, HookInv, StagedInv
  <2>4. BetweenInv(k)
    BY <1>0, <2>2, <2>3 DEF BetweenInv, Verified, ChainVerifies, IssuedFiles, Fields
  <2>5. HookInv(k)
    BY <1>0, <2>2, <2>3, <2>4 DEF HookInv, HookTypeOK, HookStages, StagedInv, ImportedInv
  <2> QED
    BY <1>0, <2>1, <2>2, <2>5, OneHookMoves
<1>3. ASSUME NEW stage \in {"failed", "copy", "done"}, Enters(h, stage),
             stage = "copy" => hooks[h].stage = "check", stage = "done" => hooks[h].stage = "recheck",
             UNCHANGED <<issue, target, late, issues, rebinds, lego>>, importFaults' \in 0 .. MaxImportFaults
      PROVE  CertInv'
  <2>1. PICK k : /\ hooks' = [hooks EXCEPT ![h] = k] /\ DOMAIN k = {"stage", "staged", "began", "checked"}
                 /\ k.stage = stage /\ k.staged = hooks[h].staged
                 /\ k.began = hooks[h].began /\ k.checked = hooks[h].checked
    BY <1>3, HookEnters
  <2>2. HookTypeOK(k) /\ StagedInv(k)
    BY <1>0, <1>3, <2>1 DEF HookInv, HookTypeOK, HookStages, StagedInv
  <2>3. BetweenInv(k)
    BY <1>0, <1>3, <2>1 DEF HookInv, BetweenInv, Verified
  <2>4. ImportedInv(k)
    BY <1>0, <1>3, <2>1 DEF HookInv, ImportedInv
  <2> QED
    BY <1>0, <1>3, <2>1, <2>2, <2>3, <2>4, OneHookMoves DEF HookInv
<1>4. CASE CheckTarget(h)
  <2> DEFINE stage == IF ~target.bound THEN "failed" ELSE IF hooks[h].stage = "check" THEN "copy" ELSE "done"
  <2>1. Enters(h, stage) /\ hooks[h].stage \in {"check", "recheck"}
    BY <1>4, Zenon DEF CheckTarget
  <2>2. UNCHANGED <<issue, target, late, issues, rebinds, lego, importFaults>>
    BY <1>4 DEF CheckTarget, AthKeep
  <2>3. /\ stage \in {"failed", "copy", "done"}
        /\ stage = "copy" => hooks[h].stage = "check"
        /\ stage = "done" => hooks[h].stage = "recheck"
    BY <2>1
  <2> HIDE DEF stage
  <2> QED
    BY <1>0, <1>3, <2>1, <2>2, <2>3
<1>5. CASE CallFails(h)
  <2>1. importFaults' \in 0 .. MaxImportFaults
    BY <1>0, <1>5, AthenaAssumption DEF CallFails
  <2>2. Enters(h, "failed") /\ UNCHANGED <<issue, target, late, issues, rebinds, lego>>
    BY <1>5 DEF CallFails
  <2> QED
    BY <1>3, <2>1, <2>2
<1> QED
  BY <1>1, <1>2, <1>4, <1>5

\* The number of copies names the file that comes next.
LEMMA NextCopy ==
    ASSUME NEW d \in {{}, {"key"}, {"key", "leaf"}}
    PROVE  CopyOrder[Cardinality(d) + 1] = IF d = {} THEN "key" ELSE IF d = {"key"} THEN "leaf" ELSE "chain"
<1>1. Cardinality({}) = 0
  BY FS_EmptySet, Zenon
<1>2. IsFiniteSet({"key"}) /\ Cardinality({"key"}) = 1
  BY FS_Singleton, Zenon
<1>3. Cardinality({"key"} \cup {"leaf"}) = 2
  BY <1>2, FS_AddElement
<1>4. {"key"} \cup {"leaf"} = {"key", "leaf"}
  OBVIOUS
<1>5. CASE d = {}
  BY <1>1, <1>5 DEF CopyOrder
<1>6. CASE d = {"key"}
  BY <1>2, <1>6 DEF CopyOrder
<1>7. CASE d = {"key", "leaf"}
  BY <1>3, <1>4, <1>7 DEF CopyOrder
<1> QED
  BY <1>5, <1>6, <1>7

LEMMA CopyKeepsCertificate ==
    ASSUME CertInv, NEW h \in Hooks, CopyFile(h)
    PROVE  CertInv'
<1>0. /\ HookInv(hooks[h]) /\ hooks[h].began <= issue.leaf /\ issue.leaf \in Nat
      /\ issue \in IssuedFiles /\ importFaults \in 0 .. MaxImportFaults /\ lego \in {"idle", "chain", "hook"}
  BY AthenaAssumption DEF CertInv, IssueInv, IssuedFiles, Fields
<1> DEFINE d == DOMAIN hooks[h].staged
           field == CopyOrder[Cardinality(d) + 1]
           staged == [x \in d \cup {field} |-> IF x = field THEN issue[field] ELSE hooks[h].staged[x]]
           stage == IF field = "chain" THEN "import" ELSE "copy"
           k == [hooks[h] EXCEPT !.staged = staged, !.stage = stage]
<1>1. d \in {{}, {"key"}, {"key", "leaf"}} /\ hooks[h].stage = "copy"
  BY <1>0 DEF CopyFile, HookInv, StagedInv
<1>2. field = IF d = {} THEN "key" ELSE IF d = {"key"} THEN "leaf" ELSE "chain"
  BY <1>1, NextCopy
<1>3. issue[field] \in 1 .. MaxIssues /\ issue[field] # Lost
  BY <1>0, <1>2, AthenaAssumption DEF IssuedFiles, Fields
<1>4. hooks' = [hooks EXCEPT ![h] = k] /\ UNCHANGED <<issue, target, late, issues, rebinds, lego, importFaults>>
  BY <1>3 DEF CopyFile, AthKeep
<1>5. /\ DOMAIN k = {"stage", "staged", "began", "checked"}
      /\ k.stage = stage /\ k.staged = staged
      /\ k.began = hooks[h].began /\ k.checked = hooks[h].checked
  BY <1>0 DEF HookInv, HookTypeOK
<1>6. /\ DOMAIN staged = d \cup {field}
      /\ \A x \in DOMAIN staged : staged[x] = IF x = field THEN issue[field] ELSE hooks[h].staged[x]
  OBVIOUS
<1>7. /\ stage = "copy" => d \cup {field} \in {{"key"}, {"key", "leaf"}}
      /\ stage = "import" => d \cup {field} = Fields
      /\ stage \in {"copy", "import"} /\ field \in Fields
  BY <1>1, <1>2 DEF Fields
<1> HIDE DEF k, staged, stage, field
<1>8. HookTypeOK(k)
  BY <1>0, <1>1, <1>3, <1>5, <1>6, <1>7 DEF HookInv, HookTypeOK, HookStages, Fields
<1>9. StagedInv(k)
  BY <1>5, <1>6, <1>7 DEF StagedInv
<1>10. BetweenInv(k)
  <2>1. BetweenInv(hooks[h]) /\ hooks[h].stage \in Verified
    BY <1>0, <1>1 DEF HookInv, Verified
  <2>2. ASSUME NEW f \in DOMAIN staged \cap {"leaf", "chain"}
        PROVE  hooks[h].checked[f] <= staged[f] /\ staged[f] <= issue[f]
    <3>1. CASE f = field
      BY <1>0, <1>6, <2>1, <3>1, AthenaAssumption DEF BetweenInv, IssuedFiles, Fields
    <3>2. CASE f # field
      BY <1>6, <2>1, <3>2 DEF BetweenInv
    <3> QED
      BY <3>1, <3>2
  <2> QED
    BY <1>5, <2>1, <2>2 DEF BetweenInv
<1>11. ImportedInv(k)
  BY <1>5, <1>7 DEF ImportedInv
<1> QED
  BY <1>0, <1>4, <1>5, <1>8, <1>9, <1>10, <1>11, OneHookMoves DEF HookInv

\* An import installs what was copied; if the verified files are still there, that is they,
\* and no run found a later leaf.
LEMMA ImportKeepsCertificate ==
    ASSUME CertInv, NEW h \in Hooks, Import(h)
    PROVE  CertInv'
<1> DEFINE k == hooks[h]
<1>0. /\ \A g \in Hooks : HookInv(hooks[g]) /\ hooks[g].began <= issue.leaf
      /\ k.stage = "import" /\ DOMAIN k.staged = Fields /\ BetweenInv(k) /\ k.stage \in Verified
      /\ k.staged["leaf"] \in 1 .. MaxIssues /\ k.staged["chain"] \in 1 .. MaxIssues
      /\ issue \in IssuedFiles /\ issue.leaf \in Nat
  <2>1. \A g \in Hooks : HookInv(hooks[g]) /\ hooks[g].began <= issue.leaf
    BY DEF CertInv, IssueInv
  <2>2. issue \in IssuedFiles /\ issue.leaf \in Nat
    BY AthenaAssumption DEF CertInv, IssueInv, IssuedFiles, Fields
  <2>3. k.stage = "import" /\ k.stage \in Verified
    BY DEF Import, Verified
  <2>4. DOMAIN k.staged = Fields /\ BetweenInv(k)
    BY <2>1, <2>3 DEF HookInv, StagedInv
  <2>5. k.staged["leaf"] \in 1 .. MaxIssues /\ k.staged["chain"] \in 1 .. MaxIssues
    BY <2>1, <2>4 DEF HookInv, HookTypeOK, Fields
  <2> QED
    BY <2>1, <2>2, <2>3, <2>4, <2>5
<1>1. /\ k.checked \in IssuedFiles /\ k.checked.leaf = k.checked.chain
      /\ k.checked.leaf <= k.staged["leaf"] /\ k.staged["leaf"] <= issue.leaf
      /\ k.checked.chain <= k.staged["chain"] /\ k.staged["chain"] <= issue.chain
      /\ k.began <= k.checked.leaf
  BY <1>0 DEF BetweenInv, Fields
<1>2. /\ target' \in [leaf : 1 .. MaxIssues, chain : 1 .. MaxIssues, bound : BOOLEAN]
      /\ target'.leaf = k.staged["leaf"] /\ target'.chain = k.staged["chain"]
  BY <1>0 DEF Import, CertInv
<1>3. late' \in BOOLEAN /\ (late' \/ k.checked = issue)
  BY Zenon DEF Import
<1>4. UNCHANGED <<issue, lego, issues, rebinds>>
  BY DEF Import
<1>5. importFaults' \in 0 .. MaxImportFaults
  BY AthenaAssumption DEF Import, CertInv
<1>6. k.checked = issue => target'.leaf = issue.leaf /\ target'.chain = issue.leaf
  BY <1>0, <1>1, <1>2, AthenaAssumption DEF IssuedFiles, Fields
<1>7. InstalledIsWhole'
  BY <1>3, <1>6 DEF InstalledIsWhole
<1>8. PICK stage \in {"recheck", "failed"} : Enters(h, stage)
  BY DEF Import
<1>9. PICK n : /\ hooks' = [hooks EXCEPT ![h] = n] /\ DOMAIN n = {"stage", "staged", "began", "checked"}
               /\ n.stage = stage /\ n.staged = hooks[h].staged
               /\ n.began = hooks[h].began /\ n.checked = hooks[h].checked
  BY <1>8, HookEnters
<1>10. DOMAIN hooks' = Hooks /\ \A g \in Hooks : hooks'[g] = IF g = h THEN n ELSE hooks[g]
  BY <1>9 DEF CertInv
<1>11. HookTypeOK(n) /\ StagedInv(n) /\ BetweenInv(n)
  BY <1>0, <1>8, <1>9 DEF HookInv, HookTypeOK, HookStages, StagedInv, BetweenInv, Verified
<1>12. ASSUME NEW g \in Hooks PROVE HookInv(hooks[g])'
  <2>1. HookTypeOK(hooks'[g]) /\ StagedInv(hooks'[g]) /\ BetweenInv(hooks'[g])
    BY <1>0, <1>10, <1>11 DEF HookInv
  <2>2. hooks'[g].began = hooks[g].began /\ hooks[g].began \in Nat /\ hooks[g].began <= issue.leaf
    BY <1>0, <1>9, <1>10 DEF HookInv, HookTypeOK
  <2>3. target'.leaf >= hooks[g].began \/ late'
    BY <1>0, <1>3, <1>6, <2>2
  <2> QED
    BY <1>4, <2>1, <2>2, <2>3 DEF HookInv, HookTypeOK, StagedInv, BetweenInv, ImportedInv
<1>13. IssueInv'
  BY <1>0, <1>4, <1>9, <1>10 DEF CertInv, IssueInv
<1> QED
  BY <1>2, <1>3, <1>4, <1>5, <1>7, <1>10, <1>12, <1>13 DEF CertInv

\* What DSM serves, for any number of hooks that run beside one another and beside Lego: a
\* leaf with its own chain, at least as late as what a run that reports success found, unless
\* Lego rewrote the files between the verification and the copies.
THEOREM CertificateIsSafe == AthenaSpec => []CertificateSafe
<1>1. CertInv /\ [AthenaNext]_athenaVars => CertInv'
  <2> SUFFICES ASSUME CertInv, [AthenaNext]_athenaVars PROVE CertInv'
    OBVIOUS
  <2>1. CASE UNCHANGED athenaVars
    <3>1. ASSUME NEW h \in Hooks PROVE HookInv(hooks[h])'
      BY <2>1 DEF athenaVars, CertInv, HookInv, HookTypeOK, StagedInv, BetweenInv, ImportedInv
    <3> QED
      BY <2>1, <3>1 DEF athenaVars, CertInv, IssueInv, InstalledIsWhole
  <2>2. CASE AthenaNext
    BY <2>2, LegoKeepsCertificate, HookKeepsCopies, CopyKeepsCertificate, ImportKeepsCertificate
       DEF AthenaNext, HookSteps
  <2> QED
    BY <2>1, <2>2
<1> QED
  BY <1>1, CertificateStarts, CertificatesAreSafe, PTL DEF AthenaSpec

-----------------------------------------------------------------------------
(* CeilingPublish.                                                         *)

PublishTypes ==
    /\ trunk \in Seq(MainContents) /\ Len(trunk) >= 1
    /\ {syncHead, prShown, prHead, remoteHead} \subseteq Commits \cup {None}
    /\ prOpen \in BOOLEAN /\ touched \in BOOLEAN
    /\ publishStep \in PublishOver \cup {"main", "pr", "head", "branch", "prepare", "push", "create"}
    /\ mainHead \in 0 .. Len(trunk) /\ publishes \in 0 .. MaxPublishes
    /\ commits \in Nat /\ othersWork \subseteq 1 .. commits

\* A commit holds somebody's work if and only if it can be seen in it: it differs from the
\* main it was begun on in another file or beyond the ceiling.
WorkShows(c) ==
    /\ c.base <= Len(trunk) /\ c.id <= commits
    /\ c.id \in othersWork <=> c.outside \/ c.rest # trunk[c.base].rest
WorkInv == \A c \in {syncHead, remoteHead} \ {None} : WorkShows(c)

\* What the run has found out, and what stays true of it whatever others do since: main only
\* grows, and a branch it has looked into is the one that its lease is for.
FoundInv ==
    /\ publishStep \in {"pr", "head", "branch", "prepare", "push", "create"} => mainHead >= 1
    /\ publishStep = "branch" => remoteHead # None
    /\ publishStep \in {"prepare", "push"} /\ remoteHead # None => ~OtherFiles(remoteHead)
    /\ publishStep = "push" /\ remoteHead # None => ~BeyondCeiling(remoteHead)

\* While nobody crosses the run, what it read is what is there.
UncrossedInv ==
    ~touched =>
        /\ publishStep \in {"pr", "head", "branch", "prepare", "push", "create"} => mainHead = Len(trunk)
        /\ publishStep \in {"head", "branch", "prepare", "push", "create"} => (prHead # None <=> prOpen)
        /\ publishStep \in {"branch", "prepare", "push"} => remoteHead = syncHead
        /\ publishStep = "create" => /\ syncHead # None /\ ~syncHead.outside
                                     /\ SameFile(syncHead, mainHead)

PublishInv ==
    /\ PublishTypes /\ NothingDiscarded /\ WorkInv /\ (prOpen => prShown # None)
    /\ FoundInv /\ UncrossedInv /\ RefusesWorkOnly /\ PublishedIsTrue

LEMMA CommitOf ==
    ASSUME NEW i \in 1 .. Len(trunk), trunk \in Seq(MainContents)
    PROVE  trunk[i] \in MainContents
OBVIOUS

\* Every use of a pin's ceiling is one of the ceilings.
LEMMA WantedIsCeiling ==
    ASSUME NEW i \in 1 .. Len(trunk), trunk \in Seq(MainContents)
    PROVE  Wanted(i) \in Ceilings
BY CommitOf, PublishAssumption DEF Wanted, MainContents

LEMMA PublishesAreSafe == PublishInv => CeilingSafe
<1> SUFFICES ASSUME PublishInv PROVE CeilingSafe
  OBVIOUS
<1>1. othersWork \cup discarded \subseteq 1 .. commits
  BY DEF PublishInv, PublishTypes, NothingDiscarded
<1>2. \A i \in DOMAIN trunk : trunk[i] \in MainContents
  BY DEF PublishInv, PublishTypes
<1> QED
  BY <1>1, <1>2 DEF PublishInv, PublishTypes, PublishTypeOK, CeilingSafe

LEMMA PublishStarts == PublishInit => PublishInv
<1> SUFFICES ASSUME PublishInit PROVE PublishInv
  OBVIOUS
<1>1. PICK first \in MainContents : trunk = <<first>>
  BY DEF PublishInit
<1>2. trunk \in Seq(MainContents) /\ Len(trunk) = 1
  BY <1>1
<1>3. prOpen \in BOOLEAN /\ touched \in BOOLEAN /\ ~prOpen
  BY Zenon DEF PublishInit
<1>4. PublishTypes
  BY <1>2, <1>3, PublishAssumption DEF PublishInit, PublishTypes, PublishOver
<1> QED
  BY <1>3, <1>4
     DEF PublishInit, PublishInv, NothingDiscarded, WorkInv, FoundInv, UncrossedInv, RefusesWorkOnly,
         PublishedIsTrue

\* main only grows, and so do the commits and the work in them.
MainGrows == trunk' = trunk \/ \E next \in MainContents : trunk' = Append(trunk, next)
WorkGrows ==
    \/ UNCHANGED <<commits, othersWork>>
    \/ commits' = commits + 1 /\ othersWork' \in {othersWork, othersWork \cup {commits + 1}}

LEMMA MainStays ==
    ASSUME PublishTypes, MainGrows
    PROVE  /\ trunk' \in Seq(MainContents) /\ Len(trunk') >= Len(trunk) /\ Len(trunk') \in Nat
           /\ \A i \in 1 .. Len(trunk) : trunk'[i] = trunk[i]
BY DEF PublishTypes, MainGrows

LEMMA WorkStays ==
    ASSUME PublishTypes, MainGrows, WorkGrows, NEW c \in Commits, WorkShows(c)
    PROVE  WorkShows(c)'
<1>1. c.base \in 1 .. Len(trunk) /\ c.id \in Nat /\ c.id <= commits
  BY DEF Commits, WorkShows, PublishTypes
<1>2. Len(trunk') >= Len(trunk) /\ Len(trunk') \in Nat /\ trunk'[c.base] = trunk[c.base]
  BY <1>1, MainStays
<1>3. commits \in Nat /\ Len(trunk) \in Nat
  BY DEF PublishTypes
<1>4. c.id <= commits' /\ (c.id \in othersWork' <=> c.id \in othersWork)
  BY <1>1, <1>3 DEF WorkGrows
<1> QED
  BY <1>1, <1>2, <1>3, <1>4 DEF WorkShows

\* What the run found of the branch stays true while main grows.
LEMMA FindingsStay ==
    ASSUME PublishTypes, WorkInv, MainGrows, mainHead >= 1, UNCHANGED <<mainHead, remoteHead>>, remoteHead # None
    PROVE  (OtherFiles(remoteHead)' <=> OtherFiles(remoteHead)) /\ (BeyondCeiling(remoteHead)' <=> BeyondCeiling(remoteHead))
<1>1. remoteHead \in Commits /\ mainHead \in 1 .. Len(trunk) /\ Len(trunk) \in Nat
  BY DEF PublishTypes
<1>2. remoteHead.base \in 1 .. Len(trunk)
  BY <1>1 DEF WorkInv, WorkShows, Commits
<1>3. MergeBase(remoteHead) \in 1 .. Len(trunk) /\ MergeBase(remoteHead)' = MergeBase(remoteHead)
  BY <1>1, <1>2 DEF MergeBase
<1>4. trunk'[remoteHead.base] = trunk[remoteHead.base] /\ trunk'[MergeBase(remoteHead)] = trunk[MergeBase(remoteHead)]
  BY <1>2, <1>3, MainStays
<1> QED
  BY <1>3, <1>4 DEF OtherFiles, BeyondCeiling

\* GitHub and the others: whatever they do to main, the branch and the pull request.
LEMMA OthersAct ==
    ASSUME PublishInv, touched' = TRUE, UNCHANGED <<publishStep, seenVars, publishes, discarded>>,
           MainGrows, WorkGrows,
           {syncHead', prShown'} \subseteq Commits \cup {None},
           syncHead' # None => WorkShows(syncHead)',
           prOpen' \in BOOLEAN, prOpen' => prShown' # None
    PROVE  PublishInv'
<1>1. PublishTypes /\ WorkInv /\ FoundInv /\ RefusesWorkOnly
  BY DEF PublishInv
<1>2. touched' \in BOOLEAN /\ touched'
  BY Zenon
<1>3. UNCHANGED <<mainHead, prHead, remoteHead, publishStep, publishes, discarded>>
  BY DEF seenVars
<1>4. PublishTypes'
  <2>1. commits' \in Nat /\ othersWork' \subseteq 1 .. commits'
    <3>1. commits \in Nat /\ othersWork \subseteq 1 .. commits
      BY <1>1 DEF PublishTypes
    <3>2. CASE UNCHANGED <<commits, othersWork>>
      BY <3>1, <3>2
    <3>3. CASE commits' = commits + 1 /\ othersWork' \in {othersWork, othersWork \cup {commits + 1}}
      <4>1. \A x \in othersWork' : x \in othersWork \/ x = commits + 1
        BY <3>3
      <4> QED
        BY <3>1, <3>3, <4>1
    <3> QED
      BY <3>2, <3>3 DEF WorkGrows
  <2>2. mainHead' \in 0 .. Len(trunk') /\ Len(trunk') >= 1
    BY <1>1, <1>3, MainStays DEF PublishTypes
  <2> QED
    BY <1>1, <1>2, <1>3, <2>1, <2>2, MainStays DEF PublishTypes
<1>5. remoteHead # None => WorkShows(remoteHead)'
  <2> SUFFICES ASSUME remoteHead # None PROVE WorkShows(remoteHead)'
    OBVIOUS
  <2>1. remoteHead \in Commits /\ WorkShows(remoteHead)
    BY <1>1 DEF PublishTypes, WorkInv
  <2> QED
    BY <1>1, <1>3, <2>1, WorkStays DEF WorkShows
<1>6. WorkInv'
  BY <1>3, <1>5 DEF WorkInv
<1>7. FoundInv'
  BY <1>1, <1>3, FindingsStay DEF FoundInv
<1>8. RefusesWorkOnly'
  BY <1>1, <1>3 DEF RefusesWorkOnly, WorkGrows
<1> QED
  BY <1>2, <1>3, <1>4, <1>6, <1>7, <1>8 DEF PublishInv, NothingDiscarded, UncrossedInv, PublishedIsTrue

LEMMA OthersKeepPublish ==
    ASSUME PublishInv, ClosesEmpty \/ MainMoves \/ MergesPr \/ ClosesPr \/ OpensPr \/ Deletes
    PROVE  PublishInv'
<1>0. /\ PublishTypes /\ (syncHead # None => WorkShows(syncHead)) /\ (prOpen => prShown # None)
      /\ FALSE \in BOOLEAN /\ TRUE \in BOOLEAN
  BY Zenon DEF PublishInv, WorkInv
<1>1. touched' = TRUE /\ UNCHANGED <<publishStep, seenVars, publishes, discarded, commits, othersWork>>
  BY DEF ClosesEmpty, MainMoves, MergesPr, ClosesPr, OpensPr, Deletes
<1>2. WorkGrows
  BY <1>1 DEF WorkGrows
<1>3. MainGrows
  <2>1. CASE MergesPr
    <3>1. /\ syncHead \in Commits /\ WorkShows(syncHead) /\ Len(trunk) \in 1 .. Len(trunk)
          /\ syncHead.base \in 1 .. Len(trunk)
      BY <1>0, <2>1 DEF MergesPr, PublishTypes, Commits, WorkShows
    <3>2. trunk[Len(trunk)] \in MainContents
      BY <1>0, <3>1, CommitOf DEF PublishTypes
    <3>3. \A r \in {trunk[Len(trunk)].rest, syncHead.rest} :
             [trunk[Len(trunk)] EXCEPT !.ceiling = syncHead.ceiling, !.rest = r] \in MainContents
      BY <3>1, <3>2 DEF MainContents, Commits
    <3>4. [trunk[Len(trunk)] EXCEPT !.ceiling = syncHead.ceiling,
             !.rest = IF syncHead.rest = trunk[syncHead.base].rest THEN @ ELSE syncHead.rest] \in MainContents
      BY <3>3
    <3> QED
      BY <2>1, <3>4 DEF MergesPr, MainGrows
  <2>2. CASE ~MergesPr
    BY <2>2 DEF ClosesEmpty, MainMoves, ClosesPr, OpensPr, Deletes, MainGrows
  <2> QED
    BY <2>1, <2>2
<1>4. syncHead' \in {syncHead, None}
  BY DEF ClosesEmpty, MainMoves, MergesPr, ClosesPr, OpensPr, Deletes
<1>5. \/ prOpen' = FALSE /\ prShown' = None
      \/ UNCHANGED <<prOpen, prShown>>
      \/ prOpen' = TRUE /\ prShown' = syncHead /\ syncHead # None
  BY DEF ClosesEmpty, MainMoves, MergesPr, ClosesPr, OpensPr, Deletes
<1>6. prOpen' \in BOOLEAN /\ (prOpen' => prShown' # None)
  <2>1. CASE prOpen' = FALSE
    BY <2>1, Zenon
  <2>2. CASE UNCHANGED <<prOpen, prShown>>
    BY <1>0, <2>2 DEF PublishTypes
  <2>3. CASE prOpen' = TRUE /\ prShown' = syncHead /\ syncHead # None
    BY <2>3, Zenon
  <2> QED
    BY <1>5, <2>1, <2>2, <2>3
<1>7. {syncHead', prShown'} \subseteq Commits \cup {None}
  BY <1>0, <1>4, <1>5 DEF PublishTypes
<1>8. syncHead' # None => WorkShows(syncHead)'
  <2>1. syncHead' # None => syncHead' = syncHead /\ syncHead \in Commits /\ WorkShows(syncHead)
    BY <1>0, <1>4 DEF PublishTypes
  <2> QED
    BY <1>0, <1>2, <1>3, <2>1, WorkStays DEF WorkShows
<1> QED
  BY <1>1, <1>2, <1>3, <1>6, <1>7, <1>8, OthersAct

\* A commit upon another holds somebody's work if it brings some or the other one did.
LEMMA CommitKeepsPublish ==
    ASSUME PublishInv, SomeoneCommits
    PROVE  PublishInv'
<1>0. PublishTypes /\ WorkInv /\ (prOpen => prShown # None)
  BY DEF PublishInv
<1>1. touched' = TRUE /\ UNCHANGED <<publishStep, seenVars, publishes, discarded, trunk, prOpen, prShown>>
  BY DEF SomeoneCommits
<1>2. commits' = commits + 1 /\ commits \in Nat /\ commits' \in Nat
  <2>1. commits \in Nat
    BY <1>0 DEF PublishTypes
  <2>2. commits' = commits + 1
    BY DEF SomeoneCommits
  <2> QED
    BY <2>1, <2>2
<1>3. WorkGrows /\ MainGrows
  BY <1>1, <1>2 DEF SomeoneCommits, WorkGrows, MainGrows
<1>4. /\ Parent \in Commits /\ Parent.base \in 1 .. Len(trunk) /\ Parent.id <= commits
      /\ Parent.id \in othersWork <=> Parent.outside \/ Parent.rest # trunk[Parent.base].rest
  <2>1. CASE syncHead # None
    <3>1. Parent = syncHead /\ syncHead \in Commits /\ WorkShows(syncHead)
      BY <1>0, <2>1 DEF Parent, PublishTypes, WorkInv
    <3> QED
      BY <1>0, <3>1 DEF Commits, WorkShows, PublishTypes
  <2>2. CASE syncHead = None
    <3> DEFINE newest == trunk[Len(trunk)]
    <3>1. Len(trunk) \in 1 .. Len(trunk)
      BY <1>0 DEF PublishTypes
    <3>2. newest \in MainContents
      BY <1>0, <3>1, CommitOf DEF PublishTypes
    <3>3. newest.ceiling \in Ceilings /\ newest.rest \in Rests
      BY <3>2 DEF MainContents
    <3>4. Parent = [id |-> 0, base |-> Len(trunk), ceiling |-> newest.ceiling, rest |-> newest.rest, outside |-> FALSE]
      BY <2>2 DEF Parent
    <3> HIDE DEF newest
    <3>5. /\ Parent.id = 0 /\ Parent.base = Len(trunk) /\ Parent.ceiling = newest.ceiling
          /\ Parent.rest = newest.rest /\ ~Parent.outside
      BY <3>4, Zenon
    <3>6. Parent \in Commits
      <4>1. FALSE \in BOOLEAN
        BY Zenon
      <4> QED
        BY <3>1, <3>3, <3>4, <4>1 DEF Commits
    <3>7. 0 \notin othersWork
      BY <1>0 DEF PublishTypes
    <3> QED
      BY <1>2, <3>1, <3>5, <3>6, <3>7 DEF newest
  <2> QED
    BY <2>1, <2>2
<1>5. /\ syncHead' \in Commits /\ syncHead'.base = Parent.base /\ syncHead'.id = commits + 1
      /\ \/ syncHead'.outside = Parent.outside /\ syncHead'.rest = Parent.rest
         \/ syncHead'.outside /\ syncHead'.rest = Parent.rest
         \/ syncHead'.rest # trunk[Parent.base].rest /\ syncHead'.outside = Parent.outside
  <2>1. PICK c \in Commits, n \in Nat : c = Parent /\ n = commits'
    BY <1>2, <1>4
  <2>0. PICK d : d = syncHead'
    OBVIOUS
  <2>2. ASSUME d \in Commits, d.base = c.base, d.id = n,
               \/ d.outside = c.outside /\ d.rest = c.rest
               \/ d.outside /\ d.rest = c.rest
               \/ d.rest # trunk[c.base].rest /\ d.outside = c.outside
        PROVE  /\ syncHead' \in Commits /\ syncHead'.base = Parent.base /\ syncHead'.id = commits + 1
               /\ \/ syncHead'.outside = Parent.outside /\ syncHead'.rest = Parent.rest
                  \/ syncHead'.outside /\ syncHead'.rest = Parent.rest
                  \/ syncHead'.rest # trunk[Parent.base].rest /\ syncHead'.outside = Parent.outside
    BY <1>2, <2>0, <2>1, <2>2, Zenon
  <2>3. CASE \E x \in Ceilings : d = [c EXCEPT !.id = n, !.ceiling = x]
    <3>1. d \in Commits /\ d.id = n /\ d.base = c.base /\ d.rest = c.rest /\ d.outside = c.outside
      BY <2>3 DEF Commits
    <3> QED
      BY <2>2, <3>1, Zenon
  <2>4. CASE d = [c EXCEPT !.id = n, !.outside = TRUE]
    <3>1. d.outside = TRUE /\ TRUE \in BOOLEAN
      BY <2>4 DEF Commits
    <3>2. d \in Commits /\ d.id = n /\ d.base = c.base /\ d.rest = c.rest
      BY <2>4, <3>1 DEF Commits
    <3>3. d.outside
      BY <3>1, Zenon
    <3> QED
      BY <2>2, <3>2, <3>3, Zenon
  <2>5. CASE \E r \in Rests \ {trunk[c.base].rest} : d = [c EXCEPT !.id = n, !.rest = r]
    <3>1. /\ d \in Commits /\ d.id = n /\ d.base = c.base /\ d.rest # trunk[c.base].rest
          /\ d.outside = c.outside
      BY <2>5 DEF Commits
    <3> QED
      BY <2>2, <3>1, Zenon
  <2> QED
    BY <2>0, <2>1, <2>3, <2>4, <2>5 DEF SomeoneCommits
<1>6. commits + 1 \in othersWork' <=> Works(syncHead') \/ Parent.id \in othersWork
  <2>1. commits + 1 \notin othersWork
    BY <1>0, <1>2 DEF PublishTypes
  <2>2. othersWork' = IF Works(syncHead') \/ Parent.id \in othersWork THEN othersWork \cup {commits + 1} ELSE othersWork
    BY <1>2, Zenon DEF SomeoneCommits
  <2> HIDE DEF Works
  <2> QED
    BY <2>1, <2>2
<1>7. Works(syncHead') <=> syncHead'.outside # Parent.outside \/ syncHead'.rest # Parent.rest
  BY DEF Works
<1>8. syncHead'.outside \in BOOLEAN /\ Parent.outside \in BOOLEAN
  BY <1>4, <1>5 DEF Commits
<1>9. commits + 1 \in othersWork' <=> syncHead'.outside \/ syncHead'.rest # trunk[Parent.base].rest
  BY <1>4, <1>5, <1>6, <1>7, <1>8
<1>10. WorkShows(syncHead)'
  BY <1>0, <1>1, <1>2, <1>4, <1>5, <1>9 DEF WorkShows, PublishTypes
<1>11. {syncHead', prShown'} \subseteq Commits \cup {None} /\ prOpen' \in BOOLEAN /\ (prOpen' => prShown' # None)
  BY <1>0, <1>1, <1>5 DEF PublishTypes
<1> QED
  BY <1>1, <1>3, <1>10, <1>11, OthersAct

\* GitHub catches up with the branch.
LEMMA ShowsKeepsPublish ==
    ASSUME PublishInv, Shows
    PROVE  PublishInv'
<1>1. UNCHANGED <<trunk, syncHead, prOpen, publishStep, mainHead, prHead, remoteHead, commits, publishes,
                  othersWork, discarded, touched>>
  BY DEF Shows, seenVars
<1>2. prShown' = syncHead /\ syncHead # None
  BY DEF Shows
<1>3. PublishTypes'
  BY <1>1, <1>2 DEF PublishInv, PublishTypes
<1> QED
  BY <1>1, <1>2, <1>3
     DEF PublishInv, NothingDiscarded, WorkInv, WorkShows, FoundInv, OtherFiles, MergeBase, BeyondCeiling,
         UncrossedInv, SameFile, Wanted, RefusesWorkOnly, PublishedIsTrue, InSync

\* Of a branch that was begun on the main that was read, or before, the two comparisons
\* show somebody's work and nothing else.
LEMMA RefusalHasReason ==
    ASSUME PublishTypes, WorkInv, mainHead >= 1, remoteHead # None
    PROVE  /\ OtherFiles(remoteHead) \/ BeyondCeiling(remoteHead)
                => remoteHead.id \in othersWork \/ remoteHead.base > mainHead
           /\ ~OtherFiles(remoteHead) /\ ~BeyondCeiling(remoteHead)
                => remoteHead.id \notin othersWork \/ remoteHead.base > mainHead
<1>1. remoteHead \in Commits /\ WorkShows(remoteHead) /\ mainHead \in Nat
  BY DEF PublishTypes, WorkInv
<1>2. remoteHead.base \in Nat
  BY <1>1 DEF Commits
<1>3. CASE remoteHead.base <= mainHead
  BY <1>1, <1>3 DEF WorkShows, OtherFiles, BeyondCeiling, MergeBase
<1> QED
  BY <1>1, <1>2, <1>3

\* The run reads main, the pull request and the branch, decides, or is cut off: nothing of
\* GitHub's changes.
LEMMA ReadsKeepPublish ==
    ASSUME PublishInv, Begin \/ FetchMain \/ ListPr \/ LsRemote \/ FetchBranch \/ CompareSides \/ CutOff
    PROVE  PublishInv'
<1>0. /\ PublishTypes /\ WorkInv /\ FoundInv /\ UncrossedInv /\ RefusesWorkOnly /\ PublishedIsTrue
      /\ prOpen => prShown # None
  BY DEF PublishInv
<1>1. UNCHANGED <<trunk, syncHead, prOpen, prShown, commits, othersWork, discarded>>
  BY DEF remote, seenVars, Begin, FetchMain, ListPr, LsRemote, FetchBranch, CompareSides, CutOff
<1>2. ASSUME PublishTypes', remoteHead' \in {remoteHead, syncHead, None},
             FoundInv', UncrossedInv', RefusesWorkOnly', PublishedIsTrue'
      PROVE  PublishInv'
  <2>1. WorkInv'
    BY <1>0, <1>1, <1>2 DEF WorkInv, WorkShows
  <2> QED
    BY <1>0, <1>1, <1>2, <2>1 DEF PublishInv, NothingDiscarded
<1>3. CASE Begin
  <2>1. /\ publishStep' = "main" /\ mainHead' = 0 /\ prHead' = None /\ remoteHead' = None
        /\ publishes' \in 0 .. MaxPublishes
    BY <1>0, <1>3, PublishAssumption DEF Begin, PublishTypes
  <2>2. touched' \in BOOLEAN
    BY <1>3, Zenon DEF Begin
  <2>3. PublishTypes'
    BY <1>0, <1>1, <2>1, <2>2 DEF PublishTypes
  <2> QED
    BY <1>2, <2>1, <2>3 DEF FoundInv, UncrossedInv, RefusesWorkOnly, PublishedIsTrue
<1>4. CASE FetchMain
  <2>1. /\ publishStep' = "pr" /\ mainHead' = Len(trunk) /\ UNCHANGED <<prHead, remoteHead, publishes, touched>>
    BY <1>4 DEF FetchMain
  <2>2. PublishTypes'
    BY <1>0, <1>1, <2>1 DEF PublishTypes
  <2> QED
    BY <1>0, <1>1, <1>2, <2>1, <2>2 DEF PublishTypes, FoundInv, UncrossedInv, RefusesWorkOnly, PublishedIsTrue
<1>5. CASE ListPr
  <2>1. /\ publishStep = "pr" /\ publishStep' = "head" /\ prHead' = IF prOpen THEN prShown ELSE None
        /\ UNCHANGED <<mainHead, remoteHead, publishes, touched>>
    BY <1>5 DEF ListPr
  <2>2. PublishTypes'
    BY <1>0, <1>1, <2>1 DEF PublishTypes
  <2>3. prHead' # None <=> prOpen
    BY <1>0, <2>1
  <2> QED
    BY <1>0, <1>1, <1>2, <2>1, <2>2, <2>3 DEF FoundInv, UncrossedInv, RefusesWorkOnly, PublishedIsTrue
<1>6. CASE LsRemote
  <2>1. /\ publishStep = "head" /\ publishStep' \in {"failed", "prepare", "branch"} /\ remoteHead' = syncHead
        /\ publishStep' = "prepare" => syncHead = None
        /\ publishStep' = "branch" => syncHead # None
        /\ UNCHANGED <<mainHead, prHead, publishes, touched>>
    BY <1>6 DEF LsRemote
  <2>2. PublishTypes'
    BY <1>0, <1>1, <2>1 DEF PublishTypes, PublishOver
  <2>3. FoundInv'
    BY <1>0, <1>1, <2>1 DEF FoundInv
  <2>4. UncrossedInv'
    BY <1>0, <1>1, <2>1 DEF UncrossedInv
  <2>5. RefusesWorkOnly' /\ PublishedIsTrue'
    BY <2>1 DEF RefusesWorkOnly, PublishedIsTrue
  <2> QED
    BY <1>2, <2>1, <2>2, <2>3, <2>4, <2>5
<1>7. CASE FetchBranch
  <2>1. /\ publishStep = "branch" /\ publishStep' \in {"failed", "refused", "prepare"}
        /\ publishStep' = "refused" => OtherFiles(remoteHead)
        /\ publishStep' = "prepare" => ~OtherFiles(remoteHead)
        /\ publishStep' # "failed" => syncHead = remoteHead
        /\ UNCHANGED <<mainHead, prHead, remoteHead, publishes, touched>>
    BY <1>7 DEF FetchBranch, seenVars
  <2>2. PublishTypes'
    BY <1>0, <1>1, <2>1 DEF PublishTypes, PublishOver
  <2>3. FoundInv'
    BY <1>0, <1>1, <2>1 DEF FoundInv, OtherFiles, MergeBase
  <2>4. UncrossedInv'
    BY <1>0, <1>1, <2>1 DEF UncrossedInv
  <2>5. PublishedIsTrue'
    BY <2>1 DEF PublishedIsTrue
  <2>6. RefusesWorkOnly'
    BY <1>0, <1>1, <2>1, RefusalHasReason DEF FoundInv, RefusesWorkOnly
  <2> QED
    BY <1>2, <2>1, <2>2, <2>3, <2>4, <2>5, <2>6
<1>8. CASE CompareSides
  <2>1. /\ publishStep = "prepare" /\ publishStep' \in {"refused", "nothing", "create", "push"}
        /\ publishStep' = "refused" => remoteHead # None /\ BeyondCeiling(remoteHead)
        /\ publishStep' = "nothing" => prHead = None /\ InSync(mainHead)
        /\ publishStep' = "create" => remoteHead # None /\ SameFile(remoteHead, mainHead)
        /\ publishStep' = "push" /\ remoteHead # None => ~BeyondCeiling(remoteHead)
        /\ UNCHANGED <<mainHead, prHead, remoteHead, publishes, touched>>
    BY <1>8 DEF CompareSides, seenVars
  <2>2. PublishTypes'
    BY <1>0, <1>1, <2>1 DEF PublishTypes, PublishOver
  <2>3. FoundInv'
    BY <1>0, <1>1, <2>1 DEF FoundInv, OtherFiles, MergeBase, BeyondCeiling
  <2>4. RefusesWorkOnly'
    BY <1>0, <1>1, <2>1, RefusalHasReason DEF FoundInv, RefusesWorkOnly
  <2>5. publishStep' = "create" => ~remoteHead.outside
    BY <1>0, <2>1 DEF FoundInv, OtherFiles
  <2>6. UncrossedInv'
    BY <1>0, <1>1, <2>1, <2>5 DEF UncrossedInv, SameFile, Wanted
  <2>7. PublishedIsTrue'
    BY <1>0, <1>1, <2>1 DEF UncrossedInv, PublishedIsTrue, InSync, Wanted
  <2> QED
    BY <1>2, <2>1, <2>2, <2>3, <2>4, <2>6, <2>7
<1>9. CASE CutOff
  <2>1. publishStep' = "failed" /\ UNCHANGED <<mainHead, prHead, remoteHead, publishes, touched>>
    BY <1>9 DEF CutOff, seenVars
  <2>2. PublishTypes'
    BY <1>0, <1>1, <2>1 DEF PublishTypes, PublishOver
  <2> QED
    BY <1>2, <2>1, <2>2 DEF FoundInv, UncrossedInv, RefusesWorkOnly, PublishedIsTrue
<1> QED
  BY <1>3, <1>4, <1>5, <1>6, <1>7, <1>8, <1>9

\* The lease holds the push to the branch that was looked into, which has nobody's work.
LEMMA PushKeepsPublish ==
    ASSUME PublishInv, PushBranch
    PROVE  PublishInv'
<1>0. /\ PublishTypes /\ WorkInv /\ FoundInv /\ UncrossedInv
      /\ prOpen => prShown # None
      /\ publishStep = "push" /\ mainHead \in 1 .. Len(trunk) /\ discarded = {}
  BY DEF PublishInv, PushBranch, FoundInv, PublishTypes, NothingDiscarded
<1>1. UNCHANGED <<trunk, prOpen, prShown, mainHead, prHead, remoteHead, publishes, othersWork, touched>>
  BY DEF PushBranch, seenVars
<1>2. CASE publishStep' = "failed" /\ UNCHANGED <<syncHead, commits, discarded>>
  <2>1. PublishTypes'
    BY <1>0, <1>1, <1>2 DEF PublishTypes, PublishOver
  <2>2. WorkInv'
    BY <1>0, <1>1, <1>2 DEF WorkInv, WorkShows
  <2> QED
    BY <1>0, <1>1, <1>2, <2>1, <2>2
       DEF PublishInv, NothingDiscarded, FoundInv, UncrossedInv, RefusesWorkOnly, PublishedIsTrue
<1>3. CASE /\ syncHead = remoteHead
           /\ syncHead' = Synced(mainHead) /\ commits' = IF syncHead'.id = 0 THEN commits ELSE syncHead'.id
           /\ discarded' = discarded \cup Replaced
           /\ publishStep' \in {"create", "failed"}
  <2>1. Replaced = {}
    <3> SUFFICES ASSUME NEW id \in Replaced PROVE FALSE
      OBVIOUS
    <3>1. remoteHead # None /\ remoteHead.id \in othersWork /\ remoteHead.base <= mainHead
      BY <1>3 DEF Replaced
    <3>2. remoteHead \in Commits
      BY <1>0, <3>1 DEF PublishTypes
    <3>3. ~(remoteHead.base > mainHead)
      BY <1>0, <3>1, <3>2 DEF Commits
    <3> QED
      BY <1>0, <3>1, <3>3, RefusalHasReason DEF FoundInv
  <2>2. discarded' = {}
    BY <1>0, <1>3, <2>1
  <2>3. trunk \in Seq(MainContents) /\ trunk[mainHead] \in MainContents /\ Wanted(mainHead) \in Ceilings /\ commits \in Nat
    BY <1>0, CommitOf, WantedIsCeiling DEF PublishTypes
  <2> DEFINE id == IF InSync(mainHead) THEN 0 ELSE commits + 1
  <2>4. Synced(mainHead) = [id |-> id, base |-> mainHead, ceiling |-> Wanted(mainHead),
                            rest |-> trunk[mainHead].rest, outside |-> FALSE]
    BY DEF Synced
  <2>5. id \in {0, commits + 1} /\ id \in Nat
    BY <2>3
  <2> HIDE DEF id
  <2>6. /\ syncHead'.id = id /\ syncHead'.base = mainHead /\ syncHead'.ceiling = Wanted(mainHead)
        /\ syncHead'.rest = trunk[mainHead].rest /\ ~syncHead'.outside
    <3>1. syncHead' = [id |-> id, base |-> mainHead, ceiling |-> Wanted(mainHead),
                       rest |-> trunk[mainHead].rest, outside |-> FALSE]
      BY <1>3, <2>4
    <3> QED
      BY <3>1, Zenon
  <2>7. syncHead' \in Commits
    <3>1. FALSE \in BOOLEAN /\ trunk[mainHead].rest \in Rests /\ mainHead \in Nat \ {0}
      BY <1>0, <2>3 DEF MainContents
    <3> QED
      BY <1>3, <2>3, <2>4, <2>5, <3>1 DEF Commits
  <2>8. syncHead' # None
    BY <2>7, NoneAssumption
  <2>9. commits' = (IF id = 0 THEN commits ELSE id) /\ commits' \in Nat /\ commits <= commits'
    BY <1>3, <2>3, <2>5, <2>6
  <2>10. id \notin othersWork /\ id <= commits'
    BY <1>0, <2>3, <2>5, <2>9 DEF PublishTypes
  <2>11. WorkShows(syncHead)'
    BY <1>0, <1>1, <2>6, <2>10 DEF WorkShows
  <2>12. remoteHead # None => WorkShows(remoteHead)'
    <3> SUFFICES ASSUME remoteHead # None PROVE WorkShows(remoteHead)'
      OBVIOUS
    <3>1. remoteHead \in Commits /\ WorkShows(remoteHead)
      BY <1>0 DEF PublishTypes, WorkInv
    <3> QED
      BY <1>1, <2>3, <2>9, <3>1 DEF WorkShows, Commits
  <2>13. PublishTypes'
    <3>1. othersWork \subseteq 1 .. commits'
      BY <1>0, <2>3, <2>9 DEF PublishTypes
    <3> QED
      BY <1>0, <1>1, <1>3, <2>7, <2>9, <3>1 DEF PublishTypes, PublishOver
  <2>14. WorkInv'
    BY <1>1, <2>11, <2>12 DEF WorkInv
  <2>15. FoundInv'
    BY <1>0, <1>1, <1>3 DEF FoundInv
  <2>16. SameFile(syncHead, mainHead)'
    BY <1>1, <2>6 DEF SameFile, Wanted
  <2>17. UncrossedInv'
    BY <1>0, <1>1, <1>3, <2>6, <2>8, <2>16 DEF UncrossedInv
  <2> QED
    BY <1>0, <1>1, <1>3, <2>2, <2>13, <2>14, <2>15, <2>17
       DEF PublishInv, NothingDiscarded, RefusesWorkOnly, PublishedIsTrue
<1> QED
  BY <1>2, <1>3 DEF PushBranch, LeaseHolds

LEMMA CreateKeepsPublish ==
    ASSUME PublishInv, CreatePr
    PROVE  PublishInv'
<1>0. /\ PublishTypes /\ WorkInv /\ FoundInv /\ UncrossedInv
      /\ prOpen => prShown # None
      /\ publishStep = "create"
  BY DEF PublishInv, CreatePr
<1>1. UNCHANGED <<trunk, syncHead, mainHead, prHead, remoteHead, commits, publishes, othersWork, discarded, touched>>
  BY DEF CreatePr, seenVars
<1>2. CASE publishStep' = "failed"
  <2>1. /\ prOpen' \in BOOLEAN /\ prShown' \in Commits \cup {None}
        /\ prOpen' => prShown' # None
    <3>1. CASE UNCHANGED <<prOpen, prShown>>
      BY <1>0, <3>1 DEF PublishTypes
    <3>2. CASE syncHead # None /\ prOpen' = TRUE /\ prShown' = syncHead
      <4>1. prOpen' \in BOOLEAN
        BY <3>2, Zenon
      <4> QED
        BY <1>0, <3>2, <4>1 DEF PublishTypes
    <3> QED
      BY <1>2, <3>1, <3>2 DEF CreatePr
  <2>2. PublishTypes'
    BY <1>0, <1>1, <1>2, <2>1 DEF PublishTypes, PublishOver
  <2>3. WorkInv'
    BY <1>0, <1>1 DEF WorkInv, WorkShows
  <2> QED
    BY <1>1, <1>2, <2>1, <2>2, <2>3
       DEF PublishInv, NothingDiscarded, FoundInv, UncrossedInv, RefusesWorkOnly, PublishedIsTrue
<1>3. CASE publishStep' = "done"
  <2>1. /\ prOpen' \in BOOLEAN /\ prShown' \in Commits \cup {None}
        /\ prOpen' => prShown' # None
        /\ ~touched => prOpen'
    <3>1. CASE prHead # None /\ UNCHANGED <<prOpen, prShown>>
      BY <1>0, <3>1 DEF PublishTypes, UncrossedInv
    <3>2. CASE syncHead # None /\ prOpen' = TRUE /\ prShown' = syncHead
      <4>1. prOpen' \in BOOLEAN /\ prOpen'
        BY <3>2, Zenon
      <4> QED
        BY <1>0, <3>2, <4>1 DEF PublishTypes
    <3> QED
      BY <1>3, <3>1, <3>2 DEF CreatePr
  <2>2. PublishTypes'
    BY <1>0, <1>1, <1>3, <2>1 DEF PublishTypes, PublishOver
  <2>3. WorkInv'
    BY <1>0, <1>1 DEF WorkInv, WorkShows
  <2>4. PublishedIsTrue'
    BY <1>0, <1>1, <1>3, <2>1 DEF UncrossedInv, PublishedIsTrue, SameFile, Wanted
  <2> QED
    BY <1>1, <1>3, <2>1, <2>2, <2>3, <2>4
       DEF PublishInv, NothingDiscarded, FoundInv, UncrossedInv, RefusesWorkOnly
<1> QED
  BY <1>2, <1>3 DEF CreatePr

\* "Only replace the observed branch head, and refuse to discard edits outside the ceiling
\* managed by the sync": whatever others do to main, the branch and the pull request between
\* any two steps, for any number of commits and runs, no push replaces a commit with
\* somebody's work, what a run reports as published is there and what it refuses has a reason.
THEOREM CeilingIsSafe == PublishSpec => []CeilingSafe
<1>1. PublishInv /\ [PublishNext]_publishVars => PublishInv'
  <2> SUFFICES ASSUME PublishInv, [PublishNext]_publishVars PROVE PublishInv'
    OBVIOUS
  <2>1. CASE UNCHANGED publishVars
    BY <2>1
       DEF publishVars, PublishInv, PublishTypes, NothingDiscarded, WorkInv, WorkShows, FoundInv, OtherFiles,
           MergeBase, BeyondCeiling, UncrossedInv, SameFile, Wanted, RefusesWorkOnly, PublishedIsTrue, InSync
  <2>2. CASE PublishNext
    BY <2>2, ReadsKeepPublish, PushKeepsPublish, CreateKeepsPublish, ShowsKeepsPublish, OthersKeepPublish,
       CommitKeepsPublish
       DEF PublishNext
  <2> QED
    BY <2>1, <2>2
<1> QED
  BY <1>1, PublishStarts, PublishesAreSafe, PTL DEF PublishSpec

-----------------------------------------------------------------------------
(* CaddyPromote.                                                           *)

HoldingStages == {"building", "built", "qualified", "matching"}
EndedStages == {"unselected", "cancelled", "failed", "warned", "promoted"}
BuiltReports(pins) == {Pinned(pins)} \cup {[Pinned(pins) EXCEPT ![field] = "other"] : field \in DOMAIN Pinned(pins)}
RunStages == {"scope", "waiting"} \cup HoldingStages \cup EndedStages
ImageReports == {<<>>} \cup UNION {BuiltReports(pins) : pins \in InputVersions}
RunRecords ==
    [commit : Nat, before : Nat, asked : BOOLEAN, seen : Nat, stage : RunStages, report : ImageReports]

CaddyTypes ==
    /\ branch \in Seq(InputVersions) /\ Newest \in 1 .. MaxCommits /\ flagged \in BOOLEAN
    /\ publishers \in Seq(RunRecords) /\ Len(publishers) <= MaxRuns
    /\ candidate.seen \in 1 .. Newest

\* A run that qualified has the image that its commit pins, and while it is about to write
\* the tag nobody else has moved it past what the run saw.
RunInv(p) ==
    /\ p.commit \in 1 .. Newest /\ p.before \in 1 .. Newest /\ p.seen \in 0 .. Newest
    /\ p.stage = "built" => p.report \in BuiltReports(Inputs(p.commit))
    /\ p.stage \in {"qualified", "matching"} =>
          OneRelease(Inputs(p.commit)) /\ p.report = Pinned(Inputs(p.commit))
    /\ p.stage = "matching" => p.seen >= candidate.seen

Holding(p) == p.stage \in HoldingStages
OneHolds == \A r, s \in Runs : Holding(publishers[r]) /\ Holding(publishers[s]) => r = s
OneWaits == \A r, s \in Runs : publishers[r].stage = "waiting" /\ publishers[s].stage = "waiting" => r = s

\* Runs that will yet compare their inputs with main's, or that have and found them the same.
InCharge(p) ==
    \/ p.stage \in {"waiting", "building", "built", "qualified"}
    \/ p.stage = "matching" /\ Inputs(p.commit) = Inputs(Newest)
    \/ p.stage = "scope" /\ (p.asked \/ Inputs(p.before) # Inputs(p.commit))
\* The tag is not main's, or a run is about to make it so.
AtRisk ==
    \/ candidate.inputs # Inputs(Newest)
    \/ \E r \in Runs : publishers[r].stage = "matching" /\ Inputs(publishers[r].commit) # Inputs(Newest)
\* There is always one in charge while the tag may stay behind and nothing has said so.
ChargeInv == AtRisk /\ ~flagged => \E r \in Runs : InCharge(publishers[r])

CaddyInv ==
    /\ CaddyTypes /\ CandidateQualified /\ (\A r \in Runs : RunInv(publishers[r]))
    /\ OneHolds /\ OneWaits /\ ChargeInv

LEMMA AtMostOne ==
    ASSUME NEW S, \A x, y \in S : x = y
    PROVE  Cardinality(S) <= 1
<1>1. CASE S = {}
  <2>1. Cardinality(S) = 0
    BY <1>1, FS_EmptySet, Zenon
  <2> QED
    BY <2>1
<1>2. CASE S # {}
  <2>1. PICK x : S = {x}
    BY <1>2
  <2>2. Cardinality(S) = 1
    BY <2>1, FS_Singleton, Zenon
  <2> QED
    BY <2>2
<1> QED
  BY <1>1, <1>2

\* The verification leaves one image of those a build may come to.
LEMMA VerifiedIsPinned ==
    ASSUME NEW pins, NEW report \in BuiltReports(pins), OneRelease(pins), AsPinned(pins, report)
    PROVE  report = Pinned(pins)
<1>1. DOMAIN Pinned(pins) = {"replaced", "core", "plugin", "compiler", "cli", "modules", "builder", "runtime",
                             "platform", "served", "go"}
  BY DEF Pinned
<1>2. \A g \in DOMAIN Pinned(pins) : report[g] = Pinned(pins)[g]
  BY <1>1 DEF AsPinned, LinkedAsPinned, OneRelease, Pinned
<1>3. Pinned(pins) = [g \in DOMAIN Pinned(pins) |-> Pinned(pins)[g]]
  BY DEF Pinned
<1>4. DOMAIN report = DOMAIN Pinned(pins) /\ report = [g \in DOMAIN report |-> report[g]]
  BY <1>3 DEF BuiltReports
<1> QED
  BY <1>2, <1>3, <1>4

LEMMA RunOf ==
    ASSUME NEW r \in Runs, publishers \in Seq(RunRecords)
    PROVE  publishers[r] \in RunRecords
BY DEF Runs

LEMMA InputsOf ==
    ASSUME NEW i \in 1 .. Newest, branch \in Seq(InputVersions)
    PROVE  Inputs(i) \in InputVersions
BY DEF Inputs, Newest

LEMMA PromotionsAreSafe == CaddyInv => PromotionSafe
<1> SUFFICES ASSUME CaddyInv PROVE PromotionSafe
  OBVIOUS
<1>1. Cardinality(Holders) <= 1
  <2>1. \A r, s \in Holders : r = s
    BY DEF CaddyInv, OneHolds, Holders, Holding, HoldingStages
  <2> QED
    BY <2>1, AtMostOne
<1>2. Cardinality({r \in Runs : publishers[r].stage = "waiting"}) <= 1
  <2>1. \A r, s \in {r \in Runs : publishers[r].stage = "waiting"} : r = s
    BY DEF CaddyInv, OneWaits
  <2> QED
    BY <2>1, AtMostOne
<1>3. CaddyTypeOK
  BY <1>1, <1>2 DEF CaddyInv, CaddyTypes, RunInv, CaddyTypeOK
<1>4. StaleIsFlagged
  <2> SUFFICES ASSUME \A r \in Runs : publishers[r].stage \in EndedStages, ~flagged
               PROVE  candidate.inputs = Inputs(Newest)
    BY DEF StaleIsFlagged, EndedStages
  <2>1. \A r \in Runs : ~InCharge(publishers[r])
    BY DEF InCharge, EndedStages
  <2> QED
    BY <2>1 DEF CaddyInv, ChargeInv, AtRisk
<1> QED
  BY <1>3, <1>4 DEF CaddyInv, PromotionSafe

LEMMA CaddyStarts == CaddyInit => CaddyInv
<1> SUFFICES ASSUME CaddyInit PROVE CaddyInv
  OBVIOUS
<1>1. PICK v \in InputVersions :
        OneRelease(v) /\ branch = <<v>> /\ candidate = [inputs |-> v, report |-> Pinned(v), seen |-> 1]
  BY DEF CaddyInit
<1>2. branch \in Seq(InputVersions) /\ Len(branch) = 1 /\ branch[1] = v
  BY <1>1
<1>3. publishers \in Seq(RunRecords) /\ Len(publishers) = 0 /\ Runs = {}
  BY DEF CaddyInit, Runs
<1>4. flagged \in BOOLEAN
  BY Zenon DEF CaddyInit
<1>5. CaddyTypes
  BY <1>1, <1>2, <1>3, <1>4, CaddyAssumption DEF CaddyTypes, Newest
<1>6. ~AtRisk
  BY <1>1, <1>2, <1>3 DEF AtRisk, Inputs, Newest
<1> QED
  BY <1>1, <1>3, <1>5, <1>6 DEF CaddyInv, CandidateQualified, OneHolds, OneWaits, ChargeInv

\* A step of one run that leaves main and the tag alone, and that does not leave the tag
\* behind without having said so.
LEMMA OneRunMoves ==
    ASSUME CaddyInv, NEW r \in Runs, NEW p \in RunRecords, publishers' = [publishers EXCEPT ![r] = p],
           UNCHANGED <<branch, candidate>>, RunInv(p),
           Holding(p) => Holding(publishers[r]) \/ Holders = {},
           p.stage # "waiting",
           p.stage = "matching" => Inputs(p.commit) = Inputs(Newest),
           flagged' \in BOOLEAN, flagged => flagged', flagged' \/ (InCharge(publishers[r]) => InCharge(p))
    PROVE  CaddyInv'
<1>1. /\ publishers' \in Seq(RunRecords) /\ Len(publishers') = Len(publishers) /\ Runs' = Runs
      /\ \A s \in Runs : publishers'[s] = IF s = r THEN p ELSE publishers[s]
  BY DEF CaddyInv, CaddyTypes, Runs
<1>2. CaddyTypes'
  BY <1>1 DEF CaddyInv, CaddyTypes, Newest
<1>3. CandidateQualified'
  BY DEF CaddyInv, CandidateQualified
<1>4. ASSUME NEW s \in Runs PROVE RunInv(publishers[s])'
  <2>1. RunInv(publishers'[s])
    BY <1>1 DEF CaddyInv
  <2> QED
    BY <2>1 DEF RunInv, Newest, Inputs
<1>5. OneHolds'
  <2>1. Holding(publishers[r]) \/ Holders = {} => \A s \in Runs : Holding(publishers[s]) => s = r
    BY DEF CaddyInv, OneHolds, Holders, Holding, HoldingStages
  <2> QED
    BY <1>1, <2>1 DEF CaddyInv, OneHolds, Holding
<1>6. OneWaits'
  BY <1>1 DEF CaddyInv, OneWaits
<1>7. ChargeInv'
  <2> SUFFICES ASSUME AtRisk', ~flagged' PROVE \E s \in Runs : InCharge(publishers[s])'
    BY <1>1 DEF ChargeInv
  <2>1. AtRisk
    BY <1>1 DEF AtRisk, Inputs, Newest
  <2>2. PICK s \in Runs : InCharge(publishers[s])
    BY <2>1 DEF CaddyInv, ChargeInv
  <2>3. InCharge(publishers'[s])
    BY <1>1, <2>2
  <2> QED
    BY <2>3 DEF InCharge, Inputs, Newest
<1> QED
  BY <1>1, <1>2, <1>3, <1>4, <1>5, <1>6, <1>7 DEF CaddyInv

LEMMA StageKeepsCaddy ==
    ASSUME CaddyInv, NEW r \in Runs, StartPromotion(r) \/ BuildImage(r) \/ Qualify(r) \/ Compare(r) \/ JobFails(r)
    PROVE  CaddyInv'
<1> DEFINE q == publishers[r]
<1>0. /\ q \in RunRecords /\ RunInv(q) /\ flagged \in BOOLEAN /\ branch \in Seq(InputVersions)
      /\ q.commit \in 1 .. Newest /\ Inputs(q.commit) \in InputVersions
  <2>1. q \in RunRecords /\ RunInv(q) /\ flagged \in BOOLEAN /\ branch \in Seq(InputVersions)
    BY RunOf DEF CaddyInv, CaddyTypes
  <2>2. q.commit \in 1 .. Newest
    BY <2>1 DEF RunInv
  <2> QED
    BY <2>1, <2>2, InputsOf
<1> HIDE DEF q
<1>1. ASSUME q.stage \in HoldingStages, NEW stage \in {"failed", "warned"}, Ends(r, stage), flagged' = TRUE,
             UNCHANGED <<branch, candidate>>
      PROVE  CaddyInv'
  <2> DEFINE p == [q EXCEPT !.stage = stage, !.report = <<>>]
  <2>0. stage \in RunStages /\ <<>> \in ImageReports
    BY DEF RunStages, EndedStages, ImageReports
  <2>1. /\ p \in RunRecords
        /\ p.stage = stage /\ p.seen = q.seen /\ p.commit = q.commit /\ p.before = q.before
    BY <1>0, <2>0 DEF RunRecords
  <2>2. publishers' = [publishers EXCEPT ![r] = p]
    BY <1>1 DEF Ends, q
  <2> HIDE DEF p
  <2>3. RunInv(p) /\ ~Holding(p) /\ p.stage # "waiting" /\ p.stage # "matching"
    BY <1>0, <1>1, <2>1 DEF RunInv, Holding, HoldingStages
  <2>4. flagged' \in BOOLEAN /\ flagged'
    BY <1>1, Zenon
  <2> QED
    BY <1>1, <2>1, <2>2, <2>3, <2>4, OneRunMoves
<1>2. ASSUME NEW stage \in {"building", "qualified"}, Goes(r, stage), UNCHANGED <<branch, candidate, flagged>>,
             stage = "building" => q.stage = "waiting" /\ Holders = {},
             stage = "qualified" => q.stage = "built" /\ OneRelease(Inputs(q.commit))
                                    /\ q.report = Pinned(Inputs(q.commit))
      PROVE  CaddyInv'
  <2> DEFINE p == [q EXCEPT !.stage = stage]
  <2>0. stage \in RunStages
    BY DEF RunStages, HoldingStages
  <2>1. /\ p \in RunRecords /\ p.report = q.report
        /\ p.stage = stage /\ p.seen = q.seen /\ p.commit = q.commit /\ p.before = q.before
    BY <1>0, <2>0 DEF RunRecords
  <2>2. publishers' = [publishers EXCEPT ![r] = p]
    BY <1>2 DEF Goes, q
  <2> HIDE DEF p
  <2>3. RunInv(p) /\ p.stage # "waiting" /\ p.stage # "matching" /\ InCharge(p)
    BY <1>0, <1>2, <2>1 DEF RunInv, InCharge
  <2>4. Holding(p) => Holding(publishers[r]) \/ Holders = {}
    BY <1>2 DEF Holding, HoldingStages, q
  <2> QED
    BY <1>0, <1>2, <2>1, <2>2, <2>3, <2>4, OneRunMoves
<1>3. CASE StartPromotion(r)
  BY <1>2, <1>3 DEF StartPromotion, GroupFree, q
<1>4. CASE BuildImage(r)
  <2>1. PICK report \in BuiltReports(Inputs(q.commit)) :
           publishers' = [publishers EXCEPT ![r].stage = "built", ![r].report = report]
    BY <1>4, Zenon DEF BuildImage, BuiltReports, q
  <2> DEFINE p == [q EXCEPT !.stage = "built", !.report = report]
  <2>0. "built" \in RunStages /\ report \in ImageReports
    BY <1>0 DEF RunStages, HoldingStages, ImageReports
  <2>2. /\ p \in RunRecords /\ p.report = report
        /\ p.stage = "built" /\ p.seen = q.seen /\ p.commit = q.commit /\ p.before = q.before
    BY <1>0, <2>0 DEF RunRecords
  <2>3. publishers' = [publishers EXCEPT ![r] = p]
    BY <2>1 DEF q
  <2> HIDE DEF p
  <2>4. q.stage = "building" /\ UNCHANGED <<branch, candidate, flagged>>
    BY <1>4 DEF BuildImage, q
  <2>5. RunInv(p) /\ p.stage # "waiting" /\ p.stage # "matching" /\ InCharge(p)
    BY <1>0, <2>1, <2>2 DEF RunInv, InCharge
  <2>6. Holding(publishers[r])
    BY <2>4 DEF Holding, HoldingStages, q
  <2> QED
    BY <1>0, <2>2, <2>3, <2>4, <2>5, <2>6, OneRunMoves
<1>5. CASE Qualify(r)
  <2>1. q.stage = "built" /\ q.report \in BuiltReports(Inputs(q.commit))
    BY <1>0, <1>5 DEF Qualify, RunInv, q
  <2>2. CASE OneRelease(Inputs(q.commit)) /\ AsPinned(Inputs(q.commit), q.report)
    <3>1. q.report = Pinned(Inputs(q.commit))
      BY <2>1, <2>2, VerifiedIsPinned
    <3>2. Goes(r, "qualified") /\ UNCHANGED <<branch, candidate, flagged>>
      BY <1>5, <2>2 DEF Qualify, q
    <3> QED
      BY <1>2, <2>1, <2>2, <3>1, <3>2
  <2>3. CASE ~(OneRelease(Inputs(q.commit)) /\ AsPinned(Inputs(q.commit), q.report))
    <3>1. PromotionFails(r)
      BY <1>5, <2>3 DEF Qualify, q
    <3> QED
      BY <1>1, <2>1, <3>1 DEF PromotionFails, HoldingStages
  <2> QED
    BY <2>2, <2>3
<1>6. CASE Compare(r)
  <2>0. q.stage = "qualified"
    BY <1>6 DEF Compare, q
  <2>1. CASE Inputs(q.commit) = Inputs(Newest)
    <3>1. /\ publishers' = [publishers EXCEPT ![r].stage = "matching", ![r].seen = Newest]
          /\ UNCHANGED <<branch, candidate, flagged>>
      BY <1>6, <2>1 DEF Compare, q
    <3>2. Newest \in Nat /\ candidate.seen <= Newest
      BY DEF CaddyInv, CaddyTypes
    <3> DEFINE p == [q EXCEPT !.stage = "matching", !.seen = Newest]
    <3>0. "matching" \in RunStages
      BY DEF RunStages, HoldingStages
    <3>3. /\ p \in RunRecords /\ p.report = q.report
          /\ p.stage = "matching" /\ p.seen = Newest /\ p.commit = q.commit /\ p.before = q.before
      BY <1>0, <3>0, <3>2 DEF RunRecords
    <3>4. publishers' = [publishers EXCEPT ![r] = p]
      BY <3>1 DEF q
    <3> HIDE DEF p
    <3>5. RunInv(p) /\ p.stage # "waiting" /\ InCharge(p)
      BY <1>0, <2>0, <2>1, <3>2, <3>3 DEF RunInv, InCharge
    <3>6. Holding(publishers[r])
      BY <2>0 DEF Holding, HoldingStages, q
    <3> QED
      BY <1>0, <2>1, <3>1, <3>3, <3>4, <3>5, <3>6, OneRunMoves
  <2>2. CASE Inputs(q.commit) # Inputs(Newest)
    <3>1. Ends(r, "warned") /\ flagged' = TRUE /\ UNCHANGED <<branch, candidate>>
      BY <1>6, <2>2 DEF Compare, q
    <3> QED
      BY <1>1, <2>0, <3>1 DEF HoldingStages
  <2> QED
    BY <2>1, <2>2
<1>7. CASE JobFails(r)
  <2>1. q.stage \in HoldingStages /\ PromotionFails(r)
    BY <1>7 DEF JobFails, Holders, HoldingStages, q
  <2> QED
    BY <1>1, <2>1 DEF PromotionFails
<1> QED
  BY <1>3, <1>4, <1>5, <1>6, <1>7

\* A run is triggered on the newest commit: by a push of inputs of its own, by one that
\* leaves them as they are, or by hand.
LEMMA TriggerKeepsCaddy ==
    ASSUME CaddyInv, Push \/ Dispatch
    PROVE  CaddyInv'
<1>0. /\ CaddyTypes /\ Newest \in Nat /\ Newest >= 1 /\ Len(publishers) \in Nat /\ Runs = 1 .. Len(publishers)
      /\ Len(publishers) < MaxRuns /\ UNCHANGED candidate
  <2>1. CaddyTypes
    BY DEF CaddyInv
  <2>2. Len(publishers) < MaxRuns /\ UNCHANGED candidate
    BY DEF Push, Dispatch
  <2>3. Newest \in Nat /\ Newest >= 1 /\ Len(publishers) \in Nat /\ Runs = 1 .. Len(publishers)
    BY <2>1, CaddyAssumption DEF CaddyTypes, Runs
  <2> QED
    BY <2>1, <2>2, <2>3
<1>1. PICK commit \in 1 .. Newest + 1, before \in 1 .. Newest, asked \in BOOLEAN :
         /\ publishers' = Triggered(commit, before, asked)
         /\ \/ Push /\ commit = Newest + 1 /\ before = Newest
            \/ UNCHANGED <<branch, flagged>> /\ commit = Newest /\ asked
  <2>1. CASE Push
    <3>1. FALSE \in BOOLEAN /\ Newest + 1 \in 1 .. Newest + 1 /\ Newest \in 1 .. Newest
      BY <1>0
    <3> QED
      BY <2>1, <3>1 DEF Push
  <2>2. CASE Dispatch
    <3>1. TRUE \in BOOLEAN /\ Newest \in 1 .. Newest + 1 /\ Newest \in 1 .. Newest
      BY <1>0
    <3>2. \E asked \in BOOLEAN : asked /\ publishers' = Triggered(Newest, Newest, asked)
      BY <2>2, <3>1, Zenon DEF Dispatch
    <3> QED
      BY <2>2, <3>1, <3>2 DEF Dispatch
  <2> QED
    BY <2>1, <2>2
<1> DEFINE p == [commit |-> commit, before |-> before, asked |-> asked, stage |-> "scope",
                 report |-> <<>>, seen |-> 0]
<1>2. /\ p \in RunRecords /\ p.commit = commit /\ p.before = before /\ p.seen = 0 /\ p.stage = "scope"
      /\ (p.asked <=> asked)
  <2>1. "scope" \in RunStages /\ <<>> \in ImageReports
    BY DEF RunStages, ImageReports
  <2>2. p \in RunRecords
    BY <1>0, <2>1 DEF RunRecords
  <2> QED
    BY <2>2
<1>3. publishers' = Append(publishers, p)
  BY <1>1 DEF Triggered
<1> HIDE DEF p
<1>4. /\ publishers' \in Seq(RunRecords) /\ Len(publishers') = Len(publishers) + 1
      /\ publishers'[Len(publishers) + 1] = p
      /\ \A r \in Runs : publishers'[r] = publishers[r]
  BY <1>0, <1>2, <1>3 DEF CaddyTypes
<1>5. Runs' = 1 .. Len(publishers) + 1
  BY <1>4 DEF Runs
<1>6. /\ branch' \in Seq(InputVersions) /\ Newest' \in 1 .. MaxCommits /\ Newest' \in {Newest, Newest + 1}
      /\ commit <= Newest' /\ \A i \in 1 .. Newest : Inputs(i)' = Inputs(i)
  <2>1. CASE Push /\ commit = Newest + 1
    BY <1>0, <2>1, CaddyAssumption DEF Push, CaddyTypes, Newest, Inputs
  <2>2. CASE UNCHANGED <<branch, flagged>> /\ commit = Newest
    BY <1>0, <2>2 DEF CaddyTypes, Newest, Inputs
  <2> QED
    BY <1>1, <2>1, <2>2
<1>7. flagged' \in BOOLEAN
  <2>1. CASE Push
    BY <2>1, Zenon DEF Push
  <2>2. CASE UNCHANGED flagged
    BY <1>0, <2>2 DEF CaddyTypes
  <2> QED
    BY <1>1, <2>1, <2>2
<1>8. CaddyTypes'
  <2>1. Len(publishers') <= MaxRuns
    BY <1>0, <1>4, CaddyAssumption
  <2>2. candidate'.seen \in 1 .. Newest'
    BY <1>0, <1>6 DEF CaddyTypes
  <2> QED
    BY <1>4, <1>6, <1>7, <2>1, <2>2 DEF CaddyTypes
<1>9. CandidateQualified'
  BY <1>0 DEF CaddyInv, CandidateQualified
<1>10. ASSUME NEW r \in Runs' PROVE RunInv(publishers[r])'
  <2>1. CASE r \in Runs
    <3>1. RunInv(publishers[r]) /\ publishers'[r] = publishers[r]
      BY <1>4, <2>1 DEF CaddyInv
    <3>2. Inputs(publishers[r].commit)' = Inputs(publishers[r].commit) /\ publishers'[r].commit \in 1 .. Newest
      BY <1>6, <3>1 DEF RunInv, Inputs
    <3> QED
      BY <1>0, <1>6, <3>1, <3>2 DEF RunInv
  <2>2. CASE r = Len(publishers) + 1
    BY <1>0, <1>1, <1>2, <1>4, <1>6, <2>2 DEF RunInv
  <2> QED
    BY <1>0, <1>5, <2>1, <2>2
<1>11. OneHolds' /\ OneWaits'
  <2>1. \A r \in Runs' : r \in Runs \/ publishers'[r].stage = "scope"
    BY <1>0, <1>2, <1>4, <1>5
  <2> QED
    BY <1>4, <2>1 DEF CaddyInv, OneHolds, OneWaits, Holding, HoldingStages
<1>12. ChargeInv'
  <2>1. CASE Inputs(Newest)' = Inputs(Newest) /\ (flagged => flagged')
    <3> SUFFICES ASSUME AtRisk', ~flagged' PROVE \E s \in Runs' : InCharge(publishers[s])'
      BY DEF ChargeInv
    <3>1. ASSUME NEW r \in Runs
          PROVE  /\ publishers'[r] = publishers[r]
                 /\ Inputs(publishers[r].commit)' = Inputs(publishers[r].commit)
                 /\ Inputs(publishers[r].before)' = Inputs(publishers[r].before)
      <4>1. publishers'[r] = publishers[r] /\ RunInv(publishers[r])
        BY <1>4 DEF CaddyInv
      <4> QED
        BY <1>6, <4>1 DEF RunInv, Inputs
    <3>2. AtRisk
      <4>1. \A r \in Runs' : r \in Runs \/ publishers'[r].stage # "matching"
        BY <1>0, <1>2, <1>4, <1>5
      <4> QED
        BY <1>0, <2>1, <3>1, <4>1 DEF AtRisk
    <3>3. PICK s \in Runs : InCharge(publishers[s])
      BY <2>1, <3>2 DEF CaddyInv, ChargeInv
    <3>4. s \in Runs'
      BY <1>0, <1>5
    <3> QED
      BY <2>1, <3>1, <3>3, <3>4 DEF InCharge
  <2>2. CASE Push /\ commit = Newest + 1 /\ before = Newest /\ Inputs(Newest)' # Inputs(Newest)
    <3>1. Newest' = Newest + 1
      BY <1>0, <1>6, <2>2
    <3>2. Inputs(before)' # Inputs(commit)'
      BY <1>0, <1>6, <2>2, <3>1 DEF Inputs
    <3>3. Len(publishers) + 1 \in Runs'
      BY <1>0, <1>5
    <3> QED
      BY <1>2, <1>4, <3>2, <3>3 DEF ChargeInv, InCharge
  <2>3. Push /\ Inputs(Newest)' = Inputs(Newest) => (flagged => flagged')
    <3> SUFFICES ASSUME Push, Inputs(Newest)' = Inputs(Newest), flagged PROVE flagged'
      OBVIOUS
    <3>1. PICK v \in InputVersions : branch' = Append(branch, v) /\ flagged' = (flagged /\ v = Inputs(Newest))
      BY DEF Push
    <3>2. Inputs(Newest)' = v
      BY <1>0, <3>1 DEF Inputs, Newest, CaddyTypes
    <3>3. v = Inputs(Newest)
      BY <3>2
    <3> QED
      BY <3>1, <3>3, Zenon
  <2>4. UNCHANGED <<branch, flagged>> => Inputs(Newest)' = Inputs(Newest) /\ (flagged => flagged')
    BY DEF Inputs, Newest
  <2> QED
    BY <1>1, <2>1, <2>2, <2>3, <2>4
<1> QED
  BY <1>8, <1>9, <1>10, <1>11, <1>12 DEF CaddyInv

\* A selected run takes the waiting place from another, which is as much in charge.
LEMMA ScopeKeepsCaddy ==
    ASSUME CaddyInv, NEW r \in Runs, Scope(r)
    PROVE  CaddyInv'
<1> DEFINE q == publishers[r]
<1>0. /\ CaddyTypes /\ (\A s \in Runs : publishers[s] \in RunRecords /\ RunInv(publishers[s]))
      /\ q.stage = "scope" /\ UNCHANGED <<branch, candidate, flagged>> /\ Runs = 1 .. Len(publishers)
  BY RunOf DEF CaddyInv, CaddyTypes, Scope, Runs
<1>1. PICK known \in BOOLEAN :
        publishers' = IF Selected(publishers[r], known)
                      THEN [p \in Runs |-> IF p = r THEN [publishers[p] EXCEPT !.stage = "waiting"]
                            ELSE IF publishers[p].stage = "waiting" THEN [publishers[p] EXCEPT !.stage = "cancelled"]
                            ELSE publishers[p]]
                      ELSE [publishers EXCEPT ![r].stage = "unselected"]
  BY DEF Scope
<1>2. CASE ~Selected(q, known)
  <2> DEFINE p == [q EXCEPT !.stage = "unselected"]
  <2>0. "unselected" \in RunStages
    BY DEF RunStages, EndedStages
  <2>1. /\ p \in RunRecords /\ p.stage = "unselected"
        /\ p.seen = q.seen /\ p.commit = q.commit /\ p.before = q.before
    BY <1>0, <2>0 DEF RunRecords
  <2>2. publishers' = [publishers EXCEPT ![r] = p]
    BY <1>1, <1>2
  <2> HIDE DEF p
  <2>3. RunInv(p) /\ ~Holding(p) /\ p.stage # "waiting" /\ p.stage # "matching"
    BY <1>0, <2>1 DEF RunInv, Holding, HoldingStages
  <2>4. ~InCharge(q)
    BY <1>0, <1>2 DEF Selected, InCharge
  <2>5. flagged' \in BOOLEAN /\ (flagged => flagged')
    BY <1>0 DEF CaddyTypes
  <2> QED
    BY <1>0, <2>1, <2>2, <2>3, <2>4, <2>5, OneRunMoves
<1>3. CASE Selected(q, known)
  <2> DEFINE Then(s) == IF s = r THEN "waiting"
                        ELSE IF publishers[s].stage = "waiting" THEN "cancelled" ELSE publishers[s].stage
  <2>1. DOMAIN publishers' = Runs
    BY <1>1, <1>3
  <2>2. ASSUME NEW s \in Runs
        PROVE  /\ publishers'[s] \in RunRecords /\ publishers'[s].stage = Then(s)
               /\ publishers'[s].commit = publishers[s].commit /\ publishers'[s].before = publishers[s].before
               /\ publishers'[s].seen = publishers[s].seen /\ publishers'[s].report = publishers[s].report
               /\ publishers'[s].asked = publishers[s].asked
    <3>1. "waiting" \in RunStages /\ "cancelled" \in RunStages
      BY DEF RunStages, EndedStages
    <3>2. publishers[s] \in RunRecords
      BY <1>0
    <3>3. PICK o \in RunRecords : o = publishers[s]
      BY <3>2
    <3>4. PICK n : n = publishers'[s]
      OBVIOUS
    <3>5. ASSUME NEW stage \in RunStages, n = [o EXCEPT !.stage = stage]
          PROVE  /\ n \in RunRecords /\ n.stage = stage /\ n.commit = o.commit /\ n.before = o.before
                 /\ n.seen = o.seen /\ n.report = o.report /\ n.asked = o.asked
      BY <3>5 DEF RunRecords
    <3>6. CASE s = r
      <4>1. n = [o EXCEPT !.stage = "waiting"]
        BY <1>1, <1>3, <3>3, <3>4, <3>6
      <4> QED
        BY <3>1, <3>3, <3>4, <3>5, <3>6, <4>1
    <3>7. CASE s # r /\ publishers[s].stage = "waiting"
      <4>1. n = [o EXCEPT !.stage = "cancelled"]
        BY <1>1, <1>3, <3>3, <3>4, <3>7
      <4> QED
        BY <3>1, <3>3, <3>4, <3>5, <3>7, <4>1
    <3>8. CASE s # r /\ publishers[s].stage # "waiting"
      BY <1>1, <1>3, <3>2, <3>8
    <3> QED
      BY <3>6, <3>7, <3>8
  <2>3. publishers' \in Seq(RunRecords) /\ Len(publishers') = Len(publishers) /\ Runs' = Runs
    <3>1. publishers' = [s \in 1 .. Len(publishers) |-> publishers'[s]] /\ Len(publishers) \in Nat
      BY <1>0, <1>1, <1>3 DEF CaddyTypes
    <3> QED
      BY <1>0, <2>1, <2>2, <3>1 DEF Runs
  <2>4. CaddyTypes'
    BY <1>0, <2>3 DEF CaddyTypes, Newest
  <2>5. CandidateQualified'
    BY <1>0 DEF CaddyInv, CandidateQualified
  <2>6. ASSUME NEW s \in Runs PROVE RunInv(publishers[s])'
    <3>1. RunInv(publishers'[s])
      BY <1>0, <2>2 DEF RunInv
    <3> QED
      BY <1>0, <3>1 DEF RunInv, Newest, Inputs
  <2>7. OneHolds' /\ OneWaits'
    BY <2>2, <2>3 DEF CaddyInv, OneHolds, OneWaits, Holding, HoldingStages
  <2>8. InCharge(publishers[r])'
    BY <2>2 DEF InCharge
  <2>9. ChargeInv'
    BY <2>3, <2>8 DEF ChargeInv
  <2> QED
    BY <2>3, <2>4, <2>5, <2>6, <2>7, <2>9 DEF CaddyInv
<1> QED
  BY <1>2, <1>3

\* The one run that holds the group writes the tag.
LEMMA PromoteKeepsCaddy ==
    ASSUME CaddyInv, NEW r \in Runs, Promote(r)
    PROVE  CaddyInv' /\ candidate'.seen >= candidate.seen
<1> DEFINE q == publishers[r]
<1>0. /\ CaddyTypes /\ q \in RunRecords /\ RunInv(q) /\ q.stage = "matching" /\ UNCHANGED branch
      /\ q.seen \in 1 .. Newest /\ q.seen >= candidate.seen
  <2>1. CaddyTypes /\ q \in RunRecords /\ RunInv(q) /\ q.stage = "matching" /\ UNCHANGED branch
    BY RunOf DEF CaddyInv, CaddyTypes, Promote
  <2> QED
    BY <2>1 DEF RunInv, CaddyTypes
<1>1. candidate'.inputs = Inputs(q.commit) /\ candidate'.report = q.report /\ candidate'.seen = q.seen
  BY DEF Promote
<1>2. PICK stage \in {"promoted", "failed"} :
        /\ publishers' = [publishers EXCEPT ![r].stage = stage, ![r].report = <<>>]
        /\ UNCHANGED flagged \/ flagged' = TRUE
  BY DEF Promote, Ends
<1> DEFINE p == [q EXCEPT !.stage = stage, !.report = <<>>]
<1>3. stage \in RunStages /\ <<>> \in ImageReports
  BY DEF RunStages, EndedStages, ImageReports
<1>4. /\ p \in RunRecords /\ p.stage = stage
      /\ p.seen = q.seen /\ p.commit = q.commit /\ p.before = q.before
  BY <1>0, <1>3 DEF RunRecords
<1>5. publishers' = [publishers EXCEPT ![r] = p]
  BY <1>2
<1> HIDE DEF p
<1>6. /\ publishers' \in Seq(RunRecords) /\ Len(publishers') = Len(publishers) /\ Runs' = Runs
      /\ \A s \in Runs : publishers'[s] = IF s = r THEN p ELSE publishers[s]
  BY <1>0, <1>4, <1>5 DEF CaddyTypes, Runs
<1>7. flagged' \in BOOLEAN /\ (UNCHANGED flagged \/ flagged')
  <2>1. CASE UNCHANGED flagged
    BY <1>0, <2>1 DEF CaddyTypes
  <2>2. CASE flagged' = TRUE
    BY <2>2, Zenon
  <2> QED
    BY <1>2, <2>1, <2>2
<1>8. CaddyTypes'
  BY <1>0, <1>1, <1>6, <1>7 DEF CaddyTypes, Newest
<1>9. CandidateQualified'
  BY <1>0, <1>1 DEF RunInv, CandidateQualified
<1>10. \A s \in Runs : s # r => ~Holding(publishers[s])
  BY <1>0 DEF CaddyInv, OneHolds, Holding, HoldingStages
<1>11. ASSUME NEW s \in Runs PROVE RunInv(publishers[s])'
  <2>1. CASE s = r
    BY <1>0, <1>4, <1>6, <2>1 DEF RunInv, Newest, Inputs
  <2>2. CASE s # r
    <3>1. publishers'[s] = publishers[s] /\ RunInv(publishers[s]) /\ publishers[s].stage # "matching"
      BY <1>6, <1>10, <2>2 DEF CaddyInv, Holding, HoldingStages
    <3> QED
      BY <1>0, <3>1 DEF RunInv, Newest, Inputs
  <2> QED
    BY <2>1, <2>2
<1>12. OneHolds' /\ OneWaits'
  BY <1>4, <1>6 DEF CaddyInv, OneHolds, OneWaits, Holding, HoldingStages
<1>13. ChargeInv'
  <2> SUFFICES ASSUME AtRisk', ~flagged' PROVE \E s \in Runs : InCharge(publishers[s])'
    BY <1>6 DEF ChargeInv
  <2>1. \A s \in Runs : publishers'[s].stage # "matching"
    BY <1>4, <1>6, <1>10 DEF Holding, HoldingStages
  <2>2. Inputs(q.commit) # Inputs(Newest)
    BY <1>0, <1>1, <1>6, <2>1 DEF AtRisk, Inputs, Newest
  <2>3. AtRisk /\ ~flagged
    BY <1>0, <1>7, <2>2 DEF AtRisk
  <2>4. PICK s \in Runs : InCharge(publishers[s])
    BY <2>3 DEF CaddyInv, ChargeInv
  <2>5. ~InCharge(q)
    BY <1>0, <2>2 DEF InCharge
  <2>6. publishers'[s] = publishers[s]
    BY <1>6, <2>4, <2>5
  <2> QED
    BY <1>0, <2>4, <2>6 DEF InCharge, Inputs, Newest
<1> QED
  BY <1>0, <1>1, <1>6, <1>8, <1>9, <1>11, <1>12, <1>13 DEF CaddyInv

LEMMA CaddySteps == CaddyInv /\ [CaddyNext]_caddyVars => CaddyInv' /\ (candidate'.seen >= candidate.seen \/ UNCHANGED candidate)
<1> SUFFICES ASSUME CaddyInv, [CaddyNext]_caddyVars
             PROVE  CaddyInv' /\ (candidate'.seen >= candidate.seen \/ UNCHANGED candidate)
  OBVIOUS
<1>1. CASE UNCHANGED caddyVars
  BY <1>1
     DEF caddyVars, CaddyInv, CaddyTypes, RunInv, OneHolds, OneWaits, ChargeInv, AtRisk, InCharge, CandidateQualified,
         Inputs, Newest, Runs
<1>2. CASE Push \/ Dispatch
  BY <1>2, TriggerKeepsCaddy DEF Push, Dispatch
<1>3. ASSUME NEW r \in Runs, Scope(r) PROVE CaddyInv' /\ UNCHANGED candidate
  BY <1>3, ScopeKeepsCaddy DEF Scope
<1>4. ASSUME NEW r \in Runs, StartPromotion(r) \/ BuildImage(r) \/ Qualify(r) \/ Compare(r) \/ JobFails(r)
      PROVE  CaddyInv' /\ UNCHANGED candidate
  BY <1>4, StageKeepsCaddy DEF StartPromotion, BuildImage, Qualify, Compare, JobFails, PromotionFails
<1>5. ASSUME NEW r \in Runs, Promote(r) PROVE CaddyInv' /\ candidate'.seen >= candidate.seen
  BY <1>5, PromoteKeepsCaddy
<1> QED
  BY <1>1, <1>2, <1>3, <1>4, <1>5 DEF CaddyNext

\* What "candidate" names was qualified as its Dockerfile pins it, in every line of its
\* report; and once no run is left, a tag that is not main's has been announced, whichever
\* runs were cancelled, killed or overtaken, for any number of pushes and runs.
THEOREM PromotionIsSafe == CaddySpec => []PromotionSafe
BY CaddyStarts, CaddySteps, PromotionsAreSafe, PTL DEF CaddySpec

\* In whatever order runs are triggered, scoped, queued and killed, the tag never goes from
\* inputs main had later to inputs it had earlier.
THEOREM CandidateNeverBackwards == CaddySpec => NeverBackwards
<1>1. CaddyInv /\ [CaddyNext]_caddyVars => [candidate'.seen >= candidate.seen]_candidate
  BY CaddySteps
<1> QED
  BY <1>1, CaddyStarts, CaddySteps, PTL DEF CaddySpec, NeverBackwards

-----------------------------------------------------------------------------
(* FlowRows.  A window under way has each of its rows left, in the batch or stored *)
(* (WindowInv), so its end may be passed (CoverInv); a count is never ahead of what *)
(* was counted before it (CountInv); and a cycle that does not hang is soon over    *)
(* (TimeInv).                                                                       *)

RowsTypes ==
    /\ flows \in Rowsets /\ {now, watermark, ckpt, wake, deadline, heartbeat, problems, lastSuccess} \subseteq Nat
    /\ limit \in Int /\ limit <= Larger(now - SettleBatch, 0) /\ ckpt <= Larger(now - SettleBatch, 0)
    /\ unread \subseteq flows /\ batch \in Seq(flows)
    /\ counters \in [DOMAIN Zero -> Nat]
    /\ RowsTypeOK

IsStored(r) == \E s \in stored : s.row = r
IsIn(r, gs) == \E g \in gs : g[1] <= r.time /\ r.time < g[2]
StoredInv == \A s \in stored : s.row \in flows /\ s = FlowRecord(s.row)
SeenInv == \A i \in seen : \E s \in stored : FlowId(s.row) = i

\* The rows of the window, those the clock has not come to included: there are none.
Window == {r \in flows : Larger(watermark - Overlap, 0) <= r.time /\ r.time <= WindowEnd}
WindowInv ==
    cycleStep = "storing" =>
       /\ watermark < limit
       /\ unread \subseteq Window /\ \A r \in unread : r.shape # "unreadable"
       /\ problem = "none" =>
             /\ \A r, q \in Window : FlowId(r) = FlowId(q) => r = q
             /\ \A r \in Window : r \in unread \/ r \in InBatch \/ IsStored(r)

CoverInv ==
    /\ \A r \in flows : r.time < watermark => IsStored(r) \/ IsIn(r, gaps \cup pending)
    /\ \A r \in flows : r.time < ckpt => IsStored(r) \/ IsIn(r, gaps)

CountInv ==
    /\ counters.written + counters.duplicate + Len(batch) + Cardinality(unread) <= counters.read
    /\ problems >= counters.incomplete /\ (outcomeOf = "incomplete" => problems > counters.incomplete)
    /\ last = "incomplete" => problems > 0
    /\ lastSuccess > 0 => counters.ok > 0

TimeInv ==
    /\ wake <= heartbeat + Poll
    /\ cycleStep = "idle" => now <= wake
    /\ cycleStep \notin {"idle", "hung"} => deadline <= wake + MaxCycle /\ now <= deadline + Timeout

RowsInv == RowsTypes /\ StoredInv /\ SeenInv /\ WindowInv /\ CoverInv /\ CountInv /\ TimeInv

LEMMA RowsConstants ==
    /\ Overlap \in Nat /\ SettleBatch \in Nat /\ MaxCatchup \in Nat /\ MaxCycle \in Nat /\ Timeout \in Nat
    /\ MaxWindow \in Nat /\ MaxWindow > 0 /\ Poll \in Nat /\ Poll > 0 /\ BatchRows \in Nat /\ BatchRows > 0
    /\ Timeout < 2 * Poll
BY RowsAssumption

\* The rows the console shows are finitely many, and have times and shapes.
LEMMA RowsOfFlows ==
    ASSUME RowsTypes
    PROVE  /\ IsFiniteSet(flows)
           /\ \A r \in flows : r.time \in Nat /\ r.shape \in {"good", "broken", "unreadable"}
           /\ \A r, q \in flows : FlowId(r) = FlowId(q) => r.time = q.time
<1>1. flows \in Rowsets
    BY DEF RowsTypes
<1> QED
    BY <1>1, RowsAssumption, IdentityAssumption

\* A counter that goes up stays a number.
LEMMA CountsUp ==
    ASSUME RowsTypes, NEW c \in DOMAIN Zero, NEW n \in Nat
    PROVE  /\ [counters EXCEPT ![c] = @ + n] \in [DOMAIN Zero -> Nat]
           /\ DOMAIN Zero = {"read", "written", "duplicate", "ok", "incomplete", "ingest_failed"}
<1>1. counters \in [DOMAIN Zero -> Nat]
    BY DEF RowsTypes
<1>2. counters[c] + n \in Nat
    BY <1>1
<1>3. DOMAIN Zero = {"read", "written", "duplicate", "ok", "incomplete", "ingest_failed"}
    BY DEF Zero
<1> QED
    BY <1>1, <1>2, <1>3

LEMMA RowsStart == FlowRowsInit => RowsInv
<1> SUFFICES ASSUME FlowRowsInit
             PROVE  RowsInv
    OBVIOUS
<1> USE DEF FlowRowsInit
<1>1. batch \in Seq(flows) /\ Len(batch) = 0 /\ InBatch = {}
    BY DEF InBatch
<1>2. Zero \in [DOMAIN Zero -> Nat]
    BY DEF Zero
<1>3. RowsTypes
    BY <1>1, <1>2, RowsConstants DEF RowsTypes, RowsTypeOK, Larger
<1>4. CoverInv
    BY <1>3, RowsOfFlows DEF CoverInv
<1>5. CountInv
    BY <1>1, FS_EmptySet DEF CountInv, Zero
<1>6. TimeInv
    BY RowsConstants DEF TimeInv
<1> QED
    BY <1>3, <1>4, <1>5, <1>6 DEF RowsInv, StoredInv, SeenInv, WindowInv

\* A window's rows are those a read of it may find at any time: it has settled.
LEMMA WindowIsSettled ==
    ASSUME RowsTypes, watermark < limit
    PROVE  /\ Window = Findings /\ watermark < WindowEnd /\ WindowEnd <= limit /\ WindowEnd \in Nat
           /\ limit <= now
<1>1. /\ now \in Nat /\ watermark \in Nat /\ limit \in Int /\ limit <= Larger(now - SettleBatch, 0)
    BY DEF RowsTypes
<1>2. limit <= now
    BY <1>1, RowsConstants DEF Larger
<1>3. watermark < WindowEnd /\ WindowEnd <= limit /\ WindowEnd \in Nat
    BY <1>1, RowsConstants DEF WindowEnd, Lesser
<1>4. \A r \in flows : r.time <= WindowEnd => r.time <= now
    BY <1>1, <1>2, <1>3, RowsOfFlows
<1> QED
    BY <1>2, <1>3, <1>4 DEF Window, Findings

-----------------------------------------------------------------------------
(* Types. *)

LEMMA TypesTick == RowsTypes /\ ClockTicks => RowsTypes'
<1> SUFFICES ASSUME RowsTypes, ClockTicks
             PROVE  RowsTypes'
    OBVIOUS
<1> USE DEF RowsTypes
<1>1. /\ now' = now + 1 /\ now \in Nat /\ watermark \in Nat /\ ckpt \in Nat
      /\ UNCHANGED <<flows, cycleStep, rowsLocals, watermark, rowsWindow, outcomeOf, counters, rowsReport, rowsSink>>
    BY DEF ClockTicks
<1>2. Larger(now - SettleBatch, 0) <= Larger(now' - SettleBatch, 0)
    BY <1>1, RowsConstants DEF Larger
<1>3. Larger(now - SettleBatch, 0) \in Int /\ Larger(now' - SettleBatch, 0) \in Int
    BY <1>1, RowsConstants DEF Larger
<1>4. RowsTypeOK'
    BY <1>1, <1>2, <1>3 DEF RowsTypeOK, InBatch, rowsWindow, rowsSink
<1> QED
    BY <1>1, <1>2, <1>3, <1>4 DEF rowsLocals, rowsWindow, rowsReport, rowsSink

\* What a window leaves behind, however it ended.
LEMMA Emptied ==
    ASSUME unread' = {}, batch' = <<>>
    PROVE  unread' \subseteq flows' /\ batch' \in Seq(flows') /\ InBatch' = {} /\ Len(batch') = 0
BY DEF InBatch

LEMMA TypesBegin == RowsTypes /\ (BeginCycle \/ Hang \/ Restart \/ UNCHANGED rowsVars) => RowsTypes'
<1> SUFFICES ASSUME RowsTypes, BeginCycle \/ Hang \/ Restart \/ UNCHANGED rowsVars
             PROVE  RowsTypes'
    OBVIOUS
<1> USE DEF RowsTypes
<1>1. CASE BeginCycle
  <2>1. /\ UNCHANGED <<flows, now, wake, rowsWindow, outcomeOf, counters, rowsReport, rowsSink>>
        /\ cycleStep = "idle" /\ cycleStep' = "reading" /\ deadline' = now + MaxCycle /\ limit' = now - SettleBatch
        /\ watermark' = IF watermark < Oldest THEN Oldest ELSE watermark
      BY <1>1 DEF BeginCycle, Due
  <2>2. now \in Nat /\ watermark \in Nat /\ Oldest \in Int /\ Oldest <= now - SettleBatch
      BY RowsConstants DEF Oldest
  <2>3. watermark' \in Nat /\ watermark' <= Larger(now' - SettleBatch, 0)
    <3>1. CASE watermark < Oldest
        BY <2>1, <2>2, <3>1, RowsConstants DEF Larger
    <3>2. CASE ~(watermark < Oldest)
        BY <2>1, <2>2, <3>2 DEF RowsTypeOK
    <3> QED
        BY <3>1, <3>2
  <2>4. RowsTypeOK'
      BY <2>1, <2>3 DEF RowsTypeOK, InBatch, rowsWindow, rowsSink
  <2>5. limit' \in Int /\ limit' <= Larger(now' - SettleBatch, 0) /\ deadline' \in Nat
      BY <2>1, <2>2, RowsConstants DEF Larger
  <2> QED
      BY <2>1, <2>3, <2>4, <2>5 DEF rowsLocals, rowsWindow, rowsReport, rowsSink
<1>2. CASE Hang
  <2>1. /\ UNCHANGED <<flows, now, rowsLocals, watermark, rowsWindow, outcomeOf, counters, rowsReport, rowsSink>>
        /\ cycleStep \in {"reading", "storing"} /\ cycleStep' = "hung"
      BY <1>2 DEF Hang
  <2>2. RowsTypeOK'
      BY <2>1 DEF RowsTypeOK, InBatch, rowsWindow, rowsSink
  <2> QED
      BY <2>1, <2>2 DEF rowsLocals, rowsWindow, rowsReport, rowsSink
<1>3. CASE Restart
  <2>1. /\ cycleStep' = "idle" /\ wake' = now /\ deadline' = 0 /\ limit' = 0 /\ watermark' = ckpt
        /\ unread' = {} /\ batch' = <<>> /\ problem' = "none" /\ outcomeOf' = "none"
        /\ counters' = Zero /\ problems' = 0 /\ last' = "none" /\ lastSuccess' = 0 /\ heartbeat' = now
        /\ flows' = flows /\ now' = now /\ ckpt' = ckpt
      BY <1>3 DEF Restart, rowsSink
  <2>2. now \in Nat /\ ckpt \in Nat /\ ckpt <= Larger(now - SettleBatch, 0)
      OBVIOUS
  <2>3. RowsTypeOK'
      BY <2>1, <2>2, Emptied, RowsConstants DEF RowsTypeOK
  <2>4. Zero \in [DOMAIN Zero -> Nat]
      BY DEF Zero
  <2>5. limit' <= Larger(now' - SettleBatch, 0)
      BY <2>1, <2>2, RowsConstants DEF Larger
  <2> QED
      BY <2>1, <2>2, <2>3, <2>4, <2>5, Emptied
<1>4. CASE UNCHANGED rowsVars
    BY <1>4 DEF rowsVars, rowsLocals, rowsWindow, rowsReport, rowsSink, RowsTypeOK, InBatch
<1> QED
    BY <1>1, <1>2, <1>3, <1>4

LEMMA TypesRead == RowsTypes /\ ReadWindow => RowsTypes'
<1> SUFFICES ASSUME RowsTypes, ReadWindow
             PROVE  RowsTypes'
    OBVIOUS
<1> USE DEF RowsTypes
<1>1. /\ UNCHANGED <<flows, now, rowsLocals, watermark, last, lastSuccess, heartbeat, rowsSink>>
      /\ cycleStep = "reading" /\ outcomeOf = "none"
    BY DEF ReadWindow, RowsTypeOK
<1>2. CASE \E r \in Findings : r.shape = "unreadable"
  <2>1. Raise /\ counters' = counters
      BY <1>2 DEF ReadWindow
  <2>2. problems' \in Nat
      BY <2>1 DEF Raise, RowsOf
  <2>3. RowsTypeOK'
      BY <1>1, <2>1, Emptied, RowsConstants DEF RowsTypeOK, Raise, rowsSink
  <2> QED
      BY <1>1, <2>1, <2>2, <2>3, Emptied DEF Raise, rowsLocals, rowsSink
<1>3. CASE ~(\E r \in Findings : r.shape = "unreadable")
  <2>1. PICK kept \in SUBSET Findings :
           /\ unread' = kept /\ counters' = [counters EXCEPT !.read = @ + Cardinality(kept)]
           /\ cycleStep' = "storing" /\ UNCHANGED <<batch, outcomeOf, problems>>
      BY <1>3 DEF ReadWindow
  <2>2. kept \subseteq flows /\ Cardinality(kept) \in Nat
      BY RowsOfFlows, FS_Subset, FS_CardinalityType DEF Findings
  <2>3. counters' \in [DOMAIN Zero -> Nat]
    <3>1. "read" \in DOMAIN Zero
        BY DEF Zero
    <3> QED
        BY <2>1, <2>2, <3>1, CountsUp
  <2>4. RowsTypeOK'
      BY <1>1, <2>1, <2>2 DEF RowsTypeOK, InBatch, rowsSink
  <2> QED
      BY <1>1, <2>1, <2>2, <2>3, <2>4 DEF rowsLocals, rowsSink
<1> QED
    BY <1>2, <1>3

LEMMA TypesStore == RowsTypes /\ WindowInv /\ StoreRow => RowsTypes'
<1> SUFFICES ASSUME RowsTypes, WindowInv, StoreRow
             PROVE  RowsTypes'
    OBVIOUS
<1> USE DEF RowsTypes
<1>1. /\ UNCHANGED <<flows, now, rowsLocals, watermark, last, lastSuccess, heartbeat, rowsSink>>
      /\ cycleStep = "storing" /\ outcomeOf = "none"
    BY DEF StoreRow, RowsTypeOK
<1>2. PICK r \in unread :
         CASE FlowId(r) \in seen ->
                /\ counters' = [counters EXCEPT !.duplicate = @ + 1] /\ unread' = unread \ {r}
                /\ UNCHANGED <<cycleStep, batch, problem, outcomeOf, problems>>
           [] FlowId(r) \notin seen /\ r.shape = "broken" -> Raise /\ UNCHANGED counters
           [] FlowId(r) \notin seen /\ r.shape = "good" ->
                /\ Fits /\ batch' = Append(batch, r) /\ unread' = unread \ {r}
                /\ UNCHANGED <<cycleStep, problem, outcomeOf, counters, problems>>
    BY DEF StoreRow
<1>3. r \in flows /\ r.shape \in {"good", "broken"}
    BY <1>1, RowsOfFlows DEF WindowInv
<1>4. CASE FlowId(r) \in seen
  <2>1. /\ counters' = [counters EXCEPT !.duplicate = @ + 1] /\ unread' = unread \ {r}
        /\ UNCHANGED <<cycleStep, batch, problem, outcomeOf, problems>>
      BY <1>2, <1>4
  <2>2. counters' \in [DOMAIN Zero -> Nat]
    <3>1. "duplicate" \in DOMAIN Zero
        BY DEF Zero
    <3> QED
        BY <2>1, <3>1, CountsUp
  <2>3. RowsTypeOK'
      BY <1>1, <2>1 DEF RowsTypeOK, InBatch, rowsSink
  <2> QED
      BY <1>1, <2>1, <2>2, <2>3 DEF rowsLocals, rowsSink
<1>5. CASE FlowId(r) \notin seen /\ r.shape = "broken"
  <2>1. Raise /\ counters' = counters
      BY <1>2, <1>5
  <2>2. problems' \in Nat
      BY <2>1 DEF Raise, RowsOf
  <2>3. RowsTypeOK'
      BY <1>1, <2>1, Emptied, RowsConstants DEF RowsTypeOK, Raise, rowsSink
  <2> QED
      BY <1>1, <2>1, <2>2, <2>3, Emptied DEF Raise, rowsLocals, rowsSink
<1>6. CASE FlowId(r) \notin seen /\ r.shape = "good"
  <2>1. /\ Fits /\ batch' = Append(batch, r) /\ unread' = unread \ {r}
        /\ UNCHANGED <<cycleStep, problem, outcomeOf, counters, problems>>
      BY <1>2, <1>6
  <2>2. batch' \in Seq(flows) /\ Len(batch') = Len(batch) + 1 /\ Len(batch') <= BatchRows
      BY <1>3, <2>1, RowsConstants DEF Fits
  <2>3. InBatch' \subseteq flows
      BY <2>2 DEF InBatch
  <2>4. RowsTypeOK'
      BY <1>1, <2>1, <2>2, <2>3 DEF RowsTypeOK, rowsSink
  <2> QED
      BY <1>1, <2>1, <2>2, <2>4 DEF rowsLocals, rowsSink
<1> QED
    BY <1>3, <1>4, <1>5, <1>6

LEMMA TypesFlush == RowsTypes /\ Flush => RowsTypes'
<1> SUFFICES ASSUME RowsTypes, Flush
             PROVE  RowsTypes'
    OBVIOUS
<1> USE DEF RowsTypes
<1>1. /\ UNCHANGED <<flows, now, rowsLocals, watermark, rowsReport, ckpt>>
      /\ batch' = <<>> /\ unread' \in {unread, {}} /\ cycleStep = "storing" /\ outcomeOf = "none"
      /\ <<cycleStep', outcomeOf'>> \in {<<cycleStep, outcomeOf>>, <<"closing", "ingest_failed">>}
      /\ counters' = counters \/ counters' = [counters EXCEPT !.written = @ + Len(batch)]
    BY DEF Flush, RowsTypeOK
<1>2. counters' \in [DOMAIN Zero -> Nat]
  <2>1. "written" \in DOMAIN Zero /\ Len(batch) \in Nat
      BY DEF Zero
  <2> QED
      BY <1>1, <2>1, CountsUp
<1>3. batch' \in Seq(flows) /\ Len(batch') = 0 /\ InBatch' = {}
    BY <1>1 DEF InBatch
<1>4. RowsTypeOK'
  <2>1. /\ cycleStep' \in {"idle", "reading", "storing", "closing", "reporting", "hung"}
        /\ outcomeOf' \in {"none", "ok", "incomplete", "ingest_failed"}
        /\ cycleStep' \in {"closing", "reporting"} <=> outcomeOf' # "none"
      BY <1>1
  <2>2. unread' \subseteq flows' /\ InBatch' \subseteq flows'
      BY <1>1, <1>3
  <2>3. Len(batch') <= BatchRows
      BY <1>3, RowsConstants
  <2>4. watermark' <= Larger(now' - SettleBatch, 0) /\ ckpt' <= now'
    <3>1. watermark' = watermark /\ now' = now /\ ckpt' = ckpt
        BY <1>1
    <3> QED
        BY <3>1 DEF RowsTypeOK
  <2> QED
      BY <2>1, <2>2, <2>3, <2>4 DEF RowsTypeOK
<1> QED
    BY <1>1, <1>2, <1>3, <1>4 DEF rowsLocals, rowsReport

LEMMA TypesEnd == RowsTypes /\ WindowInv /\ (EndWindow \/ EndAdvance) => RowsTypes'
<1> SUFFICES ASSUME RowsTypes, WindowInv, EndWindow \/ EndAdvance
             PROVE  RowsTypes'
    OBVIOUS
<1> USE DEF RowsTypes
<1>1. CASE EndWindow
  <2>1. /\ UNCHANGED <<flows, now, rowsLocals, unread, batch, counters, last, lastSuccess, heartbeat, rowsSink>>
        /\ cycleStep = "storing" /\ outcomeOf = "none"
        /\ \/ /\ watermark' = WindowEnd /\ cycleStep' = "reading" /\ UNCHANGED <<outcomeOf, problems>>
           \/ /\ cycleStep' = "closing" /\ outcomeOf' = "incomplete" /\ problems' = problems + 1
              /\ watermark' = watermark
      BY <1>1 DEF EndWindow, RowsTypeOK, RowsOf
  <2>2. WindowEnd \in Nat /\ WindowEnd <= Larger(now - SettleBatch, 0)
    <3>1. WindowEnd \in Nat /\ WindowEnd <= limit
        BY <2>1, WindowIsSettled DEF WindowInv
    <3> QED
        BY <3>1, RowsConstants DEF Larger
  <2>3. watermark' \in Nat /\ watermark' <= Larger(now - SettleBatch, 0) /\ problems' \in Nat
      BY <2>1, <2>2 DEF RowsTypeOK
  <2>4. RowsTypeOK'
      BY <2>1, <2>3 DEF RowsTypeOK, InBatch, rowsSink
  <2> QED
      BY <2>1, <2>3, <2>4 DEF rowsLocals, rowsSink
<1>2. CASE EndAdvance
  <2>1. /\ UNCHANGED <<flows, now, rowsLocals, watermark, rowsWindow, counters, rowsReport, rowsSink>>
        /\ cycleStep' = "closing" /\ outcomeOf' = "ok"
      BY <1>2 DEF EndAdvance
  <2>2. RowsTypeOK'
      BY <2>1 DEF RowsTypeOK, InBatch, rowsWindow, rowsSink
  <2> QED
      BY <2>1, <2>2 DEF rowsLocals, rowsWindow, rowsReport, rowsSink
<1> QED
    BY <1>1, <1>2

LEMMA TypesReport == RowsTypes /\ (WriteCheckpoint \/ ReportCycle) => RowsTypes'
<1> SUFFICES ASSUME RowsTypes, WriteCheckpoint \/ ReportCycle
             PROVE  RowsTypes'
    OBVIOUS
<1> USE DEF RowsTypes
<1>1. CASE WriteCheckpoint
  <2>1. /\ UNCHANGED <<flows, now, rowsLocals, watermark, rowsWindow, counters, rowsReport>>
        /\ cycleStep = "closing" /\ cycleStep' = "reporting" /\ ckpt' \in {ckpt, watermark}
        /\ outcomeOf' = outcomeOf \/ outcomeOf' = "ingest_failed"
      BY <1>1 DEF WriteCheckpoint, rowsSink
  <2>2. ckpt' \in Nat /\ ckpt' <= Larger(now - SettleBatch, 0) /\ ckpt' <= now
      BY <2>1, RowsConstants, SMTT(30) DEF RowsTypeOK, Larger
  <2>3. RowsTypeOK'
      BY <2>1, <2>2 DEF RowsTypeOK, InBatch, rowsWindow
  <2> QED
      BY <2>1, <2>2, <2>3 DEF rowsLocals, rowsWindow, rowsReport
<1>2. CASE ReportCycle
  <2>1. /\ UNCHANGED <<flows, now, watermark, rowsWindow, problems, rowsSink>>
        /\ cycleStep = "reporting" /\ cycleStep' = "idle" /\ outcomeOf' = "none"
        /\ wake' = now + Poll /\ heartbeat' = now /\ lastSuccess' \in {now, lastSuccess} /\ deadline' = 0 /\ limit' = 0
        /\ counters' = [counters EXCEPT ![outcomeOf] = @ + 1]
      BY <1>2 DEF ReportCycle, Beat
  <2>2. outcomeOf \in DOMAIN Zero
      BY <2>1 DEF RowsTypeOK, Zero
  <2>3. counters' \in [DOMAIN Zero -> Nat]
      BY <2>1, <2>2
  <2>4. RowsTypeOK'
      BY <2>1 DEF RowsTypeOK, InBatch, rowsWindow, rowsSink
  <2>5. limit' <= Larger(now' - SettleBatch, 0) /\ wake' \in Nat /\ lastSuccess' \in Nat
      BY <2>1, RowsConstants, SMTT(30) DEF Larger
  <2> QED
      BY <2>1, <2>3, <2>4, <2>5 DEF rowsWindow, rowsSink
<1> QED
    BY <1>1, <1>2

LEMMA TypesKeep == RowsInv /\ [FlowRowsNext]_rowsVars => RowsTypes'
BY TypesTick, TypesBegin, TypesRead, TypesStore, TypesFlush, TypesEnd, TypesReport DEF RowsInv, FlowRowsNext, RowsThread

-----------------------------------------------------------------------------
(* What is stored, and what was seen. *)

LEMMA StoredKeep == RowsInv /\ [FlowRowsNext]_rowsVars => StoredInv' /\ SeenInv'
<1> SUFFICES ASSUME RowsInv, [FlowRowsNext]_rowsVars
             PROVE  StoredInv' /\ SeenInv'
    OBVIOUS
<1> USE DEF RowsInv
<1>1. flows' = flows
    BY DEF FlowRowsNext, RowsThread, ClockTicks, BeginCycle, ReadWindow, StoreRow, Flush, EndWindow, EndAdvance,
           WriteCheckpoint, ReportCycle, Hang, Restart, rowsVars
<1>2. CASE Flush
  <2>1. CASE stored' = stored /\ seen' = seen
      BY <1>1, <2>1 DEF StoredInv, SeenInv
  <2>2. CASE /\ stored' = stored \cup {FlowRecord(r) : r \in InBatch}
             /\ seen' = seen \cup {FlowId(r) : r \in InBatch}
    <3>1. \A r \in InBatch : r \in flows /\ FlowRecord(r).row = r
        BY DEF RowsTypes, RowsTypeOK, FlowRecord
    <3>2. ASSUME NEW s \in stored' PROVE s.row \in flows /\ s = FlowRecord(s.row)
        BY <2>2, <3>1 DEF StoredInv
    <3>3. ASSUME NEW i \in seen' PROVE \E s \in stored' : FlowId(s.row) = i
        BY <2>2, <3>1 DEF SeenInv
    <3> QED
        BY <1>1, <3>2, <3>3 DEF StoredInv, SeenInv
  <2> QED
      BY <1>2, <2>1, <2>2 DEF Flush
<1>3. CASE ~Flush
  <2>1. stored' = stored /\ seen' \subseteq seen
      BY <1>3 DEF FlowRowsNext, RowsThread, ClockTicks, BeginCycle, ReadWindow, StoreRow, EndWindow, EndAdvance,
           WriteCheckpoint, ReportCycle, Hang, Restart, rowsVars, rowsSink
  <2> QED
      BY <1>1, <2>1 DEF StoredInv, SeenInv
<1> QED
    BY <1>2, <1>3

-----------------------------------------------------------------------------
(* The window under way. *)

\* A read of the window without a problem has each row of it.
LEMMA WindowRead == RowsInv /\ ReadWindow => WindowInv'
<1> SUFFICES ASSUME RowsInv, ReadWindow, cycleStep' = "storing"
             PROVE  WindowInv'
    BY DEF WindowInv
<1> USE DEF RowsInv
<1>1. /\ UNCHANGED <<flows, watermark, limit, stored>> /\ watermark < limit
    BY DEF ReadWindow, rowsLocals, rowsSink
<1>2. ~(\E r \in Findings : r.shape = "unreadable")
    BY DEF ReadWindow, Raise
<1>3. PICK kept \in SUBSET Findings :
         /\ \A k, l \in kept : FlowId(k) = FlowId(l) => k = l
         /\ unread' = kept /\ problem' = IF kept = Findings THEN "none" ELSE "short_count"
    BY <1>2 DEF ReadWindow
<1>4. Window = Findings /\ Window' = Window
    BY <1>1, WindowIsSettled DEF Window, WindowEnd
<1> QED
    BY <1>1, <1>2, <1>3, <1>4 DEF WindowInv

\* A row passed over as sent is the one that was sent: another with its identity would be
\* in this window too.
LEMMA SeenIsStored ==
    ASSUME RowsInv, cycleStep = "storing", problem = "none", NEW r \in unread, FlowId(r) \in seen
    PROVE  IsStored(r)
<1> USE DEF RowsInv
<1>1. PICK s \in stored : FlowId(s.row) = FlowId(r)
    BY DEF SeenInv
<1>2. r \in Window /\ s.row \in flows
    BY DEF WindowInv, StoredInv
<1>3. r \in flows /\ s.row.time = r.time
    BY <1>1, <1>2, RowsOfFlows DEF Window
<1>4. s.row \in Window
    BY <1>2, <1>3 DEF Window
<1>5. s.row = r
    BY <1>1, <1>2, <1>4 DEF WindowInv
<1> QED
    BY <1>5 DEF IsStored

LEMMA WindowStore == RowsInv /\ StoreRow => WindowInv'
<1> SUFFICES ASSUME RowsInv, StoreRow, cycleStep' = "storing"
             PROVE  WindowInv'
    BY DEF WindowInv
<1> USE DEF RowsInv
<1>1. /\ UNCHANGED <<flows, watermark, limit, stored>> /\ cycleStep = "storing"
    BY DEF StoreRow, rowsLocals, rowsSink
<1>2. Window' = Window /\ \A r : IsStored(r)' <=> IsStored(r)
    BY <1>1 DEF Window, WindowEnd, IsStored
<1>3. PICK r \in unread :
         CASE FlowId(r) \in seen ->
                /\ counters' = [counters EXCEPT !.duplicate = @ + 1] /\ unread' = unread \ {r}
                /\ UNCHANGED <<cycleStep, batch, problem, outcomeOf, problems>>
           [] FlowId(r) \notin seen /\ r.shape = "broken" -> Raise /\ UNCHANGED counters
           [] FlowId(r) \notin seen /\ r.shape = "good" ->
                /\ Fits /\ batch' = Append(batch, r) /\ unread' = unread \ {r}
                /\ UNCHANGED <<cycleStep, problem, outcomeOf, counters, problems>>
    BY DEF StoreRow
<1>4. r \in flows /\ r.shape \in {"good", "broken"}
    BY <1>1, RowsOfFlows DEF WindowInv, RowsTypes
<1>5. unread' = unread \ {r} /\ problem' = problem
      /\ (problem = "none" => IsStored(r) \/ r \in InBatch') /\ \A q \in InBatch : q \in InBatch'
  <2>1. CASE FlowId(r) \in seen
      BY <1>1, <1>3, <2>1, SeenIsStored DEF InBatch
  <2>2. CASE FlowId(r) \notin seen /\ r.shape = "broken"
      BY <1>3, <2>2 DEF Raise
  <2>3. CASE FlowId(r) \notin seen /\ r.shape = "good"
    <3>1. batch' = Append(batch, r) /\ batch \in Seq(flows) /\ unread' = unread \ {r} /\ problem' = problem
        BY <1>3, <2>3 DEF RowsTypes
    <3>2. DOMAIN batch' = 1 .. Len(batch) + 1 /\ batch'[Len(batch) + 1] = r
          /\ \A i \in DOMAIN batch : i \in DOMAIN batch' /\ batch'[i] = batch[i]
        BY <1>4, <3>1
    <3>3. r \in InBatch' /\ \A q \in InBatch : q \in InBatch'
      <4>1. Len(batch) + 1 \in DOMAIN batch'
          BY <3>1, <3>2
      <4> QED
          BY <3>2, <4>1 DEF InBatch
    <3> QED
        BY <3>1, <3>3
  <2> QED
      BY <1>4, <2>1, <2>2, <2>3
<1> QED
    BY <1>1, <1>2, <1>5 DEF WindowInv

LEMMA WindowFlush == RowsInv /\ Flush => WindowInv'
<1> SUFFICES ASSUME RowsInv, Flush, cycleStep' = "storing"
             PROVE  WindowInv'
    BY DEF WindowInv
<1> USE DEF RowsInv
<1>1. /\ UNCHANGED <<flows, watermark, limit, unread, problem>> /\ cycleStep = "storing"
      /\ stored' = stored \cup {FlowRecord(r) : r \in InBatch}
    BY DEF Flush, rowsLocals, rowsSink
<1>2. Window' = Window
    BY <1>1 DEF Window, WindowEnd
<1>3. \A r : IsStored(r) \/ r \in InBatch => IsStored(r)'
  <2>1. \A r \in InBatch : FlowRecord(r) \in stored' /\ FlowRecord(r).row = r
      BY <1>1 DEF FlowRecord
  <2> QED
      BY <1>1, <2>1 DEF IsStored
<1> QED
    BY <1>1, <1>2, <1>3 DEF WindowInv

LEMMA WindowKeep == RowsInv /\ [FlowRowsNext]_rowsVars => WindowInv'
<1> SUFFICES ASSUME RowsInv, [FlowRowsNext]_rowsVars
             PROVE  WindowInv'
    OBVIOUS
<1>1. CASE ReadWindow \/ StoreRow \/ Flush
    BY <1>1, WindowRead, WindowStore, WindowFlush
<1>2. CASE ClockTicks \/ UNCHANGED rowsVars
  <2>1. UNCHANGED <<flows, cycleStep, watermark, limit, unread, batch, problem, stored>>
      BY <1>2 DEF ClockTicks, rowsVars, rowsLocals, rowsWindow, rowsSink
  <2>2. Window' = Window /\ InBatch' = InBatch /\ \A r : IsStored(r)' <=> IsStored(r)
      BY <2>1 DEF Window, WindowEnd, InBatch, IsStored
  <2> QED
      BY <2>1, <2>2 DEF RowsInv, WindowInv
<1>3. CASE BeginCycle \/ EndWindow \/ EndAdvance \/ WriteCheckpoint \/ ReportCycle \/ Hang \/ Restart
    BY <1>3 DEF BeginCycle, EndWindow, EndAdvance, WriteCheckpoint, ReportCycle, Hang, Restart, WindowInv
<1> QED
    BY <1>1, <1>2, <1>3 DEF FlowRowsNext, RowsThread

-----------------------------------------------------------------------------
(* What a watermark has passed. *)

\* A window that ends in full leaves nothing behind it.
LEMMA CoverEnd == RowsInv /\ EndWindow => CoverInv'
<1> SUFFICES ASSUME RowsInv, EndWindow
             PROVE  CoverInv'
    OBVIOUS
<1> USE DEF RowsInv
<1>1. /\ UNCHANGED <<flows, pending, stored, gaps, ckpt>> /\ cycleStep = "storing"
      /\ unread = {} /\ batch = <<>>
    BY DEF EndWindow, rowsSink
<1>2. \A r : IsStored(r)' <=> IsStored(r)
    BY <1>1 DEF IsStored
<1>3. \A r : (IsIn(r, gaps \cup pending)' <=> IsIn(r, gaps \cup pending)) /\ (IsIn(r, gaps)' <=> IsIn(r, gaps))
    BY <1>1 DEF IsIn
<1>4. CASE watermark' = watermark
    BY <1>1, <1>2, <1>3, <1>4 DEF CoverInv
<1>5. CASE watermark' # watermark
  <2>1. problem = "none" /\ watermark' = WindowEnd
      BY <1>5 DEF EndWindow, InFull
  <2>2. InBatch = {}
      BY <1>1 DEF InBatch
  <2>3. \A r \in Window : IsStored(r)
      BY <1>1, <2>1, <2>2 DEF WindowInv
  <2>4. WindowEnd \in Nat /\ watermark \in Nat
      BY <1>1, WindowIsSettled DEF WindowInv, RowsTypes
  <2>5. ASSUME NEW r \in flows, r.time < WindowEnd, ~(r.time < watermark) PROVE r \in Window
    <3>1. r.time \in Nat
        BY RowsOfFlows
    <3> QED
        BY <2>4, <2>5, <3>1, RowsConstants DEF Window, Larger
  <2> QED
      BY <1>1, <1>2, <1>3, <2>1, <2>3, <2>5 DEF CoverInv
<1> QED
    BY <1>4, <1>5

LEMMA CoverKeep == RowsInv /\ [FlowRowsNext]_rowsVars => CoverInv'
<1> SUFFICES ASSUME RowsInv, [FlowRowsNext]_rowsVars
             PROVE  CoverInv'
    OBVIOUS
<1> USE DEF RowsInv
<1>1. flows' = flows
    BY DEF FlowRowsNext, RowsThread, ClockTicks, BeginCycle, ReadWindow, StoreRow, Flush, EndWindow, EndAdvance,
           WriteCheckpoint, ReportCycle, Hang, Restart, rowsVars
<1>2. CASE BeginCycle
  <2>1. UNCHANGED <<stored, gaps, ckpt>>
      BY <1>2 DEF BeginCycle, rowsSink
  <2>2. CASE watermark < Oldest
    <3>1. watermark' = Oldest /\ pending' = pending \cup {<<watermark, Oldest>>}
        BY <1>2, <2>2 DEF BeginCycle, Jump
    <3>2. ASSUME NEW r \in flows, r.time < Oldest, ~(r.time < watermark) PROVE IsIn(r, pending')
      <4>1. r.time \in Nat /\ watermark \in Nat
          BY RowsOfFlows DEF RowsTypes
      <4>2. <<watermark, Oldest>> \in pending' /\ <<watermark, Oldest>>[1] <= r.time /\ r.time < <<watermark, Oldest>>[2]
          BY <3>1, <3>2, <4>1
      <4> QED
          BY <4>2 DEF IsIn
    <3> QED
        BY <1>1, <2>1, <3>1, <3>2 DEF CoverInv, IsIn, IsStored
  <2>3. CASE ~(watermark < Oldest)
      BY <1>1, <1>2, <2>1, <2>3 DEF BeginCycle, CoverInv, IsIn, IsStored
  <2> QED
      BY <2>2, <2>3
<1>3. CASE EndWindow
    BY <1>3, CoverEnd
<1>4. CASE Flush
  <2>1. UNCHANGED <<watermark, pending, gaps, ckpt>> /\ stored \subseteq stored'
      BY <1>4 DEF Flush
  <2> QED
      BY <1>1, <2>1 DEF CoverInv, IsIn, IsStored
<1>5. CASE WriteCheckpoint
  <2>1. /\ watermark' = watermark /\ stored' = stored
        /\ \/ gaps' = gaps \cup pending /\ ckpt' = watermark /\ pending' = {}
           \/ UNCHANGED <<gaps, ckpt, pending>>
      BY <1>5 DEF WriteCheckpoint
  <2> QED
      BY <1>1, <2>1 DEF CoverInv, IsIn, IsStored
<1>6. CASE Restart
  <2>1. watermark' = ckpt /\ pending' = {} /\ UNCHANGED <<stored, gaps, ckpt>>
      BY <1>6 DEF Restart, rowsSink
  <2> QED
      BY <1>1, <2>1 DEF CoverInv, IsIn, IsStored
<1>7. CASE ClockTicks \/ ReadWindow \/ StoreRow \/ EndAdvance \/ ReportCycle \/ Hang \/ UNCHANGED rowsVars
  <2>1. UNCHANGED <<watermark, pending, stored, gaps, ckpt>>
      BY <1>7 DEF ClockTicks, ReadWindow, StoreRow, EndAdvance, ReportCycle, Hang, rowsVars, rowsSink
  <2> QED
      BY <1>1, <2>1 DEF CoverInv, IsIn, IsStored
<1> QED
    BY <1>2, <1>3, <1>4, <1>5, <1>6, <1>7 DEF FlowRowsNext, RowsThread

-----------------------------------------------------------------------------
(* The counters, and the time a cycle takes. *)

\* The fields of the counters are numbers, and so is what a window has left.
LEMMA CountersAreNumbers ==
    ASSUME RowsTypes
    PROVE  /\ counters.read \in Nat /\ counters.written \in Nat /\ counters.duplicate \in Nat
           /\ counters.ok \in Nat /\ counters.incomplete \in Nat
           /\ problems \in Nat /\ lastSuccess \in Nat /\ Len(batch) \in Nat
           /\ IsFiniteSet(unread) /\ Cardinality(unread) \in Nat
<1>1. DOMAIN Zero = {"read", "written", "duplicate", "ok", "incomplete", "ingest_failed"}
    BY DEF Zero
<1>2. unread \subseteq flows /\ IsFiniteSet(flows)
    BY RowsOfFlows DEF RowsTypes
<1> QED
    BY <1>1, <1>2, FS_Subset, FS_CardinalityType, SMTT(30) DEF RowsTypes

\* A row leaves those unread and a window leaves nothing: neither adds to what was read.
Read == counters.read
Dealt == counters.written + counters.duplicate + Len(batch) + Cardinality(unread)

LEMMA DealtKeep == RowsInv /\ [FlowRowsNext]_rowsVars => (Dealt <= Read)'
<1> SUFFICES ASSUME RowsInv, [FlowRowsNext]_rowsVars
             PROVE  (Dealt <= Read)'
    OBVIOUS
<1> USE DEF RowsInv
<1>1. RowsTypes /\ RowsTypes' /\ Dealt <= Read
    BY TypesKeep DEF CountInv, Dealt, Read
<1>2. \A c \in DOMAIN Zero : counters[c] \in Nat
    BY <1>1 DEF RowsTypes
<1>3. DOMAIN counters = {"read", "written", "duplicate", "ok", "incomplete", "ingest_failed"}
    BY <1>1 DEF RowsTypes, Zero
<1>4. Cardinality({}) = 0 /\ Len(<<>>) = 0
    BY FS_EmptySet
<1>5. ASSUME unread' = {}, batch' = <<>>, UNCHANGED counters PROVE (Dealt <= Read)'
    BY <1>1, <1>4, <1>5, CountersAreNumbers DEF Dealt, Read
<1>6. CASE ReadWindow
  <2>1. CASE \E r \in Findings : r.shape = "unreadable"
      BY <1>5, <1>6, <2>1 DEF ReadWindow, Raise
  <2>2. CASE ~(\E r \in Findings : r.shape = "unreadable")
    <3>1. PICK kept \in SUBSET Findings :
             unread' = kept /\ counters' = [counters EXCEPT !.read = @ + Cardinality(kept)] /\ batch' = batch
        BY <1>6, <2>2 DEF ReadWindow
    <3>2. /\ counters'.read = counters.read + Cardinality(unread')
          /\ counters'.written = counters.written /\ counters'.duplicate = counters.duplicate
        BY <1>3, <3>1
    <3>3. Len(batch') = Len(batch) /\ Cardinality(unread') \in Nat
      <4>1. unread' \subseteq flows
          BY <3>1 DEF Findings
      <4> QED
          BY <1>1, <3>1, <4>1, RowsOfFlows, FS_Subset, FS_CardinalityType
    <3> QED
        BY <1>1, <3>2, <3>3, CountersAreNumbers DEF Dealt, Read
  <2> QED
      BY <2>1, <2>2
<1>7. CASE StoreRow
  <2>1. PICK r \in unread :
           CASE FlowId(r) \in seen ->
                  /\ counters' = [counters EXCEPT !.duplicate = @ + 1] /\ unread' = unread \ {r}
                  /\ UNCHANGED <<cycleStep, batch, problem, outcomeOf, problems>>
             [] FlowId(r) \notin seen /\ r.shape = "broken" -> Raise /\ UNCHANGED counters
             [] FlowId(r) \notin seen /\ r.shape = "good" ->
                  /\ Fits /\ batch' = Append(batch, r) /\ unread' = unread \ {r}
                  /\ UNCHANGED <<cycleStep, problem, outcomeOf, counters, problems>>
      BY <1>7 DEF StoreRow
  <2>2. r \in flows /\ r.shape \in {"good", "broken"}
      BY <1>7, RowsOfFlows DEF WindowInv, RowsTypes, StoreRow
  <2>3. Cardinality(unread \ {r}) = Cardinality(unread) - 1
      BY <1>1, CountersAreNumbers, FS_RemoveElement
  <2>4. CASE FlowId(r) \in seen
    <3>1. counters' = [counters EXCEPT !.duplicate = @ + 1] /\ unread' = unread \ {r} /\ batch' = batch
        BY <2>1, <2>4
    <3>2. /\ counters'.duplicate = counters.duplicate + 1
          /\ counters'.written = counters.written /\ counters'.read = counters.read
        BY <1>3, <3>1
    <3>3. Len(batch') = Len(batch) /\ Cardinality(unread') = Cardinality(unread) - 1
        BY <2>3, <3>1
    <3> QED
        BY <1>1, <3>2, <3>3, CountersAreNumbers, SMTT(30) DEF Dealt, Read
  <2>5. CASE FlowId(r) \notin seen /\ r.shape = "broken"
      BY <1>5, <2>1, <2>5 DEF Raise
  <2>6. CASE FlowId(r) \notin seen /\ r.shape = "good"
    <3>1. batch' = Append(batch, r) /\ unread' = unread \ {r} /\ counters' = counters /\ batch \in Seq(flows)
        BY <2>1, <2>6 DEF RowsTypes
    <3>2. Len(batch') = Len(batch) + 1
        BY <2>2, <3>1
    <3>3. Cardinality(unread') = Cardinality(unread) - 1
        BY <2>3, <3>1
    <3> QED
        BY <1>1, <3>1, <3>2, <3>3, CountersAreNumbers DEF Dealt, Read
  <2> QED
      BY <2>2, <2>4, <2>5, <2>6
<1>8. CASE Flush
  <2>1. CASE unread' = {} /\ batch' = <<>> /\ UNCHANGED counters
      BY <1>5, <2>1
  <2>2. CASE unread' = unread /\ batch' = <<>> /\ counters' = [counters EXCEPT !.written = @ + Len(batch)]
    <3>1. /\ counters'.written = counters.written + Len(batch)
          /\ counters'.duplicate = counters.duplicate /\ counters'.read = counters.read
        BY <1>3, <2>2
    <3>2. Len(batch') = 0 /\ Cardinality(unread') = Cardinality(unread)
        BY <1>4, <2>2
    <3> QED
        BY <1>1, <3>1, <3>2, CountersAreNumbers DEF Dealt, Read
  <2> QED
      BY <1>8, <2>1, <2>2 DEF Flush
<1>9. CASE ReportCycle
  <2>1. counters' = [counters EXCEPT ![outcomeOf] = @ + 1] /\ UNCHANGED <<unread, batch>>
        /\ outcomeOf \in {"ok", "incomplete", "ingest_failed"}
      BY <1>9 DEF ReportCycle, rowsWindow, RowsTypes, RowsTypeOK
  <2>2. counters'.read = counters.read /\ counters'.written = counters.written /\ counters'.duplicate = counters.duplicate
      BY <1>3, <2>1
  <2> QED
      BY <1>1, <2>1, <2>2 DEF Dealt, Read
<1>10. CASE Restart
  <2>1. unread' = {} /\ batch' = <<>> /\ counters' = Zero
      BY <1>10 DEF Restart
  <2> QED
      BY <1>4, <2>1 DEF Dealt, Read, Zero
<1>11. CASE ClockTicks \/ BeginCycle \/ EndWindow \/ EndAdvance \/ WriteCheckpoint \/ Hang \/ UNCHANGED rowsVars
  <2>1. UNCHANGED <<counters, unread, batch>>
      BY <1>11 DEF ClockTicks, BeginCycle, EndWindow, EndAdvance, WriteCheckpoint, Hang, rowsVars, rowsWindow
  <2> QED
      BY <1>1, <2>1 DEF Dealt, Read
<1> QED
    BY <1>6, <1>7, <1>8, <1>9, <1>10, <1>11 DEF FlowRowsNext, RowsThread

\* A problem is counted before the outcome that reports it.
Reported ==
    /\ problems >= counters.incomplete /\ (outcomeOf = "incomplete" => problems > counters.incomplete)
    /\ last = "incomplete" => problems > 0
    /\ lastSuccess > 0 => counters.ok > 0

LEMMA ReportedKeep == RowsInv /\ [FlowRowsNext]_rowsVars => Reported'
<1> SUFFICES ASSUME RowsInv, [FlowRowsNext]_rowsVars
             PROVE  Reported'
    OBVIOUS
<1> USE DEF RowsInv
<1>1. RowsTypes /\ RowsTypes' /\ Reported
    BY TypesKeep DEF CountInv, Reported
<1>2. DOMAIN counters = {"read", "written", "duplicate", "ok", "incomplete", "ingest_failed"}
    BY <1>1 DEF RowsTypes, Zero
<1>3. CASE ReportCycle
  <2>1. /\ counters' = [counters EXCEPT ![outcomeOf] = @ + 1] /\ problems' = problems
        /\ outcomeOf \in {"ok", "incomplete", "ingest_failed"} /\ outcomeOf' = "none" /\ last' = outcomeOf
        /\ lastSuccess' = IF outcomeOf = "ok" THEN now ELSE lastSuccess
      BY <1>3 DEF ReportCycle, RowsTypes, RowsTypeOK
  <2>2. CASE outcomeOf = "ok"
    <3>1. counters'.ok = counters.ok + 1 /\ counters'.incomplete = counters.incomplete
        BY <1>2, <2>1, <2>2
    <3> QED
        BY <1>1, <2>1, <2>2, <3>1, CountersAreNumbers DEF Reported
  <2>3. CASE outcomeOf = "incomplete"
    <3>1. counters'.ok = counters.ok /\ counters'.incomplete = counters.incomplete + 1
        BY <1>2, <2>1, <2>3
    <3> QED
        BY <1>1, <2>1, <2>3, <3>1, CountersAreNumbers DEF Reported
  <2>4. CASE outcomeOf = "ingest_failed"
    <3>1. counters'.ok = counters.ok /\ counters'.incomplete = counters.incomplete
        BY <1>2, <2>1, <2>4
    <3> QED
        BY <1>1, <2>1, <2>4, <3>1, CountersAreNumbers DEF Reported
  <2> QED
      BY <2>1, <2>2, <2>3, <2>4
<1>4. CASE Restart
    BY <1>4 DEF Restart, Reported, Zero
<1>5. CASE ~ReportCycle /\ ~Restart
  <2>1. UNCHANGED <<last, lastSuccess>>
      BY <1>5 DEF FlowRowsNext, RowsThread, ClockTicks, BeginCycle, ReadWindow, StoreRow, Flush, EndWindow, EndAdvance,
           WriteCheckpoint, Hang, rowsVars, rowsReport
  <2>2. counters'.ok = counters.ok /\ counters'.incomplete = counters.incomplete
    <3>1. CASE UNCHANGED counters
        BY <3>1
    <3>2. CASE ReadWindow \/ StoreRow \/ Flush
      <4>1. \/ counters' = counters
            \/ \E n : counters' = [counters EXCEPT !.read = n]
            \/ \E n : counters' = [counters EXCEPT !.duplicate = n]
            \/ \E n : counters' = [counters EXCEPT !.written = n]
        <5>1. CASE ReadWindow
            BY <5>1 DEF ReadWindow
        <5>2. CASE StoreRow
          <6>1. \A r \in unread : r.shape \in {"good", "broken"}
              BY <5>2, RowsOfFlows DEF WindowInv, RowsTypes, StoreRow
          <6> QED
              BY <5>2, <6>1 DEF StoreRow
        <5>3. CASE Flush
            BY <5>3 DEF Flush
        <5> QED
            BY <3>2, <5>1, <5>2, <5>3
      <4> QED
          BY <1>2, <4>1
    <3>3. CASE ~(ReadWindow \/ StoreRow \/ Flush)
        BY <1>5, <3>3 DEF FlowRowsNext, RowsThread, ClockTicks, BeginCycle, EndWindow, EndAdvance,
           WriteCheckpoint, Hang, rowsVars
    <3> QED
        BY <3>1, <3>2, <3>3
  <2>3. \/ problems' = problems /\ (outcomeOf' = "incomplete" => outcomeOf = "incomplete")
        \/ problems' = problems + 1
    <3>1. CASE ReadWindow \/ StoreRow \/ EndWindow
      <4>1. CASE ReadWindow
          BY <4>1 DEF ReadWindow, Raise, RowsOf
      <4>2. CASE StoreRow
        <5>1. \A r \in unread : r.shape \in {"good", "broken"}
            BY <4>2, RowsOfFlows DEF WindowInv, RowsTypes, StoreRow
        <5> QED
            BY <4>2, <5>1 DEF StoreRow, Raise, RowsOf
      <4>3. CASE EndWindow
          BY <4>3 DEF EndWindow, RowsOf
      <4> QED
          BY <3>1, <4>1, <4>2, <4>3
    <3>2. CASE ~(ReadWindow \/ StoreRow \/ EndWindow)
        BY <1>5, <3>2 DEF FlowRowsNext, RowsThread, ClockTicks, BeginCycle, Flush, EndAdvance,
           WriteCheckpoint, Hang, rowsVars, rowsReport
    <3> QED
        BY <3>1, <3>2
  <2> QED
      BY <1>1, <2>1, <2>2, <2>3, CountersAreNumbers DEF Reported
<1> QED
    BY <1>3, <1>4, <1>5

LEMMA TimeKeep == RowsInv /\ [FlowRowsNext]_rowsVars => TimeInv'
<1> SUFFICES ASSUME RowsInv, [FlowRowsNext]_rowsVars
             PROVE  TimeInv'
    OBVIOUS
<1>1. /\ now \in Nat /\ wake \in Nat /\ deadline \in Nat /\ heartbeat \in Nat /\ TimeInv
    BY DEF RowsInv, RowsTypes
<1> USE RowsConstants
<1>2. CASE ClockTicks
  <2>1. now' = now + 1 /\ ~Due /\ UNCHANGED <<cycleStep, wake, deadline, heartbeat>>
        /\ (cycleStep \in {"idle", "hung"} \/ now < deadline + Timeout)
      BY <1>2 DEF ClockTicks, rowsLocals, rowsReport
  <2> QED
      BY <1>1, <2>1 DEF TimeInv, Due
<1>3. CASE BeginCycle
  <2>1. Due /\ cycleStep' = "reading" /\ deadline' = now + MaxCycle /\ UNCHANGED <<now, wake, heartbeat>>
      BY <1>3 DEF BeginCycle, rowsReport
  <2> QED
      BY <1>1, <2>1 DEF TimeInv, Due
<1>4. CASE ReportCycle \/ Restart
    BY <1>1, <1>4 DEF ReportCycle, Restart, Beat, TimeInv
<1>5. CASE ReadWindow \/ StoreRow \/ Flush \/ EndWindow \/ EndAdvance \/ WriteCheckpoint \/ Hang \/ UNCHANGED rowsVars
  <2>1. UNCHANGED <<now, wake, deadline, heartbeat>>
      BY <1>5 DEF ReadWindow, StoreRow, Flush, EndWindow, EndAdvance, WriteCheckpoint, Hang, rowsVars, rowsLocals, rowsReport
  <2>2. cycleStep' = cycleStep \/ (cycleStep \in {"reading", "storing", "closing"} /\ cycleStep' # "idle")
    <3>1. CASE StoreRow
      <4>1. cycleStep = "storing" /\ \A r \in unread : r.shape \in {"good", "broken"}
          BY <3>1, RowsOfFlows DEF RowsInv, WindowInv, RowsTypes, StoreRow
      <4> QED
          BY <3>1, <4>1 DEF StoreRow, Raise
    <3>2. CASE ~StoreRow
        BY <1>5, <3>2 DEF ReadWindow, Flush, EndWindow, EndAdvance, WriteCheckpoint, Hang, rowsVars, Raise
    <3> QED
        BY <3>1, <3>2
  <2> QED
      BY <1>1, <2>1, <2>2 DEF TimeInv
<1> QED
    BY <1>2, <1>3, <1>4, <1>5 DEF FlowRowsNext, RowsThread

LEMMA RowsStep == RowsInv /\ [FlowRowsNext]_rowsVars => RowsInv'
<1> SUFFICES ASSUME RowsInv, [FlowRowsNext]_rowsVars
             PROVE  RowsInv'
    OBVIOUS
<1>1. CountInv'
    BY DealtKeep, ReportedKeep DEF CountInv, Dealt, Read, Reported
<1> QED
    BY <1>1, TypesKeep, StoredKeep, WindowKeep, CoverKeep, TimeKeep DEF RowsInv

\* What the invariant says of a row is what a reader sees of it.
LEMMA RowsPromise == RowsInv => RowsSafe
<1> SUFFICES ASSUME RowsInv
             PROVE  RowsSafe
    OBVIOUS
<1> USE DEF RowsInv
<1>1. HeldNotLost
    BY DEF CoverInv, HeldNotLost, IsStored, IsIn
<1>2. ScrapeAddsUp
  <2>1. ScrapeMetrics.latest["incomplete"] = 1 => last = "incomplete"
      BY DEF ScrapeMetrics, Results
  <2>2. counters.written + counters.duplicate <= counters.read
      BY CountersAreNumbers DEF CountInv
  <2> QED
      BY <2>1, <2>2 DEF CountInv, ScrapeAddsUp, ScrapeMetrics
<1>3. ScopeIsOfDestination
  <2> SUFFICES ASSUME NEW s \in stored
               PROVE  /\ s.scope = "internet" <=> s.row.dstZone = "External"
                      /\ s.scope = "inter_network" => s.row.inNet = NoTime \/ s.row.outNet = NoTime \/ s.row.inNet # s.row.outNet
      BY DEF ScopeIsOfDestination
  <2> DEFINE source == First(s.row.inNet, s.row.srcZone, "unknown")
             destination == First(s.row.outNet, s.row.dstZone, "unknown")
  <2>1. s.scope = FlowScope(s.row, source, destination)
      BY DEF StoredInv, FlowRecord
  <2>2. s.row.inNet # NoTime /\ s.row.outNet # NoTime => source = s.row.inNet /\ destination = s.row.outNet
      BY DEF First
  <2> HIDE DEF source, destination
  <2> QED
      BY <2>1, <2>2 DEF FlowScope
<1> QED
    BY <1>1, <1>2, <1>3 DEF RowsSafe, RowsTypes

\* Rows that cannot become records are accounted for: once a checkpoint is past a row it is
\* stored or inside a recorded gap, every scrape adds up and a scope is the destination's,
\* for any rows of any shapes, refused writes, hung responses and restarts (collector.py).
THEOREM RowsAreSafe == FlowRowsSpec => []RowsSafe
BY RowsStart, RowsStep, RowsPromise, PTL DEF FlowRowsSpec

\* The liveness probe restarts a thread only if it hangs, whatever the console and the sink
\* did to its cycles: a cycle is over within its deadline and one request's timeout, and that
\* is earlier than the probe loses patience.
THEOREM RestartsAreOfHung == FlowRowsSpec => RestartsOnlyHung
<1>1. RowsInv /\ [FlowRowsNext]_rowsVars => [Restart => cycleStep = "hung"]_rowsVars
  <2> SUFFICES ASSUME RowsInv, Restart
               PROVE  cycleStep = "hung"
      OBVIOUS
  <2>1. ~(now - heartbeat < 3 * Poll + MaxCycle)
      BY DEF Restart, Probe, Healthy
  <2>2. /\ now \in Nat /\ wake \in Nat /\ deadline \in Nat /\ heartbeat \in Nat /\ TimeInv
      BY DEF RowsInv, RowsTypes
  <2> QED
      BY <2>1, <2>2, RowsConstants DEF TimeInv
<1> QED
    BY <1>1, RowsStart, RowsStep, PTL DEF FlowRowsSpec, RestartsOnlyHung

-----------------------------------------------------------------------------
(* PolicyDelta.  The checker accepts only under the ids it reviewed.  EditedInv  *)
(* says that then the edit alone would have kept them too: a return that moved   *)
(* leaves an id behind that never comes back.  UndisturbedInv follows the        *)
(* inventory of an edit nobody meddles with, for as long as no return moves.     *)

ReturnIds == {Returns[f] : f \in Forwards}
WellFormed(inventory) == DOMAIN inventory \subseteq PolicyIds /\ \A i \in DOMAIN inventory : inventory[i] \in Policies
ForwardsOwn(inventory) == \A f \in Forwards \cap DOMAIN inventory : inventory[f].of = NoOrigin

\* The inventory the edit has led to so far, without a return that moved.
Planning(i) ==
    IF i \in planWritten \/ beforeEdit[i].of \in planWritten THEN Proposed(beforeEdit[i]) ELSE beforeEdit[i]
InPlace == DOMAIN alone = DOMAIN beforeEdit /\ \A i \in DOMAIN beforeEdit : alone[i] = Planning(i)

EditedInv ==
    /\ ForwardsOwn(live) /\ ForwardsOwn(beforeEdit)
    /\ reviewStage \in {"start", "prepare"} => planWritten = {}
    /\ reviewStage = "start" => DOMAIN beforeEdit = {} /\ DOMAIN alone = {}
    /\ reviewStage \in {"edit", "verify", "matches"} => Prepares(beforeEdit)
    /\ reviewStage \in {"prepare", "edit"} /\ Prepares(beforeEdit) /\ DOMAIN beforeEdit \subseteq DOMAIN live => InPlace
    /\ reviewStage \in {"verify", "matches"} => planWritten = Forwards /\ (SameIds => InPlace)
    /\ reviewStage = "matches" => Delta

\* The inventory as it was set up, with the addresses given for forwards and returns.
Canonical(inventory) ==
    /\ DOMAIN inventory = PolicyIds \ Spare
    /\ \A f \in Forwards : inventory[Returns[f]].of = f
    /\ \A i \in DOMAIN inventory :
          /\ inventory[i].sound /\ inventory[i].name = "n1"
          /\ i \notin ReturnIds => inventory[i].of = NoOrigin
          /\ i \notin ReturnIds \cup Forwards => inventory[i].ips = "old"
AllOld(inventory) == Canonical(inventory) /\ \A i \in DOMAIN inventory : inventory[i].ips = "old"
NoneMoved(inventory) == ReturnIds \subseteq DOMAIN inventory
Written(inventory) ==
    Canonical(inventory) /\ \A f \in Forwards : inventory[f].ips = IF f \in planWritten THEN "new" ELSE "old"

UndisturbedInv ==
    meddling = 0 =>
        /\ reviewStage \in {"start", "prepare"} => AllOld(live)
        /\ reviewStage # "start" => AllOld(beforeEdit)
        /\ reviewStage = "edit" => Forwards \subseteq DOMAIN live /\ (NoneMoved(live) => Written(live))
        /\ reviewStage = "verify" => (NoneMoved(afterEdit) => Written(afterEdit))

DeltaInv == PolicyTypeOK /\ EditedInv /\ UndisturbedInv /\ RefusedForCause

LEMMA PolicyConstants ==
    /\ MaxMeddling \in Nat /\ NoOrigin \notin PolicyIds /\ Forwards \subseteq PolicyIds /\ Spare \subseteq PolicyIds
    /\ \A f \in Forwards : Returns[f] \in PolicyIds /\ Returns[f] \notin Forwards /\ Returns[f] \notin Spare
    /\ \A f, g \in Forwards : Returns[f] = Returns[g] => f = g
    /\ OtherPolicies \cap (Forwards \cup ReturnIds \cup Spare) = {}
BY PolicyAssumption DEF PolicyIds, ReturnIds

LEMMA PolicyFields ==
    ASSUME NEW p \in Policies
    PROVE  /\ p.of \in Forwards \cup {NoOrigin} /\ p.ips \in Addresses /\ p.sound \in BOOLEAN /\ p.name \in {"n1", "n2"}
           /\ p.hits \in 0 .. 1
           /\ p = [of |-> p.of, ips |-> p.ips, sound |-> p.sound, name |-> p.name, hits |-> p.hits]
BY DEF Policies

\* A policy with other addresses, another name or count.
LEMMA PolicyChanged ==
    ASSUME NEW p \in Policies
    PROVE  /\ \A a \in Addresses : LET q == [p EXCEPT !.ips = a]
                                   IN q \in Policies /\ q.of = p.of /\ q.ips = a /\ q.sound = p.sound /\ q.name = p.name
           /\ \A n \in {"n1", "n2"} : LET q == [p EXCEPT !.name = n] IN q \in Policies /\ q.of = p.of
           /\ LET q == [p EXCEPT !.sound = ~@] IN q \in Policies /\ q.of = p.of
           /\ LET q == [p EXCEPT !.hits = 1]
              IN q \in Policies /\ q.of = p.of /\ q.ips = p.ips /\ q.sound = p.sound /\ q.name = p.name
<1> USE PolicyFields
<1>1. ASSUME NEW a \in Addresses
      PROVE  LET q == [p EXCEPT !.ips = a]
             IN q \in Policies /\ q.of = p.of /\ q.ips = a /\ q.sound = p.sound /\ q.name = p.name
    BY DEF Policies
<1>2. ASSUME NEW n \in {"n1", "n2"} PROVE LET q == [p EXCEPT !.name = n] IN q \in Policies /\ q.of = p.of
    BY DEF Policies
<1>3. LET q == [p EXCEPT !.sound = ~@] IN q \in Policies /\ q.of = p.of
    BY DEF Policies
<1>4. LET q == [p EXCEPT !.hits = 1]
      IN q \in Policies /\ q.of = p.of /\ q.ips = p.ips /\ q.sound = p.sound /\ q.name = p.name
    BY DEF Policies
<1> QED
    BY <1>1, <1>2, <1>3, <1>4

LEMMA ProposedPolicy ==
    ASSUME NEW p \in Policies
    PROVE  /\ Proposed(p) \in Policies /\ Proposed(p).of = p.of /\ Proposed(p).ips = "new"
           /\ Proposed(p).sound = p.sound /\ Proposed(p).name = p.name
BY PolicyChanged DEF Proposed, Addresses

LEMMA SameMeans ==
    ASSUME NEW p \in Policies, NEW q \in Policies
    PROVE  SameButCounters(p, q) <=> p.of = q.of /\ p.ips = q.ips /\ p.sound = q.sound /\ p.name = q.name
<1>1. /\ Semantic(p) = [of |-> p.of, ips |-> p.ips, sound |-> p.sound, name |-> p.name, hits |-> 0]
      /\ Semantic(q) = [of |-> q.of, ips |-> q.ips, sound |-> q.sound, name |-> q.name, hits |-> 0]
    BY DEF Policies, Semantic
<1> QED
    BY <1>1 DEF SameButCounters

LEMMA PolicyTypes ==
    PolicyTypeOK <=> /\ WellFormed(live) /\ WellFormed(beforeEdit) /\ WellFormed(afterEdit) /\ WellFormed(alone)
                     /\ reviewStage \in {"start", "prepare", "edit", "verify", "matches", "refused"}
                     /\ planWritten \subseteq Forwards /\ meddling \in 0 .. MaxMeddling
BY DEF PolicyTypeOK, WellFormed

\* An inventory after return r of f has followed, now under id.
Followed(inventory, next, r, f, id) ==
    /\ WellFormed(next) /\ DOMAIN next = (DOMAIN inventory \ {r}) \cup {id}
    /\ \A j \in DOMAIN next \ {id} : next[j] = inventory[j]
    /\ next[id] = [inventory[r] EXCEPT !.ips = inventory[f].ips]
    /\ next[id].of = f /\ next[id].sound = inventory[r].sound /\ next[id].name = inventory[r].name
    /\ ForwardsOwn(inventory) => ForwardsOwn(next) /\ r \notin Forwards

LEMMA FollowMeans ==
    ASSUME NEW inventory, WellFormed(inventory), NEW f \in Forwards, f \in DOMAIN inventory,
           NEW r \in RepliesIn(inventory, f), NEW id \in {r} \cup Spare,
           NEW next, next = Follow(inventory, r, f, id)
    PROVE  Followed(inventory, next, r, f, id)
<1>1. r \in DOMAIN inventory /\ inventory[r].of = f /\ inventory[r] \in Policies /\ inventory[f] \in Policies
    BY DEF RepliesIn, WellFormed
<1> DEFINE p == [inventory[r] EXCEPT !.ips = inventory[f].ips]
<1>2. p \in Policies /\ p.of = f /\ p.ips = inventory[f].ips /\ p.sound = inventory[r].sound /\ p.name = inventory[r].name
    BY <1>1, PolicyFields, PolicyChanged
<1>3. next = [j \in (DOMAIN inventory \ {r}) \cup {id} |-> IF j = id THEN p ELSE inventory[j]]
    BY DEF Follow
<1> HIDE DEF p
<1>4. /\ DOMAIN next = (DOMAIN inventory \ {r}) \cup {id} /\ next[id] = p
      /\ \A j \in DOMAIN next \ {id} : next[j] = inventory[j]
    BY <1>3
<1>5. WellFormed(next)
    BY <1>1, <1>2, <1>4, PolicyConstants DEF WellFormed
<1>6. ForwardsOwn(inventory) => r \notin Forwards
    BY <1>1, PolicyConstants DEF ForwardsOwn
<1>7. ASSUME ForwardsOwn(inventory) PROVE ForwardsOwn(next)
  <2>1. Spare \cap Forwards = {}
      BY PolicyAssumption
  <2>2. id \notin Forwards
      BY <1>6, <1>7, <2>1
  <2>3. \A g \in Forwards \cap DOMAIN next : g \in DOMAIN inventory /\ next[g] = inventory[g]
      BY <1>4, <2>2
  <2> QED
      BY <1>7, <2>3 DEF ForwardsOwn
<1> QED
    BY <1>2, <1>4, <1>5, <1>6, <1>7 DEF p, Followed


-----------------------------------------------------------------------------
LEMMA DeltaStarts == PolicyInit => DeltaInv
<1> SUFFICES ASSUME PolicyInit
             PROVE  DeltaInv
    OBVIOUS
<1>1. /\ reviewStage = "start" /\ beforeEdit = <<>> /\ afterEdit = <<>> /\ planWritten = {} /\ alone = <<>> /\ meddling = 0
      /\ live = [i \in PolicyIds \ Spare |->
                   IF \E f \in Forwards : i = Returns[f]
                   THEN Policy(CHOOSE f \in Forwards : i = Returns[f], "old") ELSE Policy(NoOrigin, "old")]
    BY DEF PolicyInit
<1>2. DOMAIN beforeEdit = {} /\ DOMAIN afterEdit = {} /\ DOMAIN alone = {} /\ DOMAIN live = PolicyIds \ Spare
    BY <1>1
<1>3. \A f \in Forwards \cup {NoOrigin} :
         LET p == Policy(f, "old") IN p \in Policies /\ p.of = f /\ p.ips = "old" /\ p.sound = TRUE /\ p.name = "n1"
    BY DEF Policy, Policies, Addresses
<1>4. \A f \in Forwards : Returns[f] \in DOMAIN live /\ live[Returns[f]] = Policy(f, "old")
  <2> SUFFICES ASSUME NEW f \in Forwards PROVE Returns[f] \in DOMAIN live /\ live[Returns[f]] = Policy(f, "old")
      OBVIOUS
  <2>1. Returns[f] \in DOMAIN live
      BY <1>2, PolicyConstants
  <2>2. (CHOOSE g \in Forwards : Returns[f] = Returns[g]) = f
      BY PolicyConstants
  <2> QED
      BY <1>1, <1>2, <2>1, <2>2
<1>5. \A i \in DOMAIN live : i \notin ReturnIds => live[i] = Policy(NoOrigin, "old")
    BY <1>1, <1>2 DEF ReturnIds
<1>6. \A i \in DOMAIN live : live[i] \in Policies /\ live[i].ips = "old" /\ live[i].sound = TRUE /\ live[i].name = "n1"
    BY <1>3, <1>4, <1>5 DEF ReturnIds
<1>7. WellFormed(live)
    BY <1>2, <1>6 DEF WellFormed
<1>8. AllOld(live)
    BY <1>2, <1>3, <1>4, <1>5, <1>6 DEF AllOld, Canonical
<1>9. ForwardsOwn(live)
    BY <1>3, <1>5, PolicyConstants DEF ForwardsOwn, ReturnIds
<1>10. PolicyTypeOK
    BY <1>1, <1>2, <1>7, PolicyTypes, PolicyConstants DEF WellFormed
<1>11. EditedInv
    BY <1>1, <1>2, <1>9 DEF EditedInv, ForwardsOwn
<1> QED
    BY <1>1, <1>8, <1>10, <1>11 DEF DeltaInv, UndisturbedInv, RefusedForCause

\* The inventory as it was set up is one that prepare accepts.
LEMMA OldPrepares ==
    ASSUME NEW inventory, WellFormed(inventory), AllOld(inventory)
    PROVE  Prepares(inventory)
<1>1. ASSUME NEW f \in Forwards
      PROVE  /\ f \in DOMAIN inventory /\ Cardinality(RepliesIn(inventory, f)) = 1
             /\ \A r \in RepliesIn(inventory, f) : PairOk(inventory[f], inventory[r], "old")
  <2>1. f \in DOMAIN inventory /\ Returns[f] \in DOMAIN inventory
      BY PolicyAssumption, PolicyConstants DEF AllOld, Canonical
  <2>2. RepliesIn(inventory, f) = {Returns[f]}
    <3>1. \A i \in DOMAIN inventory : inventory[i].of = f => i = Returns[f]
      <4> SUFFICES ASSUME NEW i \in DOMAIN inventory, inventory[i].of = f PROVE i = Returns[f]
          OBVIOUS
      <4>1. i \in ReturnIds
          BY PolicyConstants DEF AllOld, Canonical
      <4>2. PICK g \in Forwards : i = Returns[g]
          BY <4>1 DEF ReturnIds
      <4> QED
          BY <4>2 DEF AllOld, Canonical
    <3> QED
        BY <2>1, <3>1 DEF RepliesIn, AllOld, Canonical
  <2>3. Cardinality({Returns[f]}) = 1
      BY FS_Singleton, Zenon
  <2> QED
      BY <2>1, <2>2, <2>3 DEF PairOk, AllOld, Canonical
<1> QED
    BY <1>1 DEF Prepares

LEMMA ReadBeforeKeeps == DeltaInv /\ ReadBefore => DeltaInv'
<1> SUFFICES ASSUME DeltaInv, ReadBefore
             PROVE  DeltaInv'
    OBVIOUS
<1> USE DEF DeltaInv
<1>1. /\ reviewStage = "start" /\ beforeEdit' = live /\ alone' = live /\ reviewStage' = "prepare"
      /\ UNCHANGED <<live, afterEdit, planWritten, meddling>>
    BY DEF ReadBefore
<1>2. PolicyTypeOK'
    BY <1>1 DEF PolicyTypeOK
<1>3. planWritten' = {} /\ InPlace'
    BY <1>1 DEF InPlace, Planning, EditedInv
<1>4. EditedInv'
    BY <1>1, <1>3 DEF EditedInv, ForwardsOwn
<1>5. UndisturbedInv'
    BY <1>1 DEF UndisturbedInv, AllOld, Canonical
<1>6. RefusedForCause'
    BY <1>1 DEF RefusedForCause
<1> QED
    BY <1>2, <1>4, <1>5, <1>6

LEMMA PrepareKeeps == DeltaInv /\ Prepare => DeltaInv'
<1> SUFFICES ASSUME DeltaInv, Prepare
             PROVE  DeltaInv'
    OBVIOUS
<1> USE DEF DeltaInv
<1>1. /\ reviewStage = "prepare" /\ reviewStage' = IF Prepares(beforeEdit) THEN "edit" ELSE "refused"
      /\ UNCHANGED <<live, beforeEdit, afterEdit, planWritten, alone, meddling>>
    BY DEF Prepare
<1>2. WellFormed(beforeEdit) /\ meddling \in Nat
    BY PolicyTypes, PolicyConstants
<1>3. PolicyTypeOK'
    BY <1>1 DEF PolicyTypeOK
<1>4. CASE Prepares(beforeEdit)
  <2>1. reviewStage' = "edit"
      BY <1>1, <1>4
  <2>2. EditedInv'
      BY <1>1, <1>4, <2>1 DEF EditedInv, ForwardsOwn, Prepares, RepliesIn, InPlace, Planning
  <2>3. ASSUME meddling = 0 PROVE Forwards \subseteq DOMAIN live /\ (NoneMoved(live) => Written(live))
    <3>1. AllOld(live) /\ planWritten = {}
        BY <1>1, <2>3 DEF UndisturbedInv, EditedInv
    <3> QED
        BY <3>1, PolicyAssumption, PolicyConstants DEF AllOld, Written, Canonical
  <2>4. UndisturbedInv'
      BY <1>1, <2>1, <2>3 DEF UndisturbedInv, AllOld, Canonical, NoneMoved, Written
  <2> QED
      BY <1>3, <2>1, <2>2, <2>4 DEF RefusedForCause
<1>5. CASE ~Prepares(beforeEdit)
  <2>1. reviewStage' = "refused"
      BY <1>1, <1>5
  <2>2. meddling # 0
      BY <1>1, <1>2, <1>5, OldPrepares DEF UndisturbedInv
  <2>3. EditedInv'
      BY <1>1, <2>1 DEF EditedInv, ForwardsOwn
  <2>4. UndisturbedInv' /\ RefusedForCause'
      BY <1>1, <1>2, <2>1, <2>2 DEF UndisturbedInv, RefusedForCause
  <2> QED
      BY <1>3, <2>3, <2>4
<1> QED
    BY <1>4, <1>5

LEMMA ProposedTwice == ASSUME NEW p \in Policies PROVE Proposed(Proposed(p)) = Proposed(p)
<1>1. Proposed(p) = [of |-> p.of, ips |-> "new", sound |-> p.sound, name |-> p.name, hits |-> p.hits]
    BY DEF Policies, Proposed
<1>2. Proposed([of |-> p.of, ips |-> "new", sound |-> p.sound, name |-> p.name, hits |-> p.hits])
        = [of |-> p.of, ips |-> "new", sound |-> p.sound, name |-> p.name, hits |-> p.hits]
    BY DEF Proposed
<1> QED
    BY <1>1, <1>2

LEMMA EditForwardKeeps ==
    ASSUME DeltaInv, NEW f \in Forwards, EditForward(f)
    PROVE  DeltaInv'
<1> USE DEF DeltaInv
<1>1. reviewStage = "edit" /\ f \notin planWritten /\ UNCHANGED <<beforeEdit, afterEdit, meddling>>
    BY DEF EditForward
<1>2. /\ WellFormed(live) /\ WellFormed(beforeEdit) /\ WellFormed(alone) /\ planWritten \subseteq Forwards
      /\ Prepares(beforeEdit) /\ ForwardsOwn(live)
    BY <1>1, PolicyTypes DEF EditedInv
<1>3. CASE f \in DOMAIN live
  <2>1. /\ live' = [live EXCEPT ![f] = Proposed(live[f])] /\ alone' = Edited(alone, f)
        /\ planWritten' = planWritten \cup {f} /\ reviewStage' = reviewStage
      BY <1>3 DEF EditForward
  <2>2. /\ Proposed(live[f]) \in Policies /\ Proposed(live[f]).of = live[f].of /\ Proposed(live[f]).ips = "new"
        /\ Proposed(live[f]).sound = live[f].sound /\ Proposed(live[f]).name = live[f].name
      BY <1>2, <1>3, ProposedPolicy DEF WellFormed
  <2>3. /\ WellFormed(live') /\ DOMAIN live' = DOMAIN live /\ live'[f] = Proposed(live[f]) /\ ForwardsOwn(live')
        /\ \A j \in DOMAIN live \ {f} : live'[j] = live[j]
      BY <1>2, <1>3, <2>1, <2>2 DEF WellFormed, ForwardsOwn
  <2>4. /\ WellFormed(alone') /\ DOMAIN alone' = DOMAIN alone
        /\ \A i \in DOMAIN alone : alone'[i] = IF i = f \/ alone[i].of = f THEN Proposed(alone[i]) ELSE alone[i]
    <3>1. \A i \in DOMAIN alone : Proposed(alone[i]) \in Policies
        BY <1>2, ProposedPolicy DEF WellFormed
    <3> QED
        BY <1>2, <2>1, <3>1 DEF Edited, WellFormed
  <2>5. PolicyTypeOK'
      BY <1>1, <2>1, <2>3, <2>4 DEF PolicyTypeOK, WellFormed
  <2>6. ASSUME InPlace PROVE InPlace'
    <3> SUFFICES ASSUME NEW i \in DOMAIN beforeEdit PROVE alone'[i] = Planning(i)'
        BY <1>1, <2>4, <2>6 DEF InPlace
    <3>1. beforeEdit[i] \in Policies /\ Proposed(beforeEdit[i]).of = beforeEdit[i].of
        BY <1>2, ProposedPolicy DEF WellFormed
    <3>2. alone[i] = Planning(i) /\ i \in DOMAIN alone /\ alone[i].of = beforeEdit[i].of
        BY <2>6, <3>1 DEF InPlace, Planning
    <3>3. Planning(i)' = IF i \in planWritten \cup {f} \/ beforeEdit[i].of \in planWritten \cup {f}
                         THEN Proposed(beforeEdit[i]) ELSE beforeEdit[i]
        BY <1>1, <2>1 DEF Planning
    <3>4. CASE i = f \/ beforeEdit[i].of = f
      <4>1. alone'[i] = Proposed(alone[i])
          BY <2>4, <3>2, <3>4
      <4>2. Proposed(Planning(i)) = Proposed(beforeEdit[i])
          BY <3>1, ProposedTwice DEF Planning
      <4> QED
          BY <3>2, <3>3, <3>4, <4>1, <4>2
    <3>5. CASE ~(i = f \/ beforeEdit[i].of = f)
        BY <2>4, <3>2, <3>3, <3>5 DEF Planning
    <3> QED
        BY <3>4, <3>5
  <2>7. EditedInv'
    <3>1. reviewStage' = "edit" /\ Prepares(beforeEdit)'
        BY <1>1, <1>2, <2>1 DEF Prepares, RepliesIn
    <3>2. ForwardsOwn(live)' /\ ForwardsOwn(beforeEdit)'
        BY <1>1, <2>3 DEF EditedInv, ForwardsOwn
    <3>3. (DOMAIN beforeEdit \subseteq DOMAIN live)' => InPlace'
        BY <1>1, <1>2, <2>3, <2>6 DEF EditedInv
    <3> QED
        BY <3>1, <3>2, <3>3 DEF EditedInv
  <2>8. ASSUME meddling = 0 PROVE Forwards \subseteq DOMAIN live' /\ (NoneMoved(live') => Written(live)')
    <3>1. Forwards \subseteq DOMAIN live /\ (NoneMoved(live) => Written(live))
        BY <1>1, <2>8 DEF UndisturbedInv
    <3> SUFFICES ASSUME NoneMoved(live') PROVE Written(live)'
        BY <2>3, <3>1
    <3>2. Written(live) /\ Canonical(live)
        BY <2>3, <3>1 DEF NoneMoved, Written
    <3>3. \A g \in Forwards : Returns[g] # f /\ Returns[g] \in DOMAIN live
        BY <3>2, PolicyConstants DEF Canonical
    <3>4. Canonical(live)'
      <4>1. \A g \in Forwards : live'[Returns[g]].of = g
          BY <2>3, <3>2, <3>3 DEF Canonical
      <4>2. \A i \in DOMAIN live : live'[i].sound = live[i].sound /\ live'[i].name = live[i].name /\ live'[i].of = live[i].of
          BY <2>2, <2>3
      <4>3. \A i \in DOMAIN live : i \notin Forwards => live'[i].ips = live[i].ips
          BY <2>3
      <4> QED
          BY <2>3, <3>2, <4>1, <4>2, <4>3 DEF Canonical
    <3>5. \A g \in Forwards : live'[g].ips = IF g \in planWritten' THEN "new" ELSE "old"
        BY <2>1, <2>2, <2>3, <3>1, <3>2 DEF Written
    <3> QED
        BY <3>4, <3>5 DEF Written
  <2>9. UndisturbedInv'
      BY <1>1, <2>1, <2>8 DEF UndisturbedInv, AllOld, Canonical, NoneMoved
  <2> QED
      BY <1>1, <2>1, <2>5, <2>7, <2>9 DEF RefusedForCause
<1>4. CASE f \notin DOMAIN live
  <2>1. reviewStage' = "refused" /\ UNCHANGED <<live, alone, planWritten>>
      BY <1>4 DEF EditForward
  <2>2. meddling # 0
      BY <1>1, <1>4 DEF UndisturbedInv
  <2>3. meddling > 0
      BY <2>2, PolicyTypes, PolicyConstants
  <2>4. PolicyTypeOK'
      BY <1>1, <2>1 DEF PolicyTypeOK
  <2>5. EditedInv'
      BY <1>1, <2>1 DEF EditedInv, ForwardsOwn
  <2>6. UndisturbedInv' /\ RefusedForCause'
      BY <1>1, <2>2, <2>3 DEF UndisturbedInv, RefusedForCause
  <2> QED
      BY <2>4, <2>5, <2>6
<1> QED
    BY <1>3, <1>4

LEMMA ReadAfterKeeps == DeltaInv /\ ReadAfter => DeltaInv'
<1> SUFFICES ASSUME DeltaInv, ReadAfter
             PROVE  DeltaInv'
    OBVIOUS
<1> USE DEF DeltaInv
<1>1. /\ reviewStage = "edit" /\ planWritten = Forwards /\ afterEdit' = live /\ reviewStage' = "verify"
      /\ UNCHANGED <<live, beforeEdit, planWritten, alone, meddling>>
    BY DEF ReadAfter
<1>2. PolicyTypeOK'
    BY <1>1 DEF PolicyTypeOK
<1>3. Prepares(beforeEdit)' /\ ForwardsOwn(live)' /\ ForwardsOwn(beforeEdit)'
    BY <1>1 DEF EditedInv, Prepares, RepliesIn, ForwardsOwn
<1>4. SameIds' => InPlace'
  <2>1. SameIds' => InPlace
      BY <1>1 DEF SameIds, EditedInv
  <2> QED
      BY <1>1, <2>1 DEF InPlace, Planning
<1>5. EditedInv'
    BY <1>1, <1>3, <1>4 DEF EditedInv
<1>6. UndisturbedInv'
  <2>1. meddling = 0 => (NoneMoved(live) => Written(live)) /\ AllOld(beforeEdit)
      BY <1>1 DEF UndisturbedInv
  <2>2. (NoneMoved(afterEdit)' <=> NoneMoved(live)) /\ (Written(afterEdit)' <=> Written(live))
      BY <1>1 DEF NoneMoved, Written, Canonical
  <2>3. AllOld(beforeEdit)' <=> AllOld(beforeEdit)
      BY <1>1 DEF AllOld, Canonical
  <2> QED
      BY <1>1, <2>1, <2>2, <2>3 DEF UndisturbedInv
<1> QED
    BY <1>1, <1>2, <1>5, <1>6 DEF RefusedForCause

\* An edit nobody meddled with, its returns in place with the new address, matches.
LEMMA WrittenMatches ==
    ASSUME WellFormed(beforeEdit), WellFormed(afterEdit), AllOld(beforeEdit), Written(afterEdit), planWritten = Forwards,
           \A f \in Forwards : afterEdit[Returns[f]].ips = "new"
    PROVE  Delta
<1>1. /\ Canonical(beforeEdit) /\ Canonical(afterEdit) /\ \A f \in Forwards : afterEdit[f].ips = "new"
      /\ \A i \in DOMAIN beforeEdit : beforeEdit[i].ips = "old"
    BY DEF AllOld, Written
<1>2. DOMAIN beforeEdit = PolicyIds \ Spare /\ DOMAIN afterEdit = PolicyIds \ Spare /\ SameIds
    BY <1>1 DEF Canonical, SameIds
<1>3. Prepares(beforeEdit)
    BY OldPrepares
<1>4. \A f \in Forwards : f \in DOMAIN beforeEdit /\ Returns[f] \in DOMAIN beforeEdit
    BY <1>2, PolicyAssumption, PolicyConstants
<1>5. ASSUME NEW inventory \in {beforeEdit, afterEdit}, NEW f \in Forwards
      PROVE  RepliesIn(inventory, f) = {Returns[f]}
  <2>1. Canonical(inventory) /\ Returns[f] \in DOMAIN inventory
      BY <1>1, <1>2, <1>4
  <2>2. \A i \in DOMAIN inventory : inventory[i].of = f => i = Returns[f]
    <3> SUFFICES ASSUME NEW i \in DOMAIN inventory, inventory[i].of = f PROVE i = Returns[f]
        OBVIOUS
    <3>1. i \in ReturnIds
        BY <2>1, PolicyConstants DEF Canonical
    <3>2. PICK g \in Forwards : i = Returns[g]
        BY <3>1 DEF ReturnIds
    <3> QED
        BY <2>1, <3>2 DEF Canonical
  <2> QED
      BY <2>1, <2>2 DEF RepliesIn, Canonical
<1>6. \A f \in Forwards : Cardinality(RepliesIn(afterEdit, f)) = 1
  <2>1. \A f \in Forwards : RepliesIn(afterEdit, f) = {Returns[f]}
      BY <1>5
  <2>2. \A x : Cardinality({x}) = 1
      BY FS_Singleton, Zenon
  <2> QED
      BY <2>1, <2>2
<1>7. \A f \in Forwards : \A r \in RepliesIn(beforeEdit, f) : PairOk(afterEdit[f], afterEdit[r], "new")
  <2> SUFFICES ASSUME NEW f \in Forwards, NEW r \in RepliesIn(beforeEdit, f) PROVE PairOk(afterEdit[f], afterEdit[r], "new")
      OBVIOUS
  <2>1. r = Returns[f] /\ f \in DOMAIN afterEdit /\ Returns[f] \in DOMAIN afterEdit
      BY <1>2, <1>4, <1>5
  <2> QED
      BY <1>1, <2>1 DEF PairOk, Canonical
<1>8. ASSUME NEW i \in DOMAIN beforeEdit
      PROVE  /\ beforeEdit[i] \in Policies /\ afterEdit[i] \in Policies
             /\ afterEdit[i].of = beforeEdit[i].of /\ afterEdit[i].sound = beforeEdit[i].sound
             /\ afterEdit[i].name = beforeEdit[i].name
  <2>1. beforeEdit[i] \in Policies /\ afterEdit[i] \in Policies
      BY <1>2 DEF WellFormed
  <2>2. afterEdit[i].name = beforeEdit[i].name
      BY <1>1, <1>2 DEF Canonical
  <2>3. afterEdit[i].sound = beforeEdit[i].sound
    <3>1. afterEdit[i].sound /\ beforeEdit[i].sound
        BY <1>1, <1>2 DEF Canonical
    <3>2. afterEdit[i].sound \in BOOLEAN /\ beforeEdit[i].sound \in BOOLEAN
        BY <2>1, PolicyFields
    <3> QED
        BY <3>1, <3>2, Zenon
  <2>4. afterEdit[i].of = beforeEdit[i].of
      BY <1>1, <1>2 DEF Canonical, ReturnIds
  <2> QED
      BY <2>1, <2>2, <2>3, <2>4
<1>9. \A i \in Touched : i \in DOMAIN beforeEdit /\ (i \in Forwards \/ i \in ReturnIds)
    BY <1>4, <1>5 DEF Touched, ReturnIds
<1>10. Forwards \subseteq Touched /\ ReturnIds \subseteq Touched
    BY <1>5 DEF Touched, ReturnIds
<1>11. \A i \in Touched : SameButCounters(afterEdit[i], Proposed(beforeEdit[i]))
  <2> SUFFICES ASSUME NEW i \in Touched PROVE SameButCounters(afterEdit[i], Proposed(beforeEdit[i]))
      OBVIOUS
  <2>1. afterEdit[i].ips = "new"
      BY <1>1, <1>9 DEF ReturnIds
  <2>2. beforeEdit[i] \in Policies /\ afterEdit[i] \in Policies
      BY <1>8, <1>9
  <2>3. /\ Proposed(beforeEdit[i]) \in Policies /\ Proposed(beforeEdit[i]).of = beforeEdit[i].of
        /\ Proposed(beforeEdit[i]).ips = "new" /\ Proposed(beforeEdit[i]).sound = beforeEdit[i].sound
        /\ Proposed(beforeEdit[i]).name = beforeEdit[i].name
      BY <2>2, ProposedPolicy
  <2> QED
      BY <1>8, <1>9, <2>1, <2>2, <2>3, SameMeans
<1>12. \A i \in DOMAIN beforeEdit \ Touched : SameButCounters(beforeEdit[i], afterEdit[i])
  <2> SUFFICES ASSUME NEW i \in DOMAIN beforeEdit, i \notin Touched PROVE SameButCounters(beforeEdit[i], afterEdit[i])
      OBVIOUS
  <2>1. i \notin ReturnIds \cup Forwards
      BY <1>10
  <2>2. beforeEdit[i].ips = afterEdit[i].ips
      BY <1>1, <1>2, <2>1 DEF Canonical
  <2> QED
      BY <1>8, <2>2, SameMeans
<1> QED
    BY <1>2, <1>3, <1>6, <1>7, <1>11, <1>12 DEF Delta

LEMMA VerifyKeeps == DeltaInv /\ Verify => DeltaInv'
<1> SUFFICES ASSUME DeltaInv, Verify
             PROVE  DeltaInv'
    OBVIOUS
<1> USE DEF DeltaInv
<1>1. /\ reviewStage = "verify" /\ reviewStage' = IF Delta THEN "matches" ELSE "refused"
      /\ UNCHANGED <<live, beforeEdit, afterEdit, planWritten, alone, meddling>>
    BY DEF Verify
<1>2. PolicyTypeOK'
    BY <1>1 DEF PolicyTypeOK
<1>3. /\ (Prepares(beforeEdit)' <=> Prepares(beforeEdit)) /\ (SameIds' <=> SameIds) /\ (InPlace' <=> InPlace)
      /\ ForwardsOwn(live)' /\ ForwardsOwn(beforeEdit)'
    BY <1>1 DEF EditedInv, Prepares, RepliesIn, ForwardsOwn, SameIds, InPlace, Planning
<1>4. AllOld(beforeEdit)' <=> AllOld(beforeEdit)
    BY <1>1 DEF AllOld, Canonical
<1>5. Delta' <=> Delta
  <2>1. (Touched' = Touched) /\ \A f \in Forwards : RepliesIn(afterEdit, f)' = RepliesIn(afterEdit, f)
                                                  /\ RepliesIn(beforeEdit, f)' = RepliesIn(beforeEdit, f)
      BY <1>1 DEF Touched, RepliesIn
  <2> QED
      BY <1>1, <1>3, <2>1 DEF Delta
<1>6. EditedInv'
    BY <1>1, <1>3, <1>5 DEF EditedInv
<1>7. UndisturbedInv'
    BY <1>1, <1>4 DEF UndisturbedInv
<1>8. RefusedForCause'
  <2> SUFFICES ASSUME reviewStage' = "refused", ~(meddling > 0),
                      \A f \in Forwards : Returns[f] \in DOMAIN afterEdit /\ afterEdit[Returns[f]].ips = "new"
               PROVE  FALSE
      BY <1>1 DEF RefusedForCause
  <2>1. meddling = 0
      BY PolicyTypes, PolicyConstants
  <2>2. NoneMoved(afterEdit)
      BY DEF NoneMoved, ReturnIds
  <2>3. Written(afterEdit) /\ AllOld(beforeEdit) /\ planWritten = Forwards
      BY <1>1, <2>1, <2>2 DEF UndisturbedInv, EditedInv
  <2>4. WellFormed(beforeEdit) /\ WellFormed(afterEdit)
      BY PolicyTypes
  <2> QED
      BY <1>1, <2>3, <2>4, WrittenMatches
<1> QED
    BY <1>2, <1>6, <1>7, <1>8

LEMMA RegenerateKeeps ==
    ASSUME DeltaInv, NEW f \in Forwards, Regenerate(f)
    PROVE  DeltaInv'
<1> USE DEF DeltaInv
<1>1. Watching /\ f \in DOMAIN live /\ UNCHANGED <<reviewStage, beforeEdit, afterEdit, planWritten, meddling>>
    BY DEF Regenerate
<1>0. PICK r \in RepliesIn(live, f) : \E id \in {r} \cup NewIds :
         /\ live[r].ips # live[f].ips
         /\ live' = Follow(live, r, f, id)
         /\ alone' = IF f \in DOMAIN alone /\ r \in RepliesIn(alone, f) THEN Follow(alone, r, f, id) ELSE alone
    BY DEF Regenerate
<1>2. PICK id \in {r} \cup NewIds :
         /\ live[r].ips # live[f].ips
         /\ live' = Follow(live, r, f, id)
         /\ alone' = IF f \in DOMAIN alone /\ r \in RepliesIn(alone, f) THEN Follow(alone, r, f, id) ELSE alone
    BY <1>0
<1>3. /\ WellFormed(live) /\ WellFormed(beforeEdit) /\ WellFormed(alone) /\ planWritten \subseteq Forwards
      /\ ForwardsOwn(live) /\ ForwardsOwn(beforeEdit)
    BY PolicyTypes DEF EditedInv
<1>4. /\ id \in {r} \cup Spare /\ (id = r \/ (id \in Spare /\ id \notin DOMAIN live /\ id \notin DOMAIN beforeEdit))
      /\ r \in DOMAIN live /\ live[r].of = f
    BY <1>2 DEF NewIds, RepliesIn
<1>5. /\ WellFormed(live') /\ DOMAIN live' = (DOMAIN live \ {r}) \cup {id} /\ ForwardsOwn(live') /\ r \notin Forwards
      /\ \A j \in DOMAIN live' \ {id} : live'[j] = live[j]
      /\ live'[id].of = f /\ live'[id].sound = live[r].sound /\ live'[id].name = live[r].name
  <2>1. Followed(live, live', r, f, id)
      BY <1>1, <1>2, <1>3, <1>4, FollowMeans
  <2> QED
      BY <1>3, <2>1 DEF Followed
<1>6. WellFormed(alone')
  <2>1. CASE f \in DOMAIN alone /\ r \in RepliesIn(alone, f)
    <3>1. Followed(alone, alone', r, f, id)
        BY <1>2, <1>3, <1>4, <2>1, FollowMeans
    <3> QED
        BY <3>1 DEF Followed
  <2> QED
      BY <1>2, <1>3, <2>1
<1>7. PolicyTypeOK'
    BY <1>1, <1>5, <1>6 DEF PolicyTypeOK, WellFormed
<1>8. ASSUME Prepares(beforeEdit), reviewStage \in {"prepare", "edit"}, DOMAIN beforeEdit \subseteq DOMAIN live'
      PROVE  InPlace'
  <2>1. DOMAIN beforeEdit \subseteq DOMAIN live
      BY <1>4, <1>5, <1>8
  <2>2. InPlace
      BY <1>8, <2>1 DEF EditedInv
  <2>3. CASE ~(f \in DOMAIN alone /\ r \in RepliesIn(alone, f))
      BY <1>1, <1>2, <2>2, <2>3 DEF InPlace, Planning
  <2>4. CASE f \in DOMAIN alone /\ r \in RepliesIn(alone, f)
    <3>1. r \in DOMAIN beforeEdit /\ r \in DOMAIN alone /\ alone[r].of = f /\ f \in DOMAIN beforeEdit
        BY <2>2, <2>4 DEF InPlace, RepliesIn
    <3>2. id = r
        BY <1>4, <1>5, <1>8, <3>1
    <3>3. beforeEdit[r] \in Policies /\ beforeEdit[f] \in Policies
        BY <1>3, <3>1 DEF WellFormed
    <3>4. /\ Proposed(beforeEdit[r]).of = beforeEdit[r].of /\ Proposed(beforeEdit[r]).ips = "new"
          /\ Proposed(beforeEdit[f]).ips = "new"
        BY <3>3, ProposedPolicy
    <3>5. alone[r] = Planning(r) /\ alone[f] = Planning(f) /\ beforeEdit[r].of = f
        BY <2>2, <3>1, <3>4 DEF InPlace, Planning
    <3>6. beforeEdit[r].ips = "old" /\ beforeEdit[f].ips = "old"
        BY <1>8, <3>1, <3>5 DEF Prepares, PairOk, RepliesIn
    <3>7. beforeEdit[f].of \notin planWritten /\ r \notin planWritten
        BY <1>3, <1>5, <3>1, PolicyConstants DEF ForwardsOwn
    <3>8. alone[r].ips = alone[f].ips
        BY <3>4, <3>5, <3>6, <3>7 DEF Planning
    <3>9. [alone[r] EXCEPT !.ips = alone[f].ips] = alone[r]
      <4>1. alone[r] \in Policies
          BY <1>3, <3>1 DEF WellFormed
      <4> QED
          BY <3>8, <4>1 DEF Policies
    <3>10. DOMAIN alone' = (DOMAIN alone \ {r}) \cup {id} /\ alone'[id] = [alone[r] EXCEPT !.ips = alone[f].ips]
           /\ \A j \in DOMAIN alone' \ {id} : alone'[j] = alone[j]
      <4>1. Followed(alone, alone', r, f, id)
          BY <1>2, <1>3, <1>4, <2>4, FollowMeans
      <4> QED
          BY <4>1 DEF Followed
    <3>11. DOMAIN alone' = DOMAIN alone /\ \A j \in DOMAIN alone : alone'[j] = alone[j]
        BY <3>1, <3>2, <3>9, <3>10
    <3> QED
        BY <1>1, <2>2, <3>11 DEF InPlace, Planning
  <2> QED
      BY <2>3, <2>4
<1>9. EditedInv'
  <2>1. reviewStage \in {"start", "prepare", "edit"}
      BY <1>1 DEF Watching
  <2>2. Prepares(beforeEdit)' <=> Prepares(beforeEdit)
      BY <1>1 DEF Prepares, RepliesIn
  <2>3. ForwardsOwn(beforeEdit)'
      BY <1>1, <1>3 DEF ForwardsOwn
  <2>4. DOMAIN alone = {} => DOMAIN alone' = {}
      BY <1>2
  <2> QED
      BY <1>1, <1>5, <1>8, <2>1, <2>2, <2>3, <2>4 DEF EditedInv
<1>10. UndisturbedInv'
  <2> SUFFICES ASSUME meddling = 0
               PROVE  UndisturbedInv'
      BY <1>1 DEF UndisturbedInv
  <2>1. reviewStage = "edit"
    <3>1. ASSUME reviewStage \in {"start", "prepare"} PROVE FALSE
      <4>1. AllOld(live)
          BY <3>1 DEF UndisturbedInv
      <4> QED
          BY <1>1, <1>2, <1>4, <4>1 DEF AllOld
    <3> QED
        BY <1>1, <3>1 DEF Watching
  <2>2. Forwards \subseteq DOMAIN live /\ (NoneMoved(live) => Written(live)) /\ AllOld(beforeEdit)
      BY <2>1 DEF UndisturbedInv
  <2>3. Forwards \subseteq DOMAIN live'
      BY <1>5, <2>2
  <2>4. ASSUME NoneMoved(live') PROVE Written(live)'
    <3>1. NoneMoved(live)
        BY <1>4, <1>5, <2>4, PolicyConstants DEF NoneMoved, ReturnIds
    <3>2. Written(live) /\ Canonical(live)
        BY <2>2, <3>1 DEF Written
    <3>3. r \in ReturnIds
        BY <1>4, <3>2, PolicyConstants DEF Canonical
    <3>4. r = Returns[f]
        BY <1>4, <3>2, <3>3 DEF Canonical, ReturnIds
    <3>5. id = r
        BY <1>4, <1>5, <2>4, <3>3 DEF NoneMoved
    <3>6. DOMAIN live' = DOMAIN live /\ \A j \in DOMAIN live \ {r} : live'[j] = live[j]
        BY <1>4, <1>5, <3>5
    <3>7. Canonical(live)'
      <4>1. DOMAIN live' = PolicyIds \ Spare
          BY <3>2, <3>6 DEF Canonical
      <4>2. \A g \in Forwards : live'[Returns[g]].of = g
        <5> SUFFICES ASSUME NEW g \in Forwards PROVE live'[Returns[g]].of = g
            OBVIOUS
        <5>1. CASE g = f
            BY <1>5, <3>4, <3>5, <5>1
        <5>2. CASE g # f
          <6>1. Returns[g] # r /\ Returns[g] \in DOMAIN live
              BY <3>1, <3>4, <5>2, PolicyConstants DEF NoneMoved, ReturnIds
          <6> QED
              BY <3>2, <3>6, <6>1 DEF Canonical
        <5> QED
            BY <5>1, <5>2
      <4>3. \A i \in DOMAIN live' :
               /\ live'[i].sound /\ live'[i].name = "n1"
               /\ i \notin ReturnIds => live'[i].of = NoOrigin
               /\ i \notin ReturnIds \cup Forwards => live'[i].ips = "old"
        <5> SUFFICES ASSUME NEW i \in DOMAIN live
                     PROVE  /\ live'[i].sound /\ live'[i].name = "n1"
                            /\ i \notin ReturnIds => live'[i].of = NoOrigin
                            /\ i \notin ReturnIds \cup Forwards => live'[i].ips = "old"
            BY <3>6
        <5>1. CASE i = r
            BY <1>5, <3>2, <3>3, <3>5, <5>1 DEF Canonical
        <5>2. CASE i # r
            BY <3>2, <3>6, <5>2 DEF Canonical
        <5> QED
            BY <5>1, <5>2
      <4> QED
          BY <4>1, <4>2, <4>3 DEF Canonical
    <3>8. \A g \in Forwards : live'[g].ips = IF g \in planWritten' THEN "new" ELSE "old"
        BY <1>1, <1>5, <2>2, <3>2, <3>6 DEF Written
    <3> QED
        BY <3>7, <3>8 DEF Written
  <2> QED
      BY <1>1, <2>1, <2>2, <2>3, <2>4 DEF UndisturbedInv, AllOld, Canonical, NoneMoved
<1>11. RefusedForCause'
    BY <1>1 DEF RefusedForCause, Watching
<1> QED
    BY <1>7, <1>9, <1>10, <1>11

LEMMA CountKeeps == DeltaInv /\ Count => DeltaInv'
<1> SUFFICES ASSUME DeltaInv, Count
             PROVE  DeltaInv'
    OBVIOUS
<1> USE DEF DeltaInv
<1>1. Watching /\ UNCHANGED <<reviewStage, beforeEdit, afterEdit, planWritten, alone, meddling>>
    BY DEF Count
<1>2. PICK i \in DOMAIN live : live' = [live EXCEPT ![i].hits = 1]
    BY DEF Count
<1>3. WellFormed(live) /\ ForwardsOwn(live)
    BY PolicyTypes DEF EditedInv
<1> DEFINE p == [live[i] EXCEPT !.hits = 1]
<1>4. p \in Policies /\ p.of = live[i].of /\ p.ips = live[i].ips /\ p.sound = live[i].sound /\ p.name = live[i].name
    BY <1>3, PolicyChanged DEF WellFormed
<1>5. live' = [live EXCEPT ![i] = p]
    BY <1>2
<1> HIDE DEF p
<1>6. /\ DOMAIN live' = DOMAIN live
      /\ \A j \in DOMAIN live : /\ live'[j] \in Policies /\ live'[j].of = live[j].of /\ live'[j].ips = live[j].ips
                                /\ live'[j].sound = live[j].sound /\ live'[j].name = live[j].name
    BY <1>3, <1>4, <1>5 DEF WellFormed
<1>7. PolicyTypeOK'
    BY <1>1, <1>6 DEF PolicyTypeOK
<1>8. EditedInv'
  <2>1. ForwardsOwn(live)' /\ ForwardsOwn(beforeEdit)'
      BY <1>1, <1>3, <1>6 DEF ForwardsOwn, EditedInv
  <2>2. (Prepares(beforeEdit)' <=> Prepares(beforeEdit)) /\ (InPlace' <=> InPlace) /\ (SameIds' <=> SameIds)
      BY <1>1 DEF Prepares, RepliesIn, InPlace, Planning, SameIds
  <2> QED
      BY <1>1, <1>6, <2>1, <2>2 DEF EditedInv, Watching
<1>9. UndisturbedInv'
  <2>1. Canonical(live) => Canonical(live)'
    <3> SUFFICES ASSUME Canonical(live) PROVE Canonical(live)'
        OBVIOUS
    <3>1. DOMAIN live = PolicyIds \ Spare /\ \A f \in Forwards : Returns[f] \in DOMAIN live
        BY PolicyConstants DEF Canonical
    <3> QED
        BY <1>6, <3>1 DEF Canonical
  <2>2. (AllOld(live) => AllOld(live)') /\ (NoneMoved(live)' => NoneMoved(live))
      BY <1>6, <2>1 DEF AllOld, NoneMoved
  <2>3. Forwards \subseteq DOMAIN live /\ Written(live) => Written(live)'
      BY <1>1, <1>6, <2>1 DEF Written
  <2>4. AllOld(beforeEdit) => AllOld(beforeEdit)'
      BY <1>1 DEF AllOld, Canonical
  <2> QED
      BY <1>1, <1>6, <2>2, <2>3, <2>4 DEF UndisturbedInv, Watching
<1>10. RefusedForCause'
    BY <1>1 DEF RefusedForCause, Watching
<1> QED
    BY <1>7, <1>8, <1>9, <1>10

\* What others leave of the inventory: policies, and no id of the saved one new.
Meddled ==
    /\ WellFormed(live') /\ ForwardsOwn(live')
    /\ \A i \in DOMAIN beforeEdit : i \in DOMAIN live' => i \in DOMAIN live

LEMMA ChangedIsMeddled ==
    ASSUME DeltaInv, NEW i \in DOMAIN live, NEW p \in Policies, p.of = live[i].of, live' = [live EXCEPT ![i] = p]
    PROVE  Meddled
<1>1. WellFormed(live) /\ ForwardsOwn(live)
    BY PolicyTypes DEF EditedInv, DeltaInv
<1>2. DOMAIN live' = DOMAIN live /\ \A j \in DOMAIN live : live'[j] \in Policies /\ live'[j].of = live[j].of
    BY <1>1 DEF WellFormed
<1> QED
    BY <1>1, <1>2 DEF Meddled, WellFormed, ForwardsOwn

LEMMA MeddleKeeps == DeltaInv /\ Meddle => DeltaInv'
<1> SUFFICES ASSUME DeltaInv, Meddle
             PROVE  DeltaInv'
    OBVIOUS
<1>1. /\ Watching /\ meddling < MaxMeddling /\ meddling' = meddling + 1
      /\ UNCHANGED <<reviewStage, beforeEdit, afterEdit, planWritten, alone>>
    BY DEF Meddle
<1>2. WellFormed(live) /\ ForwardsOwn(live) /\ meddling \in Nat
    BY PolicyTypes, PolicyConstants DEF DeltaInv, EditedInv
<1>3. Meddled
  <2>1. ASSUME NEW i \in DOMAIN live, NEW name \in {"n1", "n2"}, live' = [live EXCEPT ![i].name = name]
        PROVE  Meddled
    <3> DEFINE p == [live[i] EXCEPT !.name = name]
    <3>1. p \in Policies /\ p.of = live[i].of
        BY <1>2, PolicyChanged DEF WellFormed
    <3>2. live' = [live EXCEPT ![i] = p]
        BY <2>1
    <3> HIDE DEF p
    <3> QED
        BY <3>1, <3>2, ChangedIsMeddled
  <2>2. ASSUME NEW i \in DOMAIN live, live' = [live EXCEPT ![i].sound = ~@]
        PROVE  Meddled
    <3> DEFINE p == [live[i] EXCEPT !.sound = ~@]
    <3>1. p \in Policies /\ p.of = live[i].of
        BY <1>2, PolicyChanged DEF WellFormed
    <3>2. live' = [live EXCEPT ![i] = p]
        BY <2>2
    <3> HIDE DEF p
    <3> QED
        BY <3>1, <3>2, ChangedIsMeddled
  <2>3. ASSUME NEW i \in DOMAIN live, NEW ips \in Addresses, live' = [live EXCEPT ![i].ips = ips]
        PROVE  Meddled
    <3> DEFINE p == [live[i] EXCEPT !.ips = ips]
    <3>1. p \in Policies /\ p.of = live[i].of
        BY <1>2, PolicyChanged DEF WellFormed
    <3>2. live' = [live EXCEPT ![i] = p]
        BY <2>3
    <3> HIDE DEF p
    <3> QED
        BY <3>1, <3>2, ChangedIsMeddled
  <2>4. ASSUME NEW i \in DOMAIN live, live' = [j \in DOMAIN live \ {i} |-> live[j]]
        PROVE  Meddled
      BY <1>2, <2>4 DEF Meddled, WellFormed, ForwardsOwn
  <2>5. ASSUME NEW i \in NewIds, NEW origin \in Forwards \cup {NoOrigin},
               live' = [j \in DOMAIN live \cup {i} |-> IF j = i THEN Policy(origin, "old") ELSE live[j]]
        PROVE  Meddled
    <3>1. Policy(origin, "old") \in Policies
        BY DEF Policy, Policies, Addresses
    <3>2. i \in PolicyIds /\ i \notin Forwards /\ i \notin DOMAIN beforeEdit
        BY PolicyAssumption, PolicyConstants DEF NewIds
    <3>3. WellFormed(live')
        BY <1>2, <2>5, <3>1, <3>2 DEF WellFormed
    <3>4. ForwardsOwn(live')
        BY <1>2, <2>5, <3>2 DEF ForwardsOwn
    <3> QED
        BY <2>5, <3>2, <3>3, <3>4 DEF Meddled
  <2> QED
      BY <2>1, <2>2, <2>3, <2>4, <2>5 DEF Meddle
<1>4. PolicyTypeOK'
  <2>1. meddling' \in 0 .. MaxMeddling
      BY <1>1, <1>2, PolicyConstants
  <2> QED
      BY <1>1, <1>3, <2>1 DEF DeltaInv, Meddled, PolicyTypeOK, WellFormed
<1>5. EditedInv'
  <2>1. ForwardsOwn(beforeEdit)' /\ ForwardsOwn(live)'
      BY <1>1, <1>3 DEF ForwardsOwn, EditedInv, DeltaInv, Meddled
  <2>2. (Prepares(beforeEdit)' <=> Prepares(beforeEdit)) /\ (InPlace' <=> InPlace) /\ (SameIds' <=> SameIds)
      BY <1>1 DEF Prepares, RepliesIn, InPlace, Planning, SameIds
  <2>3. DOMAIN beforeEdit \subseteq DOMAIN live' => DOMAIN beforeEdit \subseteq DOMAIN live
      BY <1>3 DEF Meddled
  <2> QED
      BY <1>1, <2>1, <2>2, <2>3 DEF DeltaInv, EditedInv, Watching
<1>6. UndisturbedInv' /\ RefusedForCause'
    BY <1>1, <1>2 DEF UndisturbedInv, RefusedForCause
<1> QED
    BY <1>4, <1>5, <1>6 DEF DeltaInv

LEMMA DeltaInductive == PolicySpec => []DeltaInv
<1>1. DeltaInv /\ [PolicyNext]_policyVars => DeltaInv'
  <2> SUFFICES ASSUME DeltaInv, [PolicyNext]_policyVars
               PROVE  DeltaInv'
      OBVIOUS
  <2>1. CASE UNCHANGED policyVars
    <3>1. UNCHANGED <<live, reviewStage, beforeEdit, afterEdit, planWritten, alone, meddling>>
        BY <2>1 DEF policyVars
    <3>2. PolicyTypeOK' /\ RefusedForCause'
        BY <3>1 DEF DeltaInv, PolicyTypeOK, RefusedForCause
    <3>3. /\ (Prepares(beforeEdit)' <=> Prepares(beforeEdit)) /\ (InPlace' <=> InPlace) /\ (SameIds' <=> SameIds)
          /\ ForwardsOwn(live)' /\ ForwardsOwn(beforeEdit)'
        BY <3>1 DEF DeltaInv, EditedInv, Prepares, RepliesIn, InPlace, Planning, SameIds, ForwardsOwn
    <3>4. Touched' = Touched /\ \A f \in Forwards : RepliesIn(afterEdit, f)' = RepliesIn(afterEdit, f)
                                                 /\ RepliesIn(beforeEdit, f)' = RepliesIn(beforeEdit, f)
        BY <3>1 DEF Touched, RepliesIn
    <3>5. Delta' <=> Delta
        BY <3>1, <3>3, <3>4 DEF Delta
    <3>6. EditedInv'
        BY <3>1, <3>3, <3>5 DEF DeltaInv, EditedInv
    <3>7. UndisturbedInv'
        BY <3>1 DEF DeltaInv, UndisturbedInv, AllOld, Canonical, NoneMoved, Written
    <3> QED
        BY <3>2, <3>6, <3>7 DEF DeltaInv
  <2> QED
      BY <2>1, ReadBeforeKeeps, PrepareKeeps, ReadAfterKeeps, VerifyKeeps, CountKeeps, MeddleKeeps, EditForwardKeeps,
         RegenerateKeeps DEF PolicyNext
<1> QED
    BY <1>1, DeltaStarts, PTL DEF PolicySpec

\* The two reads have the same ids, so no return moved, so the edit alone is Planning.
LEMMA DeltaInvMatches == DeltaInv => DeltaSafe
<1> SUFFICES ASSUME DeltaInv, reviewStage = "matches"
             PROVE  /\ DOMAIN afterEdit = DOMAIN alone
                    /\ \A i \in DOMAIN alone : \A field \in {"of", "ips", "sound", "name"} : afterEdit[i][field] = alone[i][field]
                    /\ \A f \in Forwards : afterEdit[f].ips = "new"
    BY DEF DeltaInv, DeltaSafe, MatchesAlone
<1>1. Delta /\ SameIds /\ InPlace /\ planWritten = Forwards /\ Prepares(beforeEdit) /\ DOMAIN beforeEdit = DOMAIN afterEdit
    BY DEF DeltaInv, EditedInv, Delta, SameIds
<1>2. WellFormed(beforeEdit) /\ WellFormed(afterEdit)
    BY PolicyTypes DEF DeltaInv
<1>3. \A f \in Forwards : f \in DOMAIN beforeEdit
    BY <1>1 DEF Prepares
<1>4. ASSUME NEW i \in DOMAIN beforeEdit
      PROVE  /\ afterEdit[i].of = alone[i].of /\ afterEdit[i].ips = alone[i].ips
             /\ afterEdit[i].sound = alone[i].sound /\ afterEdit[i].name = alone[i].name
             /\ i \in Forwards => afterEdit[i].ips = "new"
  <2>1. beforeEdit[i] \in Policies /\ afterEdit[i] \in Policies
      BY <1>1, <1>2 DEF WellFormed
  <2>2. /\ Proposed(beforeEdit[i]) \in Policies /\ Proposed(beforeEdit[i]).ips = "new"
      BY <2>1, ProposedPolicy
  <2>3. i \in Touched <=> i \in Forwards \/ beforeEdit[i].of \in Forwards
      BY DEF Touched, RepliesIn
  <2>4. CASE i \in Touched
    <3>1. SameButCounters(afterEdit[i], Proposed(beforeEdit[i]))
        BY <1>1, <2>4 DEF Delta
    <3>2. alone[i] = Proposed(beforeEdit[i])
        BY <1>1, <2>3, <2>4 DEF InPlace, Planning
    <3> QED
        BY <2>1, <2>2, <3>1, <3>2, SameMeans
  <2>5. CASE i \notin Touched
    <3>1. SameButCounters(beforeEdit[i], afterEdit[i])
        BY <1>1, <2>5 DEF Delta
    <3>2. alone[i] = beforeEdit[i] /\ i \notin Forwards
        BY <1>1, <2>3, <2>5 DEF InPlace, Planning
    <3> QED
        BY <2>1, <3>1, <3>2, SameMeans
  <2> QED
      BY <2>4, <2>5
<1> QED
    BY <1>1, <1>3, <1>4 DEF InPlace

\* A match of check-unifi-delta.py is the reviewed edit and nothing else, whatever
\* other administrators did between the two reads and however the controller
\* regenerated the returns; a refusal has a cause.
THEOREM DeltaIsSafe == PolicySpec => []DeltaSafe
BY DeltaInductive, DeltaInvMatches, PTL
-----------------------------------------------------------------------------
(* LockReview.  ReadInv says what has been read so far, without the order: what  *)
(* images and used hold is exactly what the locks and recipes read put there.    *)

UsedBy(t, stems, name) == \E stem \in stems : \E i \in DOMAIN t.recipes[stem].mods : t.recipes[stem].mods[i] = name
ReadInv ==
    /\ ReviewTypeOK
    /\ review \in {"recipes", "accepted"} => manifests = {}
    /\ review \in {"locks", "recipes", "accepted"} => \A name \in DOMAIN tree.mods : tree.mods[name].lock # Absent
    /\ \A name \in DOMAIN tree.mods \ manifests : LockOk(name, tree.mods[name])
    /\ \A name \in EngineMods \ manifests : images[tree.mods[name].lock.image] = tree.mods[name].lock.image_id
    /\ \A reference \in DOMAIN images : \E name \in EngineMods \ manifests : tree.mods[name].lock.image = reference
    /\ \A stem \in DOMAIN tree.recipes \ pages : RecipeOk(tree.mods, stem, tree.recipes[stem])
    /\ used = {name \in DOMAIN tree.mods : UsedBy(tree, DOMAIN tree.recipes \ pages, name)}
    /\ review = "accepted" => pages = {} /\ DOMAIN tree.mods \subseteq used
RightInv == Right(tree) => review # "rejected"

LEMMA ReviewStarts == ReviewInit => ReadInv /\ RightInv
<1> SUFFICES ASSUME ReviewInit
             PROVE  ReadInv /\ RightInv
    OBVIOUS
<1>1. EngineMods \ manifests = {} /\ DOMAIN images = {} /\ used = {}
    BY DEF ReviewInit, EngineMods
<1>2. DOMAIN tree.mods \ manifests = {} /\ DOMAIN tree.recipes \ pages = {}
    BY DEF ReviewInit
<1>3. \A name : ~UsedBy(tree, {}, name)
    BY DEF UsedBy
<1>4. ReviewTypeOK
    BY <1>1 DEF ReviewInit, ReviewTypeOK
<1> QED
    BY <1>1, <1>2, <1>3, <1>4 DEF ReviewInit, ReadInv, RightInv

\* One more lock: its reference is known now, and every other reference as before.
LEMMA ReadLockKeeps == ASSUME ReadInv, RightInv, NEW name \in manifests, ReadLock(name)
                       PROVE  ReadInv' /\ RightInv'
<1> DEFINE lock == tree.mods[name].lock
           fine == LockOk(name, tree.mods[name]) /\ (name \in Readiness \/ SameConfig(lock))
<1>1. review = "locks" /\ name \in DOMAIN tree.mods /\ tree' = tree /\ pages' = pages /\ used' = used /\ EngineMods' = EngineMods
    BY DEF ReadLock, ReadInv, ReviewTypeOK, Reject, EngineMods
<1>2. CASE ~fine
    <2>1. Reject
        BY <1>2 DEF ReadLock
    <2>2. ReadInv'
        BY <1>1, <2>1 DEF Reject, ReadInv, ReviewTypeOK
    <2>3. ASSUME Right(tree)
          PROVE  FALSE
        <3>1. LockOk(name, tree.mods[name]) /\ OneImageEach(tree.mods)
            BY <1>1, <2>3 DEF Right
        <3>2. name \notin Readiness /\ ~SameConfig(lock)
            BY <1>2, <3>1
        <3>3. PICK other \in EngineMods \ manifests : tree.mods[other].lock.image = lock.image
            BY <3>2 DEF SameConfig, ReadInv
        <3>4. images[lock.image] = tree.mods[other].lock.image_id
            BY <3>3 DEF ReadInv
        <3>5. tree.mods[other].lock.image_id = lock.image_id
            BY <1>1, <3>1, <3>2, <3>3 DEF OneImageEach, EngineMods
        <3> QED
            BY <3>2, <3>4, <3>5 DEF SameConfig
    <2> QED
        BY <1>1, <2>2, <2>3 DEF RightInv
<1>3. CASE fine
    <2>1. /\ manifests' = manifests \ {name} /\ images' = Learned(name, lock)
          /\ review' = IF manifests' = {} THEN "recipes" ELSE review
        BY <1>3 DEF ReadLock
    <2>2. \A other \in DOMAIN tree.mods \ manifests' : LockOk(other, tree.mods[other])
        BY <1>3, <2>1 DEF ReadInv
    <2>3. \A other \in EngineMods \ manifests' :
             tree.mods[other].lock.image \in DOMAIN images' /\ images'[tree.mods[other].lock.image] = tree.mods[other].lock.image_id
        <3> TAKE other \in EngineMods \ manifests'
        <3>1. CASE name \in Readiness
            BY <1>1, <2>1, <3>1 DEF Learned, EngineMods, ReadInv, ReviewTypeOK
        <3>2. CASE name \notin Readiness
            <4>1. /\ DOMAIN images' = {lock.image} \cup DOMAIN images
                  /\ \A reference \in DOMAIN images' :
                        images'[reference] = IF reference = lock.image THEN lock.image_id ELSE images[reference]
                BY <2>1, <3>2 DEF Learned
            <4>2. CASE other = name
                BY <4>1, <4>2
            <4>3. CASE other # name
                <5>1. other \in EngineMods \ manifests
                    BY <2>1, <4>3
                <5>2. /\ tree.mods[other].lock.image \in DOMAIN images
                      /\ images[tree.mods[other].lock.image] = tree.mods[other].lock.image_id
                    BY <5>1 DEF ReadInv, ReviewTypeOK
                <5> QED
                    BY <1>3, <3>2, <4>1, <5>2 DEF SameConfig
            <4> QED
                BY <4>2, <4>3
        <3> QED
            BY <3>1, <3>2
    <2>4. \A reference \in DOMAIN images' : \E other \in EngineMods \ manifests' : tree.mods[other].lock.image = reference
        <3> TAKE reference \in DOMAIN images'
        <3>1. CASE reference \in DOMAIN images
            BY <2>1, <3>1 DEF ReadInv
        <3>2. CASE reference \notin DOMAIN images
            BY <1>1, <2>1, <3>2 DEF Learned, EngineMods
        <3> QED
            BY <3>1, <3>2
    <2>5. review' \in {"locks", "recipes"} /\ (review' = "recipes" => manifests' = {})
        BY <1>1, <2>1
    <2>6. ReviewTypeOK'
        BY <1>1, <2>1, <2>3, <2>5 DEF ReadInv, ReviewTypeOK
    <2> QED
        BY <1>1, <2>2, <2>3, <2>4, <2>5, <2>6 DEF ReadInv, RightInv
<1> QED
    BY <1>2, <1>3

LEMMA ReadRecipeKeeps == ASSUME ReadInv, RightInv, NEW stem \in pages, ReadRecipe(stem)
                         PROVE  ReadInv' /\ RightInv'
<1>1. /\ review = "recipes" /\ stem \in DOMAIN tree.recipes /\ tree' = tree /\ manifests' = manifests /\ images' = images
      /\ EngineMods' = EngineMods
    BY DEF ReadRecipe, ReadInv, ReviewTypeOK, Reject, EngineMods
<1>2. CASE ~RecipeOk(tree.mods, stem, tree.recipes[stem])
    <2>1. Reject /\ ~Right(tree)
        BY <1>1, <1>2 DEF ReadRecipe, Right
    <2> QED
        BY <1>1, <2>1 DEF Reject, ReadInv, RightInv, ReviewTypeOK
<1>3. CASE RecipeOk(tree.mods, stem, tree.recipes[stem])
    <2>1. /\ pages' = pages \ {stem} /\ review' = review
          /\ used' = used \cup {tree.recipes[stem].mods[i] : i \in DOMAIN tree.recipes[stem].mods}
        BY <1>3 DEF ReadRecipe
    <2>2. DOMAIN tree.recipes \ pages' = (DOMAIN tree.recipes \ pages) \cup {stem}
        BY <1>1, <2>1
    <2>3. \A i \in DOMAIN tree.recipes[stem].mods : tree.recipes[stem].mods[i] \in DOMAIN tree.mods
        BY <1>3 DEF RecipeOk
    <2>4. used' = {name \in DOMAIN tree.mods : UsedBy(tree, DOMAIN tree.recipes \ pages', name)}
        BY <2>1, <2>2, <2>3 DEF ReadInv, UsedBy
    <2>5. ReviewTypeOK'
        BY <1>1, <2>1, <2>4 DEF ReadInv, ReviewTypeOK
    <2>6. \A s \in DOMAIN tree.recipes \ pages' : RecipeOk(tree.mods, s, tree.recipes[s])
        BY <1>3, <2>2 DEF ReadInv
    <2> QED
        BY <1>1, <2>1, <2>4, <2>5, <2>6 DEF ReadInv, RightInv
<1> QED
    BY <1>2, <1>3

LEMMA CheckKeeps == ASSUME ReadInv, RightInv, CheckMods \/ CheckUsed
                    PROVE  ReadInv' /\ RightInv'
<1>1. /\ tree' = tree /\ manifests' = manifests /\ images' = images /\ pages' = pages /\ used' = used
      /\ EngineMods' = EngineMods
    BY DEF CheckMods, CheckUsed, Reject, EngineMods
<1>2. CASE CheckMods
    <2>1. /\ review' \in {"locks", "rejected"} /\ (Right(tree) => review' = "locks")
          /\ review' = "locks" => \A name \in DOMAIN tree.mods : tree.mods[name].lock # Absent
        BY <1>2 DEF CheckMods, Reject, Right
    <2> QED
        BY <1>1, <2>1 DEF ReadInv, RightInv, ReviewTypeOK
<1>3. CASE CheckUsed
    <2>1. review' = IF tree.recipes # <<>> /\ DOMAIN tree.mods \subseteq used THEN "accepted" ELSE "rejected"
        BY <1>3 DEF CheckUsed
    <2>2. pages = {} /\ manifests = {} /\ tree \in Trees /\ review = "recipes"
        BY <1>3 DEF CheckUsed, ReadInv, ReviewTypeOK
    <2>3. ASSUME Right(tree)
          PROVE  review' = "accepted"
        <3>1. DOMAIN tree.mods # {}
            BY <2>2, ReviewAssumption
        <3>2. \A name \in DOMAIN tree.mods : UsedBy(tree, DOMAIN tree.recipes \ pages, name)
            BY <2>2, <2>3 DEF Right, SomeRecipeUses, UsedBy
        <3>3. DOMAIN tree.mods \subseteq used
            BY <3>2 DEF ReadInv
        <3>4. DOMAIN tree.recipes # {}
            BY <3>1, <3>2 DEF UsedBy
        <3>5. tree.recipes # <<>>
            BY <3>4
        <3> QED
            BY <2>1, <3>3, <3>5
    <2>4. review' \in {"accepted", "rejected"} /\ (review' = "accepted" => DOMAIN tree.mods \subseteq used)
        BY <2>1
    <2>5. ReadInv'
        BY <1>1, <2>2, <2>4 DEF ReadInv, ReviewTypeOK
    <2> QED
        BY <1>1, <2>3, <2>5 DEF RightInv
<1> QED
    BY <1>2, <1>3

LEMMA ReviewStep == ReadInv /\ RightInv /\ [ReviewNext]_reviewVars => ReadInv' /\ RightInv'
<1> SUFFICES ASSUME ReadInv, RightInv, [ReviewNext]_reviewVars
             PROVE  ReadInv' /\ RightInv'
    OBVIOUS
<1>1. CASE UNCHANGED reviewVars
    BY <1>1 DEF reviewVars, ReadInv, RightInv, ReviewTypeOK, EngineMods
<1> QED
    BY <1>1, ReadLockKeeps, ReadRecipeKeeps, CheckKeeps DEF ReviewNext

\* An accepted tree, without the order it was read in.
LEMMA AcceptedFollows == ReadInv => AcceptedIsConsistent
<1> SUFFICES ASSUME ReadInv, review = "accepted"
             PROVE  OneImageEach(tree.mods) /\ \A name \in DOMAIN tree.mods : SomeRecipeUses(tree, name)
    BY DEF AcceptedIsConsistent
<1>1. manifests = {} /\ pages = {} /\ DOMAIN tree.mods \subseteq used
    BY DEF ReadInv
<1>2. OneImageEach(tree.mods)
    BY <1>1 DEF ReadInv, OneImageEach, EngineMods
<1>3. \A name \in DOMAIN tree.mods : SomeRecipeUses(tree, name)
    BY <1>1 DEF ReadInv, UsedBy, SomeRecipeUses
<1> QED
    BY <1>2, <1>3
-----------------------------------------------------------------------------
(* TensorFoldLaunch, by the recipes of the tree under review.  OwnFabric speaks  *)
(* of the commands; AddressInv says why: the ContextVar holds the address of     *)
(* the innermost launch of its context, and each token that of the launch        *)
(* around it.  IdInv is what tells the commands of two launches apart.           *)

Fabric == Fabrics \cup {Unset}
Launchable == {tree.recipes[stem] : stem \in {s \in DOMAIN tree.recipes : ValidForRuntime(tree.recipes[s])}}
Launches == [id : Nat \ {0}, recipe : Launchable, overrides : Overrides, address : Fabric,
             head : Heads \cup {Unset}, token : Fabric]
Commands == [launch : Launches, nodes : {1, 2}, rank : Ranks, master : Heads \cup {Unset}, fabric : Fabric]

Held(sequences, places) == UNION {{sequences[c][i] : i \in DOMAIN sequences[c]} : c \in places}
Begun == Held(stack, Contexts) \cup {k.launch : k \in commands}
AddressAt(launches, i) == IF i = 0 THEN Unset ELSE launches[i].address
StackInv ==
    /\ stack \in [Contexts -> Seq(Launches)] /\ \A c \in Contexts : Len(stack[c]) <= MaxDepth
    /\ fabricMaster \in [Contexts -> Fabric]
    /\ launched \in 0 .. MaxLaunches
    /\ commands \subseteq Commands
AddressInv ==
    \A c \in Contexts :
       /\ fabricMaster[c] = AddressAt(stack[c], Len(stack[c]))
       /\ \A i \in 1 .. Len(stack[c]) : stack[c][i].token = AddressAt(stack[c], i - 1)
IdInv ==
    /\ \A l \in Begun : l.id <= launched
    /\ \A l, m \in Begun : l.id = m.id => l = m
CommandOk(k) ==
    /\ k.fabric = k.launch.address /\ k.master = k.launch.head
    /\ LaunchFits(k.launch.recipe, k.launch.overrides, k.nodes)
    /\ ModelPath(k.launch.recipe, k.launch.overrides) # Unset
    /\ k.rank < k.nodes
CommandInv == \A k \in commands : CommandOk(k)
LaunchesInv == StackInv /\ AddressInv /\ IdInv /\ CommandInv

\* What some sequence holds.
LEMMA HeldBySome ==
    ASSUME NEW f, NEW C, NEW l
    PROVE  l \in Held(f, C) <=> \E c \in C : \E i \in DOMAIN f[c] : l = f[c][i]
<1> DEFINE held(c) == {f[c][i] : i \in DOMAIN f[c]}
<1>1. \A c : l \in held(c) <=> \E i \in DOMAIN f[c] : l = f[c][i]
    OBVIOUS
<1> HIDE DEF held
<1>2. l \in UNION {held(c) : c \in C} <=> \E c \in C : l \in held(c)
    OBVIOUS
<1>3. l \in UNION {held(c) : c \in C} <=> \E c \in C : \E i \in DOMAIN f[c] : l = f[c][i]
    BY <1>1, <1>2
<1> QED
    BY <1>3 DEF held, Held

LEMMA BegunIs ==
    /\ \A l : l \in Begun <=> \/ \E c \in Contexts : \E i \in DOMAIN stack[c] : l = stack[c][i]
                            \/ \E k \in commands : l = k.launch
    /\ \A l : l \in Begun' <=> \/ \E c \in Contexts : \E i \in DOMAIN stack'[c] : l = stack'[c][i]
                             \/ \E k \in commands' : l = k.launch
BY HeldBySome DEF Begun

\* What has begun is a launch, numbered by the counter.
LEMMA BegunLaunches == StackInv => \A l \in Begun : l \in Launches /\ l.id \in Nat \ {0}
<1> SUFFICES ASSUME StackInv, NEW l \in Begun
             PROVE  l \in Launches
    BY DEF Launches
<1>1. CASE \E c \in Contexts : \E i \in DOMAIN stack[c] : l = stack[c][i]
    <2>1. PICK c \in Contexts : \E i \in DOMAIN stack[c] : l = stack[c][i]
        BY <1>1
    <2>2. stack[c] \in Seq(Launches)
        BY DEF StackInv
    <2> QED
        BY <2>1, <2>2
<1>2. CASE \E k \in commands : l = k.launch
    BY <1>2 DEF StackInv, Commands
<1> QED
    BY <1>1, <1>2, BegunIs

LEMMA LaunchStarts == LaunchInit => LaunchesInv
<1> SUFFICES ASSUME LaunchInit
             PROVE  LaunchesInv
    OBVIOUS
<1>1. \A c \in Contexts : stack[c] = <<>> /\ fabricMaster[c] = Unset
    BY DEF LaunchInit
<1>2. StackInv
    BY <1>1, LaunchAssumption DEF LaunchInit, StackInv, Fabric
<1>3. AddressInv
    BY <1>1 DEF AddressInv, AddressAt
<1>4. Begun = {}
    BY <1>1, BegunIs DEF LaunchInit
<1> QED
    BY <1>2, <1>3, <1>4 DEF LaunchesInv, IdInv, CommandInv, LaunchInit

\* A launch that begins has a number of its own.
LEMMA BegunGrows ==
    ASSUME IdInv, StackInv, Launches' = Launches, launched' = launched + 1,
           NEW fresh \in Launches, fresh.id = launched + 1,
           Begun' \subseteq Begun \cup {fresh}
    PROVE  IdInv'
<1>1. launched \in Nat /\ \A l \in Begun : l \in Launches /\ l.id \in Nat /\ l.id <= launched
    BY BegunLaunches DEF IdInv, StackInv
<1> QED
    BY <1>1 DEF IdInv

\* What is asked of a launch and its recipe stays while the tree is not touched.
LEMMA SameTree == UNCHANGED reviewVars => Launchable' = Launchable /\ Launches' = Launches /\ Commands' = Commands
BY DEF reviewVars, Launchable, Launches, Commands

LEMMA OneNodeKeeps ==
    ASSUME LaunchesInv, UNCHANGED reviewVars, NEW stem \in DOMAIN tree.recipes, OneNodeCommand(tree.recipes[stem])
    PROVE  LaunchesInv'
<1> DEFINE recipe == tree.recipes[stem]
<1>1. Launchable' = Launchable /\ Launches' = Launches /\ Commands' = Commands
    BY SameTree
<1>2. PICK overrides \in Overrides :
          /\ LaunchFits(recipe, overrides, 1) /\ ModelPath(recipe, overrides) # Unset
          /\ commands' = commands \cup
                {[launch |-> [id |-> launched', recipe |-> recipe, overrides |-> overrides,
                              address |-> Unset, head |-> Unset, token |-> Unset],
                  nodes |-> 1, rank |-> 0, master |-> Unset, fabric |-> Unset]}
    BY DEF OneNodeCommand
<1> DEFINE fresh == [id |-> launched + 1, recipe |-> recipe, overrides |-> overrides,
                     address |-> Unset, head |-> Unset, token |-> Unset]
           command == [launch |-> fresh, nodes |-> 1, rank |-> 0, master |-> Unset, fabric |-> Unset]
<1>3. launched \in Nat /\ launched < MaxLaunches /\ launched' = launched + 1 /\ stack' = stack /\ fabricMaster' = fabricMaster
    BY DEF OneNodeCommand, LaunchesInv, StackInv
<1>4. commands' = commands \cup {command}
    BY <1>2, <1>3
<1>5. recipe \in Launchable
    BY DEF OneNodeCommand, Launchable
<1>6. fresh \in Launches /\ fresh.id = launched + 1
    BY <1>3, <1>5 DEF Launches, Fabric
<1>7. command \in Commands
    BY <1>6 DEF Commands, Fabric, Ranks
<1>8. CommandOk(command)
    BY <1>2 DEF CommandOk
<1>9. StackInv'
    BY <1>1, <1>3, <1>4, <1>7, LaunchAssumption DEF LaunchesInv, StackInv
<1>10. Begun' \subseteq Begun \cup {fresh}
    BY <1>1, <1>3, <1>4, BegunIs
<1>11. IdInv'
    <2> HIDE DEF fresh, command
    <2> QED
        BY <1>1, <1>3, <1>6, <1>10, BegunGrows DEF LaunchesInv
<1>12. AddressInv'
    BY <1>3 DEF LaunchesInv, AddressInv
<1>13. CommandInv'
    <2> HIDE DEF command
    <2> QED
        BY <1>4, <1>8 DEF LaunchesInv, CommandInv
<1> QED
    BY <1>9, <1>11, <1>12, <1>13 DEF LaunchesInv

LEMMA RunKeeps ==
    ASSUME LaunchesInv, UNCHANGED reviewVars, NEW stem \in DOMAIN tree.recipes, NEW c \in Contexts,
           RunCluster(c, tree.recipes[stem])
    PROVE  LaunchesInv'
<1> DEFINE recipe == tree.recipes[stem]
<1>1. Launchable' = Launchable /\ Launches' = Launches /\ Commands' = Commands
    BY SameTree
<1>2. PICK overrides \in Overrides, address \in Fabric, head \in Heads :
          /\ stack' = [stack EXCEPT ![c] = Append(@,
                [id |-> launched', recipe |-> recipe, overrides |-> overrides, address |-> address,
                 head |-> head, token |-> fabricMaster[c]])]
          /\ fabricMaster' = [fabricMaster EXCEPT ![c] = address]
    BY DEF RunCluster, Fabric
<1>3. /\ launched \in Nat /\ launched < MaxLaunches /\ launched' = launched + 1 /\ commands' = commands
      /\ Len(stack[c]) < MaxDepth
    BY DEF RunCluster, LaunchesInv, StackInv
<1> DEFINE fresh == [id |-> launched + 1, recipe |-> recipe, overrides |-> overrides, address |-> address,
                     head |-> head, token |-> fabricMaster[c]]
<1>4. recipe \in Launchable
    BY DEF RunCluster, Launchable
<1>5. /\ stack \in [Contexts -> Seq(Launches)] /\ fabricMaster \in [Contexts -> Fabric]
      /\ \A d \in Contexts : stack[d] \in Seq(Launches) /\ Len(stack[d]) \in Nat /\ DOMAIN stack[d] = 1 .. Len(stack[d])
    BY DEF LaunchesInv, StackInv
<1>6. /\ fresh \in Launches /\ fresh.id = launched + 1
      /\ fresh.address = address /\ fresh.token = fabricMaster[c]
    BY <1>3, <1>4, <1>5 DEF Launches
<1>7. stack' = [stack EXCEPT ![c] = Append(stack[c], fresh)]
    BY <1>2, <1>3
<1> HIDE DEF fresh
<1>8. /\ Append(stack[c], fresh) \in Seq(Launches) /\ Len(Append(stack[c], fresh)) = Len(stack[c]) + 1
      /\ Append(stack[c], fresh)[Len(stack[c]) + 1] = fresh
      /\ \A i \in 1 .. Len(stack[c]) : Append(stack[c], fresh)[i] = stack[c][i]
    BY <1>5, <1>6
<1>9. /\ stack'[c] = Append(stack[c], fresh) /\ fabricMaster'[c] = address
      /\ \A d \in Contexts \ {c} : stack'[d] = stack[d] /\ fabricMaster'[d] = fabricMaster[d]
    BY <1>2, <1>5, <1>7
<1>10. StackInv'
    <2>1. stack' \in [Contexts -> Seq(Launches)]
        BY <1>5, <1>7, <1>8
    <2>2. \A d \in Contexts : Len(stack'[d]) <= MaxDepth
        BY <1>3, <1>5, <1>8, <1>9, LaunchAssumption DEF LaunchesInv, StackInv
    <2>3. fabricMaster' \in [Contexts -> Fabric]
        BY <1>2, <1>5
    <2> QED
        BY <1>1, <1>3, <2>1, <2>2, <2>3, LaunchAssumption DEF LaunchesInv, StackInv, Fabric
<1>11. Begun' \subseteq Begun \cup {fresh}
    <2> SUFFICES ASSUME NEW l \in Begun', l # fresh
                 PROVE  l \in Begun
        OBVIOUS
    <2>1. CASE \E k \in commands' : l = k.launch
        BY <1>1, <1>3, <2>1, BegunIs
    <2>2. CASE \E d \in Contexts : \E i \in DOMAIN stack'[d] : l = stack'[d][i]
        <3>1. PICK d \in Contexts : \E i \in DOMAIN stack'[d] : l = stack'[d][i]
            BY <2>2
        <3>2. PICK i \in DOMAIN stack'[d] : l = stack'[d][i]
            BY <3>1
        <3>3. i \in DOMAIN stack[d] /\ stack'[d][i] = stack[d][i]
            <4>1. CASE d # c
                BY <1>9, <3>2, <4>1
            <4>2. CASE d = c
                <5>1. DOMAIN stack'[c] = 1 .. Len(stack[c]) + 1
                    BY <1>5, <1>8, <1>9
                <5>2. i # Len(stack[c]) + 1
                    BY <1>8, <1>9, <3>2, <4>2
                <5>3. i \in 1 .. Len(stack[c])
                    BY <1>5, <3>2, <4>2, <5>1, <5>2
                <5> QED
                    BY <1>5, <1>8, <1>9, <4>2, <5>3
            <4> QED
                BY <4>1, <4>2
        <3> QED
            BY <1>1, <3>2, <3>3, BegunIs
    <2> QED
        BY <2>1, <2>2, BegunIs
<1>12. IdInv'
    BY <1>1, <1>3, <1>6, <1>11, BegunGrows DEF LaunchesInv
<1>13. AddressInv'
    <2> SUFFICES ASSUME NEW d \in Contexts
                 PROVE  /\ fabricMaster'[d] = AddressAt(stack'[d], Len(stack'[d]))
                        /\ \A i \in 1 .. Len(stack'[d]) : stack'[d][i].token = AddressAt(stack'[d], i - 1)
        BY DEF AddressInv
    <2>1. CASE d # c
        BY <1>9, <2>1 DEF LaunchesInv, AddressInv
    <2>2. CASE d = c
        <3>1. fabricMaster'[c] = AddressAt(stack'[c], Len(stack'[c]))
            BY <1>5, <1>6, <1>8, <1>9 DEF AddressAt
        <3>2. \A i \in 1 .. Len(stack[c]) : AddressAt(stack'[c], i) = AddressAt(stack[c], i)
            BY <1>8, <1>9 DEF AddressAt
        <3>3. AddressAt(stack'[c], 0) = AddressAt(stack[c], 0)
            BY DEF AddressAt
        <3>4. fresh.token = AddressAt(stack[c], Len(stack[c]))
            BY <1>6 DEF LaunchesInv, AddressInv
        <3>5. ASSUME NEW i \in 1 .. Len(stack'[c])
              PROVE  stack'[c][i].token = AddressAt(stack'[c], i - 1)
            <4>1. i \in Nat /\ (i = Len(stack[c]) + 1 \/ i \in 1 .. Len(stack[c]))
                BY <1>5, <1>8, <1>9
            <4>2. AddressAt(stack'[c], i - 1) = AddressAt(stack[c], i - 1)
                <5>1. Len(stack[c]) \in Nat
                    BY <1>5
                <5>2. i - 1 = 0 \/ i - 1 \in 1 .. Len(stack[c])
                    BY <4>1, <5>1
                <5> QED
                    BY <3>2, <3>3, <5>2
            <4>3. CASE i = Len(stack[c]) + 1
                <5>1. stack'[c][i] = fresh /\ i - 1 = Len(stack[c])
                    BY <1>5, <1>8, <1>9, <4>3
                <5> QED
                    BY <3>4, <4>2, <5>1
            <4>4. CASE i \in 1 .. Len(stack[c])
                <5>1. stack'[c][i] = stack[c][i]
                    BY <1>8, <1>9, <4>4
                <5>2. stack[c][i].token = AddressAt(stack[c], i - 1)
                    BY <4>4 DEF LaunchesInv, AddressInv
                <5> QED
                    BY <4>2, <5>1, <5>2
            <4> QED
                BY <4>1, <4>3, <4>4
        <3> QED
            BY <2>2, <3>1, <3>5
    <2> QED
        BY <2>1, <2>2
<1> QED
    BY <1>3, <1>10, <1>12, <1>13 DEF LaunchesInv, CommandInv

LEMMA EndsKeeps ==
    ASSUME LaunchesInv, UNCHANGED reviewVars, NEW c \in Contexts, LaunchEnds(c)
    PROVE  LaunchesInv'
<1>1. Launchable' = Launchable /\ Launches' = Launches /\ Commands' = Commands
    BY SameTree
<1> DEFINE n == Len(stack[c])
<1>2. /\ stack \in [Contexts -> Seq(Launches)] /\ fabricMaster \in [Contexts -> Fabric]
      /\ \A d \in Contexts : stack[d] \in Seq(Launches) /\ Len(stack[d]) \in Nat /\ DOMAIN stack[d] = 1 .. Len(stack[d])
    BY DEF LaunchesInv, StackInv
<1>3. n \in Nat /\ n > 0
    BY <1>2 DEF LaunchEnds
<1>4. /\ SubSeq(stack[c], 1, n - 1) \in Seq(Launches) /\ Len(SubSeq(stack[c], 1, n - 1)) = n - 1
      /\ \A i \in 1 .. n - 1 : SubSeq(stack[c], 1, n - 1)[i] = stack[c][i]
    <2>1. stack[c] \in Seq(Launches) /\ n - 1 \in Nat /\ n - 1 <= Len(stack[c])
        BY <1>2, <1>3
    <2>2. SubSeq(stack[c], 1, n - 1) \in Seq(Launches) /\ Len(SubSeq(stack[c], 1, n - 1)) = n - 1
        BY <1>3, <2>1, SubSeqProperties
    <2>3. \A i \in 1 .. n - 1 : SubSeq(stack[c], 1, n - 1)[i] = stack[c][i]
        BY <1>3, <2>1, SubSeqProperties
    <2> QED
        BY <2>2, <2>3
<1>5. /\ stack'[c] = SubSeq(stack[c], 1, n - 1) /\ fabricMaster'[c] = stack[c][n].token
      /\ \A d \in Contexts \ {c} : stack'[d] = stack[d] /\ fabricMaster'[d] = fabricMaster[d]
      /\ launched' = launched /\ commands' = commands
    BY <1>2 DEF LaunchEnds, Top
<1>6. /\ stack' = [stack EXCEPT ![c] = SubSeq(stack[c], 1, n - 1)]
      /\ fabricMaster' = [fabricMaster EXCEPT ![c] = stack[c][n].token]
    BY <1>2 DEF LaunchEnds, Top
<1>7. stack[c][n] \in Launches
    BY <1>2, <1>3
<1> HIDE DEF n
<1>8. StackInv'
    <2>1. stack' \in [Contexts -> Seq(Launches)]
        BY <1>2, <1>4, <1>6
    <2>2. fabricMaster' \in [Contexts -> Fabric]
        BY <1>2, <1>6, <1>7 DEF Launches
    <2>3. \A d \in Contexts : Len(stack'[d]) <= MaxDepth
        BY <1>2, <1>3, <1>4, <1>5, LaunchAssumption DEF LaunchesInv, StackInv, n
    <2> QED
        BY <1>1, <1>5, <2>1, <2>2, <2>3 DEF LaunchesInv, StackInv, Fabric
<1>9. Begun' \subseteq Begun
    <2> SUFFICES ASSUME NEW l \in Begun'
                 PROVE  l \in Begun
        OBVIOUS
    <2>1. CASE \E k \in commands' : l = k.launch
        BY <1>1, <1>5, <2>1, BegunIs
    <2>2. CASE \E d \in Contexts : \E i \in DOMAIN stack'[d] : l = stack'[d][i]
        <3>1. PICK d \in Contexts : \E i \in DOMAIN stack'[d] : l = stack'[d][i]
            BY <2>2
        <3>2. PICK i \in DOMAIN stack'[d] : l = stack'[d][i]
            BY <3>1
        <3>3. i \in DOMAIN stack[d] /\ stack'[d][i] = stack[d][i]
            <4>1. CASE d # c
                BY <1>5, <3>2, <4>1
            <4>2. CASE d = c
                <5>1. DOMAIN stack'[c] = 1 .. n - 1
                    BY <1>3, <1>4, <1>5
                <5>2. i \in 1 .. n - 1 /\ i \in 1 .. n
                    BY <1>3, <3>2, <4>2, <5>1
                <5>3. stack'[c][i] = stack[c][i]
                    BY <1>4, <1>5, <5>2
                <5>4. DOMAIN stack[c] = 1 .. n
                    BY <1>2 DEF n
                <5> QED
                    BY <4>2, <5>2, <5>3, <5>4
            <4> QED
                BY <4>1, <4>2
        <3> QED
            BY <1>1, <3>2, <3>3, BegunIs
    <2> QED
        BY <2>1, <2>2, BegunIs
<1>10. IdInv'
    BY <1>5, <1>9 DEF LaunchesInv, IdInv
<1>11. AddressInv'
    <2> SUFFICES ASSUME NEW d \in Contexts
                 PROVE  /\ fabricMaster'[d] = AddressAt(stack'[d], Len(stack'[d]))
                        /\ \A i \in 1 .. Len(stack'[d]) : stack'[d][i].token = AddressAt(stack'[d], i - 1)
        BY DEF AddressInv
    <2>1. CASE d # c
        BY <1>5, <2>1 DEF LaunchesInv, AddressInv
    <2>2. CASE d = c
        <3>1. \A i \in 0 .. n - 1 : AddressAt(stack'[c], i) = AddressAt(stack[c], i)
            BY <1>3, <1>4, <1>5 DEF AddressAt
        <3>2. stack[c][n].token = AddressAt(stack[c], n - 1)
            BY <1>3 DEF LaunchesInv, AddressInv, n
        <3>3. fabricMaster'[c] = AddressAt(stack'[c], Len(stack'[c]))
            BY <1>3, <1>4, <1>5, <3>1, <3>2
        <3>4. \A i \in 1 .. n - 1 : stack[c][i].token = AddressAt(stack[c], i - 1)
            BY <1>3 DEF LaunchesInv, AddressInv, n
        <3>5. \A i \in 1 .. n - 1 : stack'[c][i].token = AddressAt(stack'[c], i - 1)
            BY <1>3, <1>4, <1>5, <3>1, <3>4
        <3> QED
            BY <1>4, <1>5, <2>2, <3>3, <3>5
    <2> QED
        BY <2>1, <2>2
<1> QED
    BY <1>5, <1>8, <1>10, <1>11 DEF LaunchesInv, CommandInv

LEMMA NodeKeeps ==
    ASSUME LaunchesInv, UNCHANGED reviewVars, NEW c \in Contexts, NEW nodes \in 1 .. 2, NEW rank \in 0 .. 2,
           NodeCommand(c, nodes, rank)
    PROVE  LaunchesInv'
<1> DEFINE l == Top(c)
           fits == nodes = 2 /\ rank \in Ranks /\ LaunchFits(l.recipe, l.overrides, 2) /\ ModelPath(l.recipe, l.overrides) # Unset
           command == [launch |-> l, nodes |-> nodes, rank |-> rank, master |-> l.head, fabric |-> fabricMaster[c]]
<1>1. CASE ~fits
    BY <1>1, EndsKeeps DEF NodeCommand
<1>2. CASE fits
    <2>1. commands' = commands \cup {command} /\ stack' = stack /\ fabricMaster' = fabricMaster /\ launched' = launched
        BY <1>2 DEF NodeCommand
    <2>2. Launchable' = Launchable /\ Launches' = Launches /\ Commands' = Commands
        BY SameTree
    <2>3. /\ Len(stack[c]) \in 1 .. Len(stack[c]) /\ DOMAIN stack[c] = 1 .. Len(stack[c])
          /\ l = stack[c][Len(stack[c])] /\ l \in Launches
        BY DEF NodeCommand, Top, LaunchesInv, StackInv
    <2>4. fabricMaster[c] = l.address
        BY <2>3 DEF LaunchesInv, AddressInv, AddressAt
    <2>5. command \in Commands
        BY <1>2, <2>3, <2>4 DEF Commands, Launches
    <2>6. CommandOk(command)
        BY <1>2, <2>4 DEF CommandOk, Ranks
    <2>7. l \in Begun
        BY <2>3, BegunIs
    <2> HIDE DEF l
    <2>8. command.launch = l
        OBVIOUS
    <2> HIDE DEF command
    <2>9. Begun' \subseteq Begun
        BY <2>1, <2>2, <2>7, <2>8, BegunIs
    <2>10. IdInv'
        BY <2>1, <2>9 DEF LaunchesInv, IdInv
    <2> QED
        BY <2>1, <2>2, <2>5, <2>6, <2>10 DEF LaunchesInv, StackInv, AddressInv, CommandInv, Fabric
<1> QED
    BY <1>1, <1>2

LEMMA LaunchesStep == LaunchesInv /\ LaunchReviewed => LaunchesInv'
<1> SUFFICES ASSUME LaunchesInv, LaunchReviewed
             PROVE  LaunchesInv'
    OBVIOUS
<1>1. UNCHANGED reviewVars /\ LaunchOf({tree.recipes[stem] : stem \in DOMAIN tree.recipes})
    BY DEF LaunchReviewed
<1> QED
    BY <1>1, OneNodeKeeps, RunKeeps, EndsKeeps, NodeKeeps DEF LaunchOf

\* Types, addresses, meeting ranks and shapes of a command follow from what it carries.
LEMMA LaunchesFollow == LaunchesInv => LaunchTypeOK /\ OwnFabric /\ RanksMeet /\ ShapeKept
<1> SUFFICES ASSUME LaunchesInv
             PROVE  LaunchTypeOK /\ OwnFabric /\ RanksMeet /\ ShapeKept
    OBVIOUS
<1>1. /\ \A k \in commands : k \in Commands /\ k.launch \in Launches /\ k.launch \in Begun /\ CommandOk(k)
      /\ \A c \in Contexts : \A i \in DOMAIN stack[c] : stack[c][i] \in Launches /\ stack[c][i] \in Begun
    BY BegunIs DEF LaunchesInv, StackInv, CommandInv, Commands
<1>2. \A l \in Begun : l.id \in 1 .. launched
    BY BegunLaunches DEF LaunchesInv, IdInv, StackInv
<1>3. LaunchTypeOK
    BY <1>1, <1>2 DEF LaunchTypeOK, LaunchesInv, StackInv, Commands, Ranks, Fabric
<1>4. OwnFabric
    BY <1>1 DEF OwnFabric, CommandOk
<1>5. RanksMeet
    <2> SUFFICES ASSUME NEW k \in commands, NEW l \in commands, k.launch.id = l.launch.id
                 PROVE  MeetsAt(k) = MeetsAt(l) /\ MeetsAt(k) \in {k.launch.address, k.launch.head}
        BY DEF RanksMeet
    <2>1. k.launch = l.launch
        BY <1>1 DEF LaunchesInv, IdInv
    <2> QED
        BY <1>1, <2>1 DEF CommandOk, MeetsAt
<1>6. ShapeKept
    <2> SUFFICES ASSUME NEW k \in commands
                 PROVE  /\ k.nodes = k.launch.recipe.min_nodes
                        /\ Config(k.launch.recipe, k.launch.overrides, "tensor_parallel") = k.nodes
                        /\ k.rank < k.nodes
        BY DEF ShapeKept
    <2>1. CommandOk(k) /\ k.nodes \in {1, 2}
        BY <1>1 DEF Commands
    <2>2. \A nodes \in {1, 2} : Topologies[nodes] = nodes
        BY DEF Topologies
    <2> QED
        BY <2>1, <2>2 DEF CommandOk, LaunchFits, FitsTopology
<1> QED
    BY <1>3, <1>4, <1>5, <1>6
-----------------------------------------------------------------------------
(* ServingPins.  Nothing is launched before the tree is accepted, and the tree   *)
(* does not move afterwards; so a command is of a recipe that RecipeOk let pass. *)

ServingInv ==
    /\ ReadInv /\ RightInv /\ LaunchesInv
    /\ commands # {} => review = "accepted"

LEMMA ServingStarts == ServingInit => ServingInv
BY ReviewStarts, LaunchStarts DEF ServingInit, ServingInv, LaunchInit

LEMMA ServingStep == ServingInv /\ [ServingNext]_servingVars => ServingInv'
<1> SUFFICES ASSUME ServingInv, [ServingNext]_servingVars
             PROVE  ServingInv'
    OBVIOUS
<1>1. ASSUME UNCHANGED launchVars, tree' = tree
      PROVE  LaunchesInv'
    <2>1. stack' = stack /\ fabricMaster' = fabricMaster /\ launched' = launched /\ commands' = commands
        BY <1>1 DEF launchVars
    <2>2. Launches' = Launches /\ Commands' = Commands
        BY <1>1 DEF Launches, Commands, Launchable
    <2>3. Begun' = Begun
        BY <2>1, <2>2 DEF Begun
    <2> QED
        BY <2>1, <2>2, <2>3 DEF ServingInv, LaunchesInv, StackInv, AddressInv, IdInv, CommandInv
<1>2. CASE LaunchReviewed
    <2>1. UNCHANGED reviewVars /\ review = "accepted"
        BY <1>2 DEF LaunchReviewed
    <2>2. ReadInv' /\ RightInv' /\ review' = review
        BY <2>1, ReviewStep DEF ServingInv, reviewVars
    <2> QED
        BY <1>2, <2>1, <2>2, LaunchesStep DEF ServingInv
<1>3. CASE ReviewNext /\ UNCHANGED launchVars
    <2>1. tree' = tree /\ review # "accepted"
        BY <1>3 DEF ReviewNext, CheckMods, CheckUsed, ReadLock, ReadRecipe, Reject
    <2>2. ReadInv' /\ RightInv'
        BY <1>3, ReviewStep DEF ServingInv
    <2>3. commands' = {}
        BY <1>3, <2>1 DEF ServingInv, launchVars
    <2> QED
        BY <1>1, <1>3, <2>1, <2>2, <2>3 DEF ServingInv
<1>4. CASE UNCHANGED servingVars
    <2>1. UNCHANGED reviewVars /\ UNCHANGED launchVars
        BY <1>4 DEF servingVars
    <2>2. ReadInv' /\ RightInv' /\ tree' = tree /\ review' = review /\ commands' = commands
        BY <2>1, ReviewStep DEF ServingInv, reviewVars, launchVars
    <2> QED
        BY <1>1, <2>1, <2>2 DEF ServingInv
<1> QED
    BY <1>2, <1>3, <1>4 DEF ServingNext

\* What a recipe that passed says of its sources and its gate.
LEMMA RecipeSays ==
    ASSUME tree \in Trees, NEW stem \in DOMAIN tree.recipes, RecipeOk(tree.mods, stem, tree.recipes[stem]),
           \A name \in DOMAIN tree.mods : tree.mods[name].lock # Absent /\ LockOk(name, tree.mods[name]),
           NEW recipe, recipe = tree.recipes[stem]
    PROVE  /\ recipe.model[1] = "repo"
           /\ <<recipe.model[2], recipe.revision>> \in recipe.entries
           /\ "drafter" \in DOMAIN recipe.defaults =>
                 /\ "drafter_revision" \in DOMAIN recipe.defaults /\ recipe.defaults.drafter[1] = "repo"
                 /\ <<recipe.defaults.drafter[2], recipe.defaults.drafter_revision>> \in recipe.entries
           /\ recipe.engine = "glm" => "drafter" \in DOMAIN recipe.defaults
           /\ \A entry \in recipe.entries : Pin(entry[2], 40)
           /\ recipe.gates[1].context = recipe.defaults.context
           /\ recipe.gates[1].model = recipe.defaults.served_model_name
<1> DEFINE gateMods == {i \in DOMAIN recipe.mods : recipe.mods[i] \in Readiness}
           engines == DOMAIN recipe.mods \ gateMods
<1>1. Cardinality(engines) = 1 /\ Cardinality(gateMods) = 1
    BY DEF RecipeOk
<1>2. engines # {} /\ gateMods # {}
    <2>1. Cardinality({}) # 1
        BY FS_EmptySet
    <2> QED
        BY <1>1, <2>1
<1>3. PICK e \in engines : TRUE
    BY <1>2
<1>4. PICK g \in gateMods : TRUE
    BY <1>2
<1> DEFINE lock == tree.mods[recipe.mods[e]].lock
           kind == Shape(recipe.mods[e], lock)
<1>5. /\ recipe.model[1] = "repo"
      /\ HasDrafter(kind, recipe) => DrafterOk(recipe)
      /\ \A entry \in recipe.entries : Pin(entry[2], 40)
      /\ recipe.entries = ExpectedSources(kind, lock, recipe)
      /\ GateOk(recipe, recipe.mods[g])
    BY <1>3, <1>4 DEF RecipeOk
<1>6. recipe.mods[e] \in DOMAIN tree.mods \ Readiness /\ e \in DOMAIN recipe.mods
    BY <1>3 DEF RecipeOk
<1>7. recipe.engine = kind
    BY <1>6, PinsAssumption
<1> HIDE DEF kind, lock
<1>8. "drafter" \in DOMAIN recipe.defaults => HasDrafter(kind, recipe)
    BY DEF HasDrafter
<1>9. recipe.engine = "glm" => HasDrafter(kind, recipe)
    BY <1>7 DEF HasDrafter
<1> QED
    BY <1>5, <1>8, <1>9 DEF DrafterOk, ExpectedSources, GateOk

LEMMA ServedFollows == ServingInv => ReviewedIsServed
<1> SUFFICES ASSUME ServingInv, NEW k \in commands, ByTheRecipe(k.launch)
             PROVE  LET recipe == k.launch.recipe
                        overrides == k.launch.overrides
                    IN /\ ModelPath(recipe, overrides) \in Snapshots(recipe)
                       /\ DrafterPath(recipe, overrides) \in Snapshots(recipe) \cup {Unset}
                       /\ recipe.engine = "glm" => DrafterPath(recipe, overrides) # Unset
                       /\ Distributed(recipe, overrides) = recipe.entries
                       /\ \A entry \in recipe.entries : Pin(entry[2], 40)
                       /\ DOMAIN overrides \cap {"context", "served_model_name"} = {} =>
                             /\ recipe.gates[1].context = Config(recipe, overrides, "context")
                             /\ recipe.gates[1].model = Config(recipe, overrides, "served_model_name")
    BY DEF ReviewedIsServed
<1> DEFINE recipe == k.launch.recipe
           overrides == k.launch.overrides
<1>1. review = "accepted" /\ pages = {} /\ manifests = {} /\ tree \in Trees
    BY DEF ServingInv, ReadInv, ReviewTypeOK
<1>2. recipe \in Launchable /\ overrides \in Overrides /\ ModelPath(recipe, overrides) # Unset
    BY DEF ServingInv, LaunchesInv, StackInv, CommandInv, CommandOk, Commands, Launches
<1>3. PICK stem \in DOMAIN tree.recipes : recipe = tree.recipes[stem] /\ ValidForRuntime(recipe)
    BY <1>2 DEF Launchable
<1>4. /\ RecipeOk(tree.mods, stem, tree.recipes[stem])
      /\ \A name \in DOMAIN tree.mods : tree.mods[name].lock # Absent /\ LockOk(name, tree.mods[name])
    BY <1>1 DEF ServingInv, ReadInv
<1>5. /\ recipe.model[1] = "repo"
      /\ <<recipe.model[2], recipe.revision>> \in recipe.entries
      /\ "drafter" \in DOMAIN recipe.defaults =>
            /\ "drafter_revision" \in DOMAIN recipe.defaults /\ recipe.defaults.drafter[1] = "repo"
            /\ <<recipe.defaults.drafter[2], recipe.defaults.drafter_revision>> \in recipe.entries
      /\ recipe.engine = "glm" => "drafter" \in DOMAIN recipe.defaults
      /\ \A entry \in recipe.entries : Pin(entry[2], 40)
      /\ recipe.gates[1].context = recipe.defaults.context
      /\ recipe.gates[1].model = recipe.defaults.served_model_name
    BY <1>1, <1>3, <1>4, RecipeSays
<1>6. /\ \A key \in DOMAIN recipe.defaults : recipe.defaults[key] # Unset
      /\ Unset \notin Snapshots(recipe)
    BY <1>1, <1>3, PinsAssumption
<1>7. /\ \A key \in Redirects : key \notin DOMAIN overrides
      /\ "model_path" \notin DOMAIN recipe.defaults /\ "model_revision" \notin DOMAIN recipe.defaults
    BY DEF ByTheRecipe
<1>8. \A key \in {"model_path", "model_revision"} : Config(recipe, overrides, key) = Unset
    BY <1>7 DEF Config, Redirects
<1>9. \A key \in {"drafter", "drafter_revision"} :
         Config(recipe, overrides, key) = IF key \in DOMAIN recipe.defaults THEN recipe.defaults[key] ELSE Unset
    BY <1>7 DEF Config, Redirects
<1>10. \A key \in {"context", "served_model_name"} : key \in DOMAIN recipe.defaults
    <2>1. DOMAIN <<>> = {}
        OBVIOUS
    <2> QED
        BY <1>3, <2>1 DEF ValidForRuntime, Config
<1> HIDE DEF recipe, overrides
<1>11. ModelPath(recipe, overrides) \in Snapshots(recipe)
    <2>1. ~AbsolutePath(recipe.model)
        BY <1>5 DEF AbsolutePath
    <2>2. ModelPath(recipe, overrides) \in {Unset, Snapshot(recipe.model[2], recipe.revision)}
        BY <1>8, <2>1 DEF ModelPath
    <2>3. Snapshot(recipe.model[2], recipe.revision) \in Snapshots(recipe)
        BY <1>5 DEF Snapshot, Snapshots
    <2> QED
        BY <1>2, <2>2, <2>3 DEF recipe, overrides
<1>12. /\ DrafterPath(recipe, overrides) \in Snapshots(recipe) \cup {Unset}
       /\ recipe.engine = "glm" => DrafterPath(recipe, overrides) # Unset
       /\ Distributed(recipe, overrides) = recipe.entries
    <2>1. CASE "drafter" \in DOMAIN recipe.defaults
        <3>1. /\ Config(recipe, overrides, "drafter") = recipe.defaults.drafter
              /\ Config(recipe, overrides, "drafter_revision") = recipe.defaults.drafter_revision
              /\ recipe.defaults.drafter # Unset /\ recipe.defaults.drafter_revision # Unset
              /\ recipe.defaults.drafter[1] = "repo"
            BY <1>5, <1>6, <1>9, <2>1
        <3>2. DrafterPath(recipe, overrides) = Snapshot(recipe.defaults.drafter[2], recipe.defaults.drafter_revision)
            BY <3>1 DEF DrafterPath
        <3>3. DrafterPath(recipe, overrides) \in Snapshots(recipe)
            BY <1>5, <2>1, <3>2 DEF Snapshot, Snapshots
        <3>4. Distributed(recipe, overrides) = recipe.entries
            BY <1>5, <2>1, <3>1 DEF Distributed, DrafterRepo, InSnapshot
        <3> QED
            BY <1>6, <3>3, <3>4
    <2>2. CASE "drafter" \notin DOMAIN recipe.defaults
        <3>1. Config(recipe, overrides, "drafter") = Unset /\ recipe.engine # "glm"
            BY <1>5, <1>9, <2>2
        <3>2. DrafterPath(recipe, overrides) = Unset /\ Distributed(recipe, overrides) = recipe.entries
            BY <3>1 DEF DrafterPath, Distributed, DrafterRepo
        <3> QED
            BY <3>1, <3>2
    <2> QED
        BY <2>1, <2>2
<1>13. DOMAIN overrides \cap {"context", "served_model_name"} = {} =>
          /\ Config(recipe, overrides, "context") = recipe.defaults.context
          /\ Config(recipe, overrides, "served_model_name") = recipe.defaults.served_model_name
    BY <1>10 DEF Config
<1> QED
    BY <1>5, <1>11, <1>12, <1>13 DEF recipe, overrides

\* The review and the launch together, for every checkout, any number of launches and any
\* depth: an accepted tree is consistent, a right one is never refused whatever the order
\* it is read in, and what an accepted recipe launches reads its pinned snapshots, on
\* ranks of the recipe's shape that meet at their own address (validate_locks.py, the
\* runtime plugin).
THEOREM PinsAreSafe == (\A t \in Reviewed : Right(t)) => (ServingSpec => []PinsSafe)
<1> SUFFICES ASSUME \A t \in Reviewed : Right(t)
             PROVE  ServingSpec => []PinsSafe
    OBVIOUS
<1>1. ServingInv => PinsSafe
    <2> SUFFICES ASSUME ServingInv
                 PROVE  PinsSafe
        OBVIOUS
    <2>1. ReviewTypeOK /\ AcceptedIsConsistent
        BY AcceptedFollows DEF ServingInv, ReadInv
    <2>2. ReviewedTreePasses
        BY DEF ServingInv, RightInv, ReviewedTreePasses
    <2> QED
        BY <2>1, <2>2, LaunchesFollow, ServedFollows DEF ServingInv, PinsSafe
<1> QED
    BY <1>1, ServingStarts, ServingStep, PTL DEF ServingSpec
================================================================================
