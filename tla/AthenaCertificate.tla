--------------------------- MODULE AthenaCertificate ---------------------------
(***************************************************************************)
(* scripts/synology/deploy-athena-dsm.py: the deploy hook that imports     *)
(* Athena's certificate into DSM.  Lego renews by writing its files one    *)
(* after the other and then runs the hook, once; the operator runs it      *)
(* again by hand when it failed, which may be while Lego renews.  A leaf   *)
(* and its chain carry the number of their issue; the domain key is        *)
(* retained on renewal.  Any call may fail, or be cut off after its        *)
(* timeout with the import done all the same, and DSM may consume the      *)
(* files that it is given.                                                 *)
(***************************************************************************)
EXTENDS Integers, FiniteSets, Sequences

CONSTANTS
    Hooks,      \* runs of the hook: Lego's and by hand
    LegoHook,
    Lost,       \* a file that is not there any more
    MaxIssues, MaxImportFaults, MaxRebinds \* bounds

ASSUME AthenaAssumption ==
    /\ LegoHook \in Hooks /\ Lost \notin Nat
    /\ {MaxIssues, MaxImportFaults, MaxRebinds} \subseteq Nat /\ MaxIssues > 0

VARIABLES
    issue,      \* Lego's files: the issue each is of
    lego,       \* "idle", "chain" (leaf written, chain not yet), "hook"
    target,     \* the managed certificate: what is installed, and whether its identity and binding are as expected
    hooks,      \* per hook: its stage, what it staged, and the leaf that was issued when it began
    late,       \* history: the last import came after Lego rewrote the files it had verified
    issues, importFaults, rebinds
athenaVars == <<issue, lego, target, hooks, late, issues, importFaults, rebinds>>

Fields == {"key", "leaf", "chain"}
NoHook == [stage |-> "idle", staged |-> <<>>, began |-> 0, checked |-> <<>>]

AthenaInit ==
    /\ issue = [key |-> 1, leaf |-> 1, chain |-> 1] /\ lego = "idle"
    /\ target = [leaf |-> 1, chain |-> 1, bound |-> TRUE]
    /\ hooks = [h \in Hooks |-> NoHook] /\ late = FALSE
    /\ issues = 1 /\ importFaults = 0 /\ rebinds = 0

AthKeep == UNCHANGED <<issue, lego, target, late, issues, importFaults, rebinds>>
Enters(h, stage) == hooks' = [hooks EXCEPT ![h].stage = stage]
-----------------------------------------------------------------------------
(* Lego, and the administrators of DSM.                                    *)

LegoRenews ==
    /\ lego = "idle" /\ issues < MaxIssues
    /\ issues' = issues + 1 /\ lego' = "chain"
    /\ issue' = [issue EXCEPT !.leaf = issues']
    /\ UNCHANGED <<target, hooks, late, importFaults, rebinds>>
LegoSaves ==
    /\ lego = "chain" /\ hooks[LegoHook].stage \in {"idle", "done", "failed"}
    /\ issue' = [issue EXCEPT !.chain = issue.leaf] /\ lego' = "hook"
    /\ hooks' = [hooks EXCEPT ![LegoHook] = [NoHook EXCEPT !.stage = "verify", !.began = issue.leaf]]
    /\ UNCHANGED <<target, late, issues, importFaults, rebinds>>
LegoEnds ==
    /\ lego = "hook" /\ hooks[LegoHook].stage \in {"done", "failed"}
    /\ lego' = "idle" /\ UNCHANGED <<issue, target, hooks, late, issues, importFaults, rebinds>>
Rebind ==
    /\ target.bound /\ rebinds < MaxRebinds /\ rebinds' = rebinds + 1
    /\ target' = [target EXCEPT !.bound = FALSE]
    /\ UNCHANGED <<issue, lego, hooks, late, issues, importFaults>>
RestoreBinding ==
    /\ ~target.bound /\ target' = [target EXCEPT !.bound = TRUE]
    /\ UNCHANGED <<issue, lego, hooks, late, issues, importFaults, rebinds>>
-----------------------------------------------------------------------------
(* The hook.                                                               *)

\* "Fix the cause and retry the saved files directly."
RunByHand(h) ==
    /\ h # LegoHook /\ hooks[h].stage \in {"idle", "failed", "done"}
    /\ target.leaf # issue.leaf \/ target.chain # issue.chain
    /\ hooks' = [hooks EXCEPT ![h] = [NoHook EXCEPT !.stage = "verify", !.began = issue.leaf]]
    /\ AthKeep

\* Mutant: a leaf without its chain verifies.
LeafThere == issue.leaf # Lost
\* openssl verify of the leaf with its chain; a lost file fails it.
ChainVerifies == issue.leaf # Lost /\ issue.chain = issue.leaf
VerifyIssued(h) ==
    /\ hooks[h].stage = "verify"
    /\ hooks' = [hooks EXCEPT ![h].stage = IF ChainVerifies THEN "check" ELSE "failed", ![h].checked = issue]
    /\ AthKeep

\* check_target before the import, and after it.
CheckTarget(h) ==
    /\ hooks[h].stage \in {"check", "recheck"}
    /\ Enters(h, IF ~target.bound THEN "failed" ELSE IF hooks[h].stage = "check" THEN "copy" ELSE "done")
    /\ AthKeep

\* Private copies: the key, the leaf, the chain.
CopyOrder == <<"key", "leaf", "chain">>
CopyFile(h) ==
    /\ hooks[h].stage = "copy"
    /\ LET field == CopyOrder[Cardinality(DOMAIN hooks[h].staged) + 1] IN
       hooks' = IF issue[field] = Lost THEN [hooks EXCEPT ![h].stage = "failed"]
                ELSE [hooks EXCEPT
                  ![h].staged = [x \in DOMAIN @ \cup {field} |-> IF x = field THEN issue[field] ELSE @[x]],
                  ![h].stage = IF field = "chain" THEN "import" ELSE "copy"]
    /\ AthKeep

\* The import into the same ID, as default; it leaves the binding as it is and takes its
\* own copies, so that Lego's files stay.
Import(h) ==
    /\ hooks[h].stage = "import"
    /\ target' = [target EXCEPT !.leaf = hooks[h].staged.leaf, !.chain = hooks[h].staged.chain]
    /\ late' = (hooks[h].checked # issue)
    /\ \/ Enters(h, "recheck") /\ UNCHANGED importFaults
       \/ importFaults < MaxImportFaults /\ importFaults' = importFaults + 1 /\ Enters(h, "failed")
    /\ UNCHANGED <<issue, lego, issues, rebinds>>

\* A command exits nonzero or takes too long, or DSM does not report success.
CallFails(h) ==
    /\ hooks[h].stage \in {"verify", "check", "import", "recheck"} /\ importFaults < MaxImportFaults
    /\ importFaults' = importFaults + 1 /\ Enters(h, "failed")
    /\ UNCHANGED <<issue, lego, target, late, issues, rebinds>>

HookSteps(h) == VerifyIssued(h) \/ CheckTarget(h) \/ CopyFile(h) \/ Import(h)
AthenaNext ==
    \/ LegoRenews \/ LegoSaves \/ LegoEnds \/ Rebind \/ RestoreBinding
    \/ \E h \in Hooks : RunByHand(h) \/ HookSteps(h) \/ CallFails(h)
AthenaSpec == AthenaInit /\ [][AthenaNext]_athenaVars
-----------------------------------------------------------------------------
(* Properties.                                                             *)

\* Lego's own files stay where they are.
AthenaTypeOK ==
    /\ issue \in [Fields -> 1 .. MaxIssues] /\ lego \in {"idle", "chain", "hook"}
    /\ target \in [leaf : 1 .. MaxIssues, chain : 1 .. MaxIssues, bound : BOOLEAN]
    /\ \A h \in Hooks : DOMAIN hooks[h].staged \subseteq Fields
    /\ issues <= MaxIssues /\ importFaults <= MaxImportFaults /\ rebinds <= MaxRebinds

\* A chain is installed beside the leaf it belongs to, whatever failed on the way, and
\* however hooks overlap, unless Lego rewrote the files between the verification and
\* the copies.
InstalledIsWhole == target.leaf = target.chain \/ late

\* Once a hook reports success, the leaf that was issued when it began is installed, or
\* a later one, whatever other hooks did beside it and since; the same exception holds.
DoneIsIssued == \A h \in Hooks : hooks[h].stage = "done" => target.leaf >= hooks[h].began \/ late

\* "Retry the saved files directly": DSM may consume what it is given, but however often
\* imports fail, time out and are run again, what Lego issued gets installed in the end.
IssuedIsInstalled == []<>(target.leaf = issue.leaf /\ target.chain = issue.chain)

\* What DSM serves is a whole verified pair, and a run that reports success installed what
\* was issued.
CertificateSafe == AthenaTypeOK /\ InstalledIsWhole /\ DoneIsIssued
=============================================================================
