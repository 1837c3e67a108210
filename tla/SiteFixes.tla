------------------------------- MODULE SiteFixes -------------------------------
(***************************************************************************)
(* mods/mia-tensorfold-glm53-bf5f9452/site_fixes.py and the run.sh that    *)
(* calls it in the container before the engine starts: the installed       *)
(* sources are checked, patched and only then the entrypoint installed.    *)
(* The container can be killed anywhere, a file write included, and be     *)
(* started again as it is or made anew from its image.                     *)
(***************************************************************************)
EXTENDS Integers, Sequences

CONSTANTS
    Sources,   \* the patched files, in the order of transforms
    Images,    \* what an image may hold: each file "upstream", "site" or "drifted"
    MaxFixKills   \* bound

Patched == {Sources[i] : i \in DOMAIN Sources}
ASSUME FixesAssumption ==
    /\ Sources \in Seq(Patched) /\ MaxFixKills \in Nat
    /\ Images \subseteq [Patched -> {"upstream", "site", "drifted"}]

VARIABLES
    sources,    \* of the container; "torn" after a write that was cut off
    shipped,    \* of its image
    fixer,      \* "idle", "scan", "write", "fill", "fixed", "refused"
    scanned,    \* files looked at
    waiting,    \* pending: files to write
    installedEntry, \* the entrypoint is installed
    found,      \* history: the sources as this run began
    fixKills
fixVars == <<sources, shipped, fixer, scanned, waiting, installedEntry, found, fixKills>>

FixInit ==
    /\ shipped \in Images /\ sources = shipped /\ found = shipped
    /\ fixer = "idle" /\ scanned = 0 /\ waiting = <<>> /\ installedEntry = FALSE /\ fixKills = 0

Nothing == <<>>
StartFixer ==
    /\ fixer = "idle" /\ ~installedEntry
    /\ fixer' = "scan" /\ scanned' = 0 /\ waiting' = Nothing /\ found' = sources
    /\ UNCHANGED <<sources, shipped, installedEntry, fixKills>>

Acceptable == {"site", "upstream"}
\* The site's digest: nothing to do; upstream's: to be written; any other, a
\* linked or a missing file: refused.
ScanFile ==
    /\ fixer = "scan" /\ scanned < Len(Sources)
    /\ LET name == Sources[scanned + 1]
       IN /\ fixer' = IF sources[name] \in Acceptable THEN fixer ELSE "refused"
          /\ waiting' = IF sources[name] = "upstream" THEN Append(waiting, name) ELSE waiting
    /\ scanned' = scanned + 1
    /\ UNCHANGED <<sources, shipped, installedEntry, found, fixKills>>

\* Nothing is written before everything was looked at.
MayWrite == fixer = "scan" /\ scanned = Len(Sources) /\ waiting # <<>>

\* write_bytes empties the file and then fills it.
OpenFile ==
    /\ MayWrite \/ (fixer = "write" /\ waiting # <<>>)
    /\ fixer' = "fill" /\ sources' = [sources EXCEPT ![Head(waiting)] = "torn"]
    /\ UNCHANGED <<shipped, scanned, waiting, installedEntry, found, fixKills>>

FillFile ==
    /\ fixer = "fill"
    /\ sources' = [sources EXCEPT ![Head(waiting)] = "site"]
    /\ waiting' = Tail(waiting)
    /\ fixer' = IF scanned = Len(Sources) THEN "write" ELSE "scan"
    /\ UNCHANGED <<shipped, scanned, installedEntry, found, fixKills>>

Fixed ==
    /\ fixer \in {"scan", "write"} /\ scanned = Len(Sources) /\ waiting = <<>>
    /\ fixer' = "fixed"
    /\ UNCHANGED <<sources, shipped, scanned, waiting, installedEntry, found, fixKills>>

\* Mutant: serve.py is installed whatever the fixer's exit code.
AfterAnyEnd == fixer \in {"fixed", "refused"}
\* set -e: serve.py is installed after a success only.
AfterSuccess == fixer = "fixed"
InstallEntry ==
    /\ AfterSuccess
    /\ installedEntry' = TRUE /\ fixer' = "idle"
    /\ UNCHANGED <<sources, shipped, scanned, waiting, found, fixKills>>

KillContainer ==
    /\ fixKills < MaxFixKills /\ fixer \notin {"idle", "refused"}
    /\ fixKills' = fixKills + 1 /\ fixer' = "idle"
    /\ UNCHANGED <<sources, shipped, scanned, waiting, installedEntry, found>>

\* A container that was refused is removed and made again.
NewContainer ==
    /\ fixer = "refused"
    /\ sources' = shipped /\ fixer' = "idle" /\ installedEntry' = FALSE
    /\ UNCHANGED <<shipped, scanned, waiting, found, fixKills>>

FixerSteps == StartFixer \/ ScanFile \/ OpenFile \/ FillFile \/ Fixed \/ InstallEntry
FixNext == FixerSteps \/ KillContainer \/ NewContainer
FixSpec == FixInit /\ [][FixNext]_fixVars
-----------------------------------------------------------------------------
(* Properties.                                                             *)

FixTypeOK ==
    /\ shipped \in Images
    /\ sources \in [Patched -> {"upstream", "site", "drifted", "torn"}]
    /\ found \in [Patched -> {"upstream", "site", "drifted", "torn"}]
    /\ fixer \in {"idle", "scan", "write", "fill", "fixed", "refused"}
    /\ scanned \in 0 .. Len(Sources) /\ waiting \in Seq(Patched) /\ installedEntry \in BOOLEAN
    /\ (fixer = "scan" => Len(waiting) <= scanned)
    /\ fixKills \in 0 .. MaxFixKills

\* Wherever runs before it were cut off, an engine only starts on sources that all
\* carry the site's change, none of them upstream's, torn or anyone else's.
StartsPatched == installedEntry => \A name \in Patched : sources[name] = "site"

\* A run that refuses a file has written none: what drifted can be looked at as
\* it was found, and no half of the change is left beside it.
RefusalChangesNothing == fixer = "refused" => sources = found

\* A cut-off run is repaired by the next: with an image that has not drifted the
\* entrypoint is installed in the end.
FixConverges == (\A name \in Patched : shipped[name] # "drifted") ~> installedEntry

\* What starts is patched as a whole, and a refusal leaves the files alone.
FixesSafe == FixTypeOK /\ StartsPatched /\ RefusalChangesNothing
=============================================================================
