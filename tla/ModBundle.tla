------------------------------- MODULE ModBundle -------------------------------
(***************************************************************************)
(* The frozen mods of sparks/inference/sparkrun/mods: prepare.py, which    *)
(* checks a mod's files against its lock and, by kind of mod, rewrites the *)
(* lock; build/build.sh of the two-Spark Qwen mod, which builds the engine *)
(* binary from the mod's patches; and run.sh, which installs what checks.  *)
(* The operator edits files and the lock between commands, interrupts      *)
(* commands anywhere, and takes the committed mod back from git, which     *)
(* does not know out/.                                                     *)
(*                                                                         *)
(* Kinds: "plain" (readiness, readiness-v2, dsv41), "ordered" (tp1, which  *)
(* compares its patches with the lock's as well), "fixed" (GLM), "binary". *)
(***************************************************************************)
EXTENDS Integers, FiniteSets

CONSTANTS
    Frozen,    \* files of the mod other than patches
    Entry,     \* serve.py (readiness.py of a gate)
    Patches,   \* its patches
    Strangers, \* other names a file may be left under
    Contents,  \* what a file may hold
    Original,  \* the content that is committed
    Gone, Linked, \* no file, a symbolic link
    None,      \* no binary, nothing served
    Torn,      \* a lock that was cut off while written: no JSON
    MaxEdits   \* bound on what the operator does by hand

BundleNames == Frozen \cup Patches \cup Strangers
ASSUME BundleAssumption ==
    /\ Entry \in Frozen /\ Original \in Contents
    /\ {Gone, Linked} \cap Contents = {}
    /\ Frozen \cap Patches = {} /\ (Frozen \cup Patches) \cap Strangers = {}
    /\ MaxEdits \in Nat

VARIABLES
    kind,
    onDisk,       \* content by name
    modLock,       \* mod_files: content by name, or Torn
    binary,     \* binary_sha256, as the binary itself: the patches it was built from and which build
    out,        \* out/tensorfold-native
    building,    \* "none", "refresh" or "build"
    left,       \* patches the running refresh has still to write
    recording,  \* build.sh --record
    usedBy,     \* history: what the last successful run.sh installed, and the lock then
    edits
bundleVars == <<kind, onDisk, modLock, binary, out, building, left, recording, usedBy, edits>>

Owned(k) == IF k = "fixed" THEN Frozen ELSE Frozen \cup Patches
Committed(k) == [n \in BundleNames |-> IF n \in Owned(k) THEN Original ELSE Gone]
CommittedLock(k) == [n \in Owned(k) |-> Original]
PublishedBinary(k) == IF k = "binary" THEN [from |-> [p \in Patches |-> Original], build |-> 1] ELSE None

BundleInit ==
    /\ kind \in {"plain", "ordered", "fixed", "binary"}
    /\ onDisk = Committed(kind) /\ modLock = CommittedLock(kind) /\ binary = PublishedBinary(kind)
    /\ out \in {None, binary}
    /\ building = "none" /\ left = {} /\ recording = FALSE /\ usedBy = None /\ edits = 0
-----------------------------------------------------------------------------
(* prepare.py --check.                                                     *)

Present == {n \in BundleNames : onDisk[n] # Gone}

\* Which names must be listed, and which of the files must not be anything else.
PlainListed == DOMAIN modLock = Present
OrderedListed == DOMAIN modLock = Present /\ Patches \subseteq Present
FixedListed == DOMAIN modLock = Frozen
BinaryListed == DOMAIN modLock = Frozen \cup Patches /\ Patches \subseteq Present
ListOk ==
    CASE kind = "plain"   -> PlainListed
      [] kind = "ordered" -> OrderedListed
      [] kind = "fixed"   -> FixedListed
      [] kind = "binary"  -> BinaryListed
FilesOk == \A n \in DOMAIN modLock : onDisk[n] = modLock[n]

BinaryOk(need, recorded) == IF out = None THEN ~need ELSE out = recorded

Verified(need, recorded) ==
    /\ modLock # Torn /\ ListOk /\ FilesOk
    /\ kind = "binary" => BinaryOk(need, recorded)
-----------------------------------------------------------------------------
(* The commands.                                                           *)

Idle == building = "none"

\* --record of the plain and ordered mods; no linked file is recorded.
MayRecord == \A n \in Present : onDisk[n] # Linked
Record ==
    /\ Idle /\ kind \in {"plain", "ordered"} /\ modLock # Torn /\ MayRecord
    /\ modLock' = [n \in Present |-> onDisk[n]]
    /\ UNCHANGED <<kind, onDisk, binary, out, building, left, recording, usedBy, edits>>

\* --refresh: the patches one after the other, then the lock, with no binary.
StartRefresh ==
    /\ Idle /\ kind = "binary" /\ modLock # Torn
    /\ building' = "refresh" /\ left' = Patches
    /\ UNCHANGED <<kind, onDisk, modLock, binary, out, recording, usedBy, edits>>

RefreshPatch ==
    /\ building = "refresh"
    /\ \E p \in left, content \in Contents :
          onDisk' = [onDisk EXCEPT ![p] = content] /\ left' = left \ {p}
    /\ UNCHANGED <<kind, modLock, binary, out, building, recording, usedBy, edits>>

\* Mutant: a refresh keeps the recorded binary.
KeptBinary == binary
AfterRefresh == None
EndRefresh ==
    /\ building = "refresh" /\ left = {}
    /\ modLock' = [n \in DOMAIN modLock |-> IF n \in Patches THEN onDisk[n] ELSE modLock[n]]
    /\ binary' = AfterRefresh
    /\ building' = "none"
    /\ UNCHANGED <<kind, onDisk, out, left, recording, usedBy, edits>>

\* build.sh: out/ is removed before anything is checked.
StartBuild(record) ==
    /\ Idle /\ kind = "binary"
    /\ out' = None /\ recording' = record
    /\ building' = IF modLock # Torn /\ ListOk /\ FilesOk THEN "build" ELSE "none"
    /\ UNCHANGED <<kind, onDisk, modLock, binary, left, usedBy, edits>>

\* docker build: another build of the same patches may differ.
MakeBinary ==
    /\ building = "build" /\ out = None
    /\ \E build \in 1 .. 2 : out' = [from |-> [p \in Patches |-> onDisk[p]], build |-> build]
    /\ UNCHANGED <<kind, onDisk, modLock, binary, building, left, recording, usedBy, edits>>

\* --record-binary writes the lock once the whole bundle checks, this binary
\* included; without it the binary must be the lock's, which changes nothing.
EndBuild ==
    /\ building = "build" /\ out # None
    /\ binary' = IF recording /\ Verified(TRUE, out) THEN out ELSE binary
    /\ building' = "none"
    /\ UNCHANGED <<kind, onDisk, modLock, out, left, recording, usedBy, edits>>

\* run.sh; what install cannot find ends it.
RunMod ==
    /\ Idle /\ Verified(TRUE, binary) /\ onDisk[Entry] # Gone
    /\ usedBy' = [entry |-> onDisk[Entry], engine |-> out, files |-> Present, lock |-> modLock]
    /\ UNCHANGED <<kind, onDisk, modLock, binary, out, building, left, recording, edits>>
-----------------------------------------------------------------------------
(* The operator.                                                           *)

Interrupt ==
    /\ ~Idle /\ building' = "none"
    /\ modLock' \in IF building = "refresh" /\ left = {} THEN {modLock, Torn} ELSE {modLock}
    /\ UNCHANGED <<kind, onDisk, binary, out, left, recording, usedBy, edits>>

EditFile ==
    /\ Idle /\ edits < MaxEdits /\ edits' = edits + 1
    /\ \E n \in BundleNames, content \in Contents \cup {Gone, Linked} : onDisk' = [onDisk EXCEPT ![n] = content]
    /\ UNCHANGED <<kind, modLock, binary, out, building, left, recording, usedBy>>

\* "including every mod file's hash": a reviewed file's, by hand; patches of the
\* two-Spark mod are only ever refreshed.
AdoptFile ==
    /\ Idle /\ edits < MaxEdits /\ edits' = edits + 1 /\ modLock # Torn
    /\ \E n \in DOMAIN modLock : /\ kind = "binary" => n \notin Patches
                              /\ onDisk[n] \in Contents
                              /\ modLock' = [modLock EXCEPT ![n] = onDisk[n]]
    /\ UNCHANGED <<kind, onDisk, binary, out, building, left, recording, usedBy>>

\* git checkout.
Restore ==
    /\ Idle /\ edits < MaxEdits /\ edits' = edits + 1
    /\ onDisk' = [n \in BundleNames |-> IF n \in Strangers THEN onDisk[n] ELSE Committed(kind)[n]]
    /\ modLock' = CommittedLock(kind) /\ binary' = PublishedBinary(kind)
    /\ UNCHANGED <<kind, out, building, left, recording, usedBy>>

BundleNext ==
    \/ Record \/ StartRefresh \/ RefreshPatch \/ EndRefresh \/ MakeBinary \/ EndBuild \/ RunMod
    \/ \E record \in BOOLEAN : StartBuild(record)
    \/ Interrupt \/ EditFile \/ AdoptFile \/ Restore
BundleSpec == BundleInit /\ [][BundleNext]_bundleVars
-----------------------------------------------------------------------------
(* Properties.                                                             *)

BuiltFrom(locked) == [p \in Patches |-> locked[p]]

BundleTypeOK ==
    /\ onDisk \in [BundleNames -> Contents \cup {Gone, Linked}]
    /\ modLock # Torn => \A n \in DOMAIN modLock : modLock[n] \in Contents
    /\ building \in {"none", "refresh", "build"} /\ left \subseteq Patches
    /\ recording \in BOOLEAN /\ edits \in 0 .. MaxEdits
    /\ (kind # "binary" => binary = None /\ out = None)

\* "The lock records a binary only once the whole bundle, that binary included,
\* checks out": across refreshes, builds, interruptions and checkouts the lock never
\* pairs a binary with patches it was not built from.
RecordedIsBuilt ==
    kind = "binary" /\ binary # None /\ modLock # Torn => binary.from = BuiltFrom(modLock)

\* What run.sh installed is what was reviewed: the entrypoint of the lock, no file
\* the lock leaves out of a mod that is transferred whole, and an engine that was
\* built from the very patches of the lock, whatever out/ was left over.
ServedIsLocked ==
    usedBy # None =>
       /\ usedBy.entry = usedBy.lock[Entry]
       /\ kind \in {"plain", "ordered"} => usedBy.files = DOMAIN usedBy.lock
       /\ kind = "binary" => usedBy.engine.from = BuiltFrom(usedBy.lock)

\* What a lock records was built from the files it records, and is what is served.
BundleSafe == BundleTypeOK /\ RecordedIsBuilt /\ ServedIsLocked
=============================================================================
