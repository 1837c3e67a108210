---------------------------- MODULE MachineProofs ----------------------------
(***************************************************************************)
(* What is proved of the programs that start, check, measure and qualify   *)
(* one machine of the lab, and of the sync of the Healthchecks that watch  *)
(* over them, one section each.                                            *)
(*                                                                         *)
(* SiteFixes: StartsPatched speaks of the end of a run only.  WaitingInv   *)
(* is what its loops keep: a file that has been looked at carries the      *)
(* site's change or is still to be written.                                *)
(***************************************************************************)
EXTENDS SiteFixes, LongSessions, EngineStart, Readiness, SendScreen, Qualification, Healthchecks,
        ModBundle, FiniteSetTheorems, WellFoundedInduction, TLAPS

\* What the scan and the writes leave to do; a file is torn only while it is written.
WaitingInv ==
    /\ fixer = "scan" => sources = found
    /\ fixer = "scan" => \A i \in 1 .. scanned :
          sources[Sources[i]] = "site" \/ \E j \in 1 .. Len(waiting) : waiting[j] = Sources[i]
    /\ fixer \in {"write", "fill"} => scanned = Len(Sources)
    /\ fixer = "fill" => waiting # <<>>
    /\ fixer \in {"write", "fill"} => \A name \in Patched :
          sources[name] = "site" \/ \E j \in 1 .. Len(waiting) : waiting[j] = name
    /\ fixer = "fixed" => \A name \in Patched : sources[name] = "site"
    /\ installedEntry => fixer = "idle"
FixInv == FixesSafe /\ WaitingInv

\* The patched files are those of the list.
LEMMA PatchedListed == \A name \in Patched : \E i \in 1 .. Len(Sources) : Sources[i] = name
<1>1. DOMAIN Sources = 1 .. Len(Sources)
    BY FixesAssumption
<1> QED
    BY <1>1 DEF Patched

LEMMA FixStarts == FixInit => FixInv
<1> SUFFICES ASSUME FixInit
             PROVE  FixInv
    OBVIOUS
<1>1. shipped \in [Patched -> {"upstream", "site", "drifted"}]
    BY FixesAssumption DEF FixInit
<1>2. shipped \in [Patched -> {"upstream", "site", "drifted", "torn"}]
    BY <1>1
<1>3. Len(Sources) \in Nat /\ waiting \in Seq(Patched) /\ Len(waiting) = 0
    BY FixesAssumption DEF FixInit
<1>4. scanned \in 0 .. Len(Sources) /\ fixKills \in 0 .. MaxFixKills
    BY <1>3, FixesAssumption DEF FixInit
<1>5. FixTypeOK
    BY <1>2, <1>3, <1>4 DEF FixInit, FixTypeOK
<1> QED
    BY <1>5 DEF FixInit, FixInv, FixesSafe, StartsPatched, RefusalChangesNothing, WaitingInv

\* Looking at a file.
LEMMA ScanKeeps == FixInv /\ ScanFile => FixInv'
<1> SUFFICES ASSUME FixInv, ScanFile
             PROVE  FixInv'
    OBVIOUS
<1> USE FixesAssumption DEF FixInv, FixesSafe, FixTypeOK, StartsPatched, RefusalChangesNothing, WaitingInv, ScanFile
<1> DEFINE name == Sources[scanned + 1]
<1>1. name \in Patched /\ scanned + 1 \in 1 .. Len(Sources)
    BY DEF Patched
<1>2. FixTypeOK'
    BY <1>1 DEF Acceptable
<1>3. \A i \in 1 .. scanned' : fixer' = "scan" =>
        sources'[Sources[i]] = "site" \/ \E j \in 1 .. Len(waiting') : waiting'[j] = Sources[i]
  <2> SUFFICES ASSUME NEW i \in 1 .. scanned + 1, fixer' = "scan", sources[Sources[i]] # "site"
               PROVE  \E j \in 1 .. Len(waiting') : waiting'[j] = Sources[i]
      OBVIOUS
  <2>1. CASE i = scanned + 1
    <3>1. waiting' = Append(waiting, name)
        BY <2>1, <1>1 DEF Acceptable
    <3> QED
        BY <3>1, <2>1, <1>1
  <2>2. CASE i \in 1 .. scanned
    <3>1. PICK j \in 1 .. Len(waiting) : waiting[j] = Sources[i]
        BY <2>2
    <3>2. waiting' = waiting \/ waiting' = Append(waiting, name)
        OBVIOUS
    <3> QED
        BY <3>1, <3>2, <1>1
  <2> QED
      BY <2>1, <2>2
<1> QED
    BY <1>2, <1>3

\* Writing a file: it is torn, and then it carries the site's change.
LEMMA WriteKeeps == FixInv /\ (OpenFile \/ FillFile) => FixInv'
<1> SUFFICES ASSUME FixInv
             PROVE  OpenFile \/ FillFile => FixInv'
    OBVIOUS
<1> USE FixesAssumption DEF FixInv, FixesSafe, FixTypeOK, StartsPatched, RefusalChangesNothing, WaitingInv
<1>1. ASSUME waiting # <<>>
      PROVE  /\ Head(waiting) \in Patched /\ Head(waiting) = waiting[1] /\ 1 \in 1 .. Len(waiting)
             /\ Tail(waiting) \in Seq(Patched) /\ Len(Tail(waiting)) = Len(waiting) - 1
             /\ \A j \in 2 .. Len(waiting) : Tail(waiting)[j - 1] = waiting[j]
    BY <1>1
<1>2. ASSUME OpenFile
      PROVE  FixInv'
  <2>1. scanned = Len(Sources) /\ waiting # <<>>
      BY <1>2 DEF OpenFile, MayWrite
  <2>2. \A name \in Patched : sources[name] = "site" \/ \E j \in 1 .. Len(waiting) : waiting[j] = name
    <3>1. CASE fixer = "scan"
      <4> SUFFICES ASSUME NEW name \in Patched
                   PROVE  sources[name] = "site" \/ \E j \in 1 .. Len(waiting) : waiting[j] = name
          OBVIOUS
      <4>1. PICK i \in 1 .. Len(Sources) : Sources[i] = name
          BY PatchedListed
      <4> QED
          BY <2>1, <3>1, <4>1
    <3>2. CASE fixer = "write"
        BY <3>2
    <3> QED
        BY <1>2, <3>1, <3>2 DEF OpenFile, MayWrite
  <2>3. \A name \in Patched : sources'[name] = "site" \/ \E j \in 1 .. Len(waiting') : waiting'[j] = name
    <3> SUFFICES ASSUME NEW name \in Patched, name # waiting[1]
                 PROVE  sources'[name] = sources[name]
        BY <1>1, <1>2, <2>1, <2>2 DEF OpenFile
    <3> QED
        BY <1>1, <1>2, <2>1 DEF OpenFile
  <2>4. fixer' = "fill" /\ ~installedEntry'
      BY <1>2 DEF OpenFile, MayWrite
  <2>5. FixTypeOK'
      BY <1>1, <1>2, <2>1 DEF OpenFile
  <2> QED
      BY <1>2, <2>1, <2>3, <2>4, <2>5 DEF OpenFile
<1>3. ASSUME FillFile
      PROVE  FixInv'
  <2>1. waiting # <<>> /\ scanned = Len(Sources) /\ ~installedEntry
      BY <1>3 DEF FillFile
  <2>2. ASSUME NEW name \in Patched, sources'[name] # "site"
        PROVE  \E j \in 1 .. Len(waiting') : waiting'[j] = name
    <3>1. name # waiting[1] /\ sources[name] # "site"
        BY <1>1, <1>3, <2>1, <2>2 DEF FillFile
    <3>2. PICK j \in 2 .. Len(waiting) : waiting[j] = name
        BY <1>3, <3>1 DEF FillFile
    <3>3. waiting' = Tail(waiting) /\ j - 1 \in 1 .. Len(Tail(waiting)) /\ Tail(waiting)[j - 1] = name
        BY <1>1, <1>3, <2>1, <3>2 DEF FillFile
    <3> QED
        BY <3>3
  <2>3. FixTypeOK'
      BY <1>1, <1>3, <2>1 DEF FillFile
  <2> QED
      BY <1>3, <2>1, <2>2, <2>3 DEF FillFile
<1> QED
    BY <1>2, <1>3

\* Every step of the fixer, and a kill at any of them.
LEMMA FixStep == FixInv /\ [FixNext]_fixVars => FixInv'
<1> SUFFICES ASSUME FixInv, [FixNext]_fixVars
             PROVE  FixInv'
    OBVIOUS
<1> USE FixesAssumption DEF FixInv, FixesSafe, FixTypeOK, StartsPatched, RefusalChangesNothing, WaitingInv
<1>1. CASE StartFixer
  <2>1. waiting' \in Seq(Patched) /\ Len(waiting') = 0 /\ scanned' = 0 /\ Len(Sources) \in Nat
      BY <1>1 DEF StartFixer, Nothing
  <2>2. FixTypeOK'
      BY <1>1, <2>1 DEF StartFixer
  <2> QED
      BY <1>1, <2>1, <2>2 DEF StartFixer
<1>2. CASE ScanFile
    BY <1>2, ScanKeeps
<1>3. CASE OpenFile \/ FillFile
    BY <1>3, WriteKeeps
<1>4. CASE Fixed
  <2>1. \A name \in Patched : sources[name] = "site"
    <3> SUFFICES ASSUME NEW name \in Patched
                 PROVE  sources[name] = "site"
        OBVIOUS
    <3>1. PICK i \in 1 .. Len(Sources) : Sources[i] = name
        BY PatchedListed
    <3>2. Len(waiting) = 0 /\ scanned = Len(Sources) /\ fixer \in {"scan", "write"}
        BY <1>4 DEF Fixed
    <3> QED
        BY <3>1, <3>2
  <2> QED
      BY <1>4, <2>1 DEF Fixed
<1>5. CASE InstallEntry
    BY <1>5 DEF InstallEntry, AfterSuccess
<1>6. CASE KillContainer
    BY <1>6 DEF KillContainer
<1>7. CASE NewContainer
  <2>1. shipped \in [Patched -> {"upstream", "site", "drifted"}]
      OBVIOUS
  <2>2. sources' \in [Patched -> {"upstream", "site", "drifted", "torn"}]
      BY <1>7, <2>1 DEF NewContainer
  <2> QED
      BY <1>7, <2>2 DEF NewContainer
<1>8. CASE UNCHANGED fixVars
    BY <1>8 DEF fixVars
<1> QED
    BY <1>1, <1>2, <1>3, <1>4, <1>5, <1>6, <1>7, <1>8 DEF FixNext, FixerSteps

\* What an engine starts on carries the site's change in every file, and a run that refuses
\* a file has written none, for any list of files and any number of kills (run.sh and
\* site_fixes.py).
THEOREM FixesAreSafe == FixSpec => []FixesSafe
<1>1. FixInv => FixesSafe
    BY DEF FixInv
<1> QED
    BY <1>1, FixStarts, FixStep, PTL DEF FixSpec
-----------------------------------------------------------------------------
(* LongSessions.  A row is safe from a cut because the shutdown comes after the  *)
(* cancellation and the last look before a row.  The monitor answers in time     *)
(* because its first host is this one: what the campaign has waited at its end   *)
(* is at most what the other host's one sample has used.                         *)

\* What LsTypeOK leaves open.
LsFunctions ==
    /\ broke \in [Requests -> BOOLEAN] /\ shut \in [Requests -> BOOLEAN]
    /\ \A h \in HostSet : recent[h] \in Seq({"enough", "low"}) /\ Len(recent[h]) <= LowLimit
    /\ DOMAIN recent = HostSet

\* A cut or aborted request is one of a cancelled campaign, and a watcher that watches has
\* a response to watch.
CutInv ==
    \A r \in Requests :
       /\ shut[r] \/ req[r] = "aborted" => cancel
       /\ shut[r] => req[r] # "row"
       /\ watcher[r] = "watching" => req[r] \in {"reading", "leaving"}

\* The reason comes before the cancellation, and nothing is sampled after it.
ReasonInv ==
    /\ cancel => failures # "none"
    /\ failures # "none" => monitor \in {"recorded", "stopping", "done"}
    /\ monitor \in {"recorded", "stopping"} => failures # "none"
    /\ monitor = "done" => finished \/ failures # "none"
    /\ monitor = "idle" <=> run = "idle"
    /\ finished <=> run \in {"joining", "ok", "raised"}

\* A counter is the number of low samples the history of its host begins with.
RowOfLow(h) ==
    /\ low[h] <= Len(recent[h])
    /\ \A i \in 1 .. low[h] : recent[h][i] = "low"
    /\ low[h] < Len(recent[h]) => recent[h][low[h] + 1] # "low"
LowInv ==
    /\ \A h \in HostSet : RowOfLow(h)
    /\ failures = "memory" <=> \E h \in HostSet : low[h] = LowLimit

\* What has been reported and waited by now.
JoinWaited == JoinTimeout - joinLeft
JoinInv ==
    /\ run = "idle" => phase = 0 /\ written = {}
    /\ run = "phase" => phase \in 1 .. Phases /\ written = 1 .. (phase - 1)
    /\ run \in {"idle", "phase"} => ~failing /\ JoinWaited = 0 /\ sampleLeft = SshTimeout
    /\ run \in {"joining", "ok"} /\ ~failing => written = 1 .. Phases
    /\ run = "ok" => monitor = "done" /\ failures = "none" /\ ~failing
    /\ failures = "none" =>
          /\ monitor = "sampling" => JoinWaited <= IF host = 1 THEN 0 ELSE SshTimeout - sampleLeft
          /\ monitor = "waiting" => JoinWaited <= SshTimeout
    /\ monitor = "sampling" /\ host = 1 => sampleLeft = SshTimeout
LsInv == LsTypeOK /\ LsFunctions /\ CutInv /\ ReasonInv /\ LowInv /\ JoinInv

\* There are two hosts.
LEMMA TwoHosts == Len(Hosts) = 2 /\ DOMAIN Hosts = {1, 2} /\ \A i \in {1, 2} : Hosts[i] \in HostSet
<1>1. PICK head, worker : Hosts = <<head, worker>>
    BY LsAssumption
<1>2. Len(<<head, worker>>) = 2 /\ DOMAIN <<head, worker>> = {1, 2}
    OBVIOUS
<1> QED
    BY <1>1, <1>2 DEF HostSet

LEMMA LsStarts == LsInit => LsInv
<1> SUFFICES ASSUME LsInit
             PROVE  LsInv
    OBVIOUS
<1> USE LsAssumption DEF LsInit
<1>1. host \in DOMAIN Hosts
    BY TwoHosts
<1>2. LsFunctions
    BY DEF LsFunctions
<1>3. LsTypeOK
  <2>1. {broke[r] : r \in Requests} \cup {shut[r] : r \in Requests} \subseteq BOOLEAN
      BY <1>2 DEF LsFunctions
  <2>2. written \subseteq 1 .. Phases /\ low \in [HostSet -> 0 .. LowLimit]
      OBVIOUS
  <2>3. sampleLeft \in 0 .. SshTimeout /\ joinLeft \in 0 .. JoinTimeout /\ phase \in 0 .. Phases
      OBVIOUS
  <2>4. {cancel, finished, failing} \subseteq BOOLEAN
      OBVIOUS
  <2> QED
      BY <1>1, <2>1, <2>2, <2>3, <2>4 DEF LsTypeOK, Settled
<1>4. LowInv
    BY DEF LowInv, RowOfLow
<1> QED
    BY <1>2, <1>3, <1>4 DEF LsInv, CutInv, ReasonInv, JoinInv, JoinWaited

\* The part of LsTypeOK about the requests.
LEMMA RequestTypes ==
    ASSUME LsTypeOK, LsFunctions',
           req' \in [Requests -> {"idle", "queued", "opening", "reading", "leaving", "ending"} \cup Settled],
           got' \in [Requests -> {"nothing", "part", "all"}],
           watcher' \in [Requests -> {"none", "watching", "ended"}],
           UNCHANGED <<campaign, sampling, events, joinLeft>>
    PROVE  LsTypeOK'
<1>1. ({broke[r] : r \in Requests} \cup {shut[r] : r \in Requests} \subseteq BOOLEAN)'
    BY DEF LsFunctions
<1>2. UNCHANGED <<run, phase, failing, written, monitor, host, low, recent, sampleLeft, cancel, finished, failures, joinLeft>>
    BY DEF campaign, sampling, events
<1> QED
    BY <1>1, <1>2 DEF LsTypeOK

\* A step of a request or its watcher.
LEMMA RequestKeeps ==
    ASSUME LsInv, NEW r \in Requests, RequestSteps(r) \/ WatcherActs(r)
    PROVE  LsInv'
<1> USE DEF LsInv
<1>1. UNCHANGED <<campaign, sampling, events, joinLeft>>
    BY DEF RequestSteps, Start, Headers, Line, StreamEnds, Leave, Settle, WatcherActs
<1>2. UNCHANGED <<run, phase, failing, written, monitor, host, low, recent, sampleLeft, cancel, finished, failures, joinLeft>>
    BY <1>1 DEF campaign, sampling, events
<1>3. LsFunctions'
    BY <1>2 DEF LsFunctions, RequestSteps, Start, Headers, Line, StreamEnds, Leave, Settle, WatcherActs
<1>4. req' \in [Requests -> {"idle", "queued", "opening", "reading", "leaving", "ending"} \cup Settled]
    BY DEF LsTypeOK, Settled, RequestSteps, Start, Headers, Line, StreamEnds, Leave, Settle, WatcherActs, Move, Outcome
<1>5. got' \in [Requests -> {"nothing", "part", "all"}]
    BY DEF LsTypeOK, RequestSteps, Start, Headers, Line, StreamEnds, Leave, Settle, WatcherActs
<1>6. watcher' \in [Requests -> {"none", "watching", "ended"}]
    BY DEF LsTypeOK, RequestSteps, Start, Headers, Line, StreamEnds, Leave, Settle, WatcherActs
<1>7. LsTypeOK'
    BY <1>1, <1>3, <1>4, <1>5, <1>6, RequestTypes
<1>8. CutInv'
  <2> USE DEF LsTypeOK, LsFunctions, CutInv, Move
  <2>1. CASE Start(r)
      BY <1>2, <2>1 DEF Start
  <2>2. CASE Headers(r)
      BY <1>2, <2>2 DEF Headers
  <2>3. CASE Line(r)
      BY <1>2, <2>3 DEF Line
  <2>4. CASE StreamEnds(r)
      BY <1>2, <2>4 DEF StreamEnds
  <2>5. CASE Leave(r)
      BY <1>2, <2>5 DEF Leave, WatcherGone
  <2>6. CASE Settle(r)
      BY <1>2, <2>6 DEF Settle, Outcome
  <2>7. CASE WatcherActs(r)
      BY <1>2, <2>7 DEF WatcherActs
  <2> QED
      BY <2>1, <2>2, <2>3, <2>4, <2>5, <2>6, <2>7 DEF RequestSteps
<1>9. ReasonInv' /\ LowInv' /\ JoinInv'
    BY <1>2 DEF ReasonInv, LowInv, RowOfLow, JoinInv, JoinWaited
<1> QED
    BY <1>3, <1>7, <1>8, <1>9

\* A step of the campaign.
LEMMA CampaignKeeps ==
    ASSUME LsInv, Launch \/ PhaseEnds \/ Finish \/ Tick
    PROVE  LsInv'
<1> USE LsAssumption DEF LsInv
<1>1. UNCHANGED <<low, recent, failures, cancel, host>>
    BY DEF Launch, PhaseEnds, Finish, Tick, Close, sampling, events
<1>2. LsFunctions'
    BY <1>1 DEF LsFunctions, Launch, PhaseEnds, Finish, Tick, FreshRequests, requests
<1>3. CutInv'
  <2>1. CASE FreshRequests
      BY <1>1, <2>1 DEF CutInv, FreshRequests
  <2>2. CASE UNCHANGED requests
      BY <1>1, <2>2 DEF CutInv, requests
  <2> QED
      BY <2>1, <2>2 DEF Launch, PhaseEnds, Finish, Tick
<1>4. LowInv'
    BY <1>1 DEF LowInv, RowOfLow
<1>5. /\ req' \in [Requests -> {"idle", "queued", "opening", "reading", "leaving", "ending"} \cup Settled]
      /\ got' \in [Requests -> {"nothing", "part", "all"}]
      /\ watcher' \in [Requests -> {"none", "watching", "ended"}]
  <2>1. CASE FreshRequests
      BY <2>1 DEF FreshRequests
  <2>2. CASE UNCHANGED requests
      BY <2>2 DEF LsTypeOK, requests
  <2> QED
      BY <2>1, <2>2 DEF Launch, PhaseEnds, Finish, Tick
<1>6. ({broke[r] : r \in Requests} \cup {shut[r] : r \in Requests} \subseteq BOOLEAN)'
    BY <1>2 DEF LsFunctions
<1>7. (/\ run \in {"idle", "phase", "joining", "ok", "raised"} /\ phase \in 0 .. Phases
       /\ written \subseteq 1 .. Phases
       /\ monitor \in {"idle", "sampling", "waiting", "recorded", "stopping", "done"}
       /\ sampleLeft \in 0 .. SshTimeout /\ joinLeft \in 0 .. JoinTimeout)'
      /\ ReasonInv' /\ JoinInv'
  <2> USE <1>1 DEF LsTypeOK, ReasonInv, JoinInv, JoinWaited
  <2>1. CASE Launch
      BY <2>1 DEF Launch, events
  <2>2. CASE PhaseEnds
    <3>1. phase \in 1 .. Phases /\ written = 1 .. (phase - 1)
        BY <2>2 DEF PhaseEnds
    <3>2. written \cup {phase} = 1 .. phase
        BY <3>1
    <3>3. UNCHANGED <<monitor, sampleLeft, joinLeft>>
        BY <2>2 DEF PhaseEnds, sampling
    <3>4. CASE \E r \in Requests : req[r] # "row"
        BY <2>2, <3>1, <3>3, <3>4 DEF PhaseEnds, Close
    <3>5. CASE ~\E r \in Requests : req[r] # "row"
      <4>1. written' = 1 .. phase /\ failing' = failing /\ run = "phase"
          BY <2>2, <3>2, <3>5 DEF PhaseEnds
      <4>2. CASE phase = Phases
          BY <2>2, <3>1, <3>3, <3>5, <4>1, <4>2 DEF PhaseEnds, Close
      <4>3. CASE phase # Phases
        <5>1. phase' = phase + 1 /\ UNCHANGED <<run, finished>>
            BY <2>2, <3>5, <4>3 DEF PhaseEnds, events
        <5>2. phase' - 1 = phase /\ phase' \in 1 .. Phases
            BY <3>1, <4>3, <5>1
        <5> QED
            BY <3>1, <3>3, <4>1, <5>1, <5>2
      <4> QED
          BY <4>2, <4>3
    <3> QED
        BY <3>4, <3>5
  <2>3. CASE Finish
    <3>1. UNCHANGED <<phase, failing, written, finished, monitor, sampleLeft, joinLeft>>
        BY <2>3 DEF Finish, sampling, events
    <3>2. run = "joining" /\ ~(joinLeft > 0 /\ monitor # "done")
        BY <2>3 DEF Finish, JoinWaits
    <3>3. failures = "none" => monitor = "done"
        BY <3>2
    <3>4. run' = IF failures # "none" \/ failing THEN "raised" ELSE "ok"
        BY <2>3 DEF Finish
    <3> QED
        BY <3>1, <3>2, <3>3, <3>4
  <2>4. CASE Tick
      BY <2>4, SMTT(30) DEF Tick, JoinWaits, campaign, events
  <2> QED
      BY <2>1, <2>2, <2>3, <2>4
<1>8. ({cancel, finished, failing} \subseteq BOOLEAN)'
    BY <1>1 DEF LsTypeOK, Launch, PhaseEnds, Finish, Tick, Close, events, campaign
<1> QED
    BY <1>1, <1>2, <1>3, <1>4, <1>5, <1>6, <1>7, <1>8 DEF LsTypeOK

\* A sample is put before the others, and the oldest falls off.
LEMMA RecentShifts ==
    ASSUME NEW q \in Seq({"enough", "low"}), Len(q) <= LowLimit, NEW s \in {"enough", "low"}
    PROVE  LET t == SubSeq(<<s>> \o q, 1, IF Len(q) < LowLimit THEN Len(q) + 1 ELSE LowLimit)
           IN /\ t \in Seq({"enough", "low"})
              /\ Len(t) = IF Len(q) < LowLimit THEN Len(q) + 1 ELSE LowLimit
              /\ t[1] = s /\ \A i \in 2 .. Len(t) : t[i] = q[i - 1]
<1> DEFINE n == IF Len(q) < LowLimit THEN Len(q) + 1 ELSE LowLimit
<1> DEFINE p == <<s>> \o q
<1>1. n \in 1 .. Len(q) + 1
    BY LsAssumption
<1>2. p \in Seq({"enough", "low"}) /\ Len(p) = Len(q) + 1 /\ p[1] = s /\ \A i \in 2 .. Len(q) + 1 : p[i] = q[i - 1]
    OBVIOUS
<1> HIDE DEF n, p
<1>3. /\ SubSeq(p, 1, n) \in Seq({"enough", "low"}) /\ Len(SubSeq(p, 1, n)) = n
      /\ \A i \in 1 .. n : SubSeq(p, 1, n)[i] = p[i]
    BY <1>1, <1>2
<1>4. 1 \in 1 .. n /\ \A i \in 2 .. n : i \in 2 .. Len(q) + 1 /\ i \in 1 .. n
    BY <1>1
<1> QED
    BY <1>1, <1>2, <1>3, <1>4 DEF n, p

\* A sample that comes back from a host counts for that host only.
LEMMA SampleCounts ==
    ASSUME LsInv, NEW s \in {"enough", "low"}, Sample(s)
    PROVE  LsInv'
<1> USE LsAssumption, TwoHosts DEF LsInv
<1> DEFINE h == Hosts[host]
<1>1. /\ host \in {1, 2} /\ h \in HostSet /\ monitor = "sampling" /\ failures = "none" /\ low[h] \in 0 .. LowLimit
      /\ \A k \in HostSet : low[k] # LowLimit
    BY DEF LsTypeOK, ReasonInv, LowInv, Sample
<1>2. PICK n : n = Counted(h, s)
    OBVIOUS
<1>3. n \in 0 .. LowLimit /\ (n >= LowLimit <=> n = LowLimit)
    BY <1>1, <1>2 DEF Counted, LsTypeOK
<1>4. PICK t : t = SubSeq(<<s>> \o recent[h], 1, IF Len(recent[h]) < LowLimit THEN Len(recent[h]) + 1 ELSE LowLimit)
    OBVIOUS
<1>5. recent[h] \in Seq({"enough", "low"}) /\ Len(recent[h]) <= LowLimit
    BY <1>1 DEF LsFunctions
<1>6. /\ t \in Seq({"enough", "low"}) /\ Len(t) <= LowLimit /\ Len(t) >= 1
      /\ Len(t) = IF Len(recent[h]) < LowLimit THEN Len(recent[h]) + 1 ELSE LowLimit
      /\ t[1] = s /\ \A i \in 2 .. Len(t) : t[i] = recent[h][i - 1]
    BY <1>4, <1>5, RecentShifts
<1>7. /\ low' = [low EXCEPT ![h] = n] /\ recent' = [recent EXCEPT ![h] = t] /\ sampleLeft' = SshTimeout
      /\ UNCHANGED <<requests, campaign, joinLeft>>
      /\ IF n >= LowLimit THEN Fails("memory") ELSE NextHost
    BY <1>2, <1>4 DEF Sample
<1>8. UNCHANGED <<req, got, broke, shut, watcher, run, phase, failing, written, cancel, finished>>
    BY <1>7 DEF requests, campaign, Fails, NextHost, events
<1> HIDE DEF h
<1>9. /\ low' \in [HostSet -> 0 .. LowLimit] /\ low'[h] = n /\ \A k \in HostSet \ {h} : low'[k] = low[k]
      /\ recent'[h] = t /\ \A k \in HostSet \ {h} : recent'[k] = recent[k]
    BY <1>1, <1>3, <1>7 DEF LsTypeOK, LsFunctions
<1>10. LsFunctions'
    BY <1>6, <1>7, <1>8, <1>9 DEF LsFunctions
<1>11. \A k \in HostSet : RowOfLow(k)'
  <2>1. \A k \in HostSet \ {h} : RowOfLow(k)'
      BY <1>9, SMTT(30) DEF RowOfLow, LowInv
  <2>2. CASE s = "enough"
    <3>1. n = 0
        BY <1>2, <2>2 DEF Counted, h
    <3> QED
        BY <1>6, <1>9, <2>1, <2>2, <3>1 DEF RowOfLow
  <2>3. CASE s = "low"
    <3>1. n = low[h] + 1
        BY <1>2, <2>3 DEF Counted, h
    <3>2. /\ low[h] <= Len(recent[h]) /\ \A i \in 1 .. low[h] : recent[h][i] = "low"
          /\ low[h] < Len(recent[h]) => recent[h][low[h] + 1] # "low"
        BY <1>1 DEF LowInv, RowOfLow
    <3>3. n <= Len(t)
        BY <1>1, <1>3, <1>5, <1>6, <3>1, <3>2
    <3>4. \A i \in 1 .. n : t[i] = "low"
      <4> TAKE i \in 1 .. n
      <4>1. i = 1 \/ (i \in 2 .. Len(t) /\ i - 1 \in 1 .. low[h])
          BY <1>1, <1>6, <3>1, <3>3, SMTT(30)
      <4> QED
          BY <1>6, <2>3, <3>2, <4>1
    <3>5. ASSUME n < Len(t)
          PROVE  t[n + 1] # "low"
      <4>1. n \in Nat /\ Len(t) \in Nat /\ Len(recent[h]) \in Nat /\ Len(t) <= Len(recent[h]) + 1
          BY <1>1, <1>5, <1>6, <3>1, SMTT(30)
      <4>2. n + 1 \in 2 .. Len(t) /\ (n + 1) - 1 = low[h] + 1 /\ low[h] < Len(recent[h])
          BY <1>1, <3>1, <3>5, <4>1
      <4>3. t[n + 1] = recent[h][low[h] + 1]
          BY <1>6, <4>2
      <4> QED
          BY <3>2, <4>2, <4>3
    <3> QED
        BY <1>9, <2>1, <3>3, <3>4, <3>5 DEF RowOfLow
  <2> QED
      BY <2>2, <2>3
<1>12. LowInv' /\ failures' \in {"none", "memory"} /\ (failures' = "memory" <=> n = LowLimit)
    BY <1>1, <1>3, <1>7, <1>9, <1>11 DEF LowInv, Fails, NextHost, events
<1>13. /\ monitor' \in {"sampling", "waiting", "recorded"} /\ host' \in {1, 2}
       /\ monitor' = "recorded" <=> failures' # "none"
       /\ monitor' = "sampling" => host = 1 /\ host' = 2
       /\ monitor' = "waiting" => host = 2
    BY <1>1, <1>3, <1>7 DEF Fails, NextHost, events
<1>14. LsTypeOK'
    BY <1>8, <1>9, <1>7, <1>12, <1>13 DEF LsTypeOK
<1>15. CutInv' /\ ReasonInv'
    BY <1>1, <1>8, <1>13 DEF CutInv, ReasonInv
<1>16. JoinInv'
    BY <1>1, <1>7, <1>8, <1>13 DEF JoinInv, JoinWaited, LsTypeOK
<1> QED
    BY <1>10, <1>12, <1>14, <1>15, <1>16

\* The other steps of the monitor.
LEMMA MonitorKeeps ==
    ASSUME LsInv, MonitorSteps
    PROVE  LsInv'
<1> USE LsAssumption, TwoHosts DEF LsInv
<1>1. ASSUME NEW s \in {"enough", "low"}, Sample(s)
      PROVE  LsInv'
    BY <1>1, SampleCounts
<1>2. CASE (\E s \in {"link", "error"} : Sample(s)) \/ SampleAgain \/ SetCancel \/ Stopped
  <2>1. UNCHANGED <<req, got, broke, shut, watcher, run, phase, failing, written, finished, joinLeft, low, recent>>
      BY <1>2 DEF Sample, Fails, SampleAgain, SetCancel, Stopped, requests, campaign, events
  <2>2. LsFunctions' /\ (\A h \in HostSet : RowOfLow(h))'
      BY <2>1 DEF LsFunctions, RowOfLow, LowInv
  <2>3. CASE \E s \in {"link", "error"} : Sample(s)
    <3>1. /\ monitor = "sampling" /\ monitor' = "recorded" /\ failures' \in {"link", "error"}
          /\ UNCHANGED <<host, cancel>> /\ sampleLeft' = SshTimeout
        BY <2>3 DEF Sample, Fails
    <3> QED
        BY <2>1, <2>2, <3>1 DEF LsTypeOK, CutInv, ReasonInv, LowInv, JoinInv, JoinWaited
  <2>4. CASE SampleAgain
    <3>1. /\ monitor = "waiting" /\ UNCHANGED <<failures, cancel, sampleLeft>>
          /\ \/ finished /\ monitor' = "done" /\ host' = host
             \/ ~finished /\ monitor' = "sampling" /\ host' = 1
        BY <2>4 DEF SampleAgain, events
    <3> QED
        BY <2>1, <2>2, <3>1 DEF LsTypeOK, CutInv, ReasonInv, LowInv, JoinInv, JoinWaited
  <2>5. CASE SetCancel \/ Stopped
    <3>1. /\ monitor \in {"recorded", "stopping"} /\ monitor' \in {"stopping", "done"}
          /\ UNCHANGED <<failures, host, sampleLeft>> /\ (cancel' = cancel \/ cancel' = TRUE)
        BY <2>5 DEF SetCancel, Stopped, events
    <3>2. cancel' \in BOOLEAN /\ (cancel => cancel')
      <4>1. cancel \in BOOLEAN
          BY DEF LsTypeOK
      <4>2. CASE cancel' = TRUE
          BY <4>2
      <4>3. CASE cancel' = cancel
          BY <4>1, <4>3, Zenon
      <4> QED
          BY <3>1, <4>2, <4>3
    <3>3. LsTypeOK'
        BY <2>1, <3>1, <3>2 DEF LsTypeOK
    <3> QED
        BY <2>1, <2>2, <3>1, <3>2, <3>3 DEF LsTypeOK, CutInv, ReasonInv, LowInv, JoinInv, JoinWaited
  <2> QED
      BY <1>2, <2>3, <2>4, <2>5
<1> QED
    BY <1>1, <1>2 DEF MonitorSteps

LEMMA LsStep == LsInv /\ [LsNext]_lsVars => LsInv'
<1> SUFFICES ASSUME LsInv, [LsNext]_lsVars
             PROVE  LsInv'
    OBVIOUS
<1>1. CASE UNCHANGED lsVars
  <2>1. UNCHANGED <<req, got, broke, shut, watcher, run, phase, failing, written, monitor, host, low, recent,
                    sampleLeft, cancel, finished, failures, joinLeft>>
      BY <1>1 DEF lsVars, requests, campaign, sampling, events
  <2> QED
      BY <2>1 DEF LsInv, LsTypeOK, LsFunctions, CutInv, ReasonInv, LowInv, RowOfLow, JoinInv, JoinWaited
<1> QED
    BY <1>1, CampaignKeeps, MonitorKeeps, RequestKeeps DEF LsNext

\* What LsInv says of a campaign's report.
LEMMA SuiteFollows == LsInv => SuiteSafe
<1> SUFFICES ASSUME LsInv
             PROVE  SuiteSafe
    OBVIOUS
<1> USE LsAssumption DEF LsInv
<1>1. CutIsNoRow
    BY DEF CutInv, ReasonInv, CutIsNoRow
<1>2. NoStrayWatcher
    BY DEF CutInv, NoStrayWatcher, Settled
<1>3. OkIsClean
    BY DEF JoinInv, OkIsClean
<1>4. \A h \in HostSet : recent[h] = [i \in 1 .. LowLimit |-> "low"] <=> low[h] = LowLimit
  <2> TAKE h \in HostSet
  <2>1. /\ RowOfLow(h) /\ low[h] \in 0 .. LowLimit /\ recent[h] \in Seq({"enough", "low"})
        /\ Len(recent[h]) <= LowLimit
      BY DEF LowInv, LsTypeOK, LsFunctions
  <2>2. ASSUME recent[h] = [i \in 1 .. LowLimit |-> "low"]
        PROVE  low[h] = LowLimit
    <3>1. Len(recent[h]) = LowLimit
        BY <2>1, <2>2
    <3>2. \A i \in 1 .. LowLimit : recent[h][i] = "low"
        BY <2>2
    <3> QED
        BY <2>1, <3>1, <3>2 DEF RowOfLow
  <2>3. ASSUME low[h] = LowLimit
        PROVE  recent[h] = [i \in 1 .. LowLimit |-> "low"]
    <3>1. Len(recent[h]) = LowLimit /\ \A i \in 1 .. LowLimit : recent[h][i] = "low"
        BY <2>1, <2>3 DEF RowOfLow
    <3> QED
        BY <2>1, <3>1
  <2> QED
      BY <2>2, <2>3
<1>5. ThreeInARow
    BY <1>4 DEF LowInv, ThreeInARow
<1> QED
    BY <1>1, <1>2, <1>3, <1>5 DEF SuiteSafe

\* A report holds no request that was cut off, a watcher acts on its own response only, a
\* campaign that returns had a monitor that ended without a complaint, and memory ends it
\* for low samples in a row of one host and only for them, for any requests, phases and
\* limits (long_sessions.py, run and monitor).
THEOREM SuiteIsSafe == LsSpec => []SuiteSafe
<1> QED
    BY LsStarts, LsStep, SuiteFollows, PTL DEF LsSpec
-----------------------------------------------------------------------------
(* EngineStart.  The views of a DeepSeek rank are at every moment exactly what   *)
(* its loops have linked, because the entrypoint begins by removing what an      *)
(* earlier attempt left; the checks on the way say what the links lead to.       *)

\* What StartTypeOK leaves open.
StartFunctions ==
    /\ served \in EnginesServed /\ config \in Configs
    /\ weights \in [{0, 1} -> {"locked", "other"}]
    /\ hub \in [{0, 1} -> [Shards -> {"missing", "locked", "other"}]]
    /\ linksLeft = [r \in {0, 1} |-> linksLeft[r]] /\ views = [r \in {0, 1} |-> views[r]]

BiasLink == Link("vision", Bias, "locked")
IndexLink == Link("engram", Index, "site")

\* What the loops before a stage have linked.
LinkedBefore(s) ==
    CASE s = "kit" -> ModelLinks
      [] s = "bias" -> ModelLinks \cup KitLinks
      [] s = "engram" -> ModelLinks \cup KitLinks \cup {BiasLink}
      [] s \in {"command", "running"} -> ModelLinks \cup KitLinks \cup {BiasLink} \cup EngramLinks \cup {IndexLink}
      [] OTHER -> {}

\* The names under /tmp/dsv41 are links to one place each.
OneEach(links) == \A l, m \in links : l.at = m.at => l = m
ViewsInv(r) ==
    /\ served # "deepseek" => stage[r] \in {"down", "command", "running", "failed"} /\ views[r] = {}
    /\ served = "deepseek" /\ stage[r] \notin {"down", "failed"} =>
          views[r] = LinkedBefore(stage[r]) \cup (LinksOf(stage[r]) \ linksLeft[r])
    /\ OneEach(views[r]) /\ linksLeft[r] \subseteq LinksOf(stage[r])

\* What has been looked at holds: nothing that is locked is staged again.
CheckedInv(r) ==
    /\ served = "deepseek" =>
          /\ stage[r] \in {"engram", "command", "running"} => weights[r] = "locked"
          /\ stage[r] = "engram" =>
                \A s \in Shards : Link("engram", s, "snapshot") \notin linksLeft[r] => hub[r][s] = "locked"
          /\ stage[r] \in {"command", "running"} => \A s \in Shards : hub[r][s] = "locked"
    /\ stage[r] = "running" => EnvAccepted(r) /\ (served = "deepseek" => RdmaAccepted)

StartInv ==
    /\ StartFunctions /\ stage \in [{0, 1} -> Stages] /\ kills \in 0 .. MaxKills
    /\ \A r \in {0, 1} : ViewsInv(r) /\ CheckedInv(r)

\* No two links an attempt makes have a name in common, and the bias and the index have
\* names of their own.
AllLinks == ModelLinks \cup KitLinks \cup {BiasLink} \cup EngramLinks \cup {IndexLink}
LEMMA LinkFields == \A view, name, to : Link(view, name, to).at = <<view, name>> /\ Link(view, name, to).to = to
    BY DEF Link

LEMMA LinksOneEach == OneEach(AllLinks)
<1> SUFFICES ASSUME NEW l \in AllLinks, NEW m \in AllLinks, l.at = m.at
             PROVE  l = m
    BY DEF OneEach
<1>1. ASSUME NEW k \in AllLinks
      PROVE  \E view, name : k = Link(view, name, IF <<view, name>> \in {<<"model", Template>>, <<"engram", Index>>} THEN "site"
                 ELSE IF <<view, name>> = <<"vision", Bias>> THEN "locked" ELSE "snapshot")
  <2>1. CASE k \in ModelLinks
      BY <2>1 DEF ModelLinks
  <2>2. CASE k \in KitLinks
      BY <2>2 DEF KitLinks
  <2>3. CASE k \in EngramLinks
      BY <2>3, StartAssumption DEF EngramLinks
  <2>4. CASE k = BiasLink
      BY <2>4 DEF BiasLink
  <2>5. CASE k = IndexLink
      BY <2>5 DEF IndexLink
  <2> QED
      BY <1>1, <2>1, <2>2, <2>3, <2>4, <2>5 DEF AllLinks
<1>2. PICK v1, n1 : l = Link(v1, n1, IF <<v1, n1>> \in {<<"model", Template>>, <<"engram", Index>>} THEN "site"
                 ELSE IF <<v1, n1>> = <<"vision", Bias>> THEN "locked" ELSE "snapshot")
    BY <1>1
<1>3. PICK v2, n2 : m = Link(v2, n2, IF <<v2, n2>> \in {<<"model", Template>>, <<"engram", Index>>} THEN "site"
                 ELSE IF <<v2, n2>> = <<"vision", Bias>> THEN "locked" ELSE "snapshot")
    BY <1>1
<1>4. <<v1, n1>> = <<v2, n2>>
    BY <1>2, <1>3, LinkFields
<1>5. v1 = v2 /\ n1 = n2
    BY <1>4
<1> QED
    BY <1>2, <1>3, <1>5

\* A subset of what has one link per name has one, too.
LEMMA FewerOneEach == ASSUME NEW S, NEW T, S \subseteq T, OneEach(T) PROVE OneEach(S)
    BY DEF OneEach

\* What was accepted stays accepted: the settings of a launch do not change.
LEMMA SettingsStand ==
    ASSUME UNCHANGED given, NEW r
    PROVE  /\ EnvAccepted(r)' <=> EnvAccepted(r)
           /\ RdmaAccepted' <=> RdmaAccepted
<1>1. UNCHANGED <<served, config, skip, rdma>>
    BY DEF given
<1>2. Carried' = Carried
    BY <1>1 DEF Carried
<1>3. \A s : Value(s)' = Value(s)
    BY <1>1 DEF Value
<1>4. EngineEnv' = EngineEnv
    BY <1>2, <1>3 DEF EngineEnv
<1>5. Needed(r)' = Needed(r) /\ RefusedVariables' = RefusedVariables
    BY <1>1 DEF Needed, RefusedVariables
<1>6. EnvAccepted(r)' <=> EnvAccepted(r)
    BY <1>4, <1>5 DEF EnvAccepted
<1>7. Hca' = Hca
    BY <1>1 DEF Hca
<1>8. RdmaAccepted' <=> RdmaAccepted
    BY <1>7 DEF RdmaAccepted
<1> QED
    BY <1>6, <1>8

\* A rank nothing was done to is as it was, whatever is staged for it.
LEMMA RankStands ==
    ASSUME NEW q \in {0, 1}, ViewsInv(q), CheckedInv(q), UNCHANGED given,
           stage'[q] = stage[q], linksLeft'[q] = linksLeft[q], views'[q] = views[q],
           \A s \in Shards : hub[q][s] = "locked" => hub'[q][s] = "locked"
    PROVE  (ViewsInv(q) /\ CheckedInv(q))'
<1>1. UNCHANGED <<served, config, skip, rdma, weights>>
    BY DEF given
<1>2. ViewsInv(q)'
    BY <1>1 DEF ViewsInv
<1>3. (EnvAccepted(q)' <=> EnvAccepted(q)) /\ (RdmaAccepted' <=> RdmaAccepted)
    BY SettingsStand
<1>4. CheckedInv(q)'
    BY <1>1, <1>3 DEF CheckedInv
<1> QED
    BY <1>2, <1>4

LEMMA StartStarts == StartInit => StartInv
<1> SUFFICES ASSUME StartInit
             PROVE  StartInv
    OBVIOUS
<1>1. StartFunctions /\ stage \in [{0, 1} -> Stages] /\ kills \in 0 .. MaxKills
    BY StartAssumption DEF StartInit, StartFunctions, Stages
<1>2. ASSUME NEW r \in {0, 1}
      PROVE  ViewsInv(r) /\ CheckedInv(r)
    BY <1>2 DEF StartInit, ViewsInv, CheckedInv, OneEach
<1> QED
    BY <1>1, <1>2 DEF StartInv

\* One rank goes to a stage with links left to make and links made.
LEMMA OneRankMoves ==
    ASSUME StartInv, NEW r \in {0, 1}, NEW s \in Stages, NEW unlinked, NEW made,
           UNCHANGED <<given, hub>>, kills' \in 0 .. MaxKills,
           stage' = [stage EXCEPT ![r] = s], linksLeft' = [linksLeft EXCEPT ![r] = unlinked],
           views' = [views EXCEPT ![r] = made],
           served # "deepseek" => s \in {"down", "command", "running", "failed"} /\ made = {},
           served = "deepseek" /\ s \notin {"down", "failed"} => made = LinkedBefore(s) \cup (LinksOf(s) \ unlinked),
           OneEach(made), unlinked \subseteq LinksOf(s),
           served = "deepseek" =>
              /\ s \in {"engram", "command", "running"} => weights[r] = "locked"
              /\ s = "engram" => \A f \in Shards : Link("engram", f, "snapshot") \notin unlinked => hub[r][f] = "locked"
              /\ s \in {"command", "running"} => \A f \in Shards : hub[r][f] = "locked",
           s = "running" => EnvAccepted(r) /\ (served = "deepseek" => RdmaAccepted)
    PROVE  StartInv'
<1> USE DEF StartInv
<1>1. UNCHANGED <<served, config, skip, rdma, weights, hub>>
    BY DEF given
<1>2. /\ stage'[r] = s /\ linksLeft'[r] = unlinked /\ views'[r] = made
      /\ \A q \in {0, 1} \ {r} : stage'[q] = stage[q] /\ linksLeft'[q] = linksLeft[q] /\ views'[q] = views[q]
    BY DEF StartFunctions
<1>3. StartFunctions' /\ stage' \in [{0, 1} -> Stages]
    BY <1>1 DEF StartFunctions
<1>4. \A q \in {0, 1} \ {r} : (ViewsInv(q) /\ CheckedInv(q))'
    BY <1>1, <1>2, RankStands
<1>5. ViewsInv(r)'
    BY <1>1, <1>2 DEF ViewsInv
<1>6. (EnvAccepted(r)' <=> EnvAccepted(r)) /\ (RdmaAccepted' <=> RdmaAccepted)
    BY SettingsStand
<1>7. CheckedInv(r)'
    BY <1>1, <1>2, <1>6 DEF CheckedInv
<1> QED
    BY <1>3, <1>4, <1>5, <1>7

\* The entrypoint begins.
LEMMA BeginKeeps ==
    ASSUME StartInv, NEW r \in {0, 1}, BeginStart(r)
    PROVE  StartInv'
<1>1. /\ stage[r] = "down" /\ UNCHANGED <<given, hub, kills>> /\ kills' \in 0 .. MaxKills
      /\ ViewsInv(r) /\ views = [q \in {0, 1} |-> views[q]]
    BY DEF BeginStart, StartInv, StartFunctions
<1>2. views = [views EXCEPT ![r] = views[r]]
    BY <1>1
<1>3. OneEach({}) /\ LinksOf("command") = {} /\ LinksOf("failed") = {} /\ LinkedBefore("model") = {}
    BY DEF OneEach, LinksOf, LinkedBefore
<1>4. CASE Exits(r) /\ UNCHANGED views
    BY <1>1, <1>2, <1>3, <1>4, OneRankMoves DEF Exits, Goto, ViewsInv, Stages
<1>5. CASE served = "deepseek" /\ Goto(r, "model") /\ views' = Removed(r)
    BY <1>1, <1>3, <1>5, OneRankMoves DEF Goto, Removed, Stages
<1>6. CASE served # "deepseek" /\ Goto(r, "command") /\ UNCHANGED views
    BY <1>1, <1>2, <1>3, <1>6, OneRankMoves DEF Goto, ViewsInv, Stages
<1> QED
    BY <1>4, <1>5, <1>6 DEF BeginStart

\* One link is made.
LEMMA LinkKeeps ==
    ASSUME StartInv, NEW r \in {0, 1}, LinkOne(r)
    PROVE  StartInv'
<1>1. /\ UNCHANGED <<given, hub, kills>> /\ kills' \in 0 .. MaxKills /\ stage[r] \in Stages
      /\ ViewsInv(r) /\ CheckedInv(r) /\ StartFunctions /\ linksLeft[r] # {}
    BY DEF LinkOne, StartInv
<1>2. views = [views EXCEPT ![r] = views[r]] /\ stage = [stage EXCEPT ![r] = stage[r]]
    BY <1>1 DEF StartFunctions, StartInv
<1>3. stage[r] \in {"model", "kit", "engram"} /\ served = "deepseek"
    BY <1>1 DEF ViewsInv, LinksOf
<1>4. CASE Exits(r) /\ UNCHANGED views
  <2>1. OneEach(views[r]) /\ LinksOf("failed") = {}
      BY <1>1 DEF ViewsInv, LinksOf
  <2> QED
      BY <1>1, <1>2, <1>3, <1>4, <2>1, OneRankMoves DEF Exits, Goto, Stages
<1>5. ASSUME NEW l \in linksLeft[r],
             ~(\E old \in views[r] : old.at = l.at), ~(stage[r] = "engram" /\ ~ShardOk(r, l.at[2])),
             views' = [views EXCEPT ![r] = @ \cup {l}], linksLeft' = [linksLeft EXCEPT ![r] = @ \ {l}],
             UNCHANGED stage
      PROVE  StartInv'
  <2>1. PICK made : made = views[r] \cup {l}
      OBVIOUS
  <2>2. PICK unlinked : unlinked = linksLeft[r] \ {l}
      OBVIOUS
  <2>3. views' = [views EXCEPT ![r] = made] /\ linksLeft' = [linksLeft EXCEPT ![r] = unlinked] /\ stage' = [stage EXCEPT ![r] = stage[r]]
      BY <1>1, <1>2, <1>5, <2>1, <2>2 DEF StartFunctions
  <2>4. OneEach(made)
      BY <1>1, <1>5, <2>1 DEF OneEach, ViewsInv
  <2>5. l \in LinksOf(stage[r]) /\ unlinked \subseteq LinksOf(stage[r])
      BY <1>1, <2>2 DEF ViewsInv
  <2>6. made = LinkedBefore(stage[r]) \cup (LinksOf(stage[r]) \ unlinked)
      BY <1>1, <1>3, <2>1, <2>2, <2>5 DEF ViewsInv
  <2>7. ASSUME stage[r] = "engram", NEW f \in Shards, Link("engram", f, "snapshot") \notin unlinked
        PROVE  hub[r][f] = "locked"
    <3>1. CASE Link("engram", f, "snapshot") = l
      <4>1. l.at[2] = f
          BY <3>1, LinkFields
      <4> QED
          BY <1>5, <2>7, <4>1 DEF ShardOk
    <3>2. CASE Link("engram", f, "snapshot") # l
        BY <1>1, <1>3, <2>2, <2>7, <3>2 DEF CheckedInv
    <3> QED
        BY <3>1, <3>2
  <2>8. stage[r] = "engram" => weights[r] = "locked"
      BY <1>1, <1>3 DEF CheckedInv
  <2> QED
      BY <1>1, <1>3, <2>3, <2>4, <2>5, <2>6, <2>7, <2>8, OneRankMoves
<1> QED
    BY <1>4, <1>5 DEF LinkOne

\* A loop has made all of its links.
LEMMA LoopKeeps ==
    ASSUME StartInv, NEW r \in {0, 1}, EndLoop(r)
    PROVE  StartInv'
<1>1. /\ UNCHANGED <<given, hub, kills>> /\ kills' \in 0 .. MaxKills /\ linksLeft[r] = {}
      /\ ViewsInv(r) /\ CheckedInv(r) /\ StartFunctions /\ stage[r] \in {"model", "kit", "engram"}
    BY DEF EndLoop, StartInv
<1>2. served = "deepseek" /\ views = [views EXCEPT ![r] = views[r]]
    BY <1>1 DEF ViewsInv, StartFunctions
<1>3. views[r] = LinkedBefore(stage[r]) \cup LinksOf(stage[r])
    BY <1>1, <1>2 DEF ViewsInv
<1>4. Goto(r, After(stage[r]))
    BY DEF EndLoop
<1>5. CASE stage[r] \in {"model", "kit"}
  <2>1. PICK s : s = After(stage[r])
      OBVIOUS
  <2>2. s \in {"kit", "bias"} /\ s \in Stages
      BY <1>5, <2>1 DEF After, Stages
  <2>3. views[r] = LinkedBefore(s) /\ UNCHANGED views
      BY <1>3, <1>5, <2>1 DEF LinkedBefore, LinksOf, After, EndLoop
  <2>4. OneEach(views[r]) /\ views' = [views EXCEPT ![r] = views[r]]
      BY <1>1, <1>2, <2>3 DEF ViewsInv
  <2>5. views[r] = LinkedBefore(s) \cup (LinksOf(s) \ LinksOf(s))
      BY <2>3
  <2> QED
      BY <1>1, <1>2, <1>4, <2>1, <2>2, <2>4, <2>5, OneRankMoves DEF Goto
<1>6. CASE stage[r] = "engram"
  <2>1. After("engram") = "command" /\ LinksOf("command") = {}
      BY DEF After, LinksOf
  <2>2. PICK made : made = views[r] \cup {IndexLink}
      OBVIOUS
  <2>3. views' = [views EXCEPT ![r] = made]
      BY <1>1, <1>6, <2>2 DEF EndLoop, IndexLink, StartFunctions
  <2>4. made = AllLinks /\ made = LinkedBefore("command")
      BY <1>3, <1>6, <2>2 DEF AllLinks, LinkedBefore, LinksOf
  <2>5. OneEach(made)
      BY <2>4, LinksOneEach
  <2>6. weights[r] = "locked" /\ \A f \in Shards : hub[r][f] = "locked"
      BY <1>1, <1>2, <1>6 DEF CheckedInv
  <2> QED
      BY <1>1, <1>2, <1>4, <1>6, <2>1, <2>3, <2>4, <2>5, <2>6, OneRankMoves DEF Goto, Stages
<1> QED
    BY <1>1, <1>5, <1>6

\* The routing bias takes the place of what was there, and goes on when it is the lock's.
LEMMA BiasKeeps ==
    ASSUME StartInv, NEW r \in {0, 1}, MakeBias(r)
    PROVE  StartInv'
<1>1. /\ UNCHANGED <<given, hub, kills>> /\ kills' \in 0 .. MaxKills
      /\ ViewsInv(r) /\ StartFunctions /\ stage[r] = "bias" /\ weights[r] \in {"locked", "other"}
    BY DEF MakeBias, StartInv, StartFunctions
<1>2. served = "deepseek" /\ views[r] = ModelLinks \cup KitLinks
    BY <1>1 DEF ViewsInv, LinkedBefore, LinksOf
<1>3. \A l \in views[r] : l.at # <<"vision", Bias>>
    BY <1>2, LinkFields DEF ModelLinks, KitLinks
<1>4. PICK made : made = {l \in views[r] : l.at # <<"vision", Bias>>} \cup {Link("vision", Bias, weights[r])}
    OBVIOUS
<1>5. views' = [views EXCEPT ![r] = made]
    BY <1>1, <1>4 DEF MakeBias, StartFunctions
<1>6. OneEach(made)
    BY <1>1, <1>4, LinkFields DEF OneEach, ViewsInv
<1>7. CASE BiasOk(r)
  <2>1. weights[r] = "locked"
      BY <1>7 DEF BiasOk
  <2>2. made = LinkedBefore("engram")
      BY <1>2, <1>3, <1>4, <2>1 DEF LinkedBefore, BiasLink
  <2>3. Goto(r, "engram")
      BY <1>7 DEF MakeBias, After
  <2>4. made = LinkedBefore("engram") \cup (LinksOf("engram") \ LinksOf("engram"))
      BY <2>2
  <2>5. \A f \in Shards : Link("engram", f, "snapshot") \in LinksOf("engram")
      BY DEF LinksOf, EngramLinks
  <2> QED
      BY <1>1, <1>2, <1>5, <1>6, <2>1, <2>3, <2>4, <2>5, OneRankMoves DEF Goto, Stages
<1>8. CASE ~BiasOk(r)
  <2>1. Exits(r) /\ LinksOf("failed") = {}
      BY <1>8 DEF MakeBias, LinksOf
  <2> QED
      BY <1>1, <1>2, <1>5, <1>6, <2>1, OneRankMoves DEF Exits, Goto, Stages
<1> QED
    BY <1>7, <1>8

\* The engine is executed when its command can be made.
LEMMA ExecKeeps ==
    ASSUME StartInv, NEW r \in {0, 1}, Exec(r)
    PROVE  StartInv'
<1>1. /\ UNCHANGED <<given, hub, kills, views>> /\ kills' \in 0 .. MaxKills
      /\ ViewsInv(r) /\ CheckedInv(r) /\ StartFunctions /\ stage[r] = "command"
    BY DEF Exec, StartInv
<1>2. views' = [views EXCEPT ![r] = views[r]] /\ LinksOf("running") = {} /\ LinksOf("failed") = {} /\ LinksOf("command") = {}
    BY <1>1 DEF StartFunctions, LinksOf
<1>3. OneEach(views[r]) /\ (served # "deepseek" => views[r] = {})
    BY <1>1 DEF ViewsInv
<1>4. CASE CommandOk(r)
  <2>1. Goto(r, "running") /\ EnvAccepted(r) /\ (served = "deepseek" => RdmaAccepted)
      BY <1>4 DEF Exec, CommandOk
  <2>2. served = "deepseek" => /\ views[r] = LinkedBefore("running") \cup (LinksOf("running") \ {})
                               /\ weights[r] = "locked" /\ \A f \in Shards : hub[r][f] = "locked"
      BY <1>1, <1>2 DEF ViewsInv, CheckedInv, LinkedBefore
  <2> QED
      BY <1>1, <1>2, <1>3, <2>1, <2>2, OneRankMoves, ZenonT(30) DEF Goto, Stages
<1>5. CASE ~CommandOk(r)
  <2>1. Goto(r, "failed")
      BY <1>5 DEF Exec
  <2> QED
      BY <1>1, <1>2, <1>3, <2>1, OneRankMoves, ZenonT(30) DEF Goto, Stages
<1> QED
    BY <1>4, <1>5

\* What the operator stages, and starts again.
LEMMA OperatorKeeps ==
    ASSUME StartInv, NEW r \in {0, 1}, StageShard(r) \/ StageInputs(r) \/ Relaunch(r) \/ ContainerKilled(r)
    PROVE  StartInv'
<1>1. StartFunctions /\ stage \in [{0, 1} -> Stages] /\ ViewsInv(r) /\ kills \in 0 .. MaxKills
    BY DEF StartInv
<1>2. CASE StageShard(r) \/ StageInputs(r)
  <2>1. UNCHANGED <<given, stage, linksLeft, views, kills>>
      BY <1>2 DEF StageShard, StageInputs
  <2>2. /\ hub' \in [{0, 1} -> [Shards -> {"missing", "locked", "other"}]]
        /\ \A q \in {0, 1}, s \in Shards : hub[q][s] = "locked" => hub'[q][s] = "locked"
      BY <1>1, <1>2 DEF StageShard, StageInputs, StartFunctions
  <2>3. StartFunctions'
      BY <1>1, <2>1, <2>2 DEF StartFunctions, given
  <2>4. \A q \in {0, 1} : (ViewsInv(q) /\ CheckedInv(q))'
      BY <2>1, <2>2, RankStands DEF StartInv
  <2> QED
      BY <1>1, <2>1, <2>3, <2>4 DEF StartInv
<1>3. LinksOf("down") = {} /\ OneEach(views[r]) /\ OneEach({}) /\ views = [views EXCEPT ![r] = views[r]]
    BY <1>1 DEF LinksOf, ViewsInv, OneEach, StartFunctions
<1>4. CASE Relaunch(r)
  <2>1. served # "deepseek" => views[r] = {}
      BY <1>1 DEF ViewsInv
  <2> QED
      BY <1>1, <1>3, <1>4, <2>1, OneRankMoves DEF Relaunch, Goto, Stages
<1>5. CASE ContainerKilled(r)
  <2>1. PICK kept \in {views[r], {}} : views' = [views EXCEPT ![r] = kept]
      BY <1>5 DEF ContainerKilled
  <2>2. kills' \in 0 .. MaxKills
      BY <1>1, <1>5, StartAssumption DEF ContainerKilled
  <2>3. OneEach(kept) /\ (served # "deepseek" => kept = {})
      BY <1>1, <1>3, <2>1 DEF ViewsInv
  <2> QED
      BY <1>1, <1>3, <1>5, <2>1, <2>2, <2>3, OneRankMoves DEF ContainerKilled, Goto, Stages
<1> QED
    BY <1>2, <1>4, <1>5

LEMMA StartStep == StartInv /\ [StartNext]_startVars => StartInv'
<1> SUFFICES ASSUME StartInv, [StartNext]_startVars
             PROVE  StartInv'
    OBVIOUS
<1>1. ASSUME NEW r \in Ranks, Entrypoint(r) \/ StageShard(r) \/ StageInputs(r) \/ Relaunch(r) \/ ContainerKilled(r)
      PROVE  StartInv'
  <2>1. r \in {0, 1}
      BY DEF Ranks
  <2> QED
      BY <1>1, <2>1, BeginKeeps, LinkKeeps, LoopKeeps, BiasKeeps, ExecKeeps, OperatorKeeps DEF Entrypoint
<1>2. CASE UNCHANGED startVars
  <2>1. UNCHANGED <<given, hub, stage, linksLeft, views, kills>>
      BY <1>2 DEF startVars, given
  <2>2. \A q \in {0, 1} : (ViewsInv(q) /\ CheckedInv(q))'
      BY <2>1, RankStands DEF StartInv
  <2> QED
      BY <2>1, <2>2 DEF StartInv, StartFunctions, given
<1> QED
    BY <1>1, <1>2 DEF StartNext

\* The views of a DeepSeek rank that runs.
LEMMA ViewsFollow == StartInv => ViewsAreLocked
<1> SUFFICES ASSUME StartInv, NEW r \in Ranks, served = "deepseek", stage[r] = "running"
             PROVE  /\ weights[r] = "locked" /\ \A s \in Shards : hub[r][s] = "locked"
                    /\ {l.at : l \in views[r]} =
                          ({"model"} \X Weights) \cup ({"kit"} \X KitFiles) \cup ({"vision"} \X VisionFiles)
                          \cup ({"engram"} \X (Shards \cup {Index}))
                    /\ \A l \in views[r] : l.to # "snapshot" <=> l.at \in {<<"model", Template>>, <<"vision", Bias>>, <<"engram", Index>>}
    BY DEF ViewsAreLocked
<1>1. r \in {0, 1} /\ ViewsInv(r) /\ CheckedInv(r)
    BY DEF Ranks, StartInv
<1>2. weights[r] = "locked" /\ \A s \in Shards : hub[r][s] = "locked"
    BY <1>1 DEF CheckedInv
<1>3. views[r] = AllLinks
    BY <1>1 DEF ViewsInv, LinksOf, LinkedBefore, AllLinks
<1>4. {l.at : l \in ModelLinks} = {"model"} \X Weights
  <2>1. \A n \in Weights : \E l \in ModelLinks : l.at = <<"model", n>>
    <3> TAKE n \in Weights
    <3>1. CASE n = Template
        BY <3>1, LinkFields DEF ModelLinks
    <3>2. CASE n # Template
        BY <3>2, LinkFields DEF ModelLinks
    <3> QED
        BY <3>1, <3>2
  <2>2. \A l \in ModelLinks : \E n \in Weights : l.at = <<"model", n>>
      BY StartAssumption, LinkFields DEF ModelLinks
  <2> QED
      BY <2>1, <2>2
<1>5. {l.at : l \in KitLinks} = ({"kit"} \X KitFiles) \cup ({"vision"} \X (VisionFiles \ {Bias}))
    BY LinkFields DEF KitLinks
<1>6. {l.at : l \in EngramLinks} = {"engram"} \X Shards
  <2>1. \A n \in Shards : \E l \in EngramLinks : l.at = <<"engram", n>>
      BY LinkFields DEF EngramLinks
  <2>2. \A l \in EngramLinks : \E n \in Shards : l.at = <<"engram", n>>
      BY LinkFields DEF EngramLinks
  <2> QED
      BY <2>1, <2>2
<1>7. BiasLink.at = <<"vision", Bias>> /\ IndexLink.at = <<"engram", Index>>
    BY LinkFields DEF BiasLink, IndexLink
<1>8. {l.at : l \in AllLinks} = {l.at : l \in ModelLinks} \cup {l.at : l \in KitLinks} \cup {BiasLink.at}
                                \cup {l.at : l \in EngramLinks} \cup {IndexLink.at}
    BY DEF AllLinks
<1>9. {l.at : l \in views[r]} =
         ({"model"} \X Weights) \cup ({"kit"} \X KitFiles) \cup ({"vision"} \X VisionFiles)
         \cup ({"engram"} \X (Shards \cup {Index}))
  <2>1. ({"vision"} \X (VisionFiles \ {Bias})) \cup {<<"vision", Bias>>} = {"vision"} \X VisionFiles
      BY StartAssumption
  <2>2. ({"engram"} \X Shards) \cup {<<"engram", Index>>} = {"engram"} \X (Shards \cup {Index})
      OBVIOUS
  <2> QED
      BY <1>3, <1>4, <1>5, <1>6, <1>7, <1>8, <2>1, <2>2, Zenon
<1>10. \A l \in views[r] : l.to # "snapshot" <=> l.at \in {<<"model", Template>>, <<"vision", Bias>>, <<"engram", Index>>}
  <2> SUFFICES ASSUME NEW l \in AllLinks
               PROVE  l.to # "snapshot" <=> l.at \in {<<"model", Template>>, <<"vision", Bias>>, <<"engram", Index>>}
      BY <1>3
  <2>1. CASE l \in ModelLinks
    <3>1. CASE l = Link("model", Template, "site")
        BY <3>1, LinkFields, ZenonT(30)
    <3>2. CASE \E n \in Weights \ {Template} : l = Link("model", n, "snapshot")
      <4>1. PICK n \in Weights \ {Template} : l = Link("model", n, "snapshot")
          BY <3>2
      <4>2. l.at = <<"model", n>> /\ l.to = "snapshot"
          BY <4>1, LinkFields
      <4>3. <<"model", n>> \notin {<<"model", Template>>, <<"vision", Bias>>, <<"engram", Index>>}
          BY <4>1
      <4> QED
          BY <4>2, <4>3
    <3> QED
        BY <2>1, <3>1, <3>2 DEF ModelLinks
  <2>2. CASE l \in KitLinks
      BY <2>2, LinkFields DEF KitLinks
  <2>3. CASE l \in EngramLinks
      BY <2>3, LinkFields, StartAssumption DEF EngramLinks
  <2>4. CASE l = BiasLink \/ l = IndexLink
    <3>1. /\ BiasLink.at = <<"vision", Bias>> /\ BiasLink.to = "locked"
          /\ IndexLink.at = <<"engram", Index>> /\ IndexLink.to = "site"
        BY LinkFields DEF BiasLink, IndexLink
    <3>2. "locked" # "snapshot" /\ "site" # "snapshot"
        OBVIOUS
    <3> QED
        BY <2>4, <3>1, <3>2, Zenon
  <2> QED
      BY <2>1, <2>2, <2>3, <2>4 DEF AllLinks
<1> QED
    BY <1>2, <1>9, <1>10

\* Every setting has a variable of its own, so the environment carries its value.
LEMMA VariablesDiffer == \A s, t \in SettingKeys : VariableOf[s] = VariableOf[t] => s = t
    BY DEF SettingKeys, Always, VariableOf

LEMMA EnvCarries ==
    /\ \A s \in Carried : VariableOf[s] \in DOMAIN EngineEnv /\ EngineEnv[VariableOf[s]] = Value(s)
    /\ \A s \in SettingKeys : VariableOf[s] \in DOMAIN EngineEnv => s \in Carried
<1>1. Carried \subseteq SettingKeys
    BY DEF Carried, SettingKeys
<1>2. DOMAIN EngineEnv = {VariableOf[s] : s \in Carried}
    BY DEF EngineEnv
<1>3. ASSUME NEW s \in Carried
      PROVE  VariableOf[s] \in DOMAIN EngineEnv /\ EngineEnv[VariableOf[s]] = Value(s)
  <2>1. VariableOf[s] \in DOMAIN EngineEnv
      BY <1>2
  <2>2. EngineEnv[VariableOf[s]] = Value(CHOOSE t \in SettingKeys : VariableOf[t] = VariableOf[s])
      BY <1>2, <2>1 DEF EngineEnv
  <2>3. (CHOOSE t \in SettingKeys : VariableOf[t] = VariableOf[s]) = s
      BY <1>1, VariablesDiffer
  <2> QED
      BY <2>1, <2>2, <2>3
<1>4. ASSUME NEW s \in SettingKeys, VariableOf[s] \in DOMAIN EngineEnv
      PROVE  s \in Carried
    BY <1>1, <1>2, <1>4, VariablesDiffer
<1> QED
    BY <1>3, <1>4

\* The command of a rank: extra arguments where it takes them, the flags otherwise.
TakesExtra(r) == "EXTRA_ARGS" \in DOMAIN EngineEnv /\ ~(served = "deepseek" /\ r = 1)
LEMMA ArgsAre ==
    ASSUME NEW r
    PROVE  /\ \A v \in DOMAIN config["extra_args"] : TakesExtra(r) => Args(r)[v] = config["extra_args"][v]
           /\ \A v \in (Needed(r) \cup Optional) \cap DOMAIN EngineEnv :
                 /\ v \in DOMAIN Args(r)
                 /\ ~TakesExtra(r) \/ v \notin DOMAIN config["extra_args"] => Args(r)[v] = EngineEnv[v]
<1> DEFINE keys == (Needed(r) \cup Optional) \cap DOMAIN EngineEnv
           flags == Restrict(EngineEnv, keys)
           extra == IF "EXTRA_ARGS" \notin DOMAIN EngineEnv \/ (served = "deepseek" /\ r = 1) THEN {}
                    ELSE DOMAIN config["extra_args"]
<1>1. DOMAIN flags = keys /\ \A v \in keys : flags[v] = EngineEnv[v]
    BY DEF Restrict
<1>2. Args(r) = [v \in extra \cup DOMAIN flags |-> IF v \in extra THEN config["extra_args"][v] ELSE flags[v]]
    BY DEF Args
<1>3. /\ TakesExtra(r) => extra = DOMAIN config["extra_args"]
      /\ ~TakesExtra(r) => extra = {}
    BY DEF TakesExtra
<1> HIDE DEF flags, extra
<1>4. ASSUME NEW v \in DOMAIN config["extra_args"], TakesExtra(r)
      PROVE  Args(r)[v] = config["extra_args"][v]
    BY <1>2, <1>3, <1>4
<1>5. ASSUME NEW v \in keys
      PROVE  /\ v \in DOMAIN Args(r)
             /\ ~TakesExtra(r) \/ v \notin DOMAIN config["extra_args"] => Args(r)[v] = EngineEnv[v]
    BY <1>1, <1>2, <1>3
<1> QED
    BY <1>4, <1>5

\* No setting an engine has a flag for is dropped.
LEMMA NothingIgnoredFollows == StartInv => NothingIgnored
<1> SUFFICES ASSUME StartInv, served \in {"glm", "qwen_tp1"}, stage[0] = "running",
                    NEW s \in SettingKeys \ (skip \cup {"extra_args"}),
                    config[s] # Unset, s = "no_drafts" => config[s] \in Truthy
             PROVE  /\ VariableOf[s] \in DOMAIN Args(0)
                    /\ VariableOf[s] \notin DOMAIN config["extra_args"] => Args(0)[VariableOf[s]] = Value(s)
    BY DEF NothingIgnored
<1>1. EnvAccepted(0)
    BY DEF StartInv, CheckedInv
<1>2. s \in Carried
    BY DEF Carried
<1>3. VariableOf[s] \in DOMAIN EngineEnv /\ EngineEnv[VariableOf[s]] = Value(s)
    BY <1>2, EnvCarries
<1>4. VariableOf[s] \in Needed(0) \cup Optional
  <2>1. CASE served = "glm"
      BY <2>1 DEF SettingKeys, Always, VariableOf, Needed, Optional, Api
  <2>2. CASE served = "qwen_tp1"
    <3>1. VariableOf[s] \notin {"DRAFTER", "MTP_DRAFTS"}
        BY <1>1, <1>3, <2>2 DEF EnvAccepted, RefusedVariables
    <3> QED
        BY <2>2, <3>1 DEF SettingKeys, Always, VariableOf, Needed, Optional, Api
  <2> QED
      BY <2>1, <2>2
<1> QED
    BY <1>3, <1>4, ArgsAre

\* Extra arguments win wherever they are passed on.
LEMMA ExtraFollows == StartInv => ExtraWins
<1> SUFFICES ASSUME StartInv, NEW r \in Ranks, "extra_args" \notin skip, ~(served = "deepseek" /\ r = 1),
                    NEW v \in DOMAIN config["extra_args"]
             PROVE  Args(r)[v] = config["extra_args"][v]
    BY DEF ExtraWins
<1>1. config \in Configs
    BY DEF StartInv, StartFunctions
<1>2. "extra_args" \in Carried
    BY <1>1, StartAssumption DEF Carried, SettingKeys
<1>3. "EXTRA_ARGS" \in DOMAIN EngineEnv
    BY <1>2, EnvCarries DEF VariableOf
<1> QED
    BY <1>3, ArgsAre DEF TakesExtra

\* Both ranks hold the same weights and window.
LEMMA RanksFollow == StartInv => RanksAgree
<1> SUFFICES ASSUME StartInv, stage[0] = "running", stage[1] = "running", NEW v \in {"MODEL_PATH", "CONTEXT"},
                    served = "deepseek" => v \notin DOMAIN config["extra_args"]
             PROVE  Args(0)[v] = Args(1)[v]
    BY DEF RanksAgree
<1>1. EnvAccepted(0) /\ EnvAccepted(1)
    BY DEF StartInv, CheckedInv
<1>2. v \in (Needed(0) \cup Optional) \cap DOMAIN EngineEnv /\ v \in (Needed(1) \cup Optional) \cap DOMAIN EngineEnv
    BY <1>1 DEF EnvAccepted, Needed
<1>3. CASE TakesExtra(0) /\ v \in DOMAIN config["extra_args"]
  <2>1. TakesExtra(1)
      BY <1>3 DEF TakesExtra
  <2> QED
      BY <1>3, <2>1, ArgsAre
<1>4. CASE ~TakesExtra(0) \/ v \notin DOMAIN config["extra_args"]
  <2>1. ~TakesExtra(1) \/ v \notin DOMAIN config["extra_args"]
      BY <1>4 DEF TakesExtra
  <2> QED
      BY <1>2, <1>4, <2>1, ArgsAre
<1> QED
    BY <1>3, <1>4

\* An exclusion list starts nothing, and every named device is one of the host's.
LEMMA RdmaFollows == StartInv => RdmaExact
<1> SUFFICES ASSUME StartInv, NEW r \in Ranks, served = "deepseek", stage[r] = "running", Hca # Unset
             PROVE  /\ ~Hca.except /\ \A i \in DOMAIN Hca.items : Hca.items[i].port # 2
                    /\ Range(RdmaDevices) \subseteq Devices
    BY DEF RdmaExact
<1>1. RdmaAccepted
    BY DEF StartInv, CheckedInv, Ranks
<1>2. ~Hca.except /\ \A i \in DOMAIN Hca.items : Hca.items[i].port \in {Unset, 1} /\ Hca.items[i].name \in Devices
    BY <1>1 DEF RdmaAccepted, DeviceOk
<1>3. RdmaDevices = [i \in DOMAIN Hca.items |-> Hca.items[i].name]
    BY DEF RdmaDevices
<1> QED
    BY <1>2, <1>3, StartAssumption DEF Range

\* What runs serves the locked files with every setting it was given, alike on both ranks
\* and on the devices named, for any settings, files and shards and any number of kills
\* (_engine_env of the TensorFold plugin and the serve.py of each mod).
THEOREM StartIsSafe == StartSpec => []StartSafe
<1>1. StartInv => StartTypeOK
    BY DEF StartInv, StartTypeOK, ViewsInv, OneEach
<1>2. StartInv => StartSafe
    BY <1>1, ViewsFollow, NothingIgnoredFollows, ExtraFollows, RanksFollow, RdmaFollows DEF StartSafe
<1> QED
    BY <1>2, StartStarts, StartStep, PTL DEF StartSpec
-----------------------------------------------------------------------------
(* Readiness.  GateInv keeps what each answer so far has shown of an engine that *)
(* stayed, so that the pass and every refusal can be held against the promise.   *)
(* That the nearest level is the first one met walking outwards is NearestFirst. *)

AfterChats == {"tool", "levels", "default", "others", "health_again", "passed"}
AfterModels == {"chats"} \cup AfterChats
AfterHealth == {"models"} \cup AfterModels

\* The health, the list and the replies of an engine that stayed.
AnsweredInv ==
    /\ gateStep \in AfterHealth => EngineHealthy
    /\ gateStep \in AfterModels => ListedEfforts
    /\ gateStep \in AfterChats => \A i \in 1 .. profile.lanes : Answers(i)
    /\ gateStep = "chats" =>
          \A i \in DOMAIN lanes : /\ lanes[i] = "good" => Answers(i)
                                  /\ lanes[i] = "bad" => ~Answers(i)
    /\ \A l \in DOMAIN rendered : rendered[l] = Render(l)
    /\ \A l \in missing : Render(l) = Missing
    /\ gateStep = "default" => \A l \in Advertised : Render(l) = Missing
    /\ gateStep = "others" => \A l \in Levels \ Advertised :
          (\E i \in DOMAIN askNext : askNext[i] = l) \/ Render(l) = rendered[Nearest(l)]
    /\ gateStep \in {"health_again", "passed"} /\ version = 2 /\ profile.efforts # <<>> =>
          LevelsKept(engine) \/ \A l \in Advertised \cup {Default} : Render(l) = Missing
    /\ version = 2 /\ route = "none" => Render(Default) = Missing
    /\ gateStep = "failed" /\ version = 2 => ~Promised(engine)

\* Where the gate is in its list of levels.
AskedInv ==
    /\ gateStep = "idle" => route = "unknown"
    /\ gateStep = "chats" => DOMAIN lanes = 1 .. profile.lanes
    /\ gateStep \in {"levels", "default", "others"} => profile.efforts # <<>>
    /\ gateStep = "levels" => \A l \in Advertised :
          l \in DOMAIN rendered \cup missing \/ \E i \in DOMAIN askNext : askNext[i] = l
    /\ gateStep = "levels" => \A i \in DOMAIN askNext : askNext[i] \in Advertised
    /\ gateStep = "others" => /\ DOMAIN rendered = Advertised /\ Distinct
                              /\ \A i \in DOMAIN askNext : askNext[i] \in Levels
GateInv == ReadinessTypeOK /\ AskedInv /\ (swaps = 0 => AnsweredInv)

\* A set of numbers has a least one.
LEMMA Least == ASSUME NEW S \in SUBSET Nat, S # {}
               PROVE  \E n \in S : \A m \in S : n <= m
<1> DEFINE R == {ss \in Nat \X Nat : ss[1] < ss[2]}
<1>1. IsWellFoundedOn(R, Nat)
    BY NatLessThanWellFounded DEF OpToRel
<1>2. \A m, n \in Nat : m < n => <<m, n>> \in R
    OBVIOUS
<1> HIDE DEF R
<1>3. PICK n \in S : \A m \in S : ~(<<m, n>> \in R)
    BY <1>1, WFMin
<1>4. ASSUME NEW m \in S
      PROVE  n <= m
  <2>1. m \in Nat /\ n \in Nat /\ ~(m < n)
      BY <1>2, <1>3
  <2> QED
      BY <2>1
<1> QED
    BY <1>4

LEMMA Positions ==
    /\ \A l \in Levels : Position(l) \in 1 .. Len(EffortOrder) /\ EffortOrder[Position(l)] = l
    /\ \A i \in 1 .. Len(EffortOrder) : EffortOrder[i] \in Levels /\ Position(EffortOrder[i]) = i
    /\ Len(EffortOrder) \in Nat /\ DOMAIN EffortOrder = 1 .. Len(EffortOrder)
    /\ NoReply \notin Levels
<1>1. /\ Len(EffortOrder) \in Nat /\ DOMAIN EffortOrder = 1 .. Len(EffortOrder)
      /\ \A i, j \in DOMAIN EffortOrder : EffortOrder[i] = EffortOrder[j] => i = j
      /\ NoReply \notin Levels
    BY ReadinessAssumption
<1>2. \A l \in Levels : \E i \in DOMAIN EffortOrder : EffortOrder[i] = l
    BY DEF Levels
<1>3. \A l \in Levels : Position(l) \in DOMAIN EffortOrder /\ EffortOrder[Position(l)] = l
    BY <1>2 DEF Position
<1>4. \A i \in DOMAIN EffortOrder : EffortOrder[i] \in Levels
    BY DEF Levels
<1> QED
    BY <1>1, <1>3, <1>4

\* The level a name is answered with is the first advertised one met walking
\* outwards from it, the higher side first.
LEMMA NearestFirst ==
    ASSUME NEW effort \in Levels, Advertised \cap Levels # {}
    PROVE  NearestNamed(effort) = StandsFor(effort) /\ NearestNamed(effort) \in Advertised \cap Levels
<1> DEFINE A == Advertised \cap Levels
           n == Len(EffortOrder)
           p == Position(effort)
           S == {Distance(l, effort) : l \in A}
           Met(d) == {i \in {1, 2} : Outwards(effort, d)[i] \in DOMAIN EffortOrder
                                      /\ EffortOrder[Outwards(effort, d)[i]] \in Advertised}
           First(d) == Met(d) # {} /\ \A c \in 0 .. d - 1 : Met(c) = {}
           Nearer(l, m) == \/ Distance(l, effort) < Distance(m, effort)
                           \/ Distance(l, effort) = Distance(m, effort) /\ Position(l) <= Position(m)
<1>1. p \in 1 .. n /\ n \in Nat
    BY Positions
<1>2. \A l \in A : /\ Distance(l, effort) \in 0 .. n
                   /\ \A d \in 0 .. n : Distance(l, effort) = d <=> (Position(l) = p - d \/ Position(l) = p + d)
    BY <1>1, Positions DEF Distance
<1>3. \A d \in 0 .. n : /\ 1 \in Met(d) <=> p - d \in 1 .. n /\ EffortOrder[p - d] \in A
                        /\ 2 \in Met(d) <=> p + d \in 1 .. n /\ EffortOrder[p + d] \in A
    BY <1>1, Positions DEF Outwards
<1>4. \A d \in 0 .. n : Met(d) \subseteq {1, 2}
    OBVIOUS
<1> HIDE DEF Met
<1>5. ASSUME NEW d \in 0 .. n
      PROVE  Met(d) # {} <=> \E l \in A : Distance(l, effort) = d
  <2>1. ASSUME NEW l \in A, Distance(l, effort) = d
        PROVE  Met(d) # {}
    <3>1. Position(l) = p - d \/ Position(l) = p + d
        BY <2>1, <1>2
    <3>2. Position(l) \in 1 .. n /\ EffortOrder[Position(l)] = l
        BY Positions
    <3> QED
        BY <3>1, <3>2, <1>3
  <2>2. ASSUME Met(d) # {}
        PROVE  \E l \in A : Distance(l, effort) = d
    <3>1. CASE 1 \in Met(d)
      <4>1. p - d \in 1 .. n /\ EffortOrder[p - d] \in A
          BY <3>1, <1>3
      <4>2. Position(EffortOrder[p - d]) = p - d
          BY <4>1, Positions
      <4> QED
          BY <4>1, <4>2, <1>2
    <3>2. CASE 2 \in Met(d)
      <4>1. p + d \in 1 .. n /\ EffortOrder[p + d] \in A
          BY <3>2, <1>3
      <4>2. Position(EffortOrder[p + d]) = p + d
          BY <4>1, Positions
      <4> QED
          BY <4>1, <4>2, <1>2
    <3> QED
        BY <2>2, <3>1, <3>2, <1>4
  <2> QED
      BY <2>1, <2>2
<1>6. S \subseteq Nat /\ S # {}
    BY <1>2
<1>7. PICK d0 \in S : \A m \in S : d0 <= m
    BY <1>6, Least
<1>8. d0 \in 0 .. n /\ \A l \in A : d0 <= Distance(l, effort)
    BY <1>7, <1>2
<1>9. First(d0)
  <2>1. Met(d0) # {}
      BY <1>5, <1>7, <1>8
  <2>2. ASSUME NEW c \in 0 .. d0 - 1
        PROVE  Met(c) = {}
    <3>1. c \in 0 .. n /\ ~(d0 <= c)
        BY <1>8
    <3> QED
        BY <3>1, <1>5, <1>8
  <2> QED
      BY <2>1, <2>2
<1>10. \A d \in 0 .. n : First(d) => d = d0
  <2> SUFFICES ASSUME NEW d \in 0 .. n, First(d), d # d0
               PROVE  FALSE
      OBVIOUS
  <2>1. d < d0 \/ d0 < d
      BY <1>8
  <2>2. CASE d < d0
    <3>1. d \in 0 .. d0 - 1
        BY <2>2, <1>8
    <3> QED
        BY <3>1, <1>9
  <2>3. CASE d0 < d
    <3>1. d0 \in 0 .. d - 1
        BY <2>3, <1>8
    <3> QED
        BY <3>1, <1>9
  <2> QED
      BY <2>1, <2>2, <2>3
<1> DEFINE d1 == CHOOSE d \in 0 .. n : First(d)
<1>11. d1 = d0
  <2> HIDE DEF First
  <2>1. d1 \in 0 .. n /\ First(d1)
      BY <1>8, <1>9
  <2> QED
      BY <2>1, <1>10
<1>12. StandsFor(effort) = EffortOrder[Outwards(effort, d1)[IF 1 \in Met(d1) THEN 1 ELSE 2]]
    BY DEF StandsFor, Met
<1> DEFINE there == IF 1 \in Met(d0) THEN p - d0 ELSE p + d0
<1> HIDE DEF d1
<1>13. StandsFor(effort) = EffortOrder[there]
  <2>1. StandsFor(effort) = EffortOrder[Outwards(effort, d0)[IF 1 \in Met(d0) THEN 1 ELSE 2]]
      BY <1>11, <1>12
  <2>2. Outwards(effort, d0)[1] = p - d0 /\ Outwards(effort, d0)[2] = p + d0
      BY DEF Outwards
  <2>3. Outwards(effort, d0)[IF 1 \in Met(d0) THEN 1 ELSE 2] = there
      BY <2>2
  <2> QED
      BY <2>1, <2>3
<1>14. there \in 1 .. n /\ EffortOrder[there] \in A /\ Position(EffortOrder[there]) = there
    BY <1>3, <1>4, <1>8, <1>9, Positions
<1>15. Distance(EffortOrder[there], effort) = d0
    BY <1>14, <1>2, <1>8
<1>16. ASSUME NEW m \in A, Distance(m, effort) = d0
       PROVE  there <= Position(m)
  <2>1. Position(m) = p - d0 \/ Position(m) = p + d0
      BY <1>16, <1>2, <1>8
  <2>2. Position(m) \in 1 .. n /\ EffortOrder[Position(m)] = m
      BY Positions
  <2>3. CASE 1 \in Met(d0)
      BY <2>1, <2>3, <1>1, <1>8
  <2>4. CASE 1 \notin Met(d0)
    <3>1. Position(m) # p - d0
        BY <2>2, <2>4, <1>3, <1>8
    <3> QED
        BY <2>1, <2>4, <3>1, <1>1, <1>8
  <2> QED
      BY <2>3, <2>4
<1> HIDE DEF there, First
<1>17. \A m \in A : Nearer(EffortOrder[there], m)
  <2> TAKE m \in A
  <2>1. d0 <= Distance(m, effort) /\ Distance(m, effort) \in 0 .. n
      BY <1>8, <1>2
  <2>2. CASE Distance(m, effort) = d0
      BY <2>2, <1>14, <1>15, <1>16
  <2>3. CASE Distance(m, effort) # d0
      BY <2>1, <2>3, <1>8, <1>15
  <2> QED
      BY <2>2, <2>3
<1>18. ASSUME NEW l \in A, \A m \in A : Nearer(l, m)
       PROVE  l = EffortOrder[there]
  <2>1. Nearer(l, EffortOrder[there])
      BY <1>18, <1>14
  <2>2. Distance(l, effort) = d0 /\ Position(l) <= there
      BY <2>1, <1>2, <1>8, <1>14, <1>15, Positions
  <2>3. there <= Position(l)
      BY <2>2, <1>16
  <2>4. Position(l) = there /\ EffortOrder[Position(l)] = l
      BY <2>2, <2>3, <1>14, Positions
  <2> QED
      BY <2>4
<1>19. NearestNamed(effort) = CHOOSE l \in A : \A m \in A : Nearer(l, m)
    BY DEF NearestNamed
<1> HIDE DEF Nearer
<1>20. NearestNamed(effort) = EffortOrder[there]
    BY <1>14, <1>17, <1>18, <1>19
<1> QED
    BY <1>13, <1>14, <1>20

\* What the profile and the arguments are.
LEMMA ProfileFacts ==
    ASSUME ReadinessTypeOK
    PROVE  /\ Advertised \subseteq Standard
           /\ profile.efforts = <<>> <=> Advertised = {}
           /\ profile.efforts \in Seq(Advertised)
           /\ profile.lanes \in Nat /\ 1 <= profile.lanes
           /\ \A l \in Standard \cup {Default} : Render(l) \in Prompts \cup {Missing}
<1>1. profile \in Profiles /\ engine \in Engines
    BY DEF ReadinessTypeOK
<1>2. profile.efforts \in Seq(Standard) /\ profile.lanes \in Nat \ {0}
    BY <1>1, ReadinessAssumption
<1>3. engine.renders \in [Standard \cup {Default} -> Prompts \cup {Missing}]
    BY <1>1, ReadinessAssumption
<1>4. \A i \in DOMAIN profile.efforts : profile.efforts[i] \in Advertised
    BY DEF Advertised
<1>5. Advertised \subseteq Standard
    BY <1>2 DEF Advertised
<1>6. profile.efforts = <<>> <=> Advertised = {}
  <2>1. profile.efforts = <<>> => DOMAIN profile.efforts = {}
      OBVIOUS
  <2>2. profile.efforts # <<>> => 1 \in DOMAIN profile.efforts
      BY <1>2
  <2> QED
      BY <2>1, <2>2 DEF Advertised
<1>7. profile.efforts \in Seq(Advertised)
    BY <1>2, <1>4
<1> QED
    BY <1>2, <1>3, <1>5, <1>6, <1>7 DEF Render

\* The level chosen for a name, for every list that advertises one.
LEMMA NearestIs ==
    ASSUME ReadinessTypeOK, Advertised # {}, NEW effort \in Levels
    PROVE  /\ Nearest(effort) \in Advertised
           /\ Nearest(effort) = IF Advertised = {NoReply} THEN NoReply ELSE StandsFor(effort)
<1>1. CASE Advertised = {NoReply}
    BY <1>1 DEF Nearest
<1>2. CASE Advertised # {NoReply}
  <2>1. Advertised \cap Levels # {}
      BY <1>2, ProfileFacts DEF Standard
  <2> QED
      BY <1>2, <2>1, NearestFirst DEF Nearest
<1> QED
    BY <1>1, <1>2

\* An engine that keeps the promise answers every request as the gate wants it.
LEMMA PromisedAnswers ==
    ASSUME ReadinessTypeOK, Promised(engine)
    PROVE  EngineHealthy /\ ListedEfforts /\ \A i \in 1 .. profile.lanes : Answers(i)
<1>1. EngineHealthy
    BY DEF Promised, EngineHealthy, ZigHealth, MiaHealth
<1>2. ListedEfforts
    BY DEF Promised, ListedEfforts
<1> QED
    BY <1>1, <1>2 DEF Promised, Answers

\* A request changes neither the engine nor what is asked of it.
LEMMA KeepsMeaning ==
    ASSUME Keep
    PROVE  /\ EngineHealthy' = EngineHealthy /\ ListedEfforts' = ListedEfforts
           /\ \A i : Answers(i)' = Answers(i)
           /\ \A l : Render(l)' = Render(l)
           /\ \A l : Nearest(l)' = Nearest(l)
           /\ Advertised' = Advertised /\ LevelsKept(engine)' = LevelsKept(engine)
           /\ Promised(engine)' = Promised(engine)
<1>1. engine' = engine /\ profile' = profile /\ version' = version
    BY DEF Keep
<1>2. EngineHealthy' = EngineHealthy
    BY <1>1 DEF EngineHealthy, ZigHealth, MiaHealth
<1>3. ListedEfforts' = ListedEfforts
    BY <1>1 DEF ListedEfforts
<1>4. \A i : Answers(i)' = Answers(i)
    BY <1>1 DEF Answers
<1>5. \A l : Render(l)' = Render(l)
    BY <1>1 DEF Render
<1>6. Advertised' = Advertised
    BY <1>1 DEF Advertised
<1>7. \A l : Nearest(l)' = Nearest(l)
    BY <1>1 DEF Nearest, NearestNamed, Advertised
<1>8. \A l : StandsFor(l)' = StandsFor(l)
    BY <1>1 DEF StandsFor, Advertised
<1>9. LevelsKept(engine)' = LevelsKept(engine)
    BY <1>1, <1>6, <1>8 DEF LevelsKept
<1>10. Promised(engine)' = Promised(engine)
    BY <1>1, <1>6, <1>9 DEF Promised
<1> QED
    BY <1>2, <1>3, <1>4, <1>5, <1>6, <1>7, <1>9, <1>10

\* What each step of the gate has to show.
LEMMA StepKeeps ==
    ASSUME GateInv, Keep, ReadinessTypeOK', AskedInv', AnsweredInv => AnsweredInv'
    PROVE  GateInv'
BY DEF GateInv, Keep

\* A refusal: an engine that stayed and keeps the promise is not refused.
LEMMA FailKeeps ==
    ASSUME GateInv, Keep, Fail, AnsweredInv /\ version = 2 => ~Promised(engine)
    PROVE  GateInv'
<1>1. ReadinessTypeOK'
  <2> USE DEF GateInv, ReadinessTypeOK, Keep, Fail
  <2>1. Advertised' = Advertised
      BY KeepsMeaning
  <2> QED
      BY <2>1
<1>2. AskedInv'
    BY DEF Fail, AskedInv
<1>3. AnsweredInv => AnsweredInv'
  <2> SUFFICES ASSUME AnsweredInv
               PROVE  AnsweredInv'
      OBVIOUS
  <2>1. gateStep' = "failed" /\ rendered' = rendered /\ missing' = missing /\ route' = route /\ version' = version
      BY DEF Fail, Keep
  <2>2. \A l \in DOMAIN rendered' : rendered'[l] = Render(l)'
      BY <2>1, KeepsMeaning DEF AnsweredInv
  <2>3. \A l \in missing' : Render(l)' = Missing
      BY <2>1, KeepsMeaning DEF AnsweredInv
  <2>4. version' = 2 /\ route' = "none" => Render(Default)' = Missing
      BY <2>1, KeepsMeaning DEF AnsweredInv
  <2>5. version' = 2 => ~Promised(engine)'
      BY <2>1, KeepsMeaning
  <2> QED
      BY <2>1, <2>2, <2>3, <2>4, <2>5 DEF AnsweredInv, AfterHealth, AfterModels, AfterChats
<1> QED
    BY <1>1, <1>2, <1>3, StepKeeps

LEMMA GateStarts == ReadinessInit => GateInv
<1> SUFFICES ASSUME ReadinessInit
             PROVE  GateInv
    OBVIOUS
<1>1. Warmups \in Nat /\ MaxSwaps \in Nat
    BY ReadinessAssumption
<1>2. ReadinessTypeOK
    BY <1>1 DEF ReadinessInit, ReadinessTypeOK
<1>3. AskedInv
    BY DEF ReadinessInit, AskedInv
<1>4. AnsweredInv
    BY DEF ReadinessInit, AnsweredInv, AfterHealth, AfterModels, AfterChats
<1> QED
    BY <1>2, <1>3, <1>4 DEF GateInv

\* Once the engine has changed nothing more is known of it.
LEMMA EngineChangesKeeps == GateInv /\ EngineChanges => GateInv'
<1> SUFFICES ASSUME GateInv, EngineChanges
             PROVE  GateInv'
    OBVIOUS
<1> USE DEF GateInv, EngineChanges
<1>1. Advertised' = Advertised
    BY DEF Advertised
<1>2. swaps' \in 0 .. MaxSwaps /\ swaps' # 0
    BY ReadinessAssumption DEF ReadinessTypeOK
<1>3. ReadinessTypeOK'
    BY <1>1, <1>2 DEF ReadinessTypeOK
<1>4. AskedInv'
    BY <1>1 DEF AskedInv, Distinct
<1> QED
    BY <1>2, <1>3, <1>4

LEMMA BeginGateKeeps == ASSUME GateInv, NEW v \in {1, 2}, BeginGate(v)
                    PROVE  GateInv'
<1> USE DEF BeginGate
<1>1. ReadinessTypeOK'
  <2>1. Advertised' = Advertised
      BY DEF Advertised
  <2> QED
      BY <2>1 DEF GateInv, ReadinessTypeOK
<1>2. AskedInv'
    BY DEF GateInv, AskedInv
<1>3. ASSUME swaps = 0
      PROVE  AnsweredInv'
  <2>1. AnsweredInv
      BY <1>3 DEF GateInv
  <2>2. gateStep' = "health" /\ route' = "unknown"
      BY DEF GateInv, AskedInv
  <2>3. \A l : Render(l)' = Render(l)
      BY DEF Render
  <2> QED
      BY <2>1, <2>2, <2>3 DEF AnsweredInv, AfterHealth, AfterModels, AfterChats
<1> QED
    BY <1>1, <1>2, <1>3 DEF GateInv

LEMMA HealthKeeps == GateInv /\ CheckHealth => GateInv'
<1> SUFFICES ASSUME GateInv, CheckHealth
             PROVE  GateInv'
    OBVIOUS
<1>1. Keep /\ gateStep = "health"
    BY DEF CheckHealth
<1>2. CASE ~EngineHealthy
  <2>1. Fail
      BY <1>2 DEF CheckHealth
  <2>2. version = 2 => ~Promised(engine)
      BY <1>2, PromisedAnswers DEF GateInv
  <2> QED
      BY <1>1, <2>1, <2>2, FailKeeps
<1>3. CASE EngineHealthy
  <2>1. gateStep' = "models" /\ UNCHANGED <<round, lanes, askNext, rendered, missing, route>>
      BY <1>3 DEF CheckHealth
  <2>2. ReadinessTypeOK'
      BY <1>1, <2>1, KeepsMeaning DEF Keep, GateInv, ReadinessTypeOK
  <2>3. AskedInv'
      BY <2>1 DEF AskedInv
  <2>4. AnsweredInv => AnsweredInv'
      BY <1>1, <1>3, <2>1, KeepsMeaning DEF Keep, AnsweredInv, AfterHealth, AfterModels, AfterChats
  <2> QED
      BY <1>1, <2>2, <2>3, <2>4, StepKeeps
<1> QED
    BY <1>2, <1>3

LEMMA ModelsKeeps == GateInv /\ CheckModels => GateInv'
<1> SUFFICES ASSUME GateInv, CheckModels
             PROVE  GateInv'
    OBVIOUS
<1>1. Keep /\ gateStep = "models"
    BY DEF CheckModels
<1>2. CASE ~ListedEfforts
  <2>1. Fail
      BY <1>2 DEF CheckModels
  <2>2. version = 2 => ~Promised(engine)
      BY <1>2, PromisedAnswers DEF GateInv
  <2> QED
      BY <1>1, <2>1, <2>2, FailKeeps
<1>3. CASE ListedEfforts
  <2>1. /\ gateStep' = "chats" /\ UNCHANGED <<round, askNext, rendered, missing, route>>
        /\ lanes' \in [1 .. profile.lanes -> {"waiting"}]
      BY <1>3 DEF CheckModels, Streams
  <2>2. ReadinessTypeOK'
    <3>1. lanes' \in [DOMAIN lanes' -> {"waiting", "good", "bad"}]
        BY <2>1
    <3> QED
        BY <1>1, <2>1, <3>1, KeepsMeaning DEF Keep, GateInv, ReadinessTypeOK
  <2>3. AskedInv'
      BY <1>1, <2>1 DEF AskedInv, Keep
  <2>4. AnsweredInv => AnsweredInv'
      BY <1>1, <1>3, <2>1, KeepsMeaning DEF Keep, AnsweredInv, AfterHealth, AfterModels, AfterChats
  <2> QED
      BY <1>1, <2>2, <2>3, <2>4, StepKeeps
<1> QED
    BY <1>2, <1>3

LEMMA LaneKeeps == GateInv /\ LaneReplies => GateInv'
<1> SUFFICES ASSUME GateInv, LaneReplies
             PROVE  GateInv'
    OBVIOUS
<1>1. Keep /\ gateStep = "chats" /\ UNCHANGED <<gateStep, round, askNext, rendered, missing, route>>
    BY DEF LaneReplies
<1>2. PICK i \in DOMAIN lanes : lanes' = [lanes EXCEPT ![i] = IF Answers(i) THEN "good" ELSE "bad"]
    BY DEF LaneReplies
<1>3. lanes \in [DOMAIN lanes -> {"waiting", "good", "bad"}]
    BY DEF GateInv, ReadinessTypeOK
<1>4. lanes' \in [DOMAIN lanes' -> {"waiting", "good", "bad"}] /\ DOMAIN lanes' = DOMAIN lanes
    BY <1>2, <1>3
<1>5. ReadinessTypeOK'
    BY <1>1, <1>4, KeepsMeaning DEF Keep, GateInv, ReadinessTypeOK
<1>6. AskedInv'
    BY <1>1, <1>4 DEF AskedInv, Keep, GateInv
<1>7. AnsweredInv => AnsweredInv'
  <2> SUFFICES ASSUME AnsweredInv
               PROVE  AnsweredInv'
      OBVIOUS
  <2>1. \A j \in DOMAIN lanes' : /\ lanes'[j] = "good" => Answers(j)
                                 /\ lanes'[j] = "bad" => ~Answers(j)
    <3> TAKE j \in DOMAIN lanes'
    <3>1. lanes'[j] = IF j = i THEN IF Answers(i) THEN "good" ELSE "bad" ELSE lanes[j]
        BY <1>2, <1>4
    <3> QED
        BY <3>1, <1>1, <1>4 DEF AnsweredInv
  <2>2. \A j \in DOMAIN lanes' : /\ lanes'[j] = "good" => Answers(j)'
                                 /\ lanes'[j] = "bad" => ~Answers(j)'
      BY <1>1, <2>1, KeepsMeaning
  <2>3. EngineHealthy' /\ ListedEfforts'
      BY <1>1, KeepsMeaning DEF AnsweredInv, AfterHealth, AfterModels, AfterChats
  <2>4. gateStep' = "chats" /\ rendered' = rendered /\ missing' = missing /\ route' = route /\ version' = version
      BY <1>1 DEF Keep
  <2>5. (\A l \in DOMAIN rendered' : rendered'[l] = Render(l)') /\ (\A l \in missing' : Render(l)' = Missing)
      BY <1>1, <2>4, KeepsMeaning DEF AnsweredInv
  <2>6. version' = 2 /\ route' = "none" => Render(Default)' = Missing
      BY <1>1, <2>4, KeepsMeaning DEF AnsweredInv
  <2> QED
      BY <2>2, <2>3, <2>4, <2>5, <2>6 DEF AnsweredInv, AfterHealth, AfterModels, AfterChats
<1> QED
    BY <1>1, <1>5, <1>6, <1>7, StepKeeps

LEMMA RoundKeeps == GateInv /\ RoundEnds => GateInv'
<1> SUFFICES ASSUME GateInv, RoundEnds
             PROVE  GateInv'
    OBVIOUS
<1>1. Keep /\ gateStep = "chats" /\ \A i \in DOMAIN lanes : lanes[i] # "waiting"
    BY DEF RoundEnds
<1>2. /\ lanes \in [DOMAIN lanes -> {"waiting", "good", "bad"}]
      /\ DOMAIN lanes = 1 .. profile.lanes
    BY <1>1 DEF GateInv, ReadinessTypeOK, AskedInv
<1>3. CASE ~RoundGood
  <2>1. Fail
      BY <1>3 DEF RoundEnds, BadRound
  <2>2. ASSUME AnsweredInv, version = 2
        PROVE  ~Promised(engine)
    <3>1. PICK i \in DOMAIN lanes : lanes[i] # "good"
        BY <1>3 DEF RoundGood
    <3>2. lanes[i] = "bad"
        BY <3>1, <1>1, <1>2
    <3>3. ~Answers(i) /\ i \in 1 .. profile.lanes
        BY <3>2, <2>2, <1>1, <1>2 DEF AnsweredInv
    <3> QED
        BY <3>3, PromisedAnswers DEF GateInv
  <2> QED
      BY <1>1, <2>1, <2>2, FailKeeps
<1>4. CASE RoundGood /\ round < Warmups
  <2>1. /\ round' = round + 1 /\ UNCHANGED <<gateStep, askNext, rendered, missing, route>>
        /\ lanes' \in [1 .. profile.lanes -> {"waiting"}]
      BY <1>4 DEF RoundEnds, Streams
  <2>2. ReadinessTypeOK'
    <3>1. lanes' \in [DOMAIN lanes' -> {"waiting", "good", "bad"}]
        BY <2>1
    <3>2. round' \in 0 .. Warmups
        BY <2>1, <1>4, ReadinessAssumption DEF GateInv, ReadinessTypeOK
    <3> QED
        BY <1>1, <2>1, <3>1, <3>2, KeepsMeaning DEF Keep, GateInv, ReadinessTypeOK
  <2>3. AskedInv'
      BY <1>1, <2>1 DEF AskedInv, Keep
  <2>4. AnsweredInv => AnsweredInv'
      BY <1>1, <2>1, KeepsMeaning DEF Keep, AnsweredInv, AfterHealth, AfterModels, AfterChats
  <2> QED
      BY <1>1, <2>2, <2>3, <2>4, StepKeeps
<1>5. CASE RoundGood /\ ~(round < Warmups)
  <2>1. gateStep' = "tool" /\ UNCHANGED <<round, lanes, askNext, rendered, missing, route>>
      BY <1>5 DEF RoundEnds
  <2>2. ReadinessTypeOK'
      BY <1>1, <2>1, KeepsMeaning DEF Keep, GateInv, ReadinessTypeOK
  <2>3. AskedInv'
      BY <2>1 DEF AskedInv
  <2>4. AnsweredInv => \A i \in 1 .. profile.lanes : Answers(i)
      BY <1>1, <1>2, <1>5 DEF AnsweredInv, RoundGood
  <2>5. AnsweredInv => \A i \in 1 .. profile'.lanes : Answers(i)'
      BY <1>1, <2>4, KeepsMeaning DEF Keep
  <2>6. AnsweredInv => AnsweredInv'
      BY <1>1, <2>1, <2>5, KeepsMeaning DEF Keep, AnsweredInv, AfterHealth, AfterModels, AfterChats
  <2> QED
      BY <1>1, <2>2, <2>3, <2>6, StepKeeps
<1> QED
    BY <1>3, <1>4, <1>5

LEMMA ToolKeeps == GateInv /\ ToolCall => GateInv'
<1> SUFFICES ASSUME GateInv, ToolCall
             PROVE  GateInv'
    OBVIOUS
<1>1. Keep /\ gateStep = "tool"
    BY DEF ToolCall
<1>2. 1 \in 1 .. profile.lanes
    BY ProfileFacts DEF GateInv
<1>3. CASE \A stream \in 1 .. profile.lanes : ~Answers(stream)
  <2>1. Fail
      BY <1>3 DEF ToolCall
  <2>2. version = 2 => ~Promised(engine)
      BY <1>2, <1>3, PromisedAnswers DEF GateInv
  <2> QED
      BY <1>1, <2>1, <2>2, FailKeeps
<1>4. CASE ~\A stream \in 1 .. profile.lanes : ~Answers(stream)
  <2>1. /\ gateStep' = IF profile.efforts = <<>> THEN "health_again" ELSE "levels"
        /\ askNext' = profile.efforts
        /\ UNCHANGED <<round, lanes, rendered, missing, route>>
      BY <1>4 DEF ToolCall
  <2>2. profile.efforts \in Seq(Advertised) /\ Advertised \subseteq Standard
      BY ProfileFacts DEF GateInv
  <2>3. ReadinessTypeOK'
    <3>1. askNext' \in Seq(Standard)
        BY <2>1, <2>2
    <3>2. gateStep' \in {"levels", "health_again"}
        BY <2>1
    <3> QED
        BY <1>1, <2>1, <3>1, <3>2, KeepsMeaning DEF Keep, GateInv, ReadinessTypeOK
  <2>4. AskedInv'
    <3>1. \A i \in DOMAIN profile.efforts : profile.efforts[i] \in Advertised
        BY <2>2
    <3>2. \A l \in Advertised : \E i \in DOMAIN profile.efforts : profile.efforts[i] = l
        BY DEF Advertised
    <3>3. profile' = profile /\ Advertised' = Advertised
        BY <1>1, KeepsMeaning DEF Keep
    <3> QED
        BY <2>1, <3>1, <3>2, <3>3 DEF AskedInv
  <2>5. AnsweredInv => AnsweredInv'
      BY <1>1, <2>1, KeepsMeaning DEF Keep, AnsweredInv, AfterHealth, AfterModels, AfterChats
  <2> QED
      BY <1>1, <2>3, <2>4, <2>5, StepKeeps
<1> QED
    BY <1>3, <1>4

LEMMA RenderKeeps == GateInv /\ RenderLevel => GateInv'
<1> SUFFICES ASSUME GateInv, RenderLevel
             PROVE  GateInv'
    OBVIOUS
<1> DEFINE h == Head(askNext)
<1>1. Keep /\ gateStep = "levels" /\ askNext # <<>>
    BY DEF RenderLevel
<1>2. CASE engine.state = "down"
  <2>1. Fail
      BY <1>2 DEF RenderLevel
  <2>2. version = 2 => ~Promised(engine)
      BY <1>2 DEF Promised
  <2> QED
      BY <1>1, <2>1, <2>2, FailKeeps
<1>3. CASE engine.state # "down"
  <2>1. /\ askNext' = Tail(askNext) /\ UNCHANGED <<gateStep, round, lanes, route>>
        /\ IF FoundEngine(h)
           THEN /\ rendered' = [l \in DOMAIN rendered \cup {h} |-> IF l = h THEN Render(l) ELSE rendered[l]]
                /\ UNCHANGED missing
           ELSE missing' = missing \cup {h} /\ UNCHANGED rendered
      BY <1>3 DEF RenderLevel
  <2>2. /\ askNext \in Seq(Standard) /\ rendered \in [DOMAIN rendered -> Prompts]
        /\ DOMAIN rendered \subseteq Advertised /\ missing \subseteq Advertised
      BY DEF GateInv, ReadinessTypeOK
  <2>3. h \in Advertised /\ \A i \in DOMAIN Tail(askNext) : Tail(askNext)[i] \in Advertised
    <3>1. \A i \in DOMAIN askNext : askNext[i] \in Advertised
        BY <1>1 DEF GateInv, AskedInv
    <3> QED
        BY <3>1, <2>2, <1>1
  <2>4. Render(h) \in Prompts \cup {Missing}
      BY <2>3, ProfileFacts DEF GateInv
  <2>5. /\ rendered' \in [DOMAIN rendered' -> Prompts] /\ DOMAIN rendered' \subseteq Advertised
        /\ missing' \subseteq Advertised
        /\ \A l \in DOMAIN rendered' : \/ l = h /\ rendered'[l] = Render(l)
                                       \/ l \in DOMAIN rendered /\ rendered'[l] = rendered[l]
    <3>1. CASE FoundEngine(h)
        BY <3>1, <2>1, <2>2, <2>3, <2>4 DEF FoundEngine
    <3>2. CASE ~FoundEngine(h)
        BY <3>2, <2>1, <2>2, <2>3
    <3> QED
        BY <3>1, <3>2
  <2>6. DOMAIN rendered' \cup missing' = DOMAIN rendered \cup missing \cup {h}
      BY <2>1
  <2>7. Tail(askNext) \in Seq(Standard)
      BY <2>2, <1>1
  <2>8. ReadinessTypeOK'
      BY <1>1, <2>1, <2>5, <2>7, KeepsMeaning DEF Keep, GateInv, ReadinessTypeOK
  <2>9. \A l \in Advertised : l \in DOMAIN rendered' \cup missing' \/ \E i \in DOMAIN askNext' : askNext'[i] = l
    <3> SUFFICES ASSUME NEW l \in Advertised, l \notin DOMAIN rendered \cup missing, l # h
                 PROVE  \E i \in DOMAIN askNext' : askNext'[i] = l
        BY <2>6
    <3>1. PICK i \in DOMAIN askNext : askNext[i] = l
        BY <1>1 DEF GateInv, AskedInv
    <3>2. i \in 2 .. Len(askNext) /\ Len(askNext) \in Nat
        BY <3>1, <2>2
    <3>3. i - 1 \in DOMAIN Tail(askNext) /\ Tail(askNext)[i - 1] = l
        BY <3>1, <3>2, <2>2, <1>1
    <3> QED
        BY <3>3, <2>1
  <2>10. AskedInv'
    <3>1. Advertised' = Advertised /\ gateStep' = "levels" /\ profile' = profile
        BY <1>1, <2>1, KeepsMeaning DEF Keep
    <3>2. profile.efforts # <<>>
        BY <1>1 DEF GateInv, AskedInv
    <3>3. \A i \in DOMAIN askNext' : askNext'[i] \in Advertised
        BY <2>1, <2>3
    <3> QED
        BY <2>9, <3>1, <3>2, <3>3 DEF AskedInv
  <2>11. AnsweredInv => AnsweredInv'
    <3> SUFFICES ASSUME AnsweredInv
                 PROVE  AnsweredInv'
        OBVIOUS
    <3>1. \A l \in DOMAIN rendered' : rendered'[l] = Render(l)
        BY <2>5 DEF AnsweredInv
    <3>2. \A l \in missing' : Render(l) = Missing
      <4>1. \A l \in missing : Render(l) = Missing
          BY DEF AnsweredInv
      <4>2. missing' = missing \/ (missing' = missing \cup {h} /\ Render(h) = Missing)
          BY <2>1 DEF FoundEngine
      <4> QED
          BY <4>1, <4>2
    <3>3. (\A l \in DOMAIN rendered' : rendered'[l] = Render(l)') /\ (\A l \in missing' : Render(l)' = Missing)
        BY <3>1, <3>2, <1>1, KeepsMeaning
    <3>4. gateStep' = "levels" /\ route' = route /\ version' = version
        BY <1>1, <2>1 DEF Keep
    <3>5. version = 2 /\ route = "none" => Render(Default)' = Missing
        BY <1>1, KeepsMeaning DEF AnsweredInv
    <3>6. EngineHealthy' /\ ListedEfforts'
        BY <1>1, KeepsMeaning DEF AnsweredInv, AfterHealth, AfterModels, AfterChats
    <3>7. \A i \in 1 .. profile'.lanes : Answers(i)'
        BY <1>1, KeepsMeaning DEF Keep, AnsweredInv, AfterChats
    <3> QED
        BY <3>3, <3>4, <3>5, <3>6, <3>7 DEF AnsweredInv
  <2> QED
      BY <1>1, <2>8, <2>10, <2>11, StepKeeps
<1> QED
    BY <1>2, <1>3

\* Nothing is rendered when no level is.
LEMMA NothingIsEmpty == ASSUME rendered \in [DOMAIN rendered -> Prompts]
                        PROVE  rendered = <<>> <=> DOMAIN rendered = {}
<1>1. rendered = <<>> => DOMAIN rendered = {}
    OBVIOUS
<1>2. ASSUME DOMAIN rendered = {}
      PROVE  rendered = <<>>
  <2>1. rendered \in [1 .. 0 -> Prompts]
      BY <1>2
  <2>2. rendered \in Seq(Prompts) /\ Len(rendered) = 0
      BY <2>1
  <2> QED
      BY <2>2
<1> QED
    BY <1>1, <1>2

\* An engine that keeps the promise renders every level or none.
LEMMA PromisedLevels ==
    ASSUME GateInv, AnsweredInv, Promised(engine), profile.efforts # <<>>
    PROVE  /\ LevelsKept(engine) \/ \A l \in Advertised \cup {Default} : Render(l) = Missing
           /\ rendered # <<>> => LevelsKept(engine)
<1>1. LevelsKept(engine) \/ \A l \in Advertised \cup {Default} : Render(l) = Missing
    BY DEF Promised, Render
<1>2. rendered \in [DOMAIN rendered -> Prompts] /\ DOMAIN rendered \subseteq Advertised
    BY DEF GateInv, ReadinessTypeOK
<1>3. ASSUME rendered # <<>>
      PROVE  LevelsKept(engine)
  <2>1. DOMAIN rendered # {}
      BY <1>2, <1>3, NothingIsEmpty
  <2>2. PICK l \in DOMAIN rendered : TRUE
      BY <2>1
  <2>3. rendered[l] = Render(l) /\ rendered[l] \in Prompts /\ l \in Advertised
      BY <1>2, <2>2 DEF AnsweredInv
  <2> QED
      BY <1>1, <2>3, ReadinessAssumption
<1> QED
    BY <1>1, <1>3

\* The prompts that an advertised level has been answered with.
LEMMA AllRendered ==
    ASSUME GateInv, AnsweredInv, gateStep = "others"
    PROVE  /\ Advertised # {} /\ profile.efforts # <<>>
           /\ \A l \in Advertised : rendered[l] = Render(l) /\ Render(l) # Missing
           /\ \A l, m \in Advertised : l # m => Render(l) # Render(m)
<1>1. DOMAIN rendered = Advertised /\ Distinct /\ profile.efforts # <<>>
    BY DEF GateInv, AskedInv
<1>2. rendered \in [Advertised -> Prompts]
    BY <1>1 DEF GateInv, ReadinessTypeOK
<1>3. \A l \in Advertised : rendered[l] = Render(l) /\ rendered[l] \in Prompts
    BY <1>1, <1>2 DEF AnsweredInv
<1>4. Advertised # {}
    BY <1>1, ProfileFacts DEF GateInv
<1> QED
    BY <1>1, <1>3, <1>4, ReadinessAssumption DEF Distinct

LEMMA LevelsRenderedKeeps == GateInv /\ LevelsRendered => GateInv'
<1> SUFFICES ASSUME GateInv, LevelsRendered
             PROVE  GateInv'
    OBVIOUS
<1>1. Keep /\ gateStep = "levels" /\ askNext = <<>>
    BY DEF LevelsRendered
<1>2. /\ rendered \in [DOMAIN rendered -> Prompts]
      /\ DOMAIN rendered \subseteq Advertised /\ missing \subseteq Advertised
    BY DEF GateInv, ReadinessTypeOK
<1>3. Advertised \subseteq DOMAIN rendered \cup missing /\ profile.efforts # <<>>
  <2>1. DOMAIN askNext = {}
      BY <1>1
  <2> QED
      BY <1>1, <2>1 DEF GateInv, AskedInv
<1>4. CASE missing # {} /\ rendered = <<>>
  <2>1. /\ UNCHANGED <<round, lanes, askNext, rendered, missing>>
        /\ \/ version = 2 /\ gateStep' = "default" /\ route' = route
           \/ version # 2 /\ gateStep' = "health_again" /\ route' = "none"
    <3>1. NothingRendered /\ UNCHANGED <<round, lanes, askNext, rendered, missing>>
        BY <1>4 DEF LevelsRendered
    <3> QED
        BY <3>1 DEF NothingRendered, SkipAtOnce
  <2>2. ReadinessTypeOK'
      BY <1>1, <2>1, KeepsMeaning DEF Keep, GateInv, ReadinessTypeOK
  <2>3. AskedInv'
      BY <1>1, <1>3, <2>1 DEF AskedInv, Keep
  <2>4. Advertised \subseteq missing
      BY <1>3, <1>4
  <2>5. AnsweredInv => AnsweredInv'
    <3> SUFFICES ASSUME AnsweredInv
                 PROVE  AnsweredInv'
        OBVIOUS
    <3>1. (\A l \in DOMAIN rendered' : rendered'[l] = Render(l)') /\ (\A l \in missing' : Render(l)' = Missing)
        BY <1>1, <2>1, KeepsMeaning DEF AnsweredInv
    <3>2. \A l \in Advertised' : Render(l)' = Missing
        BY <1>1, <2>1, <2>4, <3>1, KeepsMeaning
    <3>3. EngineHealthy' /\ ListedEfforts'
        BY <1>1, KeepsMeaning DEF AnsweredInv, AfterHealth, AfterModels, AfterChats
    <3>4. \A i \in 1 .. profile'.lanes : Answers(i)'
        BY <1>1, KeepsMeaning DEF Keep, AnsweredInv, AfterChats
    <3>5. version = 2 /\ route = "none" => Render(Default)' = Missing
        BY <1>1, KeepsMeaning DEF AnsweredInv
    <3> QED
        BY <1>1, <2>1, <3>1, <3>2, <3>3, <3>4, <3>5 DEF Keep, AnsweredInv
  <2> QED
      BY <1>1, <2>2, <2>3, <2>5, StepKeeps
<1>5. CASE rendered # <<>> /\ (missing # {} \/ ~Distinct)
  <2>1. Fail
      BY <1>5 DEF LevelsRendered
  <2>2. ASSUME AnsweredInv, version = 2, Promised(engine)
        PROVE  FALSE
    <3>1. LevelsKept(engine)
        BY <1>3, <1>5, <2>2, PromisedLevels
    <3>2. \A l \in missing : Render(l) = Missing /\ l \in Advertised
        BY <1>2, <2>2 DEF AnsweredInv
    <3>3. \A l \in DOMAIN rendered : rendered[l] = Render(l) /\ l \in Advertised
        BY <1>2, <2>2 DEF AnsweredInv
    <3> QED
        BY <1>5, <3>1, <3>2, <3>3 DEF LevelsKept, Render, Distinct
  <2> QED
      BY <1>1, <2>1, <2>2, FailKeeps
<1>6. CASE missing = {} /\ Distinct /\ MinOfNothing
  <2>1. Fail
      BY <1>3, <1>6, NothingIsEmpty DEF LevelsRendered
  <2>2. version # 2
      BY <1>6 DEF MinOfNothing
  <2> QED
      BY <1>1, <2>1, <2>2, FailKeeps
<1>7. CASE missing = {} /\ Distinct /\ ~MinOfNothing
  <2>1. /\ gateStep' = "others" /\ route' = "some" /\ askNext' = Others
        /\ UNCHANGED <<round, lanes, rendered, missing>>
      BY <1>7 DEF LevelsRendered
  <2>2. /\ DOMAIN Others = 1 .. Len(EffortOrder)
        /\ \A i \in DOMAIN Others : Others[i] = EffortOrder[Len(EffortOrder) + 1 - i] /\ Others[i] \in Levels
      BY Positions DEF Others
  <2>3. Others \in Seq(Standard)
    <3>1. Others \in [1 .. Len(EffortOrder) -> Standard]
        BY <2>2, Positions DEF Others, Standard
    <3> QED
        BY <3>1, Positions
  <2>4. \A l \in Levels : \E i \in DOMAIN Others : Others[i] = l
    <3> TAKE l \in Levels
    <3>1. Position(l) \in 1 .. Len(EffortOrder) /\ EffortOrder[Position(l)] = l /\ Len(EffortOrder) \in Nat
        BY Positions
    <3> DEFINE i == Len(EffortOrder) + 1 - Position(l)
    <3>2. i \in DOMAIN Others /\ Len(EffortOrder) + 1 - i = Position(l)
        BY <2>2, <3>1
    <3> QED
        BY <2>2, <3>1, <3>2
  <2>5. ReadinessTypeOK'
      BY <1>1, <2>1, <2>3, KeepsMeaning DEF Keep, GateInv, ReadinessTypeOK
  <2>6. AskedInv'
    <3>1. DOMAIN rendered = Advertised
        BY <1>2, <1>3, <1>7
    <3>2. Advertised' = Advertised /\ profile' = profile
        BY <1>1, KeepsMeaning DEF Keep
    <3>3. Distinct'
        BY <1>7, <2>1 DEF Distinct
    <3> QED
        BY <1>3, <2>1, <2>2, <3>1, <3>2, <3>3 DEF AskedInv
  <2>7. AnsweredInv => AnsweredInv'
    <3> SUFFICES ASSUME AnsweredInv
                 PROVE  AnsweredInv'
        OBVIOUS
    <3>1. (\A l \in DOMAIN rendered' : rendered'[l] = Render(l)') /\ (\A l \in missing' : Render(l)' = Missing)
        BY <1>1, <2>1, KeepsMeaning DEF AnsweredInv
    <3>2. \A l \in Levels \ Advertised' : \E i \in DOMAIN askNext' : askNext'[i] = l
        BY <2>1, <2>4
    <3>3. EngineHealthy' /\ ListedEfforts'
        BY <1>1, KeepsMeaning DEF AnsweredInv, AfterHealth, AfterModels, AfterChats
    <3>4. \A i \in 1 .. profile'.lanes : Answers(i)'
        BY <1>1, KeepsMeaning DEF Keep, AnsweredInv, AfterChats
    <3> QED
        BY <2>1, <3>1, <3>2, <3>3, <3>4 DEF AnsweredInv
  <2> QED
      BY <1>1, <2>5, <2>6, <2>7, StepKeeps
<1>8. missing # {} \/ rendered # <<>>
  <2>1. Advertised # {}
      BY <1>3, ProfileFacts DEF GateInv
  <2> QED
      BY <1>2, <1>3, <2>1, NothingIsEmpty
<1> QED
    BY <1>4, <1>5, <1>6, <1>7, <1>8

LEMMA DefaultKeeps == GateInv /\ RenderDefault => GateInv'
<1> SUFFICES ASSUME GateInv, RenderDefault
             PROVE  GateInv'
    OBVIOUS
<1>1. Keep /\ gateStep = "default"
    BY DEF RenderDefault
<1>2. profile.efforts # <<>> /\ Advertised # {}
    BY <1>1, ProfileFacts DEF GateInv, AskedInv
<1>3. CASE engine.state = "down" \/ Render(Default) # Missing
  <2>1. Fail
      BY <1>3 DEF RenderDefault
  <2>2. ASSUME AnsweredInv, version = 2, Promised(engine)
        PROVE  FALSE
    <3>1. \A l \in Advertised : Render(l) = Missing
        BY <1>1, <2>2 DEF AnsweredInv
    <3>2. ~LevelsKept(engine)
        BY <1>2, <3>1 DEF LevelsKept, Render
    <3>3. Render(Default) = Missing
        BY <1>2, <2>2, <3>2, PromisedLevels
    <3>4. engine.state = "ok"
        BY <2>2 DEF Promised
    <3> QED
        BY <1>3, <3>3, <3>4
  <2> QED
      BY <1>1, <2>1, <2>2, FailKeeps
<1>4. CASE ~(engine.state = "down" \/ Render(Default) # Missing)
  <2>1. gateStep' = "health_again" /\ route' = "none" /\ UNCHANGED <<round, lanes, askNext, rendered, missing>>
      BY <1>4 DEF RenderDefault
  <2>2. ReadinessTypeOK'
      BY <1>1, <2>1, KeepsMeaning DEF Keep, GateInv, ReadinessTypeOK
  <2>3. AskedInv'
      BY <2>1 DEF AskedInv
  <2>4. AnsweredInv => AnsweredInv'
    <3> SUFFICES ASSUME AnsweredInv
                 PROVE  AnsweredInv'
        OBVIOUS
    <3>1. (\A l \in DOMAIN rendered' : rendered'[l] = Render(l)') /\ (\A l \in missing' : Render(l)' = Missing)
        BY <1>1, <2>1, KeepsMeaning DEF AnsweredInv
    <3>2. \A l \in Advertised : Render(l) = Missing
        BY <1>1 DEF AnsweredInv
    <3>3. \A l \in Advertised' \cup {Default} : Render(l)' = Missing
        BY <1>1, <1>4, <3>2, KeepsMeaning
    <3>4. EngineHealthy' /\ ListedEfforts'
        BY <1>1, KeepsMeaning DEF AnsweredInv, AfterHealth, AfterModels, AfterChats
    <3>5. \A i \in 1 .. profile'.lanes : Answers(i)'
        BY <1>1, KeepsMeaning DEF Keep, AnsweredInv, AfterChats
    <3> QED
        BY <2>1, <3>1, <3>3, <3>4, <3>5 DEF AnsweredInv
  <2> QED
      BY <1>1, <2>2, <2>3, <2>4, StepKeeps
<1> QED
    BY <1>3, <1>4

LEMMA OtherKeeps == GateInv /\ RenderOther => GateInv'
<1> SUFFICES ASSUME GateInv, RenderOther
             PROVE  GateInv'
    OBVIOUS
<1> DEFINE h == Head(askNext)
           Wrong == h \notin DOMAIN rendered /\ (engine.state = "down" \/ Render(h) # rendered[Nearest(h)])
<1>1. Keep /\ gateStep = "others" /\ askNext # <<>>
    BY DEF RenderOther
<1>2. /\ DOMAIN rendered = Advertised /\ askNext \in Seq(Standard)
      /\ \A i \in DOMAIN askNext : askNext[i] \in Levels
    BY <1>1 DEF GateInv, AskedInv, ReadinessTypeOK
<1>3. h \in Levels
    BY <1>1, <1>2
<1>4. CASE Wrong
  <2>1. Fail
      BY <1>4 DEF RenderOther
  <2>2. ASSUME AnsweredInv, version = 2, Promised(engine)
        PROVE  FALSE
    <3>1. /\ Advertised # {} /\ profile.efforts # <<>>
          /\ \A l \in Advertised : rendered[l] = Render(l) /\ Render(l) # Missing
        BY <1>1, <2>2, AllRendered
    <3>2. LevelsKept(engine)
        BY <2>2, <3>1, PromisedLevels
    <3>3. h \in Levels \ Advertised
        BY <1>2, <1>3, <1>4
    <3>4. Nearest(h) \in Advertised /\ Nearest(h) = IF Advertised = {NoReply} THEN NoReply ELSE StandsFor(h)
        BY <1>3, <3>1, NearestIs DEF GateInv
    <3>5. Render(h) = Render(Nearest(h))
        BY <3>2, <3>3, <3>4 DEF LevelsKept, Render
    <3>6. engine.state = "ok"
        BY <2>2 DEF Promised
    <3> QED
        BY <1>4, <3>1, <3>4, <3>5, <3>6
  <2> QED
      BY <1>1, <2>1, <2>2, FailKeeps
<1>5. CASE ~Wrong
  <2>1. askNext' = Tail(askNext) /\ UNCHANGED <<gateStep, round, lanes, rendered, missing, route>>
      BY <1>5 DEF RenderOther
  <2>2. Tail(askNext) \in Seq(Standard) /\ \A i \in DOMAIN Tail(askNext) : Tail(askNext)[i] \in Levels
      BY <1>1, <1>2
  <2>3. ReadinessTypeOK'
      BY <1>1, <2>1, <2>2, KeepsMeaning DEF Keep, GateInv, ReadinessTypeOK
  <2>4. AskedInv'
    <3>1. Advertised' = Advertised /\ profile' = profile /\ gateStep' = "others"
        BY <1>1, <2>1, KeepsMeaning DEF Keep
    <3>2. Distinct' /\ profile.efforts # <<>>
        BY <1>1, <2>1 DEF GateInv, AskedInv, Distinct
    <3> QED
        BY <1>2, <2>1, <2>2, <3>1, <3>2 DEF AskedInv
  <2>5. AnsweredInv => AnsweredInv'
    <3> SUFFICES ASSUME AnsweredInv
                 PROVE  AnsweredInv'
        OBVIOUS
    <3>1. (\A l \in DOMAIN rendered' : rendered'[l] = Render(l)') /\ (\A l \in missing' : Render(l)' = Missing)
        BY <1>1, <2>1, KeepsMeaning DEF AnsweredInv
    <3>2. ASSUME NEW l \in Levels \ Advertised
          PROVE  (\E i \in DOMAIN askNext' : askNext'[i] = l) \/ Render(l)' = rendered'[Nearest(l)']
      <4>1. Render(l)' = Render(l) /\ Nearest(l)' = Nearest(l) /\ rendered' = rendered
          BY <1>1, <2>1, KeepsMeaning
      <4>2. CASE l = h
          BY <1>2, <1>5, <4>1, <4>2
      <4>3. CASE l # h /\ Render(l) # rendered[Nearest(l)]
        <5>1. PICK i \in DOMAIN askNext : askNext[i] = l
            BY <1>1, <4>3 DEF AnsweredInv
        <5>2. i \in 2 .. Len(askNext) /\ Len(askNext) \in Nat
            BY <5>1, <1>2, <4>3
        <5>3. i - 1 \in DOMAIN Tail(askNext) /\ Tail(askNext)[i - 1] = l
            BY <5>1, <5>2, <1>1, <1>2
        <5> QED
            BY <5>3, <2>1
      <4> QED
          BY <4>1, <4>2, <4>3
    <3>3. \A l \in Levels \ Advertised' :
             (\E i \in DOMAIN askNext' : askNext'[i] = l) \/ Render(l)' = rendered'[Nearest(l)']
        BY <1>1, <3>2, KeepsMeaning
    <3>4. EngineHealthy' /\ ListedEfforts'
        BY <1>1, KeepsMeaning DEF AnsweredInv, AfterHealth, AfterModels, AfterChats
    <3>5. \A i \in 1 .. profile'.lanes : Answers(i)'
        BY <1>1, KeepsMeaning DEF Keep, AnsweredInv, AfterChats
    <3>6. version = 2 /\ route = "none" => Render(Default)' = Missing
        BY <1>1, KeepsMeaning DEF AnsweredInv
    <3>7. gateStep' = "others" /\ route' = route /\ version' = version
        BY <1>1, <2>1 DEF Keep
    <3> QED
        BY <3>1, <3>3, <3>4, <3>5, <3>6, <3>7 DEF AnsweredInv
  <2> QED
      BY <1>1, <2>3, <2>4, <2>5, StepKeeps
<1> QED
    BY <1>4, <1>5

LEMMA OthersKeeps == GateInv /\ OthersRendered => GateInv'
<1> SUFFICES ASSUME GateInv, OthersRendered
             PROVE  GateInv'
    OBVIOUS
<1>1. /\ Keep /\ gateStep = "others" /\ askNext = <<>> /\ gateStep' = "health_again"
      /\ UNCHANGED <<round, lanes, askNext, rendered, missing, route>>
    BY DEF OthersRendered
<1>2. ReadinessTypeOK'
    BY <1>1, KeepsMeaning DEF Keep, GateInv, ReadinessTypeOK
<1>3. AskedInv'
    BY <1>1 DEF AskedInv
<1>4. AnsweredInv => AnsweredInv'
  <2> SUFFICES ASSUME AnsweredInv
               PROVE  AnsweredInv'
      OBVIOUS
  <2>1. /\ Advertised # {}
        /\ \A l \in Advertised : rendered[l] = Render(l) /\ Render(l) # Missing
        /\ \A l, m \in Advertised : l # m => Render(l) # Render(m)
      BY <1>1, AllRendered
  <2>2. ASSUME NEW l \in Levels \ Advertised
        PROVE  Render(l) = Render(IF Advertised = {NoReply} THEN NoReply ELSE StandsFor(l))
    <3>1. Nearest(l) \in Advertised /\ Nearest(l) = IF Advertised = {NoReply} THEN NoReply ELSE StandsFor(l)
        BY <2>1, NearestIs DEF GateInv
    <3>2. DOMAIN askNext = {}
        BY <1>1
    <3>3. Render(l) = rendered[Nearest(l)]
        BY <1>1, <3>2 DEF AnsweredInv
    <3>4. Render(l) = Render(Nearest(l))
        BY <2>1, <3>1, <3>3
    <3> QED
        BY <3>1, <3>4
  <2>3. LevelsKept(engine)
      BY <2>1, <2>2 DEF LevelsKept, Render
  <2>4. LevelsKept(engine)'
      BY <1>1, <2>3, KeepsMeaning
  <2>5. (\A l \in DOMAIN rendered' : rendered'[l] = Render(l)') /\ (\A l \in missing' : Render(l)' = Missing)
      BY <1>1, KeepsMeaning DEF AnsweredInv
  <2>6. EngineHealthy' /\ ListedEfforts'
      BY <1>1, KeepsMeaning DEF AnsweredInv, AfterHealth, AfterModels, AfterChats
  <2>7. \A i \in 1 .. profile'.lanes : Answers(i)'
      BY <1>1, KeepsMeaning DEF Keep, AnsweredInv, AfterChats
  <2>8. version' = 2 /\ route' = "none" => Render(Default)' = Missing
      BY <1>1, KeepsMeaning DEF Keep, AnsweredInv
  <2> QED
      BY <1>1, <2>4, <2>5, <2>6, <2>7, <2>8 DEF AnsweredInv
<1> QED
    BY <1>1, <1>2, <1>3, <1>4, StepKeeps

LEMMA AgainKeeps == GateInv /\ CheckHealthAgain => GateInv'
<1> SUFFICES ASSUME GateInv, CheckHealthAgain
             PROVE  GateInv'
    OBVIOUS
<1>1. Keep /\ gateStep = "health_again"
    BY DEF CheckHealthAgain
<1>2. CASE ~EngineHealthy
  <2>1. Fail
      BY <1>2 DEF CheckHealthAgain, StillHealthy
  <2>2. version = 2 => ~Promised(engine)
      BY <1>2, PromisedAnswers DEF GateInv
  <2> QED
      BY <1>1, <2>1, <2>2, FailKeeps
<1>3. CASE EngineHealthy
  <2>1. gateStep' = "passed" /\ UNCHANGED <<round, lanes, askNext, rendered, missing, route>>
      BY <1>3 DEF CheckHealthAgain, StillHealthy
  <2>2. ReadinessTypeOK'
      BY <1>1, <2>1, KeepsMeaning DEF Keep, GateInv, ReadinessTypeOK
  <2>3. AskedInv'
      BY <2>1 DEF AskedInv
  <2>4. AnsweredInv => AnsweredInv'
    <3> SUFFICES ASSUME AnsweredInv
                 PROVE  AnsweredInv'
        OBVIOUS
    <3>1. (\A l \in DOMAIN rendered' : rendered'[l] = Render(l)') /\ (\A l \in missing' : Render(l)' = Missing)
        BY <1>1, <2>1, KeepsMeaning DEF AnsweredInv
    <3>2. EngineHealthy' /\ ListedEfforts'
        BY <1>1, KeepsMeaning DEF AnsweredInv, AfterHealth, AfterModels, AfterChats
    <3>3. \A i \in 1 .. profile'.lanes : Answers(i)'
        BY <1>1, KeepsMeaning DEF Keep, AnsweredInv, AfterChats
    <3>4. version' = 2 /\ route' = "none" => Render(Default)' = Missing
        BY <1>1, <2>1, KeepsMeaning DEF Keep, AnsweredInv
    <3>5. version' = 2 /\ profile'.efforts # <<>> =>
             LevelsKept(engine)' \/ \A l \in Advertised' \cup {Default} : Render(l)' = Missing
        BY <1>1, KeepsMeaning DEF Keep, AnsweredInv
    <3> QED
        BY <2>1, <3>1, <3>2, <3>3, <3>4, <3>5 DEF AnsweredInv
  <2> QED
      BY <1>1, <2>2, <2>3, <2>4, StepKeeps
<1> QED
    BY <1>2, <1>3

LEMMA GateStepKeeps == GateInv /\ [ReadinessNext]_readinessVars => GateInv'
<1> SUFFICES ASSUME GateInv, [ReadinessNext]_readinessVars
             PROVE  GateInv'
    OBVIOUS
<1>1. CASE \E v \in {1, 2} : BeginGate(v)
    BY <1>1, BeginGateKeeps
<1>2. CASE EngineChanges
    BY <1>2, EngineChangesKeeps
<1>3. CASE UNCHANGED readinessVars
  <2>1. Keep /\ UNCHANGED <<gateStep, round, lanes, askNext, rendered, missing, route>>
      BY <1>3 DEF readinessVars, Keep
  <2>2. ReadinessTypeOK'
      BY <2>1, KeepsMeaning DEF Keep, GateInv, ReadinessTypeOK
  <2>3. AskedInv'
      BY <2>1, KeepsMeaning DEF GateInv, AskedInv, Distinct, Keep
  <2>4. AnsweredInv => AnsweredInv'
    <3> SUFFICES ASSUME AnsweredInv
                 PROVE  AnsweredInv'
        OBVIOUS
    <3>1. engine' = engine /\ profile' = profile /\ version' = version
        BY <2>1 DEF Keep
    <3> QED
        BY <2>1, <3>1, KeepsMeaning DEF AnsweredInv
  <2> QED
      BY <2>1, <2>2, <2>3, <2>4, StepKeeps
<1> QED
    BY <1>1, <1>2, <1>3, HealthKeeps, ModelsKeeps, LaneKeeps, RoundKeeps, ToolKeeps, RenderKeeps,
       LevelsRenderedKeeps, DefaultKeeps, OtherKeeps, OthersKeeps, AgainKeeps DEF ReadinessNext, GateSteps

\* What has been seen of an engine that stayed is the promise.
LEMMA GateFollows == GateInv => GateSafe
<1> SUFFICES ASSUME GateInv
             PROVE  GateSafe
    OBVIOUS
<1>1. ASSUME gateStep = "passed", swaps = 0, version = 2
      PROVE  Promised(engine)
  <2>1. AnsweredInv
      BY <1>1 DEF GateInv
  <2>2. EngineHealthy /\ ListedEfforts /\ \A i \in 1 .. profile.lanes : Answers(i)
      BY <1>1, <2>1 DEF AnsweredInv, AfterHealth, AfterModels, AfterChats
  <2>3. profile.efforts # <<>> =>
           LevelsKept(engine) \/ \A l \in Advertised \cup {Default} : engine.renders[l] = Missing
      BY <1>1, <2>1 DEF AnsweredInv, Render
  <2>4. 1 \in 1 .. profile.lanes
      BY ProfileFacts DEF GateInv
  <2>5. engine.state = "ok" /\ 1 .. profile.lanes \subseteq engine.answers
      BY <2>2, <2>4 DEF Answers
  <2> QED
      BY <1>1, <2>2, <2>3, <2>5 DEF Promised, EngineHealthy, ZigHealth, MiaHealth, ListedEfforts
<1>2. PassedIsPromised
    BY <1>1 DEF PassedIsPromised
<1>3. PromisedPasses
    BY DEF GateInv, AnsweredInv, PromisedPasses
<1>4. V2SkipsOnlyNoRoute
    BY DEF GateInv, AnsweredInv, V2SkipsOnlyNoRoute, SkippedMeansNoRoute, Render
<1> QED
    BY <1>2, <1>3, <1>4 DEF GateSafe, GateInv

\* The gate passes an engine that stayed only if it keeps every promise of the
\* profile, refuses it only if it breaks one, and skips the levels only without
\* a route, for every profile, engine and order of replies.
THEOREM GateIsSafe == ReadinessSpec => []GateSafe
BY GateStarts, GateStepKeeps, GateFollows, PTL DEF ReadinessSpec

\* Whatever was replaced meanwhile, the engine is healthy as it is passed.
THEOREM PassedIsHealthy == ReadinessSpec => PassesHealthy
<1> DEFINE Passes == gateStep' = "passed" /\ gateStep # "passed" => EngineHealthy /\ engine' = engine
<1>1. ASSUME [ReadinessNext]_readinessVars
      PROVE  Passes
  <2> SUFFICES ASSUME gateStep' = "passed", gateStep # "passed"
               PROVE  EngineHealthy /\ engine' = engine
      OBVIOUS
  <2>1. CheckHealthAgain
      BY <1>1 DEF readinessVars, ReadinessNext, GateSteps, EngineChanges, BeginGate, CheckHealth, CheckModels,
                  LaneReplies, RoundEnds, BadRound, ToolCall, RenderLevel, LevelsRendered, NothingRendered,
                  SkipAtOnce, RenderDefault, RenderOther, OthersRendered, Fail
  <2> QED
      BY <2>1 DEF CheckHealthAgain, StillHealthy, Fail, Keep
<1> QED
    BY <1>1, PTL DEF ReadinessSpec, PassesHealthy

-----------------------------------------------------------------------------
(* SendScreen.  StopInTime is not inductive: it needs that an iteration that is  *)
(* counted after the stop had its pass before it, which is what StopInv says,    *)
(* and that a process does not end before that first pass.  EndInv says at every *)
(* step what the two files and the workload will have come to when the worker    *)
(* reaches its end.                                                              *)

StopInv ==
    /\ atStop # -1 => stopFile
    /\ atStop # -1 /\ step = "watch" /\ watched => completed <= atStop
    /\ step = "watch" => completed < TargetCount
    /\ step \in {"boot", "ready"} => stateWord = "no_run" /\ atStop = -1 /\ completed = 0

EndInv ==
    /\ step \in {"boot", "ready", "head", "failed", "complete"} => Alive = {}
    /\ step = "watch" /\ ~watched => \A w \in Workload : proc[w] \in {"runs", "stuck"}
    /\ step = "watch" => \A w \in Workload : proc[w] # "none"
    /\ step \in {"head", "complete"} /\ completed > 0 => \A w \in Workload : proc[w] = "ok"
    /\ step \in {"state", "outcome", "kill", "wait"} => reason # "none"
    /\ step \in {"outcome", "kill", "wait"} => stateWord = StateOf(reason)
    /\ step \in {"kill", "wait"} => outcome = reason
    /\ step = "failed" => outcome \in {"workload_failed", "pool_not_healthy"}
    /\ step = "complete" => outcome = "completed" /\ completed = TargetCount

ScreenInv == ScreenSafe /\ StopInv /\ EndInv

LEMMA ScreenStarts == ScreenInit => ScreenInv
<1> SUFFICES ASSUME ScreenInit
             PROVE  ScreenInv
    OBVIOUS
<1> USE SendScreenAssumption DEF ScreenInit
<1>1. ScreenTypeOK
  <2>1. completed \in 0 .. TargetCount /\ atStop \in -1 .. TargetCount
      OBVIOUS
  <2>2. proc \in [Workload -> {"none", "runs", "stuck", "ok", "bad"}]
      OBVIOUS
  <2> QED
      BY <2>1, <2>2 DEF ScreenTypeOK
<1>2. Alive = {}
    BY DEF Alive
<1>3. StopInTime /\ EndIsSettled /\ StopInv
    BY DEF StopInTime, EndIsSettled, StopInv
<1>4. EndInv
    BY <1>2 DEF EndInv
<1> QED
    BY <1>1, <1>3, <1>4 DEF ScreenInv, ScreenSafe

\* The type of a state.
LEMMA ScreenTyped == ScreenInv /\ [ScreenNext]_screenVars => ScreenTypeOK'
<1> SUFFICES ASSUME ScreenInv, [ScreenNext]_screenVars
             PROVE  ScreenTypeOK'
    OBVIOUS
<1> USE SendScreenAssumption DEF ScreenInv, ScreenSafe, StopInv, ScreenTypeOK
<1>1. CASE ClearFiles \/ SetRunning
    BY <1>1 DEF ClearFiles, SetRunning
<1>2. CASE StartIteration
    BY <1>2 DEF StartIteration
<1>3. CASE Pass
    BY <1>3 DEF Pass
<1>4. CASE WriteState \/ WriteOutcome \/ WaitWorkloads
    BY <1>4 DEF WriteState, WriteOutcome, WaitWorkloads, StateOf
<1>5. CASE KillWorkloads
    BY <1>5 DEF KillWorkloads
<1>6. CASE Reap
    BY <1>6 DEF Reap, NextCount
<1>7. CASE CheckPool \/ WriteLast
    BY <1>7 DEF CheckPool, WriteLast
<1>8. ASSUME NEW w \in Workload, WorkloadEnds(w) \/ WorkloadSticks(w)
      PROVE  ScreenTypeOK'
    BY <1>8 DEF WorkloadEnds, WorkloadSticks
<1>9. CASE StopScreen
    BY <1>9 DEF StopScreen
<1>10. CASE UNCHANGED screenVars
    BY <1>10 DEF screenVars
<1> QED
    BY <1>1, <1>2, <1>3, <1>4, <1>5, <1>6, <1>7, <1>8, <1>9, <1>10 DEF ScreenNext, ScreenSteps
\* At most one iteration is counted after a stop.
LEMMA StopKept == ScreenInv /\ [ScreenNext]_screenVars => StopInTime' /\ StopInv'
<1> SUFFICES ASSUME ScreenInv, [ScreenNext]_screenVars
             PROVE  StopInTime' /\ StopInv'
    OBVIOUS
<1> USE SendScreenAssumption DEF ScreenInv, ScreenSafe, ScreenTypeOK, StopInTime, StopInv
<1>1. CASE ClearFiles \/ SetRunning
    BY <1>1 DEF ClearFiles, SetRunning
<1>2. CASE StartIteration
    BY <1>2 DEF StartIteration, MoreToDo
<1>3. CASE Pass
    BY <1>3 DEF Pass
<1>4. CASE WriteState \/ WriteOutcome \/ KillWorkloads \/ WaitWorkloads
    BY <1>4 DEF WriteState, WriteOutcome, KillWorkloads, WaitWorkloads
<1>5. CASE Reap
  <2>1. watched
      BY <1>5 DEF Reap, EndInv, Alive
  <2> QED
      BY <1>5, <2>1 DEF Reap, NextCount
<1>6. CASE CheckPool \/ WriteLast
    BY <1>6 DEF CheckPool, WriteLast
<1>7. ASSUME NEW w \in Workload, WorkloadEnds(w) \/ WorkloadSticks(w)
      PROVE  StopInTime' /\ StopInv'
    BY <1>7 DEF WorkloadEnds, WorkloadSticks
<1>8. CASE StopScreen
    BY <1>8 DEF StopScreen
<1>9. CASE UNCHANGED screenVars
    BY <1>9 DEF screenVars
<1> QED
    BY <1>1, <1>2, <1>3, <1>4, <1>5, <1>6, <1>7, <1>8, <1>9 DEF ScreenNext, ScreenSteps

\* A process that ends, or hangs, leaves what is said of the end as it is.
LEMMA ProcessKeepsEnd ==
    ASSUME ScreenInv, NEW w \in Workload, WorkloadEnds(w) \/ WorkloadSticks(w)
    PROVE  EndIsSettled' /\ EndInv'
<1>1. w \in Alive /\ step \notin {"boot", "ready", "head", "failed", "complete", "done"}
    BY DEF ScreenInv, ScreenSafe, EndIsSettled, EndInv, WorkloadEnds, WorkloadSticks, Alive
<1>2. /\ proc \in [Workload -> {"none", "runs", "stuck", "ok", "bad"}]
      /\ UNCHANGED <<step, watched, reason, stateWord, outcome, completed>>
    BY DEF ScreenInv, ScreenSafe, ScreenTypeOK, WorkloadEnds, WorkloadSticks
<1>3. ASSUME NEW u \in Workload
      PROVE  /\ proc[u] # "none" => proc'[u] # "none"
             /\ ~watched /\ proc[u] \in {"runs", "stuck"} => proc'[u] \in {"runs", "stuck"}
    BY <1>2 DEF WorkloadEnds, WorkloadSticks
<1> QED
    BY <1>1, <1>2, <1>3 DEF ScreenInv, EndIsSettled, EndInv, StateOf

\* What the worker's own steps do to the end.
LEMMA WorkerKeepsEnd == ScreenInv /\ (ScreenSteps \/ StopScreen) => EndIsSettled' /\ EndInv'
<1> SUFFICES ASSUME ScreenInv
             PROVE  ScreenSteps \/ StopScreen => EndIsSettled' /\ EndInv'
    OBVIOUS
<1> USE SendScreenAssumption DEF ScreenInv, ScreenSafe, EndInv, EndIsSettled
<1>0. /\ proc \in [Workload -> {"none", "runs", "stuck", "ok", "bad"}]
      /\ reason \in {"none", "thermal", "operator_stop", "failure"}
      /\ completed \in 0 .. TargetCount
    BY DEF ScreenTypeOK
<1>1. ASSUME UNCHANGED proc
      PROVE  Alive' = Alive
    BY <1>1 DEF Alive
<1>2. CASE ClearFiles \/ SetRunning
    BY <1>1, <1>2 DEF ClearFiles, SetRunning, StopInv
<1>3. CASE StartIteration
    BY <1>3 DEF StartIteration
<1>4. CASE Pass
    BY <1>1, <1>4 DEF Pass
<1>5. CASE WriteState \/ WriteOutcome
    BY <1>1, <1>5 DEF WriteState, WriteOutcome
<1>6. CASE KillWorkloads
    BY <1>6 DEF KillWorkloads
<1>7. CASE WaitWorkloads
    BY <1>0, <1>1, <1>7 DEF WaitWorkloads, Waited, StateOf, Stopping
<1>8. CASE Reap
  <2>1. Alive = {} /\ Alive' = {}
      BY <1>1, <1>8 DEF Reap
  <2>2. ~AnyFailed => \A w \in Workload : proc[w] = "ok"
      BY <1>0, <1>8, <2>1 DEF Reap, AnyFailed, Alive
  <2> QED
      BY <1>0, <1>8, <2>1, <2>2 DEF Reap
<1>9. CASE CheckPool
    BY <1>0, <1>1, <1>9 DEF CheckPool, MoreToDo
<1>10. CASE WriteLast
    BY <1>0, <1>1, <1>10 DEF WriteLast, Stopping
<1>11. CASE StopScreen
    BY <1>1, <1>11 DEF StopScreen
<1> QED
    BY <1>2, <1>3, <1>4, <1>5, <1>6, <1>7, <1>8, <1>9, <1>10, <1>11 DEF ScreenSteps

\* A screen that was asked to stop counts at most the iteration it was asked in, and what it
\* leaves behind agrees: its two files, its processes and its count (sn770-send-screen.sh).
THEOREM ScreensAreSafe == ScreenSpec => []ScreenSafe
<1>1. ScreenInv /\ [ScreenNext]_screenVars => ScreenInv'
  <2> SUFFICES ASSUME ScreenInv, [ScreenNext]_screenVars
               PROVE  ScreenInv'
      OBVIOUS
  <2>1. EndIsSettled' /\ EndInv'
    <3>1. CASE UNCHANGED screenVars
        BY <3>1 DEF screenVars, ScreenInv, ScreenSafe, EndIsSettled, EndInv, Alive
    <3> QED
        BY <3>1, ProcessKeepsEnd, WorkerKeepsEnd DEF ScreenNext
  <2> QED
      BY <2>1, ScreenTyped, StopKept DEF ScreenInv, ScreenSafe
<1>2. ScreenInv => ScreenSafe
    BY DEF ScreenInv
<1> QED
    BY <1>1, <1>2, ScreenStarts, PTL DEF ScreenSpec
-----------------------------------------------------------------------------
(* Qualification.  The properties speak of an ended run, or of its final word.   *)
(* WordInv follows the word from the verdict to the file, ShellInv gives the     *)
(* reason for which the main shell is where it is, and also when a trap has put  *)
(* finish between two of its commands; SeenInv keeps a failure that was seen in  *)
(* front of every later word, and FaultInv ties a reason that is on its way to   *)
(* the fault behind it.                                                          *)

Final == {"complete", "failed", "stopped"}
Earned == runTime /\ TargetsMet

CountInv ==
    /\ count \in [Measured -> Nat]
    /\ \A w \in Measured : at[w] = "run" => count[w] < MaxIterations

WordInv ==
    /\ main = "boot" => stateFile \in {"no_run", "running"}
    /\ finalized \in BOOLEAN /\ (finalized <=> stateFile \in Final)
    /\ main = "loop" => ~finalized
    /\ main = "done" => finalized
    /\ stateFile = "complete" => Earned
    /\ stateFile = "stopped" => stopRequest
    /\ stateFile = "failed" => failureReason # NoReason
    /\ main = "write" => \/ verdict = "failed" /\ failureReason # NoReason
                         \/ verdict = "stopped" /\ stopRequest

ShellInv ==
    /\ runTime \in BOOLEAN /\ stopRequest \in BOOLEAN /\ term \in BOOLEAN /\ (term => stopRequest)
    /\ main \in {"drain", "tally"} => Earned
    /\ main = "judge" => IsStopping \/ Earned
    /\ main = "finish" => IsStopping
    /\ main \in {"finish", "write"} /\ resume \in {"drain", "tally"} => Earned
    /\ main \in {"finish", "write"} /\ resume = "judge" => stopRequest

SeenInv ==
    /\ seenInTime \in BOOLEAN
    /\ seenInTime => failureReason # NoReason /\ main \in {"judge", "finish", "write", "done", "killed"}
    /\ seenInTime /\ main \in {"finish", "write"} => resume \in {"judge", "done"}
    /\ seenInTime /\ finalized => stateFile = "failed"
    /\ seenInTime /\ main = "write" => verdict = "failed"

FaultInv ==
    ~term => /\ failureReason \in ioFaults \cup {NoReason}
             /\ \A w \in Workers : at[w] \in {"failing", "writing", "mv"} => w \in ioFaults

QualInv == QualTypeOK /\ CountInv /\ WordInv /\ ShellInv /\ SeenInv /\ FaultInv

\* What a kill of some workers leaves of each.
LEMMA KilledLeaves ==
    ASSUME at \in [Workers -> {"check", "run", "failing", "writing", "mv", "gone"}],
           NEW ws \in SUBSET Workers, at' \in Killed(ws)
    PROVE  /\ at' \in [Workers -> {"check", "run", "failing", "writing", "mv", "gone"}]
           /\ \A w \in Workers : \/ at'[w] = at[w] \/ at'[w] = "gone"
                                 \/ at'[w] = "mv" /\ at[w] \in {"mv", "writing"}
<1>1. PICK stay \in SUBSET {w \in ws : at[w] = "writing"} :
        at' = [w \in Workers |-> IF w \notin ws THEN at[w]
                                 ELSE IF at[w] = "mv" \/ w \in stay THEN "mv" ELSE "gone"]
    BY DEF Killed
<1>2. \A w \in stay : at[w] = "writing"
    OBVIOUS
<1> QED
    BY <1>1, <1>2

LEMMA QualStarts == QualInit => QualInv
<1> SUFFICES ASSUME QualInit
             PROVE  QualInv
    OBVIOUS
<1> USE QualificationAssumption DEF QualInit
<1>1. /\ at \in [Workers -> {"check", "run", "failing", "writing", "mv", "gone"}]
      /\ \A w \in Workers : at[w] = "gone"
    OBVIOUS
<1>2. /\ count \in [Measured -> Nat]
      /\ \A w \in Measured : count[w] \in 0 .. MaxIterations /\ w \in Workers
    BY DEF Measured, Workers
<1>3. QualTypeOK /\ CountInv
    BY <1>1, <1>2 DEF QualTypeOK, CountInv, NoReason
<1>4. WordInv /\ ShellInv /\ SeenInv /\ FaultInv
    BY <1>1 DEF WordInv, ShellInv, SeenInv, FaultInv, NoReason, Final
<1> QED
    BY <1>3, <1>4 DEF QualInv

\* The three properties are what the parts of the invariant say of the end.
LEMMA QualImplied == QualInv => QualificationSafe
BY DEF QualInv, QualificationSafe, QualTypeOK, WordInv, SeenInv, FaultInv, FailedIsReal, FailureReported, EndedSaysSo, Final, Earned

\* The counts only grow, and to their bounds.
LEMMA QualCounts ==
    ASSUME QualInv, [QualNext]_qualVars
    PROVE  /\ CountInv' /\ \A w \in Measured : count'[w] \in 0 .. MaxIterations
           /\ \A w \in Measured : count'[w] >= count[w]
<1> USE QualificationAssumption DEF QualInv, QualTypeOK, CountInv
<1>1. Measured \subseteq Workers
    BY DEF Measured, Workers
<1>2. ASSUME UNCHANGED count, \A w \in Measured : at'[w] = "run" => at[w] = "run"
      PROVE  /\ CountInv' /\ \A w \in Measured : count'[w] \in 0 .. MaxIterations
             /\ \A w \in Measured : count'[w] >= count[w]
    BY <1>2
<1>3. ASSUME NEW w \in Workers, WorkerSteps(w) \/ ToolKilled(w) \/ WorkerKilled(w)
      PROVE  /\ CountInv' /\ \A m \in Measured : count'[m] \in 0 .. MaxIterations
             /\ \A m \in Measured : count'[m] >= count[m]
  <2>1. CASE WorkerChecks(w)
      BY <1>1, <2>1 DEF WorkerChecks, files
  <2>2. CASE ToolEnds(w)
      BY <1>1, <2>2 DEF ToolEnds
  <2>3. CASE ToolFails(w) \/ LooksForReason(w) \/ WritesReason(w) \/ ToolKilled(w)
      BY <1>1, <1>2, <2>3 DEF ToolFails, LooksForReason, WritesReason, ToolKilled, files
  <2>4. CASE WorkerKilled(w)
    <3>1. UNCHANGED count /\ \E next \in {"gone", "mv"} : at' = [at EXCEPT ![w] = next]
        BY <2>4 DEF WorkerKilled, AfterKill, files
    <3> QED
        BY <1>1, <1>2, <3>1
  <2> QED
      BY <1>3, <2>1, <2>2, <2>3, <2>4 DEF WorkerSteps
<1>4. CASE StartWorkers \/ MainKilled
  <2>1. UNCHANGED count /\ \A w \in Workers : at'[w] # "run"
      BY <1>4 DEF StartWorkers, MainKilled, files
  <2> QED
      BY <1>1, <1>2, <2>1
<1>5. CASE Judge
  <2>1. UNCHANGED count /\ \E ws \in SUBSET Workers : at' \in Killed(ws)
      BY <1>5 DEF Judge, files, Workers
  <2> QED
      BY <1>1, <1>2, <2>1, KilledLeaves
<1>6. CASE Boot \/ MainLoop \/ Drain \/ Tally \/ FinishDecides \/ FinishWrites
    BY <1>2, <1>6 DEF Boot, MainLoop, Drain, Tally, FinishDecides, FinishWrites, files
<1>7. CASE Elapse \/ StopAsked \/ TermSent \/ MainTrapped \/ UNCHANGED qualVars
    BY <1>2, <1>7 DEF Elapse, StopAsked, TermSent, MainTrapped, qualVars, files
<1> QED
    BY <1>3, <1>4, <1>5, <1>6, <1>7 DEF QualNext, MainSteps

\* What a worker's step leaves as it is.
LEMMA WorkerLeaves ==
    ASSUME NEW w \in Workers, WorkerSteps(w) \/ ToolKilled(w) \/ WorkerKilled(w)
    PROVE  /\ UNCHANGED <<mainVars, stateFile, stopRequest, runTime, term>>
           /\ main \notin {"done", "killed"}
           /\ UNCHANGED failureReason \/ failureReason' = w
BY DEF WorkerSteps, WorkerChecks, ToolEnds, ToolFails, LooksForReason, WritesReason, ToolKilled,
       WorkerKilled, files, mainVars, Ended

\* The stop, the clock and a recorded failure only go one way.
LEMMA QualGrows ==
    ASSUME QualInv, [QualNext]_qualVars
    PROVE  /\ (Earned => Earned') /\ (stopRequest => stopRequest') /\ (term => term')
           /\ (failureReason # NoReason => failureReason' # NoReason)
           /\ runTime' \in BOOLEAN /\ stopRequest' \in BOOLEAN /\ term' \in BOOLEAN /\ (term' => stopRequest')
<1>1. ASSUME NEW w \in Workers, WorkerSteps(w) \/ ToolKilled(w) \/ WorkerKilled(w)
      PROVE  UNCHANGED <<stopRequest, runTime, term>> /\ (failureReason # NoReason => failureReason' # NoReason)
    BY <1>1, WorkerLeaves DEF Workers, NoReason
<1>2. /\ (runTime => runTime') /\ (stopRequest => stopRequest') /\ (term => term')
      /\ (failureReason # NoReason => failureReason' # NoReason)
      /\ runTime' \in BOOLEAN /\ stopRequest' \in BOOLEAN /\ term' \in BOOLEAN /\ (term' => stopRequest')
  <2> USE DEF QualInv, ShellInv
  <2>1. CASE UNCHANGED <<stopRequest, runTime, term>> /\ (failureReason # NoReason => failureReason' # NoReason)
      BY <2>1
  <2>2. CASE Boot \/ StartWorkers \/ MainLoop \/ Judge \/ Drain \/ Tally \/ FinishDecides \/ FinishWrites
      BY <2>2 DEF Boot, StartWorkers, MainLoop, Judge, Drain, Tally, FinishDecides, FinishWrites, files, NoReason
  <2>3. CASE Elapse
      BY <2>3 DEF Elapse, files
  <2>4. CASE StopAsked \/ TermSent
      BY <2>4 DEF StopAsked, TermSent, files
  <2>5. CASE MainTrapped \/ MainKilled \/ UNCHANGED qualVars
      BY <2>5 DEF MainTrapped, MainKilled, qualVars, files
  <2> QED
      BY <1>1, <2>1, <2>2, <2>3, <2>4, <2>5 DEF QualNext, MainSteps
<1>3. TargetsMet => TargetsMet'
  <2>1. count \in [Measured -> Nat] /\ count' \in [Measured -> Nat] /\ Target \in Nat
      BY QualCounts, QualificationAssumption DEF QualInv, CountInv
  <2> QED
      BY <2>1, QualCounts DEF TargetsMet, Measured
<1> QED
    BY <1>2, <1>3 DEF Earned

\* The type of a state: "incomplete" is never the reason, for the loops only end by
\* themselves when the targets are met.
LEMMA QualTyped == QualInv /\ [QualNext]_qualVars => QualTypeOK'
<1> SUFFICES ASSUME QualInv, [QualNext]_qualVars
             PROVE  QualTypeOK'
    OBVIOUS
<1> DEFINE States == {"check", "run", "failing", "writing", "mv", "gone"}
           Rest == /\ stateFile' \in {"no_run", "running", "complete", "failed", "stopped"}
                   /\ failureReason' \in Workers \cup {NoReason}
                   /\ at' \in [Workers -> States]
                   /\ main' \in {"boot", "loop", "judge", "drain", "tally", "finish", "write", "done", "killed"}
                   /\ resume' \in {"judge", "drain", "tally", "done"}
<1> USE DEF QualInv, QualTypeOK
<1>1. ASSUME NEW w \in Workers, WorkerSteps(w) \/ ToolKilled(w) \/ WorkerKilled(w)
      PROVE  Rest
  <2>1. at' \in [Workers -> States]
    <3>1. \E next \in States : at' = [at EXCEPT ![w] = next]
        BY <1>1 DEF WorkerSteps, WorkerChecks, ToolEnds, ToolFails, LooksForReason, WritesReason, ToolKilled,
                    WorkerKilled, AfterKill
    <3> QED
        BY <3>1
  <2> QED
      BY <1>1, <2>1, WorkerLeaves DEF mainVars
<1>2. CASE Boot \/ StartWorkers \/ MainLoop \/ Drain
    BY <1>2 DEF Boot, StartWorkers, MainLoop, Drain, files, mainVars
<1>3. CASE Judge
  <2>1. \E ws \in SUBSET Workers : at' \in Killed(ws)
      BY <1>3 DEF Judge, Workers
  <2>2. at' \in [Workers -> States]
      BY <2>1, KilledLeaves
  <2> QED
      BY <1>3, <2>2 DEF Judge, files
<1>4. CASE Tally
    BY <1>4 DEF Tally, ShellInv, Earned
<1>5. CASE FinishDecides \/ FinishWrites
    BY <1>5 DEF FinishDecides, FinishWrites, files, WordInv
<1>6. CASE Elapse \/ StopAsked \/ TermSent
    BY <1>6 DEF Elapse, StopAsked, TermSent, files, mainVars
<1>7. CASE MainTrapped
    BY <1>7 DEF MainTrapped, files
<1>8. CASE MainKilled
    BY <1>8 DEF MainKilled, files
<1>9. CASE UNCHANGED qualVars
    BY <1>9 DEF qualVars
<1>10. Rest
    BY <1>1, <1>2, <1>3, <1>4, <1>5, <1>6, <1>7, <1>8, <1>9 DEF QualNext, MainSteps
<1> QED
    BY <1>10, QualCounts

\* Steps that touch neither the main shell nor the final word keep what it knows.
LEMMA OthersKeepShell ==
    ASSUME QualInv, [QualNext]_qualVars, UNCHANGED <<mainVars, stateFile>>
    PROVE  WordInv' /\ ShellInv' /\ SeenInv'
<1>1. UNCHANGED <<main, verdict, resume, finalized, seenInTime, stateFile>>
    BY DEF mainVars
<1>2. IsStopping => IsStopping'
    BY QualGrows DEF IsStopping
<1> QED
    BY <1>1, <1>2, QualGrows DEF QualInv, WordInv, ShellInv, SeenInv

\* A trap puts finish where the main shell is, with the command it goes on with.
LEMMA TrapKeepsShell ==
    ASSUME QualInv, MainTrapped
    PROVE  WordInv' /\ ShellInv' /\ SeenInv'
<1>1. /\ term /\ stopRequest /\ ~finalized /\ main \in {"loop", "judge", "drain", "tally"} /\ main' = "finish"
      /\ resume' \in {"judge", "done", "tally"}
      /\ resume' = "judge" => main \in {"loop", "judge"}
      /\ resume' = "tally" => main \in {"drain", "tally"}
      /\ UNCHANGED <<stateFile, failureReason, stopRequest, count, runTime, finalized, seenInTime, term>>
    BY DEF MainTrapped, QualInv, ShellInv, files
<1>2. Earned' = Earned /\ IsStopping'
    BY <1>1 DEF Earned, TargetsMet, IsStopping
<1> QED
    BY <1>1, <1>2 DEF QualInv, WordInv, ShellInv, SeenInv

\* The main shell's own commands.
LEMMA MainKeepsShell ==
    ASSUME QualInv, MainSteps \/ MainKilled
    PROVE  WordInv' /\ ShellInv' /\ SeenInv'
<1> DEFINE Keeps == WordInv' /\ ShellInv' /\ SeenInv'
<1>1. UNCHANGED <<stopRequest, runTime, count, term>>
    BY DEF MainSteps, MainKilled, Boot, StartWorkers, MainLoop, Judge, Drain, Tally, FinishDecides,
           FinishWrites, files
<1>2. Earned' = Earned /\ (IsStopping => IsStopping') /\ (failureReason # NoReason => failureReason' # NoReason)
    BY <1>1, QualGrows DEF Earned, TargetsMet, IsStopping, QualNext
<1> USE <1>1, <1>2 DEF QualInv, WordInv, ShellInv, SeenInv
<1>3. CASE Boot
    BY <1>3 DEF Boot, mainVars, Final
<1>4. CASE StartWorkers
    BY <1>4 DEF StartWorkers, files, Final
<1>5. CASE MainLoop
    BY <1>5 DEF MainLoop, LoopOver, Earned, files
<1>6. CASE Judge
    BY <1>6 DEF Judge, MustStop, IsStopping, files
<1>7. CASE Drain
    BY <1>7 DEF Drain, files
<1>8. CASE Tally
    BY <1>8 DEF Tally, Earned, Final
<1>9. CASE FinishDecides
    BY <1>9 DEF FinishDecides, Verdict, IsStopping, files, QualTypeOK
<1>10. CASE FinishWrites
    BY <1>10 DEF FinishWrites, Final, IsStopping, QualTypeOK
<1>11. CASE MainKilled
    BY <1>11 DEF MainKilled, files
<1> QED
    BY <1>3, <1>4, <1>5, <1>6, <1>7, <1>8, <1>9, <1>10, <1>11 DEF MainSteps

\* A reason that is given, or on its way, is that of a worker that met a fault.
LEMMA FaultsKept == QualInv /\ [QualNext]_qualVars => FaultInv'
<1> SUFFICES ASSUME QualInv, [QualNext]_qualVars, ~term'
             PROVE  /\ failureReason' \in ioFaults' \cup {NoReason}
                    /\ \A w \in Workers : at'[w] \in {"failing", "writing", "mv"} => w \in ioFaults'
    BY DEF FaultInv
<1>1. /\ ~term /\ failureReason \in ioFaults \cup {NoReason}
      /\ \A w \in Workers : at[w] \in {"failing", "writing", "mv"} => w \in ioFaults
      /\ at \in [Workers -> {"check", "run", "failing", "writing", "mv", "gone"}]
    BY QualGrows DEF QualInv, FaultInv, QualTypeOK
<1>2. ASSUME NEW w \in Workers, WorkerSteps(w) \/ ToolKilled(w) \/ WorkerKilled(w)
      PROVE  /\ failureReason' \in ioFaults' \cup {NoReason}
             /\ \A v \in Workers : at'[v] \in {"failing", "writing", "mv"} => v \in ioFaults'
    BY <1>1, <1>2 DEF WorkerSteps, WorkerChecks, ToolEnds, ToolFails, LooksForReason, WritesReason,
                      ToolKilled, WorkerKilled, files
<1>3. CASE Judge
  <2>1. UNCHANGED <<failureReason, ioFaults>> /\ \E ws \in SUBSET Workers : at' \in Killed(ws)
      BY <1>3 DEF Judge, files, Workers
  <2> QED
      BY <1>1, <2>1, KilledLeaves
<1>4. CASE Tally
    BY <1>1, <1>4 DEF Tally, QualInv, ShellInv, Earned
<1>5. CASE Boot \/ StartWorkers \/ MainLoop \/ Drain \/ FinishDecides \/ FinishWrites
    BY <1>1, <1>5 DEF Boot, StartWorkers, MainLoop, Drain, FinishDecides, FinishWrites, files
<1>6. CASE Elapse \/ StopAsked \/ TermSent \/ MainTrapped \/ MainKilled \/ UNCHANGED qualVars
    BY <1>1, <1>6 DEF Elapse, StopAsked, TermSent, MainTrapped, MainKilled, qualVars, files
<1> QED
    BY <1>2, <1>3, <1>4, <1>5, <1>6 DEF QualNext, MainSteps

\* What the state file of an ended run says is how the run ended: complete was earned, stopped
\* was asked for, failed is over a fault somebody met, and a failure that was seen in time is
\* said, for any targets and any number of failing tools (sn770-qualification-host.sh).
THEOREM QualificationsAreSafe == QualSpec => []QualificationSafe
<1>1. QualInv /\ [QualNext]_qualVars => QualInv'
  <2> SUFFICES ASSUME QualInv, [QualNext]_qualVars
               PROVE  QualInv'
      OBVIOUS
  <2>1. WordInv' /\ ShellInv' /\ SeenInv'
    <3>1. CASE Elapse \/ StopAsked \/ UNCHANGED qualVars
        BY <3>1, OthersKeepShell DEF Elapse, StopAsked, qualVars, files, mainVars
    <3>2. ASSUME NEW w \in Workers, WorkerSteps(w) \/ ToolKilled(w) \/ WorkerKilled(w)
          PROVE  UNCHANGED <<mainVars, stateFile>>
        BY <3>2, WorkerLeaves
    <3>3. CASE TermSent
      <4>1. CASE main = "boot"
          BY <3>3, <4>1, QualGrows DEF TermSent, QualInv, WordInv, ShellInv, SeenInv, files, Earned, TargetsMet
      <4>2. CASE main # "boot"
          BY <3>3, <4>2, OthersKeepShell DEF TermSent, files, mainVars
      <4> QED
          BY <4>1, <4>2
    <3> QED
        BY <3>1, <3>2, <3>3, OthersKeepShell, TrapKeepsShell, MainKeepsShell DEF QualNext
  <2> QED
      BY <2>1, QualTyped, QualCounts, FaultsKept DEF QualInv
<1> QED
    BY <1>1, QualStarts, QualImplied, PTL DEF QualSpec
-----------------------------------------------------------------------------
(* Healthchecks.  What a plan was confirmed for is what it is verified against,  *)
(* because nothing is sent unless a second survey is the first over again.  That *)
(* an undisturbed run verifies needs more: SyncInv keeps, for every declared     *)
(* check, the one bearer of its slug, as the survey saw it or as it was sent.    *)

Later == {"confirm", "again_checks", "again_channels", "send", "verify_checks", "verify_channels"}
Sending == {"send", "verify_checks", "verify_channels"}

\* Only a confirmed apply of a file that names each check once goes on, and it sends only
\* what a second survey agrees to.
PlanInv ==
    /\ pc # "idle" => result = "none"
    /\ pc \in {"plan_checks", "plan_channels"} /\ mode # "inspect" => ValidDeclaration(file)
    /\ pc \in Later => mode = "apply" /\ ValidDeclaration(file) /\ ~Refusals(planned)
    /\ pc \in Sending => before = planned
    /\ result = "verified" => before = planned /\ ~Refusals(planned) /\ ~Failures(after)
    /\ sent => pc \in Sending \cup {"idle"}
    /\ pc \in {"verify_checks", "verify_channels"} => todo = <<>>

\* The check of an entry is as the second survey saw it, or as it was sent.
SeenBefore(want) ==
    IF want.slug \in DOMAIN before
    THEN Bearers(want.slug) = {before[want.slug].uuid} /\ project[before[want.slug].uuid].status = before[want.slug].status
    ELSE Bearers(want.slug) = {}
SentAs(want) ==
    \E u \in Live :
       /\ Bearers(want.slug) = {u}
       /\ project[u].timing = want.timing /\ project[u].text = want.text /\ project[u].assigned = integrations
       /\ want.slug \in DOMAIN before => u = before[want.slug].uuid /\ project[u].status = before[want.slug].status

SentCount == Len(file) - Len(todo)
SyncInv ==
    quiet /\ ~flipped =>
       /\ pc \in {"again_channels", "verify_channels"} => read = project
       /\ pc \in Sending =>
             /\ Len(todo) <= Len(file)
             /\ \A j \in 1 .. Len(todo) : todo[j] = file[SentCount + j]
             /\ \A i \in 1 .. Len(file) : IF i <= SentCount THEN SentAs(file[i]) ELSE SeenBefore(file[i])
HcInv == HcTypeOK /\ DOMAIN read \subseteq 1 .. issued /\ PlanInv /\ SyncInv /\ QuietRunVerifies

Entries == [slug : Slugs, timing : Timings, text : Texts]
LEMMA FileIsSeq == HcTypeOK => file \in Seq(Entries) /\ \A i \in 1 .. Len(file) : file[i] \in Entries
<1> SUFFICES ASSUME HcTypeOK
             PROVE  file \in Seq(Entries)
    OBVIOUS
<1>1. <<>> \in Seq(Entries)
    OBVIOUS
<1> QED
    BY <1>1, HcAssumption DEF HcTypeOK, Entries

LEMMA HcStarts == HcInit => HcInv
<1> SUFFICES ASSUME HcInit
             PROVE  HcInv
    OBVIOUS
<1>1. project \in Seq(Checks)
    BY ProjectsAssumption DEF HcInit
<1>2. /\ project \in [Live -> Checks] /\ Live = 1 .. Len(project) /\ Len(project) \in Nat
    BY <1>1 DEF Live
<1>3. Cardinality(Live) = Len(project)
  <2>1. Cardinality(1 .. Len(project)) = IF 1 > Len(project) THEN 0 ELSE Len(project) - 1 + 1
      BY <1>2, FS_Interval
  <2> QED
      BY <1>2, <2>1
<1>4. issued \in Nat /\ Live \subseteq 1 .. issued
    BY <1>2, <1>3 DEF HcInit
<1>5. HcTypeOK
  <2>1. file \in Files \cup {<<>>} /\ todo \in Seq([slug : Slugs, timing : Timings, text : Texts])
      BY DEF HcInit
  <2>2. {sent, quiet, flipped} \subseteq BOOLEAN
      BY DEF HcInit
  <2> QED
      BY <1>2, <1>4, <2>1, <2>2, HcAssumption DEF HcInit, HcTypeOK
<1>6. DOMAIN read \subseteq 1 .. issued
    BY DEF HcInit
<1> QED
    BY <1>5, <1>6 DEF HcInit, HcInv, PlanInv, SyncInv, QuietRunVerifies, Later, Sending

\* One check of the project is written, or a new one given out.
LEMMA WithKeepsTypes ==
    ASSUME HcTypeOK, NEW u \in Live \cup {issued + 1}, NEW c \in Checks, project' = With(u, c),
           issued' = IF u \in Live THEN issued ELSE issued + 1
    PROVE  /\ (project \in [Live -> Checks] /\ Live \subseteq 1 .. issued /\ issued \in Nat)'
           /\ Live' = Live \cup {u} /\ project'[u] = c
           /\ \A x \in Live \ {u} : project'[x] = project[x]
           /\ 1 .. issued \subseteq 1 .. issued'
<1>1. project \in [Live -> Checks] /\ Live \subseteq 1 .. issued /\ issued \in Nat
    BY DEF HcTypeOK
<1>2. DOMAIN project' = Live \cup {u}
    BY DEF With
<1>3. Live' = Live \cup {u}
    BY <1>2 DEF Live
<1>4. project' \in [Live \cup {u} -> Checks] /\ project'[u] = c /\ \A x \in Live \ {u} : project'[x] = project[x]
    BY <1>1 DEF With
<1>5. issued' \in Nat /\ 1 .. issued \subseteq 1 .. issued' /\ Live \cup {u} \subseteq 1 .. issued'
    BY <1>1
<1> QED
    BY <1>3, <1>4, <1>5

\* What the plan says is not touched by what others do.
LEMMA PlanStands ==
    ASSUME PlanInv, UNCHANGED <<pc, mode, file, planned, before, after, result, sent, todo>>
    PROVE  PlanInv'
<1>1. Refusals(planned)' <=> Refusals(planned)
    BY DEF Refusals
<1>2. Failures(after)' <=> Failures(after)
    BY DEF Failures, Matches
<1>3. ValidDeclaration(file)' <=> ValidDeclaration(file)
    BY DEF ValidDeclaration
<1> QED
    BY <1>1, <1>2, <1>3 DEF PlanInv

\* Somebody else edits the project.
LEMMA OthersKeep ==
    ASSUME HcInv, SomeoneEdits \/ SomeoneCreates \/ SomeoneDeletes \/ IntegrationsChange
    PROVE  HcInv'
<1>1. /\ quiet' = FALSE /\ changes' \in 0 .. MaxChanges
      /\ UNCHANGED <<pc, mode, file, read, planned, before, after, todo, result, sent, flipped, faults>>
    BY HcAssumption DEF HcInv, HcTypeOK, SomeoneEdits, SomeoneCreates, SomeoneDeletes, IntegrationsChange, SomeoneElse, surveys
<1>2. /\ (project \in [Live -> Checks] /\ Live \subseteq 1 .. issued /\ issued \in Nat)'
      /\ integrations' \subseteq Channels /\ 1 .. issued \subseteq 1 .. issued'
  <2>0. HcTypeOK /\ project \in [Live -> Checks] /\ Live \subseteq 1 .. issued /\ issued \in Nat /\ integrations \subseteq Channels
      BY DEF HcInv, HcTypeOK
  <2>1. CASE SomeoneEdits
    <3>1. PICK u \in Live, c \in Checks : project' = With(u, c)
        BY <2>1 DEF SomeoneEdits
    <3>2. issued' = IF u \in Live THEN issued ELSE issued + 1
        BY <2>1, <3>1 DEF SomeoneEdits
    <3> QED
        BY <2>0, <2>1, <3>1, <3>2, WithKeepsTypes DEF SomeoneEdits
  <2>2. CASE SomeoneCreates
    <3>1. PICK slug \in Slugs, timing \in Timings, text \in Texts :
             project' = With(issued + 1, [slug |-> slug, timing |-> timing, text |-> text, assigned |-> integrations, status |-> "down"])
        BY <2>2 DEF SomeoneCreates
    <3>2. [slug |-> slug, timing |-> timing, text |-> text, assigned |-> integrations, status |-> "down"] \in Checks
        BY <2>0 DEF Checks, Statuses
    <3>3. issued' = IF issued + 1 \in Live THEN issued ELSE issued + 1
        BY <2>0, <2>2 DEF SomeoneCreates
    <3> QED
        BY <2>0, <2>2, <3>1, <3>2, <3>3, WithKeepsTypes DEF SomeoneCreates
  <2>3. CASE SomeoneDeletes
    <3>1. PICK u \in Live : project' = [x \in Live \ {u} |-> project[x]]
        BY <2>3 DEF SomeoneDeletes
    <3>2. Live' = Live \ {u}
        BY <3>1 DEF Live
    <3> QED
        BY <2>0, <2>3, <3>1, <3>2 DEF SomeoneDeletes
  <2>4. CASE IntegrationsChange
    <3>1. PICK c \in Channels :
             \/ integrations' = integrations \cup {c} /\ UNCHANGED project
             \/ integrations' = integrations \ {c}
                /\ project' = [u \in Live |-> [project[u] EXCEPT !.assigned = @ \ {c}]]
        BY <2>4 DEF IntegrationsChange
    <3>2. \A u \in Live : [project[u] EXCEPT !.assigned = @ \ {c}] \in Checks
        BY <2>0 DEF Checks
    <3>3. Live' = Live /\ project' \in [Live -> Checks]
        BY <2>0, <3>1, <3>2 DEF Live
    <3> QED
        BY <2>0, <2>4, <3>1, <3>3 DEF IntegrationsChange
  <2> QED
      BY <2>1, <2>2, <2>3, <2>4
<1>3. HcTypeOK'
  <2>1. ({sent, quiet, flipped} \subseteq BOOLEAN)'
      BY <1>1 DEF HcInv, HcTypeOK
  <2> QED
      BY <1>1, <1>2, <2>1 DEF HcInv, HcTypeOK
<1>4. PlanInv'
    BY <1>1, PlanStands DEF HcInv
<1> QED
    BY <1>1, <1>2, <1>3, <1>4 DEF HcInv, SyncInv, QuietRunVerifies

\* A run begins, and its steps up to the confirmation.
LEMMA BeginKeepsSync ==
    ASSUME HcInv, NEW m \in {"preview", "inspect", "apply"}, NEW f \in Files, Begin(m, f)
    PROVE  HcInv'
<1> USE DEF HcInv
<1>1. /\ UNCHANGED <<project, issued, integrations, changes, faults>> /\ mode' = m /\ file' = f
      /\ read' = <<>> /\ todo' = <<>> /\ ~sent' /\ sent' = FALSE /\ quiet' = TRUE /\ flipped' = FALSE
      /\ (pc' = "idle" /\ result' = "refused") \/ (pc' = "plan_checks" /\ result' = "none")
    BY DEF Begin, Stop, world
<1>2. DOMAIN read' = {}
    BY <1>1
<1>3. HcTypeOK'
  <2>1. UNCHANGED Live /\ pc' # "send" /\ result' \in {"none", "refused"}
      BY <1>1 DEF Live
  <2>2. ({sent, quiet, flipped} \subseteq BOOLEAN)'
      BY <1>1
  <2>3. todo' \in Seq([slug : Slugs, timing : Timings, text : Texts])
      BY <1>1
  <2> QED
      BY <1>1, <2>1, <2>2, <2>3 DEF HcTypeOK
<1>4. PlanInv' /\ SyncInv' /\ QuietRunVerifies'
  <2>1. pc' = "plan_checks" /\ mode' # "inspect" => ValidDeclaration(file)'
      BY <1>1 DEF Begin, Stop, ValidDeclaration
  <2> QED
    BY <1>1, <2>1 DEF PlanInv, SyncInv, QuietRunVerifies, Later, Sending
<1> QED
    BY <1>1, <1>2, <1>3, <1>4

LEMMA PlanKeeps ==
    ASSUME HcInv, GetChecks \/ ShowPlan \/ Confirm \/ Decline
    PROVE  HcInv'
<1> USE DEF HcInv
<1>1. UNCHANGED <<project, issued, integrations, mode, file, before, after, todo, sent, quiet, flipped, changes, faults>>
    BY DEF GetChecks, ShowPlan, Confirm, Decline, world, surveys, history
<1>2. Live' = Live
    BY <1>1 DEF Live
<1>3. /\ \A slug : Bearers(slug)' = Bearers(slug)
      /\ ValidDeclaration(file)' <=> ValidDeclaration(file)
      /\ Failures(after)' <=> Failures(after)
    BY <1>1 DEF Bearers, Live, ValidDeclaration, Failures, Matches
<1>4. \A want : (SentAs(want)' <=> SentAs(want)) /\ (SeenBefore(want)' <=> SeenBefore(want))
    BY <1>1, <1>2, <1>3 DEF SentAs, SeenBefore
<1>5. SentCount' = SentCount
    BY <1>1 DEF SentCount
<1>6. CASE GetChecks
  <2>1. read' = project /\ UNCHANGED <<planned, result>>
      BY <1>6 DEF GetChecks
  <2>2. Refusals(planned)' <=> Refusals(planned)
      BY <1>1, <2>1 DEF Refusals
  <2>3. HcTypeOK' /\ DOMAIN read' \subseteq 1 .. issued'
      BY <1>1, <1>2, <1>6, <2>1 DEF HcTypeOK, GetChecks, Live
  <2>4. PlanInv'
      BY <1>1, <1>3, <1>6, <2>1, <2>2 DEF PlanInv, GetChecks, Later, Sending
  <2>5. SyncInv'
      BY <1>1, <1>4, <1>5, <1>6, <2>1 DEF SyncInv, GetChecks, Sending
  <2> QED
      BY <1>1, <1>6, <2>3, <2>4, <2>5 DEF QuietRunVerifies, GetChecks
<1>7. CASE ShowPlan \/ Confirm \/ Decline
  <2>1. pc \notin Sending /\ sent = FALSE /\ UNCHANGED read
      BY <1>7 DEF ShowPlan, Confirm, Decline, Sending, PlanInv, HcTypeOK, surveys
  <2>2. pc' \in {"idle", "confirm", "again_checks"} /\ result' \in {result, "shown", "refused"}
      BY <1>7 DEF ShowPlan, Confirm, Decline, Stop
  <2>3. HcTypeOK'
      BY <1>1, <1>2, <2>2 DEF HcTypeOK
  <2>4. PlanInv'
    <3>1. CASE ShowPlan
      <4>1. /\ pc' = "confirm" => mode \notin {"inspect", "preview"} /\ planned' = Survey /\ ~Refusals(Survey)
            /\ result' # "verified" /\ pc' \in {"idle", "confirm"} /\ (pc' = "confirm" => result' = result)
            /\ pc = "plan_channels"
          BY <3>1 DEF ShowPlan, Stop, PlanInv
      <4>2. PICK p : p = Survey
          OBVIOUS
      <4>3. Refusals(p)' <=> Refusals(p)
          BY <1>1 DEF Refusals
      <4>4. pc' = "confirm" => planned' = p /\ ~Refusals(planned)'
          BY <4>1, <4>2, <4>3 DEF Refusals
      <4> QED
          BY <1>1, <1>3, <2>1, <4>1, <4>4 DEF PlanInv, Later, Sending, HcTypeOK
    <3>2. CASE Confirm \/ Decline
      <4>1. UNCHANGED planned
          BY <3>2 DEF Confirm, Decline, surveys
      <4>2. Refusals(planned)' <=> Refusals(planned)
          BY <1>1, <4>1 DEF Refusals
      <4> QED
          BY <1>1, <1>3, <3>2, <4>1, <4>2 DEF PlanInv, Confirm, Decline, Stop, Later, Sending
    <3> QED
        BY <1>7, <3>1, <3>2
  <2>5. SyncInv' /\ QuietRunVerifies'
      BY <1>1, <2>1, <2>2 DEF SyncInv, QuietRunVerifies, Sending
  <2> QED
      BY <1>1, <2>1, <2>3, <2>4, <2>5
<1> QED
    BY <1>6, <1>7

\* At most one check is listed under a declared slug, or the survey is refused.
LEMMA OneListed ==
    ASSUME DOMAIN read \subseteq 1 .. issued, issued \in Nat, NEW slug \in Wanted, ~Ambiguous
    PROVE  \A x, y \in Listed(slug) : x = y
<1>1. Listed(slug) \subseteq 1 .. issued
    BY DEF Listed
<1>2. IsFiniteSet(Listed(slug))
  <2>1. IsFiniteSet(1 .. issued)
      BY FS_Interval
  <2> QED
      BY <1>1, <2>1, FS_Subset
<1>3. Cardinality(Listed(slug)) \in Nat
    BY <1>2, FS_CardinalityType
<1>4. ~(Cardinality(Listed(slug)) > 1)
    BY DEF Ambiguous
<1>5. SUFFICES ASSUME NEW x \in Listed(slug), NEW y \in Listed(slug), x # y
               PROVE  FALSE
    OBVIOUS
<1>6. IsFiniteSet({x}) /\ Cardinality({x}) = 1
    BY FS_Singleton
<1>7. Cardinality({x} \cup {y}) = 2
  <2>1. y \notin {x} /\ 1 + 1 = 2
      BY <1>5
  <2> QED
      BY <1>6, <2>1, FS_AddElement
<1>8. Cardinality({x} \cup {y}) <= Cardinality(Listed(slug))
    BY <1>2, <1>5, FS_Subset
<1> QED
    BY <1>3, <1>4, <1>7, <1>8

\* What a survey says of a project that has not changed since it was read.
LEMMA SurveyIsProject ==
    ASSUME HcTypeOK, DOMAIN read \subseteq 1 .. issued, read = project, ~Ambiguous, NEW slug \in Wanted
    PROVE  /\ slug \notin DOMAIN Survey => Bearers(slug) = {}
           /\ slug \in DOMAIN Survey =>
                /\ Bearers(slug) = {Survey[slug].uuid}
                /\ Survey[slug].status = project[Survey[slug].uuid].status
                /\ Survey[slug].settings = Managed(project[Survey[slug].uuid], integrations)
<1>1. issued \in Nat
    BY DEF HcTypeOK
<1>2. Listed(slug) = Bearers(slug)
    BY DEF Listed, Bearers, Live
<1>3. \A x, y \in Bearers(slug) : x = y
    BY <1>1, <1>2, OneListed
<1>4. DOMAIN Survey = {s \in Wanted : Listed(s) # {}}
    BY DEF Survey
<1>5. CASE Bearers(slug) = {}
    BY <1>2, <1>4, <1>5
<1>6. CASE Bearers(slug) # {}
  <2>1. slug \in DOMAIN Survey
      BY <1>2, <1>4, <1>6
  <2>2. PICK u : u = CHOOSE x \in Listed(slug) : TRUE
      OBVIOUS
  <2>3. u \in Bearers(slug)
      BY <1>2, <1>6, <2>2
  <2>4. Survey[slug] = [uuid |-> u, settings |-> Managed(read[u], integrations), status |-> read[u].status]
      BY <1>4, <2>1, <2>2 DEF Survey
  <2>5. Bearers(slug) = {u}
      BY <1>3, <2>3
  <2> QED
      BY <2>1, <2>4, <2>5
<1> QED
    BY <1>5, <1>6

\* The second survey.
LEMMA SurveyKeeps ==
    ASSUME HcInv, SurveyAgain
    PROVE  HcInv'
<1> USE DEF HcInv
<1>1. /\ UNCHANGED <<project, issued, integrations, mode, file, read, planned, after, sent, quiet, flipped, changes, faults>>
      /\ pc = "again_channels" /\ sent = FALSE /\ result = "none"
    BY DEF SurveyAgain, world, history, PlanInv, Sending, HcTypeOK
<1>2. UNCHANGED Live /\ DOMAIN read' \subseteq 1 .. issued'
    BY <1>1 DEF Live
<1>3. (Refusals(planned)' <=> Refusals(planned)) /\ (ValidDeclaration(file)' <=> ValidDeclaration(file))
    BY <1>1 DEF Refusals, ValidDeclaration
<1>4. QuietRunVerifies'
    BY <1>1 DEF QuietRunVerifies
<1>5. CASE pc' = "idle"
  <2>1. result' = "refused" /\ UNCHANGED todo
      BY <1>5 DEF SurveyAgain, Stop, AfterSend
  <2>2. HcTypeOK'
      BY <1>1, <1>2, <1>5, <2>1 DEF HcTypeOK
  <2>3. PlanInv' /\ SyncInv'
      BY <1>1, <1>5, <2>1 DEF PlanInv, SyncInv, Later, Sending
  <2> QED
      BY <1>2, <1>4, <2>2, <2>3
<1>6. CASE pc' # "idle"
  <2>1. /\ ~Ambiguous /\ before' = Survey /\ Survey = planned /\ todo' = file /\ UNCHANGED result
        /\ pc' = AfterSend(file)
      BY <1>6 DEF SurveyAgain, Stop, Settings
  <2>2. file \in Seq(Entries)
      BY FileIsSeq
  <2>3. pc' \in {"send", "verify_checks"} /\ (pc' = "send" <=> file # <<>>)
      BY <2>1 DEF AfterSend
  <2>4. HcTypeOK'
    <3>1. todo' \in Seq([slug : Slugs, timing : Timings, text : Texts]) /\ (pc' = "send" => todo' # <<>>)
        BY <2>1, <2>2, <2>3 DEF Entries
    <3> QED
        BY <1>1, <1>2, <2>1, <2>3, <3>1 DEF HcTypeOK
  <2>5. PlanInv'
      BY <1>1, <1>3, <2>1, <2>3 DEF PlanInv, Later, Sending
  <2>6. SyncInv'
    <3> SUFFICES ASSUME quiet', ~flipped'
                 PROVE  (/\ Len(todo) <= Len(file)
                         /\ \A j \in 1 .. Len(todo) : todo[j] = file[SentCount + j]
                         /\ \A i \in 1 .. Len(file) : IF i <= SentCount THEN SentAs(file[i]) ELSE SeenBefore(file[i]))'
        BY <2>3 DEF SyncInv
    <3>1. read = project
        BY <1>1 DEF SyncInv
    <3>2. SentCount' = 0 /\ Len(file) \in Nat
        BY <1>1, <2>1, <2>2 DEF SentCount
    <3>3. ASSUME NEW i \in 1 .. Len(file)
          PROVE  SeenBefore(file[i])'
      <4>1. file[i].slug \in Wanted
          BY <2>2 DEF Wanted
      <4>2. Bearers(file[i].slug)' = Bearers(file[i].slug)
          BY <1>1 DEF Bearers, Live
      <4>3. PICK slug : slug = file[i].slug
          OBVIOUS
      <4>4. /\ slug \notin DOMAIN Survey => Bearers(slug) = {}
            /\ slug \in DOMAIN Survey =>
                  Bearers(slug) = {Survey[slug].uuid} /\ Survey[slug].status = project[Survey[slug].uuid].status
          BY <2>1, <3>1, <4>1, <4>3, SurveyIsProject
      <4> QED
          BY <1>1, <2>1, <4>2, <4>3, <4>4 DEF SeenBefore
    <3> QED
        BY <1>1, <2>1, <3>2, <3>3
  <2> QED
      BY <1>2, <1>4, <2>4, <2>5, <2>6
<1> QED
    BY <1>5, <1>6

\* What one request may do to the project; a check it makes is not a protected one.
LEMMA ApplyTypes ==
    ASSUME HcTypeOK, NEW want \in Entries, NEW status, Apply(want, status)
    PROVE  /\ (project \in [Live -> Checks] /\ Live \subseteq 1 .. issued /\ issued \in Nat)'
           /\ flipped' \in BOOLEAN /\ (flipped => flipped') /\ 1 .. issued \subseteq 1 .. issued'
           /\ \A u \in Live' \ Live : project'[u].slug \notin Protected
<1>1. /\ project \in [Live -> Checks] /\ Live \subseteq 1 .. issued /\ issued \in Nat /\ integrations \subseteq Channels
      /\ flipped \in BOOLEAN
    BY DEF HcTypeOK
<1>2. CASE status = 200
  <2>0. PICK u \in Addressed(want) : \E c \in Updated(project[u], want) :
           /\ project' = With(u, c) /\ flipped' = (flipped \/ c.status # project[u].status)
      BY <1>2 DEF Apply
  <2>1. PICK c \in Updated(project[u], want) :
           /\ project' = With(u, c) /\ flipped' = (flipped \/ c.status # project[u].status)
      BY <2>0
  <2>2. u \in Live /\ issued' = issued
      BY <1>2 DEF Addressed, Bearers, Apply
  <2>3. c \in Checks
      BY <1>1, <2>1, <2>2 DEF Updated, Checks, Entries, Statuses
  <2>4. issued' = IF u \in Live THEN issued ELSE issued + 1
      BY <2>2
  <2>5. /\ (project \in [Live -> Checks] /\ Live \subseteq 1 .. issued /\ issued \in Nat)' /\ Live' = Live \cup {u}
        /\ 1 .. issued \subseteq 1 .. issued'
      BY <2>1, <2>2, <2>3, <2>4, WithKeepsTypes
  <2> QED
      BY <1>1, <2>1, <2>2, <2>5
<1>3. CASE status = 201
  <2>1. PICK c : c = [slug |-> want.slug, timing |-> want.timing, text |-> want.text, assigned |-> integrations,
                      status |-> "down"]
      OBVIOUS
  <2>2. project' = With(issued + 1, c) /\ issued' = issued + 1 /\ flipped' = flipped /\ MayCreate(want)
      BY <1>3, <2>1 DEF Apply
  <2>3. c \in Checks /\ c.slug \notin Protected
      BY <1>1, <2>1, <2>2 DEF Checks, Entries, Statuses, MayCreate
  <2>4. issued + 1 \notin Live
      BY <1>1
  <2>5. issued' = IF issued + 1 \in Live THEN issued ELSE issued + 1
      BY <2>2, <2>4
  <2>6. /\ (project \in [Live -> Checks] /\ Live \subseteq 1 .. issued /\ issued \in Nat)'
        /\ Live' = Live \cup {issued + 1} /\ project'[issued + 1] = c /\ 1 .. issued \subseteq 1 .. issued'
      BY <2>2, <2>3, <2>5, WithKeepsTypes
  <2> QED
      BY <1>1, <2>2, <2>3, <2>6
<1>4. CASE status = 404
  <2>1. UNCHANGED <<project, issued, flipped>>
      BY <1>4 DEF Apply
  <2> QED
      BY <1>1, <2>1 DEF Live
<1> QED
    BY <1>2, <1>3, <1>4 DEF Apply

\* A request about a check that is as the survey saw it is answered as expected, leaves
\* the check as it was sent, and no other check is touched.
LEMMA ApplyExpected ==
    ASSUME HcTypeOK, NEW want \in Entries, NEW status, Apply(want, status), ~flipped', UNCHANGED <<before, integrations>>,
           SeenBefore(want), want.slug \in Protected => want.slug \in DOMAIN before
    PROVE  /\ status = Expected(want)
           /\ SentAs(want)'
           /\ \A slug : slug # want.slug => /\ Bearers(slug)' = Bearers(slug)
                                            /\ \A u \in Bearers(slug) : project'[u] = project[u]
<1>1. /\ project \in [Live -> Checks] /\ Live \subseteq 1 .. issued /\ issued \in Nat /\ integrations \subseteq Channels
    BY DEF HcTypeOK
<1>2. Addressed(want) = Bearers(want.slug)
  <2>1. CASE want.slug \in Protected
      BY <2>1 DEF Addressed, SeenBefore, Bearers
  <2>2. CASE want.slug \notin Protected
      BY <2>2 DEF Addressed
  <2> QED
      BY <2>1, <2>2
<1>3. CASE want.slug \in DOMAIN before
  <2>1. PICK v : v = before[want.slug].uuid
      OBVIOUS
  <2>2. Bearers(want.slug) = {v} /\ project[v].status = before[want.slug].status
      BY <1>3, <2>1 DEF SeenBefore
  <2>3. status = 200
      BY <1>2, <2>2 DEF Apply
  <2>4. PICK c \in Updated(project[v], want) :
           /\ project' = With(v, c) /\ flipped' = (flipped \/ c.status # project[v].status) /\ issued' = issued
      BY <1>2, <2>2, <2>3 DEF Apply
  <2>5. v \in Live /\ project[v].slug = want.slug /\ project[v] \in Checks
      BY <1>1, <2>2 DEF Bearers
  <2>6. /\ c \in Checks /\ c.slug = want.slug /\ c.timing = want.timing /\ c.text = want.text
        /\ c.assigned = integrations /\ c.status = project[v].status
    <3>1. c.status = project[v].status
        BY <2>4, Zenon
    <3>2. project[v].status \in Statuses
        BY <2>5 DEF Checks
    <3>3. PICK st \in Statuses : c = [slug |-> want.slug, timing |-> want.timing, text |-> want.text,
                                     assigned |-> integrations, status |-> st]
        BY <2>4, <3>2 DEF Updated
    <3> QED
        BY <1>1, <3>1, <3>3 DEF Checks, Entries
  <2>7. issued' = IF v \in Live THEN issued ELSE issued + 1
      BY <2>4, <2>5
  <2>8. Live' = Live \cup {v} /\ project'[v] = c /\ \A x \in Live \ {v} : project'[x] = project[x]
      BY <2>4, <2>5, <2>6, <2>7, WithKeepsTypes
  <2>9. UNCHANGED Live
      BY <2>5, <2>8
  <2>10. \A slug : Bearers(slug)' = Bearers(slug)
      BY <2>5, <2>6, <2>8, <2>9 DEF Bearers
  <2>11. SentAs(want)'
      BY <2>1, <2>2, <2>5, <2>6, <2>8, <2>9, <2>10 DEF SentAs
  <2>12. \A slug : slug # want.slug => \A u \in Bearers(slug) : project'[u] = project[u]
      BY <2>5, <2>8 DEF Bearers
  <2> QED
      BY <1>3, <2>3, <2>10, <2>11, <2>12 DEF Expected
<1>4. CASE want.slug \notin DOMAIN before
  <2>1. Bearers(want.slug) = {} /\ Addressed(want) = {} /\ MayCreate(want)
      BY <1>2, <1>4 DEF SeenBefore, MayCreate
  <2>2. status = 201
      BY <2>1 DEF Apply
  <2>3. PICK c : c = [slug |-> want.slug, timing |-> want.timing, text |-> want.text, assigned |-> integrations,
                      status |-> "down"]
      OBVIOUS
  <2>4. PICK v : v = issued + 1
      OBVIOUS
  <2>5. project' = With(v, c) /\ issued' = issued + 1
      BY <2>2, <2>3, <2>4 DEF Apply
  <2>6. c \in Checks /\ v \notin Live
      BY <1>1, <2>3, <2>4 DEF Checks, Entries, Statuses
  <2>7. issued' = IF v \in Live THEN issued ELSE issued + 1
      BY <2>5, <2>6
  <2>8. Live' = Live \cup {v} /\ project'[v] = c /\ \A x \in Live \ {v} : project'[x] = project[x]
      BY <2>4, <2>5, <2>6, <2>7, WithKeepsTypes
  <2>9. Bearers(want.slug)' = {v}
      BY <2>1, <2>3, <2>6, <2>8 DEF Bearers
  <2>10. SentAs(want)'
      BY <1>4, <2>3, <2>8, <2>9 DEF SentAs
  <2>11. \A slug : slug # want.slug => /\ Bearers(slug)' = Bearers(slug)
                                       /\ \A u \in Bearers(slug) : project'[u] = project[u]
      BY <2>3, <2>6, <2>8 DEF Bearers
  <2> QED
      BY <1>4, <2>2, <2>10, <2>11 DEF Expected
<1> QED
    BY <1>3, <1>4

\* An entry none of whose bearers was touched stands as it stood.
LEMMA EntryStands ==
    ASSUME NEW want, UNCHANGED <<before, integrations>>, Bearers(want.slug)' = Bearers(want.slug),
           \A u \in Bearers(want.slug) : project'[u] = project[u]
    PROVE  (SentAs(want) => SentAs(want)') /\ (SeenBefore(want) => SeenBefore(want)')
<1>1. \A u \in Bearers(want.slug) : u \in Live'
    BY DEF Bearers
<1>2. ASSUME SentAs(want)
      PROVE  SentAs(want)'
  <2>1. PICK u \in Live :
           /\ Bearers(want.slug) = {u}
           /\ project[u].timing = want.timing /\ project[u].text = want.text /\ project[u].assigned = integrations
           /\ want.slug \in DOMAIN before => u = before[want.slug].uuid /\ project[u].status = before[want.slug].status
      BY <1>2 DEF SentAs
  <2>2. u \in Live' /\ project'[u] = project[u]
      BY <1>1, <2>1
  <2> QED
      BY <2>1, <2>2 DEF SentAs
<1>3. ASSUME SeenBefore(want)
      PROVE  SeenBefore(want)'
    BY <1>3 DEF SeenBefore
<1> QED
    BY <1>2, <1>3

\* A check is sent.
LEMMA SendKeeps ==
    ASSUME HcInv, Send
    PROVE  HcInv'
<1> USE DEF HcInv
<1>1. /\ UNCHANGED <<integrations, mode, file, read, planned, before, after, quiet, changes, faults>>
      /\ pc = "send" /\ sent' = TRUE
    BY DEF Send, surveys
<1>2. PICK w : w = Head(todo)
    OBVIOUS
<1>3. /\ todo \in Seq(Entries) /\ todo # <<>> /\ w = todo[1] /\ w \in Entries
  <2>1. todo \in Seq(Entries) /\ todo # <<>>
      BY <1>1 DEF HcTypeOK, Entries
  <2> QED
      BY <1>2, <2>1
<1>4. PICK status \in {200, 201, 404} :
         /\ Apply(w, status)
         /\ IF status # Expected(w) THEN Stop("unverified") /\ UNCHANGED todo
            ELSE /\ todo' = Tail(todo) /\ UNCHANGED result
                 /\ pc' = AfterSend(Tail(todo))
    BY <1>2 DEF Send
<1>5. /\ (project \in [Live -> Checks] /\ Live \subseteq 1 .. issued /\ issued \in Nat)'
      /\ flipped' \in BOOLEAN /\ (flipped => flipped') /\ 1 .. issued \subseteq 1 .. issued'
    BY <1>3, <1>4, ApplyTypes
<1>6. Tail(todo) \in Seq(Entries) /\ Len(Tail(todo)) = Len(todo) - 1 /\ Len(todo) \in Nat \ {0}
      /\ \A j \in 1 .. Len(todo) - 1 : Tail(todo)[j] = todo[j + 1]
    BY <1>3
<1>7. /\ pc' \in {"idle", "send", "verify_checks"} /\ (pc' = "send" => todo' # <<>>) /\ todo' \in Seq(Entries)
      /\ pc' = "verify_checks" => todo' = <<>>
      /\ result' \in {"none", "unverified"} /\ (pc' # "idle" => result' = "none")
  <2>1. CASE status # Expected(w)
      BY <1>3, <1>4, <2>1 DEF Stop
  <2>2. CASE status = Expected(w)
    <3>1. CASE Tail(todo) = <<>>
        BY <1>1, <1>4, <1>6, <2>2, <3>1 DEF AfterSend, PlanInv
    <3>2. CASE Tail(todo) # <<>>
        BY <1>1, <1>4, <1>6, <2>2, <3>2 DEF AfterSend, PlanInv
    <3> QED
        BY <3>1, <3>2
  <2> QED
      BY <2>1, <2>2
<1>8. HcTypeOK'
  <2>1. ({sent, quiet, flipped} \subseteq BOOLEAN)'
      BY <1>1, <1>5 DEF HcTypeOK
  <2>2. (/\ integrations \subseteq Channels /\ mode \in {"preview", "inspect", "apply"}
         /\ file \in Files \cup {<<>>} /\ changes \in 0 .. MaxChanges /\ faults \in 0 .. MaxFaults)'
      BY <1>1 DEF HcTypeOK
  <2>3. (/\ pc \in {"idle", "plan_checks", "plan_channels", "confirm", "again_checks",
                    "again_channels", "send", "verify_checks", "verify_channels"}
         /\ result \in {"none", "shown", "refused", "unverified", "verified"}
         /\ todo \in Seq([slug : Slugs, timing : Timings, text : Texts])
         /\ pc = "send" => todo # <<>>)'
      BY <1>7 DEF Entries
  <2> QED
      BY <1>5, <2>1, <2>2, <2>3 DEF HcTypeOK
<1>9. (Refusals(planned)' <=> Refusals(planned)) /\ (ValidDeclaration(file)' <=> ValidDeclaration(file))
    BY <1>1 DEF Refusals, ValidDeclaration
<1>10. PlanInv'
    BY <1>1, <1>7, <1>9 DEF PlanInv, Later, Sending
<1>11. ASSUME quiet', ~flipped'
       PROVE  /\ pc' # "idle"
              /\ (/\ Len(todo) <= Len(file)
                  /\ \A j \in 1 .. Len(todo) : todo[j] = file[SentCount + j]
                  /\ \A i \in 1 .. Len(file) : IF i <= SentCount THEN SentAs(file[i]) ELSE SeenBefore(file[i]))'
  <2>1. PICK n : n = SentCount
      OBVIOUS
  <2>2. /\ Len(todo) <= Len(file) /\ \A j \in 1 .. Len(todo) : todo[j] = file[n + j]
        /\ \A i \in 1 .. Len(file) : IF i <= n THEN SentAs(file[i]) ELSE SeenBefore(file[i])
      BY <1>1, <1>5, <1>11, <2>1 DEF SyncInv, Sending
  <2>3. file \in Seq(Entries) /\ Len(file) \in Nat /\ \A i \in 1 .. Len(file) : file[i] \in Entries
      BY FileIsSeq
  <2>4. n \in Nat /\ n + 1 \in 1 .. Len(file) /\ Len(file) = n + Len(todo)
      BY <1>6, <2>1, <2>2, <2>3 DEF SentCount
  <2>5. file[n + 1] = w /\ SeenBefore(w)
      BY <1>3, <1>6, <2>2, <2>4
  <2>6. w.slug \in Protected => w.slug \in DOMAIN before
      BY <1>1, <2>3, <2>4, <2>5 DEF PlanInv, Later, Sending, Refusals
  <2>7. /\ status = Expected(w) /\ SentAs(w)'
        /\ \A slug : slug # w.slug => /\ Bearers(slug)' = Bearers(slug)
                                      /\ \A u \in Bearers(slug) : project'[u] = project[u]
      BY <1>1, <1>3, <1>4, <1>11, <2>5, <2>6, ApplyExpected
  <2>8. todo' = Tail(todo) /\ pc' = AfterSend(Tail(todo))
      BY <1>4, <2>7
  <2>9. SentCount' = n + 1
      BY <1>1, <1>6, <2>4, <2>8 DEF SentCount
  <2>10. \A i \in 1 .. Len(file) : i # n + 1 => file[i].slug # w.slug
    <3>1. ValidDeclaration(file)
        BY <1>1 DEF PlanInv, Later, Sending
    <3> QED
        BY <2>3, <2>4, <2>5, <3>1 DEF ValidDeclaration
  <2>11. ASSUME NEW i \in 1 .. Len(file)
         PROVE  (IF i <= SentCount THEN SentAs(file[i]) ELSE SeenBefore(file[i]))'
    <3>1. PICK x : x = file[i]
        OBVIOUS
    <3>2. CASE i = n + 1
      <4>1. SentAs(file[i])'
          BY <1>1, <2>5, <2>7, <3>2
      <4> QED
          BY <2>4, <2>9, <3>2, <4>1
    <3>3. CASE i # n + 1
      <4>1. x.slug # w.slug
          BY <2>10, <3>1, <3>3
      <4>2. Bearers(x.slug)' = Bearers(x.slug) /\ \A u \in Bearers(x.slug) : project'[u] = project[u]
          BY <2>7, <4>1
      <4>3. (SentAs(x) => SentAs(x)') /\ (SeenBefore(x) => SeenBefore(x)')
          BY <1>1, <4>2, EntryStands
      <4>4. i <= n + 1 <=> i <= n
          BY <2>4, <3>3
      <4>5. IF i <= n THEN SentAs(x)' ELSE SeenBefore(x)'
          BY <2>2, <3>1, <4>3
      <4>6. file'[i] = x
          BY <1>1, <3>1
      <4> QED
          BY <2>9, <4>4, <4>5, <4>6
    <3> QED
        BY <3>2, <3>3
  <2>12. pc' # "idle" /\ Len(todo') <= Len(file')
      BY <1>1, <1>6, <2>2, <2>3, <2>8 DEF AfterSend
  <2>13. \A j \in 1 .. Len(todo') : todo'[j] = file'[SentCount' + j]
    <3> TAKE j \in 1 .. Len(todo')
    <3>1. j \in 1 .. Len(todo) - 1 /\ j + 1 \in 1 .. Len(todo)
        BY <1>6, <2>8
    <3>2. todo'[j] = todo[j + 1] /\ todo[j + 1] = file[n + (j + 1)]
        BY <1>6, <2>2, <2>8, <3>1
    <3>3. n + (j + 1) = SentCount' + j
        BY <2>4, <2>9, <3>1
    <3> QED
        BY <1>1, <3>2, <3>3
  <2> QED
      BY <1>1, <2>11, <2>12, <2>13
<1>12. SyncInv' /\ QuietRunVerifies'
    BY <1>1, <1>7, <1>11 DEF SyncInv, QuietRunVerifies
<1>13. DOMAIN read' \subseteq 1 .. issued'
    BY <1>1, <1>5
<1> QED
    BY <1>8, <1>10, <1>12, <1>13

\* The read back.
LEMMA VerifyKeeps ==
    ASSUME HcInv, Verify
    PROVE  HcInv'
<1> USE DEF HcInv
<1>1. /\ UNCHANGED <<project, issued, integrations, mode, file, read, planned, before, todo, sent, quiet, flipped, changes, faults>>
      /\ pc = "verify_channels" /\ pc' = "idle" /\ result' \in {"verified", "unverified"}
    BY DEF Verify, Stop, world, history
<1>2. UNCHANGED Live /\ DOMAIN read' \subseteq 1 .. issued'
    BY <1>1 DEF Live
<1>3. HcTypeOK'
    BY <1>1, <1>2 DEF HcTypeOK
<1>4. PlanInv'
  <2>1. ASSUME result' = "verified"
        PROVE  before' = planned' /\ ~Refusals(planned)' /\ ~Failures(after)'
    <3>1. PICK v : v = Survey
        OBVIOUS
    <3>2. after' = v /\ ~Failures(v)
        BY <2>1, <3>1 DEF Verify, Stop
    <3>3. (Refusals(planned)' <=> Refusals(planned)) /\ (Failures(v)' <=> Failures(v))
        BY <1>1 DEF Refusals, Failures, Matches
    <3>4. before = planned /\ ~Refusals(planned)
        BY <1>1 DEF PlanInv, Later, Sending
    <3> QED
        BY <1>1, <3>2, <3>3, <3>4 DEF Failures, Matches
  <2>2. sent' => pc' \in Sending \cup {"idle"}
      BY <1>1
  <2> QED
      BY <1>1, <2>1, <2>2 DEF PlanInv, Later, Sending
<1>5. ASSUME quiet, ~flipped
      PROVE  result' = "verified"
  <2>1. read = project /\ before = planned /\ ~Refusals(planned) /\ todo = <<>>
      BY <1>1, <1>5 DEF SyncInv, PlanInv, Later, Sending
  <2>2. file \in Seq(Entries) /\ \A i \in 1 .. Len(file) : file[i] \in Entries
      BY FileIsSeq
  <2>3. SentCount = Len(file)
      BY <2>1, <2>2 DEF SentCount
  <2>4. \A i \in 1 .. Len(file) : SentAs(file[i])
      BY <1>1, <1>5, <2>2, <2>3 DEF SyncInv, Sending
  <2>5. \A slug : Listed(slug) = Bearers(slug)
      BY <2>1 DEF Listed, Bearers, Live
  <2>6. ~Ambiguous
    <3> SUFFICES ASSUME NEW slug \in Wanted
                 PROVE  ~(Cardinality(Listed(slug)) > 1)
        BY DEF Ambiguous
    <3>1. PICK i \in 1 .. Len(file) : slug = file[i].slug
        BY <2>2 DEF Wanted
    <3>2. PICK u : Bearers(slug) = {u}
        BY <2>4, <3>1 DEF SentAs
    <3>3. Listed(slug) = {u}
        BY <2>5, <3>2
    <3>4. Cardinality(Listed(slug)) = 1
        BY <3>3, FS_Singleton, Zenon
    <3> QED
        BY <3>4
  <2>7. PICK now : now = Survey
      OBVIOUS
  <2>8. ASSUME NEW i \in DOMAIN file
        PROVE  /\ file[i].slug \in DOMAIN now
               /\ Matches(now[file[i].slug], file[i])
               /\ file[i].slug \in DOMAIN before => /\ now[file[i].slug].uuid = before[file[i].slug].uuid
                                                    /\ now[file[i].slug].status = before[file[i].slug].status
               /\ file[i].slug \in Protected => now[file[i].slug].status = "up"
    <3>1. PICK want : want = file[i]
        OBVIOUS
    <3>2. want.slug \in Wanted /\ SentAs(want)
        BY <2>2, <2>4, <3>1 DEF Wanted
    <3>3. PICK u \in Live :
             /\ Bearers(want.slug) = {u}
             /\ project[u].timing = want.timing /\ project[u].text = want.text /\ project[u].assigned = integrations
             /\ want.slug \in DOMAIN before => u = before[want.slug].uuid /\ project[u].status = before[want.slug].status
        BY <3>2 DEF SentAs
    <3>4. /\ want.slug \in DOMAIN now /\ now[want.slug].uuid = u
          /\ now[want.slug].status = project[u].status
          /\ now[want.slug].settings = Managed(project[u], integrations)
      <4>1. /\ want.slug \notin DOMAIN Survey => Bearers(want.slug) = {}
            /\ want.slug \in DOMAIN Survey =>
                 /\ Bearers(want.slug) = {Survey[want.slug].uuid}
                 /\ Survey[want.slug].status = project[Survey[want.slug].uuid].status
                 /\ Survey[want.slug].settings = Managed(project[Survey[want.slug].uuid], integrations)
          BY <2>1, <2>6, <3>2, SurveyIsProject
      <4> QED
          BY <2>7, <3>3, <4>1
    <3>5. Matches(now[want.slug], want)
        BY <3>3, <3>4 DEF Matches, Managed, ChannelText
    <3>6. want.slug \in Protected => want.slug \in DOMAIN before /\ before[want.slug].status = "up"
        BY <2>1, <3>1 DEF Refusals
    <3> QED
        BY <3>1, <3>3, <3>4, <3>5, <3>6
  <2>9. ~Failures(Survey)
      BY <2>7, <2>8 DEF Failures
  <2> QED
      BY <2>6, <2>9 DEF Verify, Stop
<1>6. flipped \in BOOLEAN
    BY DEF HcTypeOK
<1>7. SyncInv' /\ QuietRunVerifies'
    BY <1>1, <1>5, <1>6 DEF SyncInv, QuietRunVerifies, Sending
<1> QED
    BY <1>2, <1>3, <1>4, <1>7

\* A request without an answer, or the operator's Ctrl-C.
LEMMA BreaksKeep ==
    ASSUME HcInv, Breaks
    PROVE  HcInv'
<1> USE DEF HcInv
<1>1. /\ UNCHANGED <<integrations, mode, file, read, planned, before, after, todo, changes>>
      /\ pc # "idle" /\ pc' = "idle" /\ quiet' = FALSE /\ faults' \in 0 .. MaxFaults
      /\ result' \in {"unverified", "refused"}
    BY HcAssumption DEF Breaks, Stop, surveys, HcTypeOK
<1>2. /\ (project \in [Live -> Checks] /\ Live \subseteq 1 .. issued /\ issued \in Nat)'
      /\ flipped' \in BOOLEAN /\ sent' \in BOOLEAN /\ 1 .. issued \subseteq 1 .. issued'
  <2>1. CASE UNCHANGED <<project, issued, flipped, sent>>
      BY <2>1 DEF HcTypeOK, Live
  <2>2. CASE pc = "send" /\ sent' = TRUE /\ \E status \in {200, 201} : Apply(Head(todo), status)
    <3>1. todo \in Seq(Entries) /\ todo # <<>>
        BY <2>2 DEF HcTypeOK, Entries
    <3>2. Head(todo) \in Entries
        BY <3>1
    <3> QED
        BY <2>2, <3>2, ApplyTypes
  <2> QED
      BY <2>1, <2>2 DEF Breaks
<1>3. HcTypeOK'
  <2>1. ({sent, quiet, flipped} \subseteq BOOLEAN)'
      BY <1>1, <1>2
  <2> QED
      BY <1>1, <1>2, <2>1 DEF HcTypeOK
<1>4. PlanInv' /\ SyncInv' /\ QuietRunVerifies'
    BY <1>1 DEF PlanInv, SyncInv, QuietRunVerifies, Later, Sending
<1> QED
    BY <1>1, <1>2, <1>3, <1>4

LEMMA HcStep == HcInv /\ [HcNext]_hcVars => HcInv'
<1> SUFFICES ASSUME HcInv, [HcNext]_hcVars
             PROVE  HcInv'
    OBVIOUS
<1>1. CASE UNCHANGED hcVars
  <2>1. UNCHANGED <<project, issued, integrations, pc, mode, file, read, planned, before, after, todo, result,
                    sent, quiet, flipped, changes, faults>>
      BY <1>1 DEF hcVars, world, surveys, history
  <2>2. UNCHANGED Live
      BY <2>1 DEF Live
  <2>3. \A slug : Bearers(slug)' = Bearers(slug)
      BY <2>1 DEF Bearers, Live
  <2>4. \A want : (SentAs(want)' <=> SentAs(want)) /\ (SeenBefore(want)' <=> SeenBefore(want))
      BY <2>1, <2>2, <2>3 DEF SentAs, SeenBefore
  <2>5. SentCount' = SentCount
      BY <2>1 DEF SentCount
  <2>6. PlanInv'
      BY <2>1, PlanStands DEF HcInv
  <2>7. HcTypeOK' /\ QuietRunVerifies' /\ (DOMAIN read)' \subseteq 1 .. issued'
      BY <2>1, <2>2 DEF HcInv, HcTypeOK, QuietRunVerifies
  <2>8. SyncInv'
      BY <2>1, <2>4, <2>5 DEF HcInv, SyncInv
  <2> QED
      BY <2>6, <2>7, <2>8 DEF HcInv
<1> QED
    BY <1>1, BeginKeepsSync, PlanKeeps, SurveyKeeps, SendKeeps, VerifyKeeps, BreaksKeep, OthersKeep DEF HcNext

\* What was verified is what the operator confirmed, and an undisturbed run verifies unless
\* the service changed a status itself, for any file, project, protected checks and number
\* of edits and faults (scripts/healthchecks.py, apply).
THEOREM SyncIsSafe == HcSpec => []SyncSafe
<1>1. HcInv => VerifiedIsPlanned
    BY DEF HcInv, PlanInv, VerifiedIsPlanned, Failures, Refusals
<1>2. HcInv => SyncSafe
    BY <1>1 DEF HcInv, SyncSafe
<1> QED
    BY <1>2, HcStarts, HcStep, PTL DEF HcSpec

\* The program never brings a check with a protected slug into the project, in whatever step
\* it vanished: such a check is addressed by its uuid only (sync).
THEOREM WatchdogIsNotCreated == HcSpec => WatchdogNotCreated
<1>1. ASSUME HcInv, [HcNext]_hcVars
      PROVE  [\A u \in Live' \ Live : project'[u].slug \in Protected => UNCHANGED <<pc, todo>>]_hcVars
  <2>1. CASE UNCHANGED project
      BY <2>1 DEF Live
  <2>2. CASE SomeoneEdits \/ SomeoneCreates \/ SomeoneDeletes \/ IntegrationsChange
      BY <2>2 DEF SomeoneEdits, SomeoneCreates, SomeoneDeletes, IntegrationsChange, SomeoneElse
  <2>3. CASE Send \/ (Breaks /\ ~UNCHANGED project)
    <3>1. pc = "send"
        BY <2>3 DEF Send, Breaks
    <3>2. PICK status : Apply(Head(todo), status)
        BY <2>3 DEF Send, Breaks
    <3>3. todo \in Seq(Entries) /\ todo # <<>>
        BY <1>1, <3>1 DEF HcInv, HcTypeOK, Entries
    <3>4. Head(todo) \in Entries
        BY <3>3
    <3>5. \A u \in Live' \ Live : project'[u].slug \notin Protected
        BY <1>1, <3>2, <3>4, ApplyTypes DEF HcInv
    <3> QED
        BY <3>5
  <2> QED
      BY <1>1, <2>1, <2>2, <2>3
         DEF HcNext, Begin, GetChecks, ShowPlan, Confirm, Decline, SurveyAgain, Verify, world, hcVars
<1> QED
    BY <1>1, HcStarts, HcStep, PTL DEF HcSpec, WatchdogNotCreated
-----------------------------------------------------------------------------
(* ModBundle.  The lock outlives builds, refreshes and edits; BundleInv says     *)
(* which names it has (a patch of the two-Spark mod can only have left it with   *)
(* the whole lock), that a command that is under way began with a lock to read,  *)
(* that a refresh has written what it does not have left, and that a binary of a *)
(* running build is of the patches that are there.                               *)

LockInv ==
    /\ kind = "binary" /\ modLock # Torn => DOMAIN modLock = Frozen \cup Patches
    /\ ~Idle => kind = "binary" /\ modLock # Torn
    /\ building = "refresh" => \A p \in Patches \ left : onDisk[p] \in Contents
    /\ building = "build" /\ out # None => out.from = [p \in Patches |-> onDisk[p]]
BundleInv ==
    /\ kind \in {"plain", "ordered", "fixed", "binary"}
    /\ BundleTypeOK /\ LockInv /\ RecordedIsBuilt /\ ServedIsLocked

LEMMA BundleStarts == BundleInit => BundleInv
<1> SUFFICES ASSUME BundleInit
             PROVE  BundleInv
    OBVIOUS
<1>1. kind \in {"plain", "ordered", "fixed", "binary"}
    BY DEF BundleInit
<1>2. BundleTypeOK
    <2>1. onDisk \in [BundleNames -> Contents \cup {Gone, Linked}]
        BY BundleAssumption DEF BundleInit, Committed
    <2>2. \A n \in DOMAIN modLock : modLock[n] \in Contents
        BY BundleAssumption DEF BundleInit, CommittedLock
    <2>3. kind # "binary" => binary = None /\ out = None
        BY DEF BundleInit, PublishedBinary
    <2>4. building \in {"none", "refresh", "build"} /\ left \subseteq Patches /\ recording \in BOOLEAN
        BY DEF BundleInit
    <2>5. edits \in 0 .. MaxEdits
        BY BundleAssumption DEF BundleInit
    <2> QED
        BY <2>1, <2>2, <2>3, <2>4, <2>5 DEF BundleTypeOK
<1>3. LockInv
    BY <1>1, BundleAssumption DEF BundleInit, LockInv, Idle, CommittedLock, Owned
<1>4. RecordedIsBuilt
    BY <1>1, BundleAssumption DEF BundleInit, RecordedIsBuilt, BuiltFrom, CommittedLock, Owned, PublishedBinary
<1>5. ServedIsLocked
    BY DEF BundleInit, ServedIsLocked
<1> QED
    BY <1>1, <1>2, <1>3, <1>4, <1>5 DEF BundleInv

\* A lock whose names and files check is the patches that are there.
LEMMA CheckedPatches ==
    ASSUME BundleInv, kind = "binary", ListOk, FilesOk
    PROVE  DOMAIN modLock = Frozen \cup Patches /\ BuiltFrom(modLock) = [p \in Patches |-> onDisk[p]]
BY DEF BundleInv, ListOk, BinaryListed, FilesOk, BuiltFrom

LEMMA RecordingKeeps == BundleInv /\ (Record \/ StartRefresh \/ RefreshPatch \/ EndRefresh) => BundleInv'
<1> SUFFICES ASSUME BundleInv, Record \/ StartRefresh \/ RefreshPatch \/ EndRefresh
             PROVE  BundleInv'
    OBVIOUS
<1> USE DEF BundleInv, Idle
<1>1. CASE Record
    <2>1. BundleTypeOK'
        BY <1>1 DEF Record, MayRecord, Present, BundleTypeOK
    <2>2. kind # "binary" /\ kind' = kind /\ building = "none" /\ building' = "none" /\ usedBy' = usedBy
        BY <1>1 DEF Record
    <2> QED
        BY <2>1, <2>2 DEF LockInv, RecordedIsBuilt, ServedIsLocked
<1>2. CASE StartRefresh
    <2>1. BundleTypeOK'
        BY <1>2 DEF StartRefresh, BundleTypeOK
    <2> QED
        BY <1>2, <2>1 DEF StartRefresh, LockInv, RecordedIsBuilt, ServedIsLocked
<1>3. CASE RefreshPatch
    <2>1. PICK p \in left, content \in Contents :
              onDisk' = [onDisk EXCEPT ![p] = content] /\ left' = left \ {p}
        BY <1>3 DEF RefreshPatch
    <2>2. left \subseteq Patches /\ p \in BundleNames
        BY DEF BundleTypeOK, BundleNames
    <2>3. BundleTypeOK'
        BY <1>3, <2>1, <2>2 DEF RefreshPatch, BundleTypeOK
    <2>4. \A q \in Patches \ left' : onDisk'[q] \in Contents
        BY <1>3, <2>1, <2>2 DEF RefreshPatch, LockInv, BundleTypeOK, BundleNames
    <2> QED
        BY <1>3, <2>3, <2>4 DEF RefreshPatch, LockInv, RecordedIsBuilt, ServedIsLocked
<1>4. CASE EndRefresh
    <2>1. kind = "binary" /\ modLock # Torn /\ DOMAIN modLock = Frozen \cup Patches
        BY <1>4 DEF EndRefresh, LockInv
    <2>2. \A n \in DOMAIN modLock : modLock'[n] \in Contents
        BY <1>4, <2>1 DEF EndRefresh, LockInv, BundleTypeOK
    <2>3. BundleTypeOK'
        BY <1>4, <2>1, <2>2 DEF EndRefresh, AfterRefresh, BundleTypeOK
    <2> QED
        BY <1>4, <2>1, <2>3, <2>3 DEF EndRefresh, AfterRefresh, LockInv, RecordedIsBuilt, ServedIsLocked
<1> QED
    BY <1>1, <1>2, <1>3, <1>4

LEMMA BuildKeeps == BundleInv /\ ((\E record \in BOOLEAN : StartBuild(record)) \/ MakeBinary \/ EndBuild) => BundleInv'
<1> SUFFICES ASSUME BundleInv, (\E record \in BOOLEAN : StartBuild(record)) \/ MakeBinary \/ EndBuild
             PROVE  BundleInv'
    OBVIOUS
<1> USE DEF BundleInv, Idle
<1>1. CASE \E record \in BOOLEAN : StartBuild(record)
    <2>1. BundleTypeOK'
        BY <1>1 DEF StartBuild, BundleTypeOK
    <2> QED
        BY <1>1, <2>1 DEF StartBuild, LockInv, RecordedIsBuilt, ServedIsLocked
<1>2. CASE MakeBinary
    <2>1. BundleTypeOK'
        BY <1>2 DEF MakeBinary, BundleTypeOK, LockInv
    <2> QED
        BY <1>2, <2>1 DEF MakeBinary, LockInv, RecordedIsBuilt, ServedIsLocked
<1>3. CASE EndBuild
    <2>1. kind = "binary" /\ modLock # Torn /\ out.from = [p \in Patches |-> onDisk[p]]
        BY <1>3 DEF EndBuild, LockInv
    <2>2. BundleTypeOK'
        BY <1>3, <2>1 DEF EndBuild, BundleTypeOK
    <2>3. RecordedIsBuilt'
        <3>1. CASE recording /\ Verified(TRUE, out)
            BY <1>3, <2>1, <3>1, CheckedPatches DEF EndBuild, Verified, RecordedIsBuilt, BuiltFrom
        <3>2. CASE ~(recording /\ Verified(TRUE, out))
            BY <1>3, <3>2 DEF EndBuild, RecordedIsBuilt
        <3> QED
            BY <3>1, <3>2
    <2> QED
        BY <1>3, <2>2, <2>3 DEF EndBuild, LockInv, ServedIsLocked
<1> QED
    BY <1>1, <1>2, <1>3

\* What run.sh has looked at before it installs is what it installs.
LEMMA RunModKeeps == BundleInv /\ RunMod => BundleInv'
<1> SUFFICES ASSUME BundleInv, RunMod
             PROVE  BundleInv'
    OBVIOUS
<1> USE DEF BundleInv
<1>1. modLock # Torn /\ ListOk /\ FilesOk /\ Entry \in BundleNames /\ Entry \in Frozen
    BY BundleAssumption DEF RunMod, Verified, BundleNames
<1>2. Entry \in DOMAIN modLock
    BY <1>1 DEF RunMod, ListOk, PlainListed, OrderedListed, FixedListed, BinaryListed, Present
<1>3. kind = "binary" => out = binary /\ binary # None
    BY DEF RunMod, Verified, BinaryOk
<1>4. usedBy' = [entry |-> onDisk[Entry], engine |-> out, files |-> Present, lock |-> modLock]
    BY DEF RunMod
<1>5. onDisk[Entry] = modLock[Entry]
    BY <1>1, <1>2 DEF FilesOk
<1>6. kind \in {"plain", "ordered"} => Present = DOMAIN modLock
    BY <1>1 DEF ListOk, PlainListed, OrderedListed
<1>7. kind = "binary" => out.from = BuiltFrom(modLock)
    BY <1>1, <1>3 DEF RecordedIsBuilt
<1>8. ServedIsLocked'
    BY <1>4, <1>5, <1>6, <1>7 DEF RunMod, ServedIsLocked
<1>9. (BundleTypeOK /\ LockInv /\ RecordedIsBuilt)'
    BY DEF RunMod, BundleTypeOK, LockInv, RecordedIsBuilt, Idle
<1> QED
    BY <1>8, <1>9 DEF RunMod

LEMMA OwnerKeeps == BundleInv /\ (Interrupt \/ EditFile \/ AdoptFile \/ Restore) => BundleInv'
<1> SUFFICES ASSUME BundleInv, Interrupt \/ EditFile \/ AdoptFile \/ Restore
             PROVE  BundleInv'
    OBVIOUS
<1> USE DEF BundleInv, Idle
<1>1. CASE Interrupt
    <2>1. BundleTypeOK'
        BY <1>1 DEF Interrupt, BundleTypeOK
    <2> QED
        BY <1>1, <2>1 DEF Interrupt, LockInv, RecordedIsBuilt, ServedIsLocked
<1>2. CASE EditFile
    <2>1. BundleTypeOK'
        BY <1>2, BundleAssumption DEF EditFile, BundleTypeOK
    <2> QED
        BY <1>2, <2>1 DEF EditFile, LockInv, RecordedIsBuilt, ServedIsLocked
<1>3. CASE AdoptFile
    <2>1. PICK n \in DOMAIN modLock : /\ kind = "binary" => n \notin Patches
                                      /\ onDisk[n] \in Contents
                                      /\ modLock' = [modLock EXCEPT ![n] = onDisk[n]]
        BY <1>3 DEF AdoptFile
    <2>2. BundleTypeOK'
        BY <1>3, <2>1, BundleAssumption DEF AdoptFile, BundleTypeOK
    <2>3. RecordedIsBuilt'
        BY <1>3, <2>1 DEF AdoptFile, LockInv, RecordedIsBuilt, BuiltFrom
    <2> QED
        BY <1>3, <2>1, <2>2, <2>3 DEF AdoptFile, LockInv, ServedIsLocked
<1>4. CASE Restore
    <2>1. BundleTypeOK'
        BY <1>4, BundleAssumption DEF Restore, BundleTypeOK, Committed, CommittedLock, Owned, PublishedBinary
    <2>2. RecordedIsBuilt'
        BY <1>4 DEF Restore, RecordedIsBuilt, BuiltFrom, CommittedLock, Owned, PublishedBinary
    <2> QED
        BY <1>4, <2>1, <2>2 DEF Restore, CommittedLock, Owned, LockInv, ServedIsLocked
<1> QED
    BY <1>1, <1>2, <1>3, <1>4

LEMMA BundleStep == BundleInv /\ [BundleNext]_bundleVars => BundleInv'
<1> SUFFICES ASSUME BundleInv, [BundleNext]_bundleVars
             PROVE  BundleInv'
    OBVIOUS
<1>1. CASE UNCHANGED bundleVars
    BY <1>1 DEF bundleVars, BundleInv, BundleTypeOK, LockInv, RecordedIsBuilt, ServedIsLocked, Idle
<1> QED
    BY <1>1, RecordingKeeps, BuildKeeps, RunModKeeps, OwnerKeeps DEF BundleNext

\* Whatever the operator edits, rebuilds, interrupts or takes back, any number of times,
\* a recorded binary was built from the recorded patches and what run.sh installs is
\* what the lock records (prepare.py, build.sh, run.sh).
THEOREM BundleIsSafe == BundleSpec => []BundleSafe
<1>1. BundleInv => BundleSafe
    BY DEF BundleInv, BundleSafe
<1> QED
    BY <1>1, BundleStarts, BundleStep, PTL DEF BundleSpec
=============================================================================
