------------------------------ MODULE PolicyDelta ------------------------------
(***************************************************************************)
(* proxmox/guests/netbird-router-2/check-unifi-delta.py around the edit it *)
(* is for: an operator reads the whole firewall policy inventory, has it   *)
(* prepared, opens the two forward policies to one more source address in  *)
(* the administrator UI, reads the inventory again and has the two         *)
(* compared.  The controller regenerates the return policy of a forward    *)
(* that changed, and other administrators edit, add and remove policies at *)
(* any time.                                                               *)
(*                                                                         *)
(* A policy is a record: "of" is the origin_id of a generated return, or   *)
(* NoOrigin; "ips" the one list of addresses the edit may change (a        *)
(* forward's source.ips, a return's destination.ips); "sound" says whether *)
(* the fields that validate_pair looks at are as required; "name" stands   *)
(* for all other fields; "hits" for the counters that move by themselves.  *)
(***************************************************************************)
EXTENDS Integers, FiniteSets

CONSTANTS
    Forwards,    \* FORWARDS
    Returns,     \* ids of their generated returns: a function from Forwards
    OtherPolicies,      \* ids of all other policies
    Spare,       \* ids the controller may give to policies yet to come
    NoOrigin,
    MaxMeddling  \* bound on what other administrators do

PolicyIds == Forwards \cup {Returns[f] : f \in Forwards} \cup OtherPolicies \cup Spare
ASSUME PolicyAssumption ==
    /\ Returns \in [Forwards -> PolicyIds] /\ NoOrigin \notin PolicyIds
    /\ \A f, g \in Forwards : Returns[f] \notin Forwards /\ (Returns[f] = Returns[g] => f = g)
    /\ OtherPolicies \cap (Forwards \cup {Returns[f] : f \in Forwards} \cup Spare) = {}
    /\ Spare \cap (Forwards \cup {Returns[f] : f \in Forwards}) = {}
    /\ MaxMeddling \in Nat

VARIABLES
    live,       \* the controller's policies by id
    reviewStage,      \* of the operator
    beforeEdit, afterEdit, \* the saved inventories
    planWritten,    \* forwards the operator has edited
    alone,      \* history: what the edit makes of beforeEdit if nobody else touches it
    meddling    \* edits of others so far
policyVars == <<live, reviewStage, beforeEdit, afterEdit, planWritten, alone, meddling>>

Addresses == {"old", "new", "wide"}    \* OLD, NEW, anything else
Policies == [of : Forwards \cup {NoOrigin}, ips : Addresses, sound : BOOLEAN, name : {"n1", "n2"}, hits : 0 .. 1]
Policy(origin, ips) == [of |-> origin, ips |-> ips, sound |-> TRUE, name |-> "n1", hits |-> 0]

PolicyInit ==
    /\ live = [i \in PolicyIds \ Spare |->
                 IF \E f \in Forwards : i = Returns[f]
                 THEN Policy(CHOOSE f \in Forwards : i = Returns[f], "old") ELSE Policy(NoOrigin, "old")]
    /\ reviewStage = "start" /\ beforeEdit = <<>> /\ afterEdit = <<>> /\ planWritten = {}
    /\ alone = <<>> /\ meddling = 0
-----------------------------------------------------------------------------
(* The checker.                                                            *)

RepliesIn(inventory, f) == {i \in DOMAIN inventory : inventory[i].of = f}
\* validate_pair.
PairOk(forward, reply, ips) ==
    forward.sound /\ reply.sound /\ forward.ips = ips /\ reply.ips = ips
\* What prepare requires; it raises for a forward that is not there.
Prepares(inventory) ==
    \A f \in Forwards :
       /\ f \in DOMAIN inventory /\ Cardinality(RepliesIn(inventory, f)) = 1
       /\ \A r \in RepliesIn(inventory, f) : PairOk(inventory[f], inventory[r], "old")

Semantic(policy) == [policy EXCEPT !.hits = 0]
Proposed(policy) == [policy EXCEPT !.ips = "new"]

\* Mutant: policies of one name are the same.
SameName(one, other) == one.name = other.name
SameButCounters(one, other) == Semantic(one) = Semantic(other)

SameIds == DOMAIN beforeEdit = DOMAIN afterEdit
Touched == Forwards \cup UNION {RepliesIn(beforeEdit, f) : f \in Forwards}
Delta ==
    /\ SameIds /\ Prepares(beforeEdit)
    /\ \A f \in Forwards :
          /\ Cardinality(RepliesIn(afterEdit, f)) = 1
          /\ \A r \in RepliesIn(beforeEdit, f) : PairOk(afterEdit[f], afterEdit[r], "new")
    /\ \A i \in Touched : SameButCounters(afterEdit[i], Proposed(beforeEdit[i]))
    /\ \A i \in DOMAIN beforeEdit \ Touched : SameButCounters(beforeEdit[i], afterEdit[i])
-----------------------------------------------------------------------------
(* The operator.                                                           *)

\* What the edit of forward f makes of an inventory that nobody else touches.
Edited(inventory, f) ==
    [i \in DOMAIN inventory |-> IF i = f \/ inventory[i].of = f THEN Proposed(inventory[i]) ELSE inventory[i]]
ReadBefore ==
    /\ reviewStage = "start"
    /\ beforeEdit' = live /\ alone' = live /\ reviewStage' = "prepare"
    /\ UNCHANGED <<live, afterEdit, planWritten, meddling>>
Prepare ==
    /\ reviewStage = "prepare"
    /\ reviewStage' = IF Prepares(beforeEdit) THEN "edit" ELSE "refused"
    /\ UNCHANGED <<live, beforeEdit, afterEdit, planWritten, alone, meddling>>
\* The UI changes source.ips of what it finds; a forward that is gone ends the edit.
EditForward(f) ==
    /\ reviewStage = "edit" /\ f \notin planWritten
    /\ IF f \in DOMAIN live
       THEN /\ live' = [live EXCEPT ![f] = Proposed(@)]
            /\ alone' = Edited(alone, f)
            /\ planWritten' = planWritten \cup {f} /\ reviewStage' = reviewStage
       ELSE reviewStage' = "refused" /\ UNCHANGED <<live, alone, planWritten>>
    /\ UNCHANGED <<beforeEdit, afterEdit, meddling>>
ReadAfter ==
    /\ reviewStage = "edit" /\ planWritten = Forwards
    /\ afterEdit' = live /\ reviewStage' = "verify"
    /\ UNCHANGED <<live, beforeEdit, planWritten, alone, meddling>>
Verify ==
    /\ reviewStage = "verify"
    /\ reviewStage' = IF Delta THEN "matches" ELSE "refused"
    /\ UNCHANGED <<live, beforeEdit, afterEdit, planWritten, alone, meddling>>
-----------------------------------------------------------------------------
(* The controller and the others, until the comparison has its inventories. *)

Watching == reviewStage \in {"start", "prepare", "edit"}
\* A return takes its forward's addresses, under its own id or a fresh one; an id
\* of the inventory that was saved is not given again.
Follow(inventory, r, f, id) ==
    [i \in (DOMAIN inventory \ {r}) \cup {id} |->
        IF i = id THEN [inventory[r] EXCEPT !.ips = inventory[f].ips] ELSE inventory[i]]
NewIds == Spare \ (DOMAIN live \cup DOMAIN beforeEdit)
Regenerate(f) ==
    /\ Watching /\ f \in DOMAIN live
    /\ \E r \in RepliesIn(live, f) : \E id \in {r} \cup NewIds :
          /\ live[r].ips # live[f].ips
          /\ live' = Follow(live, r, f, id)
          /\ alone' = IF f \in DOMAIN alone /\ r \in RepliesIn(alone, f) THEN Follow(alone, r, f, id) ELSE alone
    /\ UNCHANGED <<reviewStage, beforeEdit, afterEdit, planWritten, meddling>>
Count ==
    /\ Watching
    /\ \E i \in DOMAIN live : live[i].hits = 0 /\ live' = [live EXCEPT ![i].hits = 1]
    /\ UNCHANGED <<reviewStage, beforeEdit, afterEdit, planWritten, alone, meddling>>
Meddle ==
    /\ Watching /\ meddling < MaxMeddling /\ meddling' = meddling + 1
    /\ \/ \E i \in DOMAIN live :
             \/ \E name \in {"n1", "n2"} \ {live[i].name} : live' = [live EXCEPT ![i].name = name]
             \/ live' = [live EXCEPT ![i].sound = ~@]
             \/ \E ips \in Addresses \ {live[i].ips} : i \notin Forwards /\ live' = [live EXCEPT ![i].ips = ips]
             \/ live' = [j \in DOMAIN live \ {i} |-> live[j]]
       \/ \E i \in NewIds, origin \in Forwards \cup {NoOrigin} :
             live' = [j \in DOMAIN live \cup {i} |-> IF j = i THEN Policy(origin, "old") ELSE live[j]]
    /\ UNCHANGED <<reviewStage, beforeEdit, afterEdit, planWritten, alone>>

PolicyNext ==
    \/ ReadBefore \/ Prepare \/ ReadAfter \/ Verify \/ Count \/ Meddle
    \/ \E f \in Forwards : EditForward(f) \/ Regenerate(f)
PolicySpec == PolicyInit /\ [][PolicyNext]_policyVars
-----------------------------------------------------------------------------
(* Properties.                                                             *)

PolicyTypeOK ==
    /\ \A inventory \in {live, beforeEdit, afterEdit, alone} :
          DOMAIN inventory \subseteq PolicyIds /\ \A i \in DOMAIN inventory : inventory[i] \in Policies
    /\ reviewStage \in {"start", "prepare", "edit", "verify", "matches", "refused"}
    /\ planWritten \subseteq Forwards /\ meddling \in 0 .. MaxMeddling

\* "Concurrent changes require a refreshed review": when the checker accepts, the
\* inventory it read last is the one the edit would have led to with nobody else
\* about, counters apart, though others may have come and gone in between.
MatchesAlone ==
    reviewStage = "matches" =>
       /\ DOMAIN afterEdit = DOMAIN alone
       /\ \A i \in DOMAIN alone : \A field \in {"of", "ips", "sound", "name"} : afterEdit[i][field] = alone[i][field]
       /\ \A f \in Forwards : afterEdit[f].ips = "new"

\* And it refuses nobody without cause: somebody else touched the inventory, or the
\* controller had not regenerated both returns, in place, when it was read.
RefusedForCause ==
    reviewStage = "refused" =>
       \/ meddling > 0
       \/ \E f \in Forwards : Returns[f] \notin DOMAIN afterEdit \/ afterEdit[Returns[f]].ips # "new"

\* A match is the reviewed change and nothing else, and a refusal has its cause.
DeltaSafe == PolicyTypeOK /\ MatchesAlone /\ RefusedForCause
=============================================================================
