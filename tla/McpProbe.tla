------------------------------- MODULE McpProbe -------------------------------
(***************************************************************************)
(* kubernetes/apps/ai/grafana-mcp/app/probe.py: a scheduled probe opens an *)
(* MCP session, calls one tool, and in its finally deletes the session on  *)
(* the same HTTP connection, without hiding what went wrong before.        *)
(*                                                                         *)
(* http.client is part of the behaviour: after a connection error it       *)
(* connects again by itself, after a timeout while it waits for an answer  *)
(* it takes no further request, and after one inside a body it sends the   *)
(* request but does not read its answer.                                   *)
(***************************************************************************)
EXTENDS Naturals

VARIABLES
    probe,    \* the call that comes next, or how the probe ended
    line,     \* the connection: "ready", "waiting" for an answer given up, "body" left
              \* unread, "closed"
    sid,      \* session_id
    session,  \* the server's side: "none", "open", "deleted", "stateless"
    error,    \* the exception on its way, "none" if there is none
    answers   \* answers so far that were what the probe asked for

probeVars == <<probe, line, sid, session, error, answers>>

ProbeInit ==
    /\ probe = "idle" /\ line = "ready" /\ sid = FALSE /\ session = "none"
    /\ error = "none" /\ answers = 0

StartProbe ==
    /\ probe = "idle" /\ probe' = "initialize"
    /\ UNCHANGED <<line, sid, session, error, answers>>

\* What becomes of a request whose answer does not come: the connection breaks,
\* or the wait for the answer or for its body is given up after 15 s.
Losses == {[why |-> "reset", line |-> "ready"], [why |-> "timeout", line |-> "waiting"],
           [why |-> "timeout", line |-> "body"]}

\* rpc raises: for a lost answer, for a status it does not expect and for a body
\* that is not JSON.
Raises ==
    \/ \E l \in Losses : error' = l.why /\ line' = l.line
    \/ error' \in {"status", "unparsable"} /\ UNCHANGED line

\* The server answers initialize with a session of its own or without one
\* (stateless); the header is looked at when rpc has returned, and before the
\* JSON-RPC error is.
Initialize ==
    /\ probe = "initialize"
    /\ \/ /\ session' \in {"open", "stateless"} /\ sid' = (session' = "open")
          /\ \/ probe' = "initialized" /\ answers' = 1 /\ UNCHANGED error
             \/ probe' = "cleanup" /\ error' = "refused" /\ UNCHANGED answers
          /\ UNCHANGED line
       \/ /\ session' \in {"none", "open", "stateless"}
          /\ Raises
          /\ probe' = "cleanup" /\ UNCHANGED <<sid, answers>>

\* The notification that the client is ready.
Initialized ==
    /\ probe = "initialized"
    /\ \/ probe' = "call" /\ answers' = 2 /\ UNCHANGED <<line, error>>
       \/ probe' = "cleanup" /\ Raises /\ UNCHANGED answers
    /\ UNCHANGED <<sid, session>>

\* The tool's answer has the datasources, or it is an error or another shape.
Call ==
    /\ probe = "call"
    /\ \/ answers' = 3 /\ UNCHANGED <<line, error>>
       \/ error' = "wrong_answer" /\ UNCHANGED <<line, answers>>
       \/ Raises /\ UNCHANGED answers
    /\ probe' = "cleanup"
    /\ UNCHANGED <<sid, session>>

\* A session that timed out on the server, or one of a server that restarted.
SessionExpires ==
    /\ session = "open" /\ session' = "deleted"
    /\ UNCHANGED <<probe, line, sid, error, answers>>

\* Mutant: the cleanup's exception takes the first one's place.
TakesOver == error' = "cleanup"
\* The exception of the cleanup is raised only if there is no other.
CleanupFails == error' = IF error = "none" THEN "cleanup" ELSE error

Closed == line' = "closed"

\* The whole finally: DELETE if there is a session_id, then close.
Cleanup ==
    /\ probe = "cleanup"
    /\ \/ ~sid /\ UNCHANGED <<session, error>>
       \/ sid /\ line = "ready" /\ session' = "deleted" /\ UNCHANGED error
       \/ sid /\ line # "waiting" /\ session' \in {session, "deleted"} /\ CleanupFails
       \/ sid /\ line = "waiting" /\ UNCHANGED session /\ CleanupFails
    /\ probe' = "ended" /\ Closed
    /\ UNCHANGED <<sid, answers>>

ProbeNext == StartProbe \/ Initialize \/ Initialized \/ Call \/ SessionExpires \/ Cleanup
ProbeSpec == ProbeInit /\ [][ProbeNext]_probeVars
-----------------------------------------------------------------------------
(* Properties.                                                             *)

ProbeTypeOK ==
    /\ probe \in {"idle", "initialize", "initialized", "call", "cleanup", "ended"}
    /\ line \in {"ready", "waiting", "body", "closed"} /\ sid \in BOOLEAN
    /\ (probe = "ended") <=> (line = "closed")
    /\ session \in {"none", "open", "deleted", "stateless"}
    /\ error \in {"none", "reset", "timeout", "status", "unparsable", "refused",
                  "wrong_answer", "cleanup"}
    /\ answers \in 0 .. 3

\* The probe succeeds only if all three calls were answered as asked and the
\* session it knew of is gone, and fails with the first thing that went wrong:
\* a failing cleanup neither passes nor takes the place of an earlier error.
ProbeTellsTheTruth ==
    probe = "ended" =>
       /\ error = "none" => answers = 3 /\ session # "open"
       /\ error = "cleanup" => answers = 3

\* The probe's exit code is about the request that decided it, and a session left open is
\* never a success.
ProbeSafe == ProbeTypeOK /\ ProbeTellsTheTruth
=============================================================================
