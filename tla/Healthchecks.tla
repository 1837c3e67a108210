----------------------------- MODULE Healthchecks -----------------------------
(***************************************************************************)
(* scripts/healthchecks.py: an operator brings the checks of a             *)
(* healthchecks.io project to the ones declared in checks.json.  The plan  *)
(* is shown, confirmed, compared with a second survey, sent check by       *)
(* check, and read back.  Others edit the project in the web UI meanwhile, *)
(* a request may fail with or without its effect, and the operator may     *)
(* stop the run anywhere and start it again.                               *)
(*                                                                         *)
(* A survey is two requests, the checks and then the integrations.  Uuids  *)
(* are numbers in the order they are given out.  A ping URL is given with  *)
(* the uuid and never apart from it, so the uuid stands for both.          *)
(***************************************************************************)
EXTENDS Integers, Sequences, FiniteSets

CONSTANTS
    Slugs, Protected,  \* slugs of checks; those apply must find
    Timings, Texts,    \* values of the timing fields, and of the other ones
    Channels,          \* integrations the project may have
    Files,             \* contents checks.json may have: sequences of entries
    Projects,          \* the projects apply may first meet
    MaxChanges,        \* bound on the edits of others
    MaxFaults          \* bound on failed requests and interruptions

ASSUME HcAssumption ==
    /\ Protected \subseteq Slugs
    /\ Files \subseteq Seq([slug : Slugs, timing : Timings, text : Texts])
    /\ MaxChanges \in Nat /\ MaxFaults \in Nat

VARIABLES
    project,       \* live checks by uuid
    issued,        \* uuids given out so far
    integrations,  \* the project's channels
    pc,            \* where the run is, "idle" between runs
    mode, file,    \* of this run
    read,          \* answer of the last GET checks/
    planned,       \* the survey the plan was shown from
    before, after, \* the surveys before and after sending
    todo,          \* declared checks still to send
    result,        \* of the last run
    sent,          \* this run sent a request
    quiet,         \* nobody else touched the project and no request failed in this run
    flipped,       \* an update of this run made the service change a status
    changes, faults

world   == <<project, issued, integrations>>
surveys == <<read, planned, before, after>>
history == <<sent, quiet, flipped>>
hcVars  == <<world, pc, mode, file, surveys, todo, result, history, changes, faults>>

Statuses == {"up", "down"}  \* "down" stands for every status but up
Checks == [slug : Slugs, timing : Timings, text : Texts,
           assigned : SUBSET Channels, status : Statuses]
ASSUME ProjectsAssumption == \A p \in Projects : p \in Seq(Checks)
Live == DOMAIN project

HcInit ==
    /\ project \in Projects /\ issued = Cardinality(Live) /\ integrations = Channels
    /\ pc = "idle" /\ mode = "preview" /\ file = <<>>
    /\ read = <<>> /\ planned = <<>> /\ before = <<>> /\ after = <<>>
    /\ todo = <<>> /\ result = "none"
    /\ sent = FALSE /\ quiet = FALSE /\ flipped = FALSE
    /\ changes = 0 /\ faults = 0

-----------------------------------------------------------------------------
(* The service, and whoever else edits the project.                        *)

With(u, c) == [x \in Live \cup {u} |-> IF x = u THEN c ELSE project[x]]
Bearers(slug) == {u \in Live : project[u].slug = slug}

SomeoneElse ==
    /\ changes < MaxChanges /\ changes' = changes + 1
    /\ quiet' = FALSE
    /\ UNCHANGED <<pc, mode, file, surveys, todo, result, sent, flipped, faults>>

SomeoneEdits ==
    /\ \E u \in Live : \E c \in Checks :
          /\ c # project[u]
          /\ Cardinality({f \in DOMAIN c : c[f] # project[u][f]}) = 1
          /\ project' = With(u, c)
    /\ SomeoneElse
    /\ UNCHANGED <<issued, integrations>>

SomeoneCreates ==
    /\ \E slug \in Slugs, timing \in Timings, text \in Texts :
          project' = With(issued + 1, [slug |-> slug, timing |-> timing, text |-> text,
                                       assigned |-> integrations, status |-> "down"])
    /\ issued' = issued + 1
    /\ SomeoneElse
    /\ UNCHANGED integrations

SomeoneDeletes ==
    /\ \E u \in Live : project' = [x \in Live \ {u} |-> project[x]]
    /\ SomeoneElse
    /\ UNCHANGED <<issued, integrations>>

\* An integration that is removed is removed from every check.
IntegrationsChange ==
    /\ \E c \in Channels :
          \/ c \notin integrations /\ integrations' = integrations \cup {c}
             /\ UNCHANGED project
          \/ c \in integrations /\ integrations' = integrations \ {c}
             /\ project' = [u \in Live |->
                              [project[u] EXCEPT !.assigned = @ \ {c}]]
    /\ SomeoneElse
    /\ UNCHANGED issued

\* What an update leaves: "*" is every integration of the moment, and a new
\* timing makes the service work out the status again.
Updated(have, want) ==
    { [slug |-> want.slug, timing |-> want.timing, text |-> want.text,
       assigned |-> integrations, status |-> s] :
         s \in IF have.timing = want.timing THEN {have.status} ELSE Statuses }
-----------------------------------------------------------------------------
(* What the program makes of its reads.                                    *)

Wanted == {file[i].slug : i \in DOMAIN file}

\* load_declaration refuses a slug declared twice.
ValidDeclaration(f) == \A i, j \in DOMAIN f : f[i].slug = f[j].slug => i = j

\* The channels of a check in the file's words: all of them, or "n of m".
ChannelText(check, channels) ==
    IF check.assigned = channels THEN <<>>
    ELSE <<Cardinality(check.assigned), Cardinality(channels)>>

Managed(check, channels) ==
    [timing |-> check.timing, text |-> check.text, channels |-> ChannelText(check, channels)]

Matches(seen, want) ==
    seen.settings = [timing |-> want.timing, text |-> want.text, channels |-> <<>>]

Listed(slug) == {u \in DOMAIN read : read[u].slug = slug}
Ambiguous == \E slug \in Wanted : Cardinality(Listed(slug)) > 1

Survey ==
    [slug \in {s \in Wanted : Listed(s) # {}} |->
        LET u == CHOOSE u \in Listed(slug) : TRUE
        IN [uuid |-> u, settings |-> Managed(read[u], integrations), status |-> read[u].status]]

\* Mutant: only the settings are compared.
SettingsOnly(survey) == [slug \in DOMAIN survey |-> survey[slug].settings]
\* settings: what the plan and the second survey are compared by.
Settings(survey) == survey

Refusals(survey) ==
    \E i \in DOMAIN file :
       /\ file[i].slug \in Protected
       /\ \/ file[i].slug \notin DOMAIN survey
          \/ survey[file[i].slug].status # "up"
          \/ survey[file[i].slug].settings.timing # file[i].timing

\* verify: the settings are the file's, and uuid and status those before.
Failures(now) ==
    \E i \in DOMAIN file :
       LET slug == file[i].slug
       IN \/ slug \notin DOMAIN now
          \/ ~Matches(now[slug], file[i])
          \/ slug \in DOMAIN before /\ (\/ now[slug].uuid # before[slug].uuid
                                        \/ now[slug].status # before[slug].status)
          \/ slug \in Protected /\ now[slug].status # "up"
-----------------------------------------------------------------------------
(* The run.                                                                *)

Stop(outcome) == pc' = "idle" /\ result' = outcome

\* load_declaration and api_key come before the first request.
Begin(m, f) ==
    /\ pc = "idle"
    /\ mode' = m /\ file' = f
    /\ read' = <<>> /\ planned' = <<>> /\ before' = <<>> /\ after' = <<>> /\ todo' = <<>>
    /\ sent' = FALSE /\ quiet' = TRUE /\ flipped' = FALSE
    /\ IF m # "inspect" /\ ~ValidDeclaration(f) THEN Stop("refused")
       ELSE pc' = "plan_checks" /\ result' = "none"
    /\ UNCHANGED <<world, changes, faults>>

GetChecks ==
    /\ \/ pc = "plan_checks"   /\ pc' = "plan_channels"
       \/ pc = "again_checks"  /\ pc' = "again_channels"
       \/ pc = "verify_checks" /\ pc' = "verify_channels"
    /\ read' = project
    /\ UNCHANGED <<world, mode, file, planned, before, after, todo, result, history,
                   changes, faults>>

\* inspect and preview end by showing what was read.
ShowPlan ==
    /\ pc = "plan_channels"
    /\ IF mode = "inspect" THEN Stop("shown") /\ UNCHANGED planned
       ELSE IF Ambiguous THEN Stop("refused") /\ UNCHANGED planned
       ELSE /\ planned' = Survey
            /\ IF mode = "preview" THEN Stop("shown")
               ELSE IF Refusals(Survey) THEN Stop("refused")
               ELSE pc' = "confirm" /\ UNCHANGED result
    /\ UNCHANGED <<world, mode, file, read, before, after, todo, history, changes, faults>>

Confirm ==
    /\ pc = "confirm"
    /\ pc' = "again_checks"
    /\ UNCHANGED <<world, mode, file, surveys, todo, result, history, changes, faults>>

Decline ==
    /\ pc = "confirm"
    /\ Stop("refused")
    /\ UNCHANGED <<world, mode, file, surveys, todo, history, changes, faults>>

AfterSend(rest) == IF rest = <<>> THEN "verify_checks" ELSE "send"

SurveyAgain ==
    /\ pc = "again_channels"
    /\ IF Ambiguous THEN Stop("refused") /\ UNCHANGED <<before, todo>>
       ELSE /\ before' = Survey
            /\ IF Settings(Survey) # Settings(planned) \/ Refusals(Survey)
               THEN Stop("refused") /\ UNCHANGED todo
               ELSE /\ todo' = file /\ UNCHANGED result
                    /\ pc' = AfterSend(file)
    /\ UNCHANGED <<world, mode, file, read, planned, after, history, changes, faults>>

\* The checks a request would reach: the one of the uuid seen before for a
\* protected slug, any bearer of the slug otherwise.
Addressed(want) ==
    IF want.slug \in Protected THEN {before[want.slug].uuid} \cap Live
    ELSE Bearers(want.slug)

\* Only a request by slug makes a check that is not there.
MayCreate(want) == want.slug \notin Protected

\* The effect of one POST: an update, a creation, or for an unknown uuid none.
Apply(want, status) ==
    \/ /\ status = 200
       /\ \E u \in Addressed(want) : \E c \in Updated(project[u], want) :
             /\ project' = With(u, c)
             /\ flipped' = (flipped \/ c.status # project[u].status)
       /\ UNCHANGED issued
    \/ /\ status = 201
       /\ Addressed(want) = {} /\ MayCreate(want)
       /\ project' = With(issued + 1, [slug |-> want.slug, timing |-> want.timing,
                            text |-> want.text, assigned |-> integrations, status |-> "down"])
       /\ issued' = issued + 1 /\ UNCHANGED flipped
    \/ /\ status = 404
       /\ Addressed(want) = {} /\ ~MayCreate(want)
       /\ UNCHANGED <<project, issued, flipped>>

Expected(want) == IF want.slug \in DOMAIN before THEN 200 ELSE 201

Send ==
    /\ pc = "send"
    /\ \E status \in {200, 201, 404} :
          /\ Apply(Head(todo), status)
          /\ IF status # Expected(Head(todo)) THEN Stop("unverified") /\ UNCHANGED todo
             ELSE /\ todo' = Tail(todo) /\ UNCHANGED result
                  /\ pc' = AfterSend(Tail(todo))
    /\ sent' = TRUE
    /\ UNCHANGED <<integrations, mode, file, surveys, quiet, changes, faults>>

Verify ==
    /\ pc = "verify_channels"
    /\ IF Ambiguous THEN Stop("unverified") /\ UNCHANGED after
       ELSE after' = Survey /\ Stop(IF Failures(Survey) THEN "unverified" ELSE "verified")
    /\ UNCHANGED <<world, mode, file, read, planned, before, todo, history, changes, faults>>

\* A request without a usable answer, or the operator's Ctrl-C: a POST may
\* have had its effect.
Breaks ==
    /\ pc # "idle" /\ faults < MaxFaults /\ faults' = faults + 1
    /\ \/ UNCHANGED <<project, issued, flipped, sent>>
       \/ /\ pc = "send" /\ sent' = TRUE
          /\ \E status \in {200, 201} : Apply(Head(todo), status)
    /\ quiet' = FALSE
    /\ Stop(IF sent' THEN "unverified" ELSE "refused")
    /\ UNCHANGED <<integrations, mode, file, surveys, todo, changes>>

HcNext ==
    \/ \E m \in {"preview", "inspect", "apply"}, f \in Files : Begin(m, f)
    \/ GetChecks \/ ShowPlan \/ Confirm \/ Decline \/ SurveyAgain \/ Send \/ Verify
    \/ Breaks
    \/ SomeoneEdits \/ SomeoneCreates \/ SomeoneDeletes \/ IntegrationsChange

HcSpec == HcInit /\ [][HcNext]_hcVars
-----------------------------------------------------------------------------
(* Properties.                                                             *)

HcTypeOK ==
    /\ project \in [Live -> Checks] /\ Live \subseteq 1 .. issued /\ issued \in Nat
    /\ integrations \subseteq Channels
    /\ pc \in {"idle", "plan_checks", "plan_channels", "confirm", "again_checks",
              "again_channels", "send", "verify_checks", "verify_channels"}
    /\ mode \in {"preview", "inspect", "apply"}
    /\ file \in Files \cup {<<>>}
    /\ result \in {"none", "shown", "refused", "unverified", "verified"}
    /\ todo \in Seq([slug : Slugs, timing : Timings, text : Texts])
    /\ pc = "send" => todo # <<>>
    /\ {sent, quiet, flipped} \subseteq BOOLEAN
    /\ changes \in 0 .. MaxChanges /\ faults \in 0 .. MaxFaults

\* "Verified" is about what the operator confirmed: every declared check has
\* the file's settings, and those the plan called updates are the same checks,
\* with the same ping URL and status, that the plan was shown from - three
\* surveys and any number of edits earlier.
VerifiedIsPlanned ==
    result = "verified" =>
       \A i \in DOMAIN file :
          LET slug == file[i].slug
          IN /\ slug \in DOMAIN after /\ Matches(after[slug], file[i])
             /\ slug \in DOMAIN planned =>
                   /\ after[slug].uuid = planned[slug].uuid
                   /\ after[slug].status = planned[slug].status
             /\ slug \in Protected => slug \in DOMAIN planned /\ after[slug].status = "up"

\* "if removed concurrently, fail instead of recreating it": the program never
\* brings a check with a protected slug into the project, whenever it vanishes.
WatchdogNotCreated ==
    [][\A u \in Live' \ Live : project'[u].slug \in Protected => UNCHANGED <<pc, todo>>]_hcVars

\* The checks on the way are not too strict: a run that nobody disturbed and
\* that sent something is verified, unless the service itself changed a status.
QuietRunVerifies ==
    pc = "idle" /\ sent /\ quiet => result = "verified" \/ flipped

\* Every declared check is live once with the file's settings.
Applied(f) ==
    \A i \in DOMAIN f :
       \E u \in Live :
          /\ Bearers(f[i].slug) = {u}
          /\ project[u].timing = f[i].timing /\ project[u].text = f[i].text
          /\ project[u].assigned = integrations

\* What a human has to repair before apply sends anything.
StandsAgainst(f) ==
    \E i \in DOMAIN f :
       \/ Cardinality(Bearers(f[i].slug)) > 1
       \/ /\ f[i].slug \in Protected
          /\ \A u \in Bearers(f[i].slug) : project[u].status # "up" \/ project[u].timing # f[i].timing

\* Whatever a failed or interrupted run left, running apply again until it has
\* gone through brings the project to the file, unless a human must repair it.
Converges ==
    \A f \in Files : ValidDeclaration(f) => <>[](Applied(f) \/ StandsAgainst(f))

\* The run goes on; the operator runs apply again and confirms again.
GoesOn == GetChecks \/ ShowPlan \/ SurveyAgain \/ Send \/ Verify
RunAgain == \E f \in Files : ValidDeclaration(f) /\ Begin("apply", f)
HcFairness == WF_hcVars(GoesOn) /\ SF_hcVars(RunAgain) /\ SF_hcVars(Confirm)

\* A verified sync left the project as planned, and one nobody disturbed is verified.
SyncSafe == HcTypeOK /\ VerifiedIsPlanned /\ QuietRunVerifies
=============================================================================
