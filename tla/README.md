# Verification of the home-lab programs

This repository is mostly declarative: Flux manifests, Talos and Helm
configuration, dashboards and documents. Between them sit programs that keep
state, talk to something that can fail and must not get it wrong. This project
specifies those programs in TLA+, model-checks them with TLC and proves what
matters most with TLAPS.

A component's module states its properties one by one. What a run checks is one
conjunction of them per module (`CollectorSafe`, `PageSafe`, ...), named at the end of
the module together with the list of its parts; `CollectorSafe` in a run below stands
for all of them.

## Inventory

| Component | State it keeps | What is hard about it | Module |
| --- | --- | --- | --- |
| UniFi flow collector (`kubernetes/apps/observability/unifi-flows/app/collector.py`) | watermark, window width, sent ids, pending gaps; checkpoint rows in VictoriaLogs | kills between any two requests, lost and ambiguous writes, late rows, a capped and paginated private API, an hour-long login backoff, rows that cannot be stored | `FlowCollector`, `PageRead`, `ConsoleSession`, `FlowRows` |
| USB HID helpers and KVM switch (`devices/glkvm/*.py`) | a host lock, the two HID gadgets, absolute deadlines; tables of keys | a neutral report on every exit, no replay, kvmd writing without the lock; what the other end makes of the reports | `HidKeyboard`, `HidScripts` |
| Hosts console (`devices/glkvm/hosts-prototype/app.js`) | switching, failed-closed, authenticated and console-ready flags; play promises; a gesture's decision | answers of overlapping requests and promises arriving after the state they were asked in; a video that is replaced under a gesture | `HostSwitch`, `VideoWatch`, `Playback`, `MediaIsolation` |
| GLKVM metrics export (`devices/glkvm/export.py`) | one cached answer | scrapes sharing a task that fails or outlives them; a vendor module that must not be shadowed when it changed | `GlkvmExport` |
| SN770 qualification and send screen (`tools/sn770-zfs-qualification/`) | files of one run: state, stop request, failure reason, counts | four workers and an operator acting on the same files | `Qualification`, `SendScreen` |
| Healthchecks sync (`scripts/healthchecks.py`) | none; the remote project's checks | the project changes between survey, confirmation and write; some writes succeed | `Healthchecks` |
| Release promotion and version ceiling (`scripts/ci/`) | git branches, a pull request, an image tag | another push between read and push; publishers in an order that is not the pushes' | `CaddyPromote`, `CeilingPublish` |
| Renovate problem check (`scripts/ci/check-renovate-problems.py`) | none | a dashboard that is closed, empty, or has a section of an unknown form | `RenovateProblems` |
| Inference runtime (`sparks/inference/sparkrun/`): plugin, entrypoints, mods, pins, readiness gate | environments of ranks, links in a container, patched files, lock files, a bundle | nested launches; kills half-way through patching or linking; a gate that must fail closed; pins read by two programs | `TensorFoldLaunch`, `EngineStart`, `SiteFixes`, `LockReview`, `ServingPins`, `ModBundle`, `Readiness` |
| Long-session benchmark (`.../benchmarks/long_sessions.py`) | requests, watchers, a cancel event, result classes | cancellation racing completion | `LongSessions` |
| Grafana MCP probe (`kubernetes/apps/ai/grafana-mcp/app/probe.py`) | one MCP session | closing the session on every path without hiding the error | `McpProbe` |
| Firewall source delta checker (`proxmox/guests/netbird-router-2/check-unifi-delta.py`) | a prepared plan | other administrators and the controller change the inventory it compares | `PolicyDelta` |
| Athena certificate hook (`scripts/synology/deploy-athena-dsm.py`) | DSM's certificate | hooks by Lego and by hand at once; Lego renewing under them | `AthenaCertificate` |
| Delivery drill (`scripts/logging/`) | numbered rows in the log store | duplicates, cut lines and losses of the collector being tested | `DeliveryDrill` |
| Home dashboard (`scripts/grafana/`) | mutable panels shared between tabs; rules over metrics | aliasing; a rule that hides what another would list | `HomeDashboard`, `HomeOverview` |
| Talos rollout (`.agents/skills/talos-rollout/scripts/`), lost-slot drill (`scripts/cnpg/`), media ACLs (`scripts/synology/`) | state of systems outside this repository | what was checked is stale when it is acted on; interrupted half-way | not modelled |
| Fluent Bit record mapping, cluster bootstrap, repository validators | none | pure mapping, straight-line scripts, text | not modelled |
| Manifests, Talos and Helm configuration, dashboards, documents | none | declarative | not modelled |

How they interact. The collector is a client of two services, the UniFi console
and VictoriaLogs, and of the kubelet that restarts it; its four parts below
share one thread. The Hosts page frames the stock GLKVM console and asks the same
appliance whose `kvm-switch.py` holds the host lock; `hid-type.py` and
`hid-hold-key.py` take the same lock, kvmd does not. The pins of the inference
profiles are read by the lock review in CI and by the runtime plugin at launch,
with code of their own; the entrypoint of a mod reads the environment the plugin
made, and the readiness gate asks the engine that came of it. The qualification host and
the send screen write the same kind of run directory and must not run together.
Everything else is started by hand or by CI and meets other programs only in the
system it changes.

## Plan

1. Flow collector: `FlowArchive` (abstract), `FlowCollector` (refines it),
   `ConsoleSession`, `PageRead` and `FlowRows` (what its steps rest on).
2. Hosts page: `HostSwitch`, `VideoWatch`, `Playback`, `MediaIsolation`.
3. Keyboard: `HidKeyboard`, `HidScripts`; `GlkvmExport`.
4. Inference: `LockReview` and `TensorFoldLaunch`, composed in `ServingPins`;
   `EngineStart`, `SiteFixes`, `ModBundle`, `Readiness`, `LongSessions`.
5. Operator's programs and CI: the modules of the other rows.

All of these are written, and their safety properties are proved (see Proofs).

Refinements that are left out: an abstract archive is stated only for the collector,
whose readers see nothing of its steps. The other programs promise properties of a
final state or of one step, and those are stated as such.

## Flow collector

`kubernetes/apps/observability/unifi-flows/app/collector.py` copies rows of the
console's Flow View into VictoriaLogs. One step of `FlowCollector` is one request
with its effect, or a stretch of code between two requests. The state corresponds
so:

| Model | Code |
| --- | --- |
| `watermark`, `windowMs`, `seen`, `pending` | the Collector's fields |
| `endLimit`, `deadline`, `pages`, `before` | `advance`'s `end_limit`, `Budget`, `cycle`'s `before` |
| `rows`, `problem` | the `Window` that `read_window` returns |
| `pc` | between cycles, in `advance` before a window, in `store`, at the checkpoint |
| `stored`, `gaps`, `ckpt` | what VictoriaLogs accepted |
| `visible` | the checkpoint its queries return; it trails `ckpt` until indexed |
| `rowTime`, `listed` | the console's rows, and those it has not dropped |
| `prompt`, `base`, `acked` | history: rows that came before they settled, the first run's start, rows this process had an answer for |

`Kill` may happen between any two steps and forgets the memory; `Sigterm` sets the
stop event, which the budget and the loop look at; a request may be refused, or
accepted with its answer lost (`BatchFails`, `CheckpointFails`).

`FlowArchive` is the promise to a reader of VictoriaLogs in
`docs/runbooks/logging.md`: nothing is taken back, and a checkpoint is only ever
written when every row owed up to it is stored or inside a recorded gap. A row is
owed when it came before its moment settled and after the first run's start; the
code cannot promise later ones. `KeepsArchive` states that `FlowCollector`
implements it, with `owed <- Owed` as the mapping and the other variables by name.

`ReadWindow` takes a whole window's pages as one step. `PageRead` justifies that:
it is `read_window` page by page against a console that inserts rows, lets the
oldest expire, changes the order of equal times, or answers with an earlier page.
Without a problem the read missed nothing (`NothingMissed`), so the step may take
the rows of one moment. A capped read is not counted by the code; there the property
needs a console that keeps the order of equal times, and says so.

`ConsoleSession` is the class `Console`: login, the refusal backoff and the 429
silence. Times are ticks left. To `FlowCollector` its outcomes are `CycleFails`.

`FlowRows` is the other axis: rows one by one. A row gets an identity and a record, or
raises while it gets either, alone or in a batch with others; two rows may share a
derived identity. `cycleStep` is the thread's place, `unread` and `batch` what `store`
holds, `counters`, `last`, `lastSuccess`, `heartbeat` and `problems` what `/metrics` and
`/healthz` read under the lock, so every state is one a scrape can see. A response may
trickle for ever (`Hang`), because the timeout of urllib bounds silence only, and the
kubelet restarts what its probe finds stuck (`Restart`). Rows whose time no datetime
holds raise outside the tuple the code catches (collector.py:559) and are left out, and
so is the restart they cause; a cycle that loses its checkpoint has counted
its rows already (570-573). The health bound is `3 * Poll + MaxCycle`, and a cycle
overruns its budget by one request: `RestartsOnlyHung` needs `Timeout < 2 * Poll`, which the
values of the deployment satisfy.

| Run | Bounds | Shows |
| --- | --- | --- |
| `flows_restart` | 2 rows, 6 ticks, 1 fault, rows 0 or 2 late | `CollectorSafe` (coverage after a restart and in memory, `ok` means durable), `AcceptedOnce`, the refinement `KeepsArchive` |
| `flows_catch_up` | 3 rows, cap 2, budget below a whole window, catch-up 5 | `CatchesUpSafely`: the same coverage when a window cannot be narrowed enough, and progress under fairness |
| `page_read` | 6 rows of 3 times, pages of 2, cap 5 | `ReadIsWhole`: nothing missed, reported caps at and above the real count; the page budget suffices for one window |
| `console_session` | backoff bound 5, waits 0, 3 and 7, 3 faults | `SessionSafe` (bounded cycles), `SparesTheConsole` (spaced logins, quiet), `KeepsReading` |
| `tool_progress`, part `rows` | 4 sets of rows, 9 ticks, 1 fault and a hang up to tick 3, windows of 2 | `RowsSafe`: no row passed over in silence, scrapes add up, only a destination outside is internet traffic; a window that is held is given up in the end, a hung thread restarted, and no other |

Two rows are enough for one to be read, sent or cut off without the other; three are
needed for more rows at one moment than the cap returns. The clock runs past the
catch-up bound and past the console's retention, so that both an outage that must
be recorded and a row that has expired happen. One fault is enough to lose any one
request or the process at any point, and a kill after an ambiguous write is covered
by the proofs, which have no bound. Waits of 429 lie below a poll, inside
the bound and above it. `MaxRefusals` is where doubling has reached the bound.

Fairness. `CatchesUp` assumes that the thread keeps running, the clock moves, VictoriaLogs
makes an accepted checkpoint searchable (`CheckpointVisible`) and the Deployment
starts a process that is down. Nothing is assumed of requests, but a fault uses up
`MaxFaults`: faults stop. `KeepsReading` assumes the thread and the clock, and that
the account is repaired for good; sessions may end between cycles for ever.
`HeldWindowEnds` and `HungIsRestarted` assume the clock, the thread where it does not hang,
and the kubelet.

## Hosts page

`HostSwitch` is the switching part of `devices/glkvm/hosts-prototype/app.js`: the
handlers between two awaits, and the appliance's side of the requests. `mode` joins
`isSwitching` and `isFailedClosed`, which are never both set; `check` is
`authCheckInFlight` with the answer on its way; `step` is where `requestSwitch`
waits. The appliance refuses a pulse without a session, handles one whose page has
given up, and may handle one whose page is gone (`orphans`). The switch shows the
host of the last pulse it handled, which the page cannot read: `port` and `outcome`
are what the properties compare the page's claims with.

`VideoWatch` is `watchVideoChange`: the sequence of readings is arbitrary, failed
reads included, timers fire late. `log` is a history of the readings the loop used,
and the properties say what each verdict owes to it. In `HostSwitch` its verdict is
`success` or `unconfirmed`, either at any time.

`Playback` is Start video: `promises` are the play() calls that have not settled,
each with the video and the attempt it was made for; the stock page may replace
`live` at any time, the search of the page finds `observed` later, and a promise of an
attempt or a video that was overtaken still settles. `MediaIsolation` is what
`captureMediaControl` decides per event: `gesture` and `keyIsolation` are the code's
variables, `rest` the events a browser still owes the gesture under way, and the
history variables say what the stock handlers have seen. "That decision covers the
release and click as well" (devices/glkvm/README.md) is `GestureIsWhole`; keys held while
the video element is replaced are excused, because the page forgets its decisions then.
One mouse button is modelled, and the wheel keeps no state.

| Run | Bounds | Shows |
| --- | --- | --- |
| `host_switch` | 2 hosts, 1 failed check, 2 reloads | `PageSafe` (buttons, the claimed host, asking), `NoPulseInDoubt`; a sign-in is noticed |
| `video_watch` | 5 polls, settling after 2, 3 modes of which one has no rate | `VerdictIsSeen`: verdicts are backed by readings; `WatchStops`: polling stops and the watch ends |
| `video_unchanged` | 3 polls | the disagreement below |
| `tool_progress`, part `playback` | 2 video elements, 3 attempts | `PlaybackSafe`: the text is of this attempt on this video; "starting" is not the last word |
| `tool_safety`, part `media` | 2 keys | `GestureSafe`: one decision per gesture, no key stays down on the host |

Two hosts suffice for a pulse to land on the wrong one. Two reloads leave two pulses
behind. Sessions may expire and return without bound. Three modes are a mode, one
that differs, and one that cannot be told from either; five polls let two candidates
settle after each other or be interrupted. Two elements are an old and a new one, three
attempts one overtaken twice.

`NoticesSignIn` assumes that requests are answered or run into their own ten-second
timer, that the three-second timer fires, and nothing of the operator. `WatchEnds`
assumes that reads end, which their 1.2-second timer sees to. The watch stops when
its promise has resolved, so its runs do not check for deadlock. `PendingEnds` assumes that a
browser settles every play() promise.

The disagreement: `devices/glkvm/README.md:69` says that the amber "may already be
selected" appears "if no change appears against a valid, online baseline". When the
mode changes too late to settle before the deadline, the code's last classification
compares no modes and says just that, although its last reading shows another mode.
The same happens with a baseline without signal whose capture was online.

## Keyboard and metrics of the KVM

`HidKeyboard` is `devices/glkvm/hid_input.py` with the sequences of `hid-type.py`,
`hid-hold-key.py` and `kvm-switch.py` as `Script`: reports, pauses, and a token that
raises. A step is what a helper runs up to its next poll, write or sleep.

| Model | Code |
| --- | --- |
| `phase` | where the process is: in `__enter__` (`locking`, `opening`), in the body (`running`), in `_write` (`polling`, `writing`, `flushing`), in `pause` |
| `part`, `failure` | `release` from `__exit__` on, and the exception it is called with |
| `requestedAt`, `deadline`, `started` | the object's fields; the start deadline follows from the first |
| `limit`, `wake` | the deadline handed to `_write`; the end of the sleep |
| `lock` | who holds the flock |
| `slot`, `host`, `lost` | the gadget's one pending request, the last report taken, a completion error |
| `sent` | history: what each helper submitted |

`kvmd` writes the gadget without the lock, the host takes the pending report at any
time or never, and a completion error frees the slot without delivery, which `poll`
cannot tell from delivery. Signals unwind (`Interrupt`), SIGKILL does not (`Kill`).
A check of the clock and the system call behind it are one step, so a process
suspended exactly between the two is not shown; suspended anywhere else it is, since
every wake-up may be late. When the clock reaches `Horizon` all deadlines count as
passed: the model would otherwise stop time and not the helpers.

`HidScripts` is what the three programs send when every report arrives: the tables, tokens,
shifted characters, the rounds of a hold and the KVM's Ctrl, Ctrl, digit. The other end is an
independent listener that knows the HID usage tables (`Usage`, `UsageShifted`) and hears a key
when a report holds what the one before did not, so a missing release between two equal letters
or a wrong code shows as a difference between `heard` and `Meant`. A typed string goes by the
character (`NextChar`, with what is left of it in `charsLeft`), and characters that a string
cannot hold here have names ("blank", "semicolon"). Time is in units of 25 ms. `hid-hold-key`
sends no leading neutral report: what was down before is part of the initial states
(`Leftovers`).

`GlkvmExport` is the exporter module that shadows the vendor's: `module` is what kvmd
imported, `cache` the entry of `alru_cache` (a task while it runs, its result for `Ttl`,
nothing of one that failed), `asked` when each scraper asked. A manager that never
answers holds every scrape, because they share one task without a timeout.

| Run | Bounds | Shows |
| --- | --- | --- |
| `hid_keyboard` | 2 helpers, 1 key, clock to 5, 2 faults | `HelpersSafe` (order, success releases), `CleanSequences` (turns, exits release), `HelpersEndInTime` |
| `tool_safety`, part `scripts` | typings and holds of `MCTypings`, `MCHolds`, KVM digits 0, 1, 5, 8, 9; timers 1 unit late | `ScriptsSafe`: the other end hears what was asked, a hold is held and ends in time |
| `tool_safety`, part `export` | 2 scrapers, 3 ticks, `Ttl` 1, one input and output of one name, a hidden channel | `ExportSafe`: answers whole, recent and without double rows; a 500 only with a manager that failed since |

One helper taps with a pause between press and release, the other meets a token it
cannot type with its key down. Two faults let kvmd take the slot between a poll
and a write and a signal arrive after that. The timeouts keep the code's order (cleanup
shorter than start and report, those shorter than the budget), and the clock passes
the start, report and cleanup deadlines and the budget of a helper that was held up.
All helpers end in the end, so the run does not check for deadlock.
`HelpersEnd` assumes that a process that can run does and that time passes; nothing
of the host, which may leave its report in the slot for ever.

## Inference runtime

Four programs make an engine of a profile, and none calls another.

- `LockReview` is `validate_locks.py`. A checkout is a record of mods (their locks, the
  images of their Dockerfiles, patch files) and recipes; every field that relates two of
  them is kept and a pin is `<<digits, value>>`. A mod's lock is read, then each recipe,
  and the first disagreement ends the review. `AcceptedIsConsistent` is the consistency a
  reader relies on, `ReviewedTreePasses` its converse for right trees.
- `TensorFoldLaunch` is the runtime plugin: `calls` of SparkRun in several contexts,
  launches nested in one another, the head's address in a ContextVar, overrides, the model and drafter
  paths of a rank.
- `ServingPins` composes the two: what the review accepted is launched with overrides, and
  `ReviewedIsServed` says that the snapshots an engine reads are the pinned ones. The
  review does not look at `defaults.model_path` and `model_revision`, with which a recipe
  redirects its model; a recipe or launch that does is excused (`Redirects`).
- `EngineStart` is the environment of a rank and the `serve.py` of each mod. The DeepSeek
  entrypoint links views under /tmp while files are being staged and may be killed
  anywhere, with or without losing its /tmp. `NothingIgnored` covers GLM and the one-Spark engine:
  two-rank Qwen reads neither DRAFTER nor MTP_DRAFTS, and DeepSeek none of the drafting settings,
  without a word; `EXTRA_ARGS --context` on DeepSeek reaches rank 0 only, and an empty
  override of the context becomes the text "None".
- `SiteFixes` is the fixer of installed sources and the run.sh around it, `ModBundle` the
  checks, builds and recording of a frozen mod, with the operator's edits, checkouts and a
  stop anywhere. A binary recorded by a direct `prepare.py --record-binary` outside
  build.sh, and an edit undone within one build, are not modelled: the code trusts the
  operator there.
- `Readiness` is both versions of the readiness gate against an engine that is replaced or
  degrades between any two requests; `Promised` is the profile's promise stated from the
  docs of the gate, apart from its code.
- `LongSessions` is the benchmark suite: `req` and `watcher` per request, the monitor's
  samples, `shut` sockets. A stream is what its lines leave the client with.

| Run | Bounds | Shows |
| --- | --- | --- |
| `serving`, part `pins` | one checkout with a profile of each of the four kinds, a harmless variant and 32 edits of a lock, a mod or a recipe; 2 contexts, 2 launches, depth 2, overrides of window, ranks and drafter | `PinsSafe`: accepted trees are consistent, right ones accepted, ranks meet on their own fabric, what was reviewed is served |
| `serving`, part `bundle` | 4 kinds of mod, 2 patches of 2 contents, 1 edit, a crash anywhere | `BundleSafe`: a recorded binary is built from the recorded patches, what is served is locked |
| `tool_progress`, part `gate` | 2 prompts; engines that render any mixture of them, and engines that differ from a sound one in one fact; 1 replacement | `GateSafe`: passed exactly if promised, levels skipped only without a route; the gate ends and passes a healthy engine |
| `tool_progress`, part `suite` | 1 request, 1 phase, 2 hosts | `SuiteSafe`: a cut stream is no row, no stray watcher, ok is clean, memory ends it for three samples in a row; a cancel ends |
| `tool_progress`, part `fixes` | 2 files, upstream or drifted, 2 kills | `FixesSafe`: starts patched, a refusal writes nothing; fixes converge |
| `tool_progress`, part `start` | settings of `MCConfigs`, devices of `MCRdma`, 2 ranks, 1 shard, 1 kill | `StartSafe`: locked views, nothing ignored, ranks agree; a servable engine serves |

An edit of one field is what a review is for; edits that agree with each other are in
`Harmless`. The first version of the gate is in the run too; what is promised of the
reasoning levels is asked of the second.

Fairness: requests have timeouts, so the gate's steps are fair; threads run and a
socket that was shut ends its read, and of what a server sends nothing is assumed; containers are
started again and staging is finished, by SparkRun and the operator.

## Disk qualification

`Qualification` is a run of `sn770-qualification-host.sh`: `main` and the four
workers are processes of one shell script, and `stateFile`, `stopFile`, `failureReason` and
the counts the files they share. systemd sends SIGTERM (`term`), after which commands
that were running fail. A tool that fails otherwise has met a fault (`ioFaults`).
`SendScreen` is the other script of that directory, whose stop is a file that the start
removes (`StopInTime` counts from a running screen on; a stop before is lost by `rm -f`).

Three ends are outside what the properties say: a stop between line 130 and the trap, or
diagnostics longer than `TimeoutStopSec`, leaves the word "running" behind, and a stop
during the final wait can end as "complete" over "stopped". `start`'s guard, the
failure action and the observer, which only reads, are not modelled.

| Run | Bounds | Shows |
| --- | --- | --- |
| `tool_safety`, part `qualification` | target 1, each worker 1 iteration, 1 fault | `QualificationSafe`: a failure is real and reported, an ended run says so; every run ends |
| `qualification_clean` | the same | the disagreement below |
| `tool_progress`, part `screen` | 2 workloads, target 3 | `ScreenSafe`: stops in time, files agree; the screen ends unless a workload hangs in the kernel |

The disagreement: the procedure (docs/plans/20260818-sn770-zfs-qualification-procedure.md:388)
says "Stop a run immediately for any of:" and lists failures of the controller, the pool and the
tools. After the main loop only targets and the elapsed time are looked at before the state
becomes "complete" (sn770-qualification-host.sh:241-248): a worker that fails in its last
iteration leaves `failure.reason` behind and the run is complete all the same. `FailureReported`
says what the code does keep: a reason recorded by the time the loop ended is reported.

## Operator's programs and CI

Each program is an actor against a world that moves between its steps; the module's last
disjuncts are what others do.

- `Healthchecks`: preview, survey, confirmation, second survey, requests check by check,
  reading back. Others edit; a request fails with or without its effect; Ctrl-C anywhere.
- `McpProbe`: the three calls and the deletion, with what http.client does after an error:
  it connects again by itself, after a timed-out answer it refuses the DELETE and the
  session is left behind, after a cut body it sends but reads no answer.
- `PolicyDelta`: prepare and verify around an edit in the UI. Only complete inventories
  are read, the operator's edit changes only `source.ips`.
- `CaddyPromote`: the workflow's scope jobs and publishers, its concurrency group, kills, and
  main moving. The qualification of pull requests uses the same checks.
- `CeilingPublish`: reads of main, the pull request and the branch, the push under a lease,
  the pull request. Merging is assumed to squash. Three cases are excused by name in the
  properties: a branch that equals an old commit of main (its pull request is empty and
  creating one fails each time), a branch begun on a later main than the run read, and
  GitHub closing an empty pull request, which counts as somebody's act.
- `RenovateProblems`: the daily check; a stalled Renovate passes it, which it cannot see.
- `AthenaCertificate`: the hook by Lego and by hand, overlapping. DSM's own validation is
  external; the domain key is retained on renewal; an import of files that Lego rewrote since
  they were verified is excused (`late`).
- `DeliveryDrill`: fixture, collector, verifier and measurement. The verification is a query.
- `HomeDashboard`: `render-home.py` and `schema.py` on a heap of panels, one call per step
  (`stage` is how far a run has come), with edits of the sources between runs. A dict is a
  sequence of names and objects in order, which `Put` and `Update` change as assignment and
  `update` do; the loops are recursive functions. `NamesAssumption` is that no two elements come
  to one name: the code joins names with dashes and would not notice (it holds of its pages).
  `HomeOverview` extends it: the system of a series (`widgets.py`) and the rules (`overview.py`)
  as functions of the metrics, against what the board shows. A trend drops a fifth series
  without a word (schema.py:216), "-1 Not collected" is never produced, and both are outside the
  properties; rules of one shape stand for each other.

| Part of | Bounds | Shows |
| --- | --- | --- |
| `tool_progress`: `checks` | 3 slugs, 2 files, 2 projects, 1 edit, 1 failure | `SyncSafe`: verified is what was confirmed, an undisturbed run verifies; reruns converge, the watchdog's check is never created |
| `tool_progress`: `athena` | 3 issues, 2 hooks, 2 failed imports, 1 rebinding | `CertificateSafe`: leaf and chain belong together, done is issued; the issued is installed in the end |
| `tool_safety`: `probe` | none needed | `ProbeSafe`: success only if all was answered and the session is gone |
| `tool_safety`: `policy` | 2 forwards, 1 other policy, 2 spare ids, 2 acts of others | `DeltaSafe`: a match is the reviewed change alone, a refusal has a cause |
| `tool_safety`: `caddy` | 2 commits, 3 workflow runs | `PromotionSafe`: candidates are qualified, staleness is flagged; the tag never goes backwards |
| `tool_safety`: `ceiling` | 2 pins, 2 commits of main, 2 runs, work of others upon the branch once, before or after a run's commit | `CeilingSafe`: no work discarded, what is published is right, refusals have a reason |
| `tool_safety`: `renovate` | bodies of 3 lines | `DashboardSafe`: clean without a problem, else every problem said |
| `tool_safety`: `drill` | 4 rows, 3 planned, 2 losses | `DrillSafe`: a pass is exact, one range per loss, measurements are real |
| `tool_safety`: `home`, `overview` | 6 sources of two systems; 4 alerts, 2 collectors, one disk, machine and count | `HomePageSafe`: references resolve and tabs keep their own panels; what fires is listed, the board says the worst |

Fairness: `Converges` assumes that the operator runs apply again and confirms again (strong
fairness, since edits and failures may come in between, but finitely many); `IssuedIsInstalled`
that a failed import is run again by hand and that Lego ends its renewals.

## Composed runs

`serving`, `tool_safety` and `tool_progress` hold several programs that do not meet.
`part` is chosen once; the program it names takes its own steps from all its initial
states, and the others stand at one state of theirs (`...Stands`), so the state space is
the sum of the parts' and not their product. Every property is checked in every state, and
fairness is asked of the part that runs. A few parts run in a restricted environment that
is stated in the MC module: `PolicyRuns` (counters of one forward and one other policy move),
`RenovateRuns` (the dashboard changes between checks, which read it once), `GateRuns`
(what an engine is replaced by), `StartRuns` (kills with one setting), `CeilingRuns` (others
commit work once, and else only the branch's first commit). Programs end, so
these runs do not check for deadlock; that they end where they should is what
`ProgramsGetThere` and `RunsEndAndTagsAdvance` ask.

## Proofs

Proofs hold for every value of the constants under the named assumptions beside
their declaration.

`FlowCollectorProofs`, from `ConfigAssumption`, `LookbackAssumption` and `RetentionAssumption`.
The inductive invariant `IInv` adds to the types: no mark is past the settled past (`Settled`),
the cycle's end limit and deadline belong to one moment, expired rows are older than the
retention, and the window being stored contains every row owed in it, is capped at its oldest
row, or is marked as partial. `Coverage` alone is not inductive because it does not say that the
window about to be moved over was found in full; `OwedIsFound` shows it was, which is where the
retention assumption is used. `AckInv` says that an accepted row is remembered or lies before
every window still to come; `OkInv` that a cycle has something to write before it can end well.
`Refinement` maps every step to one of `FlowArchive` or a stutter. `CollectorIsSafe` collects
type correctness, both coverages and `OkIsDurable` into the invariant the runs check;
`AcceptedOnce` and the refinement are theorems of their own.

`ConsoleSessionProofs`, from `SessionAssumption` and `SpacingAssumption`. `CycleInv`
relates the counts of a cycle to the token and `fresh`; `QuietInv` says that the
silence a 429 asked for never outlasts `requests_after`; `SpacingInv` that the
remaining login wait and the time since the last refusal add up to the spacing owed.
`SessionIsSafe` and `ConsoleSpared` are what the run checks. That the table `Spacing` is a power
of two is evaluated by TLC and only its recurrence is assumed.
The same module has the drill: `DrillIsSafe`, from `DrillAssumption`. `BufferInv` says the
buffer is the last lines read, so that a kill puts the reading back to a line there is;
`SampleInv` that the sampled process has counted since what all have. `PassedIsExact` is a
fact of counting: as many numbers as rows leave no two rows of one number. That there is
at most one missing range more than losses, `RangePerLoss`, needs `LossInv`: the numbers
outstanding, cut at the line that is shipped next, fall into at most `losses + 1` ranges.
Shipping takes away the number at the cut, a loss moves the cut, a restarted fixture moves
it to the beginning; only the latter two can add a range, and both count.

`HostSwitchProofs`, from `HostsAssumption`. `FlagsInv` ties flags, buttons, message
and the wait of `requestSwitch` to each other; `PortInv` says what is known of the
switch while a pulse is under way, about which `ClaimedPort` is silent. `PageIsSafe`
and `NoPulseInDoubtHolds` cover all five safety properties.

`HidKeyboardProofs`, from `HidAssumption`. `LockInv` says that a helper holds the lock
exactly from the opening of the gadget to its end and has submitted nothing before;
`TurnsTaken` itself says nothing of the lock. `StepInv` ties the phases to the
script's current step and to what was submitted, without which neither the type of
the next report nor the state a pause ends in is known. `SequencesClean` (turns and
releases) rests on these. For `HelpersAreSafe`, `SentInv` says what was submitted by the
position in the script: the reports before it, the one at it while it is flushed, and in a
release those and the neutral one; `KeysInv` says that a neutral report that was submitted
is still in the slot or the host is free of the helper. `DueInv` gives the total deadline by the
position, which is what `InputIsInTime` needs. A script's reports and the time it gains are
recursive functions; that they have values of their type, and that the reports of a beginning are
the beginning of all reports, is shown by a least counterexample (`Least`, `UpTo`,
`Recursion`), because the induction theorems cannot be instantiated.
The same module has the metrics export, from `ExportAssumption` and `PathsAssumption` (names
the exporter joins from a path stay apart): `ExportInv` ties what each manager said to the
request that asked it and an answer to values a manager can give. `ExportIsSafe`,
`ErrorsAreOfManagers`. It also has the other programs of the
appliance and the dashboard:

- `OverviewIsSafe`, from `OverviewAssumption` (no alert has the name of one of the rules' words),
  for any answers of the queries. `JoinedKeeps` says that the join of the labels loses no
  series, `LoudestFirst` that the first rule that holds is the loudest.
- `ScriptsAreSafe`, from `ScriptsAssumption` (tokens of their kinds, leftovers that fit a report),
  for any tokens, holds and channels. `CharMeans`, `ChordMeans` and `NameMeans` compare the program's
  tables with the usage tables, entry by entry. `ScriptsInv` then says by the position of a
  program what was heard, which keys are still down and which the strokes under way will make heard,
  and what is left of the token, so that the end of a program is the end of what was meant.
- `HomeIsSafe`, from `HomeAssumption` and `NamesAssumption`, which TLC evaluates for the sources of
  the run and which the names of the repository's pages satisfy (no two elements come to one
  name). `HomeInv` says that the tabs are a function of the sources and of their number, that every
  element shows the panel it asks for, that while tabs are made the declared panels stay as
  they were declared, and that the panels stamped for a tab lie behind all earlier ones, so
  that retitling them reaches no other tab. The panels of a tab are made by a recursive function; an
  invariant along it (the stamps so far are named apart, each as its cell asks) takes the place
  of the loop. A string the prover sees is not known to it to be one (`Texts`).
  `HomePageIsSafe` joins it to `OverviewIsSafe`.

`PageReadProofs`, from `PageAssumption`: `ReadsAreWhole`. `NothingMissed` is about the end of a
read. While it runs, a row that was listed all along and is not yet read is still beyond the pages
read with nothing older before it (`Ahead`), or crossed a page boundary among rows of its own
time; then one of those is read twice and the count stays short (`Counted`).

`HostsPageProofs`. `PlaybackIsSafe`: the property is inductive as it stands. `MediaIsSafe`: the
property compares events that lie far apart, so the invariant says what can still come of
a gesture, that its decision is that of its first event, and that a key the host saw is held to
"pass" (from `MediaAssumption`: a key is not the word "gesture"). `VerdictsAreSeen`: `WatchInv`
ties what the loop remembers to the log of its readings (from `VideoAssumption` and
`NullAssumption`: no reading is JavaScript's null).

`MachineProofs`, one section per module:

- `FixesAreSafe`: `WaitingInv`, a file that was looked at carries the change or is still to be
  written. Any list of files, any number of kills.
- `SuiteIsSafe`, from `LsAssumption`. A row is safe because the shutdown comes after the
  cancellation and before the last look. The assumption names two hosts, as the deployment has,
  because the proof needs it: the join outlasts one remote sample, and with a third host and the
  times of the run TLC finds a clean campaign whose monitor was still to record a failure.
- `StartIsSafe`: at every moment the views of a rank are what its loops have linked, because the
  entrypoint first removes what an earlier attempt left. `RanksAgree` is stated per variable:
  only a variable that the extra arguments give may differ, and they excuse no other.
- `GateIsSafe` and `PassedIsHealthy`: `GateInv` keeps what each answer has shown of an engine that
  stayed. `Others` and `RenderOther` let an engine reverse its order of levels and pass over
  prompts that were rendered, for any number of levels and prompts.
- `ScreensAreSafe`: `StopInv`, an iteration counted after the stop had its pass before it; `EndInv`,
  what the files will have come to at the end.
- `QualificationsAreSafe`: `WordInv` follows the final word from the verdict to the file, `ShellInv`
  says why the main shell is where it is, `SeenInv` and `FaultInv` keep a failure in front of
  every later word and tie it to its fault.
- `SyncIsSafe` and `WatchdogIsNotCreated`, from `HcAssumption` and `ProjectsAssumption`: `SyncInv`
  keeps for every declared check the one bearer of its slug, as surveyed or as sent.
- `BundleIsSafe`, from `BundleAssumption`: `BundleInv` says which names a lock has, that a command
  under way began with a lock to read, that a refresh has written what it has not left, and that a
  binary being built is of the patches that are there.

`OperatorProofs`, one section per module:

- `ProbeIsSafe`, `DashboardIsSafe` (at every length of the dashboard from three lines on).
- `CertificateIsSafe`, for any number of hooks and issues.
- `CeilingIsSafe`: any number of commits and runs; `NoneAssumption` says that "no commit" is none.
- `PromotionIsSafe` and `CandidateNeverBackwards`: any number of pushes and workflow runs.
- `RowsAreSafe` and `RestartsAreOfHung`, from `RowsAssumption` and `IdentityAssumption`:
  `WindowInv` has each row of a window left, in the batch or stored, so that `CoverInv` lets its
  end be passed; `CountInv` orders the counters; `TimeInv` bounds a cycle that does not hang.
  The proof led to a stronger `HeldNotLost` than was checked before: the gap holds the row's own
  time, without the overlap's help.
- `DeltaIsSafe`: the checker accepts only under the ids it reviewed, and `EditedInv` says that then
  the edit alone would have kept them. The proof found that this needs ids that are
  not given twice: a new policy under the id of a deleted one passes for it. `NewIds` says so.
- `PinsAreSafe`: `ReadInv` says what the review has read without the order of reading, `AddressInv`
  that the ContextVar holds the address of the innermost launch of its context and each token that
  of the launch around it, `IdInv` what tells the commands of two launches apart. From
  `PinsAssumption` (defaults have values, a recipe names the engine of its mod's lock) and, as a
  hypothesis of the theorem, that the trees under review are right; TLC evaluates the hypothesis
  for the trees of the run (`RightAssumption` in `MCServing`).

Each inductive invariant was an invariant of a run before it was proved.

Only model-checked is liveness (`CatchesUp`, `KeepsReading`, `NoticesSignIn`, `WatchEnds`, `HelpersEnd`,
`ProgramsGetThere`, `RunEnds`), which the prover cannot treat, and what rests on values of the
deployment: that tables such as `Spacing` are what their recurrence says, and that the assumptions
hold of the runs' constants.

## Not modelled

- Of modelled programs: messages, styling, wording, logging, formats of names and paths,
  the quoting of command lines. System calls and requests take effect at one moment. A
  slow console that spends `max_cycle_s` without the window being narrowed (collector.py:361)
  is only bounded, and a capped read is not counted by the code (collector.py:470).
- Talos rollout checks: both scripts only read the cluster and print; what changes
  afterwards is the operator's and Talos'.
- Lost-slot drill: what it waits for is CloudNativePG's and PostgreSQL's; the script is
  queries and exits.
- Media ACLs: what an interrupted run leaves open depends on synoacltool between its calls,
  which the repository describes in part only; a completed run reads back what it wrote.
- Fluent Bit record mapping: pure, without state of its own.
- Cluster bootstrap, repository validators, generators other than the home dashboard's:
  straight-line calls and checks of text; retried by hand.
- Single widgets' queries, colours and layout of the home dashboard: data.
- Manifests, Talos and Helm configuration: inputs of third-party controllers whose code is
  not here.
