# SecVitals: a TLA+ development of the console

SecVitals fires a fixed catalog of benign test signals through a customer's
inline security stack, says of each whether it was allowed, blocked, or could
not be judged, and keeps evidence of it. `secvitals.py` is the console (engine,
window, presenter view, updater, command line); `poc/` is a dual-ended harness
with a reflector. These modules model what the code does where order, sharing,
failure and time matter; the provers show part of it for every size.

Line numbers are those of `secvitals.py` unless a file is named.

## Inventory

| Part | State it keeps | Operations | What is hard | What makes it correct |
|---|---|---|---|---|
| Engine, `App` 2339-2432 | `_run_lock`, `_last_run_end` | `run`, `_run_one` | several threads call it; the lock must be let go on every path; the wait is cut at 5 s | one trigger on the wire at a time; runs spaced; every call returns |
| Ledger, `RunLedger` 1922-2065 | `records`, hash chain | `add`, `set_confirmed`, `verify_chain`, `to_dict` | adds from several threads, annotation and export of a live list | numbers and hashes chain; one record per call; an export is backed by the ledger |
| Evidence log 2288-2335 | a JSONL file and its `.1` | `append_jsonl`, `read_jsonl`, `last_session_records` | no lock between size check, rotation and append; several processes; torn lines | bounded; damage stays where it happened |
| Classifier 1648-1741 | none | `classify_curl`, `classify_probe`, `classify_aggregate`, `classify` | an exit code that policy and a failure share | a verdict no better than its evidence, no worse than the answers |
| Trigger execution 1285-1620, 2436-2600 | capability and feed caches | `run_trigger`, `_run_ew`, `_run_iprep`, `probe_control` | the network changes between requests; caches age; a control is probed afterwards; an alternate origin is asked | allowed went through; blocked did not, and was the stack's doing wherever the run can tell; a cached answer is current |
| Window 4152-4604 | cards, run-all state, UI queue | fire, run all, stop, confirm, results | results cross from worker threads in a queue; stop races the loop | the cards tell what the ledger says; stop stops; buttons come back |
| Presenter 2889-2925, 5233-5463 | scoreboard, one-slot mailbox | open, goto, fire, poll, close | a result polled after the step changed | each result lands on its own step |
| Lanes, trace, buttons and their clock 3148-3400, 3470-3800 | signals in sight, verdict, what is at rest; the list of jobs, one timer | fire, resolve, clear, frame; hover and press; tick, add, drop, focus | verdicts overtake signals; a job added, ended or dropped while the clock goes through the list | draws only what was seen; at rest when off the clock; the clock stops |
| YAML loader 130-357 | none | `yaml_load` | recursion by indentation; four scans that each track quotes and nesting | reads what indentation means, refuses the rest |
| Updater 5700-6000 | files `target`, `.new`, `.bak` | check, download, swap | three fetches; a crash in the swap; two installers | a whole, signed, never older program |
| Loading and command line 360-930, 2736-2793, 6047-6314 | settings and triggers, provenance stamp | load, preview, select, headless run, export | files replaced while in use; precedence of flags; a failure half-way | previews send nothing; the story's order; an honest exit code |
| `install.ps1`, `uninstall.ps1` | the folder, the shortcuts, the entry in Settings > Apps | lay files, shortcuts, register; take away, remove the folder | a step throws; the folder is removed later by a detached command; the updater in the same folder | what is offered is there; the program is whole |
| Harness and reflector, `poc/` | the reflector's ledger | send, arrive, read, reconcile, score | lost, late and cut short probes, answers that are not the reflector's, a path that changes, restarts | an arrival is an arrival; undisturbed, a block is proven |

Interaction: the window, the presenter and the headless loop all call `App.run`,
which calls a runner under the lock, then the ledger, then the evidence log. The
window's workers give their results back through `ui_queue`; the presenter's
through one slot. Everything that moves in the window hangs on one clock. The
updater works on the program's own file, in the folder that the setup fills and
the uninstaller removes. The catalog and the settings are read by the YAML loader. The harness and the reflector talk HTTP.

## Modules

| Module | What it models | Variables and actions against the code |
|---|---|---|
| `Console` | `App.run` and `RunLedger` | `pc[t]` is where a thread is in `_run_one`/`add`; `lock` is `_run_lock`, `addLock` the ledger's; actions `RunBusy`, `RunAcquire`, `Wake`, `Finish`, `Raise`, `AddBegin`, `AddAppend`, `LogAndReturn` follow the code's order, `Attest` is `set_confirmed`, the `Report*` steps are `to_dict` field by field |
| `AttestedLog` | the abstract book | records appended at the end or annotated in place; what `Console` promises |
| `ConsoleProofs`, `EvidenceProofs`, `TriggerProofs`, `DeskProofs`, `StartupProofs`, `InstallationProofs`, `HarnessProofs`, `MotionProofs` | theorems | see below |
| `EvidenceLog` | the log file | one action each for measuring, rotating, opening, writing, failing, crashing; inodes, so that a writer may still hold a file that was rotated away |
| `Verdict` | the classifiers | pure operators, used by `TriggerRun` |
| `TriggerRun` | one run against a network that changes | requests one at a time, failover, control, caches with ages; `CurlAnswers` gives what can come back, so that one exit code may stand for a policy or for a failure (7, 28, 56 for a refusing or hung site or no uplink too, 6 and 60 for a sunk name or broken TLS too); `truth` keeps what really became of a request |
| `Desk` | window and presenter | worker threads, the UI queue, `ArmLane`, `SetResult`, `RunAllDone`; the presenter's picker, mailbox, word and lane; `App.run` is its set of ends |
| `LaneLife` | what a lane promises | fired, resolved, cleared, at rest; `Desk` uses its operators for every card and for the wall, `Motion` implements it |
| `Motion` | `_Anim`, `_Lane`, `_Pulse`, `_Pill` | `jobs` and `timer` are the clock's; a widget's `_job` is the number of its job; `Tick` is `_tick` with one `Frame` per job, in their order; `Fire`, `Resolve`, `RunAllDone` are the window's calls, `Enter`, `Exit`, `Press`, `LetGo` the pointer's and the keyboard's, `FocusCheck` is `set_ambient` |
| `Yaml` | `yaml_load` | operators of the code's names over lines of tokens; a document grows line by line, a value collection by collection |
| `Updater` | `check_update`, `download_and_install` | names and inodes; opening truncates, closing writes from the start of the file (`Written`), over whatever another handle has put there meanwhile; a write may be cut short, a crash leaves what was there |
| `Installation` | `install.ps1` and `uninstall.ps1` around `Updater` | extends `Updater` with the setup's steps (`InstallSteps`), the removal's and the detached command's attempts (`TryFolder`); any step of the setup may throw, any removal may silently fail, which `stuck` remembers |
| `Config` | the loaders, the choice of triggers, the manifest | pure operators; a loader answers loaded, refused (`ConfigError`) or raises |
| `Startup` | `main`, `run_headless`, the readings of the directory | one place per step of `main`; `Edit` is someone replacing a file |
| `Harness` | `poc/harness.py`, `reflector.py`, `control.py`, `effectiveness.py` | a probe's fate is apart from what its sender learns: any 2xx acknowledges it, the control's own page too; a body may be cut short before or behind the control (`cut`); the path and the reflector change underneath |

`MC*` modules give the constants that a configuration cannot write. Compositions:
`Installation` extends `Updater`; `Desk` and `Motion` meet in `LaneLife`; `Startup`
uses `Config`, `TriggerRun` uses `Verdict`. `Desk`, `Startup` and `TriggerRun` take each other's inside as a set of outcomes: `Desk`
and `Startup` use what `Console` and `TriggerRun` let `App.run` end in, and
`Console` takes a trigger's result as a choice among those `TriggerRun` reaches.

## Runs

| Run | Bounds | What it shows |
|---|---|---|
| `Console` | 2 threads, 4 ids (curl, feed, gated, unknown), 2 calls, interval 2 against a cap of 1 | single flight, intact chain, exactly one record per call, exports backed, spacing, the abstract book, every call returns |
| `EvidenceLog` | 2 processes, one writer each, 2 lines a file, 5 appends | files that outgrow their limit by one line per other writer at most, only full ones rotated (alone), damage contained, genuine sessions |
| `TriggerRun` | every kind of trigger, those that rest on a remembered answer 3 times in a row, no or two control endpoints (TCP, DNS; either can be filtered), 2 changes of the environment, caches that live for 2 ticks | honest verdicts; the IPv6 answer a run rests on is current; runs end |
| `Installation` | 2 installers, 2 releases, 2 installs, 1 crash, 1 setup, 1 removal of 2 attempts | whole target, the backup is the prior version, no rollback, what is offered is there |
| `Desk` | 2 workers, 3 triggers (one unavailable), 1 profile beside the catalog, 3 gestures | cards agree with records, tally, stop, scoreboard with the word and the lane on the wall; Fire comes back |
| `Motion` | 1 lane of up to 3 signals, 1 button, the trace, 4 verdicts, 2 gestures, steps of 1 or 2 units | jobs owned, at rest off the clock, draws what was seen, implements `LaneLife`, verdicts play out, the clock stops |
| `Yaml` | 4 lines, 3 indentations, 2 keys, 3 texts, values that grow up to 8 tokens | the descent reads what the indentation means; flow style round trip |
| `Startup` | 7 catalogs, 9 settings files, every flag and selector shape, 1 edit, 1 trigger fired from a window | previews fire nothing, order, exit code, manifest, stamp |
| `Harness` | 5 probes (2 malicious), 4 rule lists, 1 change of the path, 1 body cut short, 1 restart | arrivals real; a block is the control's unless one of four named things befell the probe; a score is earned: it has evidence and, undisturbed, is the control's own rate; the run ends |

Why the bounds are enough: each hazard needs at most two actors and one
disturbance. Two threads meet at a lock, two processes at a rotation, two
installers, or one and the setup, at a file; two releases are an older and a
newer one, and the installers are interchangeable, so the run is taken modulo
their permutation; a lane, a button and the trace are the three kinds of job
(urgent, urgent and added at any time, ambient and added from inside a frame),
and three signals are enough for a ratio to split with one still at the host; the cap is below the interval so that the cut matters;
two lines fill a file so that five appends rotate twice; four lines of a document
hold a mapping in a sequence in a mapping, and the line after it, and three
columns a level that is neither its parent's nor its sibling's; two changes of the
environment let it break and mend, or break in two places, within a run or between
two, and three runs find a remembered answer fresh and stale; a score compares
two classes, so one probe cut short or one change of the path shows in either. Deadlock is not checked: in
every run the system stops when its bounded work is done.

### Where the code and its documents differ

Each of these runs finds one statement of the repository violated.

| Run | Statement | What happens |
|---|---|---|
| `ConsoleUnrecorded` | `App.run`: "Every outcome ... lands in the ledger" | `http.client.HTTPException` from the feed's download passes every handler (2564) |
| `UpdaterTogether` | `download_and_install`: "never leaves a partial file in place" | two installers share `.new`; one empties what the other renames (5966) |
| `TriggerRunDead` | README.md:139-140: an environment failure is never reported as "a false `blocked`" | no uplink, or a dead or refusing site, gives curl's 7, 28 or 56, which are read as blocked (1655) |

Also met, without a run of their own:

- Ledger. M1 speaks of a "true on-wire signal count"; a call refused as busy, or
  without curl, records the trigger's full count though it sent none (1952).
- Failover. What the stack stopped is not to be retried elsewhere, which "would
  launder it" (1390-1391); a name it sinks (6) or TLS it breaks (60) is, and the
  alternate's pass replaces it (1394). `CurlAnswers` has both, and `HonestVerdict`
  speaks of the answer that stood in the end.
- Uninstaller. docs/INSTALL.md:59-61: it takes "the shortcuts, the registration, and
  the install folder"; one that cannot be removed is passed over
  (uninstall.ps1:19, 57-61) and the folder goes. `ListedIsThere` says what is left.
- Reconcile. A missing token "is a genuine inline drop" once anything arrived
  (poc/harness.py:150-151). `BlockIsProven` says when it need not be: the path changed
  and the probe was lost, it was still on its way when the ledger was read (154), the
  reflector refused it, or restarted after it had arrived.
- Verdicts. A majority of drops is enough for blocked (1740), where the docstring
  (1720-1722) says "only when every REACHABLE request was dropped".
  `HonestVerdict` states what does hold; `Blind` is what it leaves out: a site that
  is down and, for curl, which asks no control endpoint, a missing uplink.
  `prefer_kind` decides which control endpoint confirms the path, not whether one
  does (1575-1587): where DNS is permitted and TCP is not, the DNS endpoint makes a
  dropped TCP probe read as blocked.
- Harness. A control that answers for what it stopped makes a blocked probe look
  acknowledged (its latency is measured, poc/harness.py:107-108, and then left out);
  a body cut short reads as mangled (poc/reflector.py:102).
- Evidence. Rotation in the middle of a session leaves `last_session_records`
  with the tail of it (2298, 2330).
- Settings. One malformed east-west target makes the sound ones read as "not
  configured" (623).
- Lanes. The end of a run-all clears every lane with nothing at rest, as "queued
  but never reached" (4599); that is usually also the lane whose verdict is still
  playing. Cards not reached keep the text "queued…". A ratio is decided by the
  signals in sight beyond the gate (3644), so with a verdict that comes while
  signals still leave the host more may pass than were seen to. A verdict for a
  lane that was never fired leaves its gate glowing.
- Presenter. Firing a step again shows its last word until the new one comes
  (5395-5403), although `fire` has just wiped it.
- YAML. A key that comes twice silently replaces its first value; a flow
  collection as a flow key raises `TypeError`, not `YamlError`; `- - a` and stray
  closing brackets become strings; an apostrophe in a plain word opens a quote,
  so that a trailing comment stays; a trailing comma adds a null.
- Setup. It copies in place, without the updater's `.new` and `.bak`; a setup begun
  while the detached removal still tries loses its new files (`ListedIsThere`
  excludes it); `DisplayVersion` and `install-info.txt` are not touched by a
  self-update; uninstalling one of two copies removes the entry of both.

## Fairness

`Console.FairSpec`: weak fairness of each thread's own steps and of time, as
threads are scheduled and `sleep` ends. The runner's step is fair because every
request has a timeout. `TriggerRun.FairSpec`: weak fairness of the run's steps,
for the same reason; none of the environment's. `Desk.FairSpec`: weak fairness
of each worker, of the pump, which re-arms itself with `after`, and of the
presenter's poll, likewise; none of the lanes' frames, on which `FireComesBack`
does not depend, and none of the person. `Harness.FairSpec`: weak fairness of the
sender, none of the path. urllib's timeout bounds each wait on a socket, not the
request: a peer that trickles its answer for ever, a byte within each timeout,
would hold the run, and is not modelled. `Motion.FairSpec`: weak fairness of the tick and of
the focus check, which are `after` timers, and of the verdict, since every call
returns (`CallsReturn`); none of the person, and the clock is only said to stop
once somebody looks. `Installation`, `EvidenceLog`, `Startup` and `Yaml` claim no
liveness.

## What is proved

`ConsoleProofs` proves, for any number of threads, any triggers and outcomes,
any interval and cap (`ConsoleAssumption` types the constants, nothing more):

- `TypeCorrect`: `Spec => []TypeOK`.
- `MutualExclusion`: `OneTriggerAtATime`. Inductive part `LocksMatch`: the lock's
  holder is exactly the thread whose `pc` is past the acquire; without it a
  thread could let go of another's lock.
- `ChainAlwaysIntact`: `ChainIntact`. Inductive part `DraftIsNext`: while a
  thread holds the ledger's lock its draft has the next number and the last
  hash; with `Chained(records)` and `LocksMatch` that is `LedgerInv`. An
  annotation leaves the hashed payload alone (`ChainAnnotated`).
- `RecordedExactlyOnce`: `RecordedOnce`, from `HasOwnRecord` (each call that got
  as far has a record that is its own) and `CallsAddUp` (records and calls under
  way add up to the calls made).
- `RunsSpaced`: the action property `Spaced`, from `NapCoversGap`: a thread that
  naps will have waited out the gap or the cap when it wakes.
- `ConsoleImplementsBook`: `LedgerIsABook`, the refinement of `AttestedLog`:
  initial states map, each step is an append, an annotation or a stutter
  (`BookEnter`, `BookAnnotate`, `BookStep`).
- `ReportsAreBacked`: `ReportBacked`. `to_dict` reads the chain, the count, the
  sum and the records at four moments. Inductive part `ReportInv`: what it has
  counted the ledger still holds, and its sum lies between what the records
  counted first had sent and what the ledger has recorded since; it stands
  because a ledger only grows (`LedgerGrows`, `MoreSignals`) and its first
  records keep their sum (`PrefixSignals`).

The hash is an abstract injective function of the payload and the predecessor:
the theorems speak of the chain, not of SHA-256.

`EvidenceProofs` proves, for any finite sets of processes and threads, any limit
and any number of appends, crashes and refused renames (`EvidenceLogAssumption`):

- `LogWellTyped`: `Spec => []TypeOK`; a thread that writes has a file open, the log
  and its `.1` are never one file.
- `LogStaysSmall`: `RotatedWhenFull`. Inductive parts `AllFit`: what a file holds
  and the threads still to write to it (`Pending`) stay under the bound together, a
  thread joining them only after it found room or its rename was refused; and
  `RotatesFull`: what a thread is about to rotate was full when it was measured, and
  no step shortens a file (`FilesGrow`).
- `DamageStaysContained`: `DamageContained`. Inductive part `RecordsInv`: what
  is anywhere was handed to the log by its run (`AllHanded`), lies in one place,
  with its thread or once in a file (`OnlyOnce`), and is a whole line if it was
  acknowledged (`AckedWhole`). Then every acknowledged record that cannot be
  read lies behind a piece that is not a line, a different one for each.
- `SessionsAreGenuine`: `SessionGenuine`, from the same invariant and
  `ThoseInOrder`: what is read of a file, and what is shown of that, keeps its
  order and picks no place twice.

`TriggerProofs` proves, for any kinds of trigger, lists of endpoints, feeds,
times to live and numbers of runs and changes (`TriggerRunAssumption`, and
`CatalogDescribes`: what a catalog entry says of blocked and allowed answers
describes the gateway, that is, a block page it knows is recognised and nothing
else is taken for one. The code cannot check that; the entries of the shipped
catalog say nothing of either, and so meet it):

- `VerdictsAreHonest`: `HonestVerdict`. What a classifier makes of fair answers is
  fair (`CurlHonest`, `MajorityHonest`, `CurlFair`, `ProbeFair`, `PortFair`). The
  inductive part is in three: `FairInv`, that every answer collected, the first one
  kept while its alternate is asked included, is read as blocked only if it was
  dropped, or if it broke where no site could be reached; `SettledInv`, that in an
  environment that has not changed the control and the answers are those the network
  would give now; and `RetryInv`, what the failover holds between its two requests.
- `CapabilityIsCurrent`: `CapabilityHonest`, from `CapInv`: a cached answer younger
  than the calm is the one a probe would give now.
- `RunsWellTyped`: `Spec => []TypeOK`, from `EnvOK`, `PlaceOK`, `TakenOK` and
  `PlacesInv`, which say what a run holds at each place of `run_trigger`.

`DeskProofs` proves, for any finite set of threads, any catalog, profiles,
outcomes and number of gestures (`DeskAssumption`: a catalog is a list of ids,
what is gated is unavailable, what is unavailable is declined):

- `WindowsWellTyped`: `Spec => []TypeOK`; inductive form `DeskTypes`, with what a
  worker is for (`WorkerFine`) and what the stage holds (`StageFine`).
- `StopIsHonoured`: `StopHonoured`. `OneRunAll`: a run-all is one worker and then
  one message; `StopInv`: once its worker has begun a call after Stop it is not
  about to begin another.
- `CardsAreTheirRecords`: `CardIsItsRecord`. `RecordInv`: each result on its way,
  with a worker or in the queue, names a record of its own that nobody has
  annotated, as no card stands for it yet (`PendingInv`), and what a card stands
  for is of its trigger (`CardStands`); `LaneInv`: the lane plays the status line.
- `ScoreboardHolds`: `ScoreboardIsTrue`. `SessionInv`: a session has one run at
  most, of the trigger on stage, and what it came to is with its worker, then in
  the slot, then on the scoreboard; a worker of a closed window belongs to an
  earlier `show`.
- `TallyHolds`: `TallyIsTrue`, by counting: a result leaves the worker's hand for
  the queue, the queue for the tally, one at a time (`HandMoves`, `QueueGains`,
  `QueueLoses`).

`StartupProofs` proves every property of the run `Startup`, for any command lines,
any contents of the two files and any number of edits (`StartupAssumption` types
them: a settings file has its eight parts, an entry its fields):

- `EvidenceNamesItsFiles`: `StampNamesTheCatalog`. Inductive part `StampInv`:
  until something is edited between load and stamp, what was loaded is what is
  on the disk; from the stamp on, the stamp is what was loaded.
- `PreviewsNeverFire`: `PreviewsFireNothing`, a part of `FollowsScript`. Inductive
  part `QuietInv`: with a flag, none of the places where something is fired is
  reached.
- `CatalogStaysSound`: `SoundCatalog`, a part of `TypeOK`. `LoadedIsSound`: a
  loader that stops at the first unfit entry returns only if there is none.
- `StartupWellTyped`, `HeadlessFollowsScript`, `ExitMeansPolicy`, `ManifestIsKept`:
  `TypeOK`, `FollowsScript`, `ExitIsPolicyNeutral`, `ManifestIsPromise`. They rest on
  `ChosenIsWanted`: what `select_triggers` chooses is what the command line asks
  for, all of it, once, in the order of the narrative (`Along`), although a
  profile is first stripped of its repeats and then of what is gated; and on
  `WayInv`, which says what main has settled at each place (`SettledInv`), that a
  headless run has fired a beginning of its list and holds the rest (`PlanInv`),
  and the three ways it can end (`EndInv`). A run that breaks off has an id left
  that was wanted and never fired (`LeftUnfired`), so it cannot look complete; a
  full one sums the same counts as the manifest (`SumAlong`), because what it
  fires beyond those the manifest counts has no target here and sends nothing
  (`FullChoice`). That the gate adds up is `GateIsCounted`, for any list.

`InstallationProofs` proves every property of the run `Installation`, for any
number of installers, releases, files, installs, crashes, setups and removals
(`UpdaterAssumption`, `InstallationAssumption`: the program's file exists, counts
are numbers):

- `FolderWellTyped`: `InstallationSpec => []TypeOK`; an installer that writes has
  a file, the three names never share one. `OpenEmptyDoes` says once what opening
  a file does to names and inodes; the other lemmas rest on it.
- `NeverBack`: the action property `NoRollback`. Inductive part `VerifiedInv`:
  from its verification to the end of its attempt, what an installer installs was
  published and is newer than the code that runs. Only `Replace` puts a file where
  another was (`OnlyReplaced`).
- `OfferedIsThere`: `ListedIsThere`. Inductive part `OfferInv`: files before the
  entry and the shortcuts, and these gone before the files go (`StepOrder`), but
  for what a removal could not take away, which is all that can still be offered
  then (`NothingElseOffered`).
- `AlwaysWhole`, `BackupAlwaysPrior`: `TargetWhole` and `BackupIsPrior`, from
  `FolderInv`. Of its parts, `AloneInv`: the only one at work finds every file as he
  left it (`Progress`, place by place), so that what he verified is what he
  renames, also if a write is cut short (`AloneBreaksOff`); `CopyInv`: a setup that
  met no installer and no removal leaves what it copied, which is why the folder
  may be trusted again after it. Of two at work at once nothing is claimed: they
  can leave one release's beginning before the other's end.

`HarnessProofs` proves, for any catalog that names no probe twice
(`HarnessAssumption`; `load_catalog` refuses others), any rules of the control and
any number of changes of the path, bodies cut short and restarts of the reflector:

- `NoFalseArrival`: `ArrivalsAreReal`. Inductive parts `LedgerIsTrue`: what the
  reflector holds got there and is what was made of it on the way, what was
  acknowledged got there or was dropped by a control that answered; `ReadInv`: what a verified ledger
  proves of each probe (`Evidence`), and that what is still crossing when it is
  read changes none of it.
- `BlocksAreProven`: `BlockIsProven`, with `ReadInv` for what a missing token leaves
  open, `SentInOrder` (all were sent when the ledger is read) and `PathSteady` (a
  path that never changed was up for all).
- `ScoresAreEarned`: `ScoreIsEarned`. Whatever happens a score rests on an arrival
  (`ScoredOnArrival`); undisturbed, the outcome of a probe is what the control does
  to it (`OutcomeIsTreatment`, from `OutcomesAre` and `PartDropped`: what is dropped for a
  part of it would be for the whole), so the rates are shares of the
  same sets, and rounding to a thousandth at each step moves the product by no
  more than the property allows (`RoundedClose`, `ProductClose`).

`MotionProofs` proves every safety property of the run `Motion`, for any finite sets
of lanes and buttons, any numbers of signals, distances, lengths of a tick and
numbers of gestures (`MotionAssumption`: the widgets are different ones, the lengths
are positive, the gap may be 0, `None` is no verdict). All of it rests on one invariant, `IInv`
(`MotionSteady`), in three parts:

- `Owned`: each job in the list is the one its widget holds, no widget has two, no
  two widgets hold the same. Every change of the clock goes through `Started`,
  whose number is fresh because there are more numbers than jobs and widgets
  (`FreshIsFresh`), or through `Dropped`, which takes the jobs of some widgets and
  leaves the others in their order (`DroppedKeepsOthers`). `Armed`: while there is a
  job there is a timer.
- `AtEase`: the trace and the buttons that hold no job are at rest.
- `LaneInv`, per lane: what is off the clock is played out; before a verdict no
  signal is gone and none has passed (`Unlearnt`, `NoneIsGone`); after it every
  signal shows a verdict seen since the lane was fired (`FlownShowsKnown`); and if
  all of them waited, they wait still (`StillWait`) or have all learnt it
  (`AllLearnt`), as many passing as `Admitted` says. They learn it in one frame,
  each counting those before it, which is why the count is exact
  (`AllLearnAtOnce`); afterwards nothing changes sides (`LearntStay`).

A tick runs one frame per job and the list changes under it: a frame may put the
trace on the clock and take its own widget off. `Midway` is what holds between two
frames (the invariant, each job still to be run held by its widget, and no lane
altered but by playing out), `MidwayNext` carries it over one frame
(`FrameFrames`, `RunJobRuns`), `TickedIsSteady` over all. Then:

- `NoJobIsLost`: `JobsAreOwned`; `NumbersAreApart` counts the jobs by their numbers.
- `NothingStops`: `OffTheClockAtRest`.
- `LanesDrawWhatWasSeen`: `DrawsWhatWasSeen`.
- `LanesAreLives`: `LanesLive`, the refinement of `LaneLife`. Each step keeps more
  than the invariant: it `Advances` every lane, which is fired, takes a verdict, is
  cleared, plays out or stays as it seems from outside (`StepsKeep`), and each of
  these is a step of `LaneLife` or a stutter (`AdvancesIsLife`).

Recursion. The library's induction theorems take an operator as a parameter, so
each module that needs induction proves a set form of it: a set of naturals that
holds 0 and each successor holds them all (`Induct`, by way of the least number
missing or of cardinalities). With it a function defined step by step over the
places of a list can be reasoned about (`Recursion`, `ThoseInOrder`,
`ManifestTallied`, `SignalsTallied`); the sums and choices of `Console`, `Config`,
`Startup` and `EvidenceLog`, and the tick of `Motion`, are written so.

Only model-checked: `NoFalseBlock`, `EveryOutcomeRecorded` and `NeverPartial`, which
the code does not keep; `CallsReturn`, `FireComesBack`, `RunsEnd`, `RunEnds`,
`VerdictPlaysOut` and `ClockStops` (liveness is outside the prover); and
`LoadIsMeaning` and `FlowRoundTrip` of `Yaml`, whose operators are recursive, as the
descent of the loader is.

## Not modelled

- In `Yaml`: escapes in double quotes, `''`, and the typing of a scalar; a word is a word.
- RSA and DER arithmetic (5700-5815), HTTPS: external, by contract.
- HTML, CSV, manifest and report rendering; painting and geometry.
- `poc/` self-test rig and command lines.
- Finding or downloading a Python and the setup's window (`install.ps1`); `install.bat`,
  which starts it; `tools/*.sh`, run by hand at release.
- `.cursor/`, continuous integration: not the program.

`PROJECT.json` lists each component with its status, and the hazards with the
properties that cover them.

## Plan

Built in this order, most important first: `Console` and its proofs,
`EvidenceLog` and its proofs, `Verdict` and `TriggerRun`, `Updater`, `Desk`, `Harness`,
`Config` and `Startup` and their proofs, `LaneLife` and `Motion`, `Yaml`,
`Installation` and its proofs, the proofs of `Motion`.

Left to model: the report dialog of `Desk`. Left to prove: `Yaml`, which would need
its descent and its reference meaning as functions over the nesting of a document.
