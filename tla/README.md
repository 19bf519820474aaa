# A TLA+ model of localharness

localharness finds local models, screens and measures them on the machines it
runs on, adopts the winners per lane and serves them through a gateway. This
directory models the parts of it where several processes share state or where
one loop must get through a backlog, checks them with TLC on small instances and
proves their main invariants with TLAPS for every instance.

## The system

Processes, on one or more machines:

* **callers** (`soh ...`, the MCP server) that add, reorder, cancel, pause and
  resume jobs, adopt by hand, fetch, clean up, and ask for reports;
* one **worker** service per machine (`harness.workqueue serve`) that runs the
  jobs of its machine in order, each in a process group of its own;
* the **discovery loop** (`soh discover --loop`), which inspects candidates, reopens
  due retests, sweeps the disk, fetches, screens, measures and adopts;
* the **gateway** (LiteLLM under `scripts/serve-gateway.sh`), kept running by
  launchd, with a callback and a thread that log its usage, and one detached
  **switch** per adoption that restarts it;
* the **router**, which unloads models between runs;
* the **deploy** (`scripts/launchd.sh install`), which reloads all services.

Shared state: one SQLite or Postgres store (proposals, verdicts, jobs, adoptions,
gateway_switches, downloads, runs, usage), the hub directories with the weights,
files under `$LOCALHARNESS_HOME` (pause flag, pid files, cancel flags, heartbeat,
the served config), and two advisory locks, the runner lock of a machine's queue
and the machine lock.

| Component | State | Operations | Hard part | Correct when | Module |
|---|---|---|---|---|---|
| work queue | `jobs` rows, runner lock, pid, flag and pause files, process groups | add, priority, cancel, pause, resume, quiesce, serve, recover | cancel against pick and finish; a killed worker; two workers | a command is started at most once; a cancel stops everything it started; a quiet queue stays quiet | `WorkQueue`, `JobLedger` |
| deploy | the queue's pause, the loaded units, the machine lock | quiesce, reload, resume | it holds the machine lock while it waits; a quiesce that fails is gone on without | it returns, and kills no job | `WorkQueue`, `Deploy` |
| proposal state | `proposals.state`, `verdicts`, retest columns | decide, retract, retest, revisit | concurrent writers, stale listings, rollback | the history explains the state; answers reopen only by name | `Transitions` |
| alias switch | served config, `gateway_switches`, the gateway | adopt, wait, restart, await, retry, restore | the gateway regenerates the config itself; runs in the way | the gateway ends up on the adoptions, or the report says so | `GatewaySwitch` |
| machine lock | the flock, the holder file, `LH_GPU_LOCK_HELD` | held, try_held, probe, unload | the environment is inherited; orphans | one run at a time; the file names it; an unload takes no other run's model | `MachineLock` |
| usage log | a bounded queue, a thread, its connection and labels | put, drain, insert, count, close | drops, lost answers, restarts, a count two threads add to | every row is stored or given up, in order; no adoption's label too old; no text when off | `Usage`, `UsageLedger` |
| downloads and disk | `downloads` rows, the hub tree, verdicts, keepers | start, finish, removed, sweep, delete, record | a cleanup reads at four moments and deletes later, against a fetch | nothing protected is deleted, what is due is; "have" means whole | `Weights` |
| discovery loop, screen, measure, inspection | the proposals' places, the disk, the backlog, the budget | inspect, retest, sweep, fetch, screen, measure, judge | candidates that are put off again and again | every other candidate is answered; the budget holds; nothing swept is fetched back | `Ladder` |
| store and migrations, volume, router's choice of engine, MCP, and the rest | see "Not modelled" | | | | |

How they interact: jobs are commands that take the machine lock (`Deploy` composes the
queue with it); the loop's measurements write verdicts (`Transitions`) and adoptions,
an adoption spawns a switch, the switch waits for the machine lock and restarts the
gateway (`GatewaySwitch`), a restart loses what the usage log held and gives it new
labels (`Usage`); the loop's sweep and fetch act on one disk (`Weights` in detail,
`Ladder` as two stages).

## Modules

| Module | What it is |
|---|---|
| `WorkQueue` | `harness/workqueue.py` with the reload part of `scripts/launchd.sh` |
| `JobLedger` | what the queue promises of a job: taken or dropped once, started once, settled only after its command has ended |
| `Deploy` | `WorkQueue` composed with the machine lock as its jobs and install meet it |
| `Transitions` | `memory_store/transitions.py`, with the sweeps of `retests.py` and `revisit.py` |
| `GatewaySwitch` | `gateway_switch.py`, `gateway.py`, the end of `adopt.record`, `exclusive.held` and `scripts/serve-gateway.sh` |
| `MachineLock` | `exclusive.py`, `with-gpu-lock`, the router's and delegation's probes |
| `UsageLedger` | what the usage log promises of a row: held, then stored or lost, oldest first, for good |
| `Usage` | `usage.py`: the callback, the queue, the thread, `close`; implements `UsageLedger` |
| `Weights` | `downloads.py`, `fetching.py` up to a download, `disk.py`'s cleanups and `--record` |
| `Ladder` | the loop of `commands/loop.py` with the tiers it calls, and the judge |
| `MC...` | values for the constants of the runs, and symmetry sets |
| `...Proofs` | the inductive invariants, lemmas and theorems |

Definitions named `Mutant...` are plausible faults. Each one replaces the
definition it stands before, and the property it is paired with in `PROJECT.json`
is then violated; they are not part of any specification. Variables marked
"history" are written and never read by an action.

### WorkQueue

Every store statement, file operation and signal is one step; the steps of
`serve`, `run_pending` and `run_one` are the places of `wpc`, those of `cancel` and
`stop_group` of `cpc`, those of `quiesce` and the worker part of `install_units` of
`qpc`. Rows, pid files, cancel flags and the pause flag survive a kill and a
reboot; locks and memory do not. A process group is a leader and one helper that
may outlive it and ignore SIGTERM; a group outlives its worker but not a reboot.
`runs` counts how often a command was started and is history only, like `holding`.
A quiesce that fails or is killed (`QuiesceFails`) leaves its pause, and the install goes on to
reload the worker without it (`launchd.sh:236-239`) and does not resume; an install that is
interrupted (`InstallDies`) leaves the pause and stops. Both count with the crashes.

`WorkQueue` maps to `JobLedger` by its rows, its next id and `CommandOf`, which reads a
command's place from `runs` and `exit`. A write to `jobs` is `Add`, `Drop`, `Take`, `Settle`,
`Cancel` or, for the rows `_recover` finds cut off, `CutOff`; a start that fails exits at
once; everything else stutters. The ledger says what a caller may rely on and no more:
`Settle` and `Cancel` may each write over the other, since a result can be written after
the cancel flag was read, and a row dropped after the pick does not keep its command from
starting.

Left out: the `rc`, log, time and note columns, rows with no machine, the
Windows paths, `import_json`, run linking, and reuse of a pid by another program.
Memory pressure is a gate that may be closed at any time.

### Deploy

`WorkQueue` with the machine lock of one machine (`gpu`) and the jobs whose command has had
it: `InstallStarts` is `install` re-executing itself under `with-gpu-lock` and then reading
the queue, `JobTakes` is a job whose command gets the lock. Everything else, `Otherwise`, is
a step of `WorkQueue`, and the lock follows its holder (`LockFollows`): a command gives it
back when its leader ends, an install when it is over, whatever ended them. A command may
end without having had the lock, an install may be interrupted, and a quiesce may fail; only
the end of a command that has done its work is fair (`JobEnds`).

### Transitions

One proposal (proposals share no rows) and several writers. `Read`, `Insert` and
`Move` are the three statements of `_write`'s loop; a losing `Move` is `Beaten`,
which deletes its row and tries again, `Tries` times. The update, the retest
schedule and the commit are one step because the updated row stays locked to the
commit; a transaction that dies (`Dies`) leaves nothing. What a tier may write is
`Outcomes`, read from the tiers and from `reasons.CLASSES`. `ListDue` and
`ListRevisitable` read a listing, and the write happens later against whatever is
there by then. The `until` condition is a Boolean; scores, run ids and times are
left out, so the "restating" shortcut at line 111 is a nondeterministic stop.

### GatewaySwitch

A config is a function from lanes to specs, since an alias is determined by the
lane's spec; every default is taken to route to an alias, and the served config to
exist. Reading and writing the file is one step each. A waiter's places follow
`switch` line by line: the text kept to put back, the comparison, the wait (quiet or
forced), defaults, write, read back, restart, await, record. The gateway's own start
reads the defaults, writes the same file and loads it, so it races with the waiters
on `file`. Two kinds of trouble share a bound: `fails` are restarts that fail
and starts slower than the deadline, which `switch` is written to meet; `losses` are
a waiter killed or never started, a gateway that stops by itself, a store that
cannot be read (the typed defaults are used) and a start that falls back to the
base config, of which nobody is told; `CleanReportIsTrue` and `AdoptionServed`
are about behaviours without any. An attempt
may time out beside a gateway that serves what was asked, when it does not answer
`/model/info` in time; that counts with the fails. `mute` is history: an attempt failed when no
alias had moved. `_record` writes one row per lane that moved, so such an attempt
writes none.

### MachineLock

Runs, the processes they and their children start (`Kids`), and probes (the router's
`_no_run_in_flight`, delegation's `busy`). A process's place follows `held`: out,
waiting, took the lock, in its block, leaving (its name unlinked), and `nested` for a
block its inherited mark let it into without the lock. `env` is the set of processes
whose environment carries `LH_GPU_LOCK_HELD`; `Spawn` copies it, a kill drops the
kernel's lock and leaves the mark in the children. A block waits for the children it
started and is not left while one lives (`Waited`). `freeing` are the processes in
`router.release` whose environment is marked: the router then takes no lock
(`router.py:129-131`) and unloads (`Unload`). The callers of `release` (`screen.py:238`,
`measure.py:158`, `loop.py:265`) are in no block of their own then and have waited for what
they started, which is the guard. An unmarked unload is a probe. `above` and `under` are
history: a process's ancestors, and the block it was started in.

### Usage

A row is its number. `Put` is the callback; `Top`, `Drain`, `Drained`, `Open`,
`Insert`, `Commit`, `Count`, `Counted` are the thread's `_run`, with the places where
another process or the callback can come between as the values of `pc`: the stop
event is read before the drain, the text flag before the commit, the count of drops
before it is written back. A commit may succeed, fail, or succeed with its answer
lost; opening may give a connection with the adoptions as labels, with the typed defaults
`lane_defaults` answers when it cannot read them (`adopt.py:575`), or with none, no
connection, or a store this gateway must not write. `Restart` ends the process with its queue. What `row()` and
`sample()` read from a request is data and is left out.

`Usage` maps to `UsageLedger` by `Fate`: a stored row is stored (whether or not the
thread knows), a row given up is lost, any other row made is held. Offering a row is
`Put`; settling the oldest held rows together is a commit, a counted batch or a
restart; everything else stutters.

### Weights

A repo has one hub directory (absent, with an incomplete blob, torn, whole); rows are
found by their path and written by their id. A fetch is three steps apart: the row it
found, `start`, the download, `finish`. A cleanup reads the verdicts, the keepers, the
rows and the tree one after the other (`inventory`), and then removes entry by entry,
stamps the rows and clears orphaned blobs; any fetch, judgement, reopen, adoption or
day may come between, and a kill at each step. `todo` is what a cleanup is to remove by
what it has read so far. `since` is history: what has held of a repo, without a break,
from the cleanup's first read on. `astray` is history too and marks the cases in which
the code makes no promise of a directory: removed halfway or under a fetch, recorded by
a person as found, or fetched beside a second live row of its path. `HaveIsWhole`
excepts them, by name.

### Ladder

One process, the loop, with `pc` as its stage and `todo` as what the stage still has to
do; a stage reads its work once, when it starts, as the code's `for` over a query does.
The inspection reads `Window` of the waiting candidates, `LOOP_INSPECT * 5` in the code, of one
registry; the code orders them by sightings, which are data here, so any of that size may
be listed (`Listed`). `Lingers` are those that may keep their place in that list for ever.
A candidate's `place` is the place of the verdict that holds its state: queued at the tier that last
wrote (`screen` stands for that tier and every later one that queues again, a
candidate that won on an engine which cannot enforce the lane's schema included),
screened, measured, refused before its weights were fetched, or rejected since, with
its age (`fresh`, `cold`, and `due` for a week with a retest left). `Stuck` are
candidates that a tier may put off for ever (no memory, no harness, no control); every
other candidate is served by the fairness below. A runner's base (`fetching.runner_bases`
names at most one) is a weight of its own that only a fetch brings. The sweep's details
are in `Weights`, the rules of a verdict in `Transitions`. `WithinBudget` counts candidates
and bases; what else a runner `requires` is downloaded by `fetching.py:311-318` without a
charge on the budget and is not counted, though `fetching.py:359` speaks of the total.
Left out: the sweep of the feeds, `reverify`, knob sweeps, heartbeat, publishing, and the value of a rank.

## Runs

| Run | Instance | Result |
|---|---|---|
| `queue_cancel` | 2 machines with a worker each, 1 canceller, 2 jobs, 1 crash | `TypeOK`, `CancelStops`, `DoneIsReal`, `ImplementsLedger` hold |
| `queue_quiesce` | 2 workers and a deploy on one machine, 2 jobs, 2 priorities, 1 crash of a worker, the quiesce, the install or the machine | `RunAtMostOnce`, `RowOfLiveJobKept`, `QuietMeansIdle` hold |
| `queue_live` | 1 worker, 1 deploy, 2 jobs, 1 crash, fair | `QuiesceReturns`, `PendingStarts`, `CutOffIsFailed` hold |
| `transitions` | 2 writers, tiers screen and adopt (inspect through reopens), 4 ids, 2 tries, 1 retest | `TypeOK`, `HistoryFolds`, `HistoryLegal`, `RetestsInStep`, `NoSilentReopen` hold |
| `switch` | 3 adoptions in 2 lanes, 1 run, 3 attempts, 3 fails or losses of which 1 loss, fair | `TypeOK`, `NeverMidRun`, `CleanReportIsTrue`, `AdoptionServed` hold |
| `machine_lock` | 2 runs, 2 descendants, 1 probe, kills anywhere, fair | `TypeOK`, `OneRun`, `HolderNamed`, `NoForeignUnload`, `WaiterGetsIn` hold |
| `usage` | 3 rows, a queue of 2, batches of 2, 1 sample kept, 1 adoption, 1 restart, unreadable stores, fair | `TypeOK`, `Conserved`, `WrittenByClose`, `DroppedAtMostLost`, `LabelNotOlder`, `NoTextWhenOff`, `ImplementsLedger`, `EveryRowSettles` hold |
| `weights` | 1 repo, 2 fetches, 1 cleanup and `--record`, 2 rows, 1 kill or failed removal | `TypeOK`, `HaveIsWhole`, `OnlyRefusedGo`, `DueIsFreed` hold |
| `ladder` | 3 candidates, of which the first may be put off for ever and the last needs a base; top 2, inspection window 2, budget 2, 1 retest, 1 death, fair | `TypeOK`, `WithinBudget`, `NotFetchedBack`, `Answered` hold |
| `switch_gaveup` | 1 lane, 2 waiters, 3 attempts and 3 failed restarts, no loss | `OldConfigBack` is violated |
| `deploy` | 1 worker, 1 install, 1 job that takes the machine lock, no crash, fair | `InstallFinishes` is violated |
| `weights_needed` | 2 repos, one of which the other's runner loads; 1 fetch, 1 cleanup, no kill | `NeededKept` is violated |

Why the bounds are enough.

* Queue: two jobs let one wait, be picked or be cancelled while the other runs; one crash
  separates two lives of a worker, and the second is only a repetition.
* Transitions: two writers and four verdict ids give a reopen, a rejection again and a
  beaten write in one history; one retest is enough to exceed it.
* Switch: `RETRIES` is the code's 3, and three failures make a switch give up; an attempt
  that finds the gateway on another config fails too and is not counted, so the restart
  after giving up fails in some behaviours as well. Waiters are alike and are handed out in
  order. Three adoptions are needed for a switch that gives up, a later
  one that compares while the gateway starts, and one that returns a lane to its old spec.
* Machine lock: a second run is the other side; two descendants give a child of a child,
  and a child that outlives its killed parent beside a run that has the lock.
* Usage: three rows over a queue of two overflow it, leave one row for a second batch and
  let a sample push out another; a restart can fall anywhere, and labels of before and
  after one adoption differ.
* Weights: the properties of `weights` are about one directory at a time, since no step
  takes from one repo what it does to another but for the keepers' and runners' names,
  which `weights_needed` has two repos for. Two fetches give a row found by one and
  stamped or started by another; two rows, a row beside a row.
* Ladder: `Top` is 2 and one candidate is stuck, the most that `Answered` allows, so
  a candidate can have both the stuck one before it and one that competes with it; the
  budget takes two of the three candidates, or one and its base. The window is 2 as
  well, so the third candidate may be left out of an inspection, and two lingering ones
  crowd it.

`CHECK_DEADLOCK FALSE` stands where the system may really stop: every process of
`machine_lock` may have exited, and a bounded number of rows may be used up in `weights`.

### Fairness

* `queue_live`: launchd keeps the worker running and it polls for ever, so its steps are
  weakly fair; taking the runner lock and an open gate are strongly fair, because the
  lock is contended only for the moments of a probe and memory pressure comes and goes;
  commands end; a quiesce that began goes on. Nobody has to add, cancel, pause or resume.
  Jobs that take the machine lock are outside this run; `deploy` shows what they change.
* `switch`: runs end, a waiter polls a lock that stays free, each step of a switch and
  of a gateway start follows the one before, and the wait has a deadline. A run takes the
  lock once, so no strong fairness is needed. Clients and adoptions are not fair.
* `machine_lock`: a block ends once its children have, a probe and an unload are short, a process outside
  any block exits, and a waiter that polls takes a lock that is free often enough (strong:
  others take it in between). Nobody has to ask for the lock, start a child or be killed.
* `usage`: the thread is scheduled: its queue read times out and store calls return or raise.
  The callback, the owner of the text flag, adoptions and restarts are not fair.
* `deploy`: the worker, the commands and the install go on whenever they can, and a command
  gets a lock that is free often enough and ends after its work. A command that waits for
  the lock need not fail, a quiesce or an install need not die, nobody has to cancel.
* `ladder`: the loop goes on and is run again. A screening stage does not end at its first
  candidate for ever (`ScreenStops`). What a stage asks of the world is granted, for some
  candidate that is not stuck, if it is asked often enough: the inspection of a new one,
  a download, a screen, a measurement. Which candidate it is granted for is not said: that
  each gets there is what `Answered` says of the code's order.

## What the violations show

* `deploy`: `install` re-executes itself under the machine lock (`launchd.sh:307-308`) and
  then waits for the running job without a limit; a job just started whose command takes
  the lock (a measurement) waits for `install`. Neither ends. `QuiesceReturns` in
  `queue_live` holds because no job there takes the lock.
* `weights_needed`: the keepers name the adopted model and not what its runner loads beside
  it (`disk.py:233`); such a repo, rejected under its own name a day ago, is removed.

* `switch_gaveup`: `gateway_switch.py:13-15` says that after the last attempt "the old served
  config is put back and restarted, so the last good switch stays current", and
  `tests/test_gateway_switch.py:291` that "the gateway serves it and the next switch sees a
  difference". The restart that `switch` makes (`:207`) runs `harness.gateway`, which writes the
  served config from the adoptions before it serves it: after three failed restarts and one that
  takes, file and gateway are on the adoptions the switch gave up, and the next comparison
  finds no difference. The test's restart is a stub, which regenerates nothing. This is why
  `AdoptionServed` excepts behaviours in which a switch gives up.

`PROJECT.json` quotes the line each of them contradicts.

### Stronger statements that TLC refuted

These are not claimed. Each was checked as an invariant or a property and a behaviour
of the model contradicts it; the weaker statement that holds is in the runs.

* Queue: that a job whose row was dropped is never started (`cancel` deletes the row between
  the pick at `workqueue.py:486` and `run_one`'s first write, which no longer tests the
  state); that a cancelled row stays cancelled (a result is written after the flag was
  tested, `:458`); that nothing runs when `_recover` marks a row failed (a killed worker's
  command has a session of its own, `:472`); that a row cut off by a reboot does not stay
  `running` (`:564` recovers only on the way to running another job).
* Transitions: that a proposal gets at most `RETESTS` retests (two stale listings of
  one rejection spend two, `transitions.py:52`).
* Switch: that each lane that lags is among the
  unresolved; that a clean report is true after a start on the base config; and that
  it is true without `mute`: with one lane and enough waiters and failures, a second adoption
  takes the first back between two attempts, the failing attempt finds nothing moved and
  records nothing, and the gateway is left starting on what the next adoption replaces.
* Machine lock: that two working sets are never loaded at once (`exclusive.py:1`): a
  process that outlives its killed parent keeps the mark and works without the lock.
  `OneRun` says it of all others. That nothing is unloaded while a run is at work: a process with
  the mark unloads without the lock (`router.py:129`), beside others of its own run, and an
  orphan beside any run; `NoForeignUnload` says what remains.
* Usage: that every stored row with a label has that of an adoption no older than what it was
  served with: a row may have the typed defaults of an unreadable store (`adopt.py:575`).
* Ladder: that every new candidate is answered: enough candidates that stay queued for ever
  fill the `LOOP_INSPECT * 5` places of the list an inspection reads (`proposals.py:195`,
  `discover.py:421`), and `Answered` excepts new ones while they do; that a candidate on disk
  whose base is missing gets it (`commands/screen.py:20` returns when nothing is queued for download, before `fetching.run` looks at bases), and that
  a candidate a judge scored is answered (`proposals.py:286` takes it out of the
  list the screen works through).

## Proofs

All theorems are of the form `Spec => []P`, `Spec => [][A]_vars` or `Spec => Abstract`,
for every value of the constants that satisfies the named assumptions: processes are
distinct, bounds are naturals, batch and queue sizes, `RETRIES`, `Tries` and `Top` are
positive, a runner has at most one base. Two hypotheses are stated where they are used:
`HoldersApart` (a job's number is no process, `DeployProofs`) and `FewStuck` (fewer
candidates are stuck than a stage takes, `LadderProofs`, which is also what the run of
`Answered` grants).

* `WorkQueueProofs`. The properties are not inductive: that a command runs once rests on
  who may be past the pick. The invariant adds that whoever is inside `run_pending` or a
  probe holds its machine's runner lock (`LockInv`), that an id not handed out or a pending
  job has no run (`FreshInv`), that a worker's job is its own machine's and has no run up
  to the start of the command (`WorkInv`), that a group has members only after the one
  start (`RunInv`), what a canceller past its reads knows (`CancelInv`), that a
  quiescer's pause stands (`PauseInv`), at which places of a row, a worker and a canceller a
  command has not run, still runs or has exited (`EndInv`), and that whoever holds a runner
  lock is at a place that gives it back (`LockHeld`). Theorems: `TypeCorrect`, `AtMostOnce`,
  `LiveRowKept`, `Quiet`, `Stopped`, `DoneReal`, `Lifecycle`, `LockNotLeft`, and
  `ImplementsJobLedger`: each write to a row is the ledger's step of that name, and
  `EndInv` is what lets a settlement be one. `QuiesceIsAwaited` is about the wait in `quiesce`:
  while its pause stands each worker of its machine has a bounded number of steps left
  (`StepsLeft`), every step it takes uses one up, and it leaves its poll loop no more.
* `DeployProofs`. `DeployIsQueue`: an install and jobs that take the machine lock only do
  what any caller and any command may, so the theorems above hold beside them. `GpuHeld`: the
  machine lock is held by the one install under way, by a command whose leader lives, or by nobody.
  `NeitherServed`, which the counterexample to `InstallFinishes` suggests: once an install
  and a command wait for each other (`Circle`), neither is given what it waits for while the
  quiesce, the worker and the command are all there, for any number of other workers, jobs,
  callers and installs; a failure, a kill or a reboot of one of the three is the only way out.
* `TransitionsProofs`. The invariant ties each writer to what it has read: its row is
  what it asked for (`RowInv`), it was checked against the verdict it read as holding the
  state (`CheckedInv`), its id is its own and larger than that one (`OwnIdInv`), and every
  reopen on record was legal (`ReopenInv`). So a move that finds the same verdict still
  holding the state is legal. `Folds` says that replaying the verdicts in id order gives the state. `Fold` is a
  recursive function; on a legal history no verdict is refused, so taking the newest verdict
  up to each id satisfies the recursion (`ClosedFoldSteps`), and a smallest id at which
  another solution differed cannot exist (`FoldIsClosed`), so the induction theorems are
  not needed. Theorems: `TypeCorrect`, `Legal`, `InStep`, `Reopened`,
  `Folds`.
* `GatewaySwitchProofs`. `LockInv`: whoever is past the entry holds the machine lock,
  which needs that a waiter starts with an environment that does not say so. `TryInv`:
  an attempt is left until the switch gives up, without which the count in `TypeOK` is
  not inductive. `CleanInv` explains a clean report: a gateway that a switch awaits comes up
  with what covers the adoptions, where a config covers them if it equals them or another
  switch is still to come (`AwaitInv`); a switch with a failed attempt has a failure on
  record or is `mute` (`FailedInv`), so one that gave up never leaves a clean report
  (`CountInv`); and with nothing on record the gateway serves the config on disk, which
  between switches covers the adoptions (`ServedInv`). `HeldInv`: whoever is inside says so
  in its environment, so its restart does not wait for the lock it holds
  (`RestartNotBlocked`). `SwitchEnds`: every step of a switch lowers `SwitchLeft`, attempts
  left and places left, a failed attempt included, and no other step touches it. Theorems: `TypeCorrect`,
  `Apart`, `CleanReport`, `RestartNotBlocked`, `SwitchEnds`.
* `MachineLockProofs`. `OwnerInv` says who has the lock, `MarkInv` whose environment is
  marked and in which places, `BirthInv` that nobody descends from the unborn, and
  `CoverInv`, the heart: while all a marked process's ancestors live, the run its mark
  came from is in its block with the lock, and waits for a marked child of its own in
  the chain between them. Without that chain the run could leave its block. `UnderInv`: a
  live process started under another's block is marked. So the children a block waits for
  take no lock, and whoever has the lock waits for nobody who waits for it (`NoCircle`).
  `FreeInv`: who unloads on its mark is in no block and has no child; `ChainInv`:
  whoever has a descendant has a child on the way to it, so such a process is nobody's
  ancestor. With `CoverInv` its run is the one at work. Theorems: `TypeCorrect`, `OneRunAtATime`,
  `HolderIsNamed`, `NoUnloadOfOthers`, `NoCircle`.
* `UsageProofs`. `Order` (the batch is older than the queue) and `BatchInv` (where a
  batch can be in the store already) give the accounting and the refinement; `StopInv`
  ties what the thread read of the stop event to when it was set; `LabelInv` bounds what is
  queued by what this process serves and its labels from below; `CountInv` bounds the
  count as the thread last read it, too, since that is what it writes back; `TextInv`
  does the same for the text flag. Theorems: `TypeCorrect`, `RowsConserved`,
  `CloseWrites`, `LabelsNotOlder`, `DroppedBounded`, `TextStaysOff`, and
  `ImplementsUsageLedger`: every step of `Usage` is an `Offer`, a `Settle` or a stutter.
* `WeightsProofs`. `SinceInv`: what the history says has held of a repo holds now;
  `TodoInv`: after each of its reads, what a cleanup is to remove agrees with it, in both
  directions; `RowInv`: a fetch writes the row of its own repo; `WholeInv`: a directory
  that is not whole has no row that says so, unless it went astray, and what a fetch has
  landed is whole. Theorems: `TypeCorrect`, `ProtectedStay`, `DueFreed`, `HadIsWhole`.
* `LadderProofs`. `WorkInv` (what a stage works on still waits), `SweptInv` (what was
  swept stays rejected for the rest of the loop), `BudgetInv` (the fetch counts all it
  downloads), `DueInv` (only a rejection with a retest left is due). `BacklogMoves` is the
  counting behind `Answered` (`rank.py:205`): before the best candidate that is not stuck
  come only stuck ones, fewer than `Top`, so every plan of a screen or a measurement that
  could hold a candidate that is not stuck holds one, and a fetch is skipped for its backlog
  only when the next screen's plan does. Theorems: `TypeCorrect`, `FetchWithinBudget`,
  `SweptStaysAway`, `BacklogMoves`.

Only model-checked: liveness (`QuiesceReturns`, `PendingStarts`, `CutOffIsFailed`,
`AdoptionServed`, `WaiterGetsIn`, `EveryRowSettles`, `Answered`), because fairness and
ENABLED are out of the prover's reach. For four of them the part that is not about
fairness is proved, and says why they hold for every number of processes:
`QuiesceIsAwaited`, `SwitchEnds` with `RestartNotBlocked`, `NoCircle` and `BacklogMoves`.
None of these says that a step is ever taken. The three violations are counterexamples and
need no proof.

## Not modelled

* **Within modelled components**: import of old job files, run linking, Windows paths and
  reuse of a pid (queue); the rest of `install`, which is launchctl calls (deploy); verdicts
  on candidates without a proposal, scores and run ids (proposal state); gguf symlinks,
  migrations of old rows and the disk report (downloads); the feeds' sweep, `reverify`, knob
  sweeps and the heartbeat (loop); the statistics of a verdict and the two commits of
  `adopt.record` (adoption); what a card says and what a rank is worth (inspection).
* **Store and migrations**: the chain of migrations is SQL; the guard that keeps a checkout
  from migrating the live store (`connection.py:106`) is one comparison of schema numbers and
  of checkouts, and what could go wrong behind it is inside SQL.
* **Volume stop and start**: quiesce, which `WorkQueue` models for any caller, then launchctl
  calls, recorded in a file. The step that could be lost is the pause a killed `stop` leaves behind,
  before that file is written; it is the deploy's at `workqueue.py:400`, where the model has it.
* **Router and serving**: which engine holds which model is arithmetic on memory; the part
  that meets the runs, the unload, is in `MachineLock`.
* **MCP and delegation**: they add jobs and ask for status as any caller does.
* **Run store**: rows written once, by one process each.
* **Engines, feeds, inspection's readers, checks, statistics, reports, site, audits, chaos
  and ramp, command line**: model and network I/O, formatting, real arithmetic, or test
  drivers of the running system; they keep no state of their own that two actors share.

## Plan

Done: the specifications above, two abstract ones among them, with eight proof modules. What would come next, in
order:

1. `Adoption`: the two commits of `record`, a crash between them, and what a verdict
   without an adoption does to the loop; refined to what `GatewaySwitch` assumes.
2. `Ladder` with two machines: plans read on one while the other's fetch and sweep go on.
3. Volume stop and start beside `Deploy`: two callers of quiesce, one pause file.
4. The heartbeat and the loop's stops, on top of `Ladder`.
5. Theorems: a measure for `EveryRowSettles` (what the thread has left to settle a
   batch), what a cleanup that is cut off leaves to the next one, and an abstract
   specification of a proposal that `Transitions` implements.
