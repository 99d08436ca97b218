# TLA+ models of toolchain-utils

This directory models the concurrent and the stateful programs of the
repository: the two ways in which `crosperf` shares devices among benchmark
runs, the locks, the set-up and the cache of results around them, the binary
search tool and the compiler wrapper that works for it, the pipeline and the
searches of `bestflags`, and three tools that keep what they have done in a
file (the LLVM bisection, the AFDO analysis, the Rust uprev).
TLC checks small instances. TLAPS proves, for every instance, the main safety
properties of the two `crosperf` schedulers, of the locks, of the cache, of the
binary search tool and its compiler wrapper, of the pipeline and the searches of
`bestflags` (with the refinement of its abstract specification), and of the LLVM
bisection, the AFDO analysis and the Rust uprev.

1. [The system](#1-the-system) – inventory of all the components
2. [What is modelled](#2-what-is-modelled) – modules, and how they follow the code
3. [The runs](#3-the-runs) – what TLC checks, bounds, fairness
4. [The proofs](#4-the-proofs)
5. [Where code and description differ](#5-where-code-and-description-differ)
6. [What is left out](#6-what-is-left-out)
7. [Plan](#7-plan)

`PROJECT.json` lists the same components, the source lines of every definition
(`map`), the runs, a mutation of the code's model that breaks each property
(`mutants`), the hazards of the code at their lines, and the theorems.

To check one run: `tlc -config runs_live.cfg MCBenchmarkRun.tla`. To check
proofs: `tlapm` on a module whose name ends in `Proofs`, for example
`tlapm Schedv2Proofs.tla`.

## 1. The system

The repository is a collection of programs for the ChromeOS tool chain. Those
with state of their own, concurrency or recovery:

| component | state | operations | who else is involved |
|---|---|---|---|
| **machine pool** (`crosperf/machine_manager.py`) | machines the experiment has, which are locked, what they carry, when they were released; a re-entrant lock and an imaging lock | acquire, image, remove, release, clean up | one thread per benchmark run, lock files shared with other experiments, the device |
| **benchmark runs** (`crosperf/benchmark_run.py`, `experiment.py`) | per run: machine, timeline of statuses, terminated flag | run, terminate | the pool, the main thread that polls and handles Ctrl-C |
| **image manager** (`crosperf/machine_image_manager.py`) | matrix of labels × devices, reimage counts | plan, allocate | the workers of schedv2 |
| **schedv2** (`crosperf/schedv2.py`) | list of runs per label, a map of locks, active workers | take a run, execute it, ask for a label, reimage, terminate | one worker per device, the main thread, the image manager and the pool's imaging |
| **binary search tool** (`binary_search_tool/binary_search_state.py`, `binary_search_perforce.py`) | a list of items, a searcher, found and known-good items, the items believed switched; a state file | verify, search, prune, bisect passes, save, load | switch and test scripts; the user, who kills and resumes it |
| **bestflags pipeline** (`bestflags/pipeline_*.py`, `steering.py`, `generation.py`) | caches, queues, pending counts of generations | enqueue, work, resolve duplicates, produce the next generation | a steering process, stage processes, helpers, worker pools |
| **bestflags searches** (`flags.py`, `genetic_algorithm.py`, `hill_climb_best_neighbor.py`, `iterative_elimination.py`, `testing_batch.py`) | a generation with its parents, the cache of all tasks | neighbours, improvement, next generation | the steering process |
| **machine locks** (`lock_machine.py`, `cros_utils/locks.py`, `crosperf_autolock.py`) | lists of machines, lock files, leases | lock, unlock, lease, release | other users |
| **experiment set-up** (`crosperf/experiment_runner.py`) | lists of machines, global and per label | lock, filter, run, clean up | the lock manager |
| **results cache** (`crosperf/results_cache.py`) | directories named by keys, without a lock | clear, find, read, store | other runs and experiments with the same keys |
| **Rust uprev** (`rust_tools/rust_uprev.py`) | a file of completed steps | run a step, skip a completed one | the user, who starts it again |
| **AFDO bisection** (`afdo_tools/bisection/afdo_prof_analysis.py`) | accumulated answers of the decider | bisect, search a range, replay | an external decider |
| **LLVM bisection** (`llvm_tools/llvm_bisection.py`, `auto_llvm_bisection.py`, `update_tryjob_status.py`) | a JSON file of tryjobs | compute the next revisions, poll | buildbot |
| **bisection wrapper** (`binary_search_tool/bisect_driver.py`) | object caches and lists, the tree being built | populate, triage | parallel compilers, `make`, the switch scripts of the binary search tool |

The rest of the repository is sequential transformation of text and scripts
around git, gerrit, gsutil and chroots (reports, settings, AFDO filters, patch
management, the compiler wrapper, PGO scripts, hooks). `PROJECT.json` names
every one of these parts and why it is not modelled.

### What is hard about them, and what makes them correct

* **Machine pool and runs.** The runs' acquisitions, removals and releases
  interleave; an unreachable machine is removed from the pool and another
  thread may put it back at once; one run sleeps with the manager's lock held;
  a waiting run takes a machine with a foreign image only in a window of its
  age; flashing fails half-way; Ctrl-C arrives anywhere. Correct means: no
  machine has two runs, no release trips its assertion, a machine in use is
  file-locked, a test runs on its own label's image, every run ends, and an
  interrupted experiment is cleaned up.
* **schedv2.** Workers compete for runs of a label under locks that are
  created on demand, choose labels from counts that others are changing, and
  give up for good when they are told that there is no label. Correct means:
  no run is lost or executed twice, each test has its image, all the runs are
  executed when no worker is stopped, and the experiment always ends.
* **Image manager.** A backtracking search and greedy choices. Correct means:
  the plan is a best one, only compatible labels are given, none is left
  behind.
* **Binary search tool.** Its state survives a kill at any point, switching is
  incremental, pruning reorders the list, tests may be skipped. Correct means:
  the tested sets are the ones asked for, found items are bad and with
  `--prune` all bad items are found, a resumed search continues where it
  stopped, and the search always has an index left to test.
* **Pipeline.** Duplicates wait for results that arrive on another queue; a
  poison pill must arrive last; a generation waits for all its tasks. Correct
  means: each distinct task is executed once, each task gets the result of its
  key, and the processes all end.
* **Locks and set-up.** Commands that lock or lease may fail, and may be
  reported to have failed although they were done; runs give up machines in the
  middle. Correct means: an experiment uses only machines it has locked, and
  unlocks exactly these.
* **Results cache.** A directory is removed, moved into place and read in
  several steps, by runs that do not know of each other. Correct means: what
  nobody disturbs is whole and is found again, and no read takes what the cache
  conditions exclude.
* **Bisection wrapper.** Parallel compilations may write one object, builds
  fail and are killed, only some items are switched. Correct means: a build
  that ends well holds what the sets of the tool ask for.
* **Uprev, AFDO bisection, LLVM bisection.** Correct means: whatever point a
  tool is interrupted at, starting it again gives the result of an
  uninterrupted one; and what the AFDO bisection reports is bad.

## 2. What is modelled

| module | models | uses |
|---|---|---|
| `MachineManager` | the pool and imaging, as action fragments; devices and other experiments | – |
| `BenchmarkRun` | the run threads, the main thread, time | `MachineManager` |
| `MCBenchmarkRun` | instances | |
| `BenchmarkRunProofs` | theorems | TLAPS |
| `MachineImageManager` | plan and allocation, as operators | – |
| `MCMachineImageManager` | the image manager alone, with every order of requests, and a reference definition of the plan | |
| `Schedv2` | workers, lists, locks, main thread | `MachineImageManager` |
| `MCSchedv2` | instances | |
| `Schedv2Proofs` | theorems | TLAPS |
| `BinarySearcher` | the two searchers, as operators | – |
| `BinarySearchState` | the tool, its state file and its restarts | `BinarySearcher` |
| `MCBinarySearch` | instances | |
| `SearchesProofs` | theorems: the sets under test, the state file, the index to test next; what the wrapper builds; the plan of the image manager; the AFDO search | `BinarySearchState`, `BisectDriver`, `MCMachineImageManager`, `AfdoSearch`, TLAPS |
| `FoundProofs` | theorems: what the bisection finds | `SearchesProofs` |
| `FlagSearch` | flag sets, generations and the three search algorithms, as operators | – |
| `Pipeline` | the build and the test stage: process, pool, helper, queues | `FlagSearch` |
| `Steering` | the steering process, and the whole of `bestflags` | `Pipeline`, `TaskService` |
| `TaskService` | abstract specification: what the pipeline promises | – |
| `MCSteering` | instances | |
| `SteeringProofs` | theorems: the pipeline, its refinement of `TaskService`, the searches | TLAPS |
| `MachineLocks` | locks of machines and leases, lists that lose elements while iterated | – |
| `ExperimentSetup` | `crosperf` from its first contact with machines to its last clean-up, and `crosperf_autolock` | `MachineLocks` |
| `MCExperimentSetup` | instances | |
| `SetupProofs` | theorems: what is left locked, who unlocks what, the labels that the runs start with | TLAPS |
| `LlvmBisection` | the automatic LLVM bisection, the tools of its user, the builders | – |
| `AfdoDecider` | the external decider's state of the AFDO analysis | – |
| `RustUprev` | the three commands of the Rust uprev | – |
| `MCRestarts` | one of these three tools per behaviour | the three |
| `RestartsProofs` | theorems about the three tools | TLAPS |
| `ResultsCache` | the directories of the results cache | – |
| `MCSetupAndCache` | experiments that share machines, or the cache | `MCExperimentSetup`, `ResultsCache` |
| `CacheProofs` | theorems: what the cache stores and what is read from it | TLAPS |
| `AfdoSearch` | the search of the AFDO analysis for functions and ranges | – |
| `BisectDriver` | the compiler wrapper, its caches, the switch scripts | – |
| `MCSearches` | the binary search tool, the wrapper, the AFDO search or the image manager | the four |

### MachineManager and BenchmarkRun (`--noschedv2`)

`machines` is `_machines`; `locked`, `checksum` and `age` are the fields of the
machine objects (`age` is the time since `released_time`); `fileLock` is the
owner of the lock file that `file_lock_machine` (outside the repository)
keeps; `dut` and `ckfile` are what is really on the device: the image, and the
checksum file that `image_chromeos.py` writes on the stateful partition. The
difference between what the manager believes (`checksum`), what the device says
(`ckfile`) and what it carries (`dut`) is the subject of `RightImage`.

The manager's methods take its re-entrant lock for their whole body, so each
is one step. The exception is `AcquireMachine`, which sleeps while holding the
lock when none of its label's machines can be file-locked: `mmLock` is the
sleeping thread, and everybody who needs the lock waits. `ImageMachine` holds
only `image_lock`; it is split around `DoImage`.

A thread's `pc` names the next statement of `BenchmarkRun.run` that reads or
writes something shared. Every exception path is there: an exception from the
cache, flash or test, `sys.exit` in a thread (which skips the handler but not
the `finally` clause), and the assertion of `Timeline.Record`.
`Experiment.Terminate` compares a run's last event in one step (`TerminateRun`)
and records `FAILED` in another (`RecordTerminated`), since the run's thread
does the same without a lock.

Seconds are ticks. `FreshAge` (8 s), `StaleAge` (15 s), `PollTime` (10 s),
`CheckInterval` and `AcquireTimeout` are constants with only their order
preserved; `Tick` advances everything together, and only when no thread is due.
`isAlive`, which newer Python has renamed, is read as `is_alive`.

### MachineImageManager and Schedv2 (the default)

Labels and DUTs are their ordinals, as in the code. `Search` is the
backtracking search as a recursive function over partial plans: extend the plan
of the first labels with the first DUT from which the rest can be planned.
`allocate` chooses with numbers read at that moment (`AllocateLabel`) and marks
its choice in a step of its own (`RecordAllocation`), because no lock joins the
two.

In `Schedv2`, `todo[l]` is `_label_brl_map[l]` and `lockOf[l]` the lock in
`_lock_map`, identified by the worker that made it: `lock[d]` is the lock that
worker `d` got, so that two workers may hold different locks of one label.
The `defaultdict` runs its factory, a Python lambda, between missing a key and
storing the new lock, and can be preempted there (`LookUpLock`, `NewLock`); this
is so in every run. The list of cached runs has a lock of its own, but it is made
before the workers start, by the reader of the cache that found the first hit;
`GetCached` takes one run at a time.

Of a DUT the model has what the worker believes (`label`, `checksum`), what the
checksum file on it says (`ckfile`) and what it carries (`image`), as in
`MachineManager`. At the start it carries anything, and the file is absent or
names it; where `--keep_stateful` is used (`KeepStateful`) the file may be that
of an image flashed before. `SameImage` says that the set-up may already have
imaged DUTs. `DoImage` of a local image trusts the file (`FlashSkipped`), and a
flash of a remote one removes it only without `--keep_stateful`
(`FlashedFile`). Different labels are taken to have different images, and
`DoImage` to be able to read the file. `made` (who has made a lock for a label)
and `stopped` (what ended a worker early: its imaging, a benchmark run, a pop
from an empty list) are histories.
`terminate` walks by position through a list of workers that shrinks under
it. The threads that read the cache are joined before the workers start;
they appear as the initial choice of `cached`.

### BinarySearcher and BinarySearchState

A searcher is the record of `lo`, `hi`, `current` and `skipped`. `bss` is the
`BinarySearchState` object of the running process and `state` the copy in the
state file. `SaveState` is two steps, since it makes a link and then renames
it, and a kill may fall between them. `Killed` may also leave a switch script
half done. `Resume` loads the file (or is refused), `StartAgain` begins a new
bisection without removing it, and between two invocations the user may have
set all the items to good or bad (`Disturbed`), which is what the comment in
`LoadState` prepares for. `passArg` is the `--pass_bisect` argument of the
current invocation, which `Run` consults even when it resumes.

For passes the environment is a compiler with `-opt-bisect-limit` and a debug
counter: passes above the limit do not run, so a build is bad when the bad pass
runs and so does its bad transformation (`PassStatus`). `badPass` and
`badTrans` are the last limits that keep them off. The second phase bisects the
counter of the last pass under the reported limit; when that limit keeps the bad
pass off, this is an earlier pass and no limit of its transformations is bad.
(The stub of the repository's test, `test/cmd_script.py`, answers otherwise: for
it a transformation above the bad one is bad whatever the pass limit.)
`Transforms` is what is counted for the pass that is named, whichever it is.

### FlagSearch, Pipeline, Steering and TaskService (`bestflags`)

`queue[q]` is the input of the build stage, of the test stage and of the
steering process; `helperQ` and `completedQ` are the two queues between a stage
and its helper. `mycache` is `_cache` of the stage (the keys it has passed to a
worker), `doneDict` the results the helper knows, `waiting` its duplicates.
A put and a get are steps of their own, so that a worker is between the put
of its result for the helper and the put of its task into the next stage
(`PutCompleted`, `PutResult`). The poison pill goes into the next queue as soon
as it is received, before the pool and the helper are joined, as in the code.
`WorkRaises` is the build that fails three times (its `checksum` is unbound) or
an exception of a command: the pool keeps it for nobody.

A flag set is a function from enabled specs to values, and
`FormattedForUse` the bag of its texts, which is the key of a build; two flag
sets may look alike. Random draws are choices over all they may give, so the
checks hold for every seed. `Best` leaves the choice among equals open. The
generation's `_pending` is a counter and is decremented as in `UpdateTask`.

`TaskService` is the promise of the pipeline in four actions: somebody asks for
a task, a flag set that was asked for and has not been built is built, an image
that has not been tested is tested, and a task is answered once, with the
results of its own keys. `Steering` implements it under the mapping that takes
for built (tested) what the helper knows, what lies in its queue, and what a
worker is about to put there (`Results`).

### MachineLocks and ExperimentSetup

`remote`, `labelRemote` and `lockedMachines` are the lists of the experiment,
the labels and the experiment's `locked_machines`; `lockMgr` is the manager's
list of machines, and `pc` follows `Experiment.__init__`, `_LockAllMachines`,
`SetCheckSums`, the runs, and the two clean-ups (`_Run`'s `finally` and the one
registered at exit). `RemovedInLoop` is what a Python loop that removes from
the list it iterates leaves. Lock files and leases know users, not processes,
and all the experiments are of one user, which is the interesting case: one
can unlock what another one has locked.

Every lock and unlock may fail, and a lease or an unlock that is reported to
have failed may have been done: `crosfleet` ran into its timeout, or its output
could not be read ("please abandon the dut manually"; `LockOne`,
`LeaseUnknown`, `UnlockOne`). While the runs last a machine may be given up and
taken again, with the lock file that the set-up took (`RemoveMachine`,
`TryToLockMachine`). `removed` and `leaked` are histories: the machines given
up, and those with a lock that the process does not know of.

### LlvmBisection, AfdoDecider, RustUprev

*LlvmBisection.* `file` is the JSON file as a function from revisions to
statuses, `auto` the process with the jobs it has read, `user` a change by
`update_tryjob_status.py` or `modify_a_tryjob.py` between its read and its
write. `build` is the builder's side. A build that is *running* maps to
`pending` and counts as an answer, as in `GetBuildResult`, so that a cycle may
end with pending tryjobs. A revision's verdict is fixed by `firstBad`; the
user who says good or bad is right. Launching a tryjob (change list, upload,
`cros tryjob`) is one step that happens or raises.

*AfdoDecider.* What is asked next depends on the seed and on the answers before
it, so the pair of the two stands for the question; the search for functions
and ranges, which asks the questions, is `AfdoSearch`. The decider answers a question alike
whenever it is asked. The two checks at the start are run with
`save_run=False`: they bypass the replay and nevertheless write the state file.

*RustUprev.* `Order` is the order of the steps of `roll`, which has those of
`create` and of `remove`; `NextStep` is the first one of the command that the
running process does not skip. `tree` is the part of the overlay that the steps change;
`Effect` says what each step makes of it, or that it raises. The effect and
its record are two steps, with a kill between them. Steps that only fetch,
build or upload have no effect on the overlay and are one. The version to
delete is the oldest one (no version given on the command line).

### ResultsCache

`dir[d]` is the cache directory of one test on one image and the machine `d`:
for each of its files the run that wrote it. `doing` names the next command of
a run. `rm -rf` takes the files one by one; `mv` is a renaming when the temporary
directory is on the same file system (`sameFs`), and else creates the directory
and copies file by file; into a directory that has appeared again it moves the
new one inside (`nested`). Finding the directory, testing it, reading the
pickled results and unpacking the tarball are steps of their own. `Test` stands
for the machine, the test and its result. A run that is killed leaves whatever
its command had done. `stored` and `expected` are history: who has stored a
directory undisturbed, and whether what a run reads or writes is still its own.

### AfdoSearch

The functions are numbered in their shuffled order; `culprits` are the least
combinations that the decider finds bad; but it may answer any question with
`SKIP`. `undecided` has the halves for which it did: such a half is not looked
into, and the other one being good then starts no range search. In
`range_search` a `SKIP` counts as good, at any of the questions (`skipped` has
the middles at which it is given). `PROBLEM` ends the program, see
`AfdoDecider`. `calls` is the stack of the recursive
calls of `bisect_profiles`, and `rangeSearch` the locals of `range_search`
between two of its runs, after which `random.shuffle` may have chosen any
order. The two borders are recursive functions; the set they carry is what is
bad in the profile at the first question, and after it, once the profile has
been reset.

### BisectDriver

The contents of a file are the build it comes from, `new` when the compiler made
it while bisecting, `part` while it is being written. `at[c]` is the next step
of one compilation; two compilations may write one object. A copy is two steps,
and `file` says whether a compilation is at its object or at its dependency
file. `PopulateEnds` and `TriageEnds` are the ends of a build by `make`, which
starts nothing new after an error. `Switch` is the binary search tool with its
switch scripts: it removes (`sysroot_wrapper`) or links (`android`) what changes
sides, and `make` builds what is missing and, besides, any other files it takes
to be out of date. `Kill` ends a build; the tool that is resumed switches
everything again, and a build that was filling a cache is started again on what
there is.

## 3. The runs

| run | instance | states | what it shows |
|---|---|---|---|
| `runs_failures` | 3 runs of 3 labels (local, trybot, cache-only) on 1 machine, everything may fail | 1.4 M | runs stay apart; no double release; a machine in use is file-locked; only a failed flash puts a foreign image under a test |
| `runs_live` | 2 runs of 2 labels, 1 machine, file locks, failures, Ctrl-C | 0.4 M | every run ends; an interrupted experiment reaches its end |
| `runs_stale_checksum` | 2 runs, failing flash | violation | a failed flash leaves the cached checksum: the next run of the old label tests another image |
| `runs_unreachable` | 2 runs, disconnecting machine | violation | a machine removed before its release comes back locked for good |
| `sched_safety` | 2 workers, 2 labels (1 local), 3 runs, cache, any images, failures, racing lock map, Ctrl-C | 6.8 M | a run is in one place; each test has its image without `--keep_stateful` |
| `sched_live` | 2 workers, 3 labels (local, remote, trybot), 1 restricted, failures, racing lock map, Ctrl-C | 1.3 M | all runs are executed unless a worker is stopped or somebody interrupts; the experiment ends; `pop` finds a run unless two locks were made for the label |
| `searches` | items: every non-empty set of bad ones out of 5, pruning (incremental and not) and pass bisection (4 passes, 4 transformations), ≤ 2 skipped tests, 1 restart; wrapper: 3 compilations of 2 objects, 3 settings, 2 switches, 1 kill; profiles: 6 functions, every 2 combinations of up to 3, ≤ 2 skipped halves and ≤ 2 skipped profiles in a run of a range search; plan: 4 labels × 2 DUTs, every compatibility, ≤ 2 runs per label | 5.9 M | see below; the plan is a best one and nobody is left behind |
| `afdo_ranges` | 8 functions, every 2 combinations of up to 2, no skips | violation | a range is reported that contains no problematic combination |
| `pipeline` | 2 flags that look alike (3 values and a boolean), 3 algorithms, 2 costs, 2 images, at most 3 tasks, 2 build workers and 1 test worker that may raise | 1.0 M | no task lost or answered twice; the early pill leaves nothing behind; the climbs end at an optimum; every process ends unless a worker raises; refinement of `TaskService` |
| `setup` | 2 experiments (3 machines with 2 labels, 1 machine) and an autolock process, failing commands, machines given up, interrupts; or 3 runs and the cache of 2 machines, with 3 sets of cache conditions | 5.0 M | what is left locked, who unlocks what, and that the runs start with labels whose machines report one checksum; the cache, see below |
| `setup_unlocked` | the same experiments | violation | of two neighbours that could not be locked the second one is used |
| `restarts` | LLVM: 4 revisions, every first bad one, 2 attempts, 1 change by the user, 1 restart; AFDO: 3 questions, 2 seeds, 4 analyses; uprev: 3 versions, 3 commands, 4 invocations | 0.9 M | see below |

**Bounds.** One machine with three runs is the tightest competition for the
pool; a label per run makes each acquisition one of a foreign image, and the
three labels are the three kinds of checksums. More machines only add choices
of the machine, and the proofs cover those. The ages are 1 and 2 ticks with a
poll of 2 (0, 1 and 1 in the liveness run), the least that make "too fresh",
"ripe" and "stale" different and let a poll miss the window. In `Schedv2` two
workers on one label are enough for all its races; three runs let a list be
refilled by nobody while it is emptied by two; a third, restricted label makes
one worker the only one who can execute a run. In `sched_safety` the set-up has
imaged at most the first DUT (`FirstForced`), and the two runs of one label are
interchangeable (`SYMMETRY`; its properties are invariants and name no run). In
`sched_live` no property is about images, and no action reads `image`: there is
one image for each checksum file (`OneImage`), and a failed flash, after which the
worker stops, has one outcome (`OneOutcome`). In `searches` 4 labels on 2
DUTs force limits above one and backtracking. Five items give lists whose
halves are uneven, two prunings and a list that shrinks; three iterations are
the estimate for five items, so that skipped tests exhaust them; one restart
suffices to resume at any point, as a second would resume the same kind of
state. Two compilations of one object and one of another are enough for every
race in a cache of the wrapper; two switches, of which the second one changes
only some items. Six functions make two halves of three, so that a range
search has something to narrow on both sides; two skipped halves are both
halves of one call, or one each of two; the range of `afdo_ranges` that
is not bad takes eight.
Three runs let one read while one removes and one stores; two machines are the
one that the label names first and another. In `pipeline` the two flag sets that
look alike make duplicates, which is what the helper is for, and two workers let the duplicate come before,
between and after the puts of the first one; three tasks give two generations
of a climb and an elimination. In `setup` three machines are needed for two
neighbours that cannot be locked and one that can. In `restarts` an end
revision of 5 with one parallel tryjob makes a step of two, so that revisions
lie between those launched; four analyses allow two interruptions, a fresh
start and a completion; an uprev that is newer than the template and one that
is not take different steps.

**Named bounds** are `MaxPending` (runs per label), `MaxStarts` (invocations
of the bisection), `MaxSkips` (tests that answer 125), `MaxTasks` (tasks of the
genetic algorithm, in place of its number of trials; `StopThreshold` and
`NumChromosomes` are the code's constants, made small), `MaxEdits`,
`MaxRestarts`, `MaxAnalyses` and `MaxRuns` (changes by the user and starts of
the three tools), `MaxCulprits` and `MaxCombination` (problematic combinations
and their size), `MaxUndecided` (halves, and profiles of one run of a range
search, that the decider skips), `MaxSwitches` and `MaxKills` (tests, and killed builds, of the
wrapper); in `setup`, one lock that goes astray and one machine that is given up
in each behaviour (`FewAstray`; so an interrupt in the middle of locking is seen
with one machine locked); and one killed (`CacheKill`) and one rerun (`AlikeRuns`) among the
runs that share the cache. The clock needs none: ages stop at `StaleAge + 1`.

**Fairness.** `BenchmarkRun`: weak fairness of each thread, of the main thread
and of the clock, and strong fairness for `image_lock`: it is requested anew
only after other work, and a lock held for seconds is granted eventually. No
fairness is assumed of devices, other experiments or the user. `Schedv2`: weak
fairness of workers and main thread only; a lock is requested a bounded number
of times. `EveryBrIsExecuted` is conditional in its statement: no interruption,
and no worker stopped before its work was done, by its imaging, by a benchmark
run that raises, or by the pop from an empty list that two locks for one label
allow (`stopped`). A worker whose flash fails stops by design; the other two end
it by an exception, and runs of a restricted label may then stay behind.
`Steering`:
weak fairness of the steering process and, per stage, of the process, the pool
and the helper, which the operating system schedules; that a worker raises is
never forced. `EveryProcessEnds` excludes the two ways in which processes wait
for ever (a worker that raised, an empty generation that fails the steering
assertion); they are the reason why `pipeline.cfg` does not check deadlock.
`LlvmBisection`: weak fairness of the automatic bisection only. The builders
and the user need not move, because polling has a time limit (`PollFails`).
`ExperimentSetup`, the cache, the wrapper, the AFDO analysis and the uprev have
safety properties only.

**The bisection's properties.** `SetsApplied`: at every test exactly the first
part of the list is set to bad, and everything else, the items pruned away
included, to good. `FindsTheBad`: what is reported is bad, and with `--prune`
all of it; stated for searches without skipped tests, which make the result
indeterminate. `SearchCanGoOn`: `GetNext` never computes the logarithm of 0
and `GetNextFlakyBinary` always ends. `ResumePoint`: while items are being
switched or tested the file holds this very iteration. `PassWithinOne`: the
reported limit of the passes is adjacent to the change; so is the second number,
when the bad pass runs under the first. When it does not, the second number says
nothing (section 5).

**The cache's properties.** `StoredIsWhole`: a run that is alone on a directory
while it stores leaves there exactly its files, whatever was there before; and
where `mv` renames, even runs that store and remove at the same time never mix
the results of one with the files of another. `ReadsAreSound`: a read that
nobody disturbs of what was so stored is a hit exactly when the conditions
allow its return value; and whoever disturbs it, a read never takes a failed
result or another machine's when the conditions forbid it. What the model also has, and no property excludes: a kill inside `rm` or `mv` leaves
a directory without the pickled results, on which every later read raises and
the benchmark run fails, instead of missing, until it is rerun; and where `mv`
copies, results and files of two runs may be mixed.

**The wrapper's property.** `BuildIsAsAsked`: when a build ends without an error
every object (and where the wrapper restores them, every dependency file) is of
the build that the tool asked for. A cache torn by a kill is not recognised
unless redundant compilations are errors and the lists are compared, and the
property says so.

**The locks' properties.** `NothingLeftLocked`: what a process that has ended
still holds is a machine whose lock it could not know of. `LosesLocksOnlyToFormerHolders`:
while an experiment runs it loses a machine that it has locked in two ways only:
one of its own runs has given it up, which removes the lock file, or a process
that has had it too unlocks it. In the first case anybody may take a machine
that the experiment still lists; in the second it may be the clean-up of an
experiment that ended long ago.

**The schedulers' properties.** `PopFindsBr` exempts labels for which two workers
have made a lock (`Raced`), and `RightImage` of `Schedv2` is claimed without
`--keep_stateful`. Both exceptions are needed: TLC finds a pop from an empty list
when `Raced` is left out of `PopFindsBr`, and a test on another label's image
when `sched_safety.cfg` has `KeepStateful = TRUE`, with `MayFail = FALSE` too.

**The AFDO search's property.** `SearchIsExact`: a function that is named is bad
alone; a range has no such function; a function that is bad alone is missed only
when a half that has it was skipped; and nothing is reported only when a half was.
That a range is bad is another question (`afdo_ranges`). The property is about
badness that the good profile gets from functions of the bad one; when only functions that the bad profile alone has make it bad,
`range_search` still reports a range.

**The restarted tools' properties.** `ReportsFirstBad`: a reported revision is
the first bad one, or, when revisions in the remaining range are skipped, an
upper bound of it; this survives lost updates of the file. `NeverLaunchedTwice`:
no revision gets a second tryjob from the program unless the user's change
raced with a cycle or a kill came between launch and record. `AutoEnds`: the
loop ends whatever builders and user do. `AnswersAreTrue`: all recorded and
replayed answers are the decider's, for the very questions of this seed.
`UprevResult`: a finished uprev has left the overlay as an undisturbed one
would; only a line of `package.provided` may be there twice after a kill.

## 4. The proofs

The theorems are about the specifications that the runs check, for every value
of the constants that satisfies the `ASSUME`s of the modules. A theorem with a
hypothesis of its own says so below, with the reason. Each proof follows the
same argument: a strengthening of the property that is inductive, one lemma for
each action (or group of actions) that it could disturb, and the temporal step
at the end. TLC has checked every strengthening as an invariant first.

| module | theorem | states | inductive invariant |
|---|---|---|---|
| `BenchmarkRunProofs` | `TypeCorrect`, `Exclusive`, `NeverDoubleReleased` | `TypeOK`, `MutualExclusion`, `NoDoubleRelease` | `IInv` |
| | `FileLockedUntilCleanup`, `FileLocked` | `OwnFileLock` | `IInv /\ LockInv` |
| | `TestsTheRightImage` | `RightImageUnlessFailed` | `IInv /\ ImageInv` |
| `Schedv2Proofs` | `TypeCorrect`, `NeverTwice`, `ImageGuaranteed`, `LockedPop` | `TypeOK`, `EachBrOnce`, `RightImage`, `PopFindsBr` | `IInv` |
| `SetupProofs` | `NothingIsLeftLocked`, `LosesToFormerHolders` | `NothingLeftLocked`, `LosesLocksOnlyToFormerHolders` | `SetupInv` |
| | `LabelsAreReady` | `EveryLabelIsReady` | `SumsInv` |
| `CacheProofs` | `StoredWhole`, `SoundReads` | `StoredIsWhole`, `ReadsAreSound` | `CacheInv` |
| `SearchesProofs` | `SearchTypesHold`, `RightSets`, `CanGoOn`, `ResumesHere` | `TypeOK`, `SetsApplied`, `SearchCanGoOn`, `ResumePoint` | `SetsInv` |
| `FoundProofs` | `ReportsOnlyBad` | the first half of `FindsTheBad` | `SetsInv /\ Knowledge` |
| | `FindsAllTheBad` | `FindsTheBad` | the same, and `Thorough` |
| | `FindsThePass` | `PassWithinOne` | the same, and `Once`, `Reports`, `PassInv` |
| `SearchesProofs` | `BuildsWhatIsAsked` | `BuildIsAsAsked` | `DriverInv` |
| | `PlanIsAsGoodAsAny`, `NobodyIsLeft` | `PlanIsBest`, `NobodyLeftBehind` | `PlanInv` |
| | `AnalysisIsExact` | `SearchIsExact` | `ProfileInv` |
| `RestartsProofs` | `TrueAnswers` | `AnswersAreTrue` | `AfdoInv` |
| | `FirstBadReported`, `LaunchedOnce` | `ReportsFirstBad`, `NeverLaunchedTwice` (action properties) | `LlvmInv` |
| | `UprevLeavesResult` | `UprevResult` | `UprevInv` |
| `SteeringProofs` | `TypeCorrect`, `TasksInOnePlace`, `PillComesLast`, `NoAssertionFails` | `TypeOK`, `EveryTaskInOnePlace`, `PillIsLast`, `AssertionsHold` | `PipelineInv` |
| | `ParentStaysBest`, `SearchEndsAtOptimum` | `ParentIsBest`, `EndsAtOptimum` | `PipelineInv /\ SearchInv` |
| | `PipelineImplementsService` | `ImplementsService` (refinement) | `PipelineInv` |

**The pool (`BenchmarkRunProofs`).** `MutualExclusion` alone is not inductive: a
thread could release a machine another one uses, or acquire one that is in use
but unlocked. The invariant is

    IInv == TypeOK /\ MachineKnown /\ HeldIsLocked /\ MutualExclusion

`MachineKnown` says at which steps a run has a machine; `HeldIsLocked` says that
`machine.locked` stays set for as long as some run has the machine. This holds
through a removal, since `RemoveMachine` does not touch the flag, which is why
a machine that another thread has put back is still safe. (The same fact makes
it stay locked for good, see `runs_unreachable`.) There is one lemma per kind
of step: those that change neither machine nor lock (`QuietStep`), the
acquisition (`AcquiredExclusive`, where the machine was unlocked, thus not
held), and the release (`ReleaseExclusive`, where the only holder ends).

`LockInv` carries the lock files: a machine that a run uses is in the pool, and
the machines of the pool are file-locked until the clean-up. An interrupt cleans
up while threads still run, so `OwnFileLock` holds up to the clean-up in every
experiment (`FileLockedUntilCleanup`), and always in one that is not interrupted
(`FileLocked`, which assumes `~MayInterrupt`). `ImageInv` says that whatever is
known of a machine (its checksum file, the manager's checksum, the step of the
run that has it) is true of the image on it, or some run has failed on it.
`TestsTheRightImage` assumes `~KeepStateful`: with that option the code trusts
a checksum file that a failed flash may have left (`runs_stale_checksum`).

**The scheduler (`Schedv2Proofs`).**

    IInv == TypeOK /\ HandInv /\ ListInv /\ EachBrOnce /\ ImageInv /\ LockInv

`HandInv` says what a worker has in its hands at each step, `ListInv` that the
lists hold only fresh runs of their label. `ImageInv` is the reason for the
right image: a worker that is still at work has a label, a checksum and a
checksum file that agree with its DUT. It is inductive only because every failure
of imaging ends the worker (`runs_stale_checksum` shows what happens in the pool,
where it does not), and only without `--keep_stateful`, which is the hypothesis
of `ImageGuaranteed` (section 5). `LockInv` says that the locks of a
label were made by the workers in `made`, that two workers between check and
pop of one label hold different locks, and that one of them who finds the list
empty does so because two locks were made; `LockedPop` has no hypothesis.

**The locks (`SetupProofs`).** Any machines, experiments and leases.

    SetupInv == SetupTypes /\ ListsAgree /\ LocksAreDue /\ HeldOrFormerly

`LocksAreDue` accounts for each lock: it is on a list of its process that is
still to be unlocked, or it is in `leaked`, because a command that was to
lease or unlock it was reported to have failed or the process was interrupted
between the lock and its record. `HeldOrFormerly` says that a machine an
experiment has locked is still its own, or has been given up by one of its runs
(`removed`; never a leased one), or another process has had the machine in one of
its lists.

    SumsInv == SumTypes /\ \A e \in Experiments : SumsFor(e)

`SumsFor` follows `SetCheckSums` through the labels: those that have had their
turn are a prefix of the list, and each of them is `Agreed`: it has machines,
all of them the experiment's, and they report the label's checksum unless a
label that came later has one of them too. The machines of a label, filtered
twice and taken out of the list that is iterated in between, always have a
checksum of their own; that is where the lemmas about `Subsequence` are used,
the sequence operator that all three are made of. `ExperimentSetup` assumes that
the labels are finitely many and that `None` is neither the checksum of a machine
nor a set of machines.

**The cache (`CacheProofs`).** Any runs, hosts and cache conditions. `CacheInv`
is both properties together with what makes them inductive: which directory a
run is at (`TargetFits`), what a run that is alone on its directory finds there
(`WritesAlone`), that nobody is at work on what was stored undisturbed
(`StoredAlone`), where every file in the cache and every file read comes from
(`FilesKnown`, `GotKnown`), and what an undisturbed reader is entitled to
(`ExpectsStored`).

**The bisection (`SearchesProofs`, `FoundProofs`).** Any number of items, any
options, any number of invocations of which the earlier are killed at any step.

    SetsInv == Base /\ Sets /\ SavedSearch

`Base` has the types of the running object and of the saved one (no item twice
in the list; pruned-away items are known to be good), what is bisected at which
statement, and `Progress`: wherever `GetNext` may be called next, in this
invocation or in one that resumes from the file, `lo < hi` and some index
between them is untested. `Sets` says that the tree agrees with the sets that
incremental switching trusts. Beneath it is a lemma about `GetNextFlakyBinary`:
the generations of its queue of intervals reach every index between `lo` and
`hi`, so one that is not skipped is found.

`Knowledge` is the searcher's loop invariant: without skipped tests, everything
below `lo` passes, something up to `hi` is bad, and nothing good has been
reported; and the same of the saved object. It gives `ReportsOnlyBad` without
any hypothesis. Completeness needs enough iterations, in each of its two forms:

* `FindsAllTheBad` assumes `HalvedAway(N - 1, Iterations)`: halving `N - 1` as
  often as there are iterations leaves nothing; and `Few`: not more bad items
  than `--prune_iterations`. With fewer the code gives up by design. `Thorough`
  says that every object, running or saved, has enough iterations left to halve
  its interval away.
* `FindsThePass` assumes the same of the numbers of passes and transformations,
  and `PruneIterations # 1`. `Once` says that a bisection of passes prunes once,
  so that one that is resumed does its item search again; `Reports` is about
  what has been reported; `PassInv` that the change lies within the interval and
  that the iterations left halve it away. In the second phase the change is at
  `badTrans` or, when the reported limit keeps the bad pass off, nowhere
  (`Limit`); of the second number the theorem speaks in the first case only.

The last assumption is one that the proof asked for and TLC confirms: with
`--prune_iterations 1`, a pass bisection that is killed and resumed skips the
item search, keeps the saved `search_cycles` ("If in resume mode don't reset
search_cycles", `binary_search_state.py`) for the bisection of passes, and may
run out of iterations and report a limit that is more than one off. The default
is 100, and the run has 5.

**The restarted tools (`RestartsProofs`).** `AfdoInv` is types and
`AnswersAreTrue`. `LlvmInv` adds to the types that a verdict in the status file,
in the running cycle or in the user's copy is right of its revision
(`VerdictsAreTrue`), which makes the good end of the range lie before the first
bad revision and the bad end not; and that a revision without an entry has no
tryjob, except in the cycle that launches it and unless something raced
(`LaunchedIsRecorded`).

*The uprev.* `UprevResult` speaks of the end only, so the whole way there is in
the invariant:

    UprevInv == ~restarted => UprevTypes /\ Recorded /\ Effects /\ OneLineEach
                              /\ (uprevRun.pc # "off" => Running)

`Recorded` says that the file has the first so many steps of the command, the
right template and the right version to delete. `Effects` relates it to the
overlay: `Agrees(tree, done)` says what each package's ebuilds, its lines, the
virtual package, the profile flag and the bootstrap version are when the steps
`done` are done, and `done` is what is recorded or that and the next step
(`InFlight`), after a kill between effect and record. That a step is harmless
when it is done again is the lemma `EffectLeaves`; `OneLineEach` is the
exception, a line inserted twice, and is claimed of the first run only. Among
the positions in `Order` what comes next is the least that remains, and its
prerequisites are done (`NextIsPrepared`): this is where it matters that
`perform_step` skips what is recorded and nothing else, and that `roll`, which
finds the template itself, records it before it creates another version.

**The pipeline (`SteeringProofs`).** Any finite set of flags with any ranges
(`SearchAssumption`, `RangeAssumption`), any results, any numbers of processes,
and workers that may raise; `PipelineAssumption` says that the poison pill is no
task and `None` no image.

    PipelineInv == Types /\ OnePlace /\ GenerationInv /\ PillInv /\ AllReady /\ KeysInv

`EveryTaskInOnePlace` holds in each step only because a task that is moved was
in one place before, so `OnePlace` counts it in both stages and says exactly when
the count is one: it has been sent, no result has arrived, and no worker has
raised on it (`Underway`). `GenerationInv` makes the counter `pending` the
number of the generation's tasks without a result. It follows that a generation
is ready only when nothing is under way, hence that the poison pill is sent into an
empty pipeline: `PillInv` has the pill in one queue at a time and no task behind
it. `AllReady` says what a task carries by the time it is in each queue, and
`KeysInv` that of the tasks with one key at most one is with the workers, and
none once there is a result, which is the duplicate handling of the helper. The
last two are what the refinement needs: there is one lemma for each action that
puts, moves or answers a task, showing the step of `TaskService` it is, or that
it changes nothing there (`Results` counts what the helper knows, what lies in
its queue and what a worker is about to put there).

`SearchInv` says of the parents of a generation what each algorithm's `Next`
leaves: in the first generation the start, later ones that have been
answered, that are as good as all answered before, and (for the two climbs) all
of whose neighbours have been sent (`FirstOne`, `LaterOne`). `RangeAssumption`
excludes numeric flags with a single value, see section 6.

**The compiler wrapper (`SearchesProofs`).** Any compilations that write any
objects, any settings, switches and kills.

    DriverInv == DriverTypes /\ CachesHold /\ PopulateHolds /\ ListsCompared
                 /\ TriageHolds /\ BetweenBuilds

`CachesHold` says that a cached file is of its build, or torn, and that what is
listed has been cached and is compiled by something. During a build that is
tested (`TriageHolds`) an object that is missing has a compilation yet to come,
one that is torn is being copied, and every other is as asked (`ObjectComes`); a
dependency file is only promised once its object is there, since the wrapper
restores it first (`DepComes`). A build that fails leaves gaps: `BetweenBuilds`
says that nothing else is wrong, so that the objects that the next `Switch` does
not touch are still right. `BuildsWhatIsAsked` assumes that no setting combines
the scripts of android with the safe mode, where the wrapper restores objects
from the wrong cache (section 5); the settings of the run do not either.

**The image manager (`SearchesProofs`).** Any numbers of labels and DUTs, any
compatibility, any pending runs, requests in any order.

`PlanInv` says that a label that has not been imaged still has its row of the
first plan. So as long as it has runs left some DUT has a cell for it, planned or
free, and `allocate` finds a label for that DUT (`FindsLabel`: among finitely many
candidates the order of `LeastImaged` has a first one); hence `NobodyIsLeft`. That
the plan is best is a theorem about the backtracking search: from a partial plan
that is sound so far it finds a solution if any solution extends the partial one, and
nothing else (`Exact`), by induction from whole plans to the empty one. The limit it
stops at is then the least with a solution among those tried, since they are tried
in order. That is no statement about the smaller limits: with more labels than DUTs
the code starts at `nl - nd + 1` (section 5).

**The AFDO search (`SearchesProofs`).** Any functions, any combinations, any
shuffles.

    ProfileInv == ProfileTypes, and: a call of bisect_profiles is about a section
                  whose profile is bad; a function that is bad alone has been
                  named, is in a half that was skipped, or is in the section of a
                  call to come; the lists of a range search have no such function;
                  something is left to do, found or skipped

A range search starts only where both halves of a section are good (none is
skipped), so that no function of it is bad alone, and what it reports is a part
of that section because the borders are indices of its list (`UpperBorder`, `LowerBorder`): each question
halves the interval between them. `AnalysisIsExact` assumes `MaxCulprits > 0`, that is
that some functions both profiles have make the good one bad; otherwise a single
common function is reported without a test (section 5).

**Inductions.** The induction theorems of the library take an
operator as a parameter and cannot be instantiated here. Where a proof needs an
induction over numbers it is over a set of numbers, with the theorem that a
nonempty subset of a well-founded set has a minimal element (`LeastNat`,
`InductiveSet`). A function that is defined by recursion is a `CHOOSE`; that it
exists, and that its values satisfy its equation, is proved in this way wherever a
proof needs it (`QueueExists`, `SearchFunctionExists`, `DescentDefined`).

**Only model-checked.** Liveness (`EveryBrIsExecuted`, `AutoEnds`,
`EveryProcessEnds` and the like: the prover has no fairness), and the four
violations. Every invariant that a passing run checks is proved.

## 5. Where code and description differ

Four runs are counterexamples, listed under `findings`: the checksum left by a
failed flash, the machine that comes back locked, the machine that is used
although it could not be locked, and the range that is not bad. Other differences
met while modelling:

*crosperf*

* `_lock_map` is a `defaultdict` whose factory is a Python lambda: two workers
  that miss a label at the same time get two different locks, both find a run
  in the list and one pops from an empty list (`Pop`). The exception ends its
  worker. No run is executed twice even then (`NeverTwice`), but runs that only
  its DUT can execute are left.
* With `--keep_stateful` the checksum file survives the flash of a remote
  image, and the local image it names is then not flashed
  (`image_chromeos.py`, `DoImage`), or the DUT is taken for imaged
  (`_setup_dut_label`): a test then runs on another label's image
  although nothing has failed, against "Machine image is guarenteed"
  (`benchmark_run.py`).
* "Such a solution ensures minimal number of reimages" (`machine_image_manager.py`):
  the search starts at `nl - nd + 1` labels per DUT, so that 4 labels on 2
  compatible DUTs may be planned 3 and 1, where 2 and 2 would do.
* `RemoveMachine` removes the lock file that `_LockAllMachines` took, and the
  machine stays in the lists of the experiment: while it is still running anybody
  may lock it.
* A lease that is granted while its command runs into the timeout, or whose output
  cannot be read, is on no list: the message asks the user to abandon it, and the
  set-up of an experiment takes it for not locked.
* The bound of 8 s on a foreign machine is shorter than the poll of 10 s, so a
  sleeping run can lose the machine that carries its image, against the comment
  in `AcquireMachine`.
* `FAILED` can be recorded twice, by `Terminate` and by the run; the assertion
  ends the loop that terminates the other runs. They end on their own
  (`InterruptEnds`).
* `Schedv2.terminate` iterates over a list that shrinks, so a worker can be
  left unterminated; a worker terminated before it announces its active run
  still executes it. Neither prevents the end (`ExperimentEnds`).
* `_execute_benchmark_run` "never throws", but an exception of the run leaves
  it and ends the worker.
* A DUT that happens to carry a label's image is used for it even when the
  label names other DUTs (`_setup_dut_label`).
* A second clean-up, at exit, unlocks once more what the first one unlocked,
  whoever has locked it since; a failed unlock is not tried again unless the
  second clean-up does. An interrupt while machines are being locked leaves
  them locked, since the list of what was locked is set only at the end.
* `SetCheckSums` says "No bailout" and raises; a label that has lost all its
  machines raises `AttributeError`.
* `GetMachineStates` answers the same for every machine, so `CheckMachineLocks`
  never removes or raises.
* `lock_machine.py`'s own command line and `cros_utils/locks.py` make a
  `LockManager` that was not told which machines are local: its update raises
  `UnboundLocalError` and nothing is locked; with `--force` the update is
  skipped.
* `_StoreResults` collects results with `setdefault`, which drops all but the
  first of a benchmark, so the return code may be a success too early.

*binary search tool*

* A kill between link and rename makes each later save raise; resuming a pass
  bisection always raises; resuming without `--pass_bisect` leaves it out
  silently, although the given options are said to be ignored.
* The pass that is reported is the one of the last limit tested, which is the
  bad pass or the good one before it (`PassWithinOne` is what holds). In the
  second case the transformations of the wrong pass are bisected, no limit of them
  is bad, and the number of the last one is reported: the tool does not then tell
  "which pass and transformation in the compiler caused the error"
  (`README.pass_bisect.md`).

* The `common.sh` of `android` names a variable `BISECT_BAD_SET`, which the tool
  has exported with the name of its own set: in the builds of android the
  wrapper takes every object to be in the bad set. The links of the switch
  scripts are right; what the wrapper restores, the dependency files and in its
  safe mode the objects, is of the bad build.

*bestflags*

* A build that fails three times leaves `checksum` unbound: the worker raises,
  its task is lost, and the steering process waits for ever.
* Hill climbing may make a generation without tasks, which fails the assertion
  of the steering process.
* `RandomMutate` leaves out the flags that it does not mutate.
* A comment of `Flag` says that the end of a numeric flag's range is
  excluded (`flags.py`); `random.randint` includes it, while the neighbours and
  the decreased values keep below it.
* The poison pill overtakes tasks of its stage; `PillIsLast` shows why this does
  no harm.

*LLVM bisection*

* When every sampled revision is skipped the tool prints that it has finished,
  with an `end_rev` that is not known to be the first bad one, although other
  revisions between were never tested; the comment says that "all valid
  revisions" between were looked at.
* Running builds count as answered, so the attempts (`BISECTION_ATTEMPTS`) may
  be used up while builds run.
* The user's tools write the status file in place and overwrite what the
  automatic bisection has written since they read it, and the other way round.

*AFDO analysis*

* A second interruption, before everything recorded has been replayed, loses
  the answers not replayed yet: the two checks at the start already save an
  empty list. Nothing false is recorded, but the README promises resumption.
* `range_search` resets all functions after a question, also those that the
  next question is to keep, so that a range may be reported that is not bad
  (`afdo_ranges`); a single common function is reported without a test.
* A half that the decider skips leads neither to a recursive call nor to a range
  search: a function that is bad alone is missed, and the report may be empty
  (`SearchIsExact` allows exactly this).

*Rust uprev*

* A kill between a step and its record makes the profile data switches, the
  removal of a line of `package.provided` and the commit raise for ever when
  continued, and inserts the new line twice.
* `roll` with a version that is not newer than the template removes the oldest
  version all the same, and then fails its assertion.
* `create` without `--template` always raises, against its help text.

## 6. What is left out

* The counters of reimages, the status banner, logs, time estimates.
* The crosfleet mode, in which a run leases its own device, with its branch of
  `_reimage`.
* In `ExperimentSetup` the run threads of an interrupted experiment have ended
  when its clean-up starts; in the code they may still take or give up machines,
  which is the subject of `BenchmarkRun`.
* The order of lists where it only breaks ties: sets take their place, with a
  free choice.
* `label.chrome_version`, beyond that asking an unreachable machine raises.
* The return code of an experiment, and the file locks of the pool inside
  `crosperf_autolock` (its `crosperf` runs are one step).
* How a change list is made and a tryjob launched; that a launch raises after
  the tryjob has started.
* The keys of the results cache but for the machine, the telemetry results, the
  shared caches (which are only read), and the parsing of what is read.
* The scripts of the binary search tool that flash and test.
* `--rust_version` of `remove` and `--remove` of `roll`: the version to delete
  is the oldest; steps without an effect on the overlay.
* Torn writes, except in the results cache and the wrapper: elsewhere a file is
  written in one step, also where the code does not rename.
* `PrintIRDiff`, the data files behind the state link, the unused
  `GetNextFlakyLinear`, and the version-control searchers of
  `binary_search_perforce.py`.
* Numeric flags with a single value, `[5-6]`: the initial flags of the iterative
  elimination then hold a value below the range (`testing_batch.py`), and
  `_DecreaseFlag` lowers it further without meeting the start, so that the
  search has no bound.
* A set-up script of a test that fails is one of the test's answers, as in the
  code.

## 7. Plan

In the order of their importance to the system:

1. `MachineManager`, `BenchmarkRun` – done: all safety invariants proved.
2. `MachineImageManager`, `Schedv2` – done: all safety properties proved.
3. `BinarySearcher`, `BinarySearchState` – done: all properties proved.
4. `FlagSearch`, `Pipeline`, `Steering` with the refinement of `TaskService` –
   done: all safety invariants and the refinement proved.
5. `MachineLocks`, `ExperimentSetup` – done: all properties proved.
6. `LlvmBisection`, `AfdoDecider`, `RustUprev` – done: all properties proved.
7. `ResultsCache`, `BisectDriver`, `AfdoSearch` – done: all properties proved.

Proofs are about safety; each starts from an inductive strengthening that TLC
has checked first.
