# PreFence in TLA+

A verification project for the PreFence repository: TLA+ models of its code, TLC
runs over small instances, and proofs checked by TLAPS.

PreFence defends against attacks on hardware prefetchers.  A task can ask the
kernel to disable them while it runs: `prctl(PR_SET_PREFETCH_DISABLE, 1)` sets
its `prefetch_disable` flag, and the patched scheduler disables the prefetchers
of a core whenever a task with the flag runs on it.

## 1. Inventory

| Component | State it keeps | Operations | What makes it correct |
|---|---|---|---|
| Intel kernel patch, `kernel_patch/kernel/patch-v4-*` | `task_struct.prefetch_disable`, the global `prefetch_disable_cpumask`, MSR 0x1A4 of each core, the handlers' locals | the hunk in `context_switch()`, `set_intel_prefetch()`, `prctl` SET and GET, inheritance by `fork` | a flagged task runs with prefetchers off; an unflagged core has them on; the mask follows the flags; other MSR bits are kept; `prctl` returns |
| ARM kernel patch, `kernel_patch/kernel/patch-v5-*` | the flag, `CPUACTLR_EL1` of each CPU | the hunk in `context_switch()`, `set_arm_prefetch()`, `prctl` | as above, per CPU and without a mask |
| armstub, `kernel_patch/armstub` (and a copy in `evaluation/6_2_*`) | ACTLR of each core, the spin table | EL3 to EL2 bring-up of the primary and secondary cores, enabling EL1 access to CPUACTLR | every core gets access before it leaves EL3; secondaries start once their slot is written |
| `pfdisset` | its own flag | parse, `prctl`, read back, `execvp` | the target runs with the flag asked for, or not at all |
| `userspace-test` | its CPU, its flag, child | set, fork, migrate, clear, each followed by asserts | its asserts hold on a correct kernel |
| `rpi4-module-pfstate` | `_device_open_ctr`, `info` | open, release, the query ioctl on every CPU | one process at a time; the answer is the register of the CPU asked for |
| `mod-ctrlpf`, `evaluation/6_2_*` | `_device_open_ctr`, MSR or CPUACTLR of the current CPU | open, release, ioctls that set bits | one process at a time; only the bits asked for change |
| `fetchbench_disable_behavior.patch` | prefetcher state through `mod-ctrlpf` | train, disable, probe, enable | each experiment runs in the prefetcher state it names |
| `victim-bn`, `evaluation/6_3_openssl` | its flag around a modular squaring, a log | set, compute, clear, print | the secret-dependent code runs with the flag; each series is measured with the flag it names |
| `prefence.patch`, `evaluation/6_4_*` | the flag around AES calls | set, encrypt, clear | as above |
| `runscript_prefence.py`, in the same patch | a generated header, the built attack, `out.log`, archives | write the header, build, run, compress, rename | an archive holds the log of the attack it is named for |
| lighttpd patch, `evaluation/6_6_lighttpd` | the flag around TLS callbacks | save, set, call, restore, nested | sensitive code runs with the flag; every wrapper leaves the flag as it found it |
| lighttpd benchmark, `evaluation/6_6_lighttpd/data` | server processes, uploaded files, times, results files | start a server, remove, upload, write results, kill | each time belongs to the configuration its file is named for; a round leaves nothing behind; the script ends unless a server never answers |
| `appendix_b_1_context_switch` | a word of shared memory: clock and counter | writer stamps, reader polls and measures | each sample is the time from a stamp of its own, and never too small |
| `appendix_b_2_syscall` | its flag | time `prctl` set and clear | each series measures the call it names |
| `plot-lighttpd-upload.py` | times by size, reference medians | read, relate to the reference, draw | each time is drawn once, related to the reference as measured |
| `plot_spec.py` with its two callers | rows, times by benchmark, labels and colours | read tables, group, draw bars | whole results only; each bar shows its runs in its configuration's colour |
| `plot_exp_openssl*.py`, the two `plot.py` | two series of numbers | read a log, draw | what is drawn was measured, whole, with the flag it names |
| `plot_prefence.py`, `compute_average_runtime.py` | recovered bits, run times | read archives, count | only real recoveries are counted |
| SPEC configurations | - | - | - |

How they interact: user programs call `prctl`; the kernel patches change the
flag and the hardware; `userspace-test` reads the hardware back, on Intel
through `/dev/cpu/*/msr` and on the Raspberry Pi through `rpi4-module-pfstate`,
which shares the registers with the kernel; the armstub decides whether the
kernel may write them at all.

What is hard: handlers of different CPUs run concurrently and without a lock
on a mask and on MSRs that hyperthreads share; tasks migrate in the middle of
a system call; the flag is stored before the hardware follows; the device
modules share a counter and a result variable between CPUs; the clients nest
or omit brackets around the code they protect.  The measurements rely on
what nobody checks: that the server which answers is the one just started, that a
log is whole, that an archive is this run's; and the scripts that draw them
replace data in place and depend on the order of dictionaries and files.

## 2. Plan

The modules, in the order they are written, the most important behaviour first.

| # | Module | Builds on | State |
|---|---|---|---|
| 1 | `PrefetchPolicy`: the abstract promise of both kernel patches | - | done |
| 2 | `KernelTasks`: tasks, scheduler, `prctl`, cross-CPU calls | - | done |
| 3 | `IntelPreFence`, `ArmPreFence`: the two patches; each implements `PrefetchPolicy` | `KernelTasks` | done |
| 4 | `DeviceOpen`: the open counter that both device modules share | - | done |
| 5 | `PfstateDevice`, `CtrlPf`: the ioctls | `DeviceOpen` | done |
| 6 | `FetchbenchStride`: the experiment that drives `mod-ctrlpf` | `CtrlPf` | done |
| 7 | `UserspaceTest`: the repository's own test, with its child | `PrefetchPolicy` | done |
| 8 | `FlagClients`: lighttpd, the victims, `pfdisset` and their children | `PrefetchPolicy` | done |
| 9 | `LighttpdBenchmark`: rounds, servers, retried uploads, results files | - | done |
| 10 | `Lists`, `UploadPlot`, `SpecPlot`: the figures with a computation of their own | - | done |
| 11 | `MeasurementLogs`: the programs that print a line per repetition, and their plots | `Lists` | done |
| 12 | `AesAttackRuns`: the attack's script, its archives and the scripts that read them | - | done |
| 13 | `ContextMeasure`: appendix B.1, a writer and a reader with a shared word | - | done |
| 14 | `ArmstubBoot`: primary and secondary cores, the spin table, access to CPUACTLR | - | done |
| 15 | `Evaluation`: the programs of 7 and 9 to 14 together | all of these | done |

The modules whose names end in `Proofs` hold the theorems of section 6.

Abstract specifications: `PrefetchPolicy` (every step instantaneous) for the
two kernel patches; the clients and the test run on it instead of on a patch, so
that their results hold on any kernel that implements it.

Theorems: every invariant and action property that the passing runs check of a
module, except where section 6 says so.

Programs that run on their own and share nothing are checked in one run,
`evaluation`: `Evaluation` puts them together, and `MCEvaluation` starts one of them in each behaviour and leaves the
others alone, so that their states add up and do not multiply.

## 3. The modules and the code

### PrefetchPolicy
The abstract specification.  `flag` is `task_struct.prefetch_disable`,
`running` the current task of each CPU, `disabled` the prefetchers of a core
that are off.  `Switch`, `SetFlag` and `Fork` are a context switch, a `prctl` and
a `fork` that take effect in one step.  `booted` says that the patch controls the
prefetchers already: before it does, `disabled` is whatever the firmware left.

### KernelTasks
What the two patches have in common.  `BeginSwitch` enters `context_switch()`,
`StoreFlag`, `EvaluateCpu` and `SendCall` are the three parts of
`prctl(PR_SET_PREFETCH_DISABLE)` between which a preemptible kernel may move the
task, `BeginCall` is the interrupt that runs `set_*_prefetch()` on the CPU that
was asked, `EndHandler` its return or the end of the switch.  `pc`, `kind` and
`subject` are the handler that a CPU is in.  The scheduler, `fork`, `exit` and
`smp_call_function_single()` are not in the repository: they are modelled from
how the patches use them and marked external.  `alive` and `taskCpu` are the
kernel's; `effective` is a history variable for the refinement.

### IntelPreFence
`mask` is `prefetch_disable_cpumask`, `msr` MSR 0x1A4 of each core, `lo` and
`target` the locals `msr_lo` and `msr_lo_target`.  One action for each of the
steps the code numbers: `UpdateMask` (0, inside the action that enters the
handler), `ReadMsr` (1), `ComputeTarget` (2), `WriteMsr` (3); both handlers
share them, as the code repeats them.  `SkipPrefetchControl` is the `goto` of
`context_switch()` while the sibling masks are missing, which
`set_intel_prefetch()` does not have; `TopologyReady` is external.  A handler
for a task that has moved goes by `task_cpu()` for the mask and the siblings but
reads and writes the MSR of the CPU it is on (`HandledCpu`).  `alone` and
`synced` are history variables that record which handlers overlapped none of a
sibling.

### ArmPreFence
The read-modify-write of `CPUACTLR_EL1` runs with interrupts disabled on the
only CPU that reaches the register, and is one step.  `stray` is a history
variable: the CPUs where `set_arm_prefetch()` last ran for a task that had left.

### DeviceOpen, PfstateDevice, CtrlPf
`DeviceOpen` is `device_open()` and `device_release()` of both modules.  The
kernel build optimises `if (ctr) return -EBUSY; ctr++` into a load, a test and a
store of 1, and `ctr--` into a load and a store; these are the steps.
`PfstateDevice` adds `IOCTL_QUERY`: `Query` up to `on_each_cpu()`, `QueryRead`
and `QueryFinish` for the two accesses of `query()` to the caller's `info`, and
`QueryReturn`; `KernelSets` is the kernel patch, which changes registers in
between.  A number that is not that of an online CPU is converted as the code
converts it (`AsWord`), and no CPU answers; a request of another kind
returns at once (`OtherIoctl`).  `CtrlPf` adds the ioctls of
`mod-ctrlpf`: `Instructions` lists, for each request, the register accesses of
its case, and a process may be preempted and migrate between any two of them
(`Migrate`).

### FetchbenchStride
Composes `CtrlPf` with the two tests that the FetchBench patch adds: `Programs`
is what the workloads and baselines do, `Advance` the repetition loops,
`OpenHandle` and `CloseHandle` the constructor and destructor of
`ModCtrlPfHandle`.  Other processes use the device at any time; FetchBench may
be killed and started again.  `StrideAssumption` says of the words that users of the
device write (`Values`) only that the two of these tests are among them.

### UserspaceTest
`TestScript` and `ChildScript` are the calls of `main()` in order.  `assert_pf()`
is two calls, `sched_getcpu()` and `pread()` of that CPU's MSR file, between
which the process may migrate.  `Pin` ignores errors, as the code does, and
`WaitChild` accepts a child that a signal has killed, as `WEXITSTATUS` without
`WIFEXITED` does.  Rival tasks use the flag on the same machine.

### FlagClients
Each program is a stack of calls.  A wrapped call passes through `SaveFlag`,
`SetOwnFlag`, its original (`BodyReturns`) and `RestoreFlag`; while an original
runs, OpenSSL may call a callback (`CallBack`), or it may call another original
past its wrapper (`CallDirect`), as three places of the patch do.  The AES victims
are one such bracket, with or without setting the flag; `victim-bn` is one
that saves nothing.  `LaunchSet`, `LaunchCheck` and `LaunchExec` are `pfdisset`.
A kernel without the patch is part of the model (`booted` is false): every
`prctl` fails and the programs exit (`PrctlFails`).

### ArmstubBoot
`armstub8.S`, built without a GIC.  `SetUp` is everything up to EL2, of which
the model keeps `ACTLR_EL3` and `ACTLR_EL2` (`granted`); `WaitForEvent`,
`LoadSlot` and `TestSlot` are the three instructions of `secondary_spin`, with
`x4` and the address computation (`SlotOf`); `BootPrimary` is `primary_cpu`.
`stub` is the memory of the spin table.  The firmware, which clears its magic word before it
starts the cores, as the comment in the stub says, and the kernel, which stores
an address and then sends an event, are external.

### LighttpdBenchmark
`shell`, `session` and `round` are where `benchmark.sh` is, `step`, `file`,
`todo` and `left` where `benchmark.py` is, `times` its `experiment_results`.
`server` holds every lighttpd process that was ever started: `Bind` succeeds if
no process has the port, `KillAll` reaches those that have executed lighttpd and maybe those
that are about to, and processes end when they like.  `Removed` and
`UploadAnswered` are a request that is answered, with what the PHP script
does (`Remove`, `StoreFile`); `NotConnected` and `ConnectionBreaks` are one
that is not, after which urllib3 tries again (`TryAgain`): any request if there
was no connection, but no POST that was sent.  `Abort` is what `set -e` does,
`Interrupt` what a user does.  A request whose client stops waiting for it, because
the connection breaks or the scripts are ended, may have reached the server
(`LeaveRequest`); then it is in `late`, and a `php-cgi` process works on it at
any later time (`ServeLate`), in whatever round or session, also when its server
has gone.  `kept` and `clean` are history variables: the files that a removal has
left on the server or that such a request has stored there in a later session, and
whether a session has begun without old servers.

### Lists
The two things that several scripts do with a list: `Kept` is a loop that appends some
of its members to another list, `Order` is `list.sort()`, as the places of the
members in ascending order.  Python's sort is stable, and so is `Order`.

### UploadPlot
`plot()` of `plot-lighttpd-upload.py`: `ReadFile` and `SeriesRead` fill `buckets`,
`Relate` replaces the times of one series in place, `Draw` adds its boxes and its
line, for which `boxplot()` wants at least one box: a series without sizes ends the
script.  Times are rationals.  `sizes` keeps the insertion order of the dictionary, which
is the order of a line's points; `xvals` survives the loop, as in the code.
`PlotAssumption` says of results files what `benchmark.py` writes: a positive time
for each upload, and one file of each size in a dataset.

### SpecPlot
`plot()` of `plot_spec.py`: `ReadLine` with `TakeLine` and `CloseCsv` is the loop
over the lines of a file, `Group` the dictionary by benchmark and label,
`AddBars` one round of the loop over the benchmarks, `Show` the rest.  The
exceptions are phases: no header, a run time that is no number (`NoTime`, the empty
cell of a run that has failed), no score, a benchmark without its three runs.
The code sorts the list of times after every append;
`Times` sorts it once, where it is used.  `CsvFormed` is the form of a file that
SPEC writes: each of the two markers and the score once at most and in this order,
the header before the rows, and no name after the table that is not in it.  A file
that was cut between two lines has this form too; one that was cut within a line
has no score either, so that the script ends with an exception at the latest there.

### MeasurementLogs
`victim-bn`, the readers of appendix B.1 and the program of appendix B.2: one
`Repetition` prints one line, with the program's flag as it was.  A program that
is killed loses what is in the buffer, so that `written` may be any part of what it
printed, and so may it be if a reader's handler of SIGINT calls `exit()` in the middle
of a `printf()`; `FileLines` is what the regular expressions find in such a file.  Of these the
scripts keep the lines of their own expression (`Matching`) and of one value of
the flag (`Select`).
`DrawLog` is each of the five scripts.

### AesAttackRuns
`StartScript`, `Build`, `Attack`, `Compress` and `FileArchive` are the steps of
`runscript_prefence.py`, none of which looks at a result.  A log is kept with the
program that wrote it and the runs that wrote and filed it.  `MakeReport` is what
`plot_prefence.py` (`Recovered`) and `compute_average_runtime.py` compute, after
the archives have been moved to the directories from which these read.

### ContextMeasure
`Stamp` and `Store` are the writer's loop, `Load`, `ReadClock` and `TakeSample`
the reader's: the CPU they share may go from one to the other after any of
them.  `memory` has every segment that was created and `linked` names the one that
has the name; `StartWriter` and `StartReader` are `map_shm()`, `EndWriter` is
`sigint_handler()` or a kill.  The 16 bits of the counter and the 48 of the clock
are `Counters` and `Stamps`, and a clock that does not fit is or-ed into the
counter as in the code (`Or`, bit by bit).

## 4. The runs

| Run | Question | Answer |
|---|---|---|
| `intel_mixed` | Do MSRs and flags stay together on a machine with a hyperthreaded and a plain core? | Yes, unless handlers of hyperthreads overlap (`SyncedCoreObeysFlags`); such races never lose another MSR bit. |
| `intel_kernels` | On CPUs without siblings, and on kernels that do and that do not preempt system calls: does the patch implement the policy, and does every `prctl` return? | Yes, from boot on, if system calls are not preempted.  If they are, a call may run on a CPU that its task has left: the mask is right in spite of it, and no CPU waits for ever, although two may wait for each other's and the asked one may keep switching tasks. |
| `intel_smt_race` | Is a flagged task always protected with hyperthreads? | No (finding 1). |
| `arm` | The same on the Raspberry Pi, with and without preemption of system calls? | Without it, yes.  With it, only a stray `set_arm_prefetch()` can leave a register wrong, on the CPU where it ran. |
| `pfstate_query` | Are answers of pfstate right, for any request? | Yes, if no register holds a CPU's number; queries return; only racing opens break the counter. |
| `pfstate_open_race` | Does one process at a time have the device? | No (finding 2). |
| `pfstate_wrong_cpu` | Are answers right if a register is 0? | No (finding 3). |
| `fetchbench` | Is every experiment run in the prefetcher state it is named for? | Yes on Intel, unless opens race; the first training of the flush test depends on the state that the other test left. |
| `ctrlpf_arm` | Do preempted read-modify-writes lose bits on the Cortex-A72? | No. |
| `flag_clients` | Are protected calls protected however they nest, and is the flag put back? | Yes; what `pfdisset -d` starts stays without prefetchers, `victim-bn` and an AES victim without PreFence excepted. |
| `evaluation` | Do the programs that run on their own keep their promises? | Yes; see the table below. |
| `syscall_clear` | Does the clear series of appendix B.2 time a call that clears the flag? | No (finding 4). |

What `evaluation` shows:

| Program | Properties | In words |
|---|---|---|
| armstub | `EntersKernelRight`, `ReleasedCoresBoot` | no core enters the kernel without access to CPUACTLR or at a wrong address, and no release is lost |
| `userspace-test` | `TypesOK`, `FailuresExplained`, `PassMeansVerified`, `TestEnds` | it fails for three causes besides `fork()`; a pass means that everything was seen, except for an offline CPU or a killed child; it always ends |
| `plot-lighttpd-upload.py` | `FigureShowsFiles`, `LinesRight` | in-place relating is right; the reference line is at 1 for an odd number of repetitions, and on the good side of 1 for an even number |
| `plot_spec.py` | `WholeFilesDrawn`, `BarsShowRuns`, `BarsRecognisable` | results that are cut, or of runs that failed, are never drawn; colours are right if the files have the same benchmarks |
| logs | `DrawnAsMeasured`, `AcceptedRunWhole`, `SeriesAsNamed` | of a cut log at most the very last number is wrong, misses are never drawn that were not counted, and an accepted log of `victim-bn` has the whole clear series |
| AES attack | `ArchivesAsNamed`, `RecoveriesReal` | only a run's first archive may be another run's, if that was interrupted; cut logs add no recovery |
| context switch | `OneSamplePerStamp`, `NeverUnderestimates` | a stamp gives one sample, and preemption can only lengthen it |
| lighttpd benchmark | `ResultsAsNamed`, `OnlyKeptFilesStay`, `ResultsComplete`, `SessionEnds` | late servers, crashes and retries never put a time under a wrong name, if no server was left when the script was started (after an aborted session one is, since `set -e` leaves it running), and never count an upload that failed; a file stays only if its removal has failed, or if a request of an earlier session is processed late; the scripts end unless a server never answers |

The type invariants and the inductive invariants of the modules with proofs
(`TypeOK`, `TaskPlacement`, `IInv`, `ClientsInv`, `BenchmarkInv`, `ScriptInv`,
`ProgramInv` and others of section 6) are no invariants of these runs: they are proved, for every value of the constants
(section 6).  The same holds of the other bits of the ARM register
(`ArmPreFenceProofs!OtherBitsKept`), and of `StateHeld` on Intel, which
`ctrlpf_arm` checks on the Cortex-A72.  `TypesOK` collects the
types of `userspace-test`, of the benchmark and of the plot of its uploads.

### Bounds

Two or three CPUs and two or three tasks: a race needs two CPUs, a stray call a
task and a CPU that it left, fork a parent and a child, and a hyperthreaded
machine that is compared with a plain one three CPUs.  `intel_kernels` has two CPUs
without siblings and one MSR bit, which is all that the mask and the waiting of
`prctl` depend on: two tasks can ask for each other's CPU, and a task can leave
its CPU while its call is on the way.  A register is abstracted
to one or two prefetcher bits and one other bit, as the code treats the bits
of each group alike (`pf1` and `pf2` differ where a bug could forget one).
`Arg2` holds 0, 1 and 2: `prctl` tells zero from the rest.  In `PfstateDevice`
the firmware's bits are a word (4) that is no CPU's number, or 0 in
`pfstate_wrong_cpu`; `WordSize` is 16 in place of 2^64, and `SomeNumbers` holds
valid, negative and too large CPU numbers.  `Reps` is 2: the first and a later
repetition.  `MaxDepth` is 3: an entry point, a callback in it, and an original
that the callback calls directly; deeper calls repeat these.  Two of the plugin's
entry points and two of its callbacks stand for all, which are wrapped alike.
The benchmark has two rounds of different configurations, two files, one retry and two
sessions: a mix-up needs the server of another round or session.  `MaxLate` is 1:
one request at a time outlives its client, an upload or a removal.
Results files are sorted and unsorted, with one and two sizes of the dataset, up to
three for the reference and one for another series, so that medians of odd and
even numbers occur.  SPEC files are whole in either order of the benchmarks, cut
before and after the end marker, with too few runs, with a run that has failed, and empty; three files, as
the callers pass.  Times in logs have two digits, so that a cut number differs from the
whole one.  `KeyBytes` and `Iterations` are 2 in place of 16 and 100.
`Counters` is 2 and `Stamps` 5 with clocks up to 7: the counter wraps around
within a behaviour and the clock outgrows its part of the word.  `BootCores` has
the primary core, one that waits on a plain slot and the one whose slot holds
the magic word.
`TaskSymmetry` and `ProcSymmetry` are used where no constant singles out a task
or process and no liveness is checked.

### Fairness

`IntelPreFence`: a CPU finishes the handler it is in (weak fairness of
`HandlerStep`: handlers run with interrupts disabled and do not block).  A
requested call is an interrupt that stays pending while the CPU is in other
handlers, so that it is taken in the end (strong fairness of `CallBegin`).  Tasks
may be switched, preempted and moved for ever, and the other tasks may make as many
system calls as they like.
`PfstateDevice`: the same of `QueryRead` and `QueryFinish`; `on_each_cpu()`
returns after the last one.  `UserspaceTest` (`TestFairness`): the scheduler removes a process
from a CPU it may not use; a process that can run again and again is run, and one that runs
again and again makes its next call (strong fairness, as others take its CPU in between).
`LighttpdBenchmark` (`BenchmarkFairness`): the two scripts take the steps that
depend on nobody else (`ShellStep`, `OwnStep`; a connection is refused at once if no
process has the port).  Servers may start, answer and end when they like or never,
connections need not break, and `benchmark.py` sets no timeout, so a server
that does not answer makes it wait for ever: `SessionEnds` names that as the only
exception.  `ArmstubBoot` (`BootFairness`): cores execute their
instructions, and the kernel sends the event after the store.  Nothing is assumed of user programs in the
kernel models, nor that a task is ever switched to.

## 5. What the violations show

1. **Hyperthreads race** (`intel_smt_race`).  No lock covers the steps from the
   update of the mask to the write of the MSR.  A handler computes its target;
   on the sibling CPU another sets its bit, computes and writes; then the first
   writes its older target.  A flagged task runs with the prefetchers on until
   the core's next handler.  `SyncedCoreObeysFlags` says exactly when a core is
   right, and `MaskAccurate` that the mask is never at fault.
2. **Opens race** (`pfstate_open_race`).  Two processes pass the test of
   `device_open_ctr` before either counts.  Both then store 1 and both releases
   decrement, so that the counter can end at -1 and the device stays shut until
   the module is reloaded.  `mod-ctrlpf` has the same function.
3. **pfstate answers for the wrong CPU** (`pfstate_wrong_cpu`).  `query()` puts
   its result into the variable that the other CPUs compare with their own
   number, so a result that is the number of a CPU which has not looked yet is
   replaced by that CPU's register.  With CPU 0 to 3 this takes a register whose
   word is below 4, that is, one without any of the firmware's usual bits.

4. **The clear series sets the flag** (`syscall_clear`).  Both measured calls of
   appendix B.2 are `prctl(PR_SET_PREFETCH_DISABLE, 1, ...)`; the second is
   named, read and drawn as "clear".

Met while modelling and visible in the properties, without a run of their own:
where system calls are preemptible, `task_cpu(current)` may be out of date
when the function runs, so that a stray call writes the wrong CPU's register
(`RegisterObeysFlag`, and the exception in `SyncedCoreObeysFlags`);
`userspace-test` names the Raspberry Pi in its README but reads Intel MSRs only;
`victim-bn` clears the flag it may have been started with, and then measures its
whole clear series with the flag set (the exception in `SeriesAsNamed`); a
session of `benchmark.sh` after an aborted one measures the server that this has
left (the exception in `ResultsAsNamed`); `runscript_prefence.py` may file the
archive of an interrupted run under its own tag (`ArchivesAsNamed`);
`plot_prefence.py` prints "/128" where it counts 64 bits, and calls `parse_file()`
with `expect_leakage=True` for both directories, so that it never reports a
false positive; the times of a context switch are too large once the clock
exceeds 48 bits (`NeverUnderestimates`); `run-kern_stock-pf_disabled.sh` and
`run-kern_stock-pf_enabled.sh` are the same, so that a baseline without
prefetchers needs a step that no script does.

## 6. What is proved

TLAPS checks these for every value of the constants that satisfies the named
assumptions.

| Theorem | Assumptions | Argument |
|---|---|---|
| `IntelPreFenceProofs!Safety` (`TypeOK`, `IInv`) | `KernelAssumption`, `IntelAssumption` | induction, action by action |
| `MaskIsAccurate`, `SyncedCoresObeyFlags` | same | consequences of `IInv` |
| `OtherBitsKept` | same | `OtherBitsCurrent`: a handler's words differ from the MSR in prefetcher bits only, whoever wrote in between |
| `FlaggedTasksProtected`, `IntelImplementsPolicy` | also `OneCpuPerCore`, `~Preemptible` | `PlainCoresSynced`, `FlagsEffective` |
| `ArmPreFenceProofs!RegistersObeyFlags`, `OtherBitsKept` | `KernelAssumption`, `ArmAssumption` | `RegisterFollowsFlag` |
| `ArmPreFenceProofs!FlaggedTasksProtected`, `ArmImplementsPolicy` | also `~Preemptible` | `CallsFindTheirTask`, `FlagsEffective` |
| `PfstateDeviceProofs!PfstateOnlyOpensRace` | - | `OneUser`, from `DeviceOpenProofs` |
| `PfstateDeviceProofs!AnswersAreCurrent` | no register's word is a CPU's number | `QueryInv` |
| `CtrlPfProofs!CtrlStateHeld` | `CtrlPfAssumption` | `OneUser`, `IoctlInv`, `OutcomeHeld` |
| `CtrlPfProofs!CtrlKeepsOtherBits` | also Cortex-A72 | `IoctlInv`, `OtherBitsEqual` |
| `FlagClientsProofs!ClientsSafety` (`TypeOK`, `ClientsInv`) | `ClientsAssumption` | induction, task by task: a step leaves the other tasks `Untouched` |
| `SecretsAreProtected`, `FlagsAreRestored`, `StaysDisabled` | same | consequences of `ClientsInv` |
| `CtrlPfProofs!TestsUseDevice` (`ProgramInv`) | `StrideAssumption`, `CtrlPfAssumption` | every step is one of `CtrlPf`; the program's place gives its last request |
| `KeepLearningRight`, `FlushRight` | same | `StateHeld` for the last request; for the second also `UndisturbedHeld` |
| `EvaluationProofs!ScriptSafety` (`ScriptInv`, `PolicyKept`) | `TestAssumption` | induction over the calls of both processes |
| `AlarmsExplained`, `PassesVerified` | same | consequences of `ScriptInv` |
| `BenchmarkSafety` (`BenchmarkInv`), `ResultsNamedRight` | `BenchmarkAssumption` | induction, action by action |
| `FilesAreRemoved`, `ResultsAreWhole` | same | `UploadsInHand`, `OwnRemovals`, `TimesComplete` |
| `ArchivesNamedRight` | `AesAssumption` | `AesInv` |
| `RecoveriesAreReal` | same | induction over the running sum of matching bits |
| `LogsSafety` (`LogsInv`), `SeriesNamedRight`, `DrawnRight`, `AcceptedRunsWhole` | `LogAssumption` | `LineFormed`, and induction over the lines that `Kept` keeps |
| `ContextSafety` (`ContextInv`), `SamplesNotTooShort`, `StampsTakenOnce` | `ContextAssumption` | no word is older than the reader's last sample (`NotBeforeSample`) |
| `CoresEnterRight` | `BootAssumption` | `BootInv` |
| `CsvSafety` (`SpecInv`) | `CsvAssumption` | induction, line by line and benchmark by benchmark |
| `OnlyWholeFiles`, `BarsAreRuns`, `BarsAreRecognisable` | same | consequences of `SpecInv`; `OrderSorts` for the second |
| `PlotSafety` (`PlotInv`) | `PlotAssumption` | induction, file by file and series by series |
| `FiguresShowFiles`, `LinesAreRight` | same | consequences of `PlotInv`; `CountedAlike`, `MiddleExists`, `OneMiddle` |
| `TypesHold` | `TestAssumption`, `BenchmarkAssumption`, `PlotAssumption` | from `ScriptSafety`, `BenchmarkSafety` and `PlotSafety` |

Why the invariants have to be stronger.  `MaskAccurate` says nothing of a CPU in
the middle of a switch or a `prctl`; `MaskFollowsFlags` adds that a bit is right
from the handler's first step on, and that a call which finds its task gone
changes nothing, which needs `TaskPlacement`: a task is on the CPU that
`task_cpu()` names, and the caller of a called function has not moved.  That part
is the same for both architectures and is proved once, in
`KernelTasksProofs`, for every kernel step.  `SyncedCoreObeysFlags` needs that
what a lone handler read is still there when it writes (`LoneReadIsCurrent`,
`LoneTargetIsCurrent`).  `StateHeld` is about a process between ioctls;
`OutcomeHeld` carries it through the ioctl, as what the register will be when the
process has executed the rest.  `KeepsOtherBits` of `CtrlPf` lets a process
write one CPU's word to another and therefore needs that the CPUs agree in the
other bits, as the firmware leaves them.

The properties of `FlagClients` speak of the innermost call or of an empty stack.
`Nested` says of every call on the stack that the calls on top of it find the
flag set and leave it set, so that a return, to whichever level, puts the caller
back where its flag is right; `Remembered` says that the outermost call alone
holds the flag from before.  Pushing, changing and popping a call are three
lemmas about sequences, for any depth.  `CoresFollowFlags` is what the clients
need of the kernel: a flag that is set is obeyed where the task runs.

`ResultsAsNamed` of the benchmark looks at what was written; why it holds is that
in a clean session no server but the current round's can serve
(`OthersNeverServe`).  That is not by the port: it is because `killall` reaches
whatever serves, and because the client cannot have come to its end without a
time (`HasMeasured`), which it has from its own round's server (`TimesAreMine`),
so that this server has executed lighttpd (`MeasuredHasStarted`) and `killall`
does not miss it.  With no files to upload the argument fails, and nothing is
written that could be wrong.

An upload that fails may or may not have stored its file, and a removal that fails
may or may not have removed one, so that `OnlyKeptFilesStay` and `ResultsComplete`
hold between the uploads for a reason that lies in the loop: `UploadsInHand`
bounds the server's files by what the client has still to do, the file in its
hands and those it could not remove, and `TimesComplete` says that the files it is
done with (`Timed`) are those with a time, whichever attempt was answered.  Requests
that are still worked on when their client has gone on could spoil the first of
these; `OwnRemovals` says that those of the running session only remove, as an upload
that gets no answer ends its session.

`KeepLearningAsNamed` and `FlushAsNamed` look at the register when a test trains
or probes.  FetchBench never reads the register back; that it is right follows from
the last request, which `ProgramInv` takes from the place in the workloads, and from
what `StateHeld` says of it.  The second test starts with what the first has
left, through a close and an open in between, hence `UndisturbedHeld`.  The
abstract `Values` may hold words that no test writes: other users write them.

`FailuresExplained` is inductive only together with the places of both scripts
(`TestPlace`, `ChildPlace`): what a check compares depends on the CPU that
`sched_getcpu()` found, on where the process may run since it was pinned, and on
the flag that the call before has set.  `PolicyKept` makes one register of these:
whoever else runs, a core's prefetchers are off exactly if a task with the flag
runs on it.

`ArchivesAsNamed` follows from which run has built the program behind a log
(`BuiltAsNamed`).  Only the first round can find an archive that this run has not
written; later ones start with none, because the rename took it away.

`NeverUnderestimates` and `OneSamplePerStamp` compare a word with the reader's last
sample: the counter alone cannot tell a new stamp from one that is a whole turn
older.  `ContextInv` says that no word in memory or in the reader's hands is older than
the sample and that one of the same clock has the same counter, through any
restart of either process, in the old memory or in a new segment.

`BootInv` follows the firmware's mark: it is gone when the first core runs, so that a
secondary core which leaves its loop has loaded what the kernel stored.

Many results are about data of any length: the sum of the recovered bits, the lines
that a script keeps, sorted lists and their medians.  The provers cannot instantiate an induction principle
whose parameter is a predicate; `SetInduction` states it with a set of naturals,
and is proved from the well-foundedness of `<` by a least element outside the
set.  A running sum or `Kept` is then a recursive function whose values satisfy an
equation at each number (`SumsExist`, `KeptExists`), and each fact about it is the
set of the numbers at which it holds.  `KeptFollows` says that whatever is kept of
a file that lost its end is the beginning of what would have been kept of the
whole, the last number excepted; `KeptBlock` that a block of lines which all
match is kept whole.  From these `DrawnAsMeasured` and `AcceptedRunWhole` follow, with
`LineFormed`: `victim-bn` reaches its repetitions with the countermeasure only
where the kernel has the patch.  `LogAssumption` keeps the two digits of the model's
times, which are what makes a cut number differ from the whole one.

`BarsShowRuns` compares the bars with the file's table, many phases after the file was
read.  `LinesRead` says what a half-read file has left in `collecting` and
`result_lines`; that the table which is stored is that of the file (`TablesRead`)
needs the form of the file, because the script takes whatever follows the start
marker, and its first line for the headers.  `NamesKnown` and `BarsDrawn` then
follow each name from a table through the dictionary to its bars, which have three
times each.  `BarsInTurn` is what makes the colours right: as long as every
benchmark has all labels, each turn adds as many bars as there are labels and starts at a
multiple of that number, so that the colours which `barh()` uses again and again
are in step with the labels.

`OrderSorts` is the lemma about sorting: `Order` yields each place once, and its
numbers ascend.  It counts: the places before a place are as many as its rank says,
two places never have the same rank, and a one-to-one map between two sets of one size is
onto (`OneToOneFills`), so that no rank is left out.  Medians follow from it:
`MiddleExists` finds in the sorted list a number with at most k below it and
more than k up to it, `OneMiddle` says that there is no second one, so that
`Sorted` and `MeasuredMedian`, which choose from different sets, choose the same.
`KeptPlaces` says that a kept list has exactly the members at the places, in their
order.

In `UploadPlot` a bucket is a list and the files are lists of lists.  `TimesOnce`
relates the two by a numbering: one place in the files for each member of the
bucket and the reverse.  Reading a file extends the numbering, relating keeps it and
changes both ends of it (`Held`), so that the order of files and of points
within them never matters; `CountedAlike` makes of the numbering the equal
counts of `FigureShowsFiles`.  What relating must not disturb is
`MediansMeasured`: the medians are those of the reference as measured, not as
replaced.  `SizesRead` says when the insertion order of the sizes ascends: if each file of the
series has the same sizes, as then the first file brings all of them, sorted.
The upper of two middle times is at least their mean, which is all that
`LinesRight` says of the reference line; the figure that shows performance turns
times upside down, so that the upper one becomes the lower.

The refinement proofs map `effective`, the flag as of a task's last finished
`prctl`, to the policy's flag; a switch takes effect when it writes the MSR, a
`prctl` when the called function returns, and every other step stutters.

### What is only model-checked

Liveness (`PrctlReturns`, `QueryReturns`, `TestEnds`, `SessionEnds`,
`ReleasedCoresBoot`): fairness and ENABLED are out of the prover's reach.
`PlainKernelImplementsPolicy` is the form that `ArmImplementsPolicy` and
`IntelImplementsPolicy` take in a run with both kinds of kernels, and
`PlainKernelProtects` that of `FlaggedTasksProtected`; the theorems state them of the
module's own `Spec`.
Conversely, the Intel patch on a preemptible kernel is model-checked on two plain
CPUs only (`intel_kernels`); that hyperthreads and stray calls together leave the mask
right and spoil no core but those that `SyncedCoreObeysFlags` excepts is covered by
`Safety`, `MaskIsAccurate` and `SyncedCoresObeyFlags`, as TLC does not finish there with three
CPUs.  The violations are counterexamples and need no proof.

## 7. What is not modelled

CPU hotplug and the boot of secondary CPUs (one step, `TopologyReady`); the high
word of the MSR, which is written back as read; loading and unloading of the
device modules; file descriptors shared by `fork`; caches, timing and the
prefetchers themselves, which the experiments measure; what lighttpd's TLS
functions and mbedTLS compute.
Of the stub, the set-up of the interrupt controller, timer and coherence
registers.  Of the scripts that draw, layout, whiskers and bins, which matplotlib
computes; the binomial distribution beside the AES histogram; the medians that
`plot_exp_openssl_time_compute.py` prints; and the count of zero bits.  The
names of files and the time in them, by which two results files of the same
round and second would collide.  The SPEC configurations have no behaviour to
check.
