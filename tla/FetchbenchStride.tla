-------------------------- MODULE FetchbenchStride --------------------------
(***************************************************************************)
(* The two tests that fetchbench_disable_behavior.patch adds to FetchBench *)
(* to find out what a stride prefetcher does while it is disabled.  Each   *)
(* runs a workload many times and then a baseline many times.  A workload  *)
(* trains the prefetcher with a few loads, makes one more load to probe    *)
(* it, and switches prefetchers by mod-ctrlpf (see CtrlPf) in between; a   *)
(* baseline does the same with calls that change nothing.  So a baseline   *)
(* runs in the state that the workload left.                               *)
(***************************************************************************)
EXTENDS CtrlPf

CONSTANTS
  Tester,         (* the process of FetchBench; other processes may use    *)
                  (* the device at any time                                *)
  Stride,         (* the disable bit of the stride prefetcher, on Intel    *)
  Reps            (* no_repetitions                                        *)

ASSUME StrideAssumption ==
  /\ Tester \in Pinned
  /\ Stride \in PfBits
  /\ Reps \in Nat \ {0}
  /\ Intel => {PfBits, PfBits \ {Stride}} \subseteq Values

VARIABLES
  work,           (* the number of the workload, 5 at the end              *)
  rep,            (* how often it has run                                  *)
  step,           (* its next step                                         *)
  handle,         (* the number of the test that last opened the device    *)
  disturbed       (* history: whether another process has called ioctl()   *)
                  (* since FetchBench was started                          *)

testVars == <<work, rep, step, handle, disturbed>>
allVars  == <<vars, testVars>>

TestInit ==
  /\ Init
  /\ work = 1
  /\ rep = 0
  /\ step = 1
  /\ handle = 0
  /\ disturbed = FALSE

-----------------------------------------------------------------------------
Disable == IF Intel THEN [op |-> "msrvalue", lo |-> PfBits] ELSE [op |-> "disable"]
Enable  == IF Intel THEN [op |-> "msrvalue", lo |-> PfBits \ {Stride}]
                    ELSE [op |-> "enable"]
Toggle  == IF Intel THEN [op |-> "toggle", lo |-> PfBits \ {Stride}]
                    ELSE [op |-> "toggle"]

Train == [op |-> "train"]
Probe == [op |-> "probe"]

\* Faulty variant: the prefetcher is enabled again before the training.
ProgramsTrainLate ==
  << <<Disable, Enable, Train, Probe>>,
     <<Dummy, Train, Dummy, Probe>>,
     <<Train, Toggle, Probe>>,
     <<Train, Dummy, Probe>> >>

\* Faulty variant: the second test comes first.
ProgramsReordered ==
  << <<Train, Toggle, Probe>>,
     <<Train, Dummy, Probe>>,
     <<Disable, Train, Enable, Probe>>,
     <<Dummy, Train, Dummy, Probe>> >>

\* workload_stride_loop_disable_keep_learning, its baseline,
\* workload_stride_loop_disable_flush, its baseline.
Programs ==
  << <<Disable, Train, Enable, Probe>>,
     <<Dummy, Train, Dummy, Probe>>,
     <<Train, Toggle, Probe>>,
     <<Train, Dummy, Probe>> >>

\* The workloads 1 and 2 belong to one test, 3 and 4 to the other.
TestOf(w) == (w + 1) \div 2

Running == at[Tester] = "open" /\ handle = TestOf(work)

Current == Programs[work][step]

-----------------------------------------------------------------------------
\* The process ends, and closes the device if it has it open.
Quit ==
  /\ work' = 5
  /\ rep' = 0
  /\ step' = 1
  /\ UNCHANGED <<handle, disturbed>>

\* The workload's next step, next repetition, or the next workload.
Advance ==
  /\ IF step < Len(Programs[work])
     THEN step' = step + 1 /\ UNCHANGED <<work, rep>>
     ELSE /\ step' = 1
          /\ rep' = (rep + 1) % Reps
          /\ work' = IF rep' = 0 THEN work + 1 ELSE work
  /\ UNCHANGED <<handle, disturbed>>

\* A test constructs its ModCtrlPfHandle.
OpenHandle ==
  /\ work # 5
  /\ at[Tester] \in {"closed", "checked"}
  /\ at[Tester] = "closed" => ctr = 0
  /\ UseFile(Tester)
  /\ handle' = TestOf(work)
  /\ UNCHANGED <<work, rep, step, disturbed>>

\* open() fails, and the constructor exits.
OpenHandleFails ==
  /\ work # 5
  /\ OpenBusy(Tester)
  /\ UNCHANGED ctrlVars
  /\ Quit

\* The destructor, or the end of the process, closes it.
CloseHandle ==
  /\ at[Tester] \in {"open", "closing"}
  /\ handle # TestOf(work)
  /\ UseFile(Tester)
  /\ UNCHANGED testVars

\* Loads that train or probe the prefetcher.
Access ==
  /\ Running
  /\ Current \in {Train, Probe}
  /\ Advance
  /\ UNCHANGED vars

\* The ioctls, whose results are ignored.
Control ==
  /\ Running
  /\ Current \notin {Train, Probe}
  /\ Ioctl(Tester, Current)
  /\ UNCHANGED testVars

ControlStep ==
  /\ at[Tester] = "ioctl"
  /\ Execute(Tester)
  /\ UNCHANGED testVars

ControlEnd == IoctlEnd(Tester) /\ Advance

\* A signal ends the process.
Kill == Running /\ Quit /\ UNCHANGED vars

\* FetchBench is started again.
Restart ==
  /\ work = 5
  /\ at[Tester] = "closed"
  /\ work' = 1
  /\ disturbed' = \E p \in Procs \ {Tester} : at[p] = "ioctl"
  /\ UNCHANGED <<vars, rep, step, handle>>

\* A step of another process, by which it may start an ioctl.
Other(p) ==
  /\ AnyStep(p)
  /\ disturbed' = (disturbed \/ at'[p] = "ioctl")
  /\ UNCHANGED <<work, rep, step, handle>>

TestNext ==
  \/ OpenHandle
  \/ OpenHandleFails
  \/ CloseHandle
  \/ Access
  \/ Control
  \/ ControlStep
  \/ ControlEnd
  \/ Kill
  \/ Restart
  \/ \E p \in Procs \ {Tester} : Other(p)

TestSpec == TestInit /\ [][TestNext]_allVars

-----------------------------------------------------------------------------
(* Properties.                                                             *)

Disabled == reg[cpu[Tester]] \cap PfBits

\* The stride prefetcher works; on Intel it is the only one that does.
StrideWorks == IF Intel THEN PfBits \ {Stride} ELSE {}

(***************************************************************************)
(* "Test to determine whether the prefetcher keeps learning while          *)
(* disabled": the workload trains with all prefetchers disabled and probes *)
(* with the stride prefetcher enabled, and its baseline does both with the *)
(* same prefetchers enabled as that probe, whatever other users of the     *)
(* device do between the loads, as long as no calls of device_open() race. *)
(***************************************************************************)
KeepLearningAsNamed ==
  ~raced /\ Running /\ work \in {1, 2} /\ Current \in {Train, Probe} =>
    Disabled = IF work = 1 /\ Current = Train THEN PfBits ELSE StrideWorks

(***************************************************************************)
(* "Test to determine whether the prefetcher flushes its state when        *)
(* disabled and re-enabled": all loads, of the baseline too, are made with *)
(* the stride prefetcher enabled.  The first training does not select a    *)
(* state itself but takes the one that the other test left, so that must   *)
(* not be disturbed; after the first toggle, other processes do not matter *)
(* as long as no calls of device_open() race.                              *)
(***************************************************************************)
FlushAsNamed ==
  /\ Running /\ work \in {3, 4} /\ Current \in {Train, Probe}
  /\ ~disturbed \/ (~raced /\ last[Tester] # NoRequest)
  => Disabled = StrideWorks

-----------------------------------------------------------------------------
(* The inductive forms.                                                    *)

\* The current test has the device open.
Inside == at[Tester] \in {"open", "ioctl"} /\ handle = TestOf(work)

\* What FetchBench may have asked for last when it comes to the current step.
LastRequests ==
  CASE work = 1 /\ step = 1          -> {NoRequest, Enable}
    [] work = 1 /\ step \in {2, 3}   -> {Disable}
    [] work = 1 /\ step = 4          -> {Enable}
    [] work = 2                      -> {Enable}
    [] work = 3 /\ step \in {1, 2}   -> {NoRequest, Toggle}
    [] OTHER                         -> {Toggle}

\* Only the first step of a test finds the device closed, an ioctl belongs to
\* the current step, and the last request is the one the workloads made.
ProgramInv ==
  /\ at \in [Procs -> {"closed", "checked", "open", "ioctl", "closing"}]
  /\ DOMAIN last = Procs
  /\ work \in 1..5
  /\ step \in 1..(IF work \in {1, 2} THEN 4 ELSE IF work \in {3, 4} THEN 3 ELSE 1)
  /\ handle \in 0..2
  /\ step > 1 \/ work \in {2, 4} => Inside
  /\ at[Tester] \in {"closed", "checked"} => last[Tester] = NoRequest
  /\ Inside /\ at[Tester] = "open" => last[Tester] \in LastRequests
  /\ at[Tester] = "ioctl" =>
       /\ Inside
       /\ Current \notin {Train, Probe}
       /\ last[Tester] \in IF Current = Dummy THEN LastRequests ELSE {Current}

\* Undisturbed, the register is as FetchBench's requests left it: from the second
\* workload on, through the closing and opening between the tests, it lets the
\* stride prefetcher work.
UndisturbedHeld ==
  ~disturbed =>
    /\ \A p \in Procs \ {Tester} : at[p] # "ioctl"
    /\ work \in {2, 3, 4} => Outcome(Tester) = StrideWorks
    /\ Inside /\ work = 1 /\ last[Tester] # NoRequest =>
         Outcome(Tester) = Result(last[Tester])
=============================================================================
