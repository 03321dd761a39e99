--------------------------- MODULE UserspaceTest ---------------------------
(***************************************************************************)
(* The program kernel_patch/userspace-test on a kernel that keeps the      *)
(* policy of PrefetchPolicy.  It pins itself to a CPU, sets its flag,      *)
(* forks, migrates, and clears its flag; after each of these it compares   *)
(* the flag that prctl returns, and the whole MSR 0x1A4 of the CPU that    *)
(* sched_getcpu() named, with what it expects.  It exits at the first      *)
(* difference.  Other tasks share the machine and use the flag as well.    *)
(***************************************************************************)
EXTENDS PrefetchPolicy, Integers, Sequences

CONSTANTS
  Test, Child,       (* the test's two processes; other tasks are rivals    *)
  CpuInitial, CpuMigration,
  OtherBits          (* bits of the MSR that are no prefetcher's            *)

ASSUME TestAssumption ==
  /\ {Test, Child} \subseteq Tasks
  /\ Test # Child
  /\ Idle \notin Tasks
  /\ {CpuInitial, CpuMigration} \subseteq Cpus
  /\ CoreOf \in [Cpus -> Cores]

VARIABLES
  at,            (* per process, its position in its script                  *)
  cpu,           (* per process, what sched_getcpu() returned last           *)
  affinity,      (* per process, the CPUs it may run on                      *)
  outcome,       (* "none" before fork, "running", "passed", "failed", "killed" *)
  online,        (* the CPUs that are online                                 *)
  otherBits,     (* the other bits that the firmware has set                 *)
  (* History variables:                                                      *)
  observed,      (* <<process, core, word>> of the comparisons that held     *)
  company        (* whether, at a process's last pread, a sibling CPU ran a  *)
                 (* task with the flag                                       *)

testVars    == <<at, cpu, affinity, outcome>>
machineVars == <<online, otherBits>>
histVars    == <<observed, company>>
allVars     == <<vars, testVars, machineVars, histVars>>

Processes == {Test, Child}
Rivals == Tasks \ Processes

-----------------------------------------------------------------------------
(* main(), as the sequence of its calls.                                   *)

Op(name, arg) == <<[op |-> name, arg |-> arg]>>

\* assert_pf(expected): sched_getcpu(), then pread() from that CPU's MSR file.
AssertPf(expected) == Op("getcpu", {}) \o Op("pread", expected)

\* The child of TRY_FORK.
ChildScript == Op("get", TRUE) \o AssertPf(PfBits)

TestScript ==
  Op("pin", CpuInitial) \o Op("get", FALSE) \o AssertPf({})
  \o Op("set", TRUE)    \o Op("get", TRUE)  \o AssertPf(PfBits)
  \o Op("fork", {})     \o Op("wait", {})
  \o Op("pin", CpuMigration)                \o AssertPf(PfBits)
  \o Op("set", FALSE)   \o Op("get", FALSE) \o AssertPf({})

Script(p) == IF p = Test THEN TestScript ELSE ChildScript
Call(p)   == Script(p)[at[p]]

\* The program starts wherever it is placed, with the flag of its parent.
TestInit ==
  /\ flag \in [Tasks \cup {Idle} -> BOOLEAN]
  /\ ~flag[Idle] /\ ~flag[Child]
  /\ running = [c \in Cpus |-> Idle]
  /\ disabled = [k \in Cores |-> {}]
  /\ booted = TRUE
  /\ at = [p \in Processes |-> 1]
  /\ cpu = [p \in Processes |-> CpuInitial]
  /\ outcome = [p \in Processes |-> IF p = Test THEN "running" ELSE "none"]
  /\ online \in {cs \in SUBSET Cpus : CpuInitial \in cs}
  /\ affinity = [p \in Processes |-> online]
  /\ otherBits \in SUBSET OtherBits
  /\ observed = {}
  /\ company = [p \in Processes |-> FALSE]

-----------------------------------------------------------------------------
(* The scheduler.                                                          *)

MayRun(t, c) ==
  t \in Processes => outcome[t] = "running" /\ c \in affinity[t]

Schedule(c, t) ==
  /\ c \in online
  /\ MayRun(t, c)
  /\ Switch(c, t)
  /\ UNCHANGED <<testVars, machineVars, histVars>>

\* A CPU does not keep a process that may no longer run there.
MoveAway(c) == ~MayRun(running[c], c) /\ Schedule(c, Idle)

-----------------------------------------------------------------------------
(* The calls.                                                              *)

\* Process p executes a call of the given name on CPU c.
Calls(p, c, name) ==
  /\ running[c] = p
  /\ MayRun(p, c)
  /\ Call(p).op = name

\* p goes on with its script, or returns EXIT_SUCCESS at its end.
Advance(p) ==
  IF at[p] < Len(Script(p))
  THEN /\ at' = [at EXCEPT ![p] = @ + 1]
       /\ UNCHANGED outcome
  ELSE /\ outcome' = [outcome EXCEPT ![p] = "passed"]
       /\ UNCHANGED at

\* p goes on if what it expects holds, and otherwise exits with EXIT_FAILURE.
Expect(p, holds) ==
  \/ holds /\ Advance(p)
  \/ ~holds /\ outcome' = [outcome EXCEPT ![p] = "failed"] /\ UNCHANGED at

\* Faulty variants: the CPU is not checked; the affinity is not changed.
PinUnchecked(p, c) ==
  /\ Calls(p, c, "pin")
  /\ affinity' = [affinity EXCEPT ![p] = {Call(p).arg}]
  /\ Advance(p)
  /\ UNCHANGED <<vars, cpu, machineVars, histVars>>
PinNothing(p, c) ==
  /\ Calls(p, c, "pin")
  /\ Advance(p)
  /\ UNCHANGED <<vars, cpu, affinity, machineVars, histVars>>

\* pin_process_to_cpu(): main() ignores the error for a CPU that is not there.
Pin(p, c) ==
  /\ Calls(p, c, "pin")
  /\ affinity' = IF Call(p).arg \in online
                 THEN [affinity EXCEPT ![p] = {Call(p).arg}]
                 ELSE affinity
  /\ Advance(p)
  /\ UNCHANGED <<vars, cpu, machineVars, histVars>>

\* assert_flag()
GetFlag(p, c) ==
  /\ Calls(p, c, "get")
  /\ Expect(p, flag[p] = Call(p).arg)
  /\ UNCHANGED <<vars, cpu, affinity, machineVars, histVars>>

\* set_flag()
SetOwnFlag(p, c) ==
  /\ Calls(p, c, "set")
  /\ SetFlag(c, Call(p).arg)
  /\ Advance(p)
  /\ UNCHANGED <<cpu, affinity, machineVars, histVars>>

SchedGetcpu(p, c) ==
  /\ Calls(p, c, "getcpu")
  /\ cpu' = [cpu EXCEPT ![p] = c]
  /\ Advance(p)
  /\ UNCHANGED <<vars, affinity, machineVars, histVars>>

Word(k) == disabled[k] \cup otherBits

\* Another CPU of CPU c's core runs a task with the flag.
InCompany(c) ==
  \E d \in Cpus \ {c} : CoreOf[d] = CoreOf[c] /\ flag[running[d]]

\* rdmsr() reads the MSR of the CPU that sched_getcpu() named before, and
\* assert_pf() compares all of it.
Pread(p, c) ==
  /\ Calls(p, c, "pread")
  /\ LET k == CoreOf[cpu[p]] IN
       /\ Expect(p, Word(k) = Call(p).arg)
       /\ observed' = IF Word(k) = Call(p).arg
                      THEN observed \cup {<<p, k, Word(k)>>}
                      ELSE observed
       /\ company' = [company EXCEPT ![p] = InCompany(cpu[p])]
  /\ UNCHANGED <<vars, cpu, affinity, machineVars>>

ForkChild(c) ==
  /\ Calls(Test, c, "fork")
  /\ Fork(c, Child)
  /\ at' = [at EXCEPT ![Test] = @ + 1]
  /\ outcome' = [outcome EXCEPT ![Child] = "running"]
  /\ affinity' = [affinity EXCEPT ![Child] = affinity[Test]]
  /\ UNCHANGED <<cpu, machineVars, histVars>>

\* fork() returns -1: the test exits with EXIT_FAILURE.
ForkFails(c) ==
  /\ Calls(Test, c, "fork")
  /\ Expect(Test, FALSE)
  /\ UNCHANGED <<vars, cpu, affinity, machineVars, histVars>>

\* Faulty variants: the test does not wait; it waits for an exit only.
WaitForNobody(c) ==
  /\ Calls(Test, c, "wait")
  /\ Expect(Test, outcome[Child] # "failed")
  /\ UNCHANGED <<vars, cpu, affinity, machineVars, histVars>>
WaitForExit(c) ==
  /\ Calls(Test, c, "wait")
  /\ outcome[Child] \in {"passed", "failed"}
  /\ Expect(Test, outcome[Child] # "failed")
  /\ UNCHANGED <<vars, cpu, affinity, machineVars, histVars>>

\* waitpid(): WEXITSTATUS is zero also for a child that a signal has killed.
WaitChild(c) ==
  /\ Calls(Test, c, "wait")
  /\ outcome[Child] # "running"
  /\ Expect(Test, outcome[Child] # "failed")
  /\ UNCHANGED <<vars, cpu, affinity, machineVars, histVars>>

ProgramStep(p) ==
  \E c \in Cpus :
    \/ Pin(p, c) \/ GetFlag(p, c) \/ SetOwnFlag(p, c)
    \/ SchedGetcpu(p, c) \/ Pread(p, c)
    \/ p = Test /\ (ForkChild(c) \/ ForkFails(c) \/ WaitChild(c))

\* A signal ends the child.
KillChild ==
  /\ outcome[Child] = "running"
  /\ outcome' = [outcome EXCEPT ![Child] = "killed"]
  /\ UNCHANGED <<vars, at, cpu, affinity, machineVars, histVars>>

RivalStep(c, value) ==
  /\ running[c] \in Rivals
  /\ SetFlag(c, value)
  /\ UNCHANGED <<testVars, machineVars, histVars>>

TestNext ==
  \/ \E c \in Cpus, t \in Tasks \cup {Idle} : Schedule(c, t)
  \/ \E p \in Processes : ProgramStep(p)
  \/ KillChild
  \/ \E c \in Cpus, value \in BOOLEAN : RivalStep(c, value)

TestSpec == TestInit /\ [][TestNext]_allVars

(***************************************************************************)
(* The scheduler takes processes off CPUs they may not use, runs each of   *)
(* the two again and again, and lets it make its next call sooner or later.*)
(***************************************************************************)
TestFairness ==
  /\ WF_allVars(\E c \in Cpus : MoveAway(c))
  /\ \A p \in Processes :
       SF_allVars(\E c \in Cpus : Schedule(c, p)) /\ SF_allVars(ProgramStep(p))

FairTestSpec == TestSpec /\ TestFairness

-----------------------------------------------------------------------------
(* Properties.                                                             *)

TypeOK ==
  /\ flag \in [Tasks \cup {Idle} -> BOOLEAN]
  /\ running \in [Cpus -> Tasks \cup {Idle}]
  /\ disabled \in [Cores -> SUBSET PfBits]
  /\ at \in [Processes -> 1..Len(TestScript)]
  /\ cpu \in [Processes -> Cpus]
  /\ affinity \in [Processes -> SUBSET online]
  /\ outcome \in [Processes -> {"none", "running", "passed", "failed", "killed"}]
  /\ observed \subseteq Processes \X Cores \X SUBSET (PfBits \cup OtherBits)
  /\ company \in [Processes -> BOOLEAN]

(***************************************************************************)
(* No false alarm on a correct kernel: apart from fork() itself, the test  *)
(* fails for three causes only.  It was started with the flag, or the      *)
(* firmware has set another bit of the MSR, or a task with the flag ran on *)
(* a hyperthread of its core when it expected the prefetchers to be on.    *)
(* However the test is scheduled, no other comparison fails, and the       *)
(* child's never do.                                                       *)
(***************************************************************************)
FailuresExplained ==
  /\ outcome[Child] # "failed"
  /\ outcome[Test] = "failed" =>
       \/ Call(Test).op = "fork"
       \/ Call(Test).op = "get" /\ at[Test] = 2 /\ flag[Test]
       \/ Call(Test).op = "pread" /\ otherBits # {}
       \/ Call(Test) = [op |-> "pread", arg |-> {}] /\ company[Test]

(***************************************************************************)
(* A test that passes has seen what its README lists: prefetchers on and   *)
(* off on the first core, off in the child unless the child was killed,    *)
(* and off and on again on the second core unless its CPU is offline.      *)
(***************************************************************************)
PassMeansVerified ==
  LET from == CoreOf[CpuInitial]
      to   == IF CpuMigration \in online THEN CoreOf[CpuMigration] ELSE from
  IN outcome[Test] = "passed" =>
       /\ {<<Test, from, {}>>, <<Test, from, PfBits>>} \subseteq observed
       /\ {<<Test, to, PfBits>>, <<Test, to, {}>>} \subseteq observed
       /\ <<Child, from, PfBits>> \in observed \/ outcome[Child] = "killed"

(***************************************************************************)
(* The test always ends, also if its child is killed or it migrates.       *)
(***************************************************************************)
TestEnds == outcome[Test] = "running" ~> outcome[Test] \in {"passed", "failed"}

-----------------------------------------------------------------------------
(* The inductive forms.                                                    *)

Flagged(k) == \E c \in Cpus : CoreOf[c] = k /\ flag[running[c]]

\* The policy, in each state: a task runs on one CPU only, and the prefetchers
\* of a core are off exactly when it runs a task with the flag.
PolicyKept ==
  /\ booted
  /\ ~flag[Idle]
  /\ \A c, d \in Cpus : running[c] = running[d] /\ running[c] # Idle => c = d
  /\ disabled = [k \in Cores |-> IF Flagged(k) THEN PfBits ELSE {}]

\* Where the test is after its migration.
Target == IF CpuMigration \in online THEN CpuMigration ELSE CpuInitial

\* By the test's position: where it runs, what it expects, what it has seen.
TestPlace ==
  LET a == at[Test] IN
  /\ a \in 2..11 => affinity[Test] = {CpuInitial}
  /\ a \in 12..17 => affinity[Test] = {Target}
  /\ a \in {4, 8} => cpu[Test] = CpuInitial
  /\ a \in {13, 17} => cpu[Test] = Target
  /\ a \in {3, 4, 5, 15, 16, 17} => ~flag[Test]
  /\ a \in 6..14 => flag[Test]
  /\ a \in 5..17 => otherBits = {} /\ <<Test, CoreOf[CpuInitial], {}>> \in observed
  /\ a \in 9..17 => <<Test, CoreOf[CpuInitial], PfBits>> \in observed
  /\ a \in 14..17 => <<Test, CoreOf[Target], PfBits>> \in observed
  /\ outcome[Test] \in {"running", "passed", "failed"}
  /\ outcome[Test] = "passed" => a = 17 /\ <<Test, CoreOf[Target], {}>> \in observed

\* The child exists from fork() on, on the first CPU and with the flag, and the
\* test goes on when it has ended.
ChildPlace ==
  /\ at[Child] \in 1..3
  /\ outcome[Child] = "none" <=> at[Test] \in 1..9
  /\ outcome[Child] # "none" => flag[Child] /\ affinity[Child] = {CpuInitial}
  /\ at[Child] = 3 => cpu[Child] = CpuInitial
  /\ outcome[Child] = "passed" => <<Child, CoreOf[CpuInitial], PfBits>> \in observed
  /\ at[Test] \in 11..17 => outcome[Child] \in {"passed", "killed"}

ScriptInv ==
  /\ TypeOK
  /\ CpuInitial \in online /\ online \subseteq Cpus /\ otherBits \subseteq OtherBits
  /\ TestPlace
  /\ ChildPlace
  /\ FailuresExplained
==============================================================================
