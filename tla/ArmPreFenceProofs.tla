------------------------- MODULE ArmPreFenceProofs -------------------------
(***************************************************************************)
(* Proofs about the ARM patch for every set of CPUs and tasks, on          *)
(* preemptible and other kernels.                                          *)
(***************************************************************************)
EXTENDS ArmPreFence, KernelTasksProofs

USE ArmAssumption DEF AllTasks

\* A step of the patched ARM kernel is a step of the kernel.
LEMMA StepIsKernelStep == [Next]_vars => [KernelNext]_kernelVars
  BY DEF Next, vars, KernelNext, FinishHandler

\* The register is written by the end of a handler only.
LEMMA StepType ==
  ASSUME TypeOK, TaskPlacement, [Next]_vars
  PROVE  TypeOK'
<1>1. KernelTypeOK'
  BY StepIsKernelStep, KernelStepType DEF TypeOK
<1>2. (reg \in [Cpus -> SUBSET RegBits] /\ stray \in SUBSET Cpus)'
  BY DEF TypeOK, Next, vars, armVars, FinishHandler, WriteRegister
<1> QED
  BY <1>1, <1>2 DEF TypeOK

\* Types and the placement of tasks hold in every reachable state.
LEMMA Placement == Spec => [](TypeOK /\ TaskPlacement)
<1>1. Init => TypeOK /\ TaskPlacement
  BY KernelInitType DEF Init, TypeOK
<1>2. TypeOK /\ TaskPlacement /\ [Next]_vars => (TypeOK /\ TaskPlacement)'
  BY StepType, StepIsKernelStep, KernelStepPlacement DEF TypeOK
<1> QED
  BY <1>1, <1>2, PTL DEF Spec

\* Each step keeps the registers in line with the flags.
LEMMA StepRegister ==
  ASSUME TypeOK, TaskPlacement, RegisterFollowsFlag, [Next]_vars
  PROVE  RegisterFollowsFlag'
<1> USE KernelAssumption
    DEF TypeOK, KernelTypeOK, TaskPlacement, OnNamedCpu, CallerStays, CallAnswered,
        RegisterFollowsFlag, Switching, InHandler,
        taskVars, schedVars, syscallVars, handlerVars, armVars
<1>1. CASE TaskStep /\ UNCHANGED armVars
  BY <1>1 DEF TaskStep, StoreFlag, EvaluateCpu, SendCall, Fork, Exit, InUserMode,
              Executes, OnCpu
<1>2. ASSUME NEW c \in Cpus, NEW next \in AllTasks, BeginSwitch(c, next), UNCHANGED armVars
      PROVE  RegisterFollowsFlag'
  BY <1>2 DEF BeginSwitch
<1>3. ASSUME NEW t \in Tasks, NEW c \in Cpus, BeginCall(t, c), UNCHANGED armVars
      PROVE  RegisterFollowsFlag'
  BY <1>3 DEF BeginCall
<1>4. ASSUME NEW c \in Cpus, FinishHandler(c)
      PROVE  RegisterFollowsFlag'
  <2>1. \A d \in Cpus : d # c => reg'[d] = reg[d]
    BY <1>4 DEF FinishHandler, WriteRegister
  <2>2. reg'[c] \cap PfBits = IF flag[subject[c]] THEN PfBits ELSE {}
    BY <1>4 DEF FinishHandler, WriteRegister
  <2>3. CASE kind[c] = "switch"
    BY <1>4, <2>1, <2>2, <2>3 DEF FinishHandler, HandledCpu, EndHandler
  <2>4. CASE kind[c] # "switch"
    BY <1>4, <2>1, <2>2, <2>4 DEF FinishHandler, HandledCpu, EndHandler
  <2> QED
    BY <2>3, <2>4
<1>5. CASE UNCHANGED vars
  BY <1>5 DEF vars, kernelVars
<1> QED
  BY <1>1, <1>2, <1>3, <1>4, <1>5 DEF Next

\* Unless a call was stray, a task that executes user code finds the
\* prefetchers of its CPU as its flag says.
THEOREM RegistersObeyFlags == Spec => []RegisterObeysFlag
<1>1. Init => RegisterFollowsFlag
  BY KernelAssumption DEF Init, KernelInit, RegisterFollowsFlag
<1>2. TypeOK /\ TaskPlacement /\ RegisterFollowsFlag /\ [Next]_vars => RegisterFollowsFlag'
  BY StepRegister
<1>3. RegisterFollowsFlag => RegisterObeysFlag
  BY DEF RegisterFollowsFlag, RegisterObeysFlag, InUserMode, Executes
<1> QED
  BY <1>1, <1>2, <1>3, Placement, PTL DEF Spec

\* Without preemption of system calls, no call is ever stray.
LEMMA NoStrayCalls ==
  ASSUME ~Preemptible
  PROVE  Spec => []CallsFindTheirTask
<1>1. Init => CallsFindTheirTask
  BY DEF Init, KernelInit, CallsFindTheirTask
<1>2. ASSUME TypeOK, TaskPlacement, CallsFindTheirTask, [Next]_vars
      PROVE  CallsFindTheirTask'
  <2> USE <1>2, KernelAssumption
      DEF TypeOK, KernelTypeOK, TaskPlacement, CallerStays, CallAnswered,
          CallsFindTheirTask, InHandler, taskVars, schedVars, syscallVars,
          handlerVars, armVars
  <2>1. CASE TaskStep /\ UNCHANGED armVars
    BY <2>1 DEF TaskStep, StoreFlag, EvaluateCpu, SendCall, Fork, Exit
  <2>2. ASSUME NEW c \in Cpus, NEW next \in AllTasks, BeginSwitch(c, next), UNCHANGED armVars
        PROVE  CallsFindTheirTask'
    BY <2>2 DEF BeginSwitch, OnCpu
  <2>3. ASSUME NEW t \in Tasks, NEW c \in Cpus, BeginCall(t, c), UNCHANGED armVars
        PROVE  CallsFindTheirTask'
    BY <2>3 DEF BeginCall
  <2>4. ASSUME NEW c \in Cpus, FinishHandler(c)
        PROVE  CallsFindTheirTask'
    BY <2>4 DEF FinishHandler, HandledCpu, EndHandler
  <2>5. CASE UNCHANGED vars
    BY <2>5 DEF vars, kernelVars
  <2> QED
    BY <2>1, <2>2, <2>3, <2>4, <2>5 DEF Next
<1> QED
  BY <1>1, <1>2, Placement, PTL DEF Spec

\* So a flagged task never executes user code with a prefetcher enabled.
THEOREM FlaggedTasksProtected ==
  ASSUME ~Preemptible
  PROVE  Spec => []FlaggedRunsProtected
<1>1. CallsFindTheirTask /\ RegisterObeysFlag => FlaggedRunsProtected
  BY DEF CallsFindTheirTask, RegisterObeysFlag, FlaggedRunsProtected
<1> QED
  BY <1>1, NoStrayCalls, RegistersObeyFlags, PTL

\* Handlers change no bit of the register but the four prefetcher bits.
THEOREM OtherBitsKept == Spec => KeepsOtherBits
<1>1. TypeOK /\ [Next]_vars => \A c \in Cpus : reg'[c] \ PfBits = reg[c] \ PfBits
  BY DEF TypeOK, Next, vars, armVars, FinishHandler, WriteRegister
<1> QED
  BY <1>1, Placement, PTL DEF Spec, KeepsOtherBits

-----------------------------------------------------------------------------
(* Refinement of the policy.                                               *)

\* Each step keeps the flags of tasks outside prctl effective.
LEMMA StepEffective ==
  ASSUME TypeOK, TaskPlacement, FlagsEffective, [Next]_vars
  PROVE  FlagsEffective'
<1> USE KernelAssumption
    DEF TypeOK, KernelTypeOK, TaskPlacement, FlagsEffective, InHandler,
        taskVars, schedVars, syscallVars, handlerVars, kernelVars, armVars
<1>1. CASE TaskStep /\ UNCHANGED armVars
  BY <1>1 DEF TaskStep, StoreFlag, EvaluateCpu, SendCall, Fork, Exit, InUserMode
<1>2. ASSUME NEW c \in Cpus, NEW next \in AllTasks, BeginSwitch(c, next)
      PROVE  FlagsEffective'
  BY <1>2 DEF BeginSwitch
<1>3. ASSUME NEW t \in Tasks, NEW c \in Cpus, BeginCall(t, c)
      PROVE  FlagsEffective'
  BY <1>3 DEF BeginCall
<1>4. ASSUME NEW c \in Cpus, FinishHandler(c)
      PROVE  FlagsEffective'
  <2>1. CASE kind[c] = "switch"
    BY <1>4, <2>1 DEF FinishHandler, EndHandler
  <2>2. CASE kind[c] # "switch"
    <3>1. subject[c] \in Tasks /\ subject[c] # Idle
      BY <1>4, <2>2 DEF FinishHandler, CallAnswered
    <3> QED
      BY <1>4, <2>2, <3>1 DEF FinishHandler, EndHandler
  <2> QED
    BY <2>1, <2>2
<1>5. CASE UNCHANGED vars
  BY <1>5 DEF vars
<1> QED
  BY <1>1, <1>2, <1>3, <1>4, <1>5 DEF Next

\* The end of a handler is a step of the policy.
LEMMA FinishIsPolicyStep ==
  ASSUME ~Preemptible, TypeOK, TaskPlacement, CallsFindTheirTask, FlagsEffective,
         NEW c \in Cpus, FinishHandler(c)
  PROVE  Policy!Next
<1> DEFINE disabled == [d \in Cpus |-> reg[d] \cap PfBits]
           CoreMap == [d \in Cpus |-> d]
<1>1. disabled' = [disabled EXCEPT ![c] = IF flag[subject[c]] THEN PfBits ELSE {}]
  <2>1. \A d \in Cpus : reg'[d] \cap PfBits
          = IF d = c THEN (IF flag[subject[c]] THEN PfBits ELSE {}) ELSE reg[d] \cap PfBits
    BY DEF FinishHandler, WriteRegister, TypeOK
  <2> QED
    BY <2>1
<1>2. CASE kind[c] = "switch"
  <2>1. running' = [running EXCEPT ![c] = subject[c]] /\ UNCHANGED effective
    BY <1>2 DEF FinishHandler, EndHandler
  <2>2. Switching(c)
    BY <1>2 DEF FinishHandler, Switching
  <2>3. subject[c] = Idle \/ \A d \in Cpus : running[d] # subject[c]
    BY <2>2 DEF TaskPlacement, OnNamedCpu, TypeOK, KernelTypeOK
  <2>4. effective[subject[c]] = flag[subject[c]]
    <3>1. CASE subject[c] = Idle
      BY <3>1 DEF FlagsEffective, TaskPlacement, TypeOK, KernelTypeOK
    <3>2. CASE subject[c] # Idle
      <4>1. subject[c] \in Tasks /\ taskCpu[subject[c]] \in Cpus
        BY <3>2 DEF TypeOK, KernelTypeOK, AllTasks
      <4>2. sys[subject[c]] = "user"
        BY <2>3, <3>2, <4>1 DEF TaskPlacement, CallerStays, TypeOK, KernelTypeOK
      <4> QED
        BY <4>1, <4>2 DEF FlagsEffective
    <3> QED
      BY <3>1, <3>2
  <2>5. (\E d \in Cpus : CoreMap[d] = CoreMap[c] /\ effective'[running'[d]]) <=> flag[subject[c]]
    BY <2>1, <2>4 DEF TypeOK, KernelTypeOK
  <2>6. Policy!Switch(c, subject[c])
    BY <1>1, <2>1, <2>3, <2>5 DEF Policy!Switch, Policy!Adjust, Policy!Demand
  <2> QED
    BY <2>6, subject[c] \in Tasks \cup {Idle} DEF Policy!Next, Policy!Switch, Policy!Adjust, Policy!Demand, TypeOK, KernelTypeOK, AllTasks
<1>3. CASE kind[c] # "switch"
  <2>1. effective' = [effective EXCEPT ![subject[c]] = flag[subject[c]]] /\ UNCHANGED running
    BY <1>3 DEF FinishHandler, EndHandler
  <2>2. subject[c] \in Tasks /\ sys[subject[c]] = "called" /\ callCpu[subject[c]] = c
    BY <1>3 DEF FinishHandler, TaskPlacement, CallAnswered, TypeOK, KernelTypeOK
  <2>3. running[c] = subject[c] /\ flag[subject[c]] \in BOOLEAN
    BY <2>2 DEF CallsFindTheirTask, TaskPlacement, CallerStays, TypeOK, KernelTypeOK
  <2>4. (\E d \in Cpus : CoreMap[d] = CoreMap[c] /\ effective'[running'[d]]) <=> flag[subject[c]]
    BY <2>1, <2>2, <2>3 DEF TypeOK, KernelTypeOK
  <2>5. Policy!SetFlag(c, flag[subject[c]])
    BY <1>1, <2>1, <2>2, <2>3, <2>4 DEF Policy!SetFlag, Policy!Adjust, Policy!Demand
  <2> QED
    BY <2>3, <2>5 DEF Policy!Next, Policy!SetFlag, Policy!Adjust, Policy!Demand
<1> QED
  BY <1>2, <1>3

\* The ARM patch implements the policy on a kernel that does not preempt
\* system calls, with each CPU as a core.
THEOREM ArmImplementsPolicy ==
  ASSUME ~Preemptible
  PROVE  Spec => ImplementsPolicy
<1>1. Init => Policy!Init /\ FlagsEffective
  BY DEF Init, KernelInit, Policy!Init, FlagsEffective
<1>2. TypeOK /\ TaskPlacement /\ FlagsEffective /\ [Next]_vars => FlagsEffective'
  BY StepEffective
<1>3. ASSUME TypeOK, TaskPlacement, CallsFindTheirTask, FlagsEffective, [Next]_vars
      PROVE  [Policy!Next]_(Policy!vars)
  <2> USE <1>3 DEF Policy!vars
  <2>1. CASE UNCHANGED <<effective, running, reg>>
    BY <2>1
  <2>2. ASSUME NEW t \in Tasks, NEW c \in Cpus, NEW child \in Tasks, Fork(t, c, child),
               UNCHANGED armVars
        PROVE  [Policy!Next]_(Policy!vars)
    <3>1. Policy!Fork(c, child)
      BY <2>2 DEF Fork, InUserMode, Executes, OnCpu, FlagsEffective, schedVars, armVars,
                  Policy!Fork
    <3> QED
      BY <3>1 DEF Policy!Next
  <2>3. ASSUME NEW c \in Cpus, FinishHandler(c)
        PROVE  [Policy!Next]_(Policy!vars)
    BY <2>3, FinishIsPolicyStep
  <2> QED
    BY <2>1, <2>2, <2>3
       DEF Next, vars, kernelVars, taskVars, schedVars, armVars, TaskStep, StoreFlag,
           EvaluateCpu, SendCall, Exit, BeginSwitch, BeginCall
<1> QED
  BY <1>1, <1>2, <1>3, Placement, NoStrayCalls, PTL DEF Spec, ImplementsPolicy, Policy!Spec
=============================================================================
