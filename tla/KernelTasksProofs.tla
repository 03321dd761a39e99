------------------------- MODULE KernelTasksProofs -------------------------
(***************************************************************************)
(* What every step of a patched kernel preserves, whatever the handlers do *)
(* to the hardware.  The proofs about the Intel and the ARM patch build on *)
(* these lemmas.                                                           *)
(***************************************************************************)
EXTENDS KernelTasks, TLAPS

USE DEF AllTasks

\* The initial state is well typed.
LEMMA KernelInitType == KernelInit => KernelTypeOK /\ TaskPlacement
  BY KernelAssumption
     DEF KernelInit, KernelTypeOK, TaskPlacement, OnNamedCpu, CallerStays,
         CallAnswered, Switching, InHandler

\* Each step keeps the types.
LEMMA KernelStepType ==
  ASSUME KernelTypeOK, TaskPlacement, [KernelNext]_kernelVars
  PROVE  KernelTypeOK'
<1> USE KernelAssumption DEF KernelTypeOK, taskVars, schedVars, syscallVars, handlerVars
<1>1. ASSUME NEW t \in Tasks, NEW c \in Cpus, NEW arg2 \in Arg2, StoreFlag(t, c, arg2)
      PROVE  KernelTypeOK'
  BY <1>1 DEF StoreFlag
<1>2. ASSUME NEW t \in Tasks, NEW c \in Cpus, EvaluateCpu(t, c)
      PROVE  KernelTypeOK'
  BY <1>2 DEF EvaluateCpu
<1>3. ASSUME NEW t \in Tasks, NEW c \in Cpus, SendCall(t, c)
      PROVE  KernelTypeOK'
  BY <1>3 DEF SendCall
<1>4. ASSUME NEW t \in Tasks, NEW c \in Cpus, NEW child \in Tasks, Fork(t, c, child)
      PROVE  KernelTypeOK'
  BY <1>4 DEF Fork
<1>5. ASSUME NEW t \in Tasks, NEW c \in Cpus, Exit(t, c)
      PROVE  KernelTypeOK'
  BY <1>5 DEF Exit
<1>6. ASSUME NEW c \in Cpus, NEW next \in AllTasks, BeginSwitch(c, next)
      PROVE  KernelTypeOK'
  <2>1. next \in Tasks => taskCpu' = [taskCpu EXCEPT ![next] = c]
    BY <1>6 DEF BeginSwitch
  <2>2. next = Idle => taskCpu' = taskCpu
    BY <1>6 DEF BeginSwitch
  <2>3. taskCpu' \in [Tasks -> Cpus]
    BY <2>1, <2>2
  <2> QED
    BY <1>6, <2>3 DEF BeginSwitch, BeginHandler
<1>7. ASSUME NEW t \in Tasks, NEW c \in Cpus, BeginCall(t, c)
      PROVE  KernelTypeOK'
  BY <1>7 DEF BeginCall, BeginHandler
<1>8. ASSUME NEW c \in Cpus, HandlerWork(c)
      PROVE  KernelTypeOK'
  BY <1>8 DEF HandlerWork
<1>9. ASSUME NEW c \in Cpus, InHandler(c), EndHandler(c)
      PROVE  KernelTypeOK'
  <2>1. running' \in [Cpus -> AllTasks]
    BY <1>9 DEF EndHandler
  <2>2. sys' \in [Tasks -> {"user", "stored", "evaluated", "called"}]
    BY <1>9 DEF EndHandler
  <2>3. effective' \in [AllTasks -> BOOLEAN]
    <3>1. CASE kind[c] = "switch"
      BY <1>9, <3>1 DEF EndHandler
    <3>2. CASE kind[c] # "switch"
      <4>1. subject[c] \in AllTasks /\ flag[subject[c]] \in BOOLEAN
        OBVIOUS
      <4>2. effective' = [effective EXCEPT ![subject[c]] = flag[subject[c]]]
        BY <1>9, <3>2 DEF EndHandler
      <4> QED
        BY <4>1, <4>2
    <3> QED
      BY <3>1, <3>2
  <2> QED
    BY <1>9, <2>1, <2>2, <2>3 DEF EndHandler
<1>10. CASE UNCHANGED kernelVars
  BY <1>10 DEF kernelVars
<1> QED
  BY <1>1, <1>2, <1>3, <1>4, <1>5, <1>6, <1>7, <1>8, <1>9, <1>10
     DEF KernelNext, TaskStep

\* Each step keeps tasks where they belong.
LEMMA KernelStepPlacement ==
  ASSUME KernelTypeOK, TaskPlacement, [KernelNext]_kernelVars
  PROVE  TaskPlacement'
<1> USE KernelAssumption
    DEF KernelTypeOK, TaskPlacement, OnNamedCpu, CallerStays, CallAnswered,
        Switching, InHandler, taskVars, schedVars, syscallVars, handlerVars
<1>1. ASSUME NEW t \in Tasks, NEW c \in Cpus, NEW arg2 \in Arg2, StoreFlag(t, c, arg2)
      PROVE  TaskPlacement'
  BY <1>1 DEF StoreFlag, InUserMode, Executes
<1>2. ASSUME NEW t \in Tasks, NEW c \in Cpus, EvaluateCpu(t, c)
      PROVE  TaskPlacement'
  BY <1>2 DEF EvaluateCpu, Executes
<1>3. ASSUME NEW t \in Tasks, NEW c \in Cpus, SendCall(t, c)
      PROVE  TaskPlacement'
  BY <1>3 DEF SendCall, Executes
<1>4. ASSUME NEW t \in Tasks, NEW c \in Cpus, NEW child \in Tasks, Fork(t, c, child)
      PROVE  TaskPlacement'
  BY <1>4 DEF Fork
<1>5. ASSUME NEW t \in Tasks, NEW c \in Cpus, Exit(t, c)
      PROVE  TaskPlacement'
  BY <1>5 DEF Exit
<1>6. ASSUME NEW c \in Cpus, NEW next \in AllTasks, BeginSwitch(c, next)
      PROVE  TaskPlacement'
  BY <1>6 DEF BeginSwitch, BeginHandler, MayBeSwitched, OnCpu
<1>7. ASSUME NEW t \in Tasks, NEW c \in Cpus, BeginCall(t, c)
      PROVE  TaskPlacement'
  BY <1>7 DEF BeginCall, BeginHandler
<1>8. ASSUME NEW c \in Cpus, HandlerWork(c)
      PROVE  TaskPlacement'
  BY <1>8 DEF HandlerWork
<1>9. ASSUME NEW c \in Cpus, InHandler(c), EndHandler(c)
      PROVE  TaskPlacement'
  BY <1>9 DEF EndHandler
<1>10. CASE UNCHANGED kernelVars
  BY <1>10 DEF kernelVars
<1> QED
  BY <1>1, <1>2, <1>3, <1>4, <1>5, <1>6, <1>7, <1>8, <1>9, <1>10
     DEF KernelNext, TaskStep
=============================================================================
