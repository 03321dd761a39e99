------------------------ MODULE IntelPreFenceProofs ------------------------
(***************************************************************************)
(* Proofs about the Intel patch for every set of CPUs and tasks, every     *)
(* assignment of CPUs to cores, and preemptible and other kernels alike.   *)
(***************************************************************************)
EXTENDS IntelPreFence, KernelTasksProofs

USE IntelAssumption DEF AllTasks

\* A step of the patched Intel kernel is a step of the kernel.
LEMMA StepIsKernelStep == [Next]_vars => [KernelNext]_kernelVars
  BY DEF Next, vars, UserStep, TopologyReady, HandlerStep, SwitchBegin, CallBegin,
         ReadMsr, ComputeTarget, SkipPrefetchControl, WriteMsr, LeaveCore,
         KernelNext, HandlerWork, InHandler

\* Each step keeps the types of the hardware's and the handlers' state.
LEMMA StepType ==
  ASSUME TypeOK, TaskPlacement, [Next]_vars
  PROVE  TypeOK'
<1> USE DEF TypeOK
<1>1. KernelTypeOK'
  BY StepIsKernelStep, KernelStepType
<1> USE DEF KernelTypeOK, intelVars, localVars, histVars
<1>2. CASE TopologyReady
  BY <1>1, <1>2 DEF TopologyReady
<1>3. CASE UserStep
  BY <1>1, <1>3 DEF UserStep
<1>4. ASSUME NEW c \in Cpus, NEW next \in AllTasks, SwitchBegin(c, next)
      PROVE  TypeOK'
  BY <1>1, <1>4 DEF SwitchBegin, UpdateMask, EnterCore
<1>5. ASSUME NEW t \in Tasks, NEW c \in Cpus, CallBegin(t, c)
      PROVE  TypeOK'
  BY <1>1, <1>5 DEF CallBegin, UpdateMask, EnterCore
<1>6. ASSUME NEW c \in Cpus, ReadMsr(c)
      PROVE  TypeOK'
  BY <1>1, <1>6 DEF ReadMsr
<1>7. ASSUME NEW c \in Cpus, ComputeTarget(c)
      PROVE  TypeOK'
  BY <1>1, <1>7 DEF ComputeTarget, Wanted
<1>8. ASSUME NEW c \in Cpus, SkipPrefetchControl(c)
      PROVE  TypeOK'
  BY <1>1, <1>8 DEF SkipPrefetchControl, LeaveCore
<1>9. ASSUME NEW c \in Cpus, WriteMsr(c)
      PROVE  TypeOK'
  BY <1>1, <1>9 DEF WriteMsr, LeaveCore
<1>10. CASE UNCHANGED vars
  BY <1>1, <1>10 DEF vars
<1> QED
  BY <1>2, <1>3, <1>4, <1>5, <1>6, <1>7, <1>8, <1>9, <1>10 DEF Next, HandlerStep

\* Each step keeps the mask in line with the flags.
LEMMA StepMask ==
  ASSUME TypeOK, TaskPlacement, MaskFollowsFlags, [Next]_vars
  PROVE  MaskFollowsFlags'
<1> USE KernelAssumption
    DEF TypeOK, KernelTypeOK, TaskPlacement, OnNamedCpu, CallerStays, CallAnswered,
        MaskFollowsFlags, Switching, InHandler,
        taskVars, schedVars, syscallVars, handlerVars, intelVars, localVars, histVars
<1>1. CASE TopologyReady
  BY <1>1 DEF TopologyReady, kernelVars
<1>2. CASE UserStep
  <2> USE <1>2 DEF UserStep
  <2>1. ASSUME NEW t \in Tasks, NEW c \in Cpus, NEW arg2 \in Arg2, StoreFlag(t, c, arg2)
        PROVE  MaskFollowsFlags'
    BY <2>1 DEF StoreFlag, InUserMode, Executes
  <2>2. ASSUME NEW t \in Tasks, NEW c \in Cpus, EvaluateCpu(t, c)
        PROVE  MaskFollowsFlags'
    BY <2>2 DEF EvaluateCpu, Executes
  <2>3. ASSUME NEW t \in Tasks, NEW c \in Cpus, SendCall(t, c)
        PROVE  MaskFollowsFlags'
    BY <2>3 DEF SendCall, Executes
  <2>4. ASSUME NEW t \in Tasks, NEW c \in Cpus, NEW child \in Tasks, Fork(t, c, child)
        PROVE  MaskFollowsFlags'
    BY <2>4 DEF Fork, OnCpu
  <2>5. ASSUME NEW t \in Tasks, NEW c \in Cpus, Exit(t, c)
        PROVE  MaskFollowsFlags'
    BY <2>5 DEF Exit
  <2> QED
    BY <2>1, <2>2, <2>3, <2>4, <2>5 DEF TaskStep
<1>3. ASSUME NEW c \in Cpus, NEW next \in AllTasks, SwitchBegin(c, next)
      PROVE  MaskFollowsFlags'
  BY <1>3 DEF SwitchBegin, BeginSwitch, BeginHandler, UpdateMask, MayBeSwitched, OnCpu
<1>4. ASSUME NEW t \in Tasks, NEW c \in Cpus, CallBegin(t, c)
      PROVE  MaskFollowsFlags'
  BY <1>4 DEF CallBegin, BeginCall, BeginHandler, UpdateMask
<1>5. ASSUME NEW c \in Cpus, ReadMsr(c) \/ ComputeTarget(c)
      PROVE  MaskFollowsFlags'
  BY <1>5 DEF ReadMsr, ComputeTarget
<1>6. ASSUME NEW c \in Cpus, SkipPrefetchControl(c) \/ WriteMsr(c)
      PROVE  MaskFollowsFlags'
  <2>1. EndHandler(c) /\ InHandler(c) /\ UNCHANGED mask
    BY <1>6 DEF SkipPrefetchControl, WriteMsr, LeaveCore
  <2> QED
    BY <2>1 DEF EndHandler
<1>7. CASE UNCHANGED vars
  BY <1>7 DEF vars, kernelVars
<1> QED
  BY <1>1, <1>2, <1>3, <1>4, <1>5, <1>6, <1>7 DEF Next, HandlerStep

\* The only mask bit a handler changes on another core than its own belongs to
\* a task that left, and it has its value already.
LEMMA StrayCallKeepsMask ==
  ASSUME TypeOK, TaskPlacement, MaskFollowsFlags,
         NEW t \in Tasks, NEW c \in Cpus, CallBegin(t, c), taskCpu[t] # c
  PROVE  mask' = mask
<1>1. /\ sys[t] = "called" /\ callCpu[t] = c
      /\ running[taskCpu[t]] = t /\ ~Switching(taskCpu[t])
  BY DEF CallBegin, BeginCall, TaskPlacement, CallerStays
<1>2. taskCpu[t] \in mask <=> flag[t]
  BY <1>1 DEF MaskFollowsFlags, TypeOK, KernelTypeOK
<1> QED
  BY <1>2 DEF CallBegin, UpdateMask

\* Starting a handler changes no mask bit of another core.
LEMMA BeginKeepsOtherBits ==
  ASSUME TypeOK, TaskPlacement, MaskFollowsFlags, NEW c \in Cpus,
         \/ \E next \in AllTasks : SwitchBegin(c, next)
         \/ \E t \in Tasks : CallBegin(t, c)
  PROVE  \A d \in Cpus : CoreOf[d] # CoreOf[c] => (d \in mask' <=> d \in mask)
<1>1. CASE \E next \in AllTasks : SwitchBegin(c, next)
  BY <1>1 DEF SwitchBegin, UpdateMask
<1>2. ASSUME NEW t \in Tasks, CallBegin(t, c)
      PROVE  \A d \in Cpus : CoreOf[d] # CoreOf[c] => (d \in mask' <=> d \in mask)
  <2>1. CASE taskCpu[t] = c
    BY <1>2, <2>1 DEF CallBegin, UpdateMask
  <2>2. CASE taskCpu[t] # c
    BY <1>2, <2>2, StrayCallKeepsMask
  <2> QED
    BY <2>1, <2>2
<1> QED
  BY <1>1, <1>2

\* So it changes what is wanted of no core but its own.
LEMMA BeginKeepsOtherWanted ==
  ASSUME TypeOK, TaskPlacement, MaskFollowsFlags, NEW c \in Cpus,
         \/ \E next \in AllTasks : SwitchBegin(c, next)
         \/ \E t \in Tasks : CallBegin(t, c)
  PROVE  \A d \in Cpus : CoreOf[d] # CoreOf[c] => \A w : Wanted(d, w)' = Wanted(d, w)
<1>1. \A d \in Cpus : CoreOf[d] # CoreOf[c] => Siblings(d) \cap mask' = Siblings(d) \cap mask
  BY BeginKeepsOtherBits DEF Siblings
<1> QED
  BY <1>1 DEF Wanted

\* With the same mask, the same is wanted.
LEMMA SameMaskSameWanted == mask' = mask => \A d, w : Wanted(d, w)' = Wanted(d, w)
  BY DEF Wanted

\* Each step keeps lone handlers alone on their core.
LEMMA StepAlone ==
  ASSUME TypeOK, AloneOnCore, [Next]_vars
  PROVE  AloneOnCore'
<1> USE DEF TypeOK, KernelTypeOK, AloneOnCore, InHandler, handlerVars, histVars
<1>1. CASE UNCHANGED <<handlerVars, histVars>>
  BY <1>1
<1>2. ASSUME NEW c \in Cpus, NEW k, NEW t, BeginHandler(c, k, t), EnterCore(c)
      PROVE  AloneOnCore'
  BY <1>2 DEF BeginHandler, EnterCore, Siblings
<1>3. ASSUME NEW c \in Cpus, ReadMsr(c) \/ ComputeTarget(c)
      PROVE  AloneOnCore'
  BY <1>3 DEF ReadMsr, ComputeTarget
<1>4. ASSUME NEW c \in Cpus, LeaveCore(c)
      PROVE  AloneOnCore'
  BY <1>4 DEF LeaveCore, EndHandler
<1> QED
  BY <1>1, <1>2, <1>3, <1>4
     DEF Next, vars, kernelVars, intelVars, UserStep, TaskStep, StoreFlag, EvaluateCpu,
         SendCall, Fork, Exit, TopologyReady, HandlerStep, SwitchBegin, BeginSwitch,
         CallBegin, BeginCall, SkipPrefetchControl, WriteMsr

\* Each step keeps what a lone handler has read equal to the MSR.
LEMMA StepRead ==
  ASSUME TypeOK, AloneOnCore, LoneReadIsCurrent, [Next]_vars
  PROVE  LoneReadIsCurrent'
<1> USE DEF TypeOK, KernelTypeOK, LoneReadIsCurrent, handlerVars, localVars, histVars
<1>1. CASE UNCHANGED <<handlerVars, msr, localVars, histVars>>
  BY <1>1
<1>2. ASSUME NEW c \in Cpus, NEW k, NEW t, BeginHandler(c, k, t), EnterCore(c),
             UNCHANGED <<msr, localVars>>
      PROVE  LoneReadIsCurrent'
  BY <1>2 DEF BeginHandler, EnterCore
<1>3. ASSUME NEW c \in Cpus, ReadMsr(c) \/ ComputeTarget(c)
      PROVE  LoneReadIsCurrent'
  BY <1>3 DEF ReadMsr, ComputeTarget
<1>4. ASSUME NEW c \in Cpus, SkipPrefetchControl(c)
      PROVE  LoneReadIsCurrent'
  BY <1>4 DEF SkipPrefetchControl, LeaveCore, EndHandler
<1>5. ASSUME NEW c \in Cpus, WriteMsr(c)
      PROVE  LoneReadIsCurrent'
  BY <1>5 DEF WriteMsr, LeaveCore, EndHandler, AloneOnCore, InHandler
<1> QED
  BY <1>1, <1>2, <1>3, <1>4, <1>5
     DEF Next, vars, kernelVars, intelVars, UserStep, TaskStep, StoreFlag, EvaluateCpu,
         SendCall, Fork, Exit, TopologyReady, HandlerStep, SwitchBegin, BeginSwitch,
         CallBegin, BeginCall

\* Each step keeps the target of a lone handler true to the mask.
LEMMA StepTarget ==
  ASSUME TypeOK, TaskPlacement, MaskFollowsFlags, AloneOnCore, LoneTargetIsCurrent,
         [Next]_vars
  PROVE  LoneTargetIsCurrent'
<1> USE DEF LoneTargetIsCurrent, HandledCpu
<1>1. CASE UNCHANGED <<taskCpu, handlerVars, mask, localVars, histVars>>
  BY <1>1, SameMaskSameWanted DEF handlerVars, localVars, histVars
<1>2. ASSUME NEW c \in Cpus,
             \/ \E next \in AllTasks : SwitchBegin(c, next)
             \/ \E t \in Tasks : CallBegin(t, c)
      PROVE  LoneTargetIsCurrent'
  <2> SUFFICES ASSUME NEW d \in alone', pc'[d] = "write",
                      CoreOf[HandledCpu(d)'] = CoreOf[d]
               PROVE  target'[d] = Wanted(HandledCpu(d), lo[d])'
    OBVIOUS
  <2>1. d # c /\ pc[d] = "write" /\ d \in alone /\ d \in Cpus
    BY <1>2 DEF SwitchBegin, BeginSwitch, CallBegin, BeginCall, BeginHandler, EnterCore,
                TypeOK, KernelTypeOK, Siblings
  <2>2. CoreOf[d] # CoreOf[c]
    BY <1>2, <2>1 DEF SwitchBegin, BeginSwitch, CallBegin, BeginCall, BeginHandler,
                      EnterCore, TypeOK, KernelTypeOK, Siblings, InHandler
  <2>3. kind'[d] = kind[d] /\ subject'[d] = subject[d] /\ target' = target /\ lo' = lo
    BY <1>2, <2>1 DEF SwitchBegin, BeginSwitch, CallBegin, BeginCall, BeginHandler,
                      localVars, TypeOK, KernelTypeOK
  <2>4. HandledCpu(d)' = HandledCpu(d) /\ HandledCpu(d) \in Cpus
    <3>1. CASE kind[d] = "switch"
      BY <2>1, <2>3, <3>1
    <3>2. CASE kind[d] # "switch"
      <4>1. subject[d] \in Tasks /\ sys[subject[d]] = "called"
        BY <2>1, <3>2 DEF TaskPlacement, CallAnswered, InHandler, TypeOK, KernelTypeOK
      <4>2. running[taskCpu[subject[d]]] = subject[d] /\ taskCpu[subject[d]] \in Cpus
        BY <4>1 DEF TaskPlacement, CallerStays, TypeOK, KernelTypeOK
      <4>3. taskCpu'[subject[d]] = taskCpu[subject[d]]
        BY <1>2, <4>1, <4>2, KernelAssumption
           DEF SwitchBegin, BeginSwitch, CallBegin, BeginCall, schedVars, OnCpu,
               TypeOK, KernelTypeOK
      <4> QED
        BY <2>3, <3>2, <4>2, <4>3
    <3> QED
      BY <3>1, <3>2
  <2>5. Wanted(HandledCpu(d), lo[d])' = Wanted(HandledCpu(d), lo[d])
    <3>1. CoreOf[HandledCpu(d)] # CoreOf[c]
      BY <2>2, <2>4
    <3>2. \A w : Wanted(HandledCpu(d), w)' = Wanted(HandledCpu(d), w)
      BY <1>2, <2>4, <3>1, BeginKeepsOtherWanted
    <3> QED
      BY <2>3, <2>4, <3>2
  <2> QED
    BY <2>1, <2>3, <2>4, <2>5
<1>3. ASSUME NEW c \in Cpus, ReadMsr(c)
      PROVE  LoneTargetIsCurrent'
  BY <1>3, SameMaskSameWanted DEF ReadMsr, schedVars, histVars, TypeOK, KernelTypeOK
<1>4. ASSUME NEW c \in Cpus, ComputeTarget(c)
      PROVE  LoneTargetIsCurrent'
  BY <1>4, SameMaskSameWanted DEF ComputeTarget, schedVars, histVars, TypeOK, KernelTypeOK
<1>5. ASSUME NEW c \in Cpus, SkipPrefetchControl(c) \/ WriteMsr(c)
      PROVE  LoneTargetIsCurrent'
  BY <1>5, SameMaskSameWanted
     DEF SkipPrefetchControl, WriteMsr, LeaveCore, EndHandler, TypeOK, KernelTypeOK
<1> QED
  BY <1>1, <1>2, <1>3, <1>4, <1>5
     DEF Next, vars, kernelVars, schedVars, handlerVars, intelVars, UserStep, TaskStep,
         StoreFlag, EvaluateCpu, SendCall, Fork, Exit, TopologyReady, HandlerStep

\* Each step keeps synced cores in line with the mask.
LEMMA StepSynced ==
  ASSUME TypeOK, TaskPlacement, MaskFollowsFlags, AloneOnCore,
         LoneReadIsCurrent, LoneTargetIsCurrent, SyncedCoreFollowsMask, [Next]_vars
  PROVE  SyncedCoreFollowsMask'
<1> USE KernelAssumption
    DEF TypeOK, KernelTypeOK, SyncedCoreFollowsMask, InHandler, Siblings,
        taskVars, schedVars, syscallVars, handlerVars, kernelVars,
        intelVars, localVars, histVars
<1>1. CASE TopologyReady
  BY <1>1 DEF TopologyReady
<1>2. CASE UserStep
  <2>1. UNCHANGED <<handlerVars, intelVars>>
    BY <1>2 DEF UserStep, TaskStep, StoreFlag, EvaluateCpu, SendCall, Fork, Exit
  <2> QED
    BY <2>1
<1>3. ASSUME NEW c \in Cpus,
             \/ \E next \in AllTasks : SwitchBegin(c, next)
             \/ \E t \in Tasks : CallBegin(t, c)
      PROVE  SyncedCoreFollowsMask'
  <2>1. /\ synced' = synced \ {CoreOf[c]}
        /\ msr' = msr
        /\ \A d \in Cpus : d # c => pc'[d] = pc[d]
    BY <1>3 DEF SwitchBegin, BeginSwitch, CallBegin, BeginCall, BeginHandler, EnterCore
  <2>2. mask \subseteq Cpus /\ mask' \subseteq Cpus
    BY <1>3 DEF SwitchBegin, CallBegin, UpdateMask
  <2>3. \A k \in synced' : (\E d \in mask' : CoreOf[d] = k) <=> (\E d \in mask : CoreOf[d] = k)
    BY <1>3, <2>1, <2>2, BeginKeepsOtherBits
  <2> QED
    BY <2>1, <2>3
<1>4. ASSUME NEW c \in Cpus, ReadMsr(c) \/ ComputeTarget(c)
      PROVE  SyncedCoreFollowsMask'
  BY <1>4 DEF ReadMsr, ComputeTarget
<1>5. ASSUME NEW c \in Cpus, SkipPrefetchControl(c)
      PROVE  SyncedCoreFollowsMask'
  BY <1>5 DEF SkipPrefetchControl, LeaveCore, EndHandler
<1>6. ASSUME NEW c \in Cpus, WriteMsr(c)
      PROVE  SyncedCoreFollowsMask'
  <2>1. /\ pc' = [pc EXCEPT ![c] = "none"]
        /\ pc[c] = "write"
        /\ mask' = mask
        /\ synced' \subseteq synced \cup {CoreOf[c]}
        /\ \A k \in Cores : k # CoreOf[c] => msr'[k] = msr[k]
    BY <1>6 DEF WriteMsr, LeaveCore, EndHandler
  <2>2. CoreOf[c] \notin synced
    BY <2>1
  <2>3. CASE CoreOf[c] \notin synced'
    BY <2>1, <2>3
  <2>4. CASE CoreOf[c] \in synced'
    <3>1. c \in alone /\ HandledCpu(c) \in Siblings(c)
      BY <1>6, <2>2, <2>4 DEF WriteMsr
    <3>2. lo[c] = msr[CoreOf[c]]
      BY <2>1, <3>1 DEF LoneReadIsCurrent
    <3>3. target[c] = Wanted(HandledCpu(c), lo[c])
      BY <2>1, <3>1 DEF LoneTargetIsCurrent
    <3>4. msr'[CoreOf[c]] = Wanted(HandledCpu(c), lo[c])
      BY <1>6, <3>2, <3>3 DEF WriteMsr
    <3>5. Siblings(HandledCpu(c)) = Siblings(c)
      BY <3>1
    <3>6. msr'[CoreOf[c]] \cap PfBits
            = IF \E d \in mask : CoreOf[d] = CoreOf[c] THEN PfBits ELSE {}
      BY <3>4, <3>5 DEF Wanted
    <3>7. \A d \in Cpus : CoreOf[d] = CoreOf[c] => pc'[d] = "none"
      BY <2>1, <3>1 DEF AloneOnCore
    <3> QED
      BY <2>1, <3>6, <3>7
  <2> QED
    BY <2>3, <2>4
<1>7. CASE UNCHANGED vars
  BY <1>7 DEF vars
<1> QED
  BY <1>1, <1>2, <1>3, <1>4, <1>5, <1>6, <1>7 DEF Next, HandlerStep

-----------------------------------------------------------------------------

\* The inductive invariant holds in every reachable state, on every machine.
THEOREM Safety == Spec => [](TypeOK /\ IInv)
<1>1. Init => TypeOK /\ IInv
  <2>1. Init => TypeOK /\ TaskPlacement
    BY KernelInitType, KernelAssumption DEF Init, KernelInit, TypeOK
  <2>2. ASSUME Init
        PROVE  MaskFollowsFlags
    <3>1. \A c \in Cpus : running[c] = Idle /\ ~InHandler(c)
      BY <2>2 DEF Init, KernelInit, InHandler
    <3>2. flag[Idle] = FALSE /\ mask = {}
      BY <2>2 DEF Init, KernelInit
    <3> QED
      BY <3>1, <3>2 DEF MaskFollowsFlags, Switching
  <2>3. Init => AloneOnCore /\ LoneReadIsCurrent /\ LoneTargetIsCurrent
    BY DEF Init, AloneOnCore, LoneReadIsCurrent, LoneTargetIsCurrent
  <2>4. Init => SyncedCoreFollowsMask
    BY DEF Init, SyncedCoreFollowsMask
  <2> QED
    BY <2>1, <2>2, <2>3, <2>4 DEF IInv
<1>2. TypeOK /\ IInv /\ [Next]_vars => (TypeOK /\ IInv)'
  BY StepType, StepIsKernelStep, KernelStepPlacement, StepMask, StepAlone, StepRead,
     StepTarget, StepSynced DEF IInv, TypeOK
<1> QED
  BY <1>1, <1>2, PTL DEF Spec

\* The mask tells the flag of the task that each settled CPU runs.
THEOREM MaskIsAccurate == Spec => []MaskAccurate
<1>1. TypeOK /\ IInv => MaskAccurate
  BY KernelAssumption
     DEF IInv, TypeOK, KernelTypeOK, MaskFollowsFlags, MaskAccurate, Settled
<1> QED
  BY <1>1, Safety, PTL

\* A core whose last handler had no company obeys the flags of its tasks.
THEOREM SyncedCoresObeyFlags == Spec => []SyncedCoreObeysFlags
<1>1. ASSUME TypeOK, IInv
      PROVE  SyncedCoreObeysFlags
  <2>1. MaskAccurate
    BY <1>1, KernelAssumption
       DEF IInv, TypeOK, KernelTypeOK, MaskFollowsFlags, MaskAccurate, Settled
  <2>2. SUFFICES ASSUME NEW k \in synced,
                        \A c \in Cpus : CoreOf[c] = k => Settled(c)
                 PROVE  msr[k] \cap PfBits
                          = IF \E c \in Cpus : CoreOf[c] = k /\ flag[running[c]]
                            THEN PfBits ELSE {}
    BY DEF SyncedCoreObeysFlags
  <2>3. msr[k] \cap PfBits = IF \E c \in mask : CoreOf[c] = k THEN PfBits ELSE {}
    BY <1>1 DEF IInv, SyncedCoreFollowsMask
  <2>4. (\E c \in mask : CoreOf[c] = k) <=> (\E c \in Cpus : CoreOf[c] = k /\ flag[running[c]])
    BY <1>1, <2>1, <2>2 DEF MaskAccurate, TypeOK
  <2> QED
    BY <2>3, <2>4
<1> QED
  BY <1>1, Safety, PTL

\* Handlers change no bit of any MSR but the prefetcher bits.
THEOREM OtherBitsKept == Spec => KeepsOtherBits
<1>1. Init => OtherBitsCurrent
  BY DEF Init, KernelInit, OtherBitsCurrent
<1>2. ASSUME TypeOK, OtherBitsCurrent, [Next]_vars
      PROVE  /\ OtherBitsCurrent'
             /\ \A k \in Cores : msr'[k] \ PfBits = msr[k] \ PfBits
  <2> USE <1>2 DEF TypeOK, KernelTypeOK, OtherBitsCurrent
  <2>1. CASE UNCHANGED <<pc, msr, localVars>>
    BY <2>1 DEF localVars
  <2>2. ASSUME NEW c \in Cpus, NEW k, NEW t, BeginHandler(c, k, t),
               UNCHANGED <<msr, localVars>>
        PROVE  OtherBitsCurrent' /\ msr' = msr
    BY <2>2 DEF BeginHandler, localVars
  <2>3. ASSUME NEW c \in Cpus, ReadMsr(c)
        PROVE  OtherBitsCurrent' /\ msr' = msr
    BY <2>3 DEF ReadMsr
  <2>4. ASSUME NEW c \in Cpus, ComputeTarget(c)
        PROVE  OtherBitsCurrent' /\ msr' = msr
    BY <2>4 DEF ComputeTarget, Wanted
  <2>5. ASSUME NEW c \in Cpus, SkipPrefetchControl(c)
        PROVE  OtherBitsCurrent' /\ msr' = msr
    BY <2>5 DEF SkipPrefetchControl, LeaveCore, EndHandler
  <2>6. ASSUME NEW c \in Cpus, WriteMsr(c)
        PROVE  /\ OtherBitsCurrent'
               /\ \A k \in Cores : msr'[k] \ PfBits = msr[k] \ PfBits
    BY <2>6 DEF WriteMsr, LeaveCore, EndHandler
  <2> QED
    BY <2>1, <2>2, <2>3, <2>4, <2>5, <2>6
       DEF Next, vars, kernelVars, handlerVars, intelVars, localVars, UserStep,
           TaskStep, StoreFlag, EvaluateCpu, SendCall, Fork, Exit, TopologyReady,
           HandlerStep, SwitchBegin, BeginSwitch, CallBegin, BeginCall
<1> QED
  BY <1>1, <1>2, Safety, PTL DEF Spec, KeepsOtherBits

-----------------------------------------------------------------------------
(* One CPU per core, and no preemption inside system calls.                *)

\* Each step keeps the cores of flagged tasks synced.
LEMMA StepPlain ==
  ASSUME OneCpuPerCore, ~Preemptible, TypeOK, IInv, PlainCoresSynced, [Next]_vars
  PROVE  PlainCoresSynced'
<1> USE KernelAssumption
    DEF OneCpuPerCore, TypeOK, KernelTypeOK, IInv, TaskPlacement, PlainCoresSynced,
        InHandler, taskVars, schedVars, syscallVars, handlerVars, kernelVars,
        intelVars, localVars, histVars
<1>1. CASE TopologyReady
  BY <1>1 DEF TopologyReady
<1>2. CASE UserStep
  BY <1>2 DEF UserStep, TaskStep, StoreFlag, EvaluateCpu, SendCall, Fork, Exit
<1>3. ASSUME NEW c \in Cpus, NEW next \in AllTasks, SwitchBegin(c, next)
      PROVE  PlainCoresSynced'
  BY <1>3 DEF SwitchBegin, BeginSwitch, BeginHandler, UpdateMask, EnterCore, OnCpu,
              CallerStays, Siblings
<1>4. ASSUME NEW t \in Tasks, NEW c \in Cpus, CallBegin(t, c)
      PROVE  PlainCoresSynced'
  BY <1>4 DEF CallBegin, BeginCall, BeginHandler, UpdateMask, EnterCore, Siblings
<1>5. ASSUME NEW c \in Cpus, ReadMsr(c) \/ ComputeTarget(c)
      PROVE  PlainCoresSynced'
  BY <1>5 DEF ReadMsr, ComputeTarget
<1>6. ASSUME NEW c \in Cpus, SkipPrefetchControl(c)
      PROVE  PlainCoresSynced'
  BY <1>6 DEF SkipPrefetchControl, SkipsControl, LeaveCore, EndHandler,
              MaskFollowsFlags, Switching
<1>7. ASSUME NEW c \in Cpus, WriteMsr(c)
      PROVE  PlainCoresSynced'
  <2>1. HandledCpu(c) = c
    BY <1>7 DEF WriteMsr, HandledCpu, CallAnswered
  <2> QED
    BY <1>7, <2>1 DEF WriteMsr, LeaveCore, EndHandler, Siblings
<1>8. CASE UNCHANGED vars
  BY <1>8 DEF vars
<1> QED
  BY <1>1, <1>2, <1>3, <1>4, <1>5, <1>6, <1>7, <1>8 DEF Next, HandlerStep

\* It holds in every reachable state.
LEMMA PlainSafety ==
  ASSUME OneCpuPerCore, ~Preemptible
  PROVE  Spec => []PlainCoresSynced
<1>1. Init => PlainCoresSynced
  BY DEF Init, KernelInit, PlainCoresSynced, InHandler
<1>2. TypeOK /\ IInv /\ PlainCoresSynced /\ [Next]_vars => PlainCoresSynced'
  BY StepPlain
<1> QED
  BY <1>1, <1>2, Safety, PTL DEF Spec

\* A flagged task never executes user code with a prefetcher enabled.
THEOREM FlaggedTasksProtected ==
  ASSUME OneCpuPerCore, ~Preemptible
  PROVE  Spec => []FlaggedRunsProtected
<1>1. ASSUME TypeOK, IInv, PlainCoresSynced
      PROVE  FlaggedRunsProtected
  <2> SUFFICES ASSUME NEW t \in Tasks, NEW c \in Cpus, InUserMode(t, c), flag[t]
               PROVE  PfBits \subseteq msr[CoreOf[c]]
    BY DEF FlaggedRunsProtected
  <2>1. c \in mask /\ ~InHandler(c)
    BY <1>1 DEF InUserMode, Executes, IInv, MaskFollowsFlags, Switching, TypeOK, KernelTypeOK
  <2>2. CoreOf[c] \in synced
    BY <1>1, <2>1 DEF PlainCoresSynced
  <2>3. msr[CoreOf[c]] \cap PfBits = PfBits
    BY <1>1, <2>1, <2>2 DEF IInv, SyncedCoreFollowsMask
  <2> QED
    BY <2>3
<1> QED
  BY <1>1, Safety, PlainSafety, PTL

\* Each step keeps the flags of tasks outside prctl effective.
LEMMA StepEffective ==
  ASSUME TypeOK, IInv, FlagsEffective, [Next]_vars
  PROVE  FlagsEffective'
<1> USE KernelAssumption
    DEF TypeOK, KernelTypeOK, IInv, TaskPlacement, FlagsEffective, InHandler,
        taskVars, schedVars, syscallVars, handlerVars, kernelVars, intelVars
<1>1. CASE TopologyReady
  BY <1>1 DEF TopologyReady
<1>2. CASE UserStep
  BY <1>2 DEF UserStep, TaskStep, StoreFlag, EvaluateCpu, SendCall, Fork, Exit, InUserMode
<1>3. ASSUME NEW c \in Cpus, NEW next \in AllTasks, SwitchBegin(c, next)
      PROVE  FlagsEffective'
  BY <1>3 DEF SwitchBegin, BeginSwitch, BeginHandler
<1>4. ASSUME NEW t \in Tasks, NEW c \in Cpus, CallBegin(t, c)
      PROVE  FlagsEffective'
  BY <1>4 DEF CallBegin, BeginCall, BeginHandler
<1>5. ASSUME NEW c \in Cpus, ReadMsr(c)
      PROVE  FlagsEffective'
  BY <1>5 DEF ReadMsr
<1>6. ASSUME NEW c \in Cpus, ComputeTarget(c)
      PROVE  FlagsEffective'
  BY <1>6 DEF ComputeTarget, SkipsControl, CallAnswered
<1>7. ASSUME NEW c \in Cpus, InHandler(c), LeaveCore(c), topology' = topology
      PROVE  FlagsEffective'
  <2>1. CASE kind[c] = "switch"
    BY <1>7, <2>1 DEF LeaveCore, EndHandler
  <2>2. CASE kind[c] # "switch"
    <3>1. subject[c] \in Tasks /\ subject[c] # Idle
      BY <1>7, <2>2 DEF CallAnswered
    <3> QED
      BY <1>7, <2>2, <3>1 DEF LeaveCore, EndHandler
  <2> QED
    BY <2>1, <2>2
<1>8. CASE UNCHANGED vars
  BY <1>8 DEF vars
<1> QED
  BY <1>1, <1>2, <1>3, <1>4, <1>5, <1>6, <1>7, <1>8
     DEF Next, HandlerStep, SkipPrefetchControl, WriteMsr

\* What a finishing handler leaves in the MSR of its core.
LEMMA WrittenBits ==
  ASSUME OneCpuPerCore, ~Preemptible, TypeOK, IInv, PlainCoresSynced,
         NEW c \in Cpus, WriteMsr(c)
  PROVE  /\ HandledCpu(c) = c
         /\ msr' = [msr EXCEPT ![CoreOf[c]] = msr'[CoreOf[c]]]
         /\ msr'[CoreOf[c]] \cap PfBits = IF flag[subject[c]] THEN PfBits ELSE {}
<1>1. InHandler(c) /\ c \in alone /\ pc[c] = "write"
  BY DEF WriteMsr, InHandler, PlainCoresSynced
<1>2. HandledCpu(c) = c
  BY <1>1 DEF HandledCpu, IInv, TaskPlacement, CallAnswered, PlainCoresSynced, TypeOK, KernelTypeOK
<1>3. lo[c] = msr[CoreOf[c]] /\ target[c] = Wanted(c, lo[c])
  BY <1>1, <1>2 DEF IInv, LoneReadIsCurrent, LoneTargetIsCurrent
<1>4. c \in mask <=> flag[subject[c]]
  BY <1>1, <1>2 DEF IInv, MaskFollowsFlags, Switching, HandledCpu, TypeOK, KernelTypeOK
<1>5. msr'[CoreOf[c]] = Wanted(c, lo[c])
  BY <1>3 DEF WriteMsr, TypeOK
<1>6. Siblings(c) = {c}
  BY DEF Siblings, OneCpuPerCore
<1>7. msr'[CoreOf[c]] \cap PfBits = IF flag[subject[c]] THEN PfBits ELSE {}
  BY <1>4, <1>5, <1>6 DEF Wanted
<1>8. msr' = [msr EXCEPT ![CoreOf[c]] = msr'[CoreOf[c]]]
  BY DEF WriteMsr, TypeOK
<1> QED
  BY <1>2, <1>7, <1>8

\* The last step of a handler is a step of the policy.
LEMMA WriteIsPolicyStep ==
  ASSUME OneCpuPerCore, ~Preemptible, TypeOK, IInv, PlainCoresSynced, FlagsEffective,
         NEW c \in Cpus, WriteMsr(c)
  PROVE  Policy!Next
<1> DEFINE disabled == [k \in Cores |-> msr[k] \cap PfBits]
<1>1. topology /\ UNCHANGED topology
  BY DEF WriteMsr, FlagsEffective
<1>2. disabled' = [disabled EXCEPT ![CoreOf[c]] = IF flag[subject[c]] THEN PfBits ELSE {}]
  <2>1. /\ msr' = [msr EXCEPT ![CoreOf[c]] = msr'[CoreOf[c]]]
        /\ msr'[CoreOf[c]] \cap PfBits = IF flag[subject[c]] THEN PfBits ELSE {}
    BY WrittenBits
  <2>2. \A k \in Cores : msr'[k] = IF k = CoreOf[c] THEN msr'[CoreOf[c]] ELSE msr[k]
    BY <2>1 DEF TypeOK
  <2>3. \A k \in Cores : msr'[k] \cap PfBits
           = IF k = CoreOf[c] THEN (IF flag[subject[c]] THEN PfBits ELSE {})
             ELSE msr[k] \cap PfBits
    BY <2>1, <2>2
  <2> QED
    BY <2>3
<1>3. CASE kind[c] = "switch"
  <2>1. /\ running' = [running EXCEPT ![c] = subject[c]]
        /\ UNCHANGED effective
    BY <1>3 DEF WriteMsr, LeaveCore, EndHandler
  <2>2. Switching(c)
    BY <1>3 DEF WriteMsr, Switching, InHandler
  <2>3. subject[c] = Idle \/ \A d \in Cpus : running[d] # subject[c]
    BY <2>2 DEF IInv, TaskPlacement, OnNamedCpu, TypeOK, KernelTypeOK
  <2>4. effective[subject[c]] = flag[subject[c]]
    <3>1. CASE subject[c] = Idle
      BY <3>1 DEF FlagsEffective, IInv, TaskPlacement, TypeOK, KernelTypeOK
    <3>2. CASE subject[c] # Idle
      <4>1. subject[c] \in Tasks /\ sys[subject[c]] = "user"
        BY <2>3, <3>2 DEF IInv, TaskPlacement, CallerStays, TypeOK, KernelTypeOK
      <4> QED
        BY <4>1 DEF FlagsEffective
    <3> QED
      BY <3>1, <3>2
  <2>5. (\E d \in Cpus : CoreOf[d] = CoreOf[c] /\ effective'[running'[d]]) <=> flag[subject[c]]
    BY <2>1, <2>4 DEF OneCpuPerCore, TypeOK, KernelTypeOK
  <2>6. Policy!Switch(c, subject[c])
    BY <1>1, <1>2, <2>1, <2>3, <2>5 DEF Policy!Switch, Policy!Adjust, Policy!Demand
  <2> QED
    BY <2>6 DEF Policy!Next, TypeOK, KernelTypeOK
<1>4. CASE kind[c] # "switch"
  <2>1. /\ effective' = [effective EXCEPT ![subject[c]] = flag[subject[c]]]
        /\ UNCHANGED running
    BY <1>4 DEF WriteMsr, LeaveCore, EndHandler
  <2>2. subject[c] \in Tasks /\ running[c] = subject[c] /\ flag[subject[c]] \in BOOLEAN
    <3>1. subject[c] \in Tasks /\ sys[subject[c]] = "called"
      BY <1>4 DEF WriteMsr, InHandler, IInv, TaskPlacement, CallAnswered, TypeOK, KernelTypeOK
    <3>2. taskCpu[subject[c]] = c
      BY <1>4, WrittenBits DEF HandledCpu
    <3> QED
      BY <3>1, <3>2 DEF IInv, TaskPlacement, CallerStays, TypeOK, KernelTypeOK
  <2>3. (\E d \in Cpus : CoreOf[d] = CoreOf[c] /\ effective'[running'[d]]) <=> flag[subject[c]]
    BY <2>1, <2>2 DEF OneCpuPerCore, TypeOK, KernelTypeOK
  <2>4. Policy!SetFlag(c, flag[subject[c]])
    BY <1>1, <1>2, <2>1, <2>2, <2>3 DEF Policy!SetFlag, Policy!Adjust, Policy!Demand
  <2> QED
    BY <2>2, <2>4 DEF Policy!Next
<1> QED
  BY <1>3, <1>4

\* Every step is a step of the policy, or changes nothing the policy sees.
LEMMA StepIsPolicyStep ==
  ASSUME OneCpuPerCore, ~Preemptible, TypeOK, IInv, PlainCoresSynced, FlagsEffective,
         [Next]_vars
  PROVE  [Policy!Next]_(Policy!vars)
<1> USE DEF Policy!vars
<1>1. CASE UNCHANGED <<effective, running, msr, topology>>
  BY <1>1
<1>2. CASE TopologyReady
  BY <1>2 DEF TopologyReady, kernelVars, taskVars, schedVars, Policy!Next, Policy!Boot
<1>3. ASSUME NEW t \in Tasks, NEW c \in Cpus, NEW child \in Tasks, Fork(t, c, child),
             UserStep
      PROVE  [Policy!Next]_(Policy!vars)
  <2>1. Policy!Fork(c, child)
    BY <1>3 DEF Fork, UserStep, InUserMode, Executes, OnCpu, FlagsEffective, schedVars,
                intelVars, Policy!Fork
  <2> QED
    BY <2>1 DEF Policy!Next
<1>4. ASSUME NEW c \in Cpus, SkipPrefetchControl(c)
      PROVE  [Policy!Next]_(Policy!vars)
  <2>1. Policy!Switch(c, subject[c])
    BY <1>4 DEF SkipPrefetchControl, SkipsControl, LeaveCore, EndHandler, Policy!Switch,
                IInv, TaskPlacement, OnNamedCpu, Switching, InHandler, TypeOK, KernelTypeOK
  <2> QED
    BY <2>1 DEF Policy!Next, TypeOK, KernelTypeOK
<1>5. ASSUME NEW c \in Cpus, WriteMsr(c)
      PROVE  [Policy!Next]_(Policy!vars)
  BY <1>5, WriteIsPolicyStep
<1> QED
  BY <1>1, <1>2, <1>3, <1>4, <1>5
     DEF Next, vars, kernelVars, taskVars, schedVars, intelVars, UserStep, TaskStep,
         StoreFlag, EvaluateCpu, SendCall, Exit, HandlerStep, SwitchBegin, BeginSwitch,
         CallBegin, BeginCall, ReadMsr, ComputeTarget

\* The Intel patch implements the policy on such a machine.
THEOREM IntelImplementsPolicy ==
  ASSUME OneCpuPerCore, ~Preemptible
  PROVE  Spec => ImplementsPolicy
<1>1. Init => Policy!Init /\ FlagsEffective
  BY DEF Init, KernelInit, Policy!Init, FlagsEffective
<1>2. TypeOK /\ IInv /\ FlagsEffective /\ [Next]_vars => FlagsEffective'
  BY StepEffective
<1>3. TypeOK /\ IInv /\ PlainCoresSynced /\ FlagsEffective /\ [Next]_vars
        => [Policy!Next]_(Policy!vars)
  BY StepIsPolicyStep
<1> QED
  BY <1>1, <1>2, <1>3, Safety, PlainSafety, PTL DEF Spec, ImplementsPolicy, Policy!Spec
=============================================================================
