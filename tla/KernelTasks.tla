---------------------------- MODULE KernelTasks ----------------------------
(***************************************************************************)
(* The part that PreFence's kernel patches for Intel and ARM share: tasks  *)
(* with a prefetch_disable flag, the scheduler that moves them between     *)
(* CPUs, and prctl(PR_SET_PREFETCH_DISABLE), which stores the flag and     *)
(* asks one CPU to run the function that brings its prefetchers in line.   *)
(* What a context switch or that function does to the hardware is left to  *)
(* the modules that extend this one: a CPU is "in a handler" while it runs *)
(* the patch's code, between BeginHandler and EndHandler.                  *)
(*                                                                         *)
(* Handlers run with interrupts disabled: they do not nest on a CPU, and   *)
(* handlers of different CPUs interleave.                                  *)
(***************************************************************************)
EXTENDS Integers, FiniteSets

CONSTANTS
  Cpus,          (* logical CPUs                                           *)
  BootCpu,       (* the CPU that boots the others                          *)
  Tasks,         (* user tasks that may ever exist                         *)
  InitTask,      (* the first of them, which never exits                   *)
  Idle,          (* stands for each CPU's own idle task (init_task)        *)
  Preemptible    (* whether the kernel may preempt a task in a system call *)

ASSUME KernelAssumption ==
  /\ BootCpu \in Cpus
  /\ InitTask \in Tasks
  /\ Idle \notin Tasks
  /\ Preemptible \in BOOLEAN

VARIABLES
  flag,          (* task_struct.prefetch_disable                           *)
  alive,         (* tasks that exist                                       *)
  running,       (* the task that each CPU executes (current)              *)
  taskCpu,       (* task_cpu(): the CPU a task was last placed on          *)
  sys,           (* per task, where it is in prctl(PR_SET_...)             *)
  callCpu,       (* per task, the first argument of its call               *)
  pc,            (* per CPU, the handler's next step, "none" outside one   *)
  kind,          (* per CPU, which handler: "switch" or "call"             *)
  subject,       (* per CPU, the handler's task: next or t_current         *)
  effective      (* history: the flag as of the task's last finished prctl *)

taskVars    == <<flag, alive, effective>>
schedVars   == <<running, taskCpu>>
syscallVars == <<sys, callCpu>>
handlerVars == <<pc, kind, subject>>
kernelVars  == <<taskVars, schedVars, syscallVars, handlerVars>>

AllTasks == Tasks \cup {Idle}

KernelInit ==
  /\ flag = [t \in AllTasks |-> FALSE]
  /\ alive = {InitTask}
  /\ running = [c \in Cpus |-> Idle]
  /\ taskCpu = [t \in Tasks |-> BootCpu]
  /\ sys = [t \in Tasks |-> "user"]
  /\ callCpu = [t \in Tasks |-> BootCpu]
  /\ pc = [c \in Cpus |-> "none"]
  /\ kind = [c \in Cpus |-> "switch"]
  /\ subject = [c \in Cpus |-> Idle]
  /\ effective = [t \in AllTasks |-> FALSE]

-----------------------------------------------------------------------------
(* Handlers.                                                               *)

InHandler(c) == pc[c] # "none"

Switching(c) == InHandler(c) /\ kind[c] = "switch"

\* The CPU whose state a handler looks after: set_intel_prefetch() goes by
\* task_cpu(t_current), whichever CPU it runs on.
HandledCpu(c) == IF kind[c] = "switch" THEN c ELSE taskCpu[subject[c]]

BeginHandler(c, k, t) ==
  /\ ~InHandler(c)
  /\ pc' = [pc EXCEPT ![c] = "read"]
  /\ kind' = [kind EXCEPT ![c] = k]
  /\ subject' = [subject EXCEPT ![c] = t]

\* CPU c leaves its handler: switch_to() makes next the current task, or the
\* called function returns and smp_call_function_single() with it.  The
\* handler's local variables go out of scope.
EndHandler(c) ==
  /\ pc' = [pc EXCEPT ![c] = "none"]
  /\ kind' = [kind EXCEPT ![c] = "switch"]
  /\ subject' = [subject EXCEPT ![c] = Idle]
  /\ IF kind[c] = "switch"
     THEN /\ running' = [running EXCEPT ![c] = subject[c]]
          /\ UNCHANGED <<sys, effective>>
     ELSE /\ sys' = [sys EXCEPT ![subject[c]] = "user"]
          /\ effective' = [effective EXCEPT ![subject[c]] = flag[subject[c]]]
          /\ UNCHANGED running
  /\ UNCHANGED <<flag, alive, taskCpu, callCpu>>

-----------------------------------------------------------------------------
(* The scheduler.                                                          *)

\* t runs on a CPU, or a CPU is about to switch to it.
OnCpu(t) == \E c \in Cpus : running[c] = t \/ (Switching(c) /\ subject[c] = t)

\* Task t may lose its CPU: it is in user mode, or in a part of prctl that
\* leaves preemption enabled on a preemptible kernel.
MayBeSwitched(t) ==
  t \in Tasks => \/ sys[t] = "user"
                 \/ Preemptible /\ sys[t] \in {"stored", "evaluated"}

\* CPU c enters context_switch() to run next.
BeginSwitch(c, next) ==
  /\ MayBeSwitched(running[c])
  /\ \/ next \in alive /\ ~OnCpu(next)
     \/ next = Idle /\ running[c] # Idle
  /\ BeginHandler(c, "switch", next)
  /\ taskCpu' = IF next = Idle THEN taskCpu ELSE [taskCpu EXCEPT ![next] = c]
  /\ UNCHANGED <<taskVars, running, syscallVars>>

-----------------------------------------------------------------------------
(* System calls of the task t that CPU c executes.                         *)

Executes(c, t) == running[c] = t /\ ~InHandler(c)

InUserMode(t, c) == Executes(c, t) /\ t \in alive /\ sys[t] = "user"

\* current->prefetch_disable = arg2 ? 1 : 0.
StoreFlag(t, c, arg2) ==
  /\ InUserMode(t, c)
  /\ flag' = [flag EXCEPT ![t] = (arg2 # 0)]
  /\ sys' = [sys EXCEPT ![t] = "stored"]
  /\ UNCHANGED <<alive, effective, schedVars, callCpu, handlerVars>>

\* task_cpu(current) is evaluated, before the call disables preemption.
EvaluateCpu(t, c) ==
  /\ Executes(c, t)
  /\ sys[t] = "stored"
  /\ callCpu' = [callCpu EXCEPT ![t] = taskCpu[t]]
  /\ sys' = [sys EXCEPT ![t] = "evaluated"]
  /\ UNCHANGED <<taskVars, schedVars, handlerVars>>

\* smp_call_function_single() disables preemption and sends the request to
\* the CPU it was given; the caller then waits for the function to finish.
SendCall(t, c) ==
  /\ Executes(c, t)
  /\ sys[t] = "evaluated"
  /\ sys' = [sys EXCEPT ![t] = "called"]
  /\ UNCHANGED <<taskVars, schedVars, callCpu, handlerVars>>

\* Faulty variant: the request does not interrupt user code, as if it were work
\* for the next system call.
BeginCallInKernel(t, c) ==
  /\ sys[t] = "called"
  /\ callCpu[t] = c
  /\ \A u \in Tasks : ~InUserMode(u, c)
  /\ BeginHandler(c, "call", t)
  /\ UNCHANGED <<taskVars, schedVars, syscallVars>>

\* CPU c starts the requested function: directly if the caller is on c,
\* otherwise in an interrupt.
BeginCall(t, c) ==
  /\ sys[t] = "called"
  /\ callCpu[t] = c
  /\ BeginHandler(c, "call", t)
  /\ UNCHANGED <<taskVars, schedVars, syscallVars>>

\* fork(): dup_task_struct() copies the flag.
Fork(t, c, child) ==
  /\ InUserMode(t, c)
  /\ child \in Tasks \ alive
  /\ ~OnCpu(child)
  /\ alive' = alive \cup {child}
  /\ flag' = [flag EXCEPT ![child] = flag[t]]
  /\ effective' = [effective EXCEPT ![child] = effective[t]]
  /\ UNCHANGED <<schedVars, syscallVars, handlerVars>>

\* exit(): the task runs no user code any more and waits to be switched out.
Exit(t, c) ==
  /\ InUserMode(t, c)
  /\ t # InitTask
  /\ alive' = alive \ {t}
  /\ UNCHANGED <<flag, effective, schedVars, syscallVars, handlerVars>>

-----------------------------------------------------------------------------
\* Values of prctl's second argument: zero, and two that count as set.
Arg2 == 0..2

\* The steps of user tasks that do not touch the hardware.
TaskStep ==
  \/ \E t \in Tasks, c \in Cpus, arg2 \in Arg2 : StoreFlag(t, c, arg2)
  \/ \E t \in Tasks, c \in Cpus : EvaluateCpu(t, c)
  \/ \E t \in Tasks, c \in Cpus : SendCall(t, c)
  \/ \E t \in Tasks, c \in Cpus, child \in Tasks : Fork(t, c, child)
  \/ \E t \in Tasks, c \in Cpus : Exit(t, c)

\* A handler's work on the hardware, before its last step.
HandlerWork(c) ==
  /\ InHandler(c)
  /\ \E step \in {"compute", "write"} : pc' = [pc EXCEPT ![c] = step]
  /\ UNCHANGED <<taskVars, schedVars, syscallVars, kind, subject>>

\* Every step of a patched kernel, as far as this module's variables go.
KernelNext ==
  \/ TaskStep
  \/ \E c \in Cpus, next \in AllTasks : BeginSwitch(c, next)
  \/ \E t \in Tasks, c \in Cpus : BeginCall(t, c)
  \/ \E c \in Cpus : HandlerWork(c)
  \/ \E c \in Cpus : InHandler(c) /\ EndHandler(c)

KernelTypeOK ==
  /\ flag \in [AllTasks -> BOOLEAN]
  /\ alive \in SUBSET Tasks
  /\ running \in [Cpus -> AllTasks]
  /\ taskCpu \in [Tasks -> Cpus]
  /\ sys \in [Tasks -> {"user", "stored", "evaluated", "called"}]
  /\ callCpu \in [Tasks -> Cpus]
  /\ pc \in [Cpus -> {"none", "read", "compute", "write"}]
  /\ kind \in [Cpus -> {"switch", "call"}]
  /\ subject \in [Cpus -> AllTasks]
  /\ effective \in [AllTasks -> BOOLEAN]

\* A running task, and one that a CPU is about to run, is on the CPU that
\* task_cpu() names.
OnNamedCpu ==
  /\ \A c \in Cpus : running[c] \in Tasks => taskCpu[running[c]] = c
  /\ \A c \in Cpus : Switching(c) /\ subject[c] \in Tasks =>
       /\ taskCpu[subject[c]] = c
       /\ \A d \in Cpus : running[d] # subject[c]

\* A task that waits for its call, or is anywhere in prctl on a kernel that
\* does not preempt system calls, keeps its CPU.
CallerStays ==
  \A t \in Tasks :
    sys[t] = "called" \/ (~Preemptible /\ sys[t] # "user") =>
      running[taskCpu[t]] = t /\ ~Switching(taskCpu[t])

\* A called function runs on the CPU that was asked, for a task that waits.
CallAnswered ==
  \A c \in Cpus : InHandler(c) /\ kind[c] = "call" =>
    /\ subject[c] \in Tasks
    /\ sys[subject[c]] = "called"
    /\ callCpu[subject[c]] = c

(***************************************************************************)
(* A task is on one CPU at most, the one task_cpu() names, also while it   *)
(* migrates; the caller of set_*_prefetch() stays on its CPU until the     *)
(* function returns; and the function only runs on the CPU that was asked. *)
(* The idle tasks never have the flag.                                     *)
(***************************************************************************)
TaskPlacement == ~flag[Idle] /\ OnNamedCpu /\ CallerStays /\ CallAnswered
=============================================================================
