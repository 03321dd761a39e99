-------------------------- MODULE PrefetchPolicy --------------------------
(***************************************************************************)
(* What PreFence promises, with every step instantaneous: the prefetchers  *)
(* of a core are disabled exactly when some CPU of the core runs a task    *)
(* with the prefetch_disable flag.  A kernel patch implements this policy  *)
(* if its context switches and prctl calls each take effect at one point.  *)
(***************************************************************************)
EXTENDS FiniteSets

CONSTANTS
  Cpus, Cores, CoreOf,
  Tasks, Idle,
  PfBits         (* the prefetchers of a core, by the bit that disables each *)

VARIABLES
  flag,          (* the tasks' prefetch_disable flags                        *)
  running,       (* the task each CPU runs                                   *)
  disabled,      (* per core, the prefetchers that are disabled              *)
  booted         (* whether the patch controls the prefetchers yet           *)

vars == <<flag, running, disabled, booted>>

Init ==
  /\ flag = [t \in Tasks \cup {Idle} |-> FALSE]
  /\ running = [c \in Cpus |-> Idle]
  /\ disabled \in [Cores -> SUBSET PfBits]
  /\ booted \in BOOLEAN

\* What the tasks on core k ask for, in the next state.
Demand(k) ==
  IF \E c \in Cpus : CoreOf[c] = k /\ flag'[running'[c]] THEN PfBits ELSE {}

\* Core k is brought in line with the tasks it runs after this step.
Adjust(k) == disabled' = [disabled EXCEPT ![k] = Demand(k)]

\* CPU c starts to run task t.
Switch(c, t) ==
  /\ t = Idle \/ \A d \in Cpus : running[d] # t
  /\ running' = [running EXCEPT ![c] = t]
  /\ UNCHANGED <<flag, booted>>
  /\ IF booted THEN Adjust(CoreOf[c]) ELSE UNCHANGED disabled

\* The task on CPU c sets or clears its own flag.
SetFlag(c, value) ==
  /\ booted
  /\ running[c] \in Tasks
  /\ flag' = [flag EXCEPT ![running[c]] = value]
  /\ UNCHANGED <<running, booted>>
  /\ Adjust(CoreOf[c])

\* The task on CPU c creates a child, which runs nowhere yet.
Fork(c, child) ==
  /\ booted
  /\ running[c] \in Tasks
  /\ \A d \in Cpus : running[d] # child
  /\ flag' = [flag EXCEPT ![child] = flag[running[c]]]
  /\ UNCHANGED <<running, disabled, booted>>

Boot ==
  /\ ~booted
  /\ booted' = TRUE
  /\ UNCHANGED <<flag, running, disabled>>

Next ==
  \/ Boot
  \/ \E c \in Cpus, t \in Tasks \cup {Idle} : Switch(c, t)
  \/ \E c \in Cpus, value \in BOOLEAN : SetFlag(c, value)
  \/ \E c \in Cpus, child \in Tasks : Fork(c, child)

Spec == Init /\ [][Next]_vars
=============================================================================
