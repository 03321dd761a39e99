----------------------------- MODULE ArmstubBoot -----------------------------
(***************************************************************************)
(* kernel_patch/armstub/armstubs/armstub8.S, which every core of the       *)
(* Raspberry Pi 4 runs before the kernel: in EL3 it grants the lower       *)
(* levels access to the register that ArmPreFence writes, and leaves EL3;  *)
(* then the primary core enters the kernel, and the others wait in a loop  *)
(* until the kernel has stored an address for them and has sent an event.  *)
(*                                                                         *)
(* The firmware, which starts the cores, the kernel, and the instructions  *)
(* WFE and SEV are external.  The word that the last core waits for is at  *)
(* first the mark by which the firmware recognises the stub.               *)
(***************************************************************************)
EXTENDS Integers

CONSTANT BootCores    (* the cores, by number; the primary core is 0       *)

ASSUME BootAssumption == BootCores \subseteq 0..3 /\ 0 \in BootCores

VARIABLES
  stage,         (* what a core does next                                  *)
  stub,          (* the words of spin_cpu0 to spin_cpu3, by address        *)
  x4,            (* a core's register x4                                   *)
  event,         (* its event register, which WFE waits for                *)
  granted,       (* the levels that grant lower ones access to CPUACTLR    *)
  sending        (* the kernel has stored an address, but not sent an event *)

bootVars == <<stage, stub, x4, event, granted, sending>>

SpinTable == {216, 224, 232, 240}
StubMagic == 240

BootIdle ==
  /\ stub = [a \in SpinTable |-> IF a = StubMagic THEN "magic" ELSE "zero"]
  /\ x4 = [c \in BootCores |-> "zero"]
  /\ granted = [c \in BootCores |-> {}]
  /\ sending = FALSE

\* After a reset, the event register may have any value.
BootInit ==
  /\ stage = [c \in BootCores |-> "off"]
  /\ event \in [BootCores -> BOOLEAN]
  /\ BootIdle

-----------------------------------------------------------------------------
(* The firmware has read and cleared the mark, and starts the cores.       *)
StartCores ==
  /\ \A c \in BootCores : stage[c] = "off"
  /\ stage' = [c \in BootCores |-> "el3"]
  /\ stub' = [stub EXCEPT ![StubMagic] = "zero"]
  /\ UNCHANGED <<x4, event, granted, sending>>

\* Faulty variant: the original stub, which grants access to EL2 only.
SetUpOriginal(c) ==
  /\ stage[c] = "el3"
  /\ granted' = [granted EXCEPT ![c] = {"EL3"}]
  /\ stage' = [stage EXCEPT ![c] = IF c = 0 THEN "primary" ELSE "wfe"]
  /\ UNCHANGED <<stub, x4, event, sending>>

\* ACTLR_EL3 and ACTLR_EL2 are set, and the core goes on in EL2.
SetUp(c) ==
  /\ stage[c] = "el3"
  /\ granted' = [granted EXCEPT ![c] = {"EL3", "EL2"}]
  /\ stage' = [stage EXCEPT ![c] = IF c = 0 THEN "primary" ELSE "wfe"]
  /\ UNCHANGED <<stub, x4, event, sending>>

\* primary_cpu, boot_kernel: the firmware has stored kernel_entry32.
BootPrimary(c) ==
  /\ stage[c] = "primary"
  /\ x4' = [x4 EXCEPT ![c] = "kernel_entry32"]
  /\ stage' = [stage EXCEPT ![c] = "kernel"]
  /\ UNCHANGED <<stub, event, granted, sending>>

WaitForEvent(c) ==
  /\ stage[c] = "wfe"
  /\ event[c]
  /\ event' = [event EXCEPT ![c] = FALSE]
  /\ stage' = [stage EXCEPT ![c] = "load"]
  /\ UNCHANGED <<stub, x4, granted, sending>>

\* [x5, x6, lsl #3], with x5 the address of spin_cpu0.
SlotOf(c) == 216 + 8 * c

LoadSlot(c) ==
  /\ stage[c] = "load"
  /\ x4' = [x4 EXCEPT ![c] = stub[SlotOf(c)]]
  /\ stage' = [stage EXCEPT ![c] = "test"]
  /\ UNCHANGED <<stub, event, granted, sending>>

\* Faulty variant: the loop waits twice.
TestSlotWaitsTwice(c) ==
  /\ stage[c] = "test"
  /\ stage' = [stage EXCEPT ![c] = IF x4[c] = "zero" THEN "wfe" ELSE "kernel"]
  /\ event' = [event EXCEPT ![c] = @ /\ x4[c] # "zero"]
  /\ UNCHANGED <<stub, x4, granted, sending>>

\* cbz x4, secondary_spin; boot_kernel.
TestSlot(c) ==
  /\ stage[c] = "test"
  /\ stage' = [stage EXCEPT ![c] = IF x4[c] = "zero" THEN "wfe" ELSE "kernel"]
  /\ UNCHANGED <<stub, x4, event, granted, sending>>

\* The kernel stores the address at which core c is to enter it...
KernelReleases(c) ==
  /\ stage[0] = "kernel"
  /\ ~sending
  /\ stub[216 + 8 * c] = "zero"
  /\ stub' = [stub EXCEPT ![216 + 8 * c] = "secondary_entry"]
  /\ sending' = TRUE
  /\ UNCHANGED <<stage, x4, event, granted>>

\* ... and sends an event to all cores.
KernelSends ==
  /\ sending
  /\ event' = [c \in BootCores |-> TRUE]
  /\ sending' = FALSE
  /\ UNCHANGED <<stage, stub, x4, granted>>

BootStep ==
  \/ \E c \in BootCores :
       SetUp(c) \/ BootPrimary(c) \/ WaitForEvent(c) \/ LoadSlot(c) \/ TestSlot(c)
  \/ KernelSends

BootNext ==
  \/ StartCores
  \/ BootStep
  \/ \E c \in BootCores \ {0} : KernelReleases(c)

BootSpec == BootInit /\ [][BootNext]_bootVars

\* Cores execute their instructions, and the kernel sends the event.
BootFairness == WF_bootVars(BootStep)

-----------------------------------------------------------------------------
(* Properties.                                                             *)

(***************************************************************************)
(* A core is in the kernel only at the address that was meant for it, not  *)
(* at 0 nor at the mark, and it may write CPUACTLR_EL1 there, at whatever  *)
(* time the kernel has released it.                                        *)
(***************************************************************************)
EntersKernelRight ==
  \A c \in BootCores : stage[c] = "kernel" =>
    /\ x4[c] = IF c = 0 THEN "kernel_entry32" ELSE "secondary_entry"
    /\ granted[c] = {"EL3", "EL2"}

(***************************************************************************)
(* A core that the kernel has released enters it, also if the event is     *)
(* sent before the core waits, or between its load and its next wait: it   *)
(* never stays outside for ever.                                           *)
(***************************************************************************)
ReleasedCoresBoot ==
  \A c \in BootCores \ {0} :
    []<>(stub[216 + 8 * c] = "secondary_entry" => stage[c] = "kernel")

-----------------------------------------------------------------------------
(* Why EntersKernelRight holds: a core leaves EL3 with access granted, the *)
(* mark is gone when cores run, and only the primary core does not wait.   *)

BootInv ==
  /\ stage \in [BootCores -> {"off", "el3", "primary", "wfe", "load", "test", "kernel"}]
  /\ stub \in [SpinTable -> {"magic", "zero", "secondary_entry"}]
  /\ \A a \in SpinTable \ {StubMagic} : stub[a] # "magic"
  /\ DOMAIN x4 = BootCores
  /\ DOMAIN granted = BootCores
  /\ \A c \in BootCores :
       /\ stage[c] # "off" => \A a \in SpinTable : stub[a] # "magic"
       /\ stage[c] = "primary" => c = 0
       /\ stage[c] \in {"wfe", "load", "test"} => c # 0
       /\ stage[c] \notin {"off", "el3"} => granted[c] = {"EL3", "EL2"}
       /\ stage[c] = "test" => x4[c] \in {"zero", "secondary_entry"}
  /\ EntersKernelRight
=============================================================================
