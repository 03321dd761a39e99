----------------------------- MODULE DeviceOpen -----------------------------
(***************************************************************************)
(* How the two character devices of the repository, pfstate and ctrlpf,    *)
(* admit one process at a time: device_open() fails with -EBUSY unless a   *)
(* counter is zero, and then increments it; device_release() decrements    *)
(* it.  The kernel calls both without a lock, and neither the check and    *)
(* the increment nor the decrement is atomic, so they race.                *)
(***************************************************************************)
EXTENDS Integers, FiniteSets

CONSTANT Procs    (* processes that use the device                         *)

VARIABLES
  ctr,            (* device_open_ctr                                       *)
  at,             (* per process, its place in open, ioctl or close        *)
  seen,           (* per process, the counter as loaded by the decrement   *)
  raced           (* history: whether two calls of device_open() have both *)
                  (* passed the check before the first of them counted     *)

openVars == <<ctr, at, seen, raced>>

OpenInit ==
  /\ ctr = 0
  /\ at = [p \in Procs |-> "closed"]
  /\ seen = [p \in Procs |-> 0]
  /\ raced = FALSE

\* p is inside device_open(), past the check.
Entering(p) == at[p] = "checked"

\* p has the device open, from the return of open() to the end of close().
Holds(p) == at[p] \notin {"closed", "checked"}

\* -EBUSY: the process has learnt nothing but that it may try again.
OpenBusy(p) ==
  /\ at[p] = "closed"
  /\ ctr # 0
  /\ UNCHANGED openVars

\* Faulty variant: the check is missing.
OpenUnchecked(p) ==
  /\ at[p] = "closed"
  /\ at' = [at EXCEPT ![p] = "checked"]
  /\ raced' = (raced \/ \E q \in Procs : Entering(q))
  /\ UNCHANGED <<ctr, seen>>

\* The counter is zero.
OpenCheck(p) ==
  /\ at[p] = "closed"
  /\ ctr = 0
  /\ at' = [at EXCEPT ![p] = "checked"]
  /\ raced' = (raced \/ \E q \in Procs : Entering(q))
  /\ UNCHANGED <<ctr, seen>>

\* The increment: the kernel is built with optimisation, so it stores one more
\* than the zero that the check has loaded.
OpenCount(p) ==
  /\ at[p] = "checked"
  /\ ctr' = 1
  /\ at' = [at EXCEPT ![p] = "open"]
  /\ UNCHANGED <<seen, raced>>

\* The decrement loads the counter, and stores one less.
ReleaseLoad(p) ==
  /\ at[p] = "open"
  /\ seen' = [seen EXCEPT ![p] = ctr]
  /\ at' = [at EXCEPT ![p] = "closing"]
  /\ UNCHANGED <<ctr, raced>>

ReleaseStore(p) ==
  /\ at[p] = "closing"
  /\ ctr' = seen[p] - 1
  /\ at' = [at EXCEPT ![p] = "closed"]
  /\ seen' = [seen EXCEPT ![p] = 0]
  /\ UNCHANGED raced

\* The steps of open() and close().
OpenClose(p) ==
  \/ OpenBusy(p)
  \/ OpenCheck(p)
  \/ OpenCount(p)
  \/ ReleaseLoad(p)
  \/ ReleaseStore(p)

\* ioctl() starts and returns: the other steps of a process, as far as this
\* module's variables go.
IoctlEnter(p) ==
  /\ at[p] = "open"
  /\ at' = [at EXCEPT ![p] = "ioctl"]
  /\ UNCHANGED <<ctr, seen, raced>>

IoctlReturn(p) ==
  /\ at[p] = "ioctl"
  /\ at' = [at EXCEPT ![p] = "open"]
  /\ UNCHANGED <<ctr, seen, raced>>

OpenNext == \E p \in Procs : OpenClose(p) \/ IoctlEnter(p) \/ IoctlReturn(p)

-----------------------------------------------------------------------------
(* Properties.                                                             *)

Counts == -Cardinality(Procs)..Cardinality(Procs)

OpenTypeOK ==
  /\ ctr \in Counts
  /\ at \in [Procs -> {"closed", "checked", "open", "ioctl", "closing"}]
  /\ seen \in [Procs -> Counts]
  /\ raced \in BOOLEAN

(***************************************************************************)
(* "Allow only 1 process to open the device at a time" (the comment on     *)
(* device_open()).                                                         *)
(***************************************************************************)
OneHolder == \A p, q \in Procs : Holds(p) /\ Holds(q) => p = q

(***************************************************************************)
(* "Is the device open right now?" (the comment on the counter): when no   *)
(* process uses the device, it can be opened.                              *)
(***************************************************************************)
FreeWhenClosed == (\A p \in Procs : at[p] = "closed") => ctr = 0

(***************************************************************************)
(* Two calls of device_open() that pass the check together are the only    *)
(* way to break the two promises: releases may race with attempts to open. *)
(***************************************************************************)
OnlyOpensRace == ~raced => OneHolder /\ FreeWhenClosed

\* The inductive form: at most one process is past the check of device_open().
OneUser ==
  /\ at \in [Procs -> {"closed", "checked", "open", "ioctl", "closing"}]
  /\ seen \in [Procs -> Int]
  /\ ctr \in Int
  /\ ~raced =>
       /\ \A p, q \in Procs : at[p] # "closed" /\ at[q] # "closed" => p = q
       /\ ctr \in {0, 1}
       /\ ctr = 1 <=> \E p \in Procs : Holds(p)
       /\ \A p \in Procs : at[p] = "closing" => seen[p] = 1
=============================================================================
