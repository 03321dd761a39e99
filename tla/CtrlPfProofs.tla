---------------------------- MODULE CtrlPfProofs ----------------------------
(***************************************************************************)
(* Theorems about CtrlPf, for any processes, CPUs, register bits and words *)
(* to write: what a pinned process asked for stays in force while no two   *)
(* calls of device_open() have raced, and the read-modify-write on the     *)
(* Cortex-A72 changes no other bit, whatever interleaves.  And about       *)
(* FetchbenchStride: while nothing disturbs them, FetchBench's two tests   *)
(* train and probe in the prefetcher state that they are named for.        *)
(***************************************************************************)
EXTENDS FetchbenchStride, DeviceOpenProofs

(***************************************************************************)
(* Every step of the module is a step of DeviceOpen or leaves it alone.    *)
(***************************************************************************)
LEMMA CtrlOpenStep == [Next]_vars => [OpenNext]_openVars
BY DEF Next, AnyStep, vars, OpenNext, UseFile, Ioctl, Execute, IoctlEnd, Migrate

(***************************************************************************)
(* What the sequences of instructions of an ioctl are made of.             *)
(***************************************************************************)
LEMMA One == ASSUME NEW a PROVE
  <<a>> # <<>> /\ Head(<<a>>) = a /\ Tail(<<a>>) = <<>> /\ Len(<<a>>) = 1 /\ <<a>>[1] = a
OBVIOUS

LEMMA Two == ASSUME NEW a, NEW b PROVE
  /\ <<a, b>> # <<>> /\ Head(<<a, b>>) = a /\ Tail(<<a, b>>) = <<b>>
  /\ Len(<<a, b>>) = 2 /\ <<a, b>>[2] = b
OBVIOUS

LEMMA Three == ASSUME NEW a, NEW b, NEW c PROVE
  /\ <<a, b, c>> # <<>> /\ Head(<<a, b, c>>) = a /\ Tail(<<a, b, c>>) = <<b, c>>
  /\ Len(<<a, b, c>>) = 3 /\ <<a, b, c>>[3] = c
OBVIOUS

(***************************************************************************)
(* A request on Intel is executed as one or two writes, the last of which  *)
(* has its result; Dummy as nothing.                                       *)
(***************************************************************************)
LEMMA IntelInstructions ==
  ASSUME Intel, NEW req \in Requests, req # Dummy
  PROVE  /\ \/ Instructions(req) = <<Write(req.lo)>>
            \/ Instructions(req) = <<Write(PfBits), Write(req.lo)>>
         /\ req.lo \in SUBSET RegBits /\ PfBits \in SUBSET RegBits
         /\ Result(req) = req.lo \cap PfBits
BY CtrlPfAssumption DEF Requests, Dummy, Instructions, Result

(***************************************************************************)
(* A request on the Cortex-A72 is executed as a read, and one or two       *)
(* writes, the last of which has its result.                               *)
(***************************************************************************)
LEMMA ArmInstructions ==
  ASSUME ~Intel, NEW req \in Requests, req # Dummy
  PROVE  \/ Instructions(req) = <<Read, SetBits>> /\ Result(req) = PfBits
         \/ Instructions(req) = <<Read, Clear>> /\ Result(req) = {}
         \/ Instructions(req) = <<Read, SetBits, Clear>> /\ Result(req) = {}
BY DEF Requests, Dummy, Instructions, Result

LEMMA DummyInstructions == Instructions(Dummy) = <<>>
BY DEF Dummy, Instructions

-----------------------------------------------------------------------------
(***************************************************************************)
(* At most one process has the device open, and it can be opened when no   *)
(* process has, until two calls of device_open() race.                     *)
(***************************************************************************)
THEOREM CtrlOneUser == Spec => []OneUser
<1>1. Init => OneUser
  BY OneUserInit DEF Init
<1>2. OneUser /\ [Next]_vars => OneUser'
  BY CtrlOpenStep, OneUserStep
<1>3. QED
  BY <1>1, <1>2, PTL DEF Spec

(***************************************************************************)
(* The start of an ioctl does not break IoctlInv.                          *)
(***************************************************************************)
LEMMA IoctlKeepsInv ==
  ASSUME OneUser, IoctlInv, NEW p \in Procs, NEW req \in Requests, Ioctl(p, req)
  PROVE  IoctlInv'
<1> USE DEF IoctlInv
<1>1. /\ at' = [at EXCEPT ![p] = "ioctl"] /\ DOMAIN at = Procs
      /\ todo' = [todo EXCEPT ![p] = Instructions(req)]
      /\ last' = [last EXCEPT ![p] = IF req = Dummy THEN last[p] ELSE req]
      /\ reg' = reg /\ cpu' = cpu /\ state' = state
  BY DEF Ioctl, IoctlEnter, OneUser
<1>2. last' \in [Procs -> Requests \cup {NoRequest}]
  BY <1>1
<1>3. IF Intel THEN todo'[p] = <<>> \/ Writes(p)'
               ELSE todo'[p] = <<>> \/ Reads(p)' \/ Modifies(p)'
  <2>1. CASE req = Dummy
    BY <1>1, <2>1, DummyInstructions
  <2>2. CASE req # Dummy /\ Intel
    BY <1>1, <2>2, IntelInstructions DEF Writes
  <2>3. CASE req # Dummy /\ ~Intel
    BY <1>1, <2>3, ArmInstructions DEF Reads
  <2>4. QED
    BY <2>1, <2>2, <2>3
<1>4. \A q \in Procs \ {p} : todo'[q] = todo[q] /\ at'[q] = at[q]
  BY <1>1
<1>5. \A q \in Procs \ {p} :
        IF Intel THEN todo'[q] = <<>> \/ Writes(q)'
                 ELSE todo'[q] = <<>> \/ Reads(q)' \/ Modifies(q)'
  BY <1>4 DEF Writes, Reads, Modifies
<1>6. QED
  BY <1>1, <1>2, <1>3, <1>4, <1>5

(***************************************************************************)
(* The next instruction does one of four things.                           *)
(***************************************************************************)
LEMMA ExecuteCases ==
  ASSUME IoctlInv, NEW p \in Procs, todo[p] # <<>>
  PROVE
    \/ /\ Intel /\ Writes(p)
       /\ \E w \in SUBSET RegBits : NextState(p) = w /\ Outcome(p) = w \cap PfBits
       /\ Tail(todo[p]) = <<>>
    \/ /\ Intel /\ Writes(p)
       /\ NextState(p) \in SUBSET RegBits
       /\ \E w \in SUBSET RegBits :
            Tail(todo[p]) = <<Write(w)>> /\ Outcome(p) = w \cap PfBits
    \/ /\ ~Intel /\ Reads(p)
       /\ NextState(p) = reg[cpu[p]]
       /\ \/ Tail(todo[p]) = <<SetBits>> /\ Outcome(p) = PfBits
          \/ Tail(todo[p]) = <<Clear>> /\ Outcome(p) = {}
          \/ Tail(todo[p]) = <<SetBits, Clear>> /\ Outcome(p) = {}
    \/ /\ ~Intel /\ Modifies(p)
       /\ \/ /\ NextState(p) = state[p] \cup PfBits
             /\ \/ Tail(todo[p]) = <<>> /\ Outcome(p) = PfBits
                \/ Tail(todo[p]) = <<Clear>> /\ Outcome(p) = {}
          \/ /\ NextState(p) = state[p] \ PfBits
             /\ Tail(todo[p]) = <<>> /\ Outcome(p) = {}
<1> USE DEF NextState, Outcome
<1>1. CASE Intel
  <2>1. Writes(p)
    BY <1>1 DEF IoctlInv
  <2>2. ASSUME NEW w \in SUBSET RegBits, todo[p] = <<Write(w)>>
        PROVE  NextState(p) = w /\ Outcome(p) = w \cap PfBits /\ Tail(todo[p]) = <<>>
    BY <2>2, One DEF Write
  <2>3. ASSUME NEW v \in SUBSET RegBits, NEW w \in SUBSET RegBits,
               todo[p] = <<Write(v), Write(w)>>
        PROVE  NextState(p) = v /\ Tail(todo[p]) = <<Write(w)>> /\ Outcome(p) = w \cap PfBits
    <3>1. /\ todo[p] # <<>> /\ Head(todo[p]) = Write(v) /\ Tail(todo[p]) = <<Write(w)>>
          /\ todo[p][Len(todo[p])] = Write(w)
      BY <2>3, Two
    <3>2. Write(v).instr = "write" /\ Write(v).word = v
          /\ Write(w).instr = "write" /\ Write(w).word = w
      BY DEF Write
    <3>3. QED
      BY <3>1, <3>2
  <2> HIDE DEF NextState, Outcome
  <2>4. QED
    BY <1>1, <2>1, <2>2, <2>3 DEF Writes
<1>2. CASE ~Intel
  <2>1. Reads(p) \/ Modifies(p)
    BY <1>2 DEF IoctlInv
  <2>2. CASE Reads(p)
    <3>1. todo[p] \in {<<Read, SetBits>>, <<Read, Clear>>, <<Read, SetBits, Clear>>}
      BY <2>2 DEF Reads
    <3>2. Head(todo[p]) = Read
      BY <3>1, Two, Three
    <3>3. NextState(p) = reg[cpu[p]]
      BY <3>2 DEF Read
    <3>4. todo[p] = <<Read, SetBits>> => Tail(todo[p]) = <<SetBits>> /\ Outcome(p) = PfBits
      BY Two DEF SetBits
    <3>5. todo[p] = <<Read, Clear>> => Tail(todo[p]) = <<Clear>> /\ Outcome(p) = {}
      BY Two DEF Clear
    <3>6. todo[p] = <<Read, SetBits, Clear>> =>
            Tail(todo[p]) = <<SetBits, Clear>> /\ Outcome(p) = {}
      BY Three DEF Clear
    <3> HIDE DEF NextState, Outcome
    <3>7. QED
      BY <1>2, <2>2, <3>1, <3>3, <3>4, <3>5, <3>6
  <2>3. CASE Modifies(p)
    <3>1. todo[p] = <<SetBits>> => /\ NextState(p) = state[p] \cup PfBits
                                   /\ Tail(todo[p]) = <<>> /\ Outcome(p) = PfBits
      BY One DEF SetBits
    <3>2. todo[p] = <<Clear>> => /\ NextState(p) = state[p] \ PfBits
                                 /\ Tail(todo[p]) = <<>> /\ Outcome(p) = {}
      BY One DEF Clear
    <3>3. todo[p] = <<SetBits, Clear>> => /\ NextState(p) = state[p] \cup PfBits
                                          /\ Tail(todo[p]) = <<Clear>> /\ Outcome(p) = {}
      BY Two DEF SetBits, Clear
    <3> HIDE DEF NextState, Outcome
    <3>4. QED
      BY <1>2, <2>3, <3>1, <3>2, <3>3 DEF Modifies
  <2>4. QED
    BY <2>1, <2>2, <2>3
<1>3. QED
  BY <1>1, <1>2

(***************************************************************************)
(* An instruction does not break IoctlInv.                                 *)
(***************************************************************************)
LEMMA ExecuteKeepsInv ==
  ASSUME IoctlInv, NEW p \in Procs, Execute(p)
  PROVE  IoctlInv'
<1>1. /\ state' = [state EXCEPT ![p] = NextState(p)]
      /\ reg' = [reg EXCEPT ![cpu[p]] = NextState(p)]
      /\ todo' = [todo EXCEPT ![p] = Tail(todo[p])]
      /\ at' = at /\ cpu' = cpu /\ last' = last
      /\ todo[p] # <<>>
  BY DEF Execute, openVars
<1>2. /\ reg \in [Cpus -> SUBSET RegBits] /\ cpu \in [Procs -> Cpus]
      /\ state \in [Procs -> SUBSET RegBits] /\ DOMAIN todo = Procs
  BY DEF IoctlInv
<1>3. PfBits \in SUBSET RegBits
  BY CtrlPfAssumption
<1>4. NextState(p) \in SUBSET RegBits
  <2>1. reg[cpu[p]] \in SUBSET RegBits /\ state[p] \in SUBSET RegBits
    BY <1>2
  <2>2. QED
    BY <1>1, <1>3, <2>1, ExecuteCases
<1>5. IF Intel THEN todo'[p] = <<>> \/ Writes(p)'
               ELSE todo'[p] = <<>> \/ Reads(p)' \/ Modifies(p)'
  <2>1. todo'[p] = Tail(todo[p])
    BY <1>1, <1>2
  <2>2. QED
    BY <1>1, <2>1, ExecuteCases DEF Writes, Modifies
<1>6. \A q \in Procs \ {p} :
        IF Intel THEN todo'[q] = <<>> \/ Writes(q)'
                 ELSE todo'[q] = <<>> \/ Reads(q)' \/ Modifies(q)'
  <2>1. \A q \in Procs \ {p} : todo'[q] = todo[q]
    BY <1>1, <1>2
  <2>2. QED
    BY <2>1 DEF IoctlInv, Writes, Reads, Modifies
<1>7. \A q \in Procs : todo'[q] # <<>> => at'[q] = "ioctl"
  BY <1>1, <1>2 DEF IoctlInv
<1>8. state' \in [Procs -> SUBSET RegBits] /\ reg' \in [Cpus -> SUBSET RegBits]
  BY <1>1, <1>2, <1>4
<1>9. QED
  BY <1>1, <1>2, <1>5, <1>6, <1>7, <1>8 DEF IoctlInv

(***************************************************************************)
(* The other steps leave what is yet to be executed alone, and the         *)
(* registers.                                                              *)
(***************************************************************************)
LEMMA OthersKeepInv ==
  ASSUME OneUser, IoctlInv, NEW p \in Procs,
         UseFile(p) \/ IoctlEnd(p) \/ Migrate(p)
  PROVE  IoctlInv'
<1>1. reg' = reg /\ todo' = todo
  BY DEF UseFile, IoctlEnd, Migrate
<1>2. \A q \in Procs : todo[q] # <<>> => at'[q] = "ioctl"
  BY DEF IoctlInv, OneUser, UseFile, IoctlEnd, IoctlReturn, Migrate, OpenClose, OpenBusy,
         OpenCheck, OpenCount, ReleaseLoad, ReleaseStore, openVars
<1>3. state' \in [Procs -> SUBSET RegBits]
  BY DEF UseFile, IoctlEnd, Migrate, IoctlInv
<1>4. cpu' \in [Procs -> Cpus]
  BY DEF UseFile, IoctlEnd, Migrate, IoctlInv
<1>5. last' \in [Procs -> Requests \cup {NoRequest}]
  BY DEF UseFile, IoctlEnd, Migrate, IoctlInv
<1>6. \A q \in Procs : at'[q] \in {"closed", "checked"} => last'[q] = NoRequest
  <2>1. CASE UseFile(p)
    <3>1. last' = [last EXCEPT ![p] = IF at'[p] = "open" THEN last[p] ELSE NoRequest]
      BY <2>1 DEF UseFile
    <3>2. \A q \in Procs \ {p} : at'[q] = at[q]
      BY <2>1 DEF OneUser, UseFile, OpenClose, OpenBusy, OpenCheck, OpenCount, ReleaseLoad,
                  ReleaseStore, openVars
    <3>3. QED
      BY <3>1, <3>2 DEF IoctlInv
  <2>2. CASE IoctlEnd(p) \/ Migrate(p)
    BY <2>2 DEF IoctlEnd, IoctlReturn, Migrate, IoctlInv, OneUser, openVars
  <2>3. QED
    BY <2>1, <2>2
<1>7. QED
  BY <1>1, <1>2, <1>3, <1>4, <1>5, <1>6 DEF IoctlInv, Writes, Reads, Modifies

(***************************************************************************)
(* What an ioctl has yet to execute always leads to one of its outcomes.   *)
(***************************************************************************)
THEOREM CtrlIoctlInv == Spec => [](OneUser /\ IoctlInv)
<1>1. Init => IoctlInv
  BY DEF Init, IoctlInv
<1>2. ASSUME OneUser, IoctlInv, [Next]_vars
      PROVE  IoctlInv'
  <2>1. CASE UNCHANGED vars
    BY <1>2, <2>1
       DEF vars, openVars, ctrlVars, IoctlInv, Writes, Reads, Modifies
  <2>2. ASSUME NEW p \in Procs, AnyStep(p)
        PROVE  IoctlInv'
    BY <1>2, <2>2, IoctlKeepsInv, ExecuteKeepsInv, OthersKeepInv DEF AnyStep
  <2>3. QED
    BY <1>2, <2>1, <2>2 DEF Next
<1>3. QED
  BY <1>1, <1>2, CtrlOneUser, PTL DEF Spec

-----------------------------------------------------------------------------
(***************************************************************************)
(* In the absence of races one process is past the check, so the others    *)
(* have nothing to execute.                                                *)
(***************************************************************************)
LEMMA OnlyOneExecutes ==
  ASSUME OneUser, IoctlInv, ~raced, NEW p \in Procs, NEW q \in Procs,
         at[p] # "closed", todo[q] # <<>>
  PROVE  q = p
BY DEF OneUser, IoctlInv

(***************************************************************************)
(* A request's outcome is its result; Dummy changes nothing, and neither   *)
(* has an effect on other processes' outcomes.                             *)
(***************************************************************************)
LEMMA RequestOutcome ==
  ASSUME OneUser, IoctlInv, NEW p \in Procs, NEW req \in Requests, Ioctl(p, req)
  PROVE  /\ last' = [last EXCEPT ![p] = IF req = Dummy THEN last[p] ELSE req]
         /\ Outcome(p)' = IF req = Dummy THEN Outcome(p) ELSE Result(req)
         /\ \A q \in Procs \ {p} : Outcome(q)' = Outcome(q)
<1>1. /\ at[p] = "open"
      /\ todo' = [todo EXCEPT ![p] = Instructions(req)] /\ DOMAIN todo = Procs
      /\ last' = [last EXCEPT ![p] = IF req = Dummy THEN last[p] ELSE req]
      /\ reg' = reg /\ cpu' = cpu
  BY DEF Ioctl, IoctlEnter, OneUser, IoctlInv
<1>2. todo[p] = <<>>
  BY <1>1 DEF IoctlInv
<1>3. ASSUME req # Dummy
      PROVE  Outcome(p)' = Result(req)
  <2>1. todo'[p] = Instructions(req)
    BY <1>1
  <2>2. CASE Intel
    <3>1. Result(req) = req.lo \cap PfBits
      BY <1>3, <2>2, IntelInstructions
    <3>2. \/ todo'[p] = <<Write(req.lo)>>
          \/ todo'[p] = <<Write(PfBits), Write(req.lo)>>
      BY <1>3, <2>1, <2>2, IntelInstructions
    <3>3. todo'[p] # <<>> /\ todo'[p][Len(todo'[p])] = Write(req.lo)
      <4>1. CASE todo'[p] = <<Write(req.lo)>>
        BY <4>1, One
      <4>2. CASE todo'[p] = <<Write(PfBits), Write(req.lo)>>
        BY <4>2, Two
      <4>3. QED
        BY <3>2, <4>1, <4>2
    <3>4. QED
      BY <3>1, <3>3 DEF Outcome, Write
  <2>3. CASE ~Intel
    <3>1. \/ todo'[p] = <<Read, SetBits>> /\ Result(req) = PfBits
          \/ todo'[p] = <<Read, Clear>> /\ Result(req) = {}
          \/ todo'[p] = <<Read, SetBits, Clear>> /\ Result(req) = {}
      BY <1>3, <2>1, <2>3, ArmInstructions
    <3>2. /\ todo'[p] # <<>>
          /\ \/ todo'[p][Len(todo'[p])] = SetBits /\ Result(req) = PfBits
             \/ todo'[p][Len(todo'[p])] = Clear /\ Result(req) = {}
      <4>1. CASE todo'[p] = <<Read, SetBits>> /\ Result(req) = PfBits
        BY <4>1, Two
      <4>2. CASE todo'[p] = <<Read, Clear>> /\ Result(req) = {}
        BY <4>2, Two
      <4>3. CASE todo'[p] = <<Read, SetBits, Clear>> /\ Result(req) = {}
        BY <4>3, Three
      <4>4. QED
        BY <3>1, <4>1, <4>2, <4>3
    <3>3. QED
      BY <3>2 DEF Outcome, SetBits, Clear
  <2>4. QED
    BY <2>2, <2>3
<1>4. ASSUME req = Dummy
      PROVE  Outcome(p)' = Outcome(p)
  BY <1>1, <1>2, <1>4, DummyInstructions DEF Outcome
<1>5. ASSUME NEW q \in Procs \ {p}
      PROVE  Outcome(q)' = Outcome(q)
  BY <1>1 DEF Outcome
<1>6. QED
  BY <1>1, <1>3, <1>4, <1>5

(***************************************************************************)
(* So what pinned processes asked for stays the outcome.                   *)
(***************************************************************************)
LEMMA IoctlOutcome ==
  ASSUME OneUser, IoctlInv, OutcomeHeld, NEW p \in Procs, NEW req \in Requests,
         Ioctl(p, req)
  PROVE  OutcomeHeld'
<1>1. /\ at' = [at EXCEPT ![p] = "ioctl"] /\ DOMAIN at = Procs /\ at[p] = "open"
      /\ DOMAIN last = Procs /\ raced' = raced
  BY DEF Ioctl, IoctlEnter, OneUser, IoctlInv
<1>2. ASSUME NEW q \in Pinned, ~raced', at'[q] \in {"open", "ioctl"},
             last'[q] # NoRequest
      PROVE  Outcome(q)' = Result(last'[q])
  <2>1. q \in Procs
    BY CtrlPfAssumption
  <2>2. CASE q = p /\ req = Dummy
    BY <1>1, <1>2, <2>2, RequestOutcome DEF OutcomeHeld
  <2>3. CASE q = p /\ req # Dummy
    BY <1>1, <2>3, RequestOutcome
  <2>4. CASE q # p
    BY <1>1, <1>2, <2>1, <2>4, RequestOutcome DEF OutcomeHeld
  <2>5. QED
    BY <2>2, <2>3, <2>4
<1>3. QED
  BY <1>2 DEF OutcomeHeld

(***************************************************************************)
(* An instruction keeps the outcome of its ioctl.                          *)
(***************************************************************************)
LEMMA InstructionOutcome ==
  ASSUME IoctlInv, NEW p \in Procs, Execute(p)
  PROVE  Outcome(p)' = Outcome(p)
<1>1. /\ reg' = [reg EXCEPT ![cpu[p]] = NextState(p)]
      /\ todo' = [todo EXCEPT ![p] = Tail(todo[p])]
      /\ cpu' = cpu
      /\ todo[p] # <<>>
  BY DEF Execute
<1>2. DOMAIN todo = Procs /\ reg \in [Cpus -> SUBSET RegBits] /\ cpu \in [Procs -> Cpus]
  BY DEF IoctlInv
<1>3. todo'[p] = Tail(todo[p]) /\ reg'[cpu'[p]] = NextState(p)
  BY <1>1, <1>2
<1>4. ASSUME NEW w \in SUBSET RegBits, NextState(p) = w, todo'[p] = <<>>
      PROVE  Outcome(p)' = w \cap PfBits
  BY <1>3, <1>4 DEF Outcome
<1>5. ASSUME NEW w \in SUBSET RegBits, todo'[p] = <<Write(w)>>
      PROVE  Outcome(p)' = w \cap PfBits
  BY <1>5, One DEF Outcome, Write
<1>6. todo'[p] = <<SetBits>> => Outcome(p)' = PfBits
  BY One DEF Outcome, SetBits
<1>7. todo'[p] = <<Clear>> => Outcome(p)' = {}
  BY One DEF Outcome, Clear
<1>8. todo'[p] = <<SetBits, Clear>> => Outcome(p)' = {}
  BY Two DEF Outcome, Clear
<1>9. todo'[p] = <<>> /\ NextState(p) = state[p] \cup PfBits => Outcome(p)' = PfBits
  BY <1>3 DEF Outcome
<1>10. todo'[p] = <<>> /\ NextState(p) = state[p] \ PfBits => Outcome(p)' = {}
  BY <1>3 DEF Outcome
<1>11. QED
  BY <1>1, <1>3, <1>4, <1>5, <1>6, <1>7, <1>8, <1>9, <1>10, ExecuteCases

(***************************************************************************)
(* And no other process has an outcome to keep.                            *)
(***************************************************************************)
LEMMA ExecuteOutcome ==
  ASSUME OneUser, IoctlInv, OutcomeHeld, NEW p \in Procs, Execute(p)
  PROVE  OutcomeHeld'
<1>1. at' = at /\ last' = last /\ raced' = raced /\ todo[p] # <<>>
  BY DEF Execute, openVars
<1>2. ASSUME NEW q \in Pinned, ~raced', at'[q] \in {"open", "ioctl"},
             last'[q] # NoRequest
      PROVE  Outcome(q)' = Result(last'[q])
  <2>1. q \in Procs
    BY CtrlPfAssumption
  <2>2. q = p
    BY <1>1, <1>2, <2>1, OnlyOneExecutes
  <2>3. QED
    BY <1>1, <1>2, <2>2, InstructionOutcome DEF OutcomeHeld
<1>3. QED
  BY <1>2 DEF OutcomeHeld

(***************************************************************************)
(* The steps of open() and close() and the return of an ioctl change no    *)
(* outcome, and pinned processes do not migrate.                           *)
(***************************************************************************)
LEMMA OthersOutcome ==
  ASSUME IoctlInv, NEW p \in Procs, UseFile(p) \/ IoctlEnd(p) \/ Migrate(p),
         NEW q \in Pinned
  PROVE  Outcome(q)' = Outcome(q)
<1>1. reg' = reg /\ todo' = todo
  BY DEF UseFile, IoctlEnd, Migrate
<1>2. cpu'[q] = cpu[q]
  <2>1. CASE Migrate(p)
    BY <2>1 DEF Migrate, IoctlInv
  <2>2. CASE UseFile(p) \/ IoctlEnd(p)
    BY <2>2 DEF UseFile, IoctlEnd
  <2>3. QED
    BY <2>1, <2>2
<1>3. QED
  BY <1>1, <1>2 DEF Outcome

(***************************************************************************)
(* They keep the requests of the processes that have the device open.      *)
(***************************************************************************)
LEMMA OthersKeepOutcome ==
  ASSUME OneUser, IoctlInv, OutcomeHeld, NEW p \in Procs,
         UseFile(p) \/ IoctlEnd(p) \/ Migrate(p)
  PROVE  OutcomeHeld'
<1>1. DOMAIN at = Procs /\ DOMAIN last = Procs
  BY DEF OneUser, IoctlInv
<1>2. ASSUME NEW q \in Pinned, ~raced', at'[q] \in {"open", "ioctl"},
             last'[q] # NoRequest
      PROVE  ~raced /\ at[q] \in {"open", "ioctl"} /\ last[q] = last'[q]
  <2>1. q \in Procs
    BY CtrlPfAssumption
  <2>2. CASE UseFile(p)
    <3>1. last' = [last EXCEPT ![p] = IF at'[p] = "open" THEN last[p] ELSE NoRequest]
      BY <2>2 DEF UseFile
    <3>2. CASE OpenCount(p)
      BY <1>1, <1>2, <2>1, <3>1, <3>2 DEF OpenCount, IoctlInv
    <3>3. CASE OpenCheck(p)
      BY <1>1, <1>2, <2>1, <3>1, <3>3 DEF OpenCheck
    <3>4. CASE OpenBusy(p) \/ ReleaseLoad(p) \/ ReleaseStore(p)
      BY <1>1, <1>2, <2>1, <3>1, <3>4 DEF OpenBusy, ReleaseLoad, ReleaseStore, openVars
    <3>5. QED
      BY <2>2, <3>2, <3>3, <3>4 DEF UseFile, OpenClose
  <2>3. CASE IoctlEnd(p)
    BY <1>1, <1>2, <2>1, <2>3 DEF IoctlEnd, IoctlReturn
  <2>4. CASE Migrate(p)
    BY <1>2, <2>4 DEF Migrate, openVars
  <2>5. QED
    BY <2>2, <2>3, <2>4
<1>3. QED
  BY <1>2, OthersOutcome DEF OutcomeHeld

(***************************************************************************)
(* What a pinned process asked for stays in force on its CPU until it asks *)
(* for something else, unless two calls of device_open() have raced.       *)
(***************************************************************************)
THEOREM CtrlStateHeld == Spec => []StateHeld
<1>1. Init => OutcomeHeld
  BY CtrlPfAssumption DEF Init, OpenInit, OutcomeHeld
<1>2. ASSUME OneUser, IoctlInv, OutcomeHeld, [Next]_vars
      PROVE  OutcomeHeld'
  <2>1. CASE UNCHANGED vars
    BY <1>2, <2>1 DEF vars, openVars, ctrlVars, OutcomeHeld, Outcome
  <2>2. ASSUME NEW p \in Procs, AnyStep(p)
        PROVE  OutcomeHeld'
    BY <1>2, <2>2, IoctlOutcome, ExecuteOutcome, OthersKeepOutcome DEF AnyStep
  <2>3. QED
    BY <1>2, <2>1, <2>2 DEF Next
<1>3. IoctlInv /\ OutcomeHeld => StateHeld
  BY CtrlPfAssumption DEF IoctlInv, OutcomeHeld, StateHeld, Outcome
<1>4. QED
  BY <1>1, <1>2, <1>3, CtrlIoctlInv, PTL DEF Spec

-----------------------------------------------------------------------------
(***************************************************************************)
(* On the Cortex-A72, an instruction changes prefetcher bits only: what it *)
(* writes was read from some CPU, and all have the same other bits.        *)
(***************************************************************************)
LEMMA ExecuteOtherBits ==
  ASSUME ~Intel, IoctlInv, OtherBitsEqual, NEW p \in Procs, Execute(p)
  PROVE  OtherBitsEqual' /\ \A c \in Cpus : reg'[c] \ PfBits = reg[c] \ PfBits
<1>1. /\ state' = [state EXCEPT ![p] = NextState(p)]
      /\ reg' = [reg EXCEPT ![cpu[p]] = NextState(p)]
      /\ todo' = [todo EXCEPT ![p] = Tail(todo[p])]
      /\ todo[p] # <<>>
  BY DEF Execute
<1>2. /\ DOMAIN reg = Cpus /\ cpu[p] \in Cpus
      /\ DOMAIN state = Procs /\ DOMAIN todo = Procs
  BY DEF IoctlInv
<1>3. /\ NextState(p) = reg[cpu[p]]
      \/ /\ Modifies(p)
         /\ NextState(p) \in {state[p] \cup PfBits, state[p] \ PfBits}
  BY <1>1, ExecuteCases
<1>4. \A c \in Cpus : NextState(p) \ PfBits = reg[c] \ PfBits
  <2>1. CASE NextState(p) = reg[cpu[p]]
    BY <1>2, <2>1 DEF OtherBitsEqual
  <2>2. CASE Modifies(p) /\ NextState(p) \in {state[p] \cup PfBits, state[p] \ PfBits}
    <3>1. NextState(p) \ PfBits = state[p] \ PfBits
      BY <2>2
    <3>2. QED
      BY <2>2, <3>1 DEF OtherBitsEqual
  <2>3. QED
    BY <1>3, <2>1, <2>2
<1>5. \A c \in Cpus : reg'[c] \ PfBits = reg[c] \ PfBits
  BY <1>1, <1>2, <1>4
<1>6. \A q \in Procs \ {p} : state'[q] = state[q] /\ todo'[q] = todo[q]
  BY <1>1, <1>2
<1>7. \A q \in Procs, c \in Cpus : Modifies(q)' => state'[q] \ PfBits = reg'[c] \ PfBits
  <2>1. \A q \in Procs \ {p} : Modifies(q)' => Modifies(q)
    BY <1>6 DEF Modifies
  <2>2. state'[p] = NextState(p)
    BY <1>1, <1>2
  <2>3. QED
    BY <1>4, <1>5, <1>6, <2>1, <2>2 DEF OtherBitsEqual
<1>8. \A c, d \in Cpus : reg'[c] \ PfBits = reg'[d] \ PfBits
  BY <1>5 DEF OtherBitsEqual
<1>9. QED
  BY <1>5, <1>7, <1>8 DEF OtherBitsEqual

(***************************************************************************)
(* The other steps write no register.                                      *)
(***************************************************************************)
LEMMA OthersOtherBits ==
  ASSUME ~Intel, OneUser, IoctlInv, OtherBitsEqual, NEW p \in Procs,
         UseFile(p) \/ IoctlEnd(p) \/ Migrate(p) \/ \E req \in Requests : Ioctl(p, req)
  PROVE  OtherBitsEqual' /\ \A c \in Cpus : reg'[c] \ PfBits = reg[c] \ PfBits
<1>1. reg' = reg
  BY DEF UseFile, IoctlEnd, Migrate, Ioctl
<1>2. ASSUME NEW q \in Procs, Modifies(q)'
      PROVE  Modifies(q) /\ state'[q] = state[q]
  <2>1. CASE UseFile(p) \/ Migrate(p)
    BY <1>2, <2>1 DEF UseFile, Migrate, Modifies
  <2>2. CASE IoctlEnd(p)
    <3>1. q # p
      BY <1>2, <2>2, One, Two DEF IoctlEnd, Modifies
    <3>2. QED
      BY <1>2, <2>2, <3>1 DEF IoctlEnd, Modifies, IoctlInv
  <2>3. ASSUME NEW req \in Requests, Ioctl(p, req)
        PROVE  Modifies(q) /\ state'[q] = state[q]
    <3>1. todo' = [todo EXCEPT ![p] = Instructions(req)] /\ DOMAIN todo = Procs
          /\ state' = state
      BY <2>3 DEF Ioctl, IoctlInv
    <3>2. Instructions(req) \notin {<<SetBits>>, <<Clear>>, <<SetBits, Clear>>}
      <4>1. CASE req = Dummy
        BY <4>1, DummyInstructions, One, Two
      <4>2. CASE req # Dummy
        <5>1. Head(Instructions(req)) = Read
          BY <4>2, ArmInstructions, Two, Three
        <5>2. \A s \in {<<SetBits>>, <<Clear>>, <<SetBits, Clear>>} : Head(s) # Read
          BY One, Two DEF Read, SetBits, Clear
        <5>3. QED
          BY <5>1, <5>2
      <4>3. QED
        BY <4>1, <4>2
    <3>3. q # p
      BY <1>2, <3>1, <3>2 DEF Modifies
    <3>4. QED
      BY <1>2, <3>1, <3>3 DEF Modifies
  <2>4. QED
    BY <2>1, <2>2, <2>3
<1>3. QED
  BY <1>1, <1>2 DEF OtherBitsEqual

(***************************************************************************)
(* On the Cortex-A72 no ioctl changes another bit of any CPU's register,   *)
(* whatever migrations and users of the device interleave.                 *)
(***************************************************************************)
THEOREM CtrlKeepsOtherBits ==
  ASSUME ~Intel
  PROVE  Spec => KeepsOtherBits
<1>1. Init => OtherBitsEqual
  BY One, Two DEF Init, OtherBitsEqual, Modifies
<1>2. ASSUME OneUser, IoctlInv, OtherBitsEqual, [Next]_vars
      PROVE  OtherBitsEqual' /\ [\A c \in Cpus : reg'[c] \ PfBits = reg[c] \ PfBits]_vars
  <2>1. CASE UNCHANGED vars
    BY <1>2, <2>1 DEF vars, ctrlVars, OtherBitsEqual, Modifies
  <2>2. ASSUME NEW p \in Procs, AnyStep(p)
        PROVE  OtherBitsEqual' /\ \A c \in Cpus : reg'[c] \ PfBits = reg[c] \ PfBits
    BY <1>2, <2>2, ExecuteOtherBits, OthersOtherBits DEF AnyStep
  <2>3. QED
    BY <1>2, <2>1, <2>2 DEF Next
<1>3. QED
  BY <1>1, <1>2, CtrlIoctlInv, PTL DEF Spec, KeepsOtherBits
-----------------------------------------------------------------------------
(***************************************************************************)
(* The tests of FetchBench.  Their programs, step by step.                 *)
(***************************************************************************)
LEMMA ProgramSteps ==
  /\ Programs[1] = <<Disable, Train, Enable, Probe>>
  /\ Programs[2] = <<Dummy, Train, Dummy, Probe>>
  /\ Programs[3] = <<Train, Toggle, Probe>>
  /\ Programs[4] = <<Train, Dummy, Probe>>
BY DEF Programs

LEMMA CurrentSteps ==
  /\ work \in {1, 2} => Len(Programs[work]) = 4
  /\ work \in {3, 4} => Len(Programs[work]) = 3
  /\ work = 1 => /\ step = 1 => Current = Disable
                 /\ step = 2 => Current = Train
                 /\ step = 3 => Current = Enable
                 /\ step = 4 => Current = Probe
  /\ work = 2 => /\ step \in {1, 3} => Current = Dummy
                 /\ step = 2 => Current = Train
                 /\ step = 4 => Current = Probe
  /\ work = 3 => /\ step = 1 => Current = Train
                 /\ step = 2 => Current = Toggle
                 /\ step = 3 => Current = Probe
  /\ work = 4 => /\ step = 1 => Current = Train
                 /\ step = 2 => Current = Dummy
                 /\ step = 3 => Current = Probe
<1>1. CASE work = 1
  BY <1>1, ProgramSteps DEF Current
<1>2. CASE work = 2
  BY <1>2, ProgramSteps DEF Current
<1>3. CASE work = 3
  BY <1>3, ProgramSteps DEF Current
<1>4. CASE work = 4
  BY <1>4, ProgramSteps DEF Current
<1>5. QED
  BY <1>1, <1>2, <1>3, <1>4

(***************************************************************************)
(* The steps of the programs are different, and those that are ioctls are  *)
(* requests.                                                               *)
(***************************************************************************)
LEMMA StepKinds ==
  /\ Disable \in Requests /\ Enable \in Requests /\ Toggle \in Requests
  /\ Dummy \in Requests
  /\ \A r \in {Disable, Enable, Toggle} :
       r # Train /\ r # Probe /\ r # Dummy /\ r # NoRequest
  /\ Dummy # Train /\ Dummy # Probe /\ Train # Probe
<1>1. CASE Intel
  <2>1. PfBits \in Values /\ PfBits \ {Stride} \in Values
    BY <1>1, StrideAssumption
  <2>2. Disable \in Requests /\ Enable \in Requests /\ Toggle \in Requests
    BY <1>1, <2>1 DEF Disable, Enable, Toggle, Requests
  <2>3. Disable.op = "msrvalue" /\ Enable.op = "msrvalue" /\ Toggle.op = "toggle"
    BY <1>1 DEF Disable, Enable, Toggle
  <2>4. QED
    BY <2>2, <2>3 DEF Dummy, Train, Probe, NoRequest, Requests
<1>2. CASE ~Intel
  <2>1. Disable \in Requests /\ Enable \in Requests /\ Toggle \in Requests
    BY <1>2 DEF Disable, Enable, Toggle, Requests
  <2>2. Disable.op = "disable" /\ Enable.op = "enable" /\ Toggle.op = "toggle"
    BY <1>2 DEF Disable, Enable, Toggle
  <2>3. QED
    BY <2>1, <2>2 DEF Dummy, Train, Probe, NoRequest, Requests
<1>3. QED
  BY <1>1, <1>2

(***************************************************************************)
(* What the requests leave in the register.                                *)
(***************************************************************************)
LEMMA StrideResults ==
  /\ Result(Disable) = PfBits
  /\ Result(Enable) = StrideWorks
  /\ Result(Toggle) = StrideWorks
BY DEF Result, Disable, Enable, Toggle, StrideWorks

LEMMA TestNumbers ==
  TestOf(1) = 1 /\ TestOf(2) = 1 /\ TestOf(3) = 2 /\ TestOf(4) = 2 /\ TestOf(5) = 3
BY DEF TestOf

LEMMA TesterIsProcess == Tester \in Procs
BY CtrlPfAssumption, StrideAssumption

(***************************************************************************)
(* Going on to the next step keeps the position in the programs legal, and *)
(* a workload that is over leaves its last request to the next.            *)
(***************************************************************************)
LEMMA AdvanceKeepsProgram ==
  ASSUME ProgramInv, Inside, Advance, at' = [at EXCEPT ![Tester] = "open"],
         last' = last,
         IF Current \in {Train, Probe, Dummy} THEN last[Tester] \in LastRequests
                                              ELSE last[Tester] = Current
  PROVE  ProgramInv'
<1>1. /\ at' \in [Procs -> {"closed", "checked", "open", "ioctl", "closing"}]
      /\ at'[Tester] = "open" /\ DOMAIN last' = Procs /\ handle' = handle
  BY TesterIsProcess DEF ProgramInv, Advance
<1>2. work \in 1..4 /\ step \in 1..4 /\ handle = TestOf(work) /\ handle \in 0..2
  BY TestNumbers DEF ProgramInv, Inside
<1>3. /\ work \in {1, 2} => \/ step < 4 /\ step' = step + 1 /\ work' = work
                            \/ step = 4 /\ step' = 1 /\ work' \in {work, work + 1}
      /\ work \in {3, 4} => \/ step < 3 /\ step' = step + 1 /\ work' = work
                            \/ step = 3 /\ step' = 1 /\ work' \in {work, work + 1}
  <2>1. \/ step < Len(Programs[work]) /\ step' = step + 1 /\ work' = work
        \/ ~(step < Len(Programs[work])) /\ step' = 1 /\ work' \in {work, work + 1}
    BY DEF Advance
  <2>2. CASE work \in {1, 2}
    <3>1. Len(Programs[work]) = 4
      BY <2>2, CurrentSteps
    <3>2. QED
      BY <1>2, <2>1, <2>2, <3>1
  <2>3. CASE work \in {3, 4}
    <3>1. Len(Programs[work]) = 3
      BY <2>3, CurrentSteps
    <3>2. step \in 1..3
      BY <2>3 DEF ProgramInv
    <3>3. QED
      BY <2>1, <2>3, <3>1, <3>2
  <2>4. QED
    BY <1>2, <2>2, <2>3
<1> DEFINE legal == /\ work' \in 1..5 /\ step' \in 1..4
                    /\ work' \in {3, 4} => step' # 4
                    /\ work' = 5 => step' = 1
                    /\ step' > 1 \/ work' \in {2, 4} => TestOf(work') = TestOf(work)
                    /\ TestOf(work') = TestOf(work) => last[Tester] \in LastRequests'
<1>4. ASSUME work = 1 PROVE legal
  <2>1. \/ step = 1 /\ work' = 1 /\ step' = 2 /\ last[Tester] = Disable
        \/ step = 2 /\ work' = 1 /\ step' = 3 /\ last[Tester] = Disable
        \/ step = 3 /\ work' = 1 /\ step' = 4 /\ last[Tester] = Enable
        \/ step = 4 /\ work' \in {1, 2} /\ step' = 1 /\ last[Tester] = Enable
    BY <1>2, <1>3, <1>4, CurrentSteps, StepKinds DEF LastRequests
  <2>2. QED
    BY <2>1, <1>4, TestNumbers DEF LastRequests
<1>5. ASSUME work = 2 PROVE legal
  <2>1. last[Tester] = Enable
    <3>1. Current \in {Train, Probe, Dummy}
      BY <1>2, <1>5, CurrentSteps
    <3>2. QED
      BY <3>1, <1>5 DEF LastRequests
  <2>2. \/ work' = 2 /\ step' \in {2, 3, 4}
        \/ work' \in {2, 3} /\ step' = 1
    BY <1>2, <1>3, <1>5, CurrentSteps
  <2>3. QED
    BY <2>1, <2>2, <1>5, TestNumbers DEF LastRequests
<1>6. ASSUME work = 3 PROVE legal
  <2>1. \/ step = 1 /\ work' = 3 /\ step' = 2 /\ last[Tester] \in {NoRequest, Toggle}
        \/ step = 2 /\ work' = 3 /\ step' = 3 /\ last[Tester] = Toggle
        \/ step = 3 /\ work' \in {3, 4} /\ step' = 1 /\ last[Tester] = Toggle
    <3>1. step \in {1, 2, 3}
      BY <1>6 DEF ProgramInv
    <3>2. QED
      BY <3>1, <1>3, <1>6, CurrentSteps, StepKinds DEF LastRequests
  <2>2. QED
    BY <2>1, <1>6, TestNumbers DEF LastRequests
<1>7. ASSUME work = 4 PROVE legal
  <2>1. step \in {1, 2, 3}
    BY <1>7 DEF ProgramInv
  <2>2. last[Tester] = Toggle
    <3>1. Current \in {Train, Probe, Dummy}
      BY <2>1, <1>7, CurrentSteps
    <3>2. QED
      BY <3>1, <1>7 DEF LastRequests
  <2>3. \/ work' = 4 /\ step' \in {2, 3}
        \/ work' \in {4, 5} /\ step' = 1
    BY <2>1, <1>3, <1>7, CurrentSteps
  <2>4. QED
    BY <2>2, <2>3, <1>7, TestNumbers DEF LastRequests
<1>8. legal
  BY <1>2, <1>4, <1>5, <1>6, <1>7
<1>9. QED
  BY <1>1, <1>2, <1>8 DEF ProgramInv, Inside

(***************************************************************************)
(* Opening and closing the device happens between tests only.              *)
(***************************************************************************)
LEMMA OpenKeepsProgram ==
  ASSUME ProgramInv, OpenHandle
  PROVE  ProgramInv'
<1>1. /\ work \in {1, 3} /\ step = 1 /\ handle' = TestOf(work) /\ last[Tester] = NoRequest
      /\ work' = work /\ step' = step /\ at[Tester] \in {"closed", "checked"}
      /\ last' = [last EXCEPT ![Tester] = IF at'[Tester] = "open" THEN @ ELSE NoRequest]
  BY DEF OpenHandle, UseFile, ProgramInv, Inside
<1>2. OpenCheck(Tester) \/ OpenCount(Tester)
  BY DEF OpenHandle, UseFile, OpenClose, OpenBusy, ReleaseLoad, ReleaseStore
<1>3. \/ at' = [at EXCEPT ![Tester] = "checked"]
      \/ at' = [at EXCEPT ![Tester] = "open"]
  BY <1>2 DEF OpenCheck, OpenCount
<1>4. /\ at' \in [Procs -> {"closed", "checked", "open", "ioctl", "closing"}]
      /\ at'[Tester] \in {"checked", "open"} /\ DOMAIN last' = Procs
      /\ last'[Tester] = NoRequest
  BY <1>1, <1>3, TesterIsProcess DEF ProgramInv
<1>5. QED
  BY <1>1, <1>4, TestNumbers DEF ProgramInv, Inside, LastRequests

LEMMA CloseKeepsProgram ==
  ASSUME ProgramInv, CloseHandle
  PROVE  ProgramInv'
<1>1. /\ work' = work /\ step' = step /\ handle' = handle /\ handle # TestOf(work)
      /\ last' = [last EXCEPT ![Tester] = IF at'[Tester] = "open" THEN @ ELSE NoRequest]
      /\ at[Tester] \in {"open", "closing"}
  BY DEF CloseHandle, UseFile, testVars
<1>2. \/ at' = [at EXCEPT ![Tester] = "closing"]
      \/ at' = [at EXCEPT ![Tester] = "closed"]
  BY <1>1 DEF CloseHandle, UseFile, OpenClose, OpenBusy, OpenCheck, OpenCount, ReleaseLoad,
              ReleaseStore
<1>3. /\ at' \in [Procs -> {"closed", "checked", "open", "ioctl", "closing"}]
      /\ at'[Tester] \in {"closing", "closed"} /\ DOMAIN last' = Procs
      /\ last'[Tester] = NoRequest
  BY <1>1, <1>2, TesterIsProcess DEF ProgramInv
<1>4. QED
  BY <1>1, <1>3, TestNumbers DEF ProgramInv, Inside, LastRequests

(***************************************************************************)
(* The ioctl of a workload's step.                                         *)
(***************************************************************************)
LEMMA ControlKeepsProgram ==
  ASSUME ProgramInv, Control
  PROVE  ProgramInv' /\ Current \in {Disable, Enable, Toggle, Dummy}
<1>1. /\ Inside /\ at[Tester] = "open" /\ Current \notin {Train, Probe}
      /\ at' = [at EXCEPT ![Tester] = "ioctl"]
      /\ last' = [last EXCEPT ![Tester] = IF Current = Dummy THEN @ ELSE Current]
      /\ work' = work /\ step' = step /\ handle' = handle
  BY DEF Control, Running, Inside, Ioctl, IoctlEnter, testVars
<1>2. work \in 1..4
  BY <1>1, TestNumbers DEF ProgramInv, Inside
<1>3. Current \in {Disable, Enable, Toggle, Dummy}
  BY <1>1, <1>2, CurrentSteps DEF ProgramInv
<1>4. Current' = Current /\ LastRequests' = LastRequests
  BY <1>1 DEF Current, LastRequests
<1>5. /\ at' \in [Procs -> {"closed", "checked", "open", "ioctl", "closing"}]
      /\ at'[Tester] = "ioctl" /\ DOMAIN last' = Procs
      /\ last'[Tester] = IF Current = Dummy THEN last[Tester] ELSE Current
  BY <1>1, TesterIsProcess DEF ProgramInv
<1>6. Inside' /\ TestOf(work)' = TestOf(work)
  BY <1>1, <1>5 DEF Inside, TestOf
<1>7. ProgramInv'
  BY <1>1, <1>4, <1>5, <1>6 DEF ProgramInv
<1>8. QED
  BY <1>3, <1>7

(***************************************************************************)
(* Steps that change neither FetchBench's position in its programs nor its *)
(* use of the device.                                                      *)
(***************************************************************************)
LEMMA SamePlaceKeepsProgram ==
  ASSUME ProgramInv, UNCHANGED <<work, step, handle>>,
         at' \in [Procs -> {"closed", "checked", "open", "ioctl", "closing"}],
         DOMAIN last' = Procs, at'[Tester] = at[Tester], last'[Tester] = last[Tester]
  PROVE  ProgramInv'
<1>1. Current' = Current /\ LastRequests' = LastRequests /\ Inside' = Inside
  BY DEF Current, LastRequests, Inside, TestOf
<1>2. QED
  BY <1>1 DEF ProgramInv

(***************************************************************************)
(* A step of another process.                                              *)
(***************************************************************************)
LEMMA OtherStep ==
  ASSUME ProgramInv, NEW p \in Procs \ {Tester}, AnyStep(p)
  PROVE  /\ at' \in [Procs -> {"closed", "checked", "open", "ioctl", "closing"}]
         /\ DOMAIN last' = Procs
         /\ at'[Tester] = at[Tester] /\ last'[Tester] = last[Tester]
<1>1. at \in [Procs -> {"closed", "checked", "open", "ioctl", "closing"}] /\ DOMAIN last = Procs
  BY DEF ProgramInv
<1>2. \/ at' = at
      \/ \E s \in {"closed", "checked", "open", "ioctl", "closing"} :
           at' = [at EXCEPT ![p] = s]
  BY DEF AnyStep, UseFile, Ioctl, Execute, IoctlEnd, Migrate, OpenClose, OpenBusy, OpenCheck,
         OpenCount, ReleaseLoad, ReleaseStore, IoctlEnter, IoctlReturn, openVars
<1>3. last' = last \/ \E r : last' = [last EXCEPT ![p] = r]
  BY DEF AnyStep, UseFile, Ioctl, Execute, IoctlEnd, Migrate
<1>4. QED
  BY <1>1, <1>2, <1>3, TesterIsProcess

(***************************************************************************)
(* FetchBench makes the requests of its workloads, in the order of its     *)
(* programs, and only while it has the device open.                        *)
(***************************************************************************)
LEMMA ProgramStep ==
  ASSUME ProgramInv, [TestNext]_allVars
  PROVE  ProgramInv'
<1>1. at \in [Procs -> {"closed", "checked", "open", "ioctl", "closing"}] /\ DOMAIN last = Procs
  BY DEF ProgramInv
<1>2. CASE UNCHANGED allVars
  BY <1>1, <1>2, SamePlaceKeepsProgram DEF allVars, vars, openVars, ctrlVars, testVars
<1>3. CASE OpenHandleFails
  <2>1. /\ at' = at /\ last' = last /\ at[Tester] = "closed"
        /\ work' = 5 /\ step' = 1 /\ handle' = handle
    BY <1>3 DEF OpenHandleFails, OpenBusy, openVars, ctrlVars, Quit
  <2>2. QED
    BY <2>1 DEF ProgramInv, Inside
<1>4. CASE Access
  <2>1. Inside /\ at[Tester] = "open" /\ at' = at /\ last' = last /\ Advance
        /\ Current \in {Train, Probe}
    BY <1>4 DEF Access, Running, Inside, vars, openVars, ctrlVars
  <2>2. at' = [at EXCEPT ![Tester] = "open"] /\ last[Tester] \in LastRequests
    BY <1>1, <2>1 DEF ProgramInv
  <2>3. QED
    BY <2>1, <2>2, AdvanceKeepsProgram
<1>5. CASE ControlStep
  <2>1. at' = at /\ last' = last /\ work' = work /\ step' = step /\ handle' = handle
    BY <1>5 DEF ControlStep, Execute, openVars, testVars
  <2>2. QED
    BY <1>1, <2>1, SamePlaceKeepsProgram
<1>6. CASE ControlEnd
  <2>1. /\ at[Tester] = "ioctl" /\ at' = [at EXCEPT ![Tester] = "open"] /\ last' = last
        /\ Advance
    BY <1>6 DEF ControlEnd, IoctlEnd, IoctlReturn
  <2>2. QED
    BY <2>1, AdvanceKeepsProgram, StepKinds DEF ProgramInv
<1>7. CASE Kill
  <2>1. /\ at' = at /\ last' = last /\ at[Tester] = "open"
        /\ work' = 5 /\ step' = 1 /\ handle' = handle
    BY <1>7 DEF Kill, Running, vars, openVars, ctrlVars, Quit
  <2>2. QED
    BY <2>1, TestNumbers DEF ProgramInv, Inside
<1>8. CASE Restart
  <2>1. /\ at' = at /\ last' = last /\ at[Tester] = "closed"
        /\ work' = 1 /\ step' = step /\ work = 5 /\ handle' = handle
    BY <1>8 DEF Restart, vars, openVars, ctrlVars
  <2>2. QED
    BY <2>1 DEF ProgramInv, Inside
<1>9. ASSUME NEW p \in Procs \ {Tester}, Other(p)
      PROVE  ProgramInv'
  BY <1>9, OtherStep, SamePlaceKeepsProgram DEF Other
<1>10. QED
  BY <1>2, <1>3, <1>4, <1>5, <1>6, <1>7, <1>8, <1>9, OpenKeepsProgram, CloseKeepsProgram,
     ControlKeepsProgram DEF TestNext

(***************************************************************************)
(* So FetchBench is one of the processes of CtrlPf: whatever was proved of *)
(* the users of the device holds in its tests.                             *)
(***************************************************************************)
THEOREM TestsUseDevice == TestSpec => Spec /\ []ProgramInv
<1>1. TestInit => ProgramInv
  BY TesterIsProcess, TestNumbers DEF TestInit, Init, OpenInit, ProgramInv, Inside
<1>2. ASSUME ProgramInv, [TestNext]_allVars
      PROVE  [Next]_vars
  <2>1. CASE Control
    <3>1. Current \in Requests
      BY <1>2, <2>1, ControlKeepsProgram, StepKinds
    <3>2. QED
      BY <2>1, <3>1, TesterIsProcess DEF Control, Next, AnyStep
  <2>2. CASE OpenHandle \/ CloseHandle \/ ControlStep \/ ControlEnd
    BY <2>2, TesterIsProcess
       DEF OpenHandle, CloseHandle, ControlStep, ControlEnd, Next, AnyStep
  <2>3. CASE OpenHandleFails \/ Access \/ Kill \/ Restart \/ UNCHANGED allVars
    BY <2>3 DEF OpenHandleFails, OpenBusy, Access, Kill, Restart, allVars, vars
  <2>4. ASSUME NEW p \in Procs \ {Tester}, Other(p)
        PROVE  Next
    BY <2>4 DEF Other, Next
  <2>5. QED
    BY <1>2, <2>1, <2>2, <2>3, <2>4 DEF TestNext
<1>3. TestInit => Init
  BY DEF TestInit
<1>4. QED
  BY <1>1, <1>2, <1>3, ProgramStep, PTL DEF TestSpec, Spec

(***************************************************************************)
(* "Test to determine whether the prefetcher keeps learning while          *)
(* disabled" trains and probes in the states that its name and its         *)
(* comments promise, whatever other users of the device do, as long as no  *)
(* two calls of device_open() race.                                        *)
(***************************************************************************)
THEOREM KeepLearningRight == TestSpec => []KeepLearningAsNamed
<1>1. ASSUME ProgramInv, StateHeld
      PROVE  KeepLearningAsNamed
  <2>1. SUFFICES ASSUME ~raced, Running, work \in {1, 2}, Current \in {Train, Probe}
                 PROVE  Disabled = IF work = 1 /\ Current = Train THEN PfBits ELSE StrideWorks
    BY DEF KeepLearningAsNamed
  <2>2. at[Tester] = "open" /\ last[Tester] \in LastRequests
    BY <1>1, <2>1 DEF ProgramInv, Running, Inside
  <2>3. last[Tester] # NoRequest => Disabled = Result(last[Tester])
    BY <1>1, <2>1, <2>2, StrideAssumption DEF StateHeld, Disabled
  <2>4. CASE work = 1
    <3>1. step \in {2, 4} /\ (Current = Train <=> step = 2)
      BY <1>1, <2>1, <2>4, CurrentSteps, StepKinds DEF ProgramInv, Train, Probe
    <3>2. last[Tester] = IF step = 2 THEN Disable ELSE Enable
      BY <2>2, <2>4, <3>1 DEF LastRequests
    <3>3. QED
      BY <2>3, <2>4, <3>1, <3>2, StepKinds, StrideResults
  <2>5. CASE work = 2
    <3>1. last[Tester] = Enable
      BY <2>2, <2>5 DEF LastRequests
    <3>2. QED
      BY <2>3, <2>5, <3>1, StepKinds, StrideResults
  <2>6. QED
    BY <2>1, <2>4, <2>5
<1>2. QED
  BY <1>1, TestsUseDevice, CtrlStateHeld, PTL

(***************************************************************************)
(* FetchBench's own steps do not change what other processes do.           *)
(***************************************************************************)
LEMMA TesterLeavesOthers ==
  ASSUME OneUser, IoctlInv,
         \/ UseFile(Tester) \/ IoctlEnd(Tester) \/ Execute(Tester)
         \/ \E req \in Requests : Ioctl(Tester, req)
  PROVE  \A p \in Procs \ {Tester} : at'[p] = at[p]
<1>1. DOMAIN at = Procs
  BY DEF OneUser
<1>2. at' = at \/ \E s : at' = [at EXCEPT ![Tester] = s]
  BY DEF UseFile, Ioctl, Execute, IoctlEnd, OpenClose, OpenBusy, OpenCheck, OpenCount,
         ReleaseLoad, ReleaseStore, IoctlEnter, IoctlReturn, openVars
<1>3. QED
  BY <1>1, <1>2

(***************************************************************************)
(* Opening and closing the device leaves the register alone.               *)
(***************************************************************************)
LEMMA OpenCloseUndisturbed ==
  ASSUME OneUser, IoctlInv, ProgramInv, ProgramInv', UndisturbedHeld,
         UseFile(Tester), ~Inside, UNCHANGED <<work, disturbed>>
  PROVE  UndisturbedHeld'
<1>1. Outcome(Tester)' = Outcome(Tester)
  BY TesterIsProcess, StrideAssumption, OthersOutcome
<1>2. \A p \in Procs \ {Tester} : at'[p] = at[p]
  BY TesterLeavesOthers
<1>3. Inside' /\ work = 1 => last'[Tester] = NoRequest
  <2>1. at'[Tester] = "open" => at[Tester] = "checked"
    BY TesterIsProcess
       DEF OneUser, UseFile, OpenClose, OpenBusy, OpenCheck, OpenCount, ReleaseLoad,
           ReleaseStore, openVars
  <2>2. last'[Tester] = IF at'[Tester] = "open" THEN last[Tester] ELSE NoRequest
    BY TesterIsProcess DEF UseFile, IoctlInv
  <2>3. QED
    BY <2>1, <2>2 DEF Inside, ProgramInv
<1>4. QED
  BY <1>1, <1>2, <1>3 DEF UndisturbedHeld

(***************************************************************************)
(* An ioctl of FetchBench has the outcome that its workload needs.         *)
(***************************************************************************)
LEMMA ControlUndisturbed ==
  ASSUME OneUser, IoctlInv, ProgramInv, UndisturbedHeld, Control
  PROVE  UndisturbedHeld'
<1>1. /\ Current \in {Disable, Enable, Toggle, Dummy} /\ Inside
      /\ Ioctl(Tester, Current) /\ UNCHANGED <<work, step, handle, disturbed>>
  BY ControlKeepsProgram DEF Control, Running, Inside, testVars
<1>2. Current \in Requests
  BY <1>1, StepKinds
<1>3. /\ last'[Tester] = IF Current = Dummy THEN last[Tester] ELSE Current
      /\ Outcome(Tester)' = IF Current = Dummy THEN Outcome(Tester) ELSE Result(Current)
  BY <1>1, <1>2, TesterIsProcess, RequestOutcome DEF IoctlInv
<1>4. \A p \in Procs \ {Tester} : at'[p] = at[p]
  BY <1>1, <1>2, TesterLeavesOthers
<1>5. work \in {2, 3, 4} => Current \in {Dummy, Toggle}
  <2>1. work \in {3, 4} => step \in {1, 2, 3}
    BY DEF ProgramInv
  <2>2. work = 2 => step \in {1, 2, 3, 4}
    BY DEF ProgramInv
  <2>3. Current # Train /\ Current # Probe
    BY DEF Control
  <2>4. QED
    BY <2>1, <2>2, <2>3, CurrentSteps
<1>6. QED
  BY <1>1, <1>3, <1>4, <1>5, StepKinds, StrideResults DEF UndisturbedHeld

(***************************************************************************)
(* The first workload hands over to the others after its last request,     *)
(* which lets the stride prefetcher work.                                  *)
(***************************************************************************)
LEMMA AdvanceUndisturbed ==
  ASSUME ProgramInv, UndisturbedHeld, Inside, Advance, at'[Tester] = "open", last' = last,
         Outcome(Tester)' = Outcome(Tester),
         \A p \in Procs \ {Tester} : at'[p] = at[p],
         IF Current \in {Train, Probe, Dummy} THEN last[Tester] \in LastRequests
                                              ELSE last[Tester] = Current
  PROVE  UndisturbedHeld'
<1>1. handle' = handle /\ disturbed' = disturbed
  BY DEF Advance
<1>2. work' \in {2, 3, 4} => work \in {2, 3, 4} \/ (work = 1 /\ last[Tester] = Enable)
  <2>1. work \in 1..4 /\ step \in 1..4
    BY TestNumbers DEF ProgramInv, Inside
  <2>2. CASE work = 1
    <3>1. step < 4 => work' = work
      BY <2>1, <2>2, CurrentSteps DEF Advance
    <3>2. step = 4 => last[Tester] = Enable
      BY <2>2, CurrentSteps DEF LastRequests
    <3>3. QED
      BY <2>1, <2>2, <3>1, <3>2
  <2>3. QED
    BY <2>1, <2>2
<1>3. work' = 1 => work = 1
  <2>1. work' \in {work, work + 1} /\ work \in 1..5
    BY DEF Advance, ProgramInv
  <2>2. QED
    BY <2>1
<1>4. QED
  BY <1>1, <1>2, <1>3, StepKinds, StrideResults DEF UndisturbedHeld, Inside

(***************************************************************************)
(* Undisturbed, each step of FetchBench or of another process leaves the   *)
(* register as the tests expect it.                                        *)
(***************************************************************************)
LEMMA UndisturbedStep ==
  ASSUME OneUser, IoctlInv, ProgramInv, ProgramInv', UndisturbedHeld, [TestNext]_allVars
  PROVE  UndisturbedHeld'
<1>1. CASE UNCHANGED allVars
  BY <1>1 DEF allVars, vars, openVars, ctrlVars, testVars, UndisturbedHeld, Outcome, Inside,
              TestOf
<1>2. CASE OpenHandle
  BY <1>2, OpenCloseUndisturbed DEF OpenHandle, Inside
<1>3. CASE OpenHandleFails \/ Kill
  <2>1. work' = 5 /\ at' = at /\ disturbed' = disturbed
    BY <1>3 DEF OpenHandleFails, OpenBusy, Kill, Quit, vars, openVars
  <2>2. QED
    BY <2>1 DEF UndisturbedHeld
<1>4. CASE CloseHandle
  BY <1>4, OpenCloseUndisturbed DEF CloseHandle, Inside, testVars
<1>5. CASE Access
  <2>1. Inside /\ at[Tester] = "open" /\ at' = at /\ last' = last /\ Advance
        /\ Current \in {Train, Probe} /\ Outcome(Tester)' = Outcome(Tester)
    BY <1>5 DEF Access, Running, Inside, vars, openVars, ctrlVars, Outcome
  <2>2. last[Tester] \in LastRequests
    BY <2>1 DEF ProgramInv
  <2>3. QED
    BY <2>1, <2>2, AdvanceUndisturbed
<1>6. CASE Control
  BY <1>6, ControlUndisturbed
<1>7. CASE ControlStep
  <2>1. Execute(Tester) /\ at' = at /\ last' = last /\ UNCHANGED testVars
    BY <1>7 DEF ControlStep, Execute, openVars
  <2>2. Outcome(Tester)' = Outcome(Tester)
    BY <2>1, TesterIsProcess, InstructionOutcome
  <2>3. QED
    BY <2>1, <2>2 DEF UndisturbedHeld, testVars, Inside, TestOf
<1>8. CASE ControlEnd
  <2>1. /\ IoctlEnd(Tester) /\ at[Tester] = "ioctl" /\ at' = [at EXCEPT ![Tester] = "open"]
        /\ last' = last /\ Advance
    BY <1>8 DEF ControlEnd, IoctlEnd, IoctlReturn
  <2>2. Outcome(Tester)' = Outcome(Tester) /\ at'[Tester] = "open"
    BY <2>1, TesterIsProcess, StrideAssumption, OthersOutcome DEF OneUser
  <2>3. \A p \in Procs \ {Tester} : at'[p] = at[p]
    BY <2>1, TesterLeavesOthers
  <2>4. QED
    BY <2>1, <2>2, <2>3, AdvanceUndisturbed, StepKinds DEF ProgramInv
<1>9. CASE Restart
  <2>1. /\ work' = 1 /\ at' = at /\ at[Tester] = "closed"
        /\ disturbed' = \E p \in Procs \ {Tester} : at[p] = "ioctl"
    BY <1>9 DEF Restart, vars, openVars
  <2>2. QED
    BY <2>1 DEF UndisturbedHeld, Inside
<1>10. ASSUME NEW p \in Procs \ {Tester}, Other(p)
       PROVE  UndisturbedHeld'
  <2>1. SUFFICES ASSUME ~disturbed'
                 PROVE  UndisturbedHeld'
    BY DEF UndisturbedHeld
  <2>2. /\ ~disturbed /\ at'[p] # "ioctl" /\ AnyStep(p) /\ UNCHANGED <<work, rep, step, handle>>
    BY <1>10, <2>1 DEF Other
  <2>3. at[p] # "ioctl"
    BY <2>2 DEF UndisturbedHeld
  <2>4. UseFile(p) \/ Migrate(p)
    <3>1. \A req \in Requests : ~Ioctl(p, req)
      BY <2>2 DEF Ioctl, IoctlEnter, OneUser
    <3>2. ~Execute(p) /\ ~IoctlEnd(p)
      BY <2>3 DEF Execute, IoctlEnd, IoctlReturn, IoctlInv
    <3>3. QED
      BY <2>2, <3>1, <3>2 DEF AnyStep
  <2>5. Outcome(Tester)' = Outcome(Tester)
    BY <2>4, StrideAssumption, OthersOutcome
  <2>6. at'[Tester] = at[Tester] /\ last'[Tester] = last[Tester]
    BY <2>2, OtherStep
  <2>7. \A q \in Procs \ {Tester} : at'[q] # "ioctl"
    <3>1. \A q \in Procs \ {p} : at'[q] = at[q]
      BY <2>4 DEF OneUser, UseFile, Migrate, OpenClose, OpenBusy, OpenCheck, OpenCount,
                  ReleaseLoad, ReleaseStore, openVars
    <3>2. QED
      BY <2>2, <3>1 DEF UndisturbedHeld
  <2>8. QED
    BY <2>2, <2>5, <2>6, <2>7 DEF UndisturbedHeld, Inside, TestOf
<1>11. QED
  BY <1>1, <1>2, <1>3, <1>4, <1>5, <1>6, <1>7, <1>8, <1>9, <1>10 DEF TestNext

(***************************************************************************)
(* "Test to determine whether the prefetcher flushes its state when        *)
(* disabled and re-enabled" makes all its loads with the stride prefetcher *)
(* enabled, if the state in which the other test left the register is not  *)
(* disturbed, or from the first request of its own on.                     *)
(***************************************************************************)
THEOREM FlushRight == TestSpec => []FlushAsNamed
<1>1. TestInit => UndisturbedHeld
  BY TesterIsProcess DEF TestInit, Init, OpenInit, UndisturbedHeld, Inside
<1>2. ASSUME OneUser, IoctlInv, ProgramInv, StateHeld, UndisturbedHeld
      PROVE  FlushAsNamed
  <2>1. SUFFICES ASSUME Running, work \in {3, 4}, Current \in {Train, Probe},
                        ~disturbed \/ (~raced /\ last[Tester] # NoRequest)
                 PROVE  Disabled = StrideWorks
    BY DEF FlushAsNamed
  <2>2. at[Tester] = "open" /\ last[Tester] \in {NoRequest, Toggle}
    BY <1>2, <2>1 DEF ProgramInv, Running, Inside, LastRequests
  <2>3. CASE ~disturbed
    <3>1. todo[Tester] = <<>>
      BY <1>2, <2>2, TesterIsProcess DEF IoctlInv
    <3>2. QED
      BY <1>2, <2>1, <2>3, <3>1 DEF UndisturbedHeld, Outcome, Disabled
  <2>4. CASE ~raced /\ last[Tester] # NoRequest
    BY <1>2, <2>2, <2>4, StrideAssumption, StrideResults DEF StateHeld, Disabled
  <2>5. QED
    BY <2>1, <2>3, <2>4
<1>3. QED
  BY <1>1, <1>2, UndisturbedStep, TestsUseDevice, CtrlIoctlInv, CtrlStateHeld, PTL DEF TestSpec
=============================================================================
