------------------------- MODULE FlagClientsProofs -------------------------
(***************************************************************************)
(* The brackets of the flag's clients protect what is between them and put *)
(* the flag back, for any machine, any number of tasks, any plugin         *)
(* functions, and any depth of calls.                                      *)
(***************************************************************************)
EXTENDS FlagClients, SequenceTheorems, TLAPS

PluginFunctions == Entries \cup Callbacks

Steps == {"get", "set", "body", "restore"}

-----------------------------------------------------------------------------
(* Stacks of calls.                                                        *)

(***************************************************************************)
(* A frame that goes on to its next step is still a frame.                 *)
(***************************************************************************)
LEMMA FrameGoesOn ==
  ASSUME NEW fr \in Frames, NEW next \in Steps, NEW before \in BOOLEAN,
         fr.wrapped \/ next = "body"
  PROVE  /\ [fr EXCEPT !.next = next] \in Frames
         /\ [fr EXCEPT !.next = next, !.before = before] \in Frames
BY DEF Frames, Steps

(***************************************************************************)
(* The parts of frames, and of the new ones.                               *)
(***************************************************************************)
LEMMA FrameParts ==
  ASSUME NEW fr \in Frames, NEW next, NEW before
  PROVE  /\ fr.fn \in Functions /\ fr.wrapped \in BOOLEAN /\ fr.before \in BOOLEAN
         /\ fr.next \in Steps
         /\ fr.wrapped \/ fr.next = "body"
         /\ [fr EXCEPT !.next = next].next = next
         /\ [fr EXCEPT !.next = next].fn = fr.fn
         /\ [fr EXCEPT !.next = next].wrapped = fr.wrapped
         /\ [fr EXCEPT !.next = next].before = fr.before
         /\ [fr EXCEPT !.next = next, !.before = before].next = next
         /\ [fr EXCEPT !.next = next, !.before = before].before = before
         /\ [fr EXCEPT !.next = next, !.before = before].fn = fr.fn
         /\ [fr EXCEPT !.next = next, !.before = before].wrapped = fr.wrapped
BY DEF Frames, Steps

(***************************************************************************)
(* A stack is empty or has a first and a last call.                        *)
(***************************************************************************)
LEMMA StackEnds ==
  ASSUME NEW s \in Seq(Frames)
  PROVE  /\ Len(s) \in Nat
         /\ s = << >> <=> Len(s) = 0
         /\ \A i \in 1..Len(s) : s[i] \in Frames
BY EmptySeq, LenProperties, ElementOfSeq

(***************************************************************************)
(* A call that is made in the main loop, or of a plugin function by one    *)
(* whose original runs, keeps the calls nested.                            *)
(***************************************************************************)
LEMMA PushKeepsNested ==
  ASSUME NEW s \in Seq(Frames), NEW fr \in Frames,
         NEW f \in BOOLEAN, NEW b \in BOOLEAN,
         Nested(s, f),
         s = << >> => fr.wrapped /\ fr.next \in {"get", "set"},
         s # << >> => /\ s[Len(s)].next = "body"
                      /\ s[Len(s)].fn \in PluginFunctions
                      /\ fr.fn \in PluginFunctions
                      /\ fr.next = "get" \/ (~fr.wrapped /\ fr.next = "body")
  PROVE  /\ Append(s, fr) \in Seq(Frames)
         /\ Append(s, fr) # << >>
         /\ Append(s, fr)[1] = IF s = << >> THEN fr ELSE s[1]
         /\ Nested(Append(s, fr), f)
         /\ Remembered(s, f, b) /\ (s # << >> \/ fr.next = "get")
              => Remembered(Append(s, fr), f, b)
<1> DEFINE r == Append(s, fr)
           n == Len(s)
<1>1. n \in Nat /\ (s = << >> <=> n = 0) /\ \A i \in 1..n : s[i] \in Frames
  BY StackEnds
<1>2. /\ r \in Seq(Frames) /\ r # << >>
      /\ Len(r) = n + 1
      /\ \A i \in 1..n : r[i] = s[i]
      /\ r[n + 1] = fr
  BY AppendProperties
<1>3. r[1] = IF s = << >> THEN fr ELSE s[1]
  BY <1>1, <1>2
<1>4. s # << >> => f
  BY <1>1, ClientsAssumption DEF Nested, Protects, PluginFunctions
<1>5. Nested(r, f)
  <2>1. r[1].wrapped
    BY <1>1, <1>3 DEF Nested
  <2>2. ASSUME NEW i \in 1..Len(r), i < Len(r)
        PROVE  r[i].next = "body" /\ r[i].fn \in Entries \cup Callbacks
    BY <1>1, <1>2, <2>2 DEF Nested, PluginFunctions
  <2>3. ASSUME NEW i \in 1..Len(r), i > 1
        PROVE  /\ f
               /\ r[i].fn \in Entries \cup Callbacks
               /\ r[i].next # "get" /\ r[i].wrapped => r[i].before
    <3>1. CASE i \in 1..n
      BY <1>1, <1>2, <1>4, <2>3, <3>1 DEF Nested
    <3>2. CASE i = n + 1
      BY <1>1, <1>2, <1>4, <2>3, <3>2 DEF PluginFunctions
    <3> QED
      BY <1>1, <1>2, <3>1, <3>2
  <2>4. r[Len(r)].next \in {"body", "restore"} => f = Protects(r[Len(r)].fn)
    BY <1>1, <1>2, <1>4, ClientsAssumption DEF Protects, PluginFunctions
  <2> HIDE DEF r
  <2> QED
    BY <2>1, <2>2, <2>3, <2>4 DEF Nested
<1>6. ASSUME Remembered(s, f, b), s # << >> \/ fr.next = "get"
      PROVE  Remembered(r, f, b)
  BY <1>2, <1>3, <1>6 DEF Remembered
<1> QED
  BY <1>2, <1>3, <1>5, <1>6 DEF r

(***************************************************************************)
(* The innermost call goes on to its next step fr.  The task's flag may    *)
(* change from f to g with it, but only to the one that the step asks for, *)
(* and an inner call leaves it set.                                        *)
(***************************************************************************)
LEMMA TopKeepsNested ==
  ASSUME NEW s \in Seq(Frames), NEW fr \in Frames,
         NEW f \in BOOLEAN, NEW g \in BOOLEAN, NEW b \in BOOLEAN,
         s # << >>,
         Nested(s, f),
         fr.fn = s[Len(s)].fn,
         fr.wrapped = s[Len(s)].wrapped,
         fr.next \in {"body", "restore"} => g = Protects(fr.fn),
         Len(s) > 1 => g,
         Len(s) > 1 /\ fr.next # "get" /\ fr.wrapped => fr.before
  PROVE  LET r == [s EXCEPT ![Len(s)] = fr] IN
         /\ r \in Seq(Frames)
         /\ r # << >>
         /\ r[1] = IF Len(s) = 1 THEN fr ELSE s[1]
         /\ Nested(r, g)
<1> DEFINE n == Len(s)
           r == [s EXCEPT ![n] = fr]
<1>1. n \in Nat \ {0} /\ \A i \in 1..n : s[i] \in Frames
  BY StackEnds
<1>2. /\ r \in Seq(Frames)
      /\ Len(r) = n
      /\ \A i \in 1..n : r[i] = IF i = n THEN fr ELSE s[i]
  BY <1>1, ExceptSeq
<1>3. r # << >> /\ r[1] = IF n = 1 THEN fr ELSE s[1]
  <2> HIDE DEF r
  <2> QED
    BY <1>1, <1>2, StackEnds
<1> HIDE DEF r
<1>4. r[1].wrapped
  BY <1>1, <1>3 DEF Nested
<1>5. ASSUME NEW i \in 1..Len(r), i < Len(r)
      PROVE  r[i].next = "body" /\ r[i].fn \in Entries \cup Callbacks
  BY <1>1, <1>2, <1>5 DEF Nested
<1>6. ASSUME NEW i \in 1..Len(r), i > 1
      PROVE  /\ g
             /\ r[i].fn \in Entries \cup Callbacks
             /\ r[i].next # "get" /\ r[i].wrapped => r[i].before
  <2>1. n > 1 /\ i \in 1..n
    BY <1>1, <1>2, <1>6
  <2>2. s[i].fn \in Entries \cup Callbacks
    BY <1>6, <2>1 DEF Nested
  <2>3. CASE i = n
    BY <1>2, <2>1, <2>2, <2>3
  <2>4. CASE i # n
    BY <1>2, <1>6, <2>1, <2>2, <2>4 DEF Nested
  <2> QED
    BY <2>3, <2>4
<1>7. r[Len(r)].next \in {"body", "restore"} => g = Protects(r[Len(r)].fn)
  BY <1>1, <1>2
<1>8. Nested(r, g)
  BY <1>4, <1>5, <1>6, <1>7 DEF Nested
<1> QED
  BY <1>2, <1>3, <1>8 DEF r

(***************************************************************************)
(* The innermost call returns to a main loop or to an original that runs;  *)
(* in the latter case the task's flag is set.                              *)
(***************************************************************************)
LEMMA PopKeepsNested ==
  ASSUME NEW s \in Seq(Frames),
         NEW f \in BOOLEAN, NEW g \in BOOLEAN,
         s # << >>,
         Nested(s, f),
         Len(s) > 1 => g
  PROVE  LET r == SubSeq(s, 1, Len(s) - 1) IN
         /\ r \in Seq(Frames)
         /\ r = << >> <=> Len(s) = 1
         /\ Len(s) > 1 => r[1] = s[1] /\ s[1].next = "body"
         /\ Nested(r, g)
<1> DEFINE n == Len(s)
           r == SubSeq(s, 1, n - 1)
<1>1. n \in Nat \ {0} /\ \A i \in 1..n : s[i] \in Frames
  BY StackEnds
<1>2. /\ r \in Seq(Frames)
      /\ Len(r) = n - 1
      /\ \A i \in 1..n - 1 : r[i] = s[i]
  <2>1. /\ r \in Seq(Frames)
        /\ Len(r) = IF 1 <= n - 1 THEN n - 1 - 1 + 1 ELSE 0
        /\ \A i \in 1..(n - 1 - 1 + 1) : r[i] = s[1 + i - 1]
    BY <1>1, SubSeqProperties
  <2> HIDE DEF r, n
  <2>2. Len(r) = n - 1
    BY <1>1, <2>1
  <2>3. ASSUME NEW i \in 1..n - 1
        PROVE  r[i] = s[i]
    <3>1. i \in 1..(n - 1 - 1 + 1) /\ 1 + i - 1 = i
      BY <1>1
    <3> QED
      BY <2>1, <3>1
  <2> QED
    BY <2>1, <2>2, <2>3
<1> HIDE DEF r
<1>3. r = << >> <=> n = 1
  BY <1>1, <1>2, StackEnds
<1>4. n > 1 => r[1] = s[1] /\ s[1].next = "body"
  BY <1>1, <1>2 DEF Nested
<1>5. r # << >> => r[1].wrapped
  BY <1>1, <1>2, <1>3 DEF Nested
<1>6. ASSUME NEW i \in 1..Len(r)
      PROVE  /\ i < Len(r) => r[i].next = "body" /\ r[i].fn \in Entries \cup Callbacks
             /\ i > 1 =>
                  /\ g
                  /\ r[i].fn \in Entries \cup Callbacks
                  /\ r[i].next # "get" /\ r[i].wrapped => r[i].before
  BY <1>1, <1>2 DEF Nested
<1>7. ASSUME r # << >>
      PROVE  g = Protects(r[Len(r)].fn)
  <2>1. n > 1 /\ r[Len(r)] = s[n - 1] /\ n - 1 \in 1..n /\ n - 1 < n
    BY <1>1, <1>2, <1>3, <1>7
  <2>2. s[n - 1].fn \in Entries \cup Callbacks
    BY <2>1 DEF Nested
  <2> QED
    BY <2>1, <2>2, ClientsAssumption DEF Protects
<1>8. Nested(r, g)
  BY <1>5, <1>6, <1>7 DEF Nested
<1> QED
  BY <1>2, <1>3, <1>4, <1>8 DEF r

-----------------------------------------------------------------------------
(* The kernel.                                                             *)

PolicyTypeOK ==
  /\ booted \in BOOLEAN
  /\ flag \in [Tasks \cup {Idle} -> BOOLEAN]
  /\ running \in [Cpus -> Tasks \cup {Idle}]
  /\ disabled \in [Cores -> SUBSET PfBits]

(***************************************************************************)
(* A context switch brings the core in line with the task it runs then,    *)
(* and leaves the other cores to tasks that have not moved.                *)
(***************************************************************************)
LEMMA SwitchKeepsPolicy ==
  ASSUME PolicyTypeOK, CoresFollowFlags,
         NEW c \in Cpus, NEW t \in Tasks \cup {Idle}, Switch(c, t)
  PROVE  PolicyTypeOK' /\ CoresFollowFlags'
<1> USE ClientsAssumption DEF PolicyTypeOK
<1>1. /\ running' = [running EXCEPT ![c] = t]
      /\ flag' = flag /\ booted' = booted
      /\ booted => disabled' = [disabled EXCEPT ![CoreOf[c]] = Demand(CoreOf[c])]
      /\ ~booted => disabled' = disabled
      /\ t = Idle \/ \A d \in Cpus : running[d] # t
  BY DEF Switch, Adjust
<1>2. Demand(CoreOf[c]) \in SUBSET PfBits
  BY DEF Demand
<1>3. PolicyTypeOK'
  BY <1>1, <1>2
<1>4. ASSUME NEW d \in Cpus, NEW e \in Cpus, running'[d] = running'[e], running'[d] # Idle
      PROVE  d = e
  BY <1>1, <1>4 DEF CoresFollowFlags
<1>5. ASSUME booted, NEW d \in Cpus, flag'[running'[d]]
      PROVE  disabled'[CoreOf[d]] = PfBits
  <2>1. CASE CoreOf[d] = CoreOf[c]
    <3>1. Demand(CoreOf[c]) = PfBits
      BY <1>5, <2>1 DEF Demand
    <3> QED
      BY <1>1, <1>5, <2>1, <3>1
  <2>2. CASE CoreOf[d] # CoreOf[c]
    BY <1>1, <1>5, <2>2 DEF CoresFollowFlags
  <2> QED
    BY <2>1, <2>2
<1> QED
  BY <1>1, <1>3, <1>4, <1>5 DEF CoresFollowFlags

(***************************************************************************)
(* So does a prctl that succeeds, which changes the caller's flag only.    *)
(***************************************************************************)
LEMMA SetFlagKeepsPolicy ==
  ASSUME PolicyTypeOK, CoresFollowFlags,
         NEW c \in Cpus, NEW value \in BOOLEAN, SetFlag(c, value)
  PROVE  /\ PolicyTypeOK' /\ CoresFollowFlags'
         /\ flag' = [flag EXCEPT ![running[c]] = value]
<1> USE ClientsAssumption DEF PolicyTypeOK
<1>1. /\ flag' = [flag EXCEPT ![running[c]] = value]
      /\ running' = running /\ booted /\ booted' = booted
      /\ running[c] \in Tasks
      /\ disabled' = [disabled EXCEPT ![CoreOf[c]] = Demand(CoreOf[c])]
  BY DEF SetFlag, Adjust
<1>2. Demand(CoreOf[c]) \in SUBSET PfBits
  BY DEF Demand
<1>3. PolicyTypeOK'
  BY <1>1, <1>2
<1>4. ASSUME NEW d \in Cpus, flag'[running'[d]]
      PROVE  disabled'[CoreOf[d]] = PfBits
  <2>1. CASE CoreOf[d] = CoreOf[c]
    <3>1. Demand(CoreOf[c]) = PfBits
      BY <1>4, <2>1 DEF Demand
    <3> QED
      BY <1>1, <2>1, <3>1
  <2>2. CASE CoreOf[d] # CoreOf[c]
    <3>1. running[d] # running[c]
      BY <1>1, <2>2 DEF CoresFollowFlags
    <3>2. flag[running[d]]
      BY <1>1, <1>4, <3>1
    <3> QED
      BY <1>1, <2>2, <3>2 DEF CoresFollowFlags
  <2> QED
    BY <2>1, <2>2
<1>5. ~flag'[Idle] /\ \A d, e \in Cpus : running'[d] = running'[e] /\ running'[d] # Idle => d = e
  BY <1>1 DEF CoresFollowFlags
<1> QED
  BY <1>1, <1>3, <1>4, <1>5 DEF CoresFollowFlags

(***************************************************************************)
(* A child that runs nowhere yet asks nothing of any core.                 *)
(***************************************************************************)
LEMMA ForkKeepsPolicy ==
  ASSUME PolicyTypeOK, CoresFollowFlags,
         NEW c \in Cpus, NEW child \in Tasks, Fork(c, child)
  PROVE  /\ PolicyTypeOK' /\ CoresFollowFlags'
         /\ flag' = [flag EXCEPT ![child] = flag[running[c]]]
<1> USE ClientsAssumption DEF PolicyTypeOK, Fork
<1>1. PolicyTypeOK'
  OBVIOUS
<1>2. \A d \in Cpus : flag'[running'[d]] = flag[running[d]]
  OBVIOUS
<1>3. ~flag'[Idle]
  BY DEF CoresFollowFlags
<1> QED
  BY <1>1, <1>2, <1>3 DEF CoresFollowFlags

-----------------------------------------------------------------------------
(* The invariant, task by task.                                            *)

TaskInv(t) ==
  /\ Nested(stack[t], flag[t])
  /\ stack[t] # << >> => stack[t][1].fn \in MainCalls(t)
  /\ prog[t] \in Restoring \cup {"aes_off"} => Remembered(stack[t], flag[t], base[t])
  /\ prog[t] = "pfdisset_exec" => flag[t] = wish[t]
  /\ t \in permanent => prog[t] \notin Launchers /\ (prog[t] \in Programs => base[t])

Inv == TypeOK /\ CoresFollowFlags /\ \A t \in Tasks : TaskInv(t)

(***************************************************************************)
(* This is ClientsInv.                                                     *)
(***************************************************************************)
LEMMA InvIsClientsInv == Inv <=> TypeOK /\ ClientsInv
<1>1. ASSUME TypeOK, \A t \in Tasks : TaskInv(t)
      PROVE  CallsNest /\ BaseRemembered /\ PermanentHaveBase
  BY <1>1 DEF TypeOK, TaskInv, CallsNest, BaseRemembered, PermanentHaveBase
<1>2. ASSUME TypeOK, CallsNest, BaseRemembered, PermanentHaveBase
      PROVE  \A t \in Tasks : TaskInv(t)
  BY <1>2 DEF TypeOK, TaskInv, CallsNest, BaseRemembered, PermanentHaveBase
<1> QED
  BY <1>1, <1>2 DEF Inv, ClientsInv

\* Nothing of task t changes.
Untouched(t) ==
  /\ stack'[t] = stack[t] /\ flag'[t] = flag[t] /\ prog'[t] = prog[t]
  /\ wish'[t] = wish[t] /\ base'[t] = base[t]
  /\ t \in permanent' <=> t \in permanent

(***************************************************************************)
(* Steps of the other tasks keep the invariant of task t.                  *)
(***************************************************************************)
LEMMA UntouchedKeepsInv ==
  ASSUME NEW t \in Tasks, TaskInv(t), Untouched(t)
  PROVE  TaskInv(t)'
BY DEF TaskInv, Untouched, MainCalls

(***************************************************************************)
(* A step of task t in its calls, which leaves the stack r and the flag g, *)
(* keeps the invariant if these two fit together.                          *)
(***************************************************************************)
LEMMA CallStep ==
  ASSUME Inv, PolicyTypeOK', CoresFollowFlags',
         NEW t \in Tasks, NEW r \in Seq(Frames), NEW g \in BOOLEAN,
         stack' = [stack EXCEPT ![t] = r],
         flag' = [flag EXCEPT ![t] = g],
         UNCHANGED <<prog, wish, base, permanent>>,
         prog[t] \in Programs,
         Nested(r, g),
         r # << >> => r[1].fn \in MainCalls(t),
         prog[t] \in Restoring \cup {"aes_off"} => Remembered(r, g, base[t])
  PROVE  Inv'
<1>1. TypeOK'
  BY DEF Inv, TypeOK, PolicyTypeOK
<1>2. ASSUME NEW u \in Tasks, u # t
      PROVE  TaskInv(u)'
  <2>1. Untouched(u)
    BY <1>2 DEF Untouched, Inv, TypeOK
  <2> QED
    BY <2>1, UntouchedKeepsInv DEF Inv
<1>3. TaskInv(t)'
  <2>1. /\ stack'[t] = r /\ flag'[t] = g
        /\ prog'[t] = prog[t] /\ base'[t] = base[t] /\ permanent' = permanent
        /\ MainCalls(t)' = MainCalls(t)
    BY DEF Inv, TypeOK, MainCalls
  <2>2. t \in permanent => prog[t] \notin Launchers /\ (prog[t] \in Programs => base[t])
    BY DEF Inv, TaskInv
  <2>3. prog[t] # "pfdisset_exec"
    BY DEF Programs
  <2> QED
    BY <2>1, <2>2, <2>3 DEF TaskInv
<1> QED
  BY <1>1, <1>2, <1>3 DEF Inv

(***************************************************************************)
(* What is known of a task that is in a call.                              *)
(***************************************************************************)
LEMMA InCallFacts ==
  ASSUME Inv, NEW t \in Tasks, NEW next, InCall(t, next)
  PROVE  /\ stack[t] \in Seq(Frames) /\ stack[t] # << >>
         /\ Len(stack[t]) \in Nat \ {0}
         /\ Len(stack[t]) = 1 \/ Len(stack[t]) > 1
         /\ Top(t) = stack[t][Len(stack[t])] /\ Top(t) \in Frames
         /\ Top(t).next = next
         /\ flag[t] \in BOOLEAN /\ base[t] \in BOOLEAN
         /\ Nested(stack[t], flag[t])
         /\ stack[t][1].fn \in MainCalls(t)
         /\ prog[t] \in Programs
         /\ prog[t] \in Restoring \cup {"aes_off"}
              => Remembered(stack[t], flag[t], base[t])
<1>1. stack[t] \in Seq(Frames) /\ stack[t] # << >>
  BY DEF Inv, TypeOK, InCall
<1>2. Len(stack[t]) \in Nat \ {0} /\ Top(t) \in Frames
  BY <1>1, StackEnds DEF Top
<1>3. stack[t][1].fn \in MainCalls(t)
  BY <1>1 DEF Inv, TaskInv
<1>4. prog[t] \in Programs
  BY <1>3 DEF MainCalls, Programs
<1>5. \A n \in Nat \ {0} : n = 1 \/ n > 1
  OBVIOUS
<1>6. Len(stack[t]) = 1 \/ Len(stack[t]) > 1
  BY <1>2, <1>5
<1> QED
  BY <1>1, <1>2, <1>3, <1>4, <1>6 DEF Inv, TypeOK, TaskInv, InCall, Top

-----------------------------------------------------------------------------
(* The steps.                                                              *)

(***************************************************************************)
(* A step outside the kernel keeps the kernel's part of the invariant.     *)
(***************************************************************************)
LEMMA PolicyUnchanged ==
  ASSUME Inv, UNCHANGED vars
  PROVE  PolicyTypeOK' /\ CoresFollowFlags'
BY DEF Inv, TypeOK, PolicyTypeOK, CoresFollowFlags, vars

(***************************************************************************)
(* The kernel's part of the type invariant.                                *)
(***************************************************************************)
LEMMA PolicyTypes == Inv => PolicyTypeOK
BY DEF Inv, TypeOK, PolicyTypeOK

(***************************************************************************)
(* A context switch touches no task.                                       *)
(***************************************************************************)
LEMMA ScheduleKeepsInv ==
  ASSUME Inv, NEW c \in Cpus, NEW t \in Tasks \cup {Idle}, Schedule(c, t)
  PROVE  Inv'
<1>1. PolicyTypeOK' /\ CoresFollowFlags'
  BY PolicyTypes, SwitchKeepsPolicy DEF Inv, Schedule
<1>2. TypeOK'
  BY <1>1 DEF Inv, TypeOK, PolicyTypeOK, Schedule, clientVars
<1>3. ASSUME NEW u \in Tasks
      PROVE  TaskInv(u)'
  <2>1. Untouched(u)
    BY DEF Schedule, Switch, clientVars, Untouched
  <2> QED
    BY <2>1, UntouchedKeepsInv DEF Inv
<1> QED
  BY <1>1, <1>2, <1>3 DEF Inv

(***************************************************************************)
(* pfdisset.                                                               *)
(***************************************************************************)
LEMMA LauncherKeepsInv ==
  ASSUME Inv, NEW t \in Tasks, NEW c \in Cpus,
         \/ LaunchSet(t, c)
         \/ LaunchCheck(t, c)
         \/ \E program \in Programs : LaunchExec(t, c, program)
  PROVE  Inv'
<1>1. prog[t] \in Launchers /\ stack[t] = << >> /\ t \notin permanent /\ running[c] = t
  BY DEF LaunchSet, LaunchCheck, LaunchExec, Launchers, Runs, Inv, TaskInv, MainCalls
<1>2. PolicyTypeOK' /\ CoresFollowFlags' /\ \A u \in Tasks \ {t} : flag'[u] = flag[u]
  <2>1. CASE LaunchSet(t, c)
    <3>1. SetFlag(c, wish[t]) /\ wish[t] \in BOOLEAN
      BY <2>1 DEF LaunchSet, Inv, TypeOK
    <3>2. PolicyTypeOK' /\ CoresFollowFlags' /\ flag' = [flag EXCEPT ![running[c]] = wish[t]]
      BY <3>1, PolicyTypes, SetFlagKeepsPolicy DEF Inv
    <3> QED
      BY <1>1, <3>2 DEF Inv, TypeOK
  <2>2. CASE UNCHANGED vars
    BY <2>2, PolicyUnchanged DEF vars
  <2> QED
    BY <2>1, <2>2 DEF LaunchCheck, LaunchExec
<1>3. TypeOK'
  <2>1. CASE LaunchSet(t, c)
    BY <1>2, <2>1 DEF Inv, TypeOK, PolicyTypeOK, LaunchSet, Launchers
  <2>2. CASE LaunchCheck(t, c)
    BY <1>2, <2>2 DEF Inv, TypeOK, PolicyTypeOK, LaunchCheck, Launchers
  <2>3. CASE \E program \in Programs : LaunchExec(t, c, program)
    BY <1>2, <2>3 DEF Inv, TypeOK, PolicyTypeOK, LaunchExec
  <2> QED
    BY <2>1, <2>2, <2>3
<1>4. ASSUME NEW u \in Tasks, u # t
      PROVE  TaskInv(u)'
  <2>1. Untouched(u)
    BY <1>2, <1>4 DEF LaunchSet, LaunchCheck, LaunchExec, Untouched, Inv, TypeOK
  <2> QED
    BY <2>1, UntouchedKeepsInv DEF Inv
<1>5. TaskInv(t)'
  <2>1. stack'[t] = << >>
    BY <1>1 DEF LaunchSet, LaunchCheck, LaunchExec
  <2>2. Nested(stack'[t], flag'[t])
    BY <2>1, EmptySeq DEF Nested
  <2>3. CASE LaunchSet(t, c)
    BY <1>1, <2>1, <2>2, <2>3 DEF LaunchSet, TaskInv, Inv, TypeOK, Restoring
  <2>4. CASE LaunchCheck(t, c)
    BY <1>1, <2>1, <2>2, <2>4 DEF LaunchCheck, TaskInv, Inv, TypeOK, Restoring, vars
  <2>5. CASE \E program \in Programs : LaunchExec(t, c, program)
    <3>1. /\ flag'[t] = flag[t] /\ base'[t] = flag[t] /\ flag[t] = wish[t]
          /\ t \in permanent' <=> wish[t]
          /\ prog'[t] \in Programs
      BY <1>1, <2>5 DEF LaunchExec, Inv, TypeOK, TaskInv, vars
    <3>2. Remembered(stack'[t], flag'[t], base'[t])
      BY <2>1, <3>1 DEF Remembered
    <3> QED
      BY <2>1, <2>2, <3>1, <3>2 DEF TaskInv, Programs, Launchers
  <2> QED
    BY <2>3, <2>4, <2>5
<1> QED
  BY <1>2, <1>3, <1>4, <1>5 DEF Inv

(***************************************************************************)
(* A call is entered: from the main loop, by OpenSSL, or by an original.   *)
(***************************************************************************)
LEMMA CallKeepsInv ==
  ASSUME Inv, NEW t \in Tasks, NEW c \in Cpus, NEW fn \in Functions,
         CallFromMain(t, c, fn) \/ CallBack(t, c, fn) \/ CallDirect(t, c, fn)
  PROVE  Inv'
<1> DEFINE Entered(wrapped, next) ==
      [fn |-> fn, wrapped |-> wrapped, next |-> next, before |-> FALSE]
<1>1. /\ stack[t] \in Seq(Frames) /\ flag[t] \in BOOLEAN /\ base[t] \in BOOLEAN
      /\ Nested(stack[t], flag[t])
      /\ prog[t] \in Restoring \cup {"aes_off"} => Remembered(stack[t], flag[t], base[t])
  BY DEF Inv, TypeOK, TaskInv
<1>2. PolicyTypeOK' /\ CoresFollowFlags' /\ flag' = [flag EXCEPT ![t] = flag[t]]
  <2>1. UNCHANGED vars
    BY DEF CallFromMain, CallBack, CallDirect
  <2> QED
    BY <2>1, PolicyUnchanged DEF vars, Inv, TypeOK
<1>3. ASSUME NEW fr \in Frames,
             stack' = [stack EXCEPT ![t] = Append(@, fr)],
             UNCHANGED <<prog, wish, base, permanent>>,
             prog[t] \in Programs,
             stack[t] = << >> =>
               /\ fr.wrapped /\ fr.next \in {"get", "set"}
               /\ fr.fn \in MainCalls(t)
               /\ prog[t] \in Restoring \cup {"aes_off"} => fr.next = "get",
             stack[t] # << >> =>
               /\ stack[t][Len(stack[t])].next = "body"
               /\ stack[t][Len(stack[t])].fn \in PluginFunctions
               /\ fr.fn \in PluginFunctions
               /\ fr.next = "get" \/ (~fr.wrapped /\ fr.next = "body")
      PROVE  Inv'
  <2>1. /\ Append(stack[t], fr) \in Seq(Frames)
        /\ Append(stack[t], fr)[1] = IF stack[t] = << >> THEN fr ELSE stack[t][1]
        /\ Nested(Append(stack[t], fr), flag[t])
        /\ Remembered(stack[t], flag[t], base[t]) /\ (stack[t] # << >> \/ fr.next = "get")
             => Remembered(Append(stack[t], fr), flag[t], base[t])
    BY <1>1, <1>3, PushKeepsNested
  <2>2. Append(stack[t], fr)[1].fn \in MainCalls(t)
    BY <1>3, <2>1 DEF Inv, TaskInv
  <2>3. prog[t] \in Restoring \cup {"aes_off"}
          => Remembered(Append(stack[t], fr), flag[t], base[t])
    BY <1>1, <1>3, <2>1
  <2>4. stack' = [stack EXCEPT ![t] = Append(stack[t], fr)]
    BY <1>3
  <2> QED
    BY <1>1, <1>2, <1>3, <2>1, <2>2, <2>3, <2>4, CallStep
<1>4. CASE CallFromMain(t, c, fn)
  <2> DEFINE next == IF fn = "victim" THEN "set" ELSE "get"
  <2>1. /\ stack[t] = << >> /\ fn \in MainCalls(t)
        /\ stack' = [stack EXCEPT ![t] = Append(@, Entered(TRUE, next))]
        /\ UNCHANGED <<prog, wish, base, permanent>>
    BY <1>4 DEF CallFromMain, Push
  <2>2. prog[t] \in Programs /\ (fn = "victim" => prog[t] \notin Restoring \cup {"aes_off"})
    BY <2>1, ClientsAssumption DEF MainCalls, Programs, Restoring
  <2>3. Entered(TRUE, next) \in Frames
    BY DEF Frames
  <2> QED
    BY <1>3, <2>1, <2>2, <2>3
<1>5. CASE CallBack(t, c, fn)
  <2>1. /\ stack[t] # << >> /\ stack[t][Len(stack[t])].next = "body"
        /\ prog[t] = "lighttpd" /\ fn \in PluginFunctions
        /\ stack' = [stack EXCEPT ![t] = Append(@, Entered(TRUE, "get"))]
        /\ UNCHANGED <<prog, wish, base, permanent>>
    BY <1>5 DEF CallBack, InCall, Top, Push, PluginFunctions
  <2>2. stack[t][Len(stack[t])].fn \in PluginFunctions
    <3>1. stack[t][1].fn \in Entries
      BY <2>1 DEF Inv, TaskInv, MainCalls
    <3>2. Len(stack[t]) \in Nat \ {0}
      BY <1>1, <2>1, StackEnds
    <3> QED
      BY <1>1, <3>1, <3>2 DEF Nested, PluginFunctions
  <2>3. Entered(TRUE, "get") \in Frames
    BY DEF Frames
  <2> QED
    BY <1>3, <2>1, <2>2, <2>3 DEF Programs
<1>6. CASE CallDirect(t, c, fn)
  <2>1. /\ stack[t] # << >> /\ stack[t][Len(stack[t])].next = "body"
        /\ <<stack[t][Len(stack[t])].fn, fn>> \in Direct
        /\ stack' = [stack EXCEPT ![t] = Append(@, Entered(FALSE, "body"))]
        /\ UNCHANGED <<prog, wish, base, permanent>>
    BY <1>6 DEF CallDirect, InCall, Top, Push
  <2>2. stack[t][Len(stack[t])].fn \in PluginFunctions /\ fn \in PluginFunctions
    BY <2>1, ClientsAssumption DEF PluginFunctions
  <2>3. prog[t] \in Programs
    BY <1>6, InCallFacts DEF CallDirect
  <2>4. Entered(FALSE, "body") \in Frames
    BY DEF Frames
  <2> QED
    BY <1>3, <2>1, <2>2, <2>3, <2>4
<1> QED
  BY <1>4, <1>5, <1>6

(***************************************************************************)
(* A call saves the flag, sets it, or returns from its wrapped original:   *)
(* the steps that change the innermost call to fr and the flag to g.       *)
(***************************************************************************)
LEMMA TopStep ==
  ASSUME Inv, PolicyTypeOK', CoresFollowFlags',
         NEW t \in Tasks, NEW from, InCall(t, from),
         NEW fr \in Frames, NEW g \in BOOLEAN,
         SetTop(t, fr),
         flag' = [flag EXCEPT ![t] = g],
         UNCHANGED <<prog, wish, base, permanent>>,
         fr.fn = Top(t).fn, fr.wrapped = Top(t).wrapped,
         fr.next \in {"body", "restore"} => g = Protects(fr.fn),
         Len(stack[t]) > 1 /\ fr.next # "get" /\ fr.wrapped => fr.before,
         Len(stack[t]) > 1 => g,
         Len(stack[t]) = 1 /\ prog[t] \in Restoring \cup {"aes_off"} =>
           /\ fr.before = base[t]
           /\ fr.next \in {"get", "set"} => g = base[t]
  PROVE  Inv'
<1> DEFINE s == stack[t]
           r == [s EXCEPT ![Len(s)] = fr]
<1>1. /\ s \in Seq(Frames) /\ s # << >> /\ Len(s) \in Nat \ {0}
      /\ Top(t) = s[Len(s)]
      /\ flag[t] \in BOOLEAN /\ base[t] \in BOOLEAN
      /\ Nested(s, flag[t])
      /\ s[1].fn \in MainCalls(t) /\ prog[t] \in Programs
      /\ prog[t] \in Restoring \cup {"aes_off"} => Remembered(s, flag[t], base[t])
  BY InCallFacts
<1>2. /\ r \in Seq(Frames) /\ r # << >>
      /\ r[1] = IF Len(s) = 1 THEN fr ELSE s[1]
      /\ Nested(r, g)
  BY <1>1, TopKeepsNested
<1>3. stack' = [stack EXCEPT ![t] = r]
  BY DEF SetTop
<1> HIDE DEF r
<1>4. r[1].fn \in MainCalls(t)
  BY <1>1, <1>2
<1>5. ASSUME prog[t] \in Restoring \cup {"aes_off"}
      PROVE  Remembered(r, g, base[t])
  <2>1. CASE Len(s) = 1
    BY <1>2, <1>5, <2>1 DEF Remembered
  <2>2. CASE Len(s) > 1
    <3>1. r[1] = s[1] /\ s[1].next = "body"
      BY <1>1, <1>2, <2>2 DEF Nested
    <3> QED
      BY <1>1, <1>2, <1>5, <3>1 DEF Remembered
  <2> QED
    BY <2>1, <2>2, InCallFacts
<1> QED
  BY <1>1, <1>2, <1>3, <1>4, <1>5, CallStep

(***************************************************************************)
(* The innermost call returns, with the flag g.                            *)
(***************************************************************************)
LEMMA PopStep ==
  ASSUME Inv, PolicyTypeOK', CoresFollowFlags',
         NEW t \in Tasks, NEW from, InCall(t, from),
         NEW g \in BOOLEAN,
         Pop(t),
         flag' = [flag EXCEPT ![t] = g],
         UNCHANGED <<prog, wish, base, permanent>>,
         Len(stack[t]) > 1 => g,
         Len(stack[t]) = 1 /\ prog[t] \in Restoring \cup {"aes_off"} => g = base[t]
  PROVE  Inv'
<1> DEFINE s == stack[t]
           r == SubSeq(s, 1, Len(s) - 1)
<1>1. /\ s \in Seq(Frames) /\ s # << >> /\ Len(s) \in Nat \ {0}
      /\ Len(s) = 1 \/ Len(s) > 1
      /\ flag[t] \in BOOLEAN /\ base[t] \in BOOLEAN
      /\ Nested(s, flag[t])
      /\ s[1].fn \in MainCalls(t) /\ prog[t] \in Programs
      /\ prog[t] \in Restoring \cup {"aes_off"} => Remembered(s, flag[t], base[t])
  BY InCallFacts
<1>2. /\ r \in Seq(Frames)
      /\ r = << >> <=> Len(s) = 1
      /\ Len(s) > 1 => r[1] = s[1] /\ s[1].next = "body"
      /\ Nested(r, g)
  BY <1>1, PopKeepsNested
<1>3. stack' = [stack EXCEPT ![t] = r]
  BY DEF Pop
<1> HIDE DEF r
<1>4. ASSUME Len(s) > 1
      PROVE  /\ r # << >> /\ r[1] = s[1] /\ s[1].next = "body"
  <2>1. \A n \in Nat \ {0} : n > 1 => n # 1
    OBVIOUS
  <2>2. Len(s) # 1
    BY <1>1, <1>4, <2>1
  <2> QED
    BY <1>2, <1>4, <2>2
<1>5. r # << >> => r[1].fn \in MainCalls(t)
  BY <1>1, <1>2, <1>4
<1>6. ASSUME prog[t] \in Restoring \cup {"aes_off"}
      PROVE  Remembered(r, g, base[t])
  <2>1. CASE Len(s) = 1
    BY <1>2, <1>6, <2>1 DEF Remembered
  <2>2. CASE Len(s) > 1
    BY <1>1, <1>4, <1>6, <2>2 DEF Remembered
  <2> QED
    BY <1>1, <2>1, <2>2
<1> QED
  BY <1>1, <1>2, <1>3, <1>5, <1>6, CallStep

(***************************************************************************)
(* The steps of the bracket around the original function.                  *)
(***************************************************************************)
LEMMA BracketKeepsInv ==
  ASSUME Inv, NEW t \in Tasks, NEW c \in Cpus,
         SaveFlag(t, c) \/ SetOwnFlag(t, c) \/ BodyReturns(t, c) \/ RestoreFlag(t, c)
  PROVE  Inv'
<1> DEFINE s == stack[t]
<1>1. /\ s \in Seq(Frames) /\ s # << >> /\ Len(s) \in Nat \ {0}
      /\ Top(t) = s[Len(s)] /\ Top(t) \in Frames
      /\ flag[t] \in BOOLEAN /\ base[t] \in BOOLEAN
      /\ Nested(s, flag[t])
      /\ prog[t] \in Restoring \cup {"aes_off"} => Remembered(s, flag[t], base[t])
  BY InCallFacts DEF SaveFlag, SetOwnFlag, BodyReturns, RestoreFlag
<1>2. /\ Len(s) > 1 =>
           /\ flag[t]
           /\ Top(t).fn \in PluginFunctions
           /\ Top(t).next # "get" /\ Top(t).wrapped => Top(t).before
      /\ Top(t).next \in {"body", "restore"} => flag[t] = Protects(Top(t).fn)
      /\ Len(s) = 1 => Top(t).wrapped
  BY <1>1 DEF Nested, PluginFunctions
<1>3. ASSUME Len(s) = 1, prog[t] \in Restoring \cup {"aes_off"}
      PROVE  /\ Top(t).next \in {"get", "set"} => flag[t] = base[t]
             /\ Top(t).next # "get" => Top(t).before = base[t]
  BY <1>1, <1>3 DEF Remembered
<1>4. ASSUME UNCHANGED vars
      PROVE  PolicyTypeOK' /\ CoresFollowFlags' /\ flag' = [flag EXCEPT ![t] = flag[t]]
  BY <1>4, PolicyUnchanged DEF vars, Inv, TypeOK
<1>5. ASSUME NEW value \in BOOLEAN, running[c] = t, SetFlag(c, value)
      PROVE  PolicyTypeOK' /\ CoresFollowFlags' /\ flag' = [flag EXCEPT ![t] = value]
  BY <1>5, PolicyTypes, SetFlagKeepsPolicy DEF Inv
<1>6. CASE SaveFlag(t, c)
  <2> DEFINE fr == [Top(t) EXCEPT !.next = "set", !.before = flag[t]]
  <2>1. /\ InCall(t, "get") /\ SetTop(t, fr) /\ UNCHANGED vars
        /\ UNCHANGED <<prog, wish, base, permanent>>
        /\ Top(t).next = "get" /\ Top(t).wrapped
    BY <1>1, <1>6, FrameParts DEF SaveFlag, InCall
  <2>2. /\ fr \in Frames /\ fr.next = "set" /\ fr.before = flag[t]
        /\ fr.fn = Top(t).fn /\ fr.wrapped = Top(t).wrapped
    <3>1. fr \in Frames
      BY <1>1, <2>1, FrameGoesOn DEF Steps
    <3> QED
      BY <1>1, <3>1, FrameParts
  <2> HIDE DEF fr
  <2> QED
    BY <1>1, <1>2, <1>3, <1>4, <2>1, <2>2, TopStep
<1>7. CASE SetOwnFlag(t, c)
  <2> DEFINE fr == [Top(t) EXCEPT !.next = "body"]
             g == Protects(Top(t).fn)
  <2>1. /\ InCall(t, "set") /\ SetTop(t, fr) /\ SetFlag(c, g) /\ running[c] = t
        /\ UNCHANGED <<prog, wish, base, permanent>>
        /\ Top(t).next = "set" /\ Top(t).wrapped
    BY <1>1, <1>7, FrameParts DEF SetOwnFlag, InCall, Runs
  <2>2. /\ fr \in Frames /\ fr.next = "body" /\ fr.before = Top(t).before
        /\ fr.fn = Top(t).fn /\ fr.wrapped = Top(t).wrapped
    <3>1. fr \in Frames
      BY <1>1, <2>1, FrameGoesOn DEF Steps
    <3> QED
      BY <1>1, <3>1, FrameParts
  <2>3. g \in BOOLEAN /\ (Top(t).fn \in PluginFunctions => g)
    BY ClientsAssumption DEF Protects, PluginFunctions
  <2> HIDE DEF fr
  <2>4. g = Protects(fr.fn)
    BY <2>2
  <2> HIDE DEF g
  <2> QED
    BY <1>1, <1>2, <1>3, <1>5, <2>1, <2>2, <2>3, <2>4, TopStep
<1>8. CASE BodyReturns(t, c)
  <2> DEFINE fr == [Top(t) EXCEPT !.next = "restore"]
  <2>1. /\ InCall(t, "body") /\ UNCHANGED vars
        /\ UNCHANGED <<prog, wish, base, permanent>>
        /\ Top(t).next = "body"
        /\ IF Top(t).wrapped THEN SetTop(t, fr) ELSE Pop(t)
    BY <1>1, <1>8 DEF BodyReturns, InCall
  <2>2. CASE Top(t).wrapped
    <3>1. /\ fr \in Frames /\ fr.next = "restore" /\ fr.before = Top(t).before
          /\ fr.fn = Top(t).fn /\ fr.wrapped = Top(t).wrapped
      BY <1>1, <2>1, <2>2, FrameGoesOn, FrameParts DEF Steps
    <3> HIDE DEF fr
    <3> QED
      BY <1>1, <1>2, <1>3, <1>4, <2>1, <2>2, <3>1, TopStep
  <2>3. CASE ~Top(t).wrapped
    <3>1. Len(s) # 1 /\ Pop(t)
      BY <1>2, <2>1, <2>3
    <3> QED
      BY <1>1, <1>2, <1>4, <2>1, <3>1, PopStep
  <2> QED
    BY <2>2, <2>3
<1>9. CASE RestoreFlag(t, c)
  <2>1. /\ InCall(t, "restore") /\ Pop(t) /\ SetFlag(c, Top(t).before) /\ running[c] = t
        /\ UNCHANGED <<prog, wish, base, permanent>>
        /\ Top(t).next = "restore" /\ Top(t).wrapped /\ Top(t).before \in BOOLEAN
    BY <1>1, <1>9, FrameParts DEF RestoreFlag, InCall, Runs
  <2> QED
    BY <1>1, <1>2, <1>3, <1>5, <2>1, PopStep
<1> QED
  BY <1>6, <1>7, <1>8, <1>9

(***************************************************************************)
(* A program ends.                                                         *)
(***************************************************************************)
LEMMA LeaveKeepsInv ==
  ASSUME Inv, NEW t \in Tasks, Leave(t)
  PROVE  Inv'
<1>1. PolicyTypeOK' /\ CoresFollowFlags'
  BY PolicyUnchanged DEF Leave
<1>2. << >> \in Seq(Frames)
  BY EmptySeq
<1>3. TypeOK'
  BY <1>1, <1>2 DEF Inv, TypeOK, PolicyTypeOK, Leave
<1>4. ASSUME NEW u \in Tasks, u # t
      PROVE  TaskInv(u)'
  <2>1. Untouched(u)
    BY <1>4 DEF Leave, vars, Untouched, Inv, TypeOK
  <2> QED
    BY <2>1, UntouchedKeepsInv DEF Inv
<1>5. TaskInv(t)'
  <2>1. stack'[t] = << >> /\ prog'[t] = "none"
    BY DEF Leave, Inv, TypeOK
  <2>2. Nested(stack'[t], flag'[t])
    BY <2>1, EmptySeq DEF Nested
  <2> QED
    BY <2>1, <2>2 DEF TaskInv, Restoring, Launchers, Programs
<1> QED
  BY <1>1, <1>3, <1>4, <1>5 DEF Inv

(***************************************************************************)
(* A CGI child starts with the flag that its parent was started with.      *)
(***************************************************************************)
LEMMA ForkCgiKeepsInv ==
  ASSUME Inv, NEW t \in Tasks, NEW c \in Cpus, NEW child \in Tasks,
         ForkCgi(t, c, child)
  PROVE  Inv'
<1>1. /\ running[c] = t /\ prog[t] \in {"lighttpd", "plain"} /\ stack[t] = << >>
      /\ prog[child] = "none" /\ child # t
      /\ flag[t] \in BOOLEAN /\ flag[child] \in BOOLEAN
  BY DEF ForkCgi, Runs, Inv, TypeOK
<1>2. stack[child] = << >>
  BY <1>1 DEF Inv, TaskInv, MainCalls
<1>3. flag[t] = base[t]
  BY <1>1 DEF Inv, TaskInv, Remembered, Restoring
<1>4. PolicyTypeOK' /\ CoresFollowFlags' /\ flag' = [flag EXCEPT ![child] = flag[t]]
  <2>1. CASE booted
    BY <1>1, <2>1, PolicyTypes, ForkKeepsPolicy DEF ForkCgi, Inv
  <2>2. CASE ~booted
    <3>1. UNCHANGED vars
      BY <2>2 DEF ForkCgi
    <3>2. ~flag[t] /\ ~flag[child]
      BY <2>2 DEF Inv, CoresFollowFlags
    <3>3. flag[child] = flag[t]
      BY <1>1, <3>2
    <3> QED
      BY <3>1, <3>3, PolicyUnchanged DEF vars, Inv, TypeOK
  <2> QED
    BY <2>1, <2>2
<1>5. TypeOK'
  BY <1>1, <1>4 DEF Inv, TypeOK, PolicyTypeOK, ForkCgi, Programs
<1>6. ASSUME NEW u \in Tasks, u # child
      PROVE  TaskInv(u)'
  <2>1. Untouched(u)
    BY <1>4, <1>6 DEF ForkCgi, Untouched, Inv, TypeOK
  <2> QED
    BY <2>1, UntouchedKeepsInv DEF Inv
<1>7. TaskInv(child)'
  <2>1. /\ stack'[child] = << >> /\ prog'[child] = "plain"
        /\ flag'[child] = flag[t] /\ base'[child] = flag[t]
        /\ child \in permanent' <=> t \in permanent
    BY <1>2, <1>4 DEF ForkCgi, Inv, TypeOK
  <2>2. Nested(stack'[child], flag'[child])
    BY <2>1, EmptySeq DEF Nested
  <2>3. Remembered(stack'[child], flag'[child], base'[child])
    BY <2>1 DEF Remembered
  <2>4. t \in permanent => flag[t]
    BY <1>1, <1>3 DEF Inv, TaskInv, Programs
  <2> QED
    BY <2>1, <2>2, <2>3, <2>4 DEF TaskInv, Launchers
<1> QED
  BY <1>4, <1>5, <1>6, <1>7 DEF Inv

(***************************************************************************)
(* The initial states satisfy the invariant.                               *)
(***************************************************************************)
LEMMA InitSatisfiesInv == ClientsInit => Inv
<1> SUFFICES ASSUME ClientsInit PROVE Inv
  OBVIOUS
<1>1. << >> \in Seq(Frames)
  BY EmptySeq
<1>2. TypeOK
  <2>1. /\ stack \in [Tasks -> Seq(Frames)]
        /\ permanent \in SUBSET Tasks
        /\ running \in [Cpus -> Tasks \cup {Idle}]
        /\ disabled \in [Cores -> SUBSET PfBits]
    BY <1>1 DEF ClientsInit
  <2>2. base \in [Tasks -> BOOLEAN]
    BY DEF ClientsInit
  <2>3. prog \in [Tasks -> Programs \cup Launchers \cup {"none"}]
    BY DEF ClientsInit, Launchers
  <2> QED
    BY <2>1, <2>2, <2>3 DEF ClientsInit, TypeOK
<1>3. CoresFollowFlags
  BY DEF ClientsInit, CoresFollowFlags
<1>4. ASSUME NEW t \in Tasks
      PROVE  TaskInv(t)
  <2>1. /\ stack[t] = << >> /\ base[t] = flag[t] /\ t \notin permanent
        /\ prog[t] # "pfdisset_exec"
    BY DEF ClientsInit, Programs
  <2>2. Nested(stack[t], flag[t])
    BY <2>1, EmptySeq DEF Nested
  <2> QED
    BY <2>1, <2>2 DEF TaskInv, Remembered
<1> QED
  BY <1>2, <1>3, <1>4 DEF Inv

(***************************************************************************)
(* Every step keeps the invariant.                                         *)
(***************************************************************************)
LEMMA NextKeepsInv == Inv /\ [ClientsNext]_allVars => Inv'
<1> SUFFICES ASSUME Inv, [ClientsNext]_allVars PROVE Inv'
  OBVIOUS
<1>1. ASSUME NEW c \in Cpus, NEW t \in Tasks \cup {Idle}, Schedule(c, t)
      PROVE  Inv'
  BY <1>1, ScheduleKeepsInv
<1>2. ASSUME NEW t \in Tasks, NEW c \in Cpus, ProgramStep(t, c)
      PROVE  Inv'
  <2>1. CASE \/ LaunchSet(t, c)
             \/ LaunchCheck(t, c)
             \/ \E program \in Programs : LaunchExec(t, c, program)
    BY <2>1, LauncherKeepsInv
  <2>2. CASE \E fn \in Functions :
               CallFromMain(t, c, fn) \/ CallBack(t, c, fn) \/ CallDirect(t, c, fn)
    BY <2>2, CallKeepsInv
  <2>3. CASE SaveFlag(t, c) \/ SetOwnFlag(t, c) \/ BodyReturns(t, c) \/ RestoreFlag(t, c)
    BY <2>3, BracketKeepsInv
  <2>4. CASE PrctlFails(t, c) \/ Exit(t, c)
    BY <2>4, LeaveKeepsInv DEF PrctlFails, Exit
  <2>5. CASE \E child \in Tasks : ForkCgi(t, c, child)
    BY <2>5, ForkCgiKeepsInv
  <2> QED
    BY <1>2, <2>1, <2>2, <2>3, <2>4, <2>5 DEF ProgramStep
<1>3. CASE UNCHANGED allVars
  <2>1. PolicyTypeOK' /\ CoresFollowFlags'
    BY <1>3, PolicyUnchanged DEF allVars
  <2>2. TypeOK'
    BY <1>3, <2>1 DEF allVars, clientVars, Inv, TypeOK, PolicyTypeOK
  <2>3. ASSUME NEW u \in Tasks
        PROVE  TaskInv(u)'
    <3>1. Untouched(u)
      BY <1>3 DEF allVars, vars, clientVars, Untouched
    <3> QED
      BY <3>1, UntouchedKeepsInv DEF Inv
  <2> QED
    BY <2>1, <2>2, <2>3 DEF Inv
<1> QED
  BY <1>1, <1>2, <1>3 DEF ClientsNext

-----------------------------------------------------------------------------
(* The theorems.                                                           *)

(***************************************************************************)
(* The variables keep their types, and the calls of every task nest such   *)
(* that the outermost remembers the flag from before and the others find   *)
(* it set.                                                                 *)
(***************************************************************************)
THEOREM ClientsSafety == ClientsSpec => [](TypeOK /\ ClientsInv)
<1>1. ClientsInit => Inv
  BY InitSatisfiesInv
<1>2. Inv /\ [ClientsNext]_allVars => Inv'
  BY NextKeepsInv
<1>3. Inv => TypeOK /\ ClientsInv
  BY InvIsClientsInv
<1> QED
  BY <1>1, <1>2, <1>3, PTL DEF ClientsSpec

(***************************************************************************)
(* A flag that is set is obeyed on the CPU that runs the task.             *)
(***************************************************************************)
LEMMA FlagDisables ==
  ASSUME Inv, NEW t \in Tasks, NEW c \in Cpus, running[c] = t, flag[t]
  PROVE  disabled[CoreOf[c]] = PfBits
BY DEF Inv, CoresFollowFlags

(***************************************************************************)
(* The code between the two prctl calls of a bracket, which handles the    *)
(* secrets, executes with the prefetchers of its core disabled.            *)
(***************************************************************************)
THEOREM SecretsAreProtected == ClientsSpec => []SecretsProtected
<1>1. TypeOK /\ ClientsInv => SecretsProtected
  <2> SUFFICES ASSUME Inv, NEW t \in Tasks, NEW c \in Cpus,
                      Runs(t, c), InCall(t, "body"), Protects(Top(t).fn)
               PROVE  disabled[CoreOf[c]] = PfBits
    BY InvIsClientsInv DEF SecretsProtected
  <2>1. flag[t]
    BY InCallFacts DEF Nested
  <2> QED
    BY <2>1, FlagDisables DEF Runs
<1> QED
  BY <1>1, ClientsSafety, PTL

(***************************************************************************)
(* A program that restores its flag is back in its main loop with the flag *)
(* it was started with.                                                    *)
(***************************************************************************)
THEOREM FlagsAreRestored == ClientsSpec => []FlagRestored
<1>1. TypeOK /\ ClientsInv => FlagRestored
  BY DEF ClientsInv, BaseRemembered, Remembered, FlagRestored
<1> QED
  BY <1>1, ClientsSafety, PTL

(***************************************************************************)
(* A program that pfdisset -d has started, and its children, execute all   *)
(* their code with the prefetchers disabled if they restore their flag     *)
(* when they change it.                                                    *)
(***************************************************************************)
THEOREM StaysDisabled == ClientsSpec => []PermanentlyDisabled
<1>1. TypeOK /\ ClientsInv => PermanentlyDisabled
  <2> SUFFICES ASSUME Inv, NEW t \in permanent, NEW c \in Cpus,
                      Runs(t, c), prog[t] \in Restoring
               PROVE  disabled[CoreOf[c]] = PfBits
    BY InvIsClientsInv DEF PermanentlyDisabled
  <2>1. t \in Tasks /\ base[t]
    BY DEF Inv, TypeOK, TaskInv, Restoring, Programs
  <2>2. flag[t]
    <3>1. CASE stack[t] = << >>
      BY <2>1, <3>1 DEF Inv, TaskInv, Remembered
    <3>2. CASE stack[t] # << >>
      <4>1. InCall(t, Top(t).next)
        BY <3>2 DEF InCall
      <4>2. /\ Len(stack[t]) = 1 \/ Len(stack[t]) > 1
            /\ Len(stack[t]) \in Nat \ {0}
            /\ Nested(stack[t], flag[t])
            /\ Remembered(stack[t], flag[t], base[t])
            /\ Top(t) \in Frames
            /\ stack[t][1].fn \in MainCalls(t)
        BY <2>1, <4>1, InCallFacts
      <4>3. CASE Len(stack[t]) > 1
        BY <4>2, <4>3 DEF Nested
      <4>4. CASE Len(stack[t]) = 1
        <5>1. Top(t) = stack[t][1] /\ Protects(Top(t).fn)
          BY <4>2, <4>4, ClientsAssumption DEF Top, MainCalls, Restoring, Protects
        <5>2. CASE Top(t).next \in {"get", "set"}
          BY <2>1, <4>2, <5>1, <5>2 DEF Remembered
        <5>3. CASE Top(t).next \in {"body", "restore"}
          BY <3>2, <4>2, <4>4, <5>1, <5>3 DEF Nested
        <5> QED
          BY <4>2, <5>2, <5>3 DEF Frames
      <4> QED
        BY <4>2, <4>3, <4>4
    <3> QED
      BY <3>1, <3>2
  <2> QED
    BY <2>1, <2>2, FlagDisables DEF Runs
<1> QED
  BY <1>1, ClientsSafety, PTL
=============================================================================
