---------------------------- MODULE FlagClients ----------------------------
(***************************************************************************)
(* The programs of the repository that protect code with their flag, on a  *)
(* kernel that keeps the policy of PrefetchPolicy:                         *)
(*  - lighttpd, whose TLS plugin is patched so that every function that    *)
(*    lighttpd or OpenSSL calls saves the flag, sets it, runs the original *)
(*    function and restores the flag.  OpenSSL calls some of them while    *)
(*    others run, and some originals call each other directly;             *)
(*  - the AES victims of FetchBench, which do so around an encryption, but *)
(*    clear the flag instead when built or started without PreFence;       *)
(*  - victim-bn, which sets the flag, computes, and clears the flag;       *)
(*  - pfdisset, which sets or clears the flag and executes a program;      *)
(*  - programs that do not know the flag: CGI children, stock lighttpd.     *)
(* A kernel without the patch refuses every prctl, and all of them exit.   *)
(***************************************************************************)
EXTENDS PrefetchPolicy, Integers, Sequences

CONSTANTS
  Entries,           (* plugin functions that lighttpd calls                *)
  Callbacks,         (* plugin functions that OpenSSL calls                 *)
  Direct,            (* pairs of plugin functions whose originals call each *)
                     (* other directly                                      *)
  MaxDepth           (* bounds the nesting of calls                         *)

ASSUME ClientsAssumption ==
  /\ Direct \subseteq (Entries \cup Callbacks) \X (Entries \cup Callbacks)
  /\ {"aes", "aes_off", "victim"} \cap (Entries \cup Callbacks) = {}
  /\ MaxDepth \in Nat \ {0}
  /\ Idle \notin Tasks
  /\ CoreOf \in [Cpus -> Cores]

VARIABLES
  prog,          (* per task, the program it executes, or "none"             *)
  wish,          (* per task, whether pfdisset was called with -d            *)
  stack,         (* per task, the calls it is in, the innermost one last     *)
  (* History variables:                                                      *)
  base,          (* per task, its flag when it started its program           *)
  permanent      (* tasks that pfdisset -d has started, and their children   *)

clientVars == <<prog, wish, stack, base, permanent>>
allVars    == <<vars, clientVars>>

Programs  == {"lighttpd", "aes", "aes_off", "victim", "plain"}
Launchers == {"pfdisset_set", "pfdisset_check", "pfdisset_exec"}

\* The programs that leave the flag as they found it.
Restoring == {"lighttpd", "aes", "plain"}

Functions == Entries \cup Callbacks \cup {"aes", "aes_off", "victim"}

\* A call of a function: wrapped or of the original, what it does next, and
\* its pfdis_before.  An original that is called directly restores nothing.
Frames ==
  {f \in [fn : Functions, wrapped : BOOLEAN, before : BOOLEAN,
          next : {"get", "set", "body", "restore"}] : f.wrapped \/ f.next = "body"}

Top(t) == stack[t][Len(stack[t])]

\* Functions that handle secrets with the flag set.
Protects(fn) == fn # "aes_off"

\* Some task executes a program, started by a shell that may have the flag
\* itself on a kernel with the patch.
ClientsInit ==
  /\ booted \in BOOLEAN
  /\ flag \in [Tasks \cup {Idle} -> BOOLEAN]
  /\ \A t \in Tasks \cup {Idle} : flag[t] => booted /\ t # Idle
  /\ running = [c \in Cpus |-> Idle]
  /\ disabled = [k \in Cores |-> {}]
  /\ prog \in [Tasks -> Programs \cup {"pfdisset_set", "none"}]
  /\ wish \in [Tasks -> BOOLEAN]
  /\ stack = [t \in Tasks |-> << >>]
  /\ base = [t \in Tasks |-> flag[t]]
  /\ permanent = {}

-----------------------------------------------------------------------------

Schedule(c, t) ==
  /\ t \in Tasks => prog[t] # "none"
  /\ Switch(c, t)
  /\ UNCHANGED clientVars

Runs(t, c) == running[c] = t /\ prog[t] # "none"

InCall(t, next) == stack[t] # << >> /\ Top(t).next = next

Push(t, fn, wrapped, next) ==
  stack' = [stack EXCEPT ![t] = Append(@,
    [fn |-> fn, wrapped |-> wrapped, next |-> next, before |-> FALSE])]

Pop(t) == stack' = [stack EXCEPT ![t] = SubSeq(@, 1, Len(@) - 1)]

SetTop(t, frame) ==
  stack' = [stack EXCEPT ![t] = [stack[t] EXCEPT ![Len(stack[t])] = frame]]

\* exit()
Leave(t) ==
  /\ prog' = [prog EXCEPT ![t] = "none"]
  /\ stack' = [stack EXCEPT ![t] = << >>]
  /\ UNCHANGED <<vars, wish, base, permanent>>

-----------------------------------------------------------------------------
(* pfdisset.                                                               *)

\* set_flag(): the flag becomes 1 for -d and 0 for -e.
LaunchSet(t, c) ==
  /\ Runs(t, c)
  /\ prog[t] = "pfdisset_set"
  /\ SetFlag(c, wish[t])
  /\ prog' = [prog EXCEPT ![t] = "pfdisset_check"]
  /\ UNCHANGED <<wish, stack, base, permanent>>

\* assert_flag()
LaunchCheck(t, c) ==
  /\ Runs(t, c)
  /\ prog[t] = "pfdisset_check"
  /\ flag[t] = wish[t]
  /\ prog' = [prog EXCEPT ![t] = "pfdisset_exec"]
  /\ UNCHANGED <<vars, wish, stack, base, permanent>>

\* execvp() of any program; the flag belongs to the task.
LaunchExec(t, c, program) ==
  /\ Runs(t, c)
  /\ prog[t] = "pfdisset_exec"
  /\ prog' = [prog EXCEPT ![t] = program]
  /\ base' = [base EXCEPT ![t] = flag[t]]
  /\ permanent' = IF wish[t] THEN permanent \cup {t} ELSE permanent
  /\ UNCHANGED <<vars, wish, stack>>

-----------------------------------------------------------------------------
(* The bracket around protected code.                                      *)

\* The functions that program t calls in its main loop.
MainCalls(t) ==
  CASE prog[t] = "lighttpd" -> Entries
    [] prog[t] \in {"aes", "aes_off", "victim"} -> {prog[t]}
    [] OTHER -> {}

\* A call from the main loop; victim-bn does not save its flag.
CallFromMain(t, c, fn) ==
  /\ Runs(t, c)
  /\ stack[t] = << >>
  /\ fn \in MainCalls(t)
  /\ Push(t, fn, TRUE, IF fn = "victim" THEN "set" ELSE "get")
  /\ UNCHANGED <<vars, prog, wish, base, permanent>>

\* OpenSSL calls back while the plugin has called it.
CallBack(t, c, fn) ==
  /\ Runs(t, c)
  /\ prog[t] = "lighttpd"
  /\ InCall(t, "body")
  /\ Len(stack[t]) < MaxDepth
  /\ fn \in Callbacks
  /\ Push(t, fn, TRUE, "get")
  /\ UNCHANGED <<vars, prog, wish, base, permanent>>

\* An original calls another original.
CallDirect(t, c, fn) ==
  /\ Runs(t, c)
  /\ InCall(t, "body")
  /\ Len(stack[t]) < MaxDepth
  /\ <<Top(t).fn, fn>> \in Direct
  /\ Push(t, fn, FALSE, "body")
  /\ UNCHANGED <<vars, prog, wish, base, permanent>>

\* Faulty variant: the flag is not asked for, and taken to be clear.
SaveNothing(t, c) ==
  /\ Runs(t, c)
  /\ InCall(t, "get")
  /\ booted
  /\ SetTop(t, [Top(t) EXCEPT !.next = "set"])
  /\ UNCHANGED <<vars, prog, wish, base, permanent>>

\* pfdis_before = get_pfdis_flag()
SaveFlag(t, c) ==
  /\ Runs(t, c)
  /\ InCall(t, "get")
  /\ booted
  /\ SetTop(t, [Top(t) EXCEPT !.next = "set", !.before = flag[t]])
  /\ UNCHANGED <<vars, prog, wish, base, permanent>>

\* set_pfdis_flag(1), or 0 without PreFence.
SetOwnFlag(t, c) ==
  /\ Runs(t, c)
  /\ InCall(t, "set")
  /\ SetFlag(c, Protects(Top(t).fn))
  /\ SetTop(t, [Top(t) EXCEPT !.next = "body"])
  /\ UNCHANGED <<prog, wish, base, permanent>>

\* The original function returns.
BodyReturns(t, c) ==
  /\ Runs(t, c)
  /\ InCall(t, "body")
  /\ IF Top(t).wrapped
     THEN SetTop(t, [Top(t) EXCEPT !.next = "restore"])
     ELSE Pop(t)
  /\ UNCHANGED <<vars, prog, wish, base, permanent>>

\* Faulty variant: the flag is cleared when the call returns.
ClearFlag(t, c) ==
  /\ Runs(t, c)
  /\ InCall(t, "restore")
  /\ SetFlag(c, FALSE)
  /\ Pop(t)
  /\ UNCHANGED <<prog, wish, base, permanent>>

\* set_pfdis_flag(pfdis_before); in victim-bn, of 0.
RestoreFlag(t, c) ==
  /\ Runs(t, c)
  /\ InCall(t, "restore")
  /\ SetFlag(c, Top(t).before)
  /\ Pop(t)
  /\ UNCHANGED <<prog, wish, base, permanent>>

\* The kernel does not know the prctl, and the program exits.
PrctlFails(t, c) ==
  /\ Runs(t, c)
  /\ ~booted
  /\ \/ prog[t] = "pfdisset_set"
     \/ InCall(t, "get") \/ InCall(t, "set")
  /\ Leave(t)

\* The program ends, or is killed.
Exit(t, c) == Runs(t, c) /\ Leave(t)

\* lighttpd, with or without the patch, forks a CGI program from its main loop.
ForkCgi(t, c, child) ==
  /\ Runs(t, c)
  /\ prog[t] \in {"lighttpd", "plain"}
  /\ stack[t] = << >>
  /\ prog[child] = "none"
  /\ IF booted THEN Fork(c, child) ELSE UNCHANGED vars
  /\ \A d \in Cpus : running[d] # child
  /\ prog' = [prog EXCEPT ![child] = "plain"]
  /\ base' = [base EXCEPT ![child] = flag[t]]
  /\ permanent' = IF t \in permanent THEN permanent \cup {child}
                                     ELSE permanent \ {child}
  /\ UNCHANGED <<wish, stack>>

ProgramStep(t, c) ==
  \/ LaunchSet(t, c)
  \/ LaunchCheck(t, c)
  \/ \E program \in Programs : LaunchExec(t, c, program)
  \/ \E fn \in Functions :
       CallFromMain(t, c, fn) \/ CallBack(t, c, fn) \/ CallDirect(t, c, fn)
  \/ SaveFlag(t, c)
  \/ SetOwnFlag(t, c)
  \/ BodyReturns(t, c)
  \/ RestoreFlag(t, c)
  \/ PrctlFails(t, c)
  \/ Exit(t, c)
  \/ \E child \in Tasks : ForkCgi(t, c, child)

ClientsNext ==
  \/ \E c \in Cpus, t \in Tasks \cup {Idle} : Schedule(c, t)
  \/ \E t \in Tasks, c \in Cpus : ProgramStep(t, c)

ClientsSpec == ClientsInit /\ [][ClientsNext]_allVars

-----------------------------------------------------------------------------
(* Properties.                                                             *)

TypeOK ==
  /\ booted \in BOOLEAN
  /\ flag \in [Tasks \cup {Idle} -> BOOLEAN]
  /\ running \in [Cpus -> Tasks \cup {Idle}]
  /\ disabled \in [Cores -> SUBSET PfBits]
  /\ prog \in [Tasks -> Programs \cup Launchers \cup {"none"}]
  /\ wish \in [Tasks -> BOOLEAN]
  /\ stack \in [Tasks -> Seq(Frames)]
  /\ base \in [Tasks -> BOOLEAN]
  /\ permanent \in SUBSET Tasks

(***************************************************************************)
(* Code between the two prctl calls of a bracket executes on a core whose  *)
(* prefetchers are disabled: however the calls nest, wherever the task is  *)
(* moved and whatever the other tasks do with their flags.  On a kernel    *)
(* without the patch such code is never executed.                          *)
(***************************************************************************)
SecretsProtected ==
  \A t \in Tasks, c \in Cpus :
    Runs(t, c) /\ InCall(t, "body") /\ Protects(Top(t).fn) =>
      disabled[CoreOf[c]] = PfBits

(***************************************************************************)
(* A program that restores its flag is back at the flag it was started     *)
(* with whenever it is in its main loop, and so passes that one on to its  *)
(* children.                                                               *)
(***************************************************************************)
FlagRestored ==
  \A t \in Tasks :
    prog[t] \in Restoring /\ stack[t] = << >> => flag[t] = base[t]

(***************************************************************************)
(* "Run another program with prefetching permanently disabled" (README of  *)
(* pfdisset): a program that pfdisset -d has started executes all its code *)
(* with prefetchers disabled, and so do its children, unless it clears its *)
(* flag on purpose as victim-bn and an AES victim without PreFence do.     *)
(***************************************************************************)
PermanentlyDisabled ==
  \A t \in permanent, c \in Cpus :
    Runs(t, c) /\ prog[t] \in Restoring => disabled[CoreOf[c]] = PfBits

-----------------------------------------------------------------------------
(* The inductive forms.                                                    *)

\* The kernel keeps the policy, and runs a task on one CPU at most.
CoresFollowFlags ==
  /\ ~flag[Idle]
  /\ ~booted => \A t \in Tasks : ~flag[t]
  /\ \A c, d \in Cpus : running[c] = running[d] /\ running[c] # Idle => c = d
  /\ booted => \A c \in Cpus : flag[running[c]] => disabled[CoreOf[c]] = PfBits

\* In the calls s of a program whose flag is f: a call has calls on top only
\* while its original runs; the inner calls are of plugin functions, and find
\* the flag set and leave it set.
Nested(s, f) ==
  /\ s # << >> => s[1].wrapped
  /\ \A i \in 1..Len(s) :
       /\ i < Len(s) => s[i].next = "body" /\ s[i].fn \in Entries \cup Callbacks
       /\ i > 1 =>
            /\ f
            /\ s[i].fn \in Entries \cup Callbacks
            /\ s[i].next # "get" /\ s[i].wrapped => s[i].before
  /\ s # << >> /\ s[Len(s)].next \in {"body", "restore"} => f = Protects(s[Len(s)].fn)

\* The outermost of the calls s remembers the flag b from before.
Remembered(s, f, b) ==
  /\ s = << >> \/ s[1].next \in {"get", "set"} => f = b
  /\ s # << >> /\ s[1].next # "get" => s[1].before = b

CallsNest ==
  \A t \in Tasks :
    /\ Nested(stack[t], flag[t])
    /\ stack[t] # << >> => stack[t][1].fn \in MainCalls(t)

BaseRemembered ==
  \A t \in Tasks :
    prog[t] \in Restoring \cup {"aes_off"} => Remembered(stack[t], flag[t], base[t])

\* What pfdisset -d starts, starts with the flag.
PermanentHaveBase ==
  /\ \A t \in permanent : prog[t] \notin Launchers
  /\ \A t \in permanent : prog[t] \in Programs => base[t]
  /\ \A t \in Tasks : prog[t] = "pfdisset_exec" => flag[t] = wish[t]

ClientsInv == CoresFollowFlags /\ CallsNest /\ BaseRemembered /\ PermanentHaveBase
=============================================================================
