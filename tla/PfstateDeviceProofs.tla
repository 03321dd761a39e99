------------------------ MODULE PfstateDeviceProofs ------------------------
(***************************************************************************)
(* Theorems about PfstateDevice, for any number of processes and CPUs:     *)
(* only racing opens break the promises about the counter, and, when no    *)
(* register holds a CPU's number, a query's answer was true at some moment *)
(* of the call.                                                            *)
(***************************************************************************)
EXTENDS PfstateDevice, DeviceOpenProofs

(***************************************************************************)
(* Every step of the module is a step of DeviceOpen or leaves it alone.    *)
(***************************************************************************)
LEMMA QueryOpenStep == [Next]_vars => [OpenNext]_openVars
BY DEF Next, vars, OpenNext, Query, QueryRead, QueryFinish, QueryReturn, OtherIoctl, KernelSets

(***************************************************************************)
(* At most one process has the device open, and it can be opened when no   *)
(* process has, until two calls of device_open() race.                     *)
(***************************************************************************)
THEOREM PfstateOnlyOpensRace == Spec => []OnlyOpensRace
<1>1. Init => OneUser
  BY OneUserInit DEF Init
<1>2. OneUser /\ [Next]_vars => OneUser'
  BY QueryOpenStep, OneUserStep
<1>3. QED
  BY <1>1, <1>2, OneUserSuffices, PTL DEF Spec

-----------------------------------------------------------------------------
(***************************************************************************)
(* The registers' words are numbers, and a CPU's number is left as it is   *)
(* by the conversion to uint64_t.                                          *)
(***************************************************************************)
LEMMA WordFacts == Words \subseteq Int /\ \A c \in Online : AsWord(c) = c /\ c \in Int
BY PfstateAssumption DEF Words, AsWord

(***************************************************************************)
(* QueryInv and the shape of at hold initially.                            *)
(***************************************************************************)
LEMMA QueryInvInit == Init => QueryInv
BY DEF Init, OpenInit, QueryInv, AnswerIsCurrent, NoAnswer, Words, NoQuery

(***************************************************************************)
(* Starting a query does not break QueryInv.                               *)
(***************************************************************************)
LEMMA QueryKeepsInv ==
  ASSUME OneUser, QueryInv, NEW p \in Procs, NEW number \in Requests,
         Query(p, number)
  PROVE  QueryInv'
<1> USE DEF QueryInv
<1>1. number \in Int /\ AsWord(number) \in Int
  BY PfstateAssumption DEF AsWord
<1>2. todo[p] = {} /\ at' = [at EXCEPT ![p] = "ioctl"] /\ DOMAIN at = Procs
  BY DEF Query, IoctlEnter, OneUser
<1>3. /\ asked' = [asked EXCEPT ![p] = number]
      /\ info' = [info EXCEPT ![p] = AsWord(number)]
      /\ todo' = [todo EXCEPT ![p] = Online]
      /\ answer' = [answer EXCEPT ![p] = NoAnswer]
      /\ words' = [words EXCEPT ![p] = {reg[c] : c \in Online \cap {number}}]
      /\ reg' = reg /\ serving' = serving
  BY DEF Query
<1>4. {reg[c] : c \in Online \cap {number}} \subseteq Words
  OBVIOUS
<1>5. number \in Online => AsWord(number) = number
                           /\ reg[number] \in {reg[c] : c \in Online \cap {number}}
  BY WordFacts
<1>6. ASSUME NEW c \in Online, serving'[c] # NoQuery
      PROVE  serving'[c].proc # p /\ serving[c] # NoQuery
  BY <1>2, <1>3, <1>6
<1>7. AnswerIsCurrent'
  BY <1>3 DEF AnswerIsCurrent
<1>8. \A q \in Procs : asked'[q] \in Online /\ at'[q] = "ioctl" =>
        /\ reg'[asked'[q]] \in words'[q]
        /\ IF asked'[q] \in todo'[q] THEN info'[q] = asked'[q]
                                     ELSE info'[q] \in words'[q]
  BY <1>2, <1>3, <1>5
<1>9. QED
  BY <1>1, <1>2, <1>3, <1>4, <1>6, <1>7, <1>8

(***************************************************************************)
(* A CPU that reads the number does not break QueryInv.                    *)
(***************************************************************************)
LEMMA QueryReadKeepsInv ==
  ASSUME OneUser, QueryInv, NEW p \in Procs, NEW c \in Online, QueryRead(c, p)
  PROVE  QueryInv'
<1> USE DEF QueryInv
<1>1. /\ serving' = [serving EXCEPT ![c] = [requested |-> info[p], proc |-> p]]
      /\ reg' = reg /\ asked' = asked /\ info' = info /\ todo' = todo
      /\ answer' = answer /\ words' = words /\ at' = at
      /\ c \in todo[p]
  BY DEF QueryRead, openVars
<1>2. AnswerIsCurrent'
  BY <1>1 DEF AnswerIsCurrent
<1>3. asked[p] \in Online => info[p] \in {asked[p]} \cup Words
  BY <1>1
<1>4. asked[p] = c => info[p] = c
  BY <1>1
<1>5. serving'[c].requested = info[p] /\ serving'[c].proc = p
  BY <1>1
<1>6. \A d \in Online : serving'[d] # NoQuery =>
        LET q == serving'[d].proc IN
        /\ q \in Procs
        /\ d \in todo'[q]
        /\ asked'[q] \in Online => serving'[d].requested \in {asked'[q]} \cup Words
        /\ asked'[q] = d => serving'[d].requested = d
  <2>1. \A d \in Online \ {c} : serving'[d] = serving[d]
    BY <1>1
  <2>2. QED
    BY <1>1, <1>3, <1>4, <1>5, <2>1
<1>7. QED
  BY <1>1, <1>2, <1>6

(***************************************************************************)
(* A CPU that ends query() does not break QueryInv: the number it compares *)
(* with is the one asked for, or a word that is no CPU's number.           *)
(***************************************************************************)
LEMMA QueryFinishKeepsInv ==
  ASSUME Words \cap Online = {},
         OneUser, QueryInv, NEW c \in Online, QueryFinish(c)
  PROVE  QueryInv'
<1> USE DEF QueryInv
<1> DEFINE p == serving[c].proc
<1>1. /\ p \in Procs
      /\ c \in todo[p]
      /\ asked[p] \in Online => serving[c].requested \in {asked[p]} \cup Words
      /\ asked[p] = c => serving[c].requested = c
  BY DEF QueryFinish
<1>2. /\ info' = IF c = serving[c].requested THEN [info EXCEPT ![p] = reg[c]] ELSE info
      /\ todo' = [todo EXCEPT ![p] = @ \ {c}]
      /\ serving' = [serving EXCEPT ![c] = NoQuery]
      /\ reg' = reg /\ asked' = asked /\ answer' = answer /\ words' = words /\ at' = at
  BY DEF QueryFinish, openVars
<1> HIDE DEF p
<1>3. asked[p] \in Online => (c = serving[c].requested <=> c = asked[p])
  BY <1>1
<1>4. reg[c] \in Int
  BY WordFacts
<1>5. \A q \in Procs \ {p} : info'[q] = info[q] /\ todo'[q] = todo[q]
  BY <1>1, <1>2
<1>6. todo'[p] = todo[p] \ {c}
  BY <1>1, <1>2
<1>7. ASSUME asked[p] \in Online, at[p] = "ioctl"
      PROVE  IF asked[p] \in todo'[p] THEN info'[p] = asked[p] ELSE info'[p] \in words[p]
  <2>1. CASE c = asked[p]
    BY <1>1, <1>2, <1>3, <1>6, <1>7, <2>1
  <2>2. CASE c # asked[p]
    BY <1>1, <1>2, <1>3, <1>6, <1>7, <2>2
  <2>3. QED
    BY <2>1, <2>2
<1>8. \A q \in Procs : asked[q] \in Online /\ at[q] = "ioctl" =>
        /\ reg[asked[q]] \in words[q]
        /\ IF asked[q] \in todo'[q] THEN info'[q] = asked[q] ELSE info'[q] \in words[q]
  BY <1>1, <1>5, <1>7
<1>9. \A d \in Online : serving'[d] # NoQuery =>
        d # c /\ serving'[d] = serving[d] /\ d \in todo'[serving[d].proc]
  BY <1>1, <1>2, <1>5, <1>6
<1>10. AnswerIsCurrent'
  BY <1>2 DEF AnswerIsCurrent
<1>11. /\ info' \in [Procs -> Int]
       /\ todo' \in [Procs -> SUBSET Online]
       /\ DOMAIN serving' = Online
       /\ \A q \in Procs : todo'[q] # {} => at'[q] = "ioctl"
  BY <1>1, <1>2, <1>4, <1>5, <1>6
<1>12. QED
  BY <1>2, <1>8, <1>9, <1>10, <1>11

(***************************************************************************)
(* The return of a query does not break QueryInv.                          *)
(***************************************************************************)
LEMMA QueryReturnKeepsInv ==
  ASSUME OneUser, QueryInv, NEW p \in Procs, QueryReturn(p)
  PROVE  QueryInv'
<1> USE DEF QueryInv
<1>1. /\ todo[p] = {} /\ at[p] = "ioctl"
      /\ at' = [at EXCEPT ![p] = "open"]
      /\ answer' = [answer EXCEPT ![p] = Encode(info[p])]
      /\ info' = [info EXCEPT ![p] = 0]
      /\ reg' = reg /\ asked' = asked /\ todo' = todo /\ serving' = serving
      /\ words' = words
      /\ DOMAIN at = Procs
  BY DEF QueryReturn, IoctlReturn, OneUser
<1>2. asked[p] \in Online => info[p] \in words[p]
  BY <1>1
<1>3. AnswerIsCurrent'
  BY <1>1, <1>2 DEF AnswerIsCurrent
<1>4. QED
  BY <1>1, <1>3

(***************************************************************************)
(* A change of a register by the kernel does not break QueryInv.           *)
(***************************************************************************)
LEMMA KernelSetsKeepsInv ==
  ASSUME OneUser, QueryInv, NEW c \in Online, KernelSets(c)
  PROVE  QueryInv'
<1> USE DEF QueryInv
<1>1. PICK word \in Words :
        /\ reg' = [reg EXCEPT ![c] = word]
        /\ words' = [p \in Procs |->
                       IF asked[p] = c /\ at[p] = "ioctl" THEN words[p] \cup {word}
                       ELSE words[p]]
  BY DEF KernelSets
<1>2. /\ asked' = asked /\ info' = info /\ todo' = todo /\ serving' = serving
      /\ answer' = answer /\ at' = at
  BY DEF KernelSets, openVars
<1>3. \A p \in Procs : words[p] \subseteq words'[p]
  BY <1>1
<1>4. AnswerIsCurrent'
  BY <1>2, <1>3 DEF AnswerIsCurrent
<1>5. words' \in [Procs -> SUBSET Words] /\ reg' \in [Online -> Words]
  BY <1>1
<1>6. \A p \in Procs : asked[p] \in Online /\ at[p] = "ioctl" =>
        reg'[asked[p]] \in words'[p]
  BY <1>1
<1>7. QED
  BY <1>2, <1>3, <1>4, <1>5, <1>6

(***************************************************************************)
(* "Read state on specified CPU": if no register holds the number of a     *)
(* CPU, the answer for an online CPU is what its register held at some     *)
(* moment of the call, also while several processes have the device open.  *)
(***************************************************************************)
THEOREM AnswersAreCurrent ==
  ASSUME FirmwareBits \notin Online
  PROVE  Spec => []AnswerIsCurrent
<1>1. Words \cap Online = {}
  BY PfstateAssumption DEF Words
<1>2. Init => OneUser /\ QueryInv
  BY OneUserInit, QueryInvInit DEF Init
<1>3. OneUser /\ QueryInv /\ [Next]_vars => QueryInv'
  <2> SUFFICES ASSUME OneUser, QueryInv, [Next]_vars
               PROVE  QueryInv'
    OBVIOUS
  <2>1. CASE UNCHANGED vars
    BY <2>1 DEF vars, openVars, queryVars, QueryInv, AnswerIsCurrent
  <2>2. ASSUME NEW p \in Procs, OpenClose(p), UNCHANGED <<reg, queryVars>>
        PROVE  QueryInv'
    <3>1. \A q \in Procs : at[q] = "ioctl" <=> at'[q] = "ioctl"
      BY <2>2 DEF OneUser, OpenClose, OpenBusy, OpenCheck, OpenCount, ReleaseLoad,
                  ReleaseStore, openVars
    <3>2. QED
      BY <2>2, <3>1 DEF queryVars, QueryInv, AnswerIsCurrent
  <2>3. ASSUME NEW p \in Procs, NEW number \in Requests, Query(p, number)
        PROVE  QueryInv'
    BY <2>3, QueryKeepsInv
  <2>4. ASSUME NEW c \in Online, NEW p \in Procs, QueryRead(c, p)
        PROVE  QueryInv'
    BY <2>4, QueryReadKeepsInv
  <2>5. ASSUME NEW c \in Online, QueryFinish(c)
        PROVE  QueryInv'
    BY <1>1, <2>5, QueryFinishKeepsInv
  <2>6. ASSUME NEW p \in Procs, QueryReturn(p)
        PROVE  QueryInv'
    BY <2>6, QueryReturnKeepsInv
  <2>7. ASSUME NEW c \in Online, KernelSets(c)
        PROVE  QueryInv'
    BY <2>7, KernelSetsKeepsInv
  <2>8. QED
    BY <2>1, <2>2, <2>3, <2>4, <2>5, <2>6, <2>7 DEF Next, OtherIoctl
<1>4. OneUser /\ [Next]_vars => OneUser'
  BY QueryOpenStep, OneUserStep
<1>5. QueryInv => AnswerIsCurrent
  BY DEF QueryInv
<1>6. QED
  BY <1>2, <1>3, <1>4, <1>5, PTL DEF Spec
=============================================================================
