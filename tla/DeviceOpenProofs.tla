-------------------------- MODULE DeviceOpenProofs --------------------------
(***************************************************************************)
(* The counter of the two devices admits one process at a time, for any    *)
(* number of processes, as long as no two calls of device_open() race.     *)
(***************************************************************************)
EXTENDS DeviceOpen, TLAPS

(***************************************************************************)
(* Before the device is used, OneUser holds.                               *)
(***************************************************************************)
LEMMA OneUserInit == OpenInit => OneUser
BY DEF OpenInit, OneUser, Holds

(***************************************************************************)
(* No step of open(), ioctl() or close() breaks OneUser.                   *)
(***************************************************************************)
LEMMA OneUserStep ==
  ASSUME OneUser, [OpenNext]_openVars
  PROVE  OneUser'
<1> USE DEF OneUser, Holds
<1>1. CASE UNCHANGED openVars
  BY <1>1 DEF openVars
<1>2. ASSUME NEW p \in Procs, OpenBusy(p)
      PROVE  OneUser'
  BY <1>2 DEF OpenBusy, openVars
<1>3. ASSUME NEW p \in Procs, OpenCheck(p)
      PROVE  OneUser'
  <2>1. at' \in [Procs -> {"closed", "checked", "open", "ioctl", "closing"}]
        /\ seen' \in [Procs -> Int]
        /\ ctr' \in Int
    BY <1>3 DEF OpenCheck
  <2>2. ASSUME ~raced'
        PROVE  ~raced /\ \A q \in Procs : at[q] = "closed"
    <3>1. raced' = (raced \/ \E q \in Procs : Entering(q)) /\ ctr = 0
      BY <1>3 DEF OpenCheck
    <3>2. ~raced /\ \A q \in Procs : ~Entering(q)
      BY <2>2, <3>1, Zenon
    <3>3. QED
      BY <3>1, <3>2 DEF Entering
  <2>3. at' = [at EXCEPT ![p] = "checked"] /\ ctr' = 0
    BY <1>3 DEF OpenCheck
  <2>4. QED
    BY <2>1, <2>2, <2>3
<1>4. ASSUME NEW p \in Procs, OpenCount(p)
      PROVE  OneUser'
  <2>1. at' \in [Procs -> {"closed", "checked", "open", "ioctl", "closing"}]
        /\ seen' \in [Procs -> Int]
        /\ ctr' \in Int
    BY <1>4 DEF OpenCount
  <2>2. ASSUME ~raced'
        PROVE  \A q \in Procs : at'[q] # "closed" => q = p
    BY <1>4, <2>2 DEF OpenCount
  <2>3. at'[p] = "open" /\ ctr' = 1
    BY <1>4 DEF OpenCount
  <2>4. ASSUME ~raced', NEW q \in Procs, at'[q] = "closing"
        PROVE  seen'[q] = 1
    BY <2>2, <2>3, <2>4
  <2>5. QED
    BY <2>1, <2>2, <2>3, <2>4
<1>5. ASSUME NEW p \in Procs, ReleaseLoad(p)
      PROVE  OneUser'
  <2>1. at' = [at EXCEPT ![p] = "closing"] /\ seen' = [seen EXCEPT ![p] = ctr]
        /\ ctr' = ctr /\ raced' = raced /\ at[p] = "open"
    BY <1>5 DEF ReleaseLoad
  <2>2. at' \in [Procs -> {"closed", "checked", "open", "ioctl", "closing"}]
    BY <2>1
  <2>3. seen' \in [Procs -> Int] /\ ctr' \in Int
    <3>1. ctr \in Int
      BY <1>5 DEF ReleaseLoad
    <3>2. QED
      BY <2>1, <3>1
  <2>4. ASSUME ~raced'
        PROVE  /\ \A q, r \in Procs : at'[q] # "closed" /\ at'[r] # "closed" => q = r
               /\ ctr' = 1 /\ at'[p] = "closing" /\ seen'[p] = 1
    <3>1. ~raced
      BY <2>1, <2>4
    <3>2. ctr = 1
      BY <2>1, <3>1
    <3>3. \A q \in Procs : at[q] # "closed" => q = p
      BY <2>1, <3>1
    <3>4. \A q \in Procs : at'[q] # "closed" => q = p
      BY <2>1, <3>3
    <3>5. at'[p] = "closing" /\ seen'[p] = 1
      BY <2>1, <3>2
    <3>6. QED
      BY <2>1, <3>2, <3>4, <3>5
  <2>5. QED
    BY <2>2, <2>3, <2>4
<1>6. ASSUME NEW p \in Procs, ReleaseStore(p)
      PROVE  OneUser'
  BY <1>6 DEF ReleaseStore
<1>7. ASSUME NEW p \in Procs, IoctlEnter(p) \/ IoctlReturn(p)
      PROVE  OneUser'
  BY <1>7 DEF IoctlEnter, IoctlReturn
<1>8. QED
  BY <1>1, <1>2, <1>3, <1>4, <1>5, <1>6, <1>7 DEF OpenNext, OpenClose

(***************************************************************************)
(* OneUser implies the two promises of the comments in the code.           *)
(***************************************************************************)
LEMMA OneUserSuffices == OneUser => OnlyOpensRace
BY DEF OneUser, OnlyOpensRace, OneHolder, FreeWhenClosed, Holds
=============================================================================
