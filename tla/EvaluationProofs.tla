-------------------------- MODULE EvaluationProofs --------------------------
(***************************************************************************)
(* Proofs about the programs that use PreFence, for any machine, rounds,   *)
(* repetitions, clocks and numbers of starts: that userspace-test fails    *)
(* for good reasons only and has verified what it says when it passes;     *)
(* that the results of the lighttpd benchmark, the archives of the AES     *)
(* attack and the series of the other measurements are what their names    *)
(* say; that a sample of a context switch is never too short and taken     *)
(* once; that the boot stub starts the kernel as the firmware asks; and    *)
(* that the plots of the SPEC results and of the lighttpd benchmark show   *)
(* what is in the files, for any files and any number of them.             *)
(***************************************************************************)
EXTENDS Evaluation, FiniteSetTheorems, SequenceTheorems,
        WellFoundedInduction, TLAPS

-----------------------------------------------------------------------------
(* Lists.                                                                  *)

(***************************************************************************)
(* Induction over the naturals, for a set in place of a predicate.         *)
(***************************************************************************)
LEMMA SetInduction ==
  ASSUME NEW S, 0 \in S, \A n \in Nat : n \in S => n + 1 \in S
  PROVE  Nat \subseteq S
<1> DEFINE R == {p \in Nat \X Nat : p[1] < p[2]}
           T == {n \in Nat : n \notin S}
<1>1. IsWellFoundedOn(R, Nat)
  BY NatLessThanWellFounded, Zenon DEF OpToRel
<1>2. ASSUME T # {}
      PROVE  FALSE
  <2>1. T \subseteq Nat
    OBVIOUS
  <2> HIDE DEF R, T
  <2>2. PICK x \in T : \A y \in T : <<y, x>> \notin R
    BY <1>1, <1>2, <2>1, WFMin
  <2> USE DEF R, T
  <2>3. x \in Nat /\ x # 0 /\ x \notin S
    OBVIOUS
  <2>4. x - 1 \in Nat /\ x - 1 \notin S /\ x - 1 < x
    BY <2>3
  <2>5. x - 1 \in T /\ <<x - 1, x>> \in R
    BY <2>3, <2>4
  <2>6. QED
    BY <2>2, <2>5
<1>3. QED
  BY <1>2

\* What Kept() has taken from the first places of s, up to each of them.
KeptBy(g, s, P, n) ==
  g = [i \in 0..n |-> IF i = 0 THEN << >>
                      ELSE IF i \in P THEN Append(g[i - 1], s[i])
                      ELSE g[i - 1]]

\* What is kept from a prefix can be computed place by place.
LEMMA KeptExists ==
  ASSUME NEW s, NEW P
  PROVE  \A n \in Nat : \E g : KeptBy(g, s, P, n)
<1> DEFINE S == {n \in Nat : \E g : KeptBy(g, s, P, n)}
<1>1. 0 \in S
  <2>1. KeptBy([i \in 0..0 |-> << >>], s, P, 0)
    BY DEF KeptBy
  <2>2. QED
    BY <2>1
<1>2. ASSUME NEW n \in Nat, n \in S
      PROVE  n + 1 \in S
  <2>1. PICK g : KeptBy(g, s, P, n)
    BY <1>2
  <2> DEFINE last == IF n + 1 \in P THEN Append(g[n], s[n + 1]) ELSE g[n]
             h    == [i \in 0..(n + 1) |-> IF i <= n THEN g[i] ELSE last]
  <2>2. ASSUME NEW i \in 0..(n + 1)
        PROVE  h[i] = IF i = 0 THEN << >> ELSE IF i \in P THEN Append(h[i - 1], s[i]) ELSE h[i - 1]
    <3>1. CASE i = n + 1
      BY <3>1
    <3>2. CASE i # n + 1 /\ i # 0
      <4>1. i \in 0..n /\ i - 1 \in 0..n
        BY <3>2
      <4>2. g[i] = IF i \in P THEN Append(g[i - 1], s[i]) ELSE g[i - 1]
        BY <2>1, <3>2, <4>1 DEF KeptBy
      <4>3. h[i] = g[i] /\ h[i - 1] = g[i - 1]
        BY <3>2, <4>1
      <4>4. QED
        BY <3>2, <4>2, <4>3
    <3>3. CASE i = 0
      BY <2>1, <3>3 DEF KeptBy
    <3>4. QED
      BY <3>1, <3>2, <3>3
  <2>3. KeptBy(h, s, P, n + 1)
    BY <2>2 DEF KeptBy
  <2>4. QED
    BY <2>3
<1> HIDE DEF S
<1>3. Nat \subseteq S
  BY <1>1, <1>2, SetInduction
<1>4. QED
  BY <1>3 DEF S

\* The relation between what is taken up to a place and up to the one before.
KeptSteps(g, s, P) ==
  /\ g[0] = << >>
  /\ \A n \in 1..Len(s) : g[n] = IF n \in P THEN Append(g[n - 1], s[n]) ELSE g[n - 1]

\* What Kept() computes, place by place.
LEMMA KeptRun ==
  ASSUME NEW X, NEW s \in Seq(X), NEW P
  PROVE  \E g : /\ Kept(s, P) = g[Len(s)]
                /\ KeptSteps(g, s, P)
<1> DEFINE g == CHOOSE f : KeptBy(f, s, P, Len(s))
<1>0. Len(s) \in Nat
  OBVIOUS
<1>1. KeptBy(g, s, P, Len(s))
  BY <1>0, KeptExists
<1>2. Kept(s, P) = g[Len(s)]
  BY DEF Kept, KeptBy
<1> HIDE DEF g
<1>3. \A n \in 0..Len(s) :
        g[n] = IF n = 0 THEN << >> ELSE IF n \in P THEN Append(g[n - 1], s[n]) ELSE g[n - 1]
  BY <1>1 DEF KeptBy
<1>4. g[0] = << >>
  BY <1>0, <1>3
<1>5. \A n \in 1..Len(s) : g[n] = IF n \in P THEN Append(g[n - 1], s[n]) ELSE g[n - 1]
  BY <1>0, <1>3
<1>6. KeptSteps(g, s, P)
  BY <1>4, <1>5 DEF KeptSteps
<1>7. QED
  BY <1>2, <1>6

\* All that is kept comes from the sequence.
LEMMA KeptTyped ==
  ASSUME NEW X, NEW s \in Seq(X), NEW P, NEW g, KeptSteps(g, s, P)
  PROVE  \A n \in Nat : n <= Len(s) => g[n] \in Seq(X)
<1> DEFINE S == {n \in Nat : n <= Len(s) => g[n] \in Seq(X)}
<1>1. 0 \in S
  <2>1. g[0] = << >>
    BY DEF KeptSteps
  <2>2. << >> \in Seq(X)
    OBVIOUS
  <2>3. QED
    BY <2>1, <2>2
<1>2. ASSUME NEW n \in Nat, n \in S
      PROVE  n + 1 \in S
  <2> SUFFICES ASSUME n + 1 <= Len(s)
               PROVE  g[n + 1] \in Seq(X)
    OBVIOUS
  <2>1. n + 1 \in 1..Len(s) /\ (n + 1) - 1 = n /\ g[n] \in Seq(X) /\ s[n + 1] \in X
    BY <1>2
  <2>2. g[n + 1] = IF n + 1 \in P THEN Append(g[n], s[n + 1]) ELSE g[n]
    BY <2>1 DEF KeptSteps
  <2>3. QED
    BY <2>1, <2>2
<1> HIDE DEF S
<1>3. Nat \subseteq S
  BY <1>1, <1>2, SetInduction
<1>4. QED
  BY <1>3 DEF S

\* What is taken from the first places stays.
LEMMA KeptGrows ==
  ASSUME NEW X, NEW s \in Seq(X), NEW P, NEW g, KeptSteps(g, s, P),
         NEW m \in Nat, m <= Len(s)
  PROVE  /\ Len(g[m]) <= Len(g[Len(s)])
         /\ \A i \in 1..Len(g[m]) : g[Len(s)][i] = g[m][i]
<1> DEFINE G(k) == /\ Len(g[m]) <= Len(g[k])
                   /\ \A i \in 1..Len(g[m]) : g[k][i] = g[m][i]
           S    == {n \in Nat : m + n <= Len(s) => G(m + n)}
<1>0. \A n \in Nat : n <= Len(s) => g[n] \in Seq(X)
  BY KeptTyped
<1>1. 0 \in S
  <2>1. m + 0 = m /\ G(m)
    BY <1>0
  <2>2. QED
    BY <2>1
<1>2. ASSUME NEW n \in Nat, n \in S
      PROVE  n + 1 \in S
  <2> SUFFICES ASSUME m + (n + 1) <= Len(s)
               PROVE  G(m + (n + 1))
    OBVIOUS
  <2> DEFINE k == m + n
  <2>1. k \in Nat /\ k + 1 \in 1..Len(s) /\ (k + 1) - 1 = k /\ k <= Len(s) /\ k + 1 = m + (n + 1)
    OBVIOUS
  <2>2. G(k)
    BY <1>2, <2>1
  <2> HIDE DEF k
  <2>3. g[k + 1] = IF k + 1 \in P THEN Append(g[k], s[k + 1]) ELSE g[k]
    BY <2>1 DEF KeptSteps
  <2>4. g[k] \in Seq(X) /\ g[m] \in Seq(X) /\ s[k + 1] \in X
    BY <1>0, <2>1
  <2>5. G(k + 1)
    <3>1. CASE k + 1 \in P
      BY <2>2, <2>3, <2>4, <3>1
    <3>2. CASE k + 1 \notin P
      BY <2>2, <2>3, <3>2
    <3>3. QED
      BY <3>1, <3>2
  <2>6. QED
    BY <2>1, <2>5
<1> HIDE DEF S
<1>3. Nat \subseteq S
  BY <1>1, <1>2, SetInduction
<1>4. Len(s) - m \in S /\ m + (Len(s) - m) = Len(s)
  BY <1>3
<1>5. QED
  BY <1>4 DEF S

\* If the places are those up to r, the members up to r are kept.
LEMMA KeptBlockRun ==
  ASSUME NEW X, NEW s \in Seq(X), NEW P, NEW g, KeptSteps(g, s, P),
         NEW r \in Nat, r <= Len(s), \A i \in 1..Len(s) : i \in P <=> i <= r
  PROVE  \A n \in Nat : n <= Len(s) =>
           /\ Len(g[n]) = IF n <= r THEN n ELSE r
           /\ \A i \in 1..Len(g[n]) : g[n][i] = s[i]
<1> DEFINE B(n) == /\ Len(g[n]) = IF n <= r THEN n ELSE r
                   /\ \A i \in 1..Len(g[n]) : g[n][i] = s[i]
           S    == {n \in Nat : n <= Len(s) => B(n)}
<1>0. \A n \in Nat : n <= Len(s) => g[n] \in Seq(X)
  BY KeptTyped
<1>1. 0 \in S
  BY DEF KeptSteps
<1>2. ASSUME NEW n \in Nat, n \in S
      PROVE  n + 1 \in S
  <2> SUFFICES ASSUME n + 1 <= Len(s)
               PROVE  B(n + 1)
    OBVIOUS
  <2>1. n + 1 \in 1..Len(s) /\ (n + 1) - 1 = n /\ g[n] \in Seq(X) /\ s[n + 1] \in X
    BY <1>0
  <2>2. B(n)
    BY <1>2
  <2>3. g[n + 1] = IF n + 1 \in P THEN Append(g[n], s[n + 1]) ELSE g[n]
    BY <2>1 DEF KeptSteps
  <2>4. CASE n + 1 \in P
    <3>1. n + 1 <= r /\ g[n + 1] = Append(g[n], s[n + 1]) /\ Len(g[n]) = n
      BY <2>1, <2>2, <2>3, <2>4
    <3>2. Len(g[n + 1]) = n + 1
      BY <2>1, <3>1
    <3>3. ASSUME NEW i \in 1..(n + 1)
          PROVE  g[n + 1][i] = s[i]
      BY <2>1, <2>2, <3>1
    <3>4. QED
      BY <3>1, <3>2, <3>3
  <2>5. CASE n + 1 \notin P
    <3>1. ~(n + 1 <= r) /\ g[n + 1] = g[n] /\ Len(g[n]) = r
      BY <2>1, <2>2, <2>3, <2>5
    <3>2. QED
      BY <2>2, <3>1
  <2>6. QED
    BY <2>4, <2>5
<1> HIDE DEF S
<1>3. Nat \subseteq S
  BY <1>1, <1>2, SetInduction
<1>4. QED
  BY <1>3 DEF S

\* The first r members are kept.
LEMMA KeptBlock ==
  ASSUME NEW X, NEW s \in Seq(X), NEW P, NEW r \in Nat, r <= Len(s),
         \A i \in 1..Len(s) : i \in P <=> i <= r
  PROVE  /\ Kept(s, P) \in Seq(X)
         /\ Len(Kept(s, P)) = r
         /\ \A i \in 1..r : Kept(s, P)[i] = s[i]
<1>1. PICK g : Kept(s, P) = g[Len(s)] /\ KeptSteps(g, s, P)
  BY KeptRun
<1>2. \A n \in Nat : n <= Len(s) => g[n] \in Seq(X)
  BY <1>1, KeptTyped
<1>3. \A n \in Nat : n <= Len(s) =>
        /\ Len(g[n]) = IF n <= r THEN n ELSE r
        /\ \A i \in 1..Len(g[n]) : g[n][i] = s[i]
  BY <1>1, KeptBlockRun
<1>4. Len(s) \in Nat /\ Len(s) <= Len(s)
  OBVIOUS
<1>5. g[Len(s)] \in Seq(X)
  BY <1>2, <1>4
<1>6. /\ Len(g[Len(s)]) = r
      /\ \A i \in 1..Len(g[Len(s)]) : g[Len(s)][i] = s[i]
  <2>1. (IF Len(s) <= r THEN Len(s) ELSE r) = r
    BY <1>4
  <2>2. QED
    BY <1>3, <1>4, <2>1
<1>7. QED
  BY <1>1, <1>5, <1>6

\* Sequences that agree up to a place have the same kept up to there.
LEMMA KeptSame ==
  ASSUME NEW X, NEW s \in Seq(X), NEW t \in Seq(X), NEW P, NEW Q, NEW g, NEW h,
         KeptSteps(g, s, P), KeptSteps(h, t, Q),
         NEW m \in Nat, m <= Len(s), m <= Len(t),
         \A i \in 1..m : s[i] = t[i] /\ (i \in P <=> i \in Q)
  PROVE  g[m] = h[m]
<1> DEFINE S == {n \in Nat : n <= m => g[n] = h[n]}
<1>1. 0 \in S
  BY DEF KeptSteps
<1>2. ASSUME NEW n \in Nat, n \in S
      PROVE  n + 1 \in S
  <2> SUFFICES ASSUME n + 1 <= m
               PROVE  g[n + 1] = h[n + 1]
    OBVIOUS
  <2>1. /\ n + 1 \in 1..Len(s) /\ n + 1 \in 1..Len(t) /\ (n + 1) - 1 = n
        /\ g[n] = h[n] /\ n + 1 \in 1..m
    BY <1>2
  <2>2. /\ g[n + 1] = IF n + 1 \in P THEN Append(g[n], s[n + 1]) ELSE g[n]
        /\ h[n + 1] = IF n + 1 \in Q THEN Append(h[n], t[n + 1]) ELSE h[n]
    BY <2>1 DEF KeptSteps
  <2>3. QED
    BY <2>1, <2>2
<1> HIDE DEF S
<1>3. Nat \subseteq S
  BY <1>1, <1>2, SetInduction
<1>4. QED
  BY <1>3 DEF S

\* If a sequence begins another, but for its last member, so do the members
\* that are kept of them.
LEMMA KeptFollows ==
  ASSUME NEW X, NEW s \in Seq(X), NEW t \in Seq(X), NEW P, NEW Q,
         Len(s) <= Len(t),
         \A i \in 1..Len(s) : i \in P <=> i \in Q,
         \A i \in 1..(Len(s) - 1) : s[i] = t[i]
  PROVE  /\ Kept(s, P) \in Seq(X) /\ Kept(t, Q) \in Seq(X)
         /\ Len(Kept(s, P)) <= Len(Kept(t, Q))
         /\ Len(s) = Len(t) => Len(Kept(s, P)) = Len(Kept(t, Q))
         /\ \A i \in 1..Len(Kept(s, P)) :
              \/ Kept(s, P)[i] = Kept(t, Q)[i]
              \/ /\ i = Len(Kept(s, P)) /\ Len(s) > 0 /\ Len(s) \in P
                 /\ Kept(s, P)[i] = s[Len(s)] /\ Kept(t, Q)[i] = t[Len(s)]
<1>1. PICK g : Kept(s, P) = g[Len(s)] /\ KeptSteps(g, s, P)
  BY KeptRun
<1>2. PICK h : Kept(t, Q) = h[Len(t)] /\ KeptSteps(h, t, Q)
  BY KeptRun
<1> DEFINE m == Len(s)
<1>3. m \in Nat /\ Len(t) \in Nat /\ m <= Len(t)
  OBVIOUS
<1>4. /\ \A n \in Nat : n <= Len(s) => g[n] \in Seq(X)
      /\ (\A n \in Nat : n <= Len(t) => h[n] \in Seq(X))
  BY <1>1, <1>2, KeptTyped
<1>5. /\ Len(h[m]) <= Len(h[Len(t)])
      /\ \A i \in 1..Len(h[m]) : h[Len(t)][i] = h[m][i]
  BY <1>2, <1>3, KeptGrows
<1>6. /\ g[m] \in Seq(X) /\ h[m] \in Seq(X) /\ h[Len(t)] \in Seq(X)
      /\ Len(g[m]) = Len(h[m])
      /\ \A i \in 1..Len(g[m]) :
           \/ g[m][i] = h[m][i]
           \/ i = Len(g[m]) /\ m > 0 /\ m \in P /\ g[m][i] = s[m] /\ h[m][i] = t[m]
  <2>1. CASE m = 0
    BY <1>1, <1>2, <1>3, <1>4, <2>1 DEF KeptSteps
  <2>2. CASE m > 0
    <3>1. m - 1 \in Nat /\ m - 1 <= Len(s) /\ m - 1 <= Len(t) /\ m \in 1..Len(s) /\ m \in 1..Len(t)
      BY <1>3, <2>2
    <3>2. \A i \in 1..(m - 1) : s[i] = t[i] /\ (i \in P <=> i \in Q)
      BY <1>3
    <3> HIDE DEF m
    <3>3. g[m - 1] = h[m - 1]
      BY <1>1, <1>2, <3>1, <3>2, KeptSame
    <3>4. /\ g[m] = IF m \in P THEN Append(g[m - 1], s[m]) ELSE g[m - 1]
          /\ h[m] = IF m \in Q THEN Append(h[m - 1], t[m]) ELSE h[m - 1]
      BY <1>1, <1>2, <3>1 DEF KeptSteps
    <3>5. m \in P <=> m \in Q
      BY <3>1
    <3>6. g[m - 1] \in Seq(X) /\ s[m] \in X /\ t[m] \in X /\ h[Len(t)] \in Seq(X)
      BY <1>3, <1>4, <3>1
    <3>7. CASE m \in P
      BY <2>2, <3>3, <3>4, <3>5, <3>6, <3>7
    <3>8. CASE m \notin P
      BY <3>3, <3>4, <3>5, <3>6, <3>8
    <3>9. QED
      BY <3>7, <3>8
  <2>3. QED
    BY <1>3, <2>1, <2>2
<1>7. m = Len(t) => Len(h[m]) = Len(h[Len(t)])
  OBVIOUS
<1>8. QED
  BY <1>1, <1>2, <1>3, <1>5, <1>6, <1>7

\* From a place on after which nothing is taken, nothing changes.
LEMMA KeptStays ==
  ASSUME NEW X, NEW s \in Seq(X), NEW P, NEW g, KeptSteps(g, s, P),
         NEW m \in Nat, m <= Len(s), \A i \in (m + 1)..Len(s) : i \notin P
  PROVE  g[Len(s)] = g[m]
<1> DEFINE S == {n \in Nat : m + n <= Len(s) => g[m + n] = g[m]}
<1>1. 0 \in S
  OBVIOUS
<1>2. ASSUME NEW n \in Nat, n \in S
      PROVE  n + 1 \in S
  <2> SUFFICES ASSUME m + (n + 1) <= Len(s)
               PROVE  g[m + (n + 1)] = g[m]
    OBVIOUS
  <2>1. m + n + 1 \in 1..Len(s) /\ m + n + 1 \in (m + 1)..Len(s) /\ m + (n + 1) = m + n + 1 /\ (m + n + 1) - 1 = m + n
    OBVIOUS
  <2>2. m + n + 1 \notin P
    BY <2>1
  <2>3. g[m + n + 1] = g[m + n] /\ g[m + n] = g[m]
    BY <1>2, <2>1, <2>2 DEF KeptSteps
  <2>4. QED
    BY <2>1, <2>3
<1> HIDE DEF S
<1>3. Len(s) - m \in S /\ m + (Len(s) - m) = Len(s)
  BY <1>1, <1>2, SetInduction
<1>4. QED
  BY <1>3 DEF S

\* What is taken depends on the places in the sequence only.
LEMMA KeptAgain ==
  ASSUME NEW X, NEW s \in Seq(X), NEW P, NEW Q,
         \A i \in 1..Len(s) : i \in P <=> i \in Q
  PROVE  Kept(s, P) = Kept(s, Q)
<1>1. PICK g : Kept(s, P) = g[Len(s)] /\ KeptSteps(g, s, P)
  BY KeptRun
<1>2. PICK h : Kept(s, Q) = h[Len(s)] /\ KeptSteps(h, s, Q)
  BY KeptRun
<1>3. Len(s) \in Nat /\ Len(s) <= Len(s)
  OBVIOUS
<1>4. g[Len(s)] = h[Len(s)]
  BY <1>1, <1>2, <1>3, KeptSame
<1>5. QED
  BY <1>1, <1>2, <1>4

\* From no place nothing is kept.
LEMMA KeptNone ==
  ASSUME NEW X, NEW s \in Seq(X), NEW P, \A i \in 1..Len(s) : i \notin P
  PROVE  Kept(s, P) = << >>
<1>1. 0 \in Nat /\ 0 <= Len(s) /\ \A i \in 1..Len(s) : i \in P <=> i <= 0
  OBVIOUS
<1>2. Kept(s, P) \in Seq(X) /\ Len(Kept(s, P)) = 0
  BY <1>1, KeptBlock
<1>3. QED
  BY <1>2

\* A later place adds a member at the end.
LEMMA KeptAdds ==
  ASSUME NEW X, NEW s \in Seq(X), NEW P, NEW Q, NEW p \in 1..Len(s),
         \A i \in 1..Len(s) : i \in Q <=> i \in P \/ i = p,
         \A i \in P : i \in 1..Len(s) => i < p
  PROVE  Kept(s, Q) = Append(Kept(s, P), s[p])
<1>1. PICK g : Kept(s, P) = g[Len(s)] /\ KeptSteps(g, s, P)
  BY KeptRun
<1>2. PICK h : Kept(s, Q) = h[Len(s)] /\ KeptSteps(h, s, Q)
  BY KeptRun
<1>3. /\ p \in Nat /\ p <= Len(s) /\ p - 1 \in Nat /\ p - 1 <= Len(s) /\ Len(s) \in Nat
      /\ \A i \in 1..(p - 1) : s[i] = s[i] /\ (i \in P <=> i \in Q)
  OBVIOUS
<1>4. g[p - 1] = h[p - 1]
  BY <1>1, <1>2, <1>3, KeptSame
<1>5. p \notin P /\ p \in Q
  OBVIOUS
<1>6. g[p] = g[p - 1] /\ h[p] = Append(h[p - 1], s[p])
  BY <1>1, <1>2, <1>5 DEF KeptSteps
<1>7. \A i \in (p + 1)..Len(s) : i \notin P /\ i \notin Q
  <2> SUFFICES ASSUME NEW i \in (p + 1)..Len(s)
               PROVE  i \notin P /\ i \notin Q
    OBVIOUS
  <2>1. i \in 1..Len(s) /\ ~(i < p) /\ i # p
    BY <1>3
  <2>2. QED
    BY <2>1
<1>9. g[Len(s)] = g[p] /\ h[Len(s)] = h[p]
  BY <1>1, <1>2, <1>3, <1>7, KeptStays
<1>10. QED
  BY <1>1, <1>2, <1>4, <1>6, <1>9

\* The first of the members kept goes away with its place.
LEMMA KeptTail ==
  ASSUME NEW X, NEW s \in Seq(X), NEW P, NEW Q, NEW p \in 1..Len(s),
         \A i \in 1..Len(s) : i \in Q <=> i \in P \/ i = p,
         \A i \in 1..Len(s) : i \in P => p < i
  PROVE  Kept(s, Q) # << >> /\ Tail(Kept(s, Q)) = Kept(s, P)
<1>1. PICK g : Kept(s, P) = g[Len(s)] /\ KeptSteps(g, s, P)
  BY KeptRun
<1>2. PICK h : Kept(s, Q) = h[Len(s)] /\ KeptSteps(h, s, Q)
  BY KeptRun
<1>3. \A n \in Nat : n <= Len(s) => g[n] \in Seq(X) /\ h[n] \in Seq(X)
  BY <1>1, <1>2, KeptTyped
<1>4. p \in Nat /\ Len(s) \in Nat /\ p <= Len(s)
  OBVIOUS
<1> DEFINE T(n) == h[n] # << >> /\ Tail(h[n]) = g[n]
           S    == {n \in Nat : p + n <= Len(s) => T(p + n)}
<1>5. 0 \in S
  <2> DEFINE r == p - 1
  <2>1. r \in Nat /\ r <= Len(s) /\ p = r + 1
    BY <1>4
  <2>2. \A i \in 1..r : ~(p < i) /\ i # p /\ i \in 1..Len(s)
    BY <1>4
  <2>3. \A i \in (0 + 1)..r : i \notin P /\ i \notin Q
    BY <2>2
  <2>4. g[r] = << >> /\ h[r] = << >>
    <3> DEFINE u == SubSeq(s, 1, r)
    <3>1. u \in Seq(X) /\ Len(u) = r /\ \A i \in 1..r : u[i] = s[i]
      BY <2>1
    <3> HIDE DEF u, r
    <3>2. KeptSteps(g, u, P) /\ KeptSteps(h, u, Q)
      <4>1. \A n \in 1..Len(u) : n \in 1..Len(s) /\ u[n] = s[n]
        BY <2>1, <3>1
      <4>2. QED
        BY <1>1, <1>2, <4>1 DEF KeptSteps
    <3>3. g[Len(u)] = g[0] /\ h[Len(u)] = h[0]
      BY <2>1, <2>3, <3>1, <3>2, KeptStays
    <3>4. QED
      BY <3>1, <3>2, <3>3 DEF KeptSteps
  <2>5. p \notin P /\ p \in Q
    BY <1>4
  <2>6. g[p] = << >> /\ h[p] = Append(<< >>, s[p])
    BY <1>1, <1>2, <2>4, <2>5 DEF KeptSteps
  <2>7. Append(<< >>, s[p]) # << >> /\ Tail(Append(<< >>, s[p])) = << >>
    OBVIOUS
  <2>8. T(p) /\ p + 0 = p
    BY <1>4, <2>6, <2>7
  <2> HIDE DEF T
  <2>9. QED
    BY <2>8
<1>6. ASSUME NEW n \in Nat, n \in S
      PROVE  n + 1 \in S
  <2> SUFFICES ASSUME p + (n + 1) <= Len(s)
               PROVE  T(p + (n + 1))
    OBVIOUS
  <2> DEFINE k == p + n
  <2>1. /\ k \in Nat /\ k + 1 \in 1..Len(s) /\ (k + 1) - 1 = k /\ k <= Len(s)
        /\ k + 1 = p + (n + 1) /\ k + 1 # p
    OBVIOUS
  <2>2. T(k)
    BY <1>6, <2>1
  <2> HIDE DEF k
  <2>3. /\ g[k + 1] = IF k + 1 \in P THEN Append(g[k], s[k + 1]) ELSE g[k]
        /\ h[k + 1] = IF k + 1 \in Q THEN Append(h[k], s[k + 1]) ELSE h[k]
    BY <1>1, <1>2, <2>1 DEF KeptSteps
  <2>4. g[k] \in Seq(X) /\ h[k] \in Seq(X) /\ s[k + 1] \in X
    BY <1>3, <2>1
  <2>5. CASE k + 1 \in P
    <3>1. g[k + 1] = Append(g[k], s[k + 1]) /\ h[k + 1] = Append(h[k], s[k + 1])
      BY <2>1, <2>3, <2>5
    <3>2. /\ Append(h[k], s[k + 1]) # << >>
          /\ Tail(Append(h[k], s[k + 1])) = Append(Tail(h[k]), s[k + 1])
      BY <2>2, <2>4, AppendProperties, HeadTailAppend, SMTT(30)
    <3>3. QED
      BY <2>1, <2>2, <3>1, <3>2
  <2>6. CASE k + 1 \notin P
    BY <2>1, <2>2, <2>3, <2>6
  <2>7. QED
    BY <2>5, <2>6
<1> HIDE DEF S
<1>7. Len(s) - p \in S /\ p + (Len(s) - p) = Len(s)
  BY <1>4, <1>5, <1>6, SetInduction
<1>8. QED
  BY <1>1, <1>2, <1>7 DEF S

\* The members that are kept, in the order of their places.
IsPlacing(e, t, s, Q) ==
  /\ e \in [1..Len(t) -> Q]
  /\ \A i, j \in 1..Len(t) : i < j => e[i] < e[j]
  /\ \A q \in Q : \E i \in 1..Len(t) : e[i] = q
  /\ \A i \in 1..Len(t) : t[i] = s[e[i]]

\* The members that are kept are those at the places, in their order.
LEMMA KeptPlaces ==
  ASSUME NEW X, NEW s \in Seq(X), NEW P
  PROVE  /\ Kept(s, P) \in Seq(X)
         /\ \E e : IsPlacing(e, Kept(s, P), s, P \cap 1..Len(s))
<1>1. PICK g : Kept(s, P) = g[Len(s)] /\ KeptSteps(g, s, P)
  BY KeptRun
<1>2. \A n \in Nat : n <= Len(s) => g[n] \in Seq(X)
  BY <1>1, KeptTyped
<1> DEFINE G(n) == \E e : IsPlacing(e, g[n], s, P \cap 1..n)
           S    == {n \in Nat : n <= Len(s) => G(n)}
<1>3. 0 \in S
  <2>1. g[0] = << >> /\ Len(<< >>) = 0 /\ 1..0 = {}
    BY <1>1 DEF KeptSteps
  <2>2. IsPlacing([i \in 1..0 |-> 0], << >>, s, P \cap 1..0)
    BY <2>1 DEF IsPlacing
  <2>3. G(0)
    BY <2>1, <2>2
  <2> HIDE DEF G
  <2>4. QED
    BY <2>3
<1>4. ASSUME NEW n \in Nat, n \in S
      PROVE  n + 1 \in S
  <2> HIDE DEF G
  <2> SUFFICES ASSUME n + 1 <= Len(s)
               PROVE  G(n + 1)
    OBVIOUS
  <2>0. n <= Len(s) /\ G(n)
    BY <1>4
  <2> USE DEF G
  <2>1. n + 1 \in 1..Len(s) /\ (n + 1) - 1 = n /\ g[n] \in Seq(X) /\ s[n + 1] \in X
    BY <1>2
  <2>2. PICK e : IsPlacing(e, g[n], s, P \cap 1..n)
    BY <2>0
  <2>3. g[n + 1] = IF n + 1 \in P THEN Append(g[n], s[n + 1]) ELSE g[n]
    BY <1>1, <2>1 DEF KeptSteps
  <2>4. CASE n + 1 \notin P
    <3>1. P \cap 1..(n + 1) = P \cap 1..n
      BY <2>4
    <3>2. QED
      BY <2>2, <2>3, <2>4, <3>1
  <2>5. CASE n + 1 \in P
    <3> DEFINE m == Len(g[n])
               f == [i \in 1..(m + 1) |-> IF i = m + 1 THEN n + 1 ELSE e[i]]
               t == Append(g[n], s[n + 1])
    <3>1. /\ m \in Nat /\ g[n + 1] = t /\ Len(t) = m + 1
          /\ t[m + 1] = s[n + 1] /\ \A i \in 1..m : t[i] = g[n][i]
      BY <2>1, <2>3, <2>5
    <3>2. /\ e \in [1..m -> P \cap 1..n]
          /\ \A i, j \in 1..m : i < j => e[i] < e[j]
          /\ \A q \in P \cap 1..n : \E i \in 1..m : e[i] = q
          /\ \A i \in 1..m : g[n][i] = s[e[i]]
      BY <2>2 DEF IsPlacing
    <3> HIDE DEF m, t
    <3>3. f \in [1..(m + 1) -> P \cap 1..(n + 1)]
      BY <2>5, <3>1, <3>2
    <3>4. \A i, j \in 1..(m + 1) : i < j => f[i] < f[j]
      <4> SUFFICES ASSUME NEW i \in 1..(m + 1), NEW j \in 1..(m + 1), i < j
                   PROVE  f[i] < f[j]
        OBVIOUS
      <4>1. i \in 1..m /\ f[i] = e[i] /\ e[i] \in 1..n
        BY <3>1, <3>2
      <4>2. j = m + 1 \/ (j \in 1..m /\ f[j] = e[j])
        BY <3>1
      <4>3. QED
        BY <3>1, <3>2, <4>1, <4>2
    <3>5. \A q \in P \cap 1..(n + 1) : \E i \in 1..(m + 1) : f[i] = q
      <4> SUFFICES ASSUME NEW q \in P \cap 1..(n + 1)
                   PROVE  \E i \in 1..(m + 1) : f[i] = q
        OBVIOUS
      <4>1. CASE q = n + 1
        BY <3>1, <4>1
      <4>2. CASE q # n + 1
        <5>1. q \in P \cap 1..n
          BY <4>2
        <5>2. PICK i \in 1..m : e[i] = q
          BY <3>2, <5>1
        <5>3. i \in 1..(m + 1) /\ f[i] = q
          BY <3>1, <5>2
        <5>4. QED
          BY <5>3
      <4>3. QED
        BY <4>1, <4>2
    <3>6. \A i \in 1..(m + 1) : t[i] = s[f[i]]
      BY <3>1, <3>2
    <3>7. IsPlacing(f, t, s, P \cap 1..(n + 1))
      BY <3>1, <3>3, <3>4, <3>5, <3>6 DEF IsPlacing
    <3>8. QED
      BY <3>1, <3>7
  <2>6. QED
    BY <2>4, <2>5
<1> HIDE DEF S
<1>5. Nat \subseteq S
  BY <1>3, <1>4, SetInduction
<1>6. Len(s) \in Nat /\ Len(s) <= Len(s)
  OBVIOUS
<1>7. \E e : IsPlacing(e, g[Len(s)], s, P \cap 1..Len(s))
  <2> HIDE DEF G
  <2>1. G(Len(s))
    BY <1>5, <1>6 DEF S
  <2>2. QED
    BY <2>1 DEF G
<1>8. QED
  BY <1>1, <1>2, <1>6, <1>7

\* A function on 1..n is a sequence of length n.
LEMMA FunctionIsSeq ==
  ASSUME NEW X, NEW n \in Nat, NEW f, f \in [1..n -> X]
  PROVE  f \in Seq(X) /\ Len(f) = n /\ DOMAIN f = 1..n
<1>1. f \in Seq(X)
  BY SeqDef
<1>2. DOMAIN f = 1..Len(f) /\ DOMAIN f = 1..n /\ Len(f) \in Nat
  BY <1>1
<1>3. Len(f) = n
  BY <1>2
<1>4. QED
  BY <1>1, <1>2, <1>3

\* Sets of places are finite, and a one-to-one map bounds or gives their size.
LEMMA PlacesFinite ==
  ASSUME NEW n \in Nat, NEW A \in SUBSET (1..n)
  PROVE  IsFiniteSet(A) /\ Cardinality(A) \in Nat /\ Cardinality(A) <= n
<1>1. IsFiniteSet(1..n) /\ Cardinality(1..n) = n
  BY FS_Interval
<1>2. QED
  BY <1>1, FS_Subset, FS_CardinalityType

\* A one-to-one map bounds the size of a set, and is onto if the sizes are
\* equal.
LEMMA OneToOne ==
  ASSUME NEW A, NEW B, NEW f, IsFiniteSet(B), f \in [A -> B],
         \A x, y \in A : f[x] = f[y] => x = y
  PROVE  /\ IsFiniteSet(A) /\ Cardinality(A) \in Nat /\ Cardinality(B) \in Nat
         /\ Cardinality(A) <= Cardinality(B)
         /\ (\A z \in B : \E x \in A : f[x] = z) <=> Cardinality(A) = Cardinality(B)
<1>1. f \in Injection(A, B)
  BY DEF Injection, IsInjective
<1>2. /\ IsFiniteSet(A) /\ Cardinality(A) <= Cardinality(B)
      /\ Cardinality(A) = Cardinality(B) <=> f \in Surjection(A, B)
  BY <1>1, FS_Injection
<1>3. f \in Surjection(A, B) <=> \A z \in B : \E x \in A : f[x] = z
  BY DEF Surjection
<1>4. QED
  BY <1>2, <1>3, FS_CardinalityType

\* A one-to-one map between sets of one size is onto.
LEMMA OneToOneFills ==
  ASSUME NEW A, NEW B, NEW f, IsFiniteSet(B), f \in [A -> B],
         \A x, y \in A : f[x] = f[y] => x = y,
         Cardinality(A) = Cardinality(B),
         NEW z \in B
  PROVE  \E x \in A : f[x] = z
BY OneToOne

\* A set that is numbered from 1 to n has n members.
LEMMA NumberedSize ==
  ASSUME NEW n \in Nat, NEW T, NEW f, f \in [1..n -> T],
         \A i, j \in 1..n : f[i] = f[j] => i = j,
         \A p \in T : \E i \in 1..n : f[i] = p
  PROVE  IsFiniteSet(T) /\ Cardinality(T) = n
<1>1. f \in Surjection(1..n, T) /\ f \in Injection(1..n, T)
  BY DEF Surjection, Injection, IsInjective
<1>2. IsFiniteSet(1..n) /\ Cardinality(1..n) = n
  BY FS_Interval
<1>3. QED
  BY <1>1, <1>2, FS_Surjection

\* Order() sorts: it is a permutation, and its numbers ascend.
LEMMA OrderSorts ==
  ASSUME NEW keys \in Seq(Int)
  PROVE  /\ Order(keys) \in [1..Len(keys) -> 1..Len(keys)]
         /\ \A i, j \in 1..Len(keys) : Order(keys)[i] = Order(keys)[j] => i = j
         /\ \A p \in 1..Len(keys) : \E i \in 1..Len(keys) : Order(keys)[i] = p
         /\ \A i, j \in 1..Len(keys) : i < j => keys[Order(keys)[i]] <= keys[Order(keys)[j]]
<1> DEFINE n == Len(keys)
           S == 1..n
           before(k, l) == keys[k] < keys[l] \/ (keys[k] = keys[l] /\ k < l)
           B(k) == {l \in S : before(l, k)}
           rank(k) == Cardinality(B(k))
           o == [i \in S |-> CHOOSE k \in S : rank(k) = i - 1]
<1>0. n \in Nat /\ DOMAIN keys = S /\ S \subseteq Nat /\ \A k \in S : keys[k] \in Int
  OBVIOUS
<1>1. Order(keys) = o
  BY <1>0 DEF Order
<1> HIDE DEF n
<1>2. ASSUME NEW k \in S
      PROVE  IsFiniteSet(B(k)) /\ rank(k) \in 0..(n - 1)
  <2>1. B(k) \subseteq S /\ k \notin B(k)
    BY <1>0
  <2>2. IsFiniteSet(S) /\ Cardinality(S) = n
    BY <1>0, FS_Interval
  <2>3. IsFiniteSet(S \ {k}) /\ Cardinality(S \ {k}) = n - 1
    BY <2>2, FS_RemoveElement
  <2>4. B(k) \in SUBSET (S \ {k})
    BY <2>1
  <2> HIDE DEF B
  <2>5. IsFiniteSet(B(k)) /\ Cardinality(B(k)) <= n - 1 /\ Cardinality(B(k)) \in Nat
    BY <2>3, <2>4, FS_Subset, FS_CardinalityType
  <2>6. QED
    BY <1>0, <2>5
<1>3. ASSUME NEW k \in S, NEW l \in S, before(k, l)
      PROVE  rank(k) < rank(l)
  <2>1. B(k) \in SUBSET B(l)
    BY <1>0, <1>3
  <2>2. k \in B(l) /\ k \notin B(k)
    BY <1>0, <1>3
  <2> HIDE DEF B
  <2>3. Cardinality(B(k)) <= Cardinality(B(l)) /\ Cardinality(B(k)) # Cardinality(B(l))
    BY <1>2, <2>1, <2>2, FS_Subset
  <2>4. QED
    BY <1>2, <2>3
<1>4. \A k, l \in S : k = l \/ before(k, l) \/ before(l, k)
  BY <1>0
<1> HIDE DEF before, B, rank
<1>5. ASSUME NEW k \in S, NEW l \in S, rank(k) = rank(l)
      PROVE  k = l
  <2>1. rank(k) \in Int /\ ~(rank(k) < rank(l)) /\ ~(rank(l) < rank(k))
    BY <1>2, <1>5 DEF rank
  <2>2. QED
    BY <1>3, <1>4, <2>1
<1>6. \A m \in 0..(n - 1) : \E k \in S : rank(k) = m
  <2> DEFINE f == [k \in S |-> rank(k)]
             T == 0..(n - 1)
  <2>1. f \in [S -> T]
    BY <1>2 DEF rank
  <2>2. \A k, l \in S : f[k] = f[l] => k = l
    BY <1>5
  <2>3. IsFiniteSet(T) /\ Cardinality(T) = n /\ Cardinality(S) = n
    BY <1>0, FS_Interval
  <2> HIDE DEF f, S, T
  <2>4. ASSUME NEW m \in T
        PROVE  \E k \in S : f[k] = m
    <3>1. Cardinality(S) = Cardinality(T)
      BY <2>3
    <3>2. QED
      BY <2>1, <2>2, <2>3, <3>1, OneToOneFills
  <2> USE DEF f, S, T
  <2>5. QED
    BY <2>4
<1>7. ASSUME NEW i \in S
      PROVE  o[i] \in S /\ rank(o[i]) = i - 1
  <2>1. i - 1 \in 0..(n - 1)
    BY <1>0
  <2>2. \E k \in S : rank(k) = i - 1
    BY <1>6, <2>1
  <2>3. QED
    BY <2>2
<1> HIDE DEF o
<1>8. \A i, j \in S : o[i] = o[j] => i = j
  BY <1>0, <1>7
<1>9. ASSUME NEW p \in S
      PROVE  \E i \in S : o[i] = p
  <2>1. rank(p) \in 0..(n - 1)
    BY <1>2 DEF rank
  <2>2. rank(p) + 1 \in S /\ (rank(p) + 1) - 1 = rank(p)
    BY <1>0, <2>1
  <2>3. o[rank(p) + 1] \in S /\ rank(o[rank(p) + 1]) = rank(p)
    BY <1>7, <2>2
  <2>4. o[rank(p) + 1] = p
    BY <1>5, <2>3 DEF rank
  <2>5. QED
    BY <2>2, <2>4
<1>10. ASSUME NEW i \in S, NEW j \in S, i < j
       PROVE  keys[o[i]] <= keys[o[j]]
  <2>1. o[i] \in S /\ o[j] \in S /\ rank(o[i]) < rank(o[j])
    BY <1>0, <1>7, <1>10
  <2>2. ~before(o[j], o[i])
    <3> SUFFICES ASSUME before(o[j], o[i])
                 PROVE  FALSE
      OBVIOUS
    <3>1. rank(o[j]) < rank(o[i])
      BY <1>3, <2>1 DEF rank
    <3>2. QED
      BY <1>0, <1>7, <2>1, <3>1
  <2>3. QED
    BY <1>0, <2>1, <2>2 DEF before
<1>11. o \in [S -> S]
  BY <1>7 DEF o
<1>12. QED
  BY <1>1, <1>8, <1>9, <1>10, <1>11 DEF n

\* The number at place k of the sorted ones, from 0, has at most k below it and
\* more up to it; there is one such number only.
IsMiddle(keys, m, k) ==
  /\ \E i \in 1..Len(keys) : m = keys[i]
  /\ Cardinality({i \in 1..Len(keys) : keys[i] < m}) <= k
  /\ k < Cardinality({i \in 1..Len(keys) : keys[i] <= m})

\* There is a number in the middle, the one that Order() puts there.
LEMMA MiddleExists ==
  ASSUME NEW keys \in Seq(Int), NEW k \in 0..(Len(keys) - 1)
  PROVE  \E m \in Int : IsMiddle(keys, m, k)
<1> DEFINE n == Len(keys)
           o == Order(keys)
           m == keys[o[k + 1]]
           A == {i \in 1..n : keys[i] < m}
           C == {i \in 1..n : keys[i] <= m}
<1>0. n \in Nat /\ k \in Nat /\ k + 1 \in 1..n /\ (\A i \in 1..n : keys[i] \in Int)
  OBVIOUS
<1>1. /\ o \in [1..n -> 1..n]
      /\ \A i, j \in 1..n : o[i] = o[j] => i = j
      /\ \A p \in 1..n : \E i \in 1..n : o[i] = p
      /\ \A i, j \in 1..n : i < j => keys[o[i]] <= keys[o[j]]
  BY OrderSorts
<1> HIDE DEF n, o
<1>2. m \in Int /\ \E i \in 1..n : m = keys[i]
  BY <1>0, <1>1
<1> HIDE DEF m
<1>3. Cardinality(A) <= k
  <2> DEFINE f == [i \in A |-> CHOOSE j \in 1..k : o[j] = i]
  <2>1. ASSUME NEW i \in A
        PROVE  \E j \in 1..k : o[j] = i
    <3>1. PICK j \in 1..n : o[j] = i
      BY <1>1
    <3>2. keys[i] \in Int /\ keys[i] < m
      BY <1>0
    <3>3. keys[o[j]] < keys[o[k + 1]]
      BY <3>1, <3>2 DEF m
    <3>4. ~(k + 1 < j) /\ j # k + 1
      <4>1. o[j] \in 1..n /\ o[k + 1] \in 1..n
        BY <1>0, <1>1
      <4>2. keys[o[j]] \in Int /\ keys[o[k + 1]] \in Int
        BY <1>0, <4>1
      <4>3. ~(keys[o[k + 1]] <= keys[o[j]]) /\ keys[o[j]] # keys[o[k + 1]]
        BY <3>3, <4>2
      <4>4. QED
        BY <1>0, <1>1, <3>1, <4>3
    <3>5. j \in 1..k
      BY <1>0, <3>4
    <3>6. QED
      BY <3>1, <3>5
  <2>2. \A i \in A : f[i] \in 1..k /\ o[f[i]] = i
    BY <2>1
  <2>3. f \in [A -> 1..k]
    BY <2>2
  <2>4. \A x, y \in A : f[x] = f[y] => x = y
    BY <2>2
  <2>5. IsFiniteSet(1..k) /\ Cardinality(1..k) = k
    BY <1>0, FS_Interval
  <2> HIDE DEF f, A
  <2>6. QED
    BY <2>3, <2>4, <2>5, OneToOne
<1>4. k < Cardinality(C)
  <2> DEFINE f == [j \in 1..(k + 1) |-> o[j]]
  <2>1. ASSUME NEW j \in 1..(k + 1)
        PROVE  o[j] \in C
    <3>1. j \in 1..n /\ (j = k + 1 \/ j < k + 1)
      BY <1>0
    <3>2. keys[o[j]] <= keys[o[k + 1]] /\ o[j] \in 1..n
      <4>1. o[j] \in 1..n /\ keys[o[j]] \in Int
        BY <1>0, <1>1, <3>1
      <4>2. CASE j = k + 1
        BY <4>1, <4>2
      <4>3. CASE j < k + 1
        BY <1>0, <1>1, <3>1, <4>1, <4>3
      <4>4. QED
        BY <3>1, <4>2, <4>3
    <3>3. QED
      BY <3>2 DEF m
  <2>2. f \in [1..(k + 1) -> C]
    BY <2>1
  <2>3. \A x, y \in 1..(k + 1) : f[x] = f[y] => x = y
    <3> SUFFICES ASSUME NEW x \in 1..(k + 1), NEW y \in 1..(k + 1), f[x] = f[y]
                 PROVE  x = y
      OBVIOUS
    <3>1. x \in 1..n /\ y \in 1..n /\ o[x] = o[y]
      BY <1>0
    <3>2. QED
      BY <1>1, <3>1
  <2>4. Cardinality(1..(k + 1)) = k + 1
    BY <1>0, FS_Interval
  <2>5. IsFiniteSet(C)
    BY <1>0, PlacesFinite
  <2> DEFINE T == 1..(k + 1)
  <2> HIDE DEF f, C, T
  <2>6. Cardinality(T) <= Cardinality(C) /\ Cardinality(C) \in Nat
    <3>1. f \in [T -> C] /\ (\A x, y \in T : f[x] = f[y] => x = y)
      BY <2>2, <2>3 DEF T
    <3>2. Cardinality(T) <= Cardinality(C)
      BY <2>5, <3>1, OneToOne
    <3>3. QED
      BY <2>5, <3>2, FS_CardinalityType
  <2>7. QED
    BY <1>0, <2>4, <2>6 DEF T
<1>5. IsMiddle(keys, m, k)
  BY <1>2, <1>3, <1>4 DEF IsMiddle, n
<1>6. QED
  BY <1>2, <1>5

\* What more than k of the numbers are up to is no less than what at most k
\* are below.
LEMMA MiddleUnique ==
  ASSUME NEW keys \in Seq(Int), NEW k \in Nat, NEW v \in Int, NEW w \in Int,
         Cardinality({i \in 1..Len(keys) : keys[i] <= v}) > k,
         Cardinality({i \in 1..Len(keys) : keys[i] < w}) <= k
  PROVE  w <= v
<1> DEFINE n == Len(keys)
           C == {i \in 1..n : keys[i] <= v}
           A == {i \in 1..n : keys[i] < w}
<1> SUFFICES ASSUME v < w
             PROVE  FALSE
  OBVIOUS
<1>0. n \in Nat /\ \A i \in 1..n : keys[i] \in Int
  OBVIOUS
<1> HIDE DEF n
<1>1. C \in SUBSET A /\ A \in SUBSET (1..n)
  BY <1>0
<1>2. Cardinality(C) > k /\ Cardinality(A) <= k
  BY DEF n
<1> HIDE DEF A, C
<1>3. IsFiniteSet(A) /\ Cardinality(A) \in Nat
  BY <1>0, <1>1, PlacesFinite
<1>4. Cardinality(C) <= Cardinality(A) /\ Cardinality(C) \in Nat
  BY <1>1, <1>3, FS_Subset, FS_CardinalityType
<1>5. QED
  BY <1>2, <1>3, <1>4

\* A numbering of a set from 1 to n, and places whose members are in a set.
Numbers(b, n, T) ==
  /\ b \in [1..n -> T]
  /\ \A i, j \in 1..n : b[i] = b[j] => i = j
  /\ \A p \in T : \E i \in 1..n : b[i] = p

\* The places that a numbering takes to Q.
AreThose(A, b, n, Q) == \A i \in 1..n : i \in A <=> b[i] \in Q

\* A one-to-one map onto the places counts what is counted there.
LEMMA CountedAlike ==
  ASSUME NEW n \in Nat, NEW T, NEW b, Numbers(b, n, T),
         NEW A \in SUBSET (1..n), NEW Q \in SUBSET T, AreThose(A, b, n, Q)
  PROVE  Cardinality(A) = Cardinality(Q) /\ Cardinality(Q) \in Nat
<1>0. /\ b \in [1..n -> T]
      /\ \A i, j \in 1..n : b[i] = b[j] => i = j
      /\ \A p \in T : \E i \in 1..n : b[i] = p
      /\ \A i \in 1..n : i \in A <=> b[i] \in Q
  BY DEF Numbers, AreThose
<1>1. IsFiniteSet(A) /\ Cardinality(A) \in Nat
  BY PlacesFinite
<1> DEFINE f == [i \in A |-> b[i]]
<1>2. f \in [A -> Q]
  BY <1>0
<1>3. (\A i, j \in A : f[i] = f[j] => i = j) /\ \A p \in Q : \E i \in A : f[i] = p
  BY <1>0
<1> HIDE DEF f
<1>4. f \in Surjection(A, Q)
  BY <1>2, <1>3 DEF Surjection
<1>5. f \in Injection(A, Q)
  BY <1>2, <1>3 DEF Injection, IsInjective
<1>6. Cardinality(Q) = Cardinality(A)
  BY <1>1, <1>4, <1>5, FS_Surjection
<1>7. QED
  BY <1>1, <1>6

-----------------------------------------------------------------------------
(* userspace-test.                                                         *)

(***************************************************************************)
(* The calls of main() and of its child, by their positions.               *)
(***************************************************************************)
LEMMA ChildSteps ==
  /\ Len(ChildScript) = 3
  /\ ChildScript[1] = [op |-> "get", arg |-> TRUE]
  /\ ChildScript[2] = [op |-> "getcpu", arg |-> {}]
  /\ ChildScript[3] = [op |-> "pread", arg |-> PfBits]
BY DEF ChildScript, AssertPf, Op

LEMMA TestSteps ==
  /\ Len(TestScript) = 17
  /\ TestScript[1] = [op |-> "pin", arg |-> CpuInitial]
  /\ TestScript[2] = [op |-> "get", arg |-> FALSE]
  /\ TestScript[3] = [op |-> "getcpu", arg |-> {}]
  /\ TestScript[4] = [op |-> "pread", arg |-> {}]
  /\ TestScript[5] = [op |-> "set", arg |-> TRUE]
  /\ TestScript[6] = [op |-> "get", arg |-> TRUE]
  /\ TestScript[7] = [op |-> "getcpu", arg |-> {}]
  /\ TestScript[8] = [op |-> "pread", arg |-> PfBits]
  /\ TestScript[9] = [op |-> "fork", arg |-> {}]
  /\ TestScript[10] = [op |-> "wait", arg |-> {}]
  /\ TestScript[11] = [op |-> "pin", arg |-> CpuMigration]
  /\ TestScript[12] = [op |-> "getcpu", arg |-> {}]
  /\ TestScript[13] = [op |-> "pread", arg |-> PfBits]
  /\ TestScript[14] = [op |-> "set", arg |-> FALSE]
  /\ TestScript[15] = [op |-> "get", arg |-> FALSE]
  /\ TestScript[16] = [op |-> "getcpu", arg |-> {}]
  /\ TestScript[17] = [op |-> "pread", arg |-> {}]
<1> DEFINE c1  == [op |-> "pin", arg |-> CpuInitial]
           c2  == [op |-> "get", arg |-> FALSE]
           c3  == [op |-> "getcpu", arg |-> {}]
           c4  == [op |-> "pread", arg |-> {}]
           c5  == [op |-> "set", arg |-> TRUE]
           c6  == [op |-> "get", arg |-> TRUE]
           c7  == [op |-> "getcpu", arg |-> {}]
           c8  == [op |-> "pread", arg |-> PfBits]
           c9  == [op |-> "fork", arg |-> {}]
           c10 == [op |-> "wait", arg |-> {}]
           c11 == [op |-> "pin", arg |-> CpuMigration]
           c12 == [op |-> "getcpu", arg |-> {}]
           c13 == [op |-> "pread", arg |-> PfBits]
           c14 == [op |-> "set", arg |-> FALSE]
           c15 == [op |-> "get", arg |-> FALSE]
           c16 == [op |-> "getcpu", arg |-> {}]
           c17 == [op |-> "pread", arg |-> {}]
           s   == <<c1>> \o <<c2>> \o (<<c3>> \o <<c4>>)
                  \o <<c5>> \o <<c6>> \o (<<c7>> \o <<c8>>)
                  \o <<c9>> \o <<c10>>
                  \o <<c11>> \o (<<c12>> \o <<c13>>)
                  \o <<c14>> \o <<c15>> \o (<<c16>> \o <<c17>>)
<1>1. TestScript = s
  BY DEF TestScript, AssertPf, Op
<1> HIDE DEF c1, c2, c3, c4, c5, c6, c7, c8, c9, c10, c11, c12, c13, c14, c15, c16, c17
<1>2. /\ Len(s) = 17
      /\ s[1] = c1 /\ s[2] = c2 /\ s[3] = c3 /\ s[4] = c4 /\ s[5] = c5
      /\ s[6] = c6 /\ s[7] = c7 /\ s[8] = c8 /\ s[9] = c9 /\ s[10] = c10
      /\ s[11] = c11 /\ s[12] = c12 /\ s[13] = c13 /\ s[14] = c14
      /\ s[15] = c15 /\ s[16] = c16 /\ s[17] = c17
  OBVIOUS
<1> HIDE DEF s
<1>3. QED
  BY <1>1, <1>2 DEF c1, c2, c3, c4, c5, c6, c7, c8, c9, c10, c11, c12, c13, c14, c15, c16, c17

\* The positions of the test's calls, and their arguments.
LEMMA TestCalls ==
  ASSUME at[Test] \in 1..17
  PROVE  /\ Call(Test).op = "pin" =>
              \/ at[Test] = 1 /\ Call(Test).arg = CpuInitial
              \/ at[Test] = 11 /\ Call(Test).arg = CpuMigration
         /\ Call(Test).op = "get" =>
              \/ at[Test] \in {2, 15} /\ Call(Test).arg = FALSE
              \/ at[Test] = 6 /\ Call(Test).arg = TRUE
         /\ Call(Test).op = "getcpu" => at[Test] \in {3, 7, 12, 16}
         /\ Call(Test).op = "pread" =>
              \/ at[Test] \in {4, 17} /\ Call(Test) = [op |-> "pread", arg |-> {}]
              \/ at[Test] \in {8, 13} /\ Call(Test).arg = PfBits
         /\ Call(Test).op = "set" =>
              \/ at[Test] = 5 /\ Call(Test).arg = TRUE
              \/ at[Test] = 14 /\ Call(Test).arg = FALSE
         /\ Call(Test).op = "fork" => at[Test] = 9
         /\ Call(Test).op = "wait" => at[Test] = 10
<1>1. Call(Test) = TestScript[at[Test]]
  BY DEF Call, Script
<1>2. \/ at[Test] = 1 \/ at[Test] = 2 \/ at[Test] = 3 \/ at[Test] = 4
      \/ at[Test] = 5 \/ at[Test] = 6 \/ at[Test] = 7 \/ at[Test] = 8
      \/ at[Test] = 9 \/ at[Test] = 10 \/ at[Test] = 11 \/ at[Test] = 12
      \/ at[Test] = 13 \/ at[Test] = 14 \/ at[Test] = 15 \/ at[Test] = 16
      \/ at[Test] = 17
  OBVIOUS
<1>3. QED
  BY <1>1, <1>2, TestSteps, SMTT(30)

\* The positions of the child's calls.
LEMMA ChildCalls ==
  ASSUME at[Child] \in 1..3
  PROVE  /\ Call(Child).op \in {"get", "getcpu", "pread"}
         /\ Call(Child).op = "get" => at[Child] = 1 /\ Call(Child).arg = TRUE
         /\ Call(Child).op = "getcpu" => at[Child] = 2
         /\ Call(Child).op = "pread" => at[Child] = 3 /\ Call(Child).arg = PfBits
<1>1. Call(Child) = ChildScript[at[Child]]
  BY TestAssumption DEF Call, Script
<1>2. at[Child] = 1 \/ at[Child] = 2 \/ at[Child] = 3
  OBVIOUS
<1>3. QED
  BY <1>1, <1>2, ChildSteps

\* What a process that goes on, or that fails, does to the positions.
LEMMA TestAdvances ==
  ASSUME TypeOK, Advance(Test)
  PROVE  /\ at'[Child] = at[Child] /\ outcome'[Child] = outcome[Child]
         /\ at[Test] \in 1..16 => at'[Test] = at[Test] + 1 /\ outcome' = outcome
         /\ at[Test] = 17 => at'[Test] = 17 /\ outcome'[Test] = "passed"
         /\ at' \in [Processes -> 1..17]
         /\ outcome' \in [Processes -> {"none", "running", "passed", "failed", "killed"}]
<1>1. Len(Script(Test)) = 17 /\ Len(TestScript) = 17
  BY TestSteps DEF Script
<1>2. Test \in Processes /\ Child \in Processes /\ Test # Child
  BY TestAssumption DEF Processes
<1>3. /\ at \in [Processes -> 1..17]
      /\ outcome \in [Processes -> {"none", "running", "passed", "failed", "killed"}]
  BY <1>1 DEF TypeOK
<1>4. CASE at[Test] < 17
  BY <1>1, <1>2, <1>3, <1>4 DEF Advance
<1>5. CASE at[Test] = 17
  BY <1>1, <1>2, <1>3, <1>5 DEF Advance
<1>6. QED
  BY <1>2, <1>3, <1>4, <1>5

LEMMA ChildAdvances ==
  ASSUME TypeOK, at[Child] \in 1..3, Advance(Child)
  PROVE  /\ at'[Test] = at[Test] /\ outcome'[Test] = outcome[Test]
         /\ at[Child] \in 1..2 => at'[Child] = at[Child] + 1 /\ outcome' = outcome
         /\ at[Child] = 3 => at'[Child] = 3 /\ outcome'[Child] = "passed"
         /\ at' \in [Processes -> 1..17]
         /\ outcome' \in [Processes -> {"none", "running", "passed", "failed", "killed"}]
<1>1. Len(Script(Child)) = 3 /\ Len(TestScript) = 17
  BY ChildSteps, TestSteps, TestAssumption DEF Script
<1>2. Test \in Processes /\ Child \in Processes /\ Test # Child
  BY TestAssumption DEF Processes
<1>3. /\ at \in [Processes -> 1..17]
      /\ outcome \in [Processes -> {"none", "running", "passed", "failed", "killed"}]
  BY <1>1 DEF TypeOK
<1>4. CASE at[Child] < 3
  BY <1>1, <1>2, <1>3, <1>4 DEF Advance
<1>5. CASE at[Child] = 3
  BY <1>1, <1>2, <1>3, <1>5 DEF Advance
<1>6. QED
  BY <1>2, <1>3, <1>4, <1>5

(***************************************************************************)
(* The policy holds in every state.                                        *)
(***************************************************************************)
LEMMA PolicySwitch ==
  ASSUME TypeOK, PolicyKept, NEW c \in Cpus, NEW t \in Tasks \cup {Idle}, Switch(c, t)
  PROVE  PolicyKept'
<1> DEFINE k == CoreOf[c]
<1>1. /\ running' = [running EXCEPT ![c] = t]
      /\ flag' = flag /\ booted' = booted
      /\ disabled' = [disabled EXCEPT ![k] = Demand(k)]
  BY DEF Switch, Adjust, PolicyKept
<1>2. \A d, e \in Cpus : running'[d] = running'[e] /\ running'[d] # Idle => d = e
  BY <1>1 DEF Switch, PolicyKept, TypeOK
<1>3. \A j \in Cores \ {k} : Flagged(j)' <=> Flagged(j)
  BY <1>1 DEF Flagged, TypeOK
<1>4. Demand(k) = IF Flagged(k)' THEN PfBits ELSE {}
  BY DEF Demand, Flagged
<1>5. disabled' = [j \in Cores |-> IF Flagged(j)' THEN PfBits ELSE {}]
  BY <1>1, <1>3, <1>4 DEF PolicyKept
<1>6. QED
  BY <1>1, <1>2, <1>5 DEF PolicyKept

LEMMA PolicySetFlag ==
  ASSUME TypeOK, PolicyKept, NEW c \in Cpus, NEW on \in BOOLEAN, SetFlag(c, on)
  PROVE  PolicyKept'
<1> DEFINE k == CoreOf[c]
<1>1. /\ running' = running /\ booted' = booted
      /\ flag' = [flag EXCEPT ![running[c]] = on]
      /\ disabled' = [disabled EXCEPT ![k] = Demand(k)]
      /\ running[c] \in Tasks
  BY DEF SetFlag, Adjust
<1>2. \A d \in Cpus \ {c} : flag'[running'[d]] = flag[running[d]]
  BY <1>1, TestAssumption DEF PolicyKept, TypeOK
<1>3. \A j \in Cores \ {k} : Flagged(j)' <=> Flagged(j)
  BY <1>1, <1>2 DEF Flagged
<1>4. Demand(k) = IF Flagged(k)' THEN PfBits ELSE {}
  BY DEF Demand, Flagged
<1>5. disabled' = [j \in Cores |-> IF Flagged(j)' THEN PfBits ELSE {}]
  BY <1>1, <1>3, <1>4 DEF PolicyKept
<1>6. ~flag'[Idle]
  BY <1>1, TestAssumption DEF PolicyKept, TypeOK
<1>7. QED
  BY <1>1, <1>5, <1>6 DEF PolicyKept

LEMMA PolicyFork ==
  ASSUME TypeOK, PolicyKept, NEW c \in Cpus, Fork(c, Child)
  PROVE  PolicyKept'
<1>1. /\ running' = running /\ booted' = booted /\ disabled' = disabled
      /\ flag' = [flag EXCEPT ![Child] = flag[running[c]]]
      /\ \A d \in Cpus : running[d] # Child
  BY DEF Fork
<1>2. ~flag'[Idle] /\ \A d \in Cpus : flag'[running'[d]] = flag[running[d]]
  BY <1>1, TestAssumption DEF PolicyKept, TypeOK
<1>3. \A j \in Cores : Flagged(j)' <=> Flagged(j)
  BY <1>1, <1>2 DEF Flagged
<1>4. QED
  BY <1>1, <1>2, <1>3 DEF PolicyKept

\* What a CPU's own task tells of its core.
LEMMA OwnCore ==
  ASSUME TypeOK, PolicyKept, NEW c \in Cpus
  PROVE  /\ CoreOf[c] \in Cores
         /\ flag[running[c]] => disabled[CoreOf[c]] = PfBits
         /\ ~flag[running[c]] /\ ~InCompany(c) => disabled[CoreOf[c]] = {}
<1>1. CoreOf[c] \in Cores
  BY TestAssumption
<1>2. disabled[CoreOf[c]] = IF Flagged(CoreOf[c]) THEN PfBits ELSE {}
  BY <1>1 DEF PolicyKept
<1>3. flag[running[c]] => Flagged(CoreOf[c])
  BY DEF Flagged
<1>4. ~flag[running[c]] /\ ~InCompany(c) => ~Flagged(CoreOf[c])
  BY DEF Flagged, InCompany
<1>5. QED
  BY <1>1, <1>2, <1>3, <1>4

(***************************************************************************)
(* The places of the test and its child, step by step.                     *)
(***************************************************************************)
ScriptPlaces == TestPlace /\ ChildPlace /\ FailuresExplained

\* What ScriptInv says of the two processes' own state.
LEMMA TypedScript ==
  ASSUME ScriptInv
  PROVE  /\ Test \in Processes /\ Child \in Processes /\ Test # Child
         /\ at[Test] \in 1..17 /\ at[Child] \in 1..3
         /\ flag[Test] \in BOOLEAN /\ flag[Child] \in BOOLEAN
         /\ CpuInitial \in Cpus /\ Target \in Cpus
BY TestAssumption, TestSteps DEF ScriptInv, TypeOK, ChildPlace, Processes, Target

LEMMA PlacesKept ==
  ASSUME ScriptPlaces, UNCHANGED <<testVars, machineVars, histVars>>,
         flag'[Test] = flag[Test], flag'[Child] = flag[Child]
  PROVE  ScriptPlaces'
<1>1. /\ at' = at /\ cpu' = cpu /\ affinity' = affinity /\ outcome' = outcome
      /\ online' = online /\ otherBits' = otherBits
      /\ observed' = observed /\ company' = company
  BY DEF testVars, machineVars, histVars
<1>2. Target' = Target /\ Call(Test)' = Call(Test)
  BY <1>1 DEF Target, Call
<1>3. TestPlace'
  BY <1>1, <1>2 DEF ScriptPlaces, TestPlace
<1>4. ChildPlace'
  BY <1>1 DEF ScriptPlaces, ChildPlace
<1>5. FailuresExplained'
  BY <1>1, <1>2 DEF ScriptPlaces, FailuresExplained
<1>6. QED
  BY <1>3, <1>4, <1>5 DEF ScriptPlaces

LEMMA PinPlaces ==
  ASSUME ScriptInv, NEW c \in Cpus, Pin(Test, c)
  PROVE  ScriptPlaces'
<1>1. /\ flag' = flag /\ cpu' = cpu /\ observed' = observed
      /\ online' = online /\ otherBits' = otherBits
      /\ outcome[Test] = "running" /\ Call(Test).op = "pin"
  BY TypedScript DEF Pin, Calls, MayRun, vars, machineVars, histVars
<1>2. /\ affinity'[Child] = affinity[Child]
      /\ affinity'[Test] = IF Call(Test).arg \in online THEN {Call(Test).arg} ELSE affinity[Test]
  BY TypedScript DEF Pin, ScriptInv, TypeOK
<1>3. /\ at'[Child] = at[Child] /\ outcome' = outcome
      /\ at'[Test] = at[Test] + 1
  BY TypedScript, TestCalls, TestAdvances, <1>1 DEF Pin, ScriptInv
<1>4. Target' = Target
  BY <1>1 DEF Target
<1>5. \/ at[Test] = 1 /\ affinity'[Test] = {CpuInitial}
      \/ at[Test] = 11 /\ affinity'[Test] = {Target}
  BY <1>1, <1>2, TypedScript, TestCalls DEF ScriptInv, TestPlace, Target
<1>6. TestPlace' /\ ChildPlace'
  BY <1>1, <1>2, <1>3, <1>4, <1>5 DEF ScriptInv, TestPlace, ChildPlace
<1>7. QED
  BY <1>1, <1>3, <1>6 DEF ScriptInv, FailuresExplained, ScriptPlaces

LEMMA GetPlaces ==
  ASSUME ScriptInv, NEW c \in Cpus, GetFlag(Test, c)
  PROVE  ScriptPlaces'
<1>1. /\ flag' = flag /\ cpu' = cpu /\ observed' = observed /\ affinity' = affinity
      /\ online' = online /\ otherBits' = otherBits /\ company' = company
      /\ outcome[Test] = "running" /\ Call(Test).op = "get"
  BY TypedScript DEF GetFlag, Calls, MayRun, vars, machineVars, histVars
<1>2. Target' = Target
  BY <1>1 DEF Target
<1>0. \/ at[Test] = 2 /\ Call(Test).arg = FALSE
      \/ at[Test] = 15 /\ Call(Test).arg = FALSE /\ ~flag[Test]
      \/ at[Test] = 6 /\ Call(Test).arg = TRUE /\ flag[Test]
  <2>1. \/ at[Test] \in {2, 15} /\ Call(Test).arg = FALSE
        \/ at[Test] = 6 /\ Call(Test).arg = TRUE
    BY <1>1, TypedScript, TestCalls
  <2>2. /\ at[Test] = 15 => ~flag[Test]
        /\ at[Test] = 6 => flag[Test]
    BY DEF ScriptInv, TestPlace
  <2>3. QED
    BY <2>1, <2>2
<1>3. CASE flag[Test] = Call(Test).arg /\ Advance(Test)
  <2>1. /\ at'[Child] = at[Child] /\ outcome' = outcome
        /\ at'[Test] = at[Test] + 1
    <3>1. at[Test] \in 1..16
      BY <1>0
    <3>2. QED
      BY <1>3, <3>1, TestAdvances DEF ScriptInv
  <2>2. \/ at[Test] = 2 /\ ~flag[Test]
        \/ at[Test] = 15 /\ ~flag[Test]
        \/ at[Test] = 6 /\ flag[Test]
    BY <1>0, <1>3, Zenon
  <2>3. TestPlace' /\ ChildPlace'
    BY <1>1, <1>2, <2>1, <2>2 DEF ScriptInv, TestPlace, ChildPlace
  <2>4. QED
    BY <1>1, <2>1, <2>3 DEF ScriptInv, FailuresExplained, ScriptPlaces
<1>4. CASE flag[Test] # Call(Test).arg /\ outcome' = [outcome EXCEPT ![Test] = "failed"] /\ at' = at
  <2>1. outcome'[Test] = "failed" /\ outcome'[Child] = outcome[Child]
    BY <1>4, TypedScript DEF ScriptInv, TypeOK
  <2>2. at[Test] = 2 /\ flag[Test]
    <3>1. flag[Test] \in BOOLEAN
      BY TypedScript
    <3>2. QED
      BY <1>0, <1>4, <3>1, Zenon
  <2>3. Call(Test)' = Call(Test)
    BY <1>4 DEF Call
  <2>4. TestPlace' /\ ChildPlace'
    BY <1>1, <1>2, <1>4, <2>1, <2>2 DEF ScriptInv, TestPlace, ChildPlace
  <2>5. QED
    BY <1>1, <1>4, <2>1, <2>2, <2>3, <2>4 DEF ScriptInv, FailuresExplained, ScriptPlaces
<1>5. QED
  BY <1>3, <1>4, Zenon DEF GetFlag, Expect, vars

LEMMA SetPlaces ==
  ASSUME ScriptInv, NEW c \in Cpus, SetOwnFlag(Test, c)
  PROVE  ScriptPlaces'
<1>1. /\ cpu' = cpu /\ observed' = observed /\ affinity' = affinity
      /\ online' = online /\ otherBits' = otherBits
      /\ outcome[Test] = "running" /\ Call(Test).op = "set"
      /\ flag' = [flag EXCEPT ![Test] = Call(Test).arg]
  BY TypedScript DEF SetOwnFlag, SetFlag, Calls, MayRun, machineVars, histVars
<1>2. flag'[Test] = Call(Test).arg /\ flag'[Child] = flag[Child]
  BY <1>1, TestAssumption DEF ScriptInv, TypeOK
<1>3. /\ at'[Child] = at[Child] /\ outcome' = outcome
      /\ at'[Test] = at[Test] + 1
  <2>1. at[Test] \in {5, 14}
    BY <1>1, TypedScript, TestCalls
  <2>2. TypeOK /\ Advance(Test)
    BY DEF ScriptInv, SetOwnFlag
  <2>3. QED
    BY <2>1, <2>2, TestAdvances
<1>4. \/ at[Test] = 5 /\ flag'[Test]
      \/ at[Test] = 14 /\ ~flag'[Test]
  BY <1>1, <1>2, TypedScript, TestCalls
<1>5. Target' = Target
  BY <1>1 DEF Target
<1>6. TestPlace' /\ ChildPlace'
  BY <1>1, <1>2, <1>3, <1>4, <1>5 DEF ScriptInv, TestPlace, ChildPlace
<1>7. QED
  BY <1>1, <1>3, <1>6 DEF ScriptInv, FailuresExplained, ScriptPlaces

LEMMA GetcpuPlaces ==
  ASSUME ScriptInv, NEW c \in Cpus, SchedGetcpu(Test, c)
  PROVE  ScriptPlaces'
<1>1. /\ flag' = flag /\ observed' = observed /\ affinity' = affinity
      /\ online' = online /\ otherBits' = otherBits
      /\ outcome[Test] = "running" /\ Call(Test).op = "getcpu"
      /\ c \in affinity[Test]
  BY TypedScript DEF SchedGetcpu, Calls, MayRun, vars, machineVars, histVars
<1>2. cpu'[Test] = c /\ cpu'[Child] = cpu[Child]
  BY TypedScript DEF SchedGetcpu, ScriptInv, TypeOK
<1>3. /\ at'[Child] = at[Child] /\ outcome' = outcome
      /\ at'[Test] = at[Test] + 1
      /\ at[Test] \in {3, 7, 12, 16}
  <2>1. at[Test] \in {3, 7, 12, 16}
    BY <1>1, TypedScript, TestCalls
  <2>2. TypeOK /\ Advance(Test)
    BY DEF ScriptInv, SchedGetcpu
  <2>3. QED
    BY <2>1, <2>2, TestAdvances
<1>4. Target' = Target
  BY <1>1 DEF Target
<1>5. /\ at[Test] \in {3, 7} => c = CpuInitial
      /\ at[Test] \in {12, 16} => c = Target
  BY <1>1 DEF ScriptInv, TestPlace
<1>6. TestPlace' /\ ChildPlace'
  BY <1>1, <1>2, <1>3, <1>4, <1>5 DEF ScriptInv, TestPlace, ChildPlace
<1>7. QED
  BY <1>1, <1>3, <1>6 DEF ScriptInv, FailuresExplained, ScriptPlaces

LEMMA PreadPlaces ==
  ASSUME ScriptInv, PolicyKept, NEW c \in Cpus, Pread(Test, c)
  PROVE  ScriptPlaces'
<1> DEFINE k == CoreOf[c]
<1>1. /\ flag' = flag /\ cpu' = cpu /\ affinity' = affinity
      /\ online' = online /\ otherBits' = otherBits
      /\ outcome[Test] = "running" /\ Call(Test).op = "pread"
      /\ running[c] = Test /\ c \in affinity[Test]
  BY TypedScript DEF Pread, Calls, MayRun, vars, machineVars
<1>2. \/ at[Test] \in {4, 17} /\ Call(Test) = [op |-> "pread", arg |-> {}]
      \/ at[Test] \in {8, 13} /\ Call(Test).arg = PfBits
  BY <1>1, TypedScript, TestCalls
<1>3. /\ cpu[Test] = c
      /\ at[Test] \in {4, 8} => c = CpuInitial
      /\ at[Test] \in {13, 17} => c = Target
  BY <1>1, <1>2 DEF ScriptInv, TestPlace
<1>4. /\ at[Test] \in {8, 13} => Word(k) = Call(Test).arg
      /\ Word(k) # {} => otherBits # {} \/ flag[Test] \/ InCompany(c)
  <2>1. /\ flag[Test] => disabled[k] = PfBits
        /\ ~flag[Test] /\ ~InCompany(c) => disabled[k] = {}
    BY <1>1, OwnCore DEF ScriptInv
  <2>2. at[Test] \in {8, 13} => flag[Test] /\ otherBits = {}
    BY DEF ScriptInv, TestPlace
  <2>3. QED
    BY <1>2, <2>1, <2>2 DEF Word
<1>5. Target' = Target /\ company'[Test] = InCompany(c)
  BY <1>1, <1>3, TypedScript DEF Target, Pread, ScriptInv, TypeOK
<1>6. CASE Word(k) = Call(Test).arg /\ Advance(Test)
  <2>1. /\ at'[Child] = at[Child] /\ outcome'[Child] = outcome[Child]
        /\ at[Test] \in {4, 8, 13} => at'[Test] = at[Test] + 1 /\ outcome'[Test] = outcome[Test]
        /\ at[Test] = 17 => at'[Test] = 17 /\ outcome'[Test] = "passed"
    BY <1>6, TestAdvances DEF ScriptInv
  <2>2. observed' = observed \cup {<<Test, k, Call(Test).arg>>}
    BY <1>3, <1>6 DEF Pread
  <2>3. at[Test] = 4 => otherBits = {}
    BY <1>2, <1>6 DEF Word
  <2>4. TestPlace'
    BY <1>1, <1>2, <1>3, <1>5, <2>1, <2>2, <2>3 DEF ScriptInv, TestPlace
  <2>5. ChildPlace'
    BY <1>1, <1>2, <2>1, <2>2 DEF ScriptInv, ChildPlace
  <2>6. outcome'[Child] # "failed" /\ outcome'[Test] # "failed"
    BY <1>1, <1>2, <2>1 DEF ScriptInv, FailuresExplained
  <2>7. QED
    BY <2>4, <2>5, <2>6 DEF FailuresExplained, ScriptPlaces
<1>7. CASE /\ Word(k) # Call(Test).arg
           /\ outcome' = [outcome EXCEPT ![Test] = "failed"]
           /\ at' = at
  <2>1. outcome'[Test] = "failed" /\ outcome'[Child] = outcome[Child]
    BY <1>7, TypedScript DEF ScriptInv, TypeOK
  <2>2. observed' = observed /\ Call(Test)' = Call(Test)
    BY <1>3, <1>7 DEF Pread, Call
  <2>3. at[Test] \in {4, 17} /\ Call(Test) = [op |-> "pread", arg |-> {}]
    BY <1>2, <1>4, <1>7
  <2>4. TestPlace' /\ ChildPlace'
    BY <1>1, <1>5, <1>7, <2>1, <2>2, <2>3 DEF ScriptInv, TestPlace, ChildPlace
  <2>5. ~flag[Test] /\ Word(k) # {}
    BY <1>7, <2>3 DEF ScriptInv, TestPlace
  <2>6. otherBits' # {} \/ company'[Test]
    BY <1>1, <1>4, <1>5, <2>5
  <2>7. QED
    BY <2>1, <2>2, <2>3, <2>4, <2>6 DEF ScriptInv, FailuresExplained, ScriptPlaces
<1>8. QED
  BY <1>3, <1>6, <1>7, Zenon DEF Pread, Expect

LEMMA ForkPlaces ==
  ASSUME ScriptInv, NEW c \in Cpus, ForkChild(c)
  PROVE  ScriptPlaces'
<1>1. /\ cpu' = cpu /\ observed' = observed
      /\ online' = online /\ otherBits' = otherBits
      /\ outcome[Test] = "running" /\ Call(Test).op = "fork" /\ running[c] = Test
  BY TypedScript DEF ForkChild, Calls, MayRun, machineVars, histVars
<1>2. at[Test] = 9
  BY <1>1, TypedScript, TestCalls
<1>3. /\ at'[Test] = 10 /\ at'[Child] = at[Child]
      /\ outcome'[Test] = "running" /\ outcome'[Child] = "running"
      /\ affinity'[Test] = affinity[Test] /\ affinity'[Child] = affinity[Test]
  BY <1>1, <1>2, TypedScript DEF ForkChild, ScriptInv, TypeOK
<1>4. flag'[Test] = flag[Test] /\ flag'[Child] = flag[Test]
  BY <1>1, TestAssumption DEF ForkChild, Fork, ScriptInv, TypeOK
<1>5. Target' = Target
  BY <1>1 DEF Target
<1>6. TestPlace' /\ ChildPlace'
  BY <1>1, <1>2, <1>3, <1>4, <1>5 DEF ScriptInv, TestPlace, ChildPlace
<1>7. QED
  BY <1>3, <1>6 DEF FailuresExplained, ScriptPlaces

LEMMA ForkFailsPlaces ==
  ASSUME ScriptInv, NEW c \in Cpus, ForkFails(c)
  PROVE  ScriptPlaces'
<1>1. /\ flag' = flag /\ cpu' = cpu /\ observed' = observed /\ affinity' = affinity
      /\ online' = online /\ otherBits' = otherBits /\ at' = at
      /\ outcome[Test] = "running" /\ Call(Test).op = "fork"
      /\ outcome' = [outcome EXCEPT ![Test] = "failed"]
  BY TypedScript DEF ForkFails, Expect, Calls, MayRun, vars, machineVars, histVars
<1>2. outcome'[Test] = "failed" /\ outcome'[Child] = outcome[Child]
  BY <1>1, TypedScript DEF ScriptInv, TypeOK
<1>3. Target' = Target /\ Call(Test)' = Call(Test)
  BY <1>1 DEF Target, Call
<1>4. TestPlace' /\ ChildPlace'
  BY <1>1, <1>2, <1>3 DEF ScriptInv, TestPlace, ChildPlace
<1>5. QED
  BY <1>1, <1>2, <1>3, <1>4 DEF ScriptInv, FailuresExplained, ScriptPlaces

LEMMA WaitPlaces ==
  ASSUME ScriptInv, NEW c \in Cpus, WaitChild(c)
  PROVE  ScriptPlaces'
<1>1. /\ flag' = flag /\ cpu' = cpu /\ observed' = observed /\ affinity' = affinity
      /\ online' = online /\ otherBits' = otherBits
      /\ outcome[Test] = "running" /\ Call(Test).op = "wait"
      /\ outcome[Child] # "running" /\ outcome[Child] # "failed" /\ Advance(Test)
  BY TypedScript
     DEF WaitChild, Expect, Calls, MayRun, vars, machineVars, histVars, ScriptInv, FailuresExplained
<1>2. at[Test] = 10
  BY <1>1, TypedScript, TestCalls
<1>3. at'[Child] = at[Child] /\ outcome' = outcome /\ at'[Test] = 11
  BY <1>1, <1>2, TestAdvances DEF ScriptInv
<1>4. outcome[Child] \in {"passed", "killed"}
  BY <1>1, <1>2, TypedScript DEF ScriptInv, TypeOK, ChildPlace
<1>5. Target' = Target
  BY <1>1 DEF Target
<1>6. TestPlace' /\ ChildPlace'
  BY <1>1, <1>2, <1>3, <1>4, <1>5 DEF ScriptInv, TestPlace, ChildPlace
<1>7. QED
  BY <1>1, <1>3, <1>6 DEF FailuresExplained, ScriptPlaces

\* The child's calls: none of its comparisons fails.
LEMMA ChildPlaces ==
  ASSUME ScriptInv, PolicyKept, NEW c \in Cpus,
         \/ Pin(Child, c) \/ GetFlag(Child, c) \/ SetOwnFlag(Child, c)
         \/ SchedGetcpu(Child, c) \/ Pread(Child, c)
  PROVE  ScriptPlaces'
<1>1. /\ outcome[Child] = "running" /\ running[c] = Child /\ c \in affinity[Child]
      /\ affinity'[Test] = affinity[Test]
      /\ online' = online /\ otherBits' = otherBits
  BY TypedScript DEF Pin, GetFlag, SetOwnFlag, SchedGetcpu, Pread, Calls, MayRun,
     machineVars, ScriptInv, TypeOK
<1>2. /\ c = CpuInitial /\ flag[Child] /\ otherBits = {}
      /\ at[Test] \in 10..17
  BY <1>1, TypedScript DEF ScriptInv, TestPlace, ChildPlace
<1>3. ~Pin(Child, c) /\ ~SetOwnFlag(Child, c)
  BY TypedScript, ChildCalls DEF Pin, SetOwnFlag, Calls
<1>4. flag' = flag /\ affinity' = affinity
  BY <1>3 DEF GetFlag, SchedGetcpu, Pread, vars
<1>5. Target' = Target
  BY <1>1 DEF Target
<1>6. ASSUME Advance(Child),
             cpu'[Test] = cpu[Test],
             at[Child] \in {1, 3} => cpu'[Child] = cpu[Child],
             at[Child] = 2 => cpu'[Child] = CpuInitial,
             observed \subseteq observed',
             at[Child] = 3 => <<Child, CoreOf[CpuInitial], PfBits>> \in observed',
             outcome[Test] = "failed" => company'[Test] = company[Test]
      PROVE  ScriptPlaces'
  <2>1. /\ at'[Test] = at[Test] /\ outcome'[Test] = outcome[Test]
        /\ at[Child] \in 1..2 => at'[Child] = at[Child] + 1 /\ outcome'[Child] = "running"
        /\ at[Child] = 3 => at'[Child] = 3 /\ outcome'[Child] = "passed"
    BY <1>1, <1>6, TypedScript, ChildAdvances DEF ScriptInv
  <2>2. at[Child] = 1 \/ at[Child] = 2 \/ at[Child] = 3
    BY TypedScript
  <2>3. TestPlace'
    BY <1>1, <1>4, <1>5, <1>6, <2>1 DEF ScriptInv, TestPlace
  <2>4. ChildPlace'
    BY <1>1, <1>2, <1>4, <1>6, <2>1, <2>2 DEF ScriptInv, ChildPlace
  <2>5. Call(Test)' = Call(Test)
    BY <2>1 DEF Call
  <2>6. QED
    BY <1>1, <1>4, <1>6, <2>1, <2>2, <2>3, <2>4, <2>5 DEF ScriptInv, FailuresExplained, ScriptPlaces
<1>7. CASE GetFlag(Child, c)
  <2>1. at[Child] = 1 /\ Call(Child).arg = TRUE
    BY <1>7, TypedScript, ChildCalls DEF GetFlag, Calls
  <2>2. flag[Child] = Call(Child).arg
    BY <1>2, <2>1, TypedScript
  <2>3. Advance(Child)
    BY <1>7, <2>2, Zenon DEF GetFlag, Expect
  <2>4. cpu' = cpu /\ observed' = observed /\ company' = company
    BY <1>7 DEF GetFlag, histVars
  <2>5. QED
    BY <1>6, <2>1, <2>3, <2>4
<1>8. CASE SchedGetcpu(Child, c)
  <2>1. at[Child] = 2
    BY <1>8, TypedScript, ChildCalls DEF SchedGetcpu, Calls
  <2>2. cpu'[Child] = c /\ cpu'[Test] = cpu[Test]
    BY <1>8, TypedScript DEF SchedGetcpu, ScriptInv, TypeOK
  <2>3. Advance(Child) /\ observed' = observed /\ company' = company
    BY <1>8 DEF SchedGetcpu, histVars
  <2>4. QED
    BY <1>2, <1>6, <2>1, <2>2, <2>3
<1>9. CASE Pread(Child, c)
  <2>1. at[Child] = 3 /\ Call(Child).arg = PfBits
    BY <1>9, TypedScript, ChildCalls DEF Pread, Calls
  <2>2. cpu[Child] = c
    BY <1>2, <2>1 DEF ScriptInv, ChildPlace
  <2>3. Word(CoreOf[c]) = Call(Child).arg
    <3>1. disabled[CoreOf[c]] = PfBits
      BY <1>1, <1>2, OwnCore DEF ScriptInv
    <3>2. QED
      BY <1>2, <2>1, <3>1 DEF Word
  <2>4. Advance(Child)
    BY <1>9, <2>2, <2>3, Zenon DEF Pread, Expect
  <2>5. /\ cpu' = cpu
        /\ observed' = observed \cup {<<Child, CoreOf[c], PfBits>>}
    BY <1>9, <2>1, <2>2, <2>3 DEF Pread
  <2>6. company'[Test] = company[Test]
    BY <1>9, TypedScript DEF Pread, ScriptInv, TypeOK
  <2>7. QED
    BY <1>2, <1>6, <2>1, <2>4, <2>5, <2>6
<1>10. QED
  BY <1>3, <1>7, <1>8, <1>9

LEMMA KillPlaces ==
  ASSUME ScriptInv, KillChild
  PROVE  ScriptPlaces'
<1>1. /\ flag' = flag /\ at' = at /\ cpu' = cpu /\ affinity' = affinity
      /\ online' = online /\ otherBits' = otherBits
      /\ observed' = observed /\ company' = company
  BY DEF KillChild, vars, machineVars, histVars
<1>2. /\ outcome[Child] = "running" /\ outcome'[Child] = "killed"
      /\ outcome'[Test] = outcome[Test]
  BY TypedScript DEF KillChild, ScriptInv, TypeOK
<1>3. Target' = Target /\ Call(Test)' = Call(Test)
  BY <1>1 DEF Target, Call
<1>4. TestPlace' /\ ChildPlace'
  BY <1>1, <1>2, <1>3 DEF ScriptInv, TestPlace, ChildPlace
<1>5. QED
  BY <1>1, <1>2, <1>3, <1>4 DEF ScriptInv, FailuresExplained, ScriptPlaces

(***************************************************************************)
(* The types, and the machine that the test does not change.               *)
(***************************************************************************)
LEMMA ScriptTypes ==
  ASSUME ScriptInv, PolicyKept, [TestNext]_allVars
  PROVE  TypeOK' /\ UNCHANGED machineVars
<1>0. /\ Test \in Processes /\ Child \in Processes
      /\ Len(TestScript) = 17
      /\ at \in [Processes -> 1..17]
      /\ outcome \in [Processes -> {"none", "running", "passed", "failed", "killed"}]
      /\ TypeOK
  BY TypedScript, TestSteps DEF ScriptInv, TypeOK
<1> DEFINE legalAt == at' \in [Processes -> 1..17]
           legalOutcome ==
             outcome' \in [Processes -> {"none", "running", "passed", "failed", "killed"}]
<1>1. CASE UNCHANGED allVars
  BY <1>0, <1>1 DEF allVars, vars, testVars, machineVars, histVars, TypeOK
<1>2. ASSUME NEW c \in Cpus, NEW t \in Tasks \cup {Idle}, Schedule(c, t)
      PROVE  TypeOK' /\ UNCHANGED machineVars
  <2>1. disabled' \in [Cores -> SUBSET PfBits] /\ running' \in [Cpus -> Tasks \cup {Idle}]
    BY <1>0, <1>2 DEF Schedule, Switch, Adjust, Demand, TypeOK
  <2>2. QED
    BY <1>0, <1>2, <2>1 DEF Schedule, Switch, testVars, machineVars, histVars, TypeOK
<1>3. ASSUME NEW c \in Cpus, NEW on \in BOOLEAN, SetFlag(c, on)
      PROVE  /\ disabled' \in [Cores -> SUBSET PfBits]
             /\ flag' \in [Tasks \cup {Idle} -> BOOLEAN]
             /\ running' \in [Cpus -> Tasks \cup {Idle}]
  BY <1>0, <1>3 DEF SetFlag, Adjust, Demand, TypeOK
<1>4. ASSUME NEW c \in Cpus, NEW on \in BOOLEAN, RivalStep(c, on)
      PROVE  TypeOK' /\ UNCHANGED machineVars
  BY <1>0, <1>3, <1>4 DEF RivalStep, testVars, machineVars, histVars, TypeOK
<1>5. CASE KillChild
  BY <1>0, <1>5 DEF KillChild, vars, machineVars, histVars, TypeOK
<1>6. ASSUME NEW p \in Processes, Advance(p)
      PROVE  legalAt /\ legalOutcome
  <2>1. CASE p = Test
    BY <1>0, <1>6, <2>1, TestAdvances
  <2>2. CASE p = Child
    BY <1>0, <1>6, <2>2, TypedScript, ChildAdvances
  <2>3. QED
    BY <2>1, <2>2 DEF Processes
<1>7. ASSUME NEW p \in Processes, NEW holds, Expect(p, holds)
      PROVE  legalAt /\ legalOutcome
  <2>1. CASE Advance(p)
    BY <1>6, <2>1
  <2>2. CASE outcome' = [outcome EXCEPT ![p] = "failed"] /\ at' = at
    BY <1>0, <2>2
  <2>3. QED
    BY <1>7, <2>1, <2>2, Zenon DEF Expect
<1> HIDE DEF legalAt, legalOutcome
<1>8. ASSUME NEW p \in Processes, NEW c \in Cpus, Pin(p, c)
      PROVE  TypeOK' /\ UNCHANGED machineVars
  <2>1. legalAt /\ legalOutcome
    BY <1>6, <1>8 DEF Pin
  <2>2. affinity' \in [Processes -> SUBSET online]
    BY <1>0, <1>8 DEF Pin, TypeOK
  <2>3. QED
    BY <1>0, <1>8, <2>1, <2>2 DEF Pin, vars, machineVars, histVars, TypeOK, legalAt, legalOutcome
<1>9. ASSUME NEW p \in Processes, NEW c \in Cpus, GetFlag(p, c)
      PROVE  TypeOK' /\ UNCHANGED machineVars
  <2>1. legalAt /\ legalOutcome
    BY <1>7, <1>9, Zenon DEF GetFlag
  <2>2. QED
    BY <1>0, <1>9, <2>1 DEF GetFlag, vars, machineVars, histVars, TypeOK, legalAt, legalOutcome
<1>10. ASSUME NEW p \in Processes, NEW c \in Cpus, SetOwnFlag(p, c)
       PROVE  TypeOK' /\ UNCHANGED machineVars
  <2>1. legalAt /\ legalOutcome
    BY <1>6, <1>10 DEF SetOwnFlag
  <2>2. Call(p).arg \in BOOLEAN
    BY <1>10, TypedScript, TestCalls, ChildCalls DEF SetOwnFlag, Calls, Processes
  <2>3. QED
    BY <1>0, <1>3, <1>10, <2>1, <2>2
       DEF SetOwnFlag, machineVars, histVars, TypeOK, legalAt, legalOutcome
<1>11. ASSUME NEW p \in Processes, NEW c \in Cpus, SchedGetcpu(p, c)
       PROVE  TypeOK' /\ UNCHANGED machineVars
  <2>1. legalAt /\ legalOutcome
    BY <1>6, <1>11 DEF SchedGetcpu
  <2>2. QED
    BY <1>0, <1>11, <2>1 DEF SchedGetcpu, vars, machineVars, histVars, TypeOK, legalAt, legalOutcome
<1>12. ASSUME NEW p \in Processes, NEW c \in Cpus, Pread(p, c)
       PROVE  TypeOK' /\ UNCHANGED machineVars
  <2> DEFINE k == CoreOf[cpu[p]]
  <2>1. legalAt /\ legalOutcome
    BY <1>7, <1>12, Zenon DEF Pread
  <2>2. k \in Cores /\ Word(k) \in SUBSET (PfBits \cup OtherBits)
    BY <1>0, TestAssumption DEF Word, TypeOK, ScriptInv
  <2>3. observed' \subseteq observed \cup {<<p, k, Word(k)>>}
    BY <1>12 DEF Pread
  <2>4. observed' \subseteq Processes \X Cores \X SUBSET (PfBits \cup OtherBits)
    BY <1>0, <2>2, <2>3 DEF TypeOK
  <2>5. company' \in [Processes -> BOOLEAN]
    BY <1>0, <1>12 DEF Pread, InCompany, TypeOK
  <2>6. QED
    BY <1>0, <1>12, <2>1, <2>4, <2>5 DEF Pread, vars, machineVars, TypeOK, legalAt, legalOutcome
<1>13. ASSUME NEW c \in Cpus, ForkChild(c)
       PROVE  TypeOK' /\ UNCHANGED machineVars
  <2>1. at[Test] = 9
    BY <1>13, TypedScript, TestCalls DEF ForkChild, Calls
  <2>2. flag' \in [Tasks \cup {Idle} -> BOOLEAN]
    BY <1>0, <1>13 DEF ForkChild, Fork, TypeOK
  <2>3. QED
    BY <1>0, <1>13, <2>1, <2>2 DEF ForkChild, Fork, machineVars, histVars, TypeOK
<1>14. ASSUME NEW c \in Cpus, ForkFails(c) \/ WaitChild(c)
       PROVE  TypeOK' /\ UNCHANGED machineVars
  <2>1. legalAt /\ legalOutcome
    BY <1>0, <1>7, <1>14, Zenon DEF ForkFails, WaitChild
  <2>2. QED
    BY <1>0, <1>14, <2>1 DEF ForkFails, WaitChild, vars, machineVars, histVars, TypeOK,
       legalAt, legalOutcome
<1>15. QED
  BY <1>1, <1>2, <1>4, <1>5, <1>8, <1>9, <1>10, <1>11, <1>12, <1>13, <1>14
     DEF TestNext, ProgramStep

(***************************************************************************)
(* The invariant, and what it says of a test that fails or passes.         *)
(***************************************************************************)
LEMMA ScriptInvStep ==
  ASSUME ScriptInv, PolicyKept, [TestNext]_allVars
  PROVE  ScriptInv' /\ PolicyKept'
<1>1. TypeOK' /\ online' = online /\ otherBits' = otherBits
  BY ScriptTypes DEF machineVars
<1>2. TypeOK /\ ScriptPlaces
  BY DEF ScriptInv, ScriptPlaces
<1> DEFINE legal == ScriptPlaces' /\ PolicyKept'
<1>3. CASE UNCHANGED allVars
  <2>1. ScriptPlaces'
    BY <1>2, <1>3, PlacesKept DEF allVars, vars
  <2>2. PolicyKept'
    BY <1>3 DEF allVars, vars, PolicyKept, Flagged
  <2>3. QED
    BY <1>1, <2>1, <2>2 DEF ScriptInv, ScriptPlaces
<1>4. ASSUME NEW c \in Cpus, NEW t \in Tasks \cup {Idle}, Schedule(c, t)
      PROVE  legal
  <2>1. ScriptPlaces'
    BY <1>2, <1>4, PlacesKept DEF Schedule, Switch
  <2>2. PolicyKept'
    BY <1>2, <1>4, PolicySwitch DEF Schedule
  <2>3. QED
    BY <2>1, <2>2
<1>5. ASSUME NEW c \in Cpus, NEW on \in BOOLEAN, RivalStep(c, on)
      PROVE  legal
  <2>1. flag'[Test] = flag[Test] /\ flag'[Child] = flag[Child]
    BY <1>2, <1>5, TestAssumption DEF RivalStep, SetFlag, Rivals, Processes, TypeOK
  <2>2. ScriptPlaces'
    BY <1>2, <1>5, <2>1, PlacesKept DEF RivalStep
  <2>3. PolicyKept'
    BY <1>2, <1>5, PolicySetFlag DEF RivalStep
  <2>4. QED
    BY <2>2, <2>3
<1>6. ASSUME UNCHANGED vars
      PROVE  PolicyKept'
  BY <1>6 DEF vars, PolicyKept, Flagged
<1>7. CASE KillChild
  BY <1>1, <1>6, <1>7, KillPlaces DEF KillChild, ScriptInv, ScriptPlaces
<1>8. ASSUME NEW p \in Processes, NEW c \in Cpus,
             \/ Pin(p, c) \/ GetFlag(p, c) \/ SetOwnFlag(p, c)
             \/ SchedGetcpu(p, c) \/ Pread(p, c)
      PROVE  legal
  <2>1. ScriptPlaces'
    <3>1. CASE p = Test
      BY <1>8, <3>1, PinPlaces, GetPlaces, SetPlaces, GetcpuPlaces, PreadPlaces
    <3>2. CASE p = Child
      BY <1>8, <3>2, ChildPlaces
    <3>3. QED
      BY <3>1, <3>2 DEF Processes
  <2>2. PolicyKept'
    <3>1. CASE SetOwnFlag(p, c)
      <4>1. Call(p).arg \in BOOLEAN
        BY <3>1, TypedScript, TestCalls, ChildCalls DEF SetOwnFlag, Calls, Processes
      <4>2. QED
        BY <1>2, <3>1, <4>1, PolicySetFlag DEF SetOwnFlag
    <3>2. CASE Pin(p, c) \/ GetFlag(p, c) \/ SchedGetcpu(p, c) \/ Pread(p, c)
      BY <1>6, <3>2 DEF Pin, GetFlag, SchedGetcpu, Pread
    <3>3. QED
      BY <1>8, <3>1, <3>2
  <2>3. QED
    BY <2>1, <2>2
<1>9. ASSUME NEW c \in Cpus, ForkChild(c)
      PROVE  legal
  BY <1>2, <1>9, ForkPlaces, PolicyFork DEF ForkChild
<1>10. ASSUME NEW c \in Cpus, ForkFails(c) \/ WaitChild(c)
       PROVE  legal
  BY <1>6, <1>10, ForkFailsPlaces, WaitPlaces DEF ForkFails, WaitChild
<1> HIDE DEF legal
<1>11. CASE TestNext
  <2>1. legal \/ KillChild
    BY <1>4, <1>5, <1>8, <1>9, <1>10, <1>11 DEF TestNext, ProgramStep
  <2>2. QED
    BY <1>1, <1>7, <2>1 DEF ScriptInv, ScriptPlaces, legal
<1>12. QED
  BY <1>3, <1>11

THEOREM ScriptSafety == TestSpec => [](ScriptInv /\ PolicyKept)
<1>1. TestInit => ScriptInv /\ PolicyKept
  <2> SUFFICES ASSUME TestInit PROVE ScriptInv /\ PolicyKept
    OBVIOUS
  <2>1. /\ at[Test] = 1 /\ at[Child] = 1
        /\ outcome[Test] = "running" /\ outcome[Child] = "none"
    BY TestAssumption DEF TestInit, Processes
  <2>2. TypeOK
    BY TestAssumption, TestSteps DEF TestInit, TypeOK
  <2>3. \A k \in Cores : ~Flagged(k)
    BY DEF TestInit, Flagged
  <2>4. PolicyKept
    BY <2>3 DEF TestInit, PolicyKept
  <2>5. TestPlace /\ ChildPlace /\ FailuresExplained
    BY <2>1 DEF TestPlace, ChildPlace, FailuresExplained
  <2>6. QED
    BY <2>2, <2>4, <2>5 DEF TestInit, ScriptInv
<1>2. ScriptInv /\ PolicyKept /\ [TestNext]_allVars => (ScriptInv /\ PolicyKept)'
  BY ScriptInvStep
<1>3. QED
  BY <1>1, <1>2, PTL DEF TestSpec

(***************************************************************************)
(* On a kernel that keeps the policy, the test raises no false alarm: its  *)
(* comparisons fail for the three causes of FailuresExplained only.        *)
(***************************************************************************)
THEOREM AlarmsExplained == TestSpec => []FailuresExplained
<1>1. ScriptInv => FailuresExplained
  BY DEF ScriptInv
<1>2. QED
  BY <1>1, ScriptSafety, PTL

(***************************************************************************)
(* A test that passes has seen the prefetchers on and off where its README *)
(* says.                                                                   *)
(***************************************************************************)
THEOREM PassesVerified == TestSpec => []PassMeansVerified
<1>1. ScriptInv => PassMeansVerified
  <2> SUFFICES ASSUME ScriptInv, outcome[Test] = "passed"
               PROVE  PassMeansVerified
    BY DEF PassMeansVerified
  <2>1. /\ at[Test] = 17
        /\ <<Test, CoreOf[CpuInitial], {}>> \in observed
        /\ <<Test, CoreOf[CpuInitial], PfBits>> \in observed
        /\ <<Test, CoreOf[Target], PfBits>> \in observed
        /\ <<Test, CoreOf[Target], {}>> \in observed
    BY DEF ScriptInv, TestPlace
  <2>2. <<Child, CoreOf[CpuInitial], PfBits>> \in observed \/ outcome[Child] = "killed"
    BY <2>1 DEF ScriptInv, ChildPlace
  <2>3. CoreOf[Target] = IF CpuMigration \in online THEN CoreOf[CpuMigration]
                         ELSE CoreOf[CpuInitial]
    BY DEF Target
  <2>4. QED
    BY <2>1, <2>2, <2>3 DEF PassMeansVerified
<1>2. QED
  BY <1>1, ScriptSafety, PTL

-----------------------------------------------------------------------------
(* The lighttpd benchmark.                                                 *)

\* The results of a round may be written, and its server killed, only if there
\* is a round.
LEMMA RoundsExist == Len(Rounds) \in Nat \ {0}
  BY BenchmarkAssumption

\* The idle scripts have nothing in hand.
LEMMA BenchmarkInitInv == BenchmarkInit => BenchmarkInv
<1>1. SUFFICES ASSUME BenchmarkInit PROVE BenchmarkInv
  OBVIOUS
<1>2. BenchmarkTypeOK
  <2>1. server \in [Servers -> {"none", "starting", "serving", "dying", "gone"}]
    BY <1>1 DEF BenchmarkInit
  <2>2. QED
    BY <1>1, <2>1, RoundsExist, BenchmarkAssumption DEF BenchmarkInit, BenchmarkTypeOK
<1>3. OthersNeverServe
  BY <1>1 DEF BenchmarkInit, OthersNeverServe
<1>4. QED
  BY <1>1, <1>2, <1>3 DEF BenchmarkInit, BenchmarkInv, FileChosen, TimesAreMine, Measuring,
     MeasuredHasStarted, HasMeasured, ResultsAsNamed

-----------------------------------------------------------------------------
(* Types.                                                                  *)

LEMMA BenchmarkTypeStep ==
  BenchmarkInv /\ [BenchmarkNext]_benchmarkVars => BenchmarkTypeOK'
<1>1. SUFFICES ASSUME BenchmarkInv, [BenchmarkNext]_benchmarkVars
               PROVE  BenchmarkTypeOK'
  OBVIOUS
<1> USE RoundsExist, BenchmarkAssumption, <1>1 DEF BenchmarkInv, BenchmarkTypeOK
<1>2. CASE StartSession
  BY <1>2 DEF StartSession, clientVars
<1>3. CASE StartRound
  <2>1. server' \in [Servers -> {"none", "starting", "serving", "dying", "gone"}]
    BY <1>3 DEF StartRound
  <2>2. QED
    BY <1>3, <2>1 DEF StartRound
<1>4. ASSUME Abort PROVE
        /\ shell' = "idle" /\ step' = "next" /\ file' \in Files \cup {NoFile}
        /\ todo' \in SUBSET Files /\ left' \in 0..Total /\ times' \in SUBSET Entries
        /\ session' = session /\ round' = round /\ clean' = clean
  BY <1>4 DEF Abort
<1>5. CASE KillAll
  <2>1. server' \in [Servers -> {"none", "starting", "serving", "dying", "gone"}]
    BY <1>5 DEF KillAll
  <2>2. CASE Abort
    BY <1>5, <1>4, <2>1, <2>2 DEF KillAll
  <2>3. CASE NextRound
    BY <1>5, <2>1, <2>3 DEF KillAll, NextRound, clientVars
  <2>4. QED
    BY <1>5, <2>2, <2>3 DEF KillAll
<1>6. ASSUME LeaveRequest PROVE late' \in SUBSET Requests
  <2>1. CASE Requesting /\ late' = late \cup {Request}
    <3>1. file \in Files
      BY <2>1 DEF Requesting, ClientRuns, FileChosen
    <3>2. Request \in Requests
      BY <3>1 DEF Request, Requests
    <3>3. QED
      BY <2>1, <3>2
  <2>2. QED
    BY <1>6, <2>1 DEF LeaveRequest
<1>7. CASE Interrupt
  BY <1>7, <1>4, <1>6 DEF Interrupt
<1>8. ASSUME NEW r \in late, ServeLate(r) PROVE BenchmarkTypeOK'
  <2>1. r \in Requests
    OBVIOUS
  <2>2. r.file \in Files
    BY <2>1 DEF Requests
  <2>3. uploads' \in SUBSET Files /\ late' \in SUBSET Requests
    BY <1>8, <2>2 DEF ServeLate
  <2>4. kept' \in SUBSET Files
    BY <1>8, <2>3 DEF ServeLate
  <2>5. QED
    BY <1>8, <2>3, <2>4 DEF ServeLate, shellVars, clientVars
<1>9. ASSUME NEW p \in Servers, Bind(p) \/ EndServer(p) PROVE BenchmarkTypeOK'
  BY <1>9 DEF Bind, EndServer, ServerTo, shellVars, clientVars
<1>10. CASE NextFile
  BY <1>10 DEF NextFile, ClientRuns, To, shellVars
<1>11. CASE WriteResults
  <2>1. results' \in SUBSET [round : 1..Len(Rounds), clean : BOOLEAN, times : SUBSET Entries]
    BY <1>11 DEF WriteResults
  <2>2. QED
    BY <1>11, <2>1 DEF WriteResults, clientVars
<1>12. ASSUME Remove \/ StoreFile, file \in Files
       PROVE  uploads' \in SUBSET Files /\ kept' \in SUBSET Files
  BY <1>12 DEF Remove, StoreFile
<1>13. ASSUME ClientRuns("before") \/ ClientRuns("post") \/ ClientRuns("after")
       PROVE  file \in Files
  BY <1>13 DEF ClientRuns, FileChosen
<1>14. CASE Removed
  BY <1>14, <1>12, <1>13 DEF Removed, To, shellVars
<1>15. CASE UploadAnswered
  <2>1. PICK p \in In({"serving"}) :
          /\ StoreFile
          /\ IF uploads' # uploads
             THEN times' = times \cup {Entry(p, TRUE)} /\ To("after")
             ELSE times' = times /\ To(IF file \in uploads THEN "refused" ELSE "failed")
    BY <1>15 DEF UploadAnswered
  <2>2. file \in Files /\ p \in Servers
    BY <1>15, <1>13 DEF UploadAnswered, In
  <2>3. Entry(p, TRUE) \in Entries
    BY <2>2 DEF Entry, Entries
  <2>4. times' \in SUBSET Entries
    BY <2>1, <2>3
  <2>5. step' \in {"next", "before", "post", "after", "refused", "failed"} /\ left' = Total
    BY <2>1 DEF To
  <2>6. QED
    BY <1>15, <1>12, <2>1, <2>2, <2>4, <2>5 DEF UploadAnswered, shellVars
<1>16. CASE ExitFailure
  BY <1>16, <1>4 DEF ExitFailure
<1>17. ASSUME TryAgain \/ Abort
       PROVE  /\ shell' \in {"idle", "round", "client", "killall"}
              /\ step' \in {"next", "before", "post", "after", "refused", "failed"}
              /\ file' \in Files \cup {NoFile}
              /\ todo' \in SUBSET Files /\ left' \in 0..Total /\ times' \in SUBSET Entries
              /\ session' = session /\ round' = round /\ clean' = clean
  BY <1>17, <1>4 DEF TryAgain, shellVars
<1>18. CASE NotConnected
  BY <1>18, <1>17 DEF NotConnected
<1>19. CASE ConnectionBreaks
  BY <1>19, <1>17, <1>6 DEF ConnectionBreaks
<1>20. CASE UNCHANGED benchmarkVars
  BY <1>20 DEF benchmarkVars, shellVars, clientVars
<1>21. QED
  BY <1>1, <1>2, <1>3, <1>5, <1>7, <1>8, <1>9, <1>10, <1>11, <1>14, <1>15, <1>16,
     <1>18, <1>19, <1>20 DEF BenchmarkNext, ShellStep, OwnStep, ClientStep, BenchmarkOver

-----------------------------------------------------------------------------
(* The parts of the invariant.                                             *)

\* The steps of the client choose no other round and start or stop no server.
LEMMA ClientStepLocal ==
  ClientStep =>
    /\ session' = session /\ round' = round /\ clean' = clean /\ server' = server
    /\ shell = "client" /\ shell' \in {"client", "killall", "idle"}
<1>1. Abort => shell' = "idle" /\ session' = session /\ round' = round /\ clean' = clean
  BY DEF Abort
<1>2. TryAgain => /\ shell' \in {shell, "idle"}
                  /\ session' = session /\ round' = round /\ clean' = clean
  BY <1>1 DEF TryAgain, shellVars
<1>3. QED
  BY <1>1, <1>2 DEF ClientStep, OwnStep, NextFile, WriteResults, Removed, UploadAnswered, ExitFailure,
     NotConnected, ConnectionBreaks, ClientRuns, Requesting, shellVars

\* A request is made for one of the files.
LEMMA FileChosenStep ==
  BenchmarkInv /\ [BenchmarkNext]_benchmarkVars => FileChosen'
<1>1. SUFFICES ASSUME BenchmarkInv, [BenchmarkNext]_benchmarkVars PROVE FileChosen'
  OBVIOUS
<1> USE <1>1 DEF BenchmarkInv, FileChosen
<1>2. Abort => FileChosen'
  BY DEF Abort
<1>3. CASE StartSession \/ StartRound
  BY <1>3 DEF StartSession, StartRound
<1>4. CASE KillAll
  BY <1>4, <1>2 DEF KillAll, NextRound
<1>5. CASE Interrupt \/ ExitFailure
  BY <1>5, <1>2 DEF Interrupt, ExitFailure
<1>6. ASSUME NEW p \in Servers, Bind(p) \/ EndServer(p) PROVE FileChosen'
  BY <1>6 DEF Bind, EndServer, ServerTo, shellVars, clientVars
<1>7. CASE NextFile
  BY <1>7 DEF NextFile, ClientRuns, To, BenchmarkTypeOK
<1>8. CASE WriteResults
  BY <1>8 DEF WriteResults
<1>9. CASE Removed
  BY <1>9 DEF Removed, ClientRuns, To
<1>10. CASE UploadAnswered
  BY <1>10 DEF UploadAnswered, ClientRuns, To
<1>11. TryAgain => FileChosen'
  BY <1>2 DEF TryAgain, shellVars
<1>12. CASE NotConnected \/ ConnectionBreaks
  BY <1>12, <1>2, <1>11 DEF NotConnected, ConnectionBreaks
<1>13. ASSUME NEW r \in late, ServeLate(r) PROVE FileChosen'
  BY <1>13 DEF ServeLate, shellVars, clientVars
<1>14. CASE UNCHANGED benchmarkVars
  BY <1>14 DEF benchmarkVars, shellVars, clientVars
<1>15. QED
  BY <1>1, <1>3, <1>4, <1>5, <1>6, <1>7, <1>8, <1>9, <1>10, <1>12, <1>13, <1>14
     DEF BenchmarkNext, ShellStep, OwnStep, ClientStep, BenchmarkOver

\* Of the other rounds' servers none starts or serves: killall finds the server
\* of the round, as the client has been answered by it.
LEMMA OthersNeverServeStep ==
  BenchmarkInv /\ [BenchmarkNext]_benchmarkVars => OthersNeverServe'
<1>1. SUFFICES ASSUME BenchmarkInv, [BenchmarkNext]_benchmarkVars PROVE OthersNeverServe'
  OBVIOUS
<1> USE <1>1 DEF BenchmarkInv
<1>2. CASE StartSession
  BY <1>2 DEF StartSession, OthersNeverServe, Alive, In
<1>3. CASE StartRound
  BY <1>3 DEF StartRound, OthersNeverServe, Mine, BenchmarkTypeOK
<1>4. CASE KillAll
  <2>1. SUFFICES ASSUME clean', Files # {}, NEW p \in Servers \ {Mine'}
                 PROVE  server'[p] \notin {"starting", "serving"}
    BY DEF OthersNeverServe
  <2>2. clean /\ shell = "killall"
    BY <1>4, <2>1 DEF KillAll, NextRound, Abort
  <2>3. server[Mine] # "starting"
    BY <2>1, <2>2 DEF HasMeasured, MeasuredHasStarted, Measuring
  <2>4. server[p] # "starting"
    BY <2>1, <2>2, <2>3 DEF OthersNeverServe
  <2>5. server'[p] = "serving" => server[p] = "serving" /\ p \notin PortHolders
    BY <1>4, <2>1 DEF KillAll
  <2>6. server'[p] # "serving"
    BY <2>1, <2>5 DEF PortHolders, In
  <2>7. server'[p] # "starting"
    BY <1>4, <2>1, <2>4 DEF KillAll
  <2>8. QED
    BY <2>6, <2>7
<1>5. CASE Interrupt
  BY <1>5 DEF Interrupt, Abort, OthersNeverServe, Mine
<1>6. ASSUME NEW p \in Servers, Bind(p) \/ EndServer(p) PROVE OthersNeverServe'
  BY <1>6 DEF Bind, EndServer, ServerTo, OthersNeverServe, Mine, shellVars, BenchmarkTypeOK
<1>7. CASE ClientStep
  BY <1>7, ClientStepLocal DEF OthersNeverServe, Mine
<1>8. ASSUME NEW r \in late, ServeLate(r) PROVE OthersNeverServe'
  BY <1>8 DEF ServeLate, OthersNeverServe, Mine, shellVars
<1>9. CASE UNCHANGED benchmarkVars
  BY <1>9 DEF benchmarkVars, shellVars, OthersNeverServe, Mine
<1>10. QED
  BY <1>1, <1>2, <1>3, <1>4, <1>5, <1>6, <1>7, <1>8, <1>9
     DEF BenchmarkNext, ShellStep, BenchmarkOver

\* An answer to the client comes from the round's own server.
LEMMA TimesAreMineStep ==
  BenchmarkInv /\ [BenchmarkNext]_benchmarkVars => TimesAreMine' /\ MeasuredHasStarted'
<1>1. SUFFICES ASSUME BenchmarkInv, [BenchmarkNext]_benchmarkVars
               PROVE  TimesAreMine' /\ MeasuredHasStarted'
  OBVIOUS
<1> USE <1>1 DEF BenchmarkInv, TimesAreMine, MeasuredHasStarted, Measuring
<1>2. CASE StartSession
  BY <1>2 DEF StartSession
<1>3. CASE StartRound
  BY <1>3 DEF StartRound
<1>4. Abort => TimesAreMine' /\ MeasuredHasStarted'
  BY DEF Abort
<1>5. CASE KillAll
  BY <1>5, <1>4 DEF KillAll, NextRound
<1>6. CASE Interrupt \/ ExitFailure
  BY <1>6, <1>4 DEF Interrupt, ExitFailure
<1>7. ASSUME NEW p \in Servers, Bind(p) \/ EndServer(p)
      PROVE  TimesAreMine' /\ MeasuredHasStarted'
  <2>1. UNCHANGED <<shell, session, round, clean, times>>
    BY <1>7 DEF Bind, EndServer, ServerTo, shellVars, clientVars
  <2>2. ASSUME clean, Measuring, times # {} PROVE Mine \in Servers
    BY <2>2 DEF BenchmarkTypeOK, Entries, Mine
  <2>3. \A q \in Servers : server'[q] = "starting" => server[q] = "starting"
    BY <1>7 DEF Bind, EndServer, ServerTo, BenchmarkTypeOK
  <2>4. QED
    BY <2>1, <2>2, <2>3 DEF Mine
<1>8. UNCHANGED <<shell, session, round, clean, server, times>> =>
        TimesAreMine' /\ MeasuredHasStarted'
  BY DEF Mine
<1>9. CASE NextFile \/ Removed
  BY <1>9, <1>8, ClientStepLocal DEF NextFile, Removed, OwnStep, ClientStep, shellVars
<1>10. CASE WriteResults
  BY <1>10 DEF WriteResults, clientVars, ClientRuns, Mine
<1>11. CASE UploadAnswered
  <2>1. PICK p \in In({"serving"}) :
          times' = times \cup {Entry(p, TRUE)} \/ times' = times
    BY <1>11 DEF UploadAnswered
  <2>2. UNCHANGED <<shell, session, round, clean, server>> /\ shell = "client" /\ file \in Files
    BY <1>11 DEF UploadAnswered, shellVars, ClientRuns, FileChosen
  <2>3. clean => p = Mine /\ server[Mine] = "serving"
    BY <2>1, <2>2 DEF OthersNeverServe, In
  <2>4. QED
    BY <2>1, <2>2, <2>3 DEF Entry, Mine
<1>12. TryAgain => (TimesAreMine' /\ MeasuredHasStarted') \/ server' # server
  BY <1>4, <1>8 DEF TryAgain, shellVars
<1>13. CASE NotConnected \/ ConnectionBreaks
  BY <1>13, <1>4, <1>12 DEF NotConnected, ConnectionBreaks
<1>14. ASSUME NEW r \in late, ServeLate(r) PROVE TimesAreMine' /\ MeasuredHasStarted'
  BY <1>14, <1>8 DEF ServeLate, shellVars, clientVars
<1>15. CASE UNCHANGED benchmarkVars
  BY <1>15, <1>8 DEF benchmarkVars, shellVars, clientVars
<1>16. QED
  BY <1>1, <1>2, <1>3, <1>5, <1>6, <1>7, <1>9, <1>10, <1>11, <1>13, <1>14, <1>15
     DEF BenchmarkNext, ShellStep, OwnStep, ClientStep, BenchmarkOver

\* A client that has uploaded a file has a time.
LEMMA HasMeasuredStep ==
  BenchmarkInv /\ [BenchmarkNext]_benchmarkVars => HasMeasured'
<1>1. SUFFICES ASSUME BenchmarkInv, [BenchmarkNext]_benchmarkVars PROVE HasMeasured'
  OBVIOUS
<1> USE <1>1 DEF BenchmarkInv, HasMeasured
<1>2. CASE StartSession \/ StartRound
  BY <1>2 DEF StartSession, StartRound
<1>3. Abort => HasMeasured'
  BY DEF Abort
<1>4. CASE KillAll
  BY <1>4, <1>3 DEF KillAll, NextRound
<1>5. CASE Interrupt \/ ExitFailure
  BY <1>5, <1>3 DEF Interrupt, ExitFailure
<1>6. ASSUME NEW p \in Servers, Bind(p) \/ EndServer(p) PROVE HasMeasured'
  BY <1>6 DEF Bind, EndServer, ServerTo, shellVars, clientVars
<1>7. CASE NextFile
  BY <1>7 DEF NextFile, ClientRuns, To, shellVars
<1>8. CASE WriteResults
  BY <1>8 DEF WriteResults, ClientRuns, clientVars
<1>9. CASE Removed
  BY <1>9 DEF Removed, ClientRuns, To, shellVars
<1>10. CASE UploadAnswered
  <2>1. PICK p \in In({"serving"}) :
          \/ times' = times \cup {Entry(p, TRUE)} /\ step' = "after"
          \/ step' \in {"refused", "failed"}
    BY <1>10 DEF UploadAnswered, To
  <2>2. QED
    BY <1>10, <2>1 DEF UploadAnswered, ClientRuns, shellVars
<1>11. TryAgain => HasMeasured'
  BY <1>3 DEF TryAgain, shellVars
<1>12. CASE NotConnected \/ ConnectionBreaks
  BY <1>12, <1>3, <1>11 DEF NotConnected, ConnectionBreaks
<1>13. ASSUME NEW r \in late, ServeLate(r) PROVE HasMeasured'
  BY <1>13 DEF ServeLate, shellVars, clientVars
<1>14. CASE UNCHANGED benchmarkVars
  BY <1>14 DEF benchmarkVars, shellVars, clientVars
<1>15. QED
  BY <1>1, <1>2, <1>4, <1>5, <1>6, <1>7, <1>8, <1>9, <1>10, <1>12, <1>13, <1>14
     DEF BenchmarkNext, ShellStep, OwnStep, ClientStep, BenchmarkOver

\* Results are written in one place, with the times of the round.
LEMMA ResultsAsNamedStep ==
  BenchmarkInv /\ [BenchmarkNext]_benchmarkVars => ResultsAsNamed'
<1>1. SUFFICES ASSUME BenchmarkInv, [BenchmarkNext]_benchmarkVars PROVE ResultsAsNamed'
  OBVIOUS
<1> USE <1>1 DEF BenchmarkInv
<1>2. CASE WriteResults
  <2>1. SUFFICES ASSUME NEW res \in results', res.clean, NEW t \in res.times
                 PROVE  ConfigOf(t.server) = Rounds[res.round]
    BY DEF ResultsAsNamed, ConfigOf
  <2>2. CASE res \in results
    BY <2>1, <2>2 DEF ResultsAsNamed
  <2>3. CASE res = [round |-> round, clean |-> clean, times |-> times]
    <3>1. clean /\ Measuring /\ t \in times
      BY <1>2, <2>1, <2>3 DEF WriteResults, ClientRuns, Measuring
    <3>2. t.server = <<session, round>>
      BY <3>1 DEF TimesAreMine, Mine
    <3>3. QED
      BY <2>3, <3>2 DEF ConfigOf
  <2>4. QED
    BY <1>2, <2>1, <2>2, <2>3 DEF WriteResults
<1>3. ASSUME results' = results PROVE ResultsAsNamed'
  BY <1>3 DEF ResultsAsNamed, ConfigOf
<1>4. CASE ~WriteResults
  BY <1>1, <1>3, <1>4 DEF BenchmarkNext, ShellStep, OwnStep, ClientStep, StartSession, StartRound, KillAll,
     Interrupt, Bind, EndServer, ServerTo, NextFile, Removed, UploadAnswered, ExitFailure,
     NotConnected, ConnectionBreaks, ServeLate, BenchmarkOver, benchmarkVars
<1>5. QED
  BY <1>2, <1>4

-----------------------------------------------------------------------------
(* The theorems.                                                           *)

\* The inductive invariant holds: in a clean session, servers of other rounds
\* never serve, and so the client has times of the round's own server only.
THEOREM BenchmarkSafety == BenchmarkSpec => []BenchmarkInv
<1>1. BenchmarkInv /\ [BenchmarkNext]_benchmarkVars => BenchmarkInv'
  BY BenchmarkTypeStep, FileChosenStep, OthersNeverServeStep, TimesAreMineStep, HasMeasuredStep,
     ResultsAsNamedStep DEF BenchmarkInv
<1>2. QED
  BY BenchmarkInitInv, <1>1, PTL DEF BenchmarkSpec

\* Whatever servers, connections and the person at the keyboard do, each time in
\* a results file of a clean session is one of the configuration that the file
\* is named for.
THEOREM ResultsNamedRight == BenchmarkSpec => []ResultsAsNamed
<1>1. BenchmarkInv => ResultsAsNamed
  BY DEF BenchmarkInv
<1>2. QED
  BY BenchmarkSafety, <1>1, PTL

-----------------------------------------------------------------------------
(* Files on the server, and files with a time.                             *)

\* Steps that leave the client no work in hand, or the same.
LEMMA HandsEmptyOrSame ==
  ASSUME BenchmarkInv, UploadsInHand, TimesComplete, results' = results,
         \/ shell' \in {"idle", "round"}
         \/ UNCHANGED <<shell, step, file, todo, times, uploads, kept>>
  PROVE  UploadsInHand' /\ TimesComplete'
BY DEF UploadsInHand, TimesComplete, OnlyKeptFilesStay, ResultsComplete, Timed

\* A request that is tried again finds the files as they were.
LEMMA TryAgainKeepsHands ==
  ASSUME BenchmarkInv, UploadsInHand, TimesComplete, results' = results,
         TryAgain \/ Abort, UNCHANGED <<uploads, kept>>
  PROVE  UploadsInHand' /\ TimesComplete'
BY HandsEmptyOrSame DEF TryAgain, Abort, shellVars

\* What is late of a session that goes on is a removal.
LEMMA OwnRemovalsStep ==
  BenchmarkInv /\ OwnRemovals /\ [BenchmarkNext]_benchmarkVars => OwnRemovals'
<1>1. SUFFICES ASSUME BenchmarkInv, OwnRemovals, [BenchmarkNext]_benchmarkVars
               PROVE  OwnRemovals'
  OBVIOUS
<1> USE <1>1
<1>2. session \in Nat /\ \A r \in late : r.session \in Nat
  BY BenchmarkAssumption DEF BenchmarkInv, BenchmarkTypeOK, Requests
<1>3. ASSUME late' \in SUBSET late, session' = session, shell' = "idle" \/ shell # "idle"
      PROVE  OwnRemovals'
  BY <1>3 DEF OwnRemovals
<1>4. ASSUME LeaveRequest, session' = session, shell # "idle",
             shell' = "idle" \/ step # "post"
      PROVE  OwnRemovals'
  <2>1. CASE late' = late
    BY <1>3, <1>4, <2>1
  <2>2. CASE late' = late \cup {Request}
    BY <1>2, <1>4, <2>2 DEF OwnRemovals, Request
  <2>3. QED
    BY <1>4, <2>1, <2>2 DEF LeaveRequest
<1>5. CASE StartSession
  BY <1>2, <1>5 DEF StartSession, OwnRemovals
<1>6. CASE Interrupt
  BY <1>4, <1>6 DEF Interrupt, Abort
<1>7. CASE ConnectionBreaks
  <2>1. shell # "idle" /\ LeaveRequest /\ session' = session
    BY <1>7, ClientStepLocal DEF ConnectionBreaks, ClientStep
  <2>2. shell' = "idle" \/ step # "post"
    BY <1>7 DEF ConnectionBreaks, Abort
  <2>3. QED
    BY <1>4, <2>1, <2>2
<1>8. ASSUME NEW r \in late, ServeLate(r) PROVE OwnRemovals'
  <2>1. late' \in SUBSET late /\ UNCHANGED <<shell, session>>
    BY <1>8 DEF ServeLate, shellVars
  <2>2. QED
    BY <2>1 DEF OwnRemovals
<1>9. CASE ShellStep
  BY <1>3, <1>9 DEF ShellStep, StartRound, KillAll, NextRound, Abort
<1>10. CASE ClientStep /\ ~ConnectionBreaks
  <2>1. late' = late
    BY <1>10 DEF ClientStep, OwnStep, NextFile, WriteResults, Removed, UploadAnswered,
       ExitFailure, NotConnected
  <2>2. shell # "idle" /\ session' = session
    BY <1>10, ClientStepLocal
  <2>3. QED
    BY <1>3, <2>1, <2>2
<1>11. ASSUME UNCHANGED <<late, shell, session>> PROVE OwnRemovals'
  BY <1>11 DEF OwnRemovals
<1>12. ASSUME NEW p \in Servers, Bind(p) \/ EndServer(p) PROVE OwnRemovals'
  BY <1>11, <1>12 DEF Bind, EndServer, ServerTo, shellVars
<1>13. CASE UNCHANGED benchmarkVars
  BY <1>11, <1>13 DEF benchmarkVars, shellVars
<1>14. QED
  BY <1>5, <1>6, <1>7, <1>8, <1>9, <1>10, <1>12, <1>13 DEF BenchmarkNext, BenchmarkOver

\* A late request of another session may store a file, which is then kept.
LEMMA ServeLateKeepsHands ==
  ASSUME BenchmarkInv, OwnRemovals, UploadsInHand, TimesComplete,
         NEW r \in late, ServeLate(r)
  PROVE  UploadsInHand' /\ TimesComplete'
<1>1. UNCHANGED <<shell, session, step, file, todo, times, results>>
  BY DEF ServeLate, shellVars, clientVars
<1>2. CASE shell = "idle"
  BY <1>1, <1>2, HandsEmptyOrSame
<1>3. CASE shell # "idle"
  <2>1. uploads' \subseteq uploads \cup kept' /\ kept \subseteq kept'
    BY <1>3 DEF ServeLate, OwnRemovals
  <2>2. UploadsInHand'
    BY <1>1, <2>1 DEF UploadsInHand, OnlyKeptFilesStay
  <2>3. TimesComplete'
    BY <1>1 DEF TimesComplete, ResultsComplete, Timed
  <2>4. QED
    BY <2>2, <2>3
<1>4. QED
  BY <1>2, <1>3

\* The client goes from file to file.
LEMMA ClientKeepsHands ==
  ASSUME BenchmarkInv, UploadsInHand, TimesComplete,
         NextFile \/ WriteResults \/ Removed \/ UploadAnswered
  PROVE  UploadsInHand' /\ TimesComplete'
<1>1. CASE NextFile
  <2>1. PICK f \in todo : file' = f /\ todo' = todo \ {f}
    BY <1>1 DEF NextFile
  <2>2. /\ shell = "client" /\ step = "next" /\ shell' = "client" /\ step' = "before"
        /\ UNCHANGED <<uploads, times, results, kept>>
        /\ todo \subseteq Files
    BY <1>1 DEF NextFile, ClientRuns, To, shellVars, BenchmarkInv, BenchmarkTypeOK
  <2>3. Timed' = Timed
    BY <2>1, <2>2 DEF Timed
  <2>4. UploadsInHand'
    BY <2>1, <2>2 DEF UploadsInHand, OnlyKeptFilesStay
  <2>5. TimesComplete'
    BY <2>2, <2>3 DEF TimesComplete, ResultsComplete
  <2>6. QED
    BY <2>4, <2>5
<1>2. CASE WriteResults
  <2>1. /\ shell = "client" /\ step = "next" /\ shell' = "killall" /\ todo = {}
        /\ results' = results \cup {[round |-> round, clean |-> clean, times |-> times]}
        /\ UNCHANGED <<uploads, kept, step>>
    BY <1>2 DEF WriteResults, ClientRuns, clientVars
  <2>2. UploadsInHand'
    BY <2>1 DEF UploadsInHand, OnlyKeptFilesStay
  <2>3. Timed = Files
    BY <2>1 DEF Timed
  <2>4. TimesComplete'
    BY <2>1, <2>3 DEF TimesComplete, ResultsComplete
  <2>5. QED
    BY <2>2, <2>4
<1>3. CASE Removed
  <2>1. /\ shell = "client" /\ shell' = "client" /\ Remove
        /\ UNCHANGED <<file, todo, times, results>>
        /\ \/ step = "before" /\ step' = "post"
           \/ step = "after" /\ step' = "next"
    BY <1>3 DEF Removed, ClientRuns, To, shellVars
  <2>2. UploadsInHand'
    BY <2>1 DEF Remove, UploadsInHand, OnlyKeptFilesStay
  <2>3. Timed' = Timed
    BY <2>1 DEF Timed
  <2>4. TimesComplete'
    BY <2>1, <2>3 DEF TimesComplete, ResultsComplete
  <2>5. QED
    BY <2>2, <2>4
<1>4. CASE UploadAnswered
  <2>1. PICK p \in In({"serving"}) :
          /\ StoreFile
          /\ IF uploads' # uploads
             THEN times' = times \cup {Entry(p, TRUE)} /\ To("after")
             ELSE times' = times /\ To(IF file \in uploads THEN "refused" ELSE "failed")
    BY <1>4 DEF UploadAnswered
  <2>2. /\ shell = "client" /\ shell' = "client" /\ step = "post" /\ file \in Files
        /\ UNCHANGED <<file, todo, results, kept>>
        /\ uploads' \in {uploads, uploads \cup {file}}
    BY <1>4, <2>1
       DEF UploadAnswered, ClientRuns, shellVars, StoreFile, BenchmarkInv, FileChosen
  <2>3. CASE uploads' # uploads
    <3>1. times' = times \cup {Entry(p, TRUE)} /\ step' = "after"
      BY <2>1, <2>3 DEF To
    <3>2. UploadsInHand'
      BY <2>2, <3>1 DEF UploadsInHand, OnlyKeptFilesStay
    <3>3. \A t \in times : t.file # file
      BY <2>2 DEF TimesComplete, Timed
    <3>4. Timed' = Timed \cup {file}
      BY <2>2, <3>1 DEF Timed, UploadsInHand
    <3>5. Entry(p, TRUE).file = file /\ Entry(p, TRUE).stored
      BY DEF Entry
    <3>6. TimesComplete'
      BY <2>2, <3>1, <3>3, <3>4, <3>5 DEF TimesComplete, ResultsComplete
    <3>7. QED
      BY <3>2, <3>6
  <2>4. CASE uploads' = uploads
    <3>1. times' = times /\ step' = IF file \in uploads THEN "refused" ELSE "failed"
      BY <2>1, <2>4 DEF To
    <3>2. UploadsInHand'
      BY <2>2, <2>4, <3>1 DEF UploadsInHand, OnlyKeptFilesStay
    <3>3. Timed' = Timed
      BY <2>2, <3>1 DEF Timed
    <3>4. TimesComplete'
      BY <2>2, <3>1, <3>3 DEF TimesComplete, ResultsComplete
    <3>5. QED
      BY <3>2, <3>4
  <2>5. QED
    BY <2>3, <2>4
<1>5. QED
  BY <1>1, <1>2, <1>3, <1>4

LEMMA HandsStep ==
  BenchmarkInv /\ OwnRemovals /\ UploadsInHand /\ TimesComplete
    /\ [BenchmarkNext]_benchmarkVars => UploadsInHand' /\ TimesComplete'
<1>1. SUFFICES ASSUME BenchmarkInv, OwnRemovals, UploadsInHand, TimesComplete,
                      [BenchmarkNext]_benchmarkVars
               PROVE  UploadsInHand' /\ TimesComplete'
  OBVIOUS
<1> USE <1>1
<1>2. CASE StartSession
  BY <1>2, HandsEmptyOrSame DEF StartSession
<1>3. CASE StartRound
  <2>1. /\ shell' = "client" /\ step' = "next" /\ todo' = Files /\ times' = {}
        /\ UNCHANGED <<uploads, results, kept>> /\ uploads \subseteq Files
    BY <1>3 DEF StartRound, BenchmarkInv, BenchmarkTypeOK
  <2>2. QED
    BY <2>1 DEF UploadsInHand, TimesComplete, OnlyKeptFilesStay, ResultsComplete, Timed
<1>4. CASE KillAll \/ Interrupt \/ ExitFailure
  BY <1>4, HandsEmptyOrSame DEF KillAll, NextRound, Interrupt, ExitFailure, Abort
<1>5. ASSUME NEW p \in Servers, Bind(p) \/ EndServer(p)
      PROVE  UploadsInHand' /\ TimesComplete'
  BY <1>5, HandsEmptyOrSame DEF Bind, EndServer, ServerTo, shellVars, clientVars
<1>6. CASE NotConnected \/ ConnectionBreaks
  BY <1>6, TryAgainKeepsHands DEF NotConnected, ConnectionBreaks
<1>7. ASSUME NEW r \in late, ServeLate(r) PROVE UploadsInHand' /\ TimesComplete'
  BY <1>7, ServeLateKeepsHands
<1>8. CASE UNCHANGED benchmarkVars
  BY <1>8, HandsEmptyOrSame DEF benchmarkVars, shellVars, clientVars
<1>9. CASE BenchmarkOver
  BY <1>8, <1>9 DEF BenchmarkOver
<1>10. QED
  BY <1>1, <1>2, <1>3, <1>4, <1>5, <1>6, <1>7, <1>8, <1>9, ClientKeepsHands
     DEF BenchmarkNext, ShellStep, OwnStep, ClientStep

\* A file is refused only after its removal has failed, and a round that ends
\* leaves no other files on the server, whatever was interrupted or sent twice.
THEOREM FilesAreRemoved == BenchmarkSpec => []OnlyKeptFilesStay
<1>1. BenchmarkInit => OwnRemovals /\ UploadsInHand /\ TimesComplete
  BY DEF BenchmarkInit, OwnRemovals, UploadsInHand, TimesComplete, OnlyKeptFilesStay, ResultsComplete
<1>2. UploadsInHand => OnlyKeptFilesStay
  BY DEF UploadsInHand
<1>3. QED
  BY <1>1, <1>2, HandsStep, OwnRemovalsStep, BenchmarkSafety, PTL DEF BenchmarkSpec

\* Each file has exactly one time in a results file, of an upload that was stored.
THEOREM ResultsAreWhole == BenchmarkSpec => []ResultsComplete
<1>1. BenchmarkInit => OwnRemovals /\ UploadsInHand /\ TimesComplete
  BY DEF BenchmarkInit, OwnRemovals, UploadsInHand, TimesComplete, OnlyKeptFilesStay, ResultsComplete
<1>2. TimesComplete => ResultsComplete
  BY DEF TimesComplete
<1>3. QED
  BY <1>1, <1>2, HandsStep, OwnRemovalsStep, BenchmarkSafety, PTL DEF BenchmarkSpec

-----------------------------------------------------------------------------
(* The runs of the AES attack.                                             *)

LEMMA NoLogRecord == NoLog \in LogRecords /\ NoLog.run = 0 /\ NoLog.program[2] = 0
BY DEF NoLog, LogRecords

LEMMA AesInitInv == AesInit => AesInv
<1> SUFFICES ASSUME AesInit PROVE AesInv
  OBVIOUS
<1>1. Iterations \in Nat \ {0}
  BY AesAssumption
<1>2. NoLog.program \in (Tags \cup {"none"}) \X Nat
  BY NoLogRecord DEF LogRecords
<1>3. AesTypeOK
  BY <1>1, <1>2, NoLogRecord DEF AesInit, AesIdle, AesTypeOK, Tags
<1>4. ArchivesAsNamed
  BY DEF AesInit, AesIdle, ArchivesAsNamed, FiledUnder
<1>5. QED
  BY <1>3, <1>4, NoLogRecord DEF AesInit, AesIdle, AesInv, BuiltAsNamed

\* A log of this run is one of a program that it knows.
LEMMA OutputKnown ==
  ASSUME AesInv, NEW log \in Logs, outLog' = Output(log), UNCHANGED <<runNo, tag>>
  PROVE  /\ outLog' \in LogRecords
         /\ outLog'.run = runNo
         /\ BuiltAsNamed(outLog'.program)
<1>1. outLog'.run = runNo /\ outLog'.program = binary
  BY DEF Output
<1>2. outLog' \in LogRecords
  BY DEF Output, LogRecords, AesInv, AesTypeOK
<1>3. QED
  BY <1>1, <1>2 DEF AesInv

LEMMA ArchivesKept ==
  ASSUME AesInv, archives' = archives
  PROVE  ArchivesAsNamed'
BY DEF AesInv, ArchivesAsNamed, FiledUnder

LEMMA AesInvStep ==
  ASSUME AesInv, [AesNext]_aesVars
  PROVE  AesInv'
<1>1. CASE UNCHANGED aesVars
  BY <1>1, ArchivesKept DEF aesVars, AesInv, AesTypeOK, BuiltAsNamed
<1>2. ASSUME NEW t \in Tags, StartScript(t)
      PROVE  AesInv'
  <2>1. AesTypeOK'
    BY <1>2, AesAssumption DEF StartScript, AesInv, AesTypeOK
  <2>2. ArchivesAsNamed'
    BY <1>2, ArchivesKept DEF StartScript
  <2>3. QED
    BY <1>2, <2>1, <2>2 DEF StartScript, AesInv, AesTypeOK, LogRecords, BuiltAsNamed
<1>3. CASE Build
  <2>1. /\ runStep' = "attack" /\ runStep = "build"
        /\ UNCHANGED <<runNo, tag, iteration, outLog, outGz, archives>>
    BY <1>3 DEF Build
  <2>2. binary' \in (Tags \cup {"none"}) \X Nat /\ BuiltAsNamed(binary')
    BY <1>3 DEF Build, AesInv, AesTypeOK, BuiltAsNamed
  <2>3. AesTypeOK' /\ ArchivesAsNamed'
    BY <2>1, <2>2, ArchivesKept DEF AesInv, AesTypeOK
  <2>4. QED
    BY <2>1, <2>2, <2>3 DEF AesInv, BuiltAsNamed
<1>4. CASE Attack
  <2>1. /\ runStep' = "gzip" /\ runStep = "attack"
        /\ UNCHANGED <<runNo, tag, iteration, binary, outGz, archives>>
        /\ \E log \in Logs : outLog' = Output(log)
    BY <1>4 DEF Attack
  <2>2. /\ outLog' \in LogRecords /\ outLog'.run = runNo
        /\ BuiltAsNamed(outLog'.program)
    BY <2>1, OutputKnown
  <2>3. AesTypeOK' /\ ArchivesAsNamed'
    BY <2>1, <2>2, ArchivesKept DEF AesInv, AesTypeOK
  <2>4. QED
    BY <2>1, <2>2, <2>3 DEF AesInv, AesTypeOK, BuiltAsNamed
<1>5. CASE Compress
  <2>1. /\ runStep' = "rename" /\ runStep = "gzip"
        /\ UNCHANGED <<runNo, tag, iteration, binary, archives>>
        /\ \/ outGz' = outLog /\ outLog' = NoLog
           \/ outGz # NoLog /\ UNCHANGED <<outLog, outGz>>
    BY <1>5 DEF Compress
  <2>2. AesTypeOK' /\ ArchivesAsNamed'
    BY <2>1, NoLogRecord, ArchivesKept DEF AesInv, AesTypeOK
  <2>3. CASE outGz' = outLog /\ outLog' = NoLog
    BY <2>1, <2>2, <2>3, NoLogRecord DEF AesInv, AesTypeOK, BuiltAsNamed
  <2>4. CASE outGz # NoLog /\ UNCHANGED <<outLog, outGz>>
    BY <2>1, <2>2, <2>4 DEF AesInv, BuiltAsNamed
  <2>5. QED
    BY <2>1, <2>3, <2>4
<1>6. CASE FileArchive
  <2> DEFINE a == [outGz EXCEPT !.filed = runNo]
  <2>1. /\ runStep = "rename"
        /\ archives' = [archives EXCEPT ![tag][iteration] = a]
        /\ outGz' = NoLog
        /\ UNCHANGED <<runNo, tag, binary, outLog>>
        /\ \/ iteration + 1 < Iterations /\ iteration' = iteration + 1 /\ runStep' = "build"
           \/ iteration' = 0 /\ runStep' = "idle"
    BY <1>6 DEF FileArchive
  <2>2. /\ a \in LogRecords
        /\ a.run = outGz.run /\ a.program = outGz.program /\ a.filed = runNo
    BY DEF AesInv, AesTypeOK, LogRecords
  <2>3. AesTypeOK'
    BY <2>1, <2>2, NoLogRecord, AesAssumption DEF AesInv, AesTypeOK
  <2>4. /\ a.run = a.filed /\ a.program[2] = a.run => a.program[1] = tag
        /\ a.run # a.filed => iteration = 0 /\ a.run < a.filed
    BY <2>1, <2>2, SMTT(30) DEF AesInv, AesTypeOK, LogRecords, BuiltAsNamed
  <2>5. ArchivesAsNamed'
    <3> SUFFICES ASSUME NEW t \in Tags, NEW i \in FiledUnder(t)'
                 PROVE  LET b == archives'[t][i] IN
                        /\ b.run = b.filed /\ b.program[2] = b.run => b.program[1] = t
                        /\ b.run # b.filed => i = 0 /\ b.run < b.filed
      BY DEF ArchivesAsNamed
    <3>1. /\ i \in 0..Iterations - 1
          /\ archives'[t][i] = IF t = tag /\ i = iteration THEN a ELSE archives[t][i]
      BY <2>1, <2>3 DEF AesInv, AesTypeOK, FiledUnder
    <3>2. CASE t = tag /\ i = iteration
      BY <2>4, <3>1, <3>2
    <3>3. CASE ~(t = tag /\ i = iteration)
      <4>1. archives'[t][i] = archives[t][i] /\ i \in FiledUnder(t)
        BY <3>1, <3>3 DEF FiledUnder, AesInv, AesTypeOK
      <4>2. QED
        BY <4>1 DEF AesInv, ArchivesAsNamed
    <3>4. QED
      BY <3>2, <3>3
  <2>6. QED
    BY <2>1, <2>3, <2>5, NoLogRecord DEF AesInv, AesTypeOK, BuiltAsNamed
<1>7. CASE InterruptScript
  <2>1. /\ runStep' = "idle" /\ iteration' = 0
        /\ UNCHANGED <<runNo, tag, binary, outGz, archives>>
        /\ outLog' = outLog \/ \E log \in Logs : outLog' = Output(log)
    BY <1>7 DEF InterruptScript
  <2>2. /\ outLog' \in LogRecords /\ outLog'.run <= runNo
        /\ outLog'.run = runNo => BuiltAsNamed(outLog'.program)
    <3>1. CASE outLog' = outLog
      BY <3>1 DEF AesInv, AesTypeOK
    <3>2. CASE \E log \in Logs : outLog' = Output(log)
      BY <2>1, <3>2, OutputKnown DEF AesInv, AesTypeOK
    <3>3. QED
      BY <2>1, <3>1, <3>2
  <2>3. AesTypeOK' /\ ArchivesAsNamed'
    BY <2>1, <2>2, AesAssumption, ArchivesKept DEF AesInv, AesTypeOK
  <2>4. QED
    BY <2>1, <2>2, <2>3 DEF AesInv, BuiltAsNamed
<1>8. CASE MakeReport
  <2>1. /\ runStep = "idle" /\ runStep' = "reported"
        /\ UNCHANGED <<runNo, tag, iteration, binary, outLog, outGz, archives>>
        /\ \A t \in Tags : FiledUnder(t) # {}
    BY <1>8 DEF MakeReport
  <2>2. AesTypeOK' /\ ArchivesAsNamed'
    BY <2>1, ArchivesKept DEF AesInv, AesTypeOK
  <2>3. QED
    BY <2>1, <2>2 DEF AesInv, BuiltAsNamed
<1>9. QED
  BY <1>1, <1>2, <1>3, <1>4, <1>5, <1>6, <1>7, <1>8 DEF AesNext, AesOver

(***************************************************************************)
(* Every archive is named for the attack that was built, whichever command *)
(* fails and however often the script is interrupted and started again.    *)
(***************************************************************************)
THEOREM ArchivesNamedRight == AesSpec => []ArchivesAsNamed
<1>1. AesInit => AesInv
  BY AesInitInv
<1>2. AesInv /\ [AesNext]_aesVars => AesInv'
  BY AesInvStep
<1>3. AesInv => ArchivesAsNamed
  BY DEF AesInv
<1>4. QED
  BY <1>1, <1>2, <1>3, PTL DEF AesSpec

\* The running sums of a list of matching bits, as Recovered() adds them up.
SumsTo(g, bits, n) == g = [i \in 0..n |-> IF i = 0 THEN 0 ELSE g[i - 1] + bits[i]]

LEMMA SumsExist ==
  ASSUME NEW bits \in Seq(0..4)
  PROVE  \A n \in Nat : n <= Len(bits) => \E g : SumsTo(g, bits, n)
<1> DEFINE S == {n \in Nat : n <= Len(bits) => \E g : SumsTo(g, bits, n)}
<1>1. 0 \in S
  <2>1. SumsTo([i \in 0..0 |-> 0], bits, 0)
    BY DEF SumsTo
  <2>2. QED
    BY <2>1
<1>2. ASSUME NEW n \in Nat, n \in S
      PROVE  n + 1 \in S
  <2> SUFFICES ASSUME n + 1 <= Len(bits)
               PROVE  \E g : SumsTo(g, bits, n + 1)
    OBVIOUS
  <2>1. PICK g : SumsTo(g, bits, n)
    BY <1>2
  <2> DEFINE h == [i \in 0..(n + 1) |-> IF i <= n THEN g[i] ELSE g[n] + bits[n + 1]]
  <2>2. ASSUME NEW i \in 0..(n + 1)
        PROVE  h[i] = IF i = 0 THEN 0 ELSE h[i - 1] + bits[i]
    <3>1. CASE i = n + 1
      BY <3>1
    <3>2. CASE i # n + 1 /\ i # 0
      <4>1. i \in 0..n /\ i - 1 \in 0..n
        BY <3>2
      <4>2. g[i] = g[i - 1] + bits[i]
        BY <2>1, <3>2, <4>1 DEF SumsTo
      <4>3. QED
        BY <3>2, <4>1, <4>2
    <3>3. CASE i = 0
      BY <2>1, <3>3 DEF SumsTo
    <3>4. QED
      BY <3>1, <3>2, <3>3
  <2>3. SumsTo(h, bits, n + 1)
    BY <2>2 DEF SumsTo
  <2>4. QED
    BY <2>3
<1> HIDE DEF S
<1>3. Nat \subseteq S
  BY <1>1, <1>2, SetInduction
<1>4. QED
  BY <1>3 DEF S

\* A sum is at most four for each number, and four times as many only if each is.
LEMMA SumsBounded ==
  ASSUME NEW bits \in Seq(0..4), NEW g, SumsTo(g, bits, Len(bits))
  PROVE  \A n \in Nat : n <= Len(bits) =>
           /\ g[n] \in Nat /\ g[n] <= 4 * n
           /\ g[n] = 4 * n => \A i \in 1..n : bits[i] = 4
<1> DEFINE P(n) == n <= Len(bits) =>
                     /\ g[n] \in Nat /\ g[n] <= 4 * n
                     /\ g[n] = 4 * n => \A i \in 1..n : bits[i] = 4
           S == {n \in Nat : P(n)}
<1>1. 0 \in S
  BY DEF SumsTo
<1>2. ASSUME NEW n \in Nat, n \in S
      PROVE  n + 1 \in S
  <2> SUFFICES ASSUME n + 1 <= Len(bits)
               PROVE  P(n + 1)
    OBVIOUS
  <2>1. n + 1 \in 0..Len(bits) /\ n + 1 # 0 /\ n + 1 \in 1..Len(bits)
    OBVIOUS
  <2>2. g[n + 1] = g[n] + bits[n + 1] /\ bits[n + 1] \in 0..4
    BY <2>1 DEF SumsTo
  <2>3. g[n] \in Nat /\ g[n] <= 4 * n /\ (g[n] = 4 * n => \A i \in 1..n : bits[i] = 4)
    BY <1>2
  <2>4. g[n + 1] = 4 * (n + 1) => g[n] = 4 * n /\ bits[n + 1] = 4
    BY <2>2, <2>3
  <2>5. QED
    BY <2>2, <2>3, <2>4
<1> HIDE DEF S
<1>3. Nat \subseteq S
  BY <1>1, <1>2, SetInduction
<1>4. QED
  BY <1>3 DEF S

\* What parse_file() finds in a log: all bits only if every byte has all of them.
LEMMA RecoveredBits ==
  ASSUME NEW log, log.bits \in Seq(0..4), Len(log.bits) <= KeyBytes
  PROVE  /\ Recovered(log) <= 4 * KeyBytes
         /\ Recovered(log) = 4 * KeyBytes =>
              Len(log.bits) = KeyBytes /\ \A n \in DOMAIN log.bits : log.bits[n] = 4
<1> DEFINE g == CHOOSE f : SumsTo(f, log.bits, Len(log.bits))
<1>1. SumsTo(g, log.bits, Len(log.bits))
  BY SumsExist
<1>2. Recovered(log) = g[Len(log.bits)]
  BY DEF Recovered, SumsTo
<1> HIDE DEF g
<1>3. /\ g[Len(log.bits)] \in Nat /\ g[Len(log.bits)] <= 4 * Len(log.bits)
      /\ g[Len(log.bits)] = 4 * Len(log.bits) => \A i \in 1..Len(log.bits) : log.bits[i] = 4
  <2>1. \A n \in Nat : n <= Len(log.bits) =>
           /\ g[n] \in Nat /\ g[n] <= 4 * n
           /\ g[n] = 4 * n => \A i \in 1..n : log.bits[i] = 4
    BY <1>1, SumsBounded, Zenon
  <2>2. Len(log.bits) \in Nat /\ Len(log.bits) <= Len(log.bits)
    OBVIOUS
  <2>3. QED
    BY <2>1, <2>2
<1>4. KeyBytes \in Nat \ {0} /\ Len(log.bits) \in Nat
  BY AesAssumption
<1>5. QED
  BY <1>2, <1>3, <1>4

LEMMA ReportsReal ==
  ASSUME AesInv, MakeReport
  PROVE  RecoveriesReal'
<1> SUFFICES ASSUME NEW t \in Tags, NEW i \in DOMAIN report'.recovered[t]
             PROVE  LET bits == archives'[t][i].log.bits
                        minutes == report'.minutes[t]
                    IN
                    /\ report'.recovered[t][i] <= 4 * KeyBytes
                    /\ report'.recovered[t][i] = 4 * KeyBytes =>
                         Len(bits) = KeyBytes /\ \A n \in DOMAIN bits : bits[n] = 4
                    /\ DOMAIN minutes \in {{}, FiledUnder(t)'}
                    /\ i \in DOMAIN minutes => minutes[i] # NoEnd
  BY DEF RecoveriesReal
<1> DEFINE ended == \A u \in Tags : \A j \in FiledUnder(u) : archives[u][j].log.minutes # NoEnd
<1>1. /\ archives' = archives
      /\ report'.recovered[t] = [j \in FiledUnder(t) |-> Recovered(archives[t][j].log)]
      /\ report'.minutes[t] = IF ended THEN [j \in FiledUnder(t) |-> archives[t][j].log.minutes]
                              ELSE << >>
  BY DEF MakeReport
<1>2. i \in FiledUnder(t) /\ report'.recovered[t][i] = Recovered(archives[t][i].log)
  BY <1>1
<1>3. archives[t][i].log.bits \in Seq(0..4) /\ Len(archives[t][i].log.bits) <= KeyBytes
  <2>1. archives[t][i].log \in Logs \cup {NoLog.log}
    BY <1>2 DEF AesInv, AesTypeOK, FiledUnder, LogRecords
  <2>2. CASE archives[t][i].log \in Logs
    BY <2>2, AesAssumption, Zenon
  <2>3. CASE archives[t][i].log = NoLog.log
    <3>1. NoLog.log.bits = << >> /\ Len(<< >>) = 0 /\ << >> \in Seq(0..4)
      BY DEF NoLog
    <3>2. QED
      BY <2>3, <3>1, AesAssumption
  <2>4. QED
    BY <2>1, <2>2, <2>3
<1>4. FiledUnder(t)' = FiledUnder(t)
  BY <1>1 DEF FiledUnder
<1>5. DOMAIN report'.minutes[t] \in {{}, FiledUnder(t)'}
  BY <1>1, <1>4
<1>6. i \in DOMAIN report'.minutes[t] => report'.minutes[t][i] # NoEnd
  BY <1>1, <1>2
<1>7. QED
  BY <1>1, <1>2, <1>3, <1>5, <1>6, RecoveredBits

(***************************************************************************)
(* The full recoveries that the plot counts are real, for keys of any      *)
(* length and any logs.                                                    *)
(***************************************************************************)
THEOREM RecoveriesAreReal == AesSpec => []RecoveriesReal
<1>1. AesInit => RecoveriesReal
  BY DEF AesInit, RecoveriesReal
<1>2. AesInv /\ RecoveriesReal /\ [AesNext]_aesVars => RecoveriesReal'
  <2> SUFFICES ASSUME AesInv, RecoveriesReal, [AesNext]_aesVars
               PROVE  RecoveriesReal'
    OBVIOUS
  <2>1. CASE UNCHANGED aesVars
    BY <2>1 DEF aesVars, RecoveriesReal, FiledUnder
  <2>2. CASE MakeReport
    BY <2>2, ReportsReal
  <2>3. CASE (\E t \in Tags : StartScript(t)) \/ Build \/ Attack \/ Compress
              \/ FileArchive \/ InterruptScript
    <3>1. runStep' # "reported"
      BY <2>3 DEF StartScript, Build, Attack, Compress, FileArchive, InterruptScript
    <3>2. QED
      BY <3>1 DEF RecoveriesReal
  <2>4. QED
    BY <2>1, <2>2, <2>3 DEF AesNext, AesOver
<1>3. AesInit => AesInv
  BY AesInitInv
<1>4. AesInv /\ [AesNext]_aesVars => AesInv'
  BY AesInvStep
<1>5. QED
  BY <1>1, <1>2, <1>3, <1>4, PTL DEF AesSpec

-----------------------------------------------------------------------------
(* The programs that measure with the flag set and clear.                  *)

\* A line is added, with the flag as it was when the line was measured.
LEMMA LinePrinted ==
  ASSUME LogInv, NEW nums \in Seq(Int), NEW was \in BOOLEAN,
         PrintLine(nums, <<was, was>>), UNCHANGED <<program, inherited>>,
         program \in Victims => was = (nums[1] = 1 \/ inherited),
         program = "to_clear" => was = inherited,
         program \notin Victims \cup {"to_clear"} => was
  PROVE  /\ printed' \in Seq([nums : Seq(Int), flags : BOOLEAN \X BOOLEAN])
         /\ Len(printed') = Len(printed) + 1
         /\ SeriesAsNamed'
<1> DEFINE line == [nums |-> nums, flags |-> <<was, was>>]
           S    == [nums : Seq(Int), flags : BOOLEAN \X BOOLEAN]
<1>1. /\ printed \in Seq(S) /\ line \in S
      /\ printed' = Append(printed, line)
      /\ line.nums = nums /\ line.flags[1] = was
  BY DEF LogInv, PrintLine
<1> HIDE DEF line, S
<1>2. /\ printed' \in Seq(S)
      /\ Len(printed') = Len(printed) + 1
      /\ DOMAIN printed' = 1..(Len(printed) + 1)
      /\ DOMAIN printed = 1..Len(printed)
      /\ printed'[Len(printed) + 1] = line
      /\ \A i \in 1..Len(printed) : printed'[i] = printed[i]
  BY <1>1
<1>3. SeriesAsNamed'
  <2> SUFFICES ASSUME NEW i \in DOMAIN printed'
               PROVE  LET f == printed'[i].flags[1] IN
                      CASE program \in Victims  -> f = (printed'[i].nums[1] = 1 \/ inherited)
                        [] program = "to_clear" -> f = inherited
                        [] OTHER                -> f
    BY DEF SeriesAsNamed
  <2>1. CASE i \in DOMAIN printed
    BY <1>2, <2>1 DEF LogInv, SeriesAsNamed
  <2>2. CASE i = Len(printed) + 1
    BY <1>1, <1>2, <2>2
  <2>3. QED
    BY <1>1, <1>2, <2>1, <2>2
<1>4. QED
  BY <1>2, <1>3 DEF S

LEMMA LogInvStep ==
  ASSUME LogInv, [LogNext]_logVars
  PROVE  LogInv'
<1>0. TimePairs \subseteq Int \X Int /\ Misses \subseteq Int /\ Reps \in Nat
  BY LogAssumption
<1>1. ASSUME UNCHANGED <<program, inherited, bit, printed>>
      PROVE  LogInv'
  BY <1>1 DEF LogInv, SeriesAsNamed
<1>2. CASE UNCHANGED logVars
  BY <1>1, <1>2 DEF logVars
<1>3. CASE Repetition
  <2>1. UNCHANGED <<program, inherited>> /\ program \in LogPrograms
    BY <1>3 DEF Repetition, LogInv
  <2>2. CASE program \in Victims
    <3> DEFINE countermeasure == Len(printed) >= Reps
               during == countermeasure \/ bit
    <3>1. VictimRepetition
      BY <1>3, <2>2 DEF Repetition, Victims, Readers
    <3>2. CASE countermeasure /\ ~patched
      BY <1>1, <2>1, <3>1, <3>2 DEF VictimRepetition
    <3>3. CASE ~(countermeasure /\ ~patched)
      <4>1. PICK misses \in MissesOf(program), pair \in TimePairs :
              /\ PrintLine(<<NumberOf(countermeasure), misses>> \o pair, <<during, during>>)
              /\ bit' = IF countermeasure THEN FALSE ELSE bit
        BY <3>1, <3>3 DEF VictimRepetition
      <4> DEFINE nums == <<NumberOf(countermeasure), misses>> \o pair
      <4>2. nums \in Seq(Int) /\ nums[1] = NumberOf(countermeasure)
        <5>1. misses \in Int /\ pair \in Int \X Int /\ NumberOf(countermeasure) \in Int
          BY <1>0 DEF MissesOf, Placeholder, NumberOf
        <5>2. PICK x \in Int, y \in Int : pair = <<x, y>>
          BY <5>1
        <5>3. QED
          BY <5>1, <5>2
      <4>3. /\ during \in BOOLEAN
            /\ program \in Victims => during = (nums[1] = 1 \/ inherited)
            /\ program = "to_clear" => during = inherited
            /\ program \notin Victims \cup {"to_clear"} => during
        BY <2>2, <4>2, <1>0 DEF LogInv, NumberOf, Victims
      <4>4. PrintLine(nums, <<during, during>>)
        BY <4>1
      <4> HIDE DEF nums, during
      <4>5. /\ printed' \in Seq([nums : Seq(Int), flags : BOOLEAN \X BOOLEAN])
            /\ Len(printed') = Len(printed) + 1
            /\ SeriesAsNamed'
        BY <2>1, <4>2, <4>3, <4>4, LinePrinted
      <4>6. bit' \in BOOLEAN /\ (Len(printed') <= Reps => bit' = inherited)
        <5>1. Len(printed) \in Nat
          BY DEF LogInv
        <5>2. Len(printed') <= Reps => ~countermeasure /\ Len(printed) <= Reps
          BY <1>0, <4>5, <5>1
        <5>3. QED
          BY <2>2, <4>1, <5>2 DEF LogInv
      <4>7. program # "to_clear"
        BY <2>2 DEF Victims
      <4>8. QED
        BY <2>1, <4>5, <4>6, <4>7 DEF LogInv
    <3>4. QED
      BY <3>2, <3>3
  <2>3. CASE program = "syscall"
    <3>1. SyscallSample
      BY <1>3, <2>3 DEF Repetition, Victims, Readers
    <3>2. CASE ~patched
      BY <1>1, <2>1, <3>1, <3>2 DEF SyscallSample
    <3>3. CASE patched
      <4>1. PICK pair \in TimePairs : PrintLine(pair, <<TRUE, TRUE>>) /\ bit' = TRUE
        BY <3>1, <3>3 DEF SyscallSample
      <4>2. pair \in Seq(Int)
        <5>1. PICK x \in Int, y \in Int : pair = <<x, y>>
          BY <1>0
        <5>2. QED
          BY <5>1
      <4>3. /\ printed' \in Seq([nums : Seq(Int), flags : BOOLEAN \X BOOLEAN])
            /\ SeriesAsNamed'
        BY <2>1, <2>3, <4>1, <4>2, LinePrinted DEF Victims
      <4>4. QED
        BY <2>1, <2>3, <4>1, <4>3 DEF LogInv, Victims
    <3>4. QED
      BY <3>2, <3>3
  <2>4. CASE program \in Readers
    <3> DEFINE was == program = "to_set" \/ bit
    <3>1. ReaderSample
      BY <1>3, <2>4 DEF Repetition, Victims, Readers
    <3>2. CASE program = "to_set" /\ ~patched
      BY <1>1, <2>1, <3>1, <3>2 DEF ReaderSample
    <3>3. CASE ~(program = "to_set" /\ ~patched)
      <4>1. PICK pair \in TimePairs :
              PrintLine(<<Len(printed) + 1, pair[2]>>, <<was, was>>) /\ bit' = was
        BY <3>1, <3>3 DEF ReaderSample
      <4>2. <<Len(printed) + 1, pair[2]>> \in Seq(Int)
        BY <1>0 DEF LogInv
      <4>3. /\ was \in BOOLEAN
            /\ program = "to_clear" => was = inherited
            /\ program = "to_set" => was
        BY DEF LogInv
      <4>4. /\ printed' \in Seq([nums : Seq(Int), flags : BOOLEAN \X BOOLEAN])
            /\ SeriesAsNamed'
        BY <2>1, <2>4, <4>1, <4>2, <4>3, LinePrinted DEF Victims, Readers
      <4>5. QED
        BY <2>1, <2>4, <4>1, <4>3, <4>4 DEF LogInv, Victims, Readers
    <3>4. QED
      BY <3>2, <3>3
  <2>5. QED
    BY <2>1, <2>2, <2>3, <2>4 DEF LogPrograms
<1>4. CASE End \/ KillProgram
  BY <1>1, <1>4 DEF End, KillProgram
<1>5. ASSUME NEW s \in ScriptsFor(program), DrawLog(s)
      PROVE  LogInv'
  BY <1>1, <1>5 DEF DrawLog
<1>6. QED
  BY <1>2, <1>3, <1>4, <1>5 DEF LogNext, LogOver

LEMMA LogInitInv == LogInit => LogInv
<1> SUFFICES ASSUME LogInit PROVE LogInv
  OBVIOUS
<1>1. printed = << >> /\ bit = inherited /\ inherited \in BOOLEAN
  BY DEF LogInit
<1>2. printed \in Seq([nums : Seq(Int), flags : BOOLEAN \X BOOLEAN])
  BY <1>1
<1>3. SeriesAsNamed
  BY <1>1 DEF SeriesAsNamed
<1>4. QED
  BY <1>1, <1>2, <1>3 DEF LogInit, LogInv

LEMMA JoinTwo ==
  ASSUME NEW a \in Int, NEW b \in Int, NEW x \in Int, NEW y \in Int,
         NEW s, s = <<a, b>> \o <<x, y>>
  PROVE  s \in Seq(Int) /\ Len(s) = 4 /\ s[1] = a /\ s[2] = b /\ s[4] = y
<1>1. <<a, b>> \in Seq(Int) /\ <<x, y>> \in Seq(Int) /\ Len(<<a, b>>) = 2 /\ Len(<<x, y>>) = 2
  OBVIOUS
<1>2. s \in Seq(Int) /\ Len(s) = 4
  BY <1>1
<1>3. s[1] = <<a, b>>[1] /\ s[2] = <<a, b>>[2] /\ s[4] = <<x, y>>[2]
  BY <1>1
<1>4. QED
  BY <1>2, <1>3

LEMMA TwoNumbers ==
  ASSUME NEW D, NEW pair \in D \X D
  PROVE  pair = <<pair[1], pair[2]>> /\ pair[1] \in D /\ pair[2] \in D
OBVIOUS

LEMMA TimesMeasured ==
  ASSUME NEW pair \in TimePairs
  PROVE  /\ pair = <<pair[1], pair[2]>>
         /\ pair[1] \in 10..99 /\ pair[2] \in 10..99
         /\ pair \in Seq(Int) /\ Len(pair) = 2
<1> DEFINE D == 10..99
<1>1. pair \in D \X D
  BY LogAssumption
<1>2. D \subseteq Int
  OBVIOUS
<1> HIDE DEF D
<1>3. pair = <<pair[1], pair[2]>> /\ pair[1] \in D /\ pair[2] \in D
  BY <1>1, TwoNumbers
<1>4. <<pair[1], pair[2]>> \in Seq(Int) /\ Len(<<pair[1], pair[2]>>) = 2
  BY <1>2, <1>3
<1>5. pair \in Seq(Int) /\ Len(pair) = 2
  BY <1>3, <1>4
<1>6. QED
  BY <1>3, <1>5 DEF D

\* Every line has the form of its program's.
LEMMA LineAdded ==
  ASSUME LogInv, FileInv, NEW nums \in Seq(Int), NEW flags,
         PrintLine(nums, flags), UNCHANGED <<program, patched>>,
         Len(nums) = IF program \in Victims THEN 4 ELSE 2,
         nums[Len(nums)] \in 10..99,
         program \in Victims =>
           /\ nums[1] = NumberOf(Len(printed) + 1 > Reps)
           /\ nums[2] \in MissesOf(program)
           /\ Len(printed) + 1 > Reps => patched
  PROVE  FileInv'
<1> DEFINE line == [nums |-> nums, flags |-> flags]
           S    == [nums : Seq(Int), flags : BOOLEAN \X BOOLEAN]
<1>1. /\ printed \in Seq(S) /\ line.nums = nums
      /\ printed' = Append(printed, line) /\ written' = written
  BY DEF LogInv, PrintLine
<1> HIDE DEF line, S
<1>2. /\ Len(printed) \in Nat
      /\ Len(printed') = Len(printed) + 1
      /\ DOMAIN printed' = 1..(Len(printed) + 1)
      /\ DOMAIN printed = 1..Len(printed)
      /\ printed'[Len(printed) + 1] = line
      /\ \A i \in 1..Len(printed) : printed'[i] = printed[i]
  BY <1>1
<1>3. ASSUME NEW i \in DOMAIN printed'
      PROVE  LineFormed(i)'
  <2>1. CASE i \in DOMAIN printed
    BY <1>2, <2>1 DEF FileInv, LineFormed
  <2>2. CASE i = Len(printed) + 1
    BY <1>1, <1>2, <2>2 DEF LineFormed
  <2>3. QED
    BY <1>2, <2>1, <2>2
<1>4. written' \in 0..4 * Len(printed')
  BY <1>1, <1>2 DEF FileInv
<1>5. QED
  BY <1>3, <1>4 DEF FileInv

LEMMA FileInvStep ==
  ASSUME LogInv, FileInv, [LogNext]_logVars
  PROVE  FileInv'
<1>0. /\ TimePairs \subseteq (10..99) \X (10..99) /\ Misses \subseteq Int
      /\ Reps \in Nat /\ Len(printed) \in Nat
  BY LogAssumption DEF LogInv
<1>1. ASSUME UNCHANGED <<program, patched, printed>>, written' \in 0..4 * Len(printed)
      PROVE  FileInv'
  BY <1>1 DEF FileInv, LineFormed
<1>2. ASSUME UNCHANGED <<program, patched, printed>>, ExitAfter(printed)
      PROVE  FileInv'
  BY <1>0, <1>1, <1>2 DEF ExitAfter
<1>3. ASSUME UNCHANGED <<program, patched, printed, written>>
      PROVE  FileInv'
  BY <1>1, <1>3 DEF FileInv
<1>4. CASE Repetition
  <2>1. UNCHANGED <<program, patched>> /\ program \in LogPrograms
    BY <1>4 DEF Repetition, LogInv
  <2>2. CASE program \in Victims
    <3> DEFINE countermeasure == Len(printed) >= Reps
               during == countermeasure \/ bit
    <3>1. VictimRepetition
      BY <1>4, <2>2 DEF Repetition, Victims, Readers
    <3>2. CASE countermeasure /\ ~patched
      BY <1>2, <2>1, <3>1, <3>2 DEF VictimRepetition
    <3>3. CASE ~(countermeasure /\ ~patched)
      <4>1. PICK misses \in MissesOf(program), pair \in TimePairs :
              PrintLine(<<NumberOf(countermeasure), misses>> \o pair, <<during, during>>)
        BY <3>1, <3>3 DEF VictimRepetition
      <4> DEFINE nums == <<NumberOf(countermeasure), misses>> \o pair
      <4>2. /\ nums \in Seq(Int) /\ Len(nums) = 4
            /\ nums[1] = NumberOf(countermeasure) /\ nums[2] = misses /\ nums[4] \in 10..99
        <5>0. misses \in Int
          BY <1>0 DEF MissesOf, Placeholder
        <5>1. PICK a \in Int : a = NumberOf(countermeasure)
          BY DEF NumberOf
        <5>2. PICK x \in Int, y \in Int : pair = <<x, y>> /\ y \in 10..99
          BY TimesMeasured
        <5>3. nums = <<a, misses>> \o <<x, y>>
          BY <5>1, <5>2
        <5> HIDE DEF nums
        <5>4. nums \in Seq(Int) /\ Len(nums) = 4 /\ nums[1] = a /\ nums[2] = misses /\ nums[4] = y
          BY <5>0, <5>2, <5>3, JoinTwo
        <5>5. QED
          BY <5>1, <5>2, <5>4
      <4>3. countermeasure <=> Len(printed) + 1 > Reps
        BY <1>0
      <4>4. NumberOf(countermeasure) = NumberOf(Len(printed) + 1 > Reps)
        BY <4>3 DEF NumberOf
      <4>5. PrintLine(nums, <<during, during>>)
        BY <4>1
      <4> HIDE DEF nums, during
      <4>6. QED
        BY <2>1, <2>2, <3>3, <4>2, <4>3, <4>4, <4>5, LineAdded
    <3>4. QED
      BY <3>2, <3>3
  <2>3. CASE program = "syscall"
    <3>1. SyscallSample
      BY <1>4, <2>3 DEF Repetition, Victims, Readers
    <3>2. CASE ~patched
      BY <1>2, <2>1, <3>1, <3>2 DEF SyscallSample
    <3>3. CASE patched
      <4>1. PICK pair \in TimePairs : PrintLine(pair, <<TRUE, TRUE>>)
        BY <3>1, <3>3 DEF SyscallSample
      <4>2. pair \in Seq(Int) /\ Len(pair) = 2 /\ pair[2] \in 10..99
        BY TimesMeasured
      <4>3. program \notin Victims
        BY <2>3 DEF Victims
      <4>4. QED
        BY <2>1, <4>1, <4>2, <4>3, LineAdded
    <3>4. QED
      BY <3>2, <3>3
  <2>4. CASE program \in Readers
    <3> DEFINE was == program = "to_set" \/ bit
    <3>1. ReaderSample
      BY <1>4, <2>4 DEF Repetition, Victims, Readers
    <3>2. CASE program = "to_set" /\ ~patched
      BY <1>2, <2>1, <3>1, <3>2 DEF ReaderSample
    <3>3. CASE ~(program = "to_set" /\ ~patched)
      <4>1. PICK pair \in TimePairs :
              PrintLine(<<Len(printed) + 1, pair[2]>>, <<was, was>>)
        BY <3>1, <3>3 DEF ReaderSample
      <4> DEFINE nums == <<Len(printed) + 1, pair[2]>>
      <4>2. nums \in Seq(Int) /\ Len(nums) = 2 /\ nums[2] \in 10..99
        <5>1. pair[2] \in 10..99 /\ pair[2] \in Int /\ Len(printed) + 1 \in Int
          BY <1>0, TimesMeasured
        <5>2. QED
          BY <5>1
      <4>3. program \notin Victims
        BY <2>4 DEF Victims, Readers
      <4>4. PrintLine(nums, <<was, was>>)
        BY <4>1
      <4> HIDE DEF nums, was
      <4>5. QED
        BY <2>1, <4>2, <4>3, <4>4, LineAdded
    <3>4. QED
      BY <3>2, <3>3
  <2>5. QED
    BY <2>1, <2>2, <2>3, <2>4 DEF LogPrograms
<1>5. CASE End
  BY <1>2, <1>5 DEF End
<1>6. CASE KillProgram
  BY <1>1, <1>6 DEF KillProgram
<1>7. ASSUME NEW s \in ScriptsFor(program), DrawLog(s)
      PROVE  FileInv'
  BY <1>3, <1>7 DEF DrawLog
<1>8. CASE UNCHANGED logVars
  BY <1>3, <1>8 DEF logVars
<1>9. QED
  BY <1>4, <1>5, <1>6, <1>7, <1>8 DEF LogNext, LogOver

-----------------------------------------------------------------------------
(* What the scripts find in a file.                                        *)

NumsPrinted == [i \in DOMAIN printed |-> printed[i].nums]

\* A line as it was printed, but for a last number that is too small.
AsPrinted(line, nums) ==
  /\ Len(line) = Len(nums)
  /\ \A j \in 1..Len(nums) :
       line[j] = nums[j] \/ (j = Len(nums) /\ line[j] < nums[j])

LEMMA CutLine ==
  ASSUME NEW nums \in Seq(Int), Len(nums) # 0, nums[Len(nums)] \in 10..99, NEW part \in 1..3
  PROVE  \/ Cut(nums, part) = << >>
         \/ \E line \in Seq(Int) : Cut(nums, part) = <<line>> /\ AsPrinted(line, nums)
<1> DEFINE last == Len(nums)
           cut  == [nums EXCEPT ![last] = nums[last] \div 10]
<1>0. last \in 1..Len(nums) /\ last \in Nat
  OBVIOUS
<1>1. CASE part = 2
  <2>1. Cut(nums, part) = <<cut>>
    BY <1>1 DEF Cut
  <2>2. nums[last] \div 10 \in Int /\ nums[last] \div 10 < nums[last]
    <3>1. \A v \in 10..99 : v \div 10 \in Int /\ v \div 10 < v
      OBVIOUS
    <3>2. QED
      BY <3>1
  <2>3. cut \in Seq(Int) /\ Len(cut) = Len(nums)
    BY <1>0, <2>2
  <2>4. \A j \in 1..Len(nums) : cut[j] = IF j = last THEN nums[last] \div 10 ELSE nums[j]
    BY <1>0
  <2> HIDE DEF cut
  <2>5. AsPrinted(cut, nums)
    BY <2>2, <2>3, <2>4 DEF AsPrinted
  <2>6. QED
    BY <2>1, <2>3, <2>5
<1>2. CASE part = 3
  <2>1. Cut(nums, part) = <<nums>>
    BY <1>2 DEF Cut
  <2>2. QED
    BY <2>1 DEF AsPrinted
<1>3. CASE part = 1
  BY <1>3 DEF Cut
<1>4. QED
  BY <1>1, <1>2, <1>3

LEMMA FileFollows ==
  ASSUME LogInv, FileInv
  PROVE  /\ FileLines \in Seq(Seq(Int)) /\ NumsPrinted \in Seq(Seq(Int))
         /\ Len(NumsPrinted) = Len(printed) /\ Len(FileLines) <= Len(printed)
         /\ \A i \in 1..Len(printed) : NumsPrinted[i] = printed[i].nums
         /\ \A i \in 1..(Len(FileLines) - 1) : FileLines[i] = NumsPrinted[i]
         /\ \A i \in 1..Len(FileLines) : AsPrinted(FileLines[i], NumsPrinted[i])
         /\ WholeLog => Len(FileLines) = Len(printed) /\ FileLines = NumsPrinted
<1> DEFINE whole == written \div 4
           rest  == written % 4
           first == [i \in 1..whole |-> printed[i].nums]
<1>1. /\ Len(printed) \in Nat /\ DOMAIN printed = 1..Len(printed)
      /\ \A i \in 1..Len(printed) : printed[i].nums \in Seq(Int)
  <2> DEFINE S == [nums : Seq(Int), flags : BOOLEAN \X BOOLEAN]
  <2>1. printed \in Seq(S) /\ \A r \in S : r.nums \in Seq(Int)
    BY DEF LogInv
  <2> HIDE DEF S
  <2>2. /\ Len(printed) \in Nat /\ DOMAIN printed = 1..Len(printed)
        /\ \A i \in 1..Len(printed) : printed[i] \in S
    BY <2>1
  <2>3. QED
    BY <2>1, <2>2
<1>2. /\ NumsPrinted \in Seq(Seq(Int)) /\ Len(NumsPrinted) = Len(printed)
      /\ \A i \in 1..Len(printed) : NumsPrinted[i] = printed[i].nums
  BY <1>1 DEF NumsPrinted
<1>3. /\ whole \in Nat /\ rest \in 0..3 /\ whole <= Len(printed)
      /\ rest # 0 => whole + 1 \in 1..Len(printed)
      /\ written = 4 * Len(printed) => whole = Len(printed) /\ rest = 0
  <2>1. written \in Nat /\ written <= 4 * Len(printed)
    BY <1>1 DEF FileInv
  <2>2. \A w \in Nat : w \div 4 \in Nat /\ w % 4 \in 0..3 /\ w = 4 * (w \div 4) + (w % 4)
    OBVIOUS
  <2>3. whole \in Nat /\ rest \in 0..3 /\ written = 4 * whole + rest
    BY <2>1, <2>2
  <2>4. \A n, w, r \in Nat : 4 * w + r <= 4 * n /\ r <= 3 =>
          /\ w <= n
          /\ r # 0 => w + 1 <= n
          /\ 4 * w + r = 4 * n => w = n /\ r = 0
    OBVIOUS
  <2> HIDE DEF whole, rest
  <2>5. rest \in Nat /\ rest <= 3 /\ 4 * whole + rest <= 4 * Len(printed)
    BY <2>1, <2>3
  <2>6. /\ whole <= Len(printed)
        /\ rest # 0 => whole + 1 <= Len(printed)
        /\ 4 * whole + rest = 4 * Len(printed) => whole = Len(printed) /\ rest = 0
    BY <1>1, <2>3, <2>4, <2>5
  <2>7. whole + 1 <= Len(printed) => whole + 1 \in 1..Len(printed)
    BY <1>1, <2>3
  <2>8. QED
    BY <2>3, <2>6, <2>7
<1> HIDE DEF whole, rest
<1>4. /\ first \in Seq(Seq(Int)) /\ Len(first) = whole
      /\ \A i \in 1..whole : first[i] = NumsPrinted[i]
  <2>1. \A i \in 1..whole : i \in 1..Len(printed)
    <3>1. \A w, n \in Nat : w <= n => \A i \in 1..w : i \in 1..n
      OBVIOUS
    <3>2. QED
      BY <1>1, <1>3, <3>1
  <2>2. \A i \in 1..whole : first[i] = printed[i].nums /\ first[i] \in Seq(Int)
    BY <1>1, <2>1
  <2>3. first \in Seq(Seq(Int)) /\ Len(first) = whole
    BY <1>3, <2>2
  <2>4. QED
    BY <1>2, <2>1, <2>2, <2>3
<1>5. FileLines = first \o (IF rest = 0 THEN << >> ELSE Cut(printed[whole + 1].nums, rest))
  BY DEF FileLines, whole, rest
<1> HIDE DEF first
<1>6. CASE FileLines = first
  BY <1>2, <1>3, <1>4, <1>6 DEF AsPrinted, WholeLog
<1>7. ASSUME NEW line \in Seq(Int), FileLines = first \o <<line>>,
             whole + 1 \in 1..Len(printed), written # 4 * Len(printed),
             AsPrinted(line, printed[whole + 1].nums)
      PROVE  /\ FileLines \in Seq(Seq(Int)) /\ Len(FileLines) = whole + 1
             /\ \A i \in 1..whole : FileLines[i] = NumsPrinted[i]
             /\ FileLines[whole + 1] = line
  <2>1. first \in Seq(Seq(Int)) /\ <<line>> \in Seq(Seq(Int)) /\ Len(<<line>>) = 1
    BY <1>4
  <2>2. FileLines \in Seq(Seq(Int)) /\ Len(FileLines) = whole + 1
    BY <1>4, <1>7, <2>1
  <2>3. \A i \in 1..whole : FileLines[i] = first[i]
    BY <1>3, <1>4, <1>7, <2>1
  <2>4. FileLines[whole + 1] = line
    BY <1>3, <1>4, <1>7, <2>1
  <2>5. QED
    BY <1>4, <2>2, <2>3, <2>4
<1>8. ASSUME rest # 0
      PROVE  \/ FileLines = first
             \/ \E line \in Seq(Int) : /\ FileLines = first \o <<line>>
                                       /\ AsPrinted(line, printed[whole + 1].nums)
  <2> DEFINE nums == printed[whole + 1].nums
  <2>1. nums \in Seq(Int) /\ Len(nums) # 0 /\ nums[Len(nums)] \in 10..99
    <3>1. LineFormed(whole + 1) /\ nums \in Seq(Int)
      BY <1>1, <1>3, <1>8 DEF FileInv
    <3>2. Len(nums) = 2 \/ Len(nums) = 4
      BY <3>1 DEF LineFormed
    <3>3. nums[Len(nums)] \in 10..99 /\ nums \in Seq(Int)
      BY <3>1 DEF LineFormed
    <3> HIDE DEF nums
    <3>4. QED
      BY <3>2, <3>3
  <2>2. rest \in 1..3
    BY <1>3, <1>8
  <2>3. FileLines = first \o Cut(nums, rest)
    BY <1>5, <1>8
  <2> HIDE DEF nums
  <2>4. CASE Cut(nums, rest) = << >>
    BY <1>4, <2>3, <2>4
  <2>5. CASE Cut(nums, rest) # << >>
    <3>1. PICK line \in Seq(Int) : Cut(nums, rest) = <<line>> /\ AsPrinted(line, nums)
      BY <2>1, <2>2, <2>5, CutLine
    <3>2. QED
      BY <2>3, <3>1 DEF nums
  <2>6. QED
    BY <2>4, <2>5
<1>9. CASE rest # 0 /\ FileLines # first
  <2>1. PICK line \in Seq(Int) : /\ FileLines = first \o <<line>>
                                 /\ AsPrinted(line, printed[whole + 1].nums)
    BY <1>8, <1>9
  <2>2. written # 4 * Len(printed) /\ whole + 1 \in 1..Len(printed)
    BY <1>3, <1>9
  <2>3. /\ FileLines \in Seq(Seq(Int)) /\ Len(FileLines) = whole + 1
        /\ \A i \in 1..whole : FileLines[i] = NumsPrinted[i]
        /\ FileLines[whole + 1] = line
    BY <1>7, <2>1, <2>2
  <2>4. \A i \in 1..(whole + 1) : AsPrinted(FileLines[i], NumsPrinted[i])
    <3> SUFFICES ASSUME NEW i \in 1..(whole + 1)
                 PROVE  AsPrinted(FileLines[i], NumsPrinted[i])
      OBVIOUS
    <3>1. CASE i \in 1..whole
      BY <2>3, <3>1 DEF AsPrinted
    <3>2. CASE i = whole + 1
      <4>1. NumsPrinted[i] = printed[whole + 1].nums /\ FileLines[i] = line
        BY <1>2, <2>2, <2>3, <3>2
      <4>2. QED
        BY <2>1, <4>1
    <3>3. QED
      BY <1>3, <3>1, <3>2
  <2>5. QED
    BY <1>2, <1>3, <2>2, <2>3, <2>4 DEF WholeLog
<1>10. CASE rest = 0
  BY <1>4, <1>5, <1>6, <1>10
<1>11. QED
  BY <1>6, <1>9, <1>10

\* A line of four numbers without the first.
LEMMA ThreeOfFour ==
  ASSUME NEW line \in Seq(Int), Len(line) = 4, NEW t, t \in Seq(Int),
         Len(t) = Len(line) - 1, \A i \in 1..Len(t) : t[i] = line[i + 1]
  PROVE  /\ t \in Seq(Int) /\ Len(t) = 3 /\ DOMAIN t = 1..3
         /\ \A n \in 1..3 : t[n] = line[n + 1]
OBVIOUS

LEMMA TailOfFour ==
  ASSUME NEW line \in Seq(Int), Len(line) = 4
  PROVE  /\ Tail(line) \in Seq(Int) /\ Len(Tail(line)) = 3 /\ DOMAIN Tail(line) = 1..3
         /\ \A n \in 1..3 : Tail(line)[n] = line[n + 1]
<1>1. ASSUME line = << >>
      PROVE  FALSE
  <2>1. Len(line) = 0
    BY <1>1
  <2>2. QED
    BY <2>1
<1>2. /\ Tail(line) \in Seq(Int)
      /\ Len(Tail(line)) = Len(line) - 1
      /\ \A i \in 1..Len(Tail(line)) : Tail(line)[i] = line[i + 1]
  BY <1>1, HeadTailProperties, Zenon
<1>3. QED
  BY <1>2, ThreeOfFour, Zenon

LEMMA SeqOf ==
  ASSUME NEW X, NEW Y, NEW s \in Seq(X), \A i \in 1..Len(s) : s[i] \in Y
  PROVE  s \in Seq(Y)
OBVIOUS

\* The lines of victim-bn, of which a cut may change only the last number.
VictimLines == {nums \in Seq(Int) : Len(nums) = 4 /\ nums[2] \in MissesOf(program)}

LEMMA VictimFile ==
  ASSUME LogInv, FileInv, program \in Victims
  PROVE  /\ FileLines \in Seq(VictimLines) /\ NumsPrinted \in Seq(VictimLines)
         /\ \A i \in 1..Len(printed) : NumsPrinted[i][1] = NumberOf(i > Reps)
         /\ \A i \in 1..Len(FileLines) : FileLines[i][1] = NumberOf(i > Reps)
<1>1. /\ FileLines \in Seq(Seq(Int)) /\ NumsPrinted \in Seq(Seq(Int))
      /\ Len(NumsPrinted) = Len(printed) /\ Len(FileLines) <= Len(printed)
      /\ \A i \in 1..Len(printed) : NumsPrinted[i] = printed[i].nums
      /\ \A i \in 1..Len(FileLines) : AsPrinted(FileLines[i], NumsPrinted[i])
  BY FileFollows
<1>2. Len(printed) \in Nat /\ DOMAIN printed = 1..Len(printed)
  BY DEF LogInv
<1>3. ASSUME NEW i \in 1..Len(printed)
      PROVE  /\ NumsPrinted[i] \in VictimLines
             /\ NumsPrinted[i][1] = NumberOf(i > Reps)
  <2>1. NumsPrinted[i] \in Seq(Int)
    BY <1>1
  <2>2. LineFormed(i) /\ NumsPrinted[i] = printed[i].nums
    BY <1>1, <1>2 DEF FileInv
  <2>3. /\ Len(NumsPrinted[i]) = 4
        /\ NumsPrinted[i][1] = NumberOf(i > Reps)
        /\ NumsPrinted[i][2] \in MissesOf(program)
    BY <2>2 DEF LineFormed
  <2>4. QED
    BY <2>1, <2>3 DEF VictimLines
<1>4. ASSUME NEW i \in 1..Len(FileLines)
      PROVE  /\ FileLines[i] \in VictimLines
             /\ FileLines[i][1] = NumberOf(i > Reps)
  <2>1. i \in 1..Len(printed) /\ FileLines[i] \in Seq(Int) /\ AsPrinted(FileLines[i], NumsPrinted[i])
    BY <1>1, <1>2
  <2>2. /\ Len(NumsPrinted[i]) = 4 /\ NumsPrinted[i][2] \in MissesOf(program)
        /\ NumsPrinted[i][1] = NumberOf(i > Reps)
    BY <1>3, <2>1 DEF VictimLines
  <2>3. /\ Len(FileLines[i]) = 4
        /\ FileLines[i][1] = NumsPrinted[i][1] /\ FileLines[i][2] = NumsPrinted[i][2]
    BY <2>1, <2>2 DEF AsPrinted
  <2>4. QED
    BY <2>1, <2>2, <2>3 DEF VictimLines
<1>5. FileLines \in Seq(VictimLines) /\ NumsPrinted \in Seq(VictimLines)
  <2>1. \A i \in 1..Len(FileLines) : FileLines[i] \in VictimLines
    BY <1>4
  <2>2. \A i \in 1..Len(NumsPrinted) : NumsPrinted[i] \in VictimLines
    BY <1>1, <1>3
  <2>3. QED
    BY <1>1, <2>1, <2>2, SeqOf
<1>6. QED
  BY <1>3, <1>4, <1>5

LEMMA Matched ==
  ASSUME LogInv, FileInv, NEW s \in ScriptsFor(program), s # "misses" \/ program # "victim"
  PROVE  Matching(s, FileLines) = FileLines
<1> DEFINE P == {i \in DOMAIN FileLines : Matches(s, FileLines[i])}
           m == Len(FileLines)
<1>1. FileLines \in Seq(Seq(Int)) /\ m \in Nat /\ DOMAIN FileLines = 1..m
  BY FileFollows
<1>2. ASSUME NEW i \in 1..m
      PROVE  Matches(s, FileLines[i])
  <2>1. CASE s # "misses"
    BY <2>1 DEF Matches
  <2>2. CASE s = "misses"
    <3>1. program \in Victims /\ program = "victim_count"
      BY <2>2 DEF ScriptsFor, Victims
    <3>2. FileLines[i] \in VictimLines
      BY <1>1, <3>1, VictimFile
    <3>3. FileLines[i][2] \in Nat
      BY <3>1, <3>2, LogAssumption DEF VictimLines, MissesOf
    <3>4. QED
      BY <3>3 DEF Matches
  <2>3. QED
    BY <2>1, <2>2
<1>3. \A i \in 1..m : i \in P <=> i <= m
  BY <1>1, <1>2
<1> HIDE DEF P
<1>4. /\ Kept(FileLines, P) \in Seq(Seq(Int))
      /\ Len(Kept(FileLines, P)) = m
      /\ \A i \in 1..m : Kept(FileLines, P)[i] = FileLines[i]
  <2> DEFINE X == Seq(Int)
  <2>1. FileLines \in Seq(X) /\ m \in Nat /\ m <= Len(FileLines)
    BY <1>1
  <2>2. \A i \in 1..Len(FileLines) : i \in P <=> i <= m
    BY <1>3
  <2> HIDE DEF X, m
  <2>3. QED
    BY <2>1, <2>2, KeptBlock DEF X
<1>5. Kept(FileLines, P) = FileLines
  BY <1>1, <1>4
<1>6. QED
  BY <1>5 DEF Matching, P

LEMMA NoneKept ==
  ASSUME NEW X, NEW s \in Seq(X), NEW P, \A i \in 1..Len(s) : i \notin P
  PROVE  Kept(s, P) = << >>
<1>1. 0 \in Nat /\ 0 <= Len(s) /\ \A i \in 1..Len(s) : i \in P <=> i <= 0
  OBVIOUS
<1>2. Kept(s, P) \in Seq(X) /\ Len(Kept(s, P)) = 0
  BY <1>1, KeptBlock
<1>3. QED
  BY <1>2

LEMMA Unmatched ==
  ASSUME LogInv, FileInv, program = "victim"
  PROVE  Matching("misses", FileLines) = << >>
<1> DEFINE P == {i \in DOMAIN FileLines : Matches("misses", FileLines[i])}
<1>1. FileLines \in Seq(VictimLines)
  BY VictimFile DEF Victims
<1>2. ASSUME NEW i \in 1..Len(FileLines)
      PROVE  i \notin P
  <2>1. FileLines[i][2] = -1
    BY <1>1 DEF VictimLines, MissesOf, Placeholder
  <2>2. QED
    BY <2>1 DEF Matches
<1> HIDE DEF P
<1>3. Kept(FileLines, P) = << >>
  BY <1>1, <1>2, NoneKept
<1>4. QED
  BY <1>3 DEF Matching, P

\* A series that is drawn from a file, and the one that was measured.
SeriesFollows(drawn, measured) ==
  /\ Len(drawn) <= Len(measured)
  /\ WholeLog => drawn = measured
  /\ \A i \in 1..Len(drawn) : \A n \in DOMAIN drawn[i] :
       \/ drawn[i][n] = measured[i][n]
       \/ i = Len(drawn) /\ n = Len(drawn[i]) /\ drawn[i][n] < measured[i][n]

LEMMA SelectFollows ==
  ASSUME LogInv, FileInv, program \in Victims, NEW number \in {0, 1}
  PROVE  /\ SeriesFollows(Select(FileLines, number), Select(NumsPrinted, number))
         /\ \A i \in 1..Len(Select(FileLines, number)) :
              Select(FileLines, number)[i][1] \in MissesOf(program)
<1> DEFINE P == {i \in DOMAIN FileLines : FileLines[i][1] = number}
           Q == {i \in DOMAIN NumsPrinted : NumsPrinted[i][1] = number}
           K == Kept(FileLines, P)
           L == Kept(NumsPrinted, Q)
<1>1. /\ FileLines \in Seq(VictimLines) /\ NumsPrinted \in Seq(VictimLines)
      /\ \A i \in 1..Len(FileLines) : FileLines[i][1] = NumberOf(i > Reps)
      /\ \A i \in 1..Len(NumsPrinted) : NumsPrinted[i][1] = NumberOf(i > Reps)
      /\ Len(FileLines) <= Len(NumsPrinted)
      /\ \A i \in 1..(Len(FileLines) - 1) : FileLines[i] = NumsPrinted[i]
      /\ \A i \in 1..Len(FileLines) : AsPrinted(FileLines[i], NumsPrinted[i])
      /\ WholeLog => FileLines = NumsPrinted
  BY VictimFile, FileFollows
<1>2. \A i \in 1..Len(FileLines) : i \in P <=> i \in Q
  BY <1>1
<1> HIDE DEF P, Q
<1>3. /\ K \in Seq(VictimLines) /\ L \in Seq(VictimLines)
      /\ Len(K) <= Len(L)
      /\ \A i \in 1..Len(K) :
           \/ K[i] = L[i]
           \/ i = Len(K) /\ AsPrinted(K[i], L[i])
  <2> DEFINE m == Len(FileLines)
  <2>1. /\ K \in Seq(VictimLines) /\ L \in Seq(VictimLines)
        /\ Len(K) <= Len(L)
        /\ \A i \in 1..Len(K) :
             \/ K[i] = L[i]
             \/ i = Len(K) /\ m > 0 /\ m \in P /\ K[i] = FileLines[m] /\ L[i] = NumsPrinted[m]
    BY <1>1, <1>2, KeptFollows
  <2>2. m > 0 => AsPrinted(FileLines[m], NumsPrinted[m])
    BY <1>1
  <2>3. QED
    BY <2>1, <2>2
<1>4. /\ Select(FileLines, number) = [i \in DOMAIN K |-> Tail(K[i])]
      /\ Select(NumsPrinted, number) = [i \in DOMAIN L |-> Tail(L[i])]
  BY DEF Select, P, Q
<1>5. WholeLog => Select(FileLines, number) = Select(NumsPrinted, number)
  BY <1>1
<1> DEFINE drawn    == Select(FileLines, number)
           measured == Select(NumsPrinted, number)
<1> HIDE DEF K, L
<1>6. ASSUME NEW J \in Seq(VictimLines)
      PROVE  /\ Len([i \in DOMAIN J |-> Tail(J[i])]) = Len(J)
             /\ \A i \in 1..Len(J) : [k \in DOMAIN J |-> Tail(J[k])][i] = Tail(J[i])
  OBVIOUS
<1>7. /\ Len(drawn) = Len(K) /\ Len(measured) = Len(L)
      /\ \A i \in 1..Len(K) : drawn[i] = Tail(K[i])
      /\ \A i \in 1..Len(L) : measured[i] = Tail(L[i])
  BY <1>3, <1>4, <1>6
<1> HIDE DEF drawn, measured
<1>8. \A line \in VictimLines : /\ Tail(line) \in Seq(Int) /\ Len(Tail(line)) = 3
                                /\ DOMAIN Tail(line) = 1..3
                                /\ \A n \in 1..3 : Tail(line)[n] = line[n + 1]
  BY TailOfFour DEF VictimLines
<1>9. ASSUME NEW i \in 1..Len(K)
      PROVE  /\ drawn[i][1] \in MissesOf(program)
             /\ \A n \in DOMAIN drawn[i] :
                  \/ drawn[i][n] = measured[i][n]
                  \/ i = Len(drawn) /\ n = Len(drawn[i]) /\ drawn[i][n] < measured[i][n]
  <2>1. /\ K[i] \in VictimLines /\ i \in 1..Len(L) /\ L[i] \in VictimLines
    BY <1>3
  <2>2. drawn[i] = Tail(K[i]) /\ measured[i] = Tail(L[i])
    BY <1>7, <2>1
  <2>3. K[i][2] \in MissesOf(program) /\ Len(K[i]) = 4 /\ Len(L[i]) = 4
    BY <2>1 DEF VictimLines
  <2>4. drawn[i][1] \in MissesOf(program)
    BY <1>8, <2>1, <2>2, <2>3
  <2>5. CASE K[i] = L[i]
    BY <2>2, <2>4, <2>5
  <2>6. CASE i = Len(K) /\ AsPrinted(K[i], L[i])
    <3> SUFFICES ASSUME NEW n \in 1..3
                 PROVE  drawn[i][n] = measured[i][n] \/ (n = 3 /\ drawn[i][n] < measured[i][n])
      BY <1>7, <1>8, <2>1, <2>2, <2>4, <2>6
    <3>1. n + 1 \in 1..4 /\ (n + 1 = 4 => n = 3)
      OBVIOUS
    <3>2. K[i][n + 1] = L[i][n + 1] \/ (n + 1 = 4 /\ K[i][n + 1] < L[i][n + 1])
      BY <2>3, <2>6, <3>1 DEF AsPrinted
    <3>3. drawn[i][n] = K[i][n + 1] /\ measured[i][n] = L[i][n + 1]
      BY <1>8, <2>1, <2>2
    <3>4. QED
      BY <3>1, <3>2, <3>3
  <2>7. QED
    BY <1>3, <2>5, <2>6
<1>10. QED
  BY <1>3, <1>5, <1>7, <1>9 DEF SeriesFollows, drawn, measured

LEMMA ColumnOf ==
  ASSUME NEW X, NEW s \in Seq(X), NEW n
  PROVE  /\ Len(Column(s, n)) = Len(s)
         /\ \A i \in 1..Len(s) : Column(s, n)[i] = <<s[i][n]>>
BY DEF Column

\* The last number of a line of two, and the one before it.
LEMMA NumberFollows ==
  ASSUME NEW line, NEW nums, AsPrinted(line, nums), Len(nums) = 2, NEW n \in {1, 2}
  PROVE  line[n] = nums[n] \/ line[n] < nums[n]
BY DEF AsPrinted

LEMMA ColumnFollows ==
  ASSUME LogInv, FileInv, program \notin Victims, NEW n \in {1, 2}
  PROVE  SeriesFollows(Column(FileLines, n), Column(NumsPrinted, n))
<1> DEFINE drawn    == Column(FileLines, n)
           measured == Column(NumsPrinted, n)
           X        == Seq(Int)
<1>1. FileLines \in Seq(X) /\ NumsPrinted \in Seq(X)
  BY FileFollows
<1>2. /\ Len(NumsPrinted) = Len(printed)
      /\ \A i \in 1..Len(printed) : NumsPrinted[i] = printed[i].nums
  BY FileFollows
<1>3. /\ Len(FileLines) <= Len(printed)
      /\ \A i \in 1..(Len(FileLines) - 1) : FileLines[i] = NumsPrinted[i]
      /\ \A i \in 1..Len(FileLines) : AsPrinted(FileLines[i], NumsPrinted[i])
      /\ WholeLog => FileLines = NumsPrinted
  BY FileFollows
<1>4. Len(printed) \in Nat /\ DOMAIN printed = 1..Len(printed)
  BY DEF LogInv
<1> HIDE DEF X
<1>5. /\ Len(drawn) = Len(FileLines) /\ Len(measured) = Len(printed)
      /\ \A i \in 1..Len(FileLines) : drawn[i] = <<FileLines[i][n]>>
      /\ \A i \in 1..Len(printed) : measured[i] = <<NumsPrinted[i][n]>>
  BY <1>1, <1>2, ColumnOf
<1>6. WholeLog => drawn = measured
  BY <1>3
<1> HIDE DEF drawn, measured
<1>7. Len(FileLines) \in Nat
  BY <1>1
<1>8. \A i \in 1..Len(printed) : Len(NumsPrinted[i]) = 2
  <2> SUFFICES ASSUME NEW i \in 1..Len(printed)
               PROVE  Len(NumsPrinted[i]) = 2
    OBVIOUS
  <2>1. LineFormed(i) /\ NumsPrinted[i] = printed[i].nums
    BY <1>2, <1>4 DEF FileInv
  <2>2. QED
    BY <2>1 DEF LineFormed
<1>9. ASSUME NEW i \in 1..Len(FileLines)
      PROVE  /\ DOMAIN drawn[i] = {1} /\ Len(drawn[i]) = 1
             /\ drawn[i][1] = measured[i][1] \/ (i = Len(FileLines) /\ drawn[i][1] < measured[i][1])
  <2>1. i \in 1..Len(printed)
    BY <1>3, <1>4, <1>7
  <2>2. drawn[i] = <<FileLines[i][n]>> /\ measured[i] = <<NumsPrinted[i][n]>>
    BY <1>5, <2>1
  <2>3. FileLines[i][n] = NumsPrinted[i][n] \/ (i = Len(FileLines) /\ FileLines[i][n] < NumsPrinted[i][n])
    <3>1. CASE i = Len(FileLines)
      <4>1. Len(NumsPrinted[i]) = 2 /\ AsPrinted(FileLines[i], NumsPrinted[i])
        BY <1>3, <1>8, <2>1
      <4>2. FileLines[i][n] = NumsPrinted[i][n] \/ FileLines[i][n] < NumsPrinted[i][n]
        BY <4>1, NumberFollows
      <4>3. QED
        BY <3>1, <4>2
    <3>2. CASE i # Len(FileLines)
      <4>1. i \in 1..(Len(FileLines) - 1)
        BY <1>7, <3>2
      <4>2. QED
        BY <1>3, <4>1
    <3>3. QED
      BY <3>1, <3>2
  <2>4. QED
    BY <2>2, <2>3
<1>10. SeriesFollows(drawn, measured)
  <2>1. Len(drawn) <= Len(measured)
    BY <1>3, <1>5
  <2>2. ASSUME NEW i \in 1..Len(drawn), NEW k \in DOMAIN drawn[i]
        PROVE  \/ drawn[i][k] = measured[i][k]
               \/ i = Len(drawn) /\ k = Len(drawn[i]) /\ drawn[i][k] < measured[i][k]
    <3>1. i \in 1..Len(FileLines) /\ k = 1
      BY <1>5, <1>9
    <3>2. QED
      BY <1>5, <1>9, <3>1
  <2>3. QED
    BY <1>6, <2>1, <2>2 DEF SeriesFollows
<1>11. QED
  BY <1>10 DEF drawn, measured

\* The clear series of victim-bn is that of the first repetitions.
LEMMA ClearWhole ==
  ASSUME LogInv, FileInv, program \in Victims, Select(FileLines, 1) # << >>
  PROVE  /\ patched
         /\ Len(Select(FileLines, 0)) = Reps
         /\ Select(FileLines, 0) = Select(NumsPrinted, 0)
<1> DEFINE m == Len(FileLines)
           ones == {i \in DOMAIN FileLines : FileLines[i][1] = 1}
           P == {i \in DOMAIN FileLines : FileLines[i][1] = 0}
           Q == {i \in DOMAIN NumsPrinted : NumsPrinted[i][1] = 0}
<1>1. /\ FileLines \in Seq(VictimLines) /\ NumsPrinted \in Seq(VictimLines)
      /\ \A i \in 1..m : FileLines[i][1] = NumberOf(i > Reps)
      /\ \A i \in 1..Len(NumsPrinted) : NumsPrinted[i][1] = NumberOf(i > Reps)
      /\ m \in Nat /\ Len(NumsPrinted) \in Nat /\ m <= Len(NumsPrinted)
      /\ Len(NumsPrinted) = Len(printed) /\ DOMAIN printed = 1..Len(printed)
      /\ DOMAIN FileLines = 1..m /\ DOMAIN NumsPrinted = 1..Len(NumsPrinted)
      /\ \A i \in 1..(m - 1) : FileLines[i] = NumsPrinted[i]
  BY VictimFile, FileFollows DEF LogInv
<1>2. Reps \in Nat
  BY LogAssumption
<1>3. /\ \A i \in 1..m : i \in ones <=> i > Reps
      /\ \A i \in 1..m : i \in P <=> i <= Reps
      /\ \A i \in 1..Len(NumsPrinted) : i \in Q <=> i <= Reps
  BY <1>1, <1>2 DEF NumberOf
<1>4. Select(FileLines, 1) = [i \in DOMAIN Kept(FileLines, ones) |-> Tail(Kept(FileLines, ones)[i])]
  BY DEF Select
<1>5. /\ Select(FileLines, 0) = [i \in DOMAIN Kept(FileLines, P) |-> Tail(Kept(FileLines, P)[i])]
      /\ Select(NumsPrinted, 0) = [i \in DOMAIN Kept(NumsPrinted, Q) |-> Tail(Kept(NumsPrinted, Q)[i])]
  BY DEF Select
<1> HIDE DEF ones, P, Q
<1>6. Reps < m
  <2> SUFFICES ASSUME m <= Reps
               PROVE  FALSE
    BY <1>1, <1>2
  <2>1. \A i \in 1..m : i \notin ones
    BY <1>1, <1>2, <1>3
  <2>2. Kept(FileLines, ones) = << >>
    BY <1>1, <2>1, NoneKept
  <2>3. QED
    BY <1>4, <2>2
<1>7. patched
  <2>1. Reps + 1 \in DOMAIN printed /\ Reps + 1 > Reps
    BY <1>1, <1>2, <1>6
  <2>2. QED
    BY <2>1 DEF FileInv, LineFormed
<1>8. /\ Kept(FileLines, P) \in Seq(VictimLines) /\ Len(Kept(FileLines, P)) = Reps
      /\ \A i \in 1..Reps : Kept(FileLines, P)[i] = FileLines[i]
  <2>1. Reps <= Len(FileLines) /\ \A i \in 1..Len(FileLines) : i \in P <=> i <= Reps
    BY <1>1, <1>2, <1>3, <1>6
  <2>2. FileLines \in Seq(VictimLines)
    BY <1>1
  <2>3. QED
    BY <1>2, <2>1, <2>2, KeptBlock
<1>9. /\ Kept(NumsPrinted, Q) \in Seq(VictimLines) /\ Len(Kept(NumsPrinted, Q)) = Reps
      /\ \A i \in 1..Reps : Kept(NumsPrinted, Q)[i] = NumsPrinted[i]
  <2>1. Reps <= Len(NumsPrinted)
    BY <1>1, <1>2, <1>6
  <2>2. QED
    BY <1>1, <1>2, <1>3, <2>1, KeptBlock
<1>10. \A i \in 1..Reps : FileLines[i] = NumsPrinted[i]
  BY <1>1, <1>2, <1>6
<1>11. Kept(FileLines, P) = Kept(NumsPrinted, Q)
  BY <1>2, <1>8, <1>9, <1>10
<1>12. Len(Select(FileLines, 0)) = Reps
  BY <1>2, <1>5, <1>8
<1>13. QED
  BY <1>5, <1>7, <1>11, <1>12

LEMMA NothingFollows == SeriesFollows(<< >>, << >>)
<1>1. Len(<< >>) = 0
  OBVIOUS
<1>2. QED
  BY <1>1 DEF SeriesFollows

LEMMA MeasuredIs ==
  ASSUME program \in LogPrograms
  PROVE  /\ program \in Victims =>
              Measured("set") = Select(NumsPrinted, 1) /\ Measured("clear") = Select(NumsPrinted, 0)
         /\ program = "syscall" =>
              Measured("set") = Column(NumsPrinted, 1) /\ Measured("clear") = Column(NumsPrinted, 2)
         /\ program = "to_set" =>
              Measured("set") = Column(NumsPrinted, 2) /\ Measured("clear") = << >>
         /\ program = "to_clear" =>
              Measured("set") = << >> /\ Measured("clear") = Column(NumsPrinted, 2)
<1>1. CASE program \in Victims
  <2>1. program # "syscall" /\ program # "to_set" /\ program # "to_clear"
    BY <1>1 DEF Victims
  <2>2. NumberOf("set" = "set") = 1 /\ NumberOf("clear" = "set") = 0
    BY DEF NumberOf
  <2>3. QED
    BY <1>1, <2>1, <2>2 DEF Measured, NumsPrinted
<1>2. CASE program = "syscall"
  BY <1>2 DEF Measured, NumsPrinted, Victims
<1>3. CASE program \in Readers
  BY <1>3 DEF Measured, NumsPrinted, Victims, Readers
<1>4. QED
  BY <1>1, <1>2, <1>3 DEF LogPrograms

LEMMA ParsedIs ==
  ASSUME program \in LogPrograms, NEW text
  PROVE  /\ program \in Victims =>
              Parsed(text) = [set |-> Select(text, 1), clear |-> Select(text, 0)]
         /\ program = "syscall" =>
              Parsed(text) = [set |-> Column(text, 1), clear |-> Column(text, 2)]
         /\ program = "to_set" =>
              Parsed(text) = [set |-> Column(text, 2), clear |-> << >>]
         /\ program = "to_clear" =>
              Parsed(text) = [set |-> << >>, clear |-> Column(text, 2)]
BY DEF Parsed, Victims, Readers, LogPrograms

\* What a script draws, if it does.
LEMMA SeriesDrawn ==
  ASSUME LogInv, FileInv, NEW s \in ScriptsFor(program), DrawLog(s), logPhase' = "drawn"
  PROVE  /\ \A name \in {"set", "clear"} : SeriesFollows(series'[name], Measured(name))
         /\ s = "misses" => \A name \in {"set", "clear"} : \A i \in 1..Len(series'[name]) :
                              series'[name][i][1] \in Misses
         /\ program \in Victims =>
              /\ patched
              /\ Len(series'.clear) = Reps
              /\ series'.clear = Measured("clear")
<1> DEFINE parsed == Parsed(Matching(s, FileLines))
<1>1. program \in LogPrograms
  BY DEF LogInv
<1>2. /\ series' = parsed
      /\ s # "plot" => parsed.set # << >> /\ parsed.clear # << >>
  BY DEF DrawLog
<1>3. program \in Victims => s # "plot"
  BY DEF ScriptsFor
<1>4. s # "misses" \/ program # "victim"
  <2> SUFFICES ASSUME s = "misses", program = "victim"
               PROVE  FALSE
    OBVIOUS
  <2>1. program \in Victims
    BY DEF Victims
  <2>2. Matching(s, FileLines) = << >>
    BY Unmatched
  <2>3. parsed.set = Select(<< >>, 1)
    BY <1>1, <2>1, <2>2, ParsedIs
  <2>4. Select(<< >>, 1) = << >>
    <3> DEFINE P == {i \in DOMAIN << >> : << >>[i][1] = 1}
    <3>1. << >> \in Seq(Int) /\ \A i \in 1..Len(<< >>) : i \notin P
      OBVIOUS
    <3>2. Select(<< >>, 1) = [i \in DOMAIN Kept(<< >>, P) |-> Tail(Kept(<< >>, P)[i])]
      BY DEF Select
    <3> HIDE DEF P
    <3>3. Kept(<< >>, P) = << >>
      BY <3>1, NoneKept
    <3>4. QED
      BY <3>2, <3>3
  <2>5. QED
    BY <1>2, <1>3, <2>1, <2>3, <2>4
<1>5. series' = Parsed(FileLines) /\ parsed = Parsed(FileLines)
  BY <1>2, <1>4, Matched
<1> HIDE DEF parsed
<1>6. CASE program \in Victims
  <2>1. series' = [set |-> Select(FileLines, 1), clear |-> Select(FileLines, 0)]
    BY <1>1, <1>5, <1>6, ParsedIs
  <2>2. series'.set = Select(FileLines, 1) /\ series'.clear = Select(FileLines, 0)
    BY <2>1
  <2>3. /\ SeriesFollows(Select(FileLines, 1), Select(NumsPrinted, 1))
        /\ SeriesFollows(Select(FileLines, 0), Select(NumsPrinted, 0))
        /\ \A i \in 1..Len(Select(FileLines, 1)) : Select(FileLines, 1)[i][1] \in MissesOf(program)
        /\ \A i \in 1..Len(Select(FileLines, 0)) : Select(FileLines, 0)[i][1] \in MissesOf(program)
    BY <1>6, SelectFollows
  <2>4. Measured("set") = Select(NumsPrinted, 1) /\ Measured("clear") = Select(NumsPrinted, 0)
    BY <1>1, <1>6, MeasuredIs
  <2>5. \A name \in {"set", "clear"} : SeriesFollows(series'[name], Measured(name))
    BY <2>2, <2>3, <2>4
  <2>6. s = "misses" => MissesOf(program) = Misses
    BY <1>4, <1>6 DEF MissesOf, Victims
  <2>7. s = "misses" => \A name \in {"set", "clear"} : \A i \in 1..Len(series'[name]) :
                          series'[name][i][1] \in Misses
    BY <2>2, <2>3, <2>6
  <2>8. Select(FileLines, 1) # << >>
    BY <1>2, <1>3, <1>5, <1>6, <2>2
  <2>9. patched /\ Len(Select(FileLines, 0)) = Reps /\ Select(FileLines, 0) = Select(NumsPrinted, 0)
    BY <1>6, <2>8, ClearWhole
  <2>10. QED
    BY <2>2, <2>4, <2>5, <2>7, <2>9
<1>7. CASE program \notin Victims
  <2>1. s # "misses"
    BY <1>7 DEF ScriptsFor
  <2>2. /\ SeriesFollows(Column(FileLines, 1), Column(NumsPrinted, 1))
        /\ SeriesFollows(Column(FileLines, 2), Column(NumsPrinted, 2))
    BY <1>7, ColumnFollows
  <2>3. CASE program = "syscall"
    <3>1. series' = [set |-> Column(FileLines, 1), clear |-> Column(FileLines, 2)]
      BY <1>1, <1>5, <2>3, ParsedIs
    <3>2. Measured("set") = Column(NumsPrinted, 1) /\ Measured("clear") = Column(NumsPrinted, 2)
      BY <1>1, <2>3, MeasuredIs
    <3>3. QED
      BY <1>7, <2>1, <2>2, <3>1, <3>2
  <2>4. CASE program = "to_set"
    <3>1. series' = [set |-> Column(FileLines, 2), clear |-> << >>]
      BY <1>1, <1>5, <2>4, ParsedIs
    <3>2. Measured("set") = Column(NumsPrinted, 2) /\ Measured("clear") = << >>
      BY <1>1, <2>4, MeasuredIs
    <3>3. QED
      BY <1>7, <2>1, <2>2, <3>1, <3>2, NothingFollows
  <2>5. CASE program = "to_clear"
    <3>1. series' = [set |-> << >>, clear |-> Column(FileLines, 2)]
      BY <1>1, <1>5, <2>5, ParsedIs
    <3>2. Measured("set") = << >> /\ Measured("clear") = Column(NumsPrinted, 2)
      BY <1>1, <2>5, MeasuredIs
    <3>3. QED
      BY <1>7, <2>1, <2>2, <3>1, <3>2, NothingFollows
  <2>6. QED
    BY <1>1, <1>7, <2>3, <2>4, <2>5 DEF LogPrograms, Readers
<1>8. QED
  BY <1>6, <1>7

LEMMA DrawnStep ==
  ASSUME LogInv, FileInv, DrawnAsMeasured, AcceptedRunWhole, [LogNext]_logVars
  PROVE  DrawnAsMeasured' /\ AcceptedRunWhole'
<1>1. CASE UNCHANGED logVars
  BY <1>1 DEF logVars, DrawnAsMeasured, AcceptedRunWhole, Measured, WholeLog
<1>2. ASSUME logPhase' # "drawn"
      PROVE  DrawnAsMeasured' /\ AcceptedRunWhole'
  BY <1>2 DEF DrawnAsMeasured, AcceptedRunWhole
<1>3. CASE Repetition \/ End \/ KillProgram
  <2>1. logPhase = "measuring"
    BY <1>3 DEF Repetition, End, KillProgram
  <2>2. logPhase' \in {"measuring", "ended", "killed"}
    <3>1. CASE Repetition
      BY <2>1, <3>1 DEF Repetition, VictimRepetition, SyscallSample,
                            ReaderSample, ExitAfter, PrintLine
    <3>2. CASE End \/ KillProgram
      BY <3>2 DEF End, KillProgram, ExitAfter
    <3>3. QED
      BY <1>3, <3>1, <3>2
  <2>3. QED
    BY <1>2, <2>2
<1>4. ASSUME NEW s \in ScriptsFor(program), DrawLog(s)
      PROVE  DrawnAsMeasured' /\ AcceptedRunWhole'
  <2>1. CASE logPhase' # "drawn"
    BY <1>2, <2>1
  <2>2. CASE logPhase' = "drawn"
    <3>1. UNCHANGED <<program, printed, written, patched>> /\ script' = s
      BY <1>4 DEF DrawLog
    <3>2. /\ Measured("set")' = Measured("set") /\ Measured("clear")' = Measured("clear")
          /\ WholeLog' = WholeLog
      BY <3>1 DEF Measured, WholeLog
    <3>3. /\ \A name \in {"set", "clear"} : SeriesFollows(series'[name], Measured(name))
          /\ s = "misses" => \A name \in {"set", "clear"} : \A i \in 1..Len(series'[name]) :
                               series'[name][i][1] \in Misses
          /\ program \in Victims =>
               /\ patched
               /\ Len(series'.clear) = Reps
               /\ series'.clear = Measured("clear")
      BY <1>4, <2>2, SeriesDrawn
    <3>4. AcceptedRunWhole'
      BY <3>1, <3>2, <3>3 DEF AcceptedRunWhole
    <3>5. DrawnAsMeasured'
      <4> SUFFICES ASSUME NEW name \in {"set", "clear"}
                   PROVE  LET drawn == series'[name]
                              last  == Len(drawn)
                          IN /\ last <= Len(Measured(name)')
                             /\ WholeLog' => drawn = Measured(name)'
                             /\ \A i \in 1..last : \A n \in DOMAIN drawn[i] :
                                  \/ drawn[i][n] = Measured(name)'[i][n]
                                  \/ /\ i = last /\ n = Len(drawn[i])
                                     /\ drawn[i][n] < Measured(name)'[i][n]
                             /\ script' = "misses" => \A i \in 1..last : drawn[i][1] \in Misses
        BY DEF DrawnAsMeasured
      <4>1. Measured(name)' = Measured(name)
        BY <3>2
      <4>2. SeriesFollows(series'[name], Measured(name))
        BY <3>3
      <4>3. script' = "misses" => \A i \in 1..Len(series'[name]) : series'[name][i][1] \in Misses
        BY <3>1, <3>3
      <4>4. QED
        BY <3>2, <4>1, <4>2, <4>3 DEF SeriesFollows
    <3>6. QED
      BY <3>4, <3>5
  <2>3. QED
    BY <2>1, <2>2
<1>5. QED
  BY <1>1, <1>3, <1>4 DEF LogNext, LogOver

(***************************************************************************)
(* The inductive invariant of the programs that measure, for any number of *)
(* repetitions, and whatever they measure.                                 *)
(***************************************************************************)
THEOREM LogsSafety == LogSpec => []LogsInv
<1>1. LogInit => LogsInv
  <2> SUFFICES ASSUME LogInit PROVE LogsInv
    OBVIOUS
  <2>1. printed = << >> /\ written = 0 /\ logPhase = "measuring" /\ DOMAIN printed = {}
    BY DEF LogInit
  <2>2. LogInv
    BY LogInitInv
  <2>3. FileInv
    BY <2>1 DEF FileInv
  <2>4. DrawnAsMeasured /\ AcceptedRunWhole
    BY <2>1 DEF DrawnAsMeasured, AcceptedRunWhole
  <2>5. QED
    BY <2>2, <2>3, <2>4 DEF LogsInv
<1>2. LogsInv /\ [LogNext]_logVars => LogsInv'
  BY LogInvStep, FileInvStep, DrawnStep DEF LogsInv
<1>3. QED
  BY <1>1, <1>2, PTL DEF LogSpec

(***************************************************************************)
(* Each series is measured with the flag its name says.                    *)
(***************************************************************************)
THEOREM SeriesNamedRight == LogSpec => []SeriesAsNamed
<1>1. LogsInv => SeriesAsNamed
  BY DEF LogsInv, LogInv
<1>2. QED
  BY <1>1, LogsSafety, PTL

(***************************************************************************)
(* The scripts draw what was measured, wherever the file was cut.          *)
(***************************************************************************)
THEOREM DrawnRight == LogSpec => []DrawnAsMeasured
<1>1. LogsInv => DrawnAsMeasured
  BY DEF LogsInv
<1>2. QED
  BY <1>1, LogsSafety, PTL

(***************************************************************************)
(* A log of victim-bn that a script accepts has its whole clear series.    *)
(***************************************************************************)
THEOREM AcceptedRunsWhole == LogSpec => []AcceptedRunWhole
<1>1. LogsInv => AcceptedRunWhole
  BY DEF LogsInv
<1>2. QED
  BY <1>1, LogsSafety, PTL

-----------------------------------------------------------------------------
(* The measurement of a context switch.                                    *)

LEMMA StampFacts ==
  ASSUME NEW n \in Nat
  PROVE  /\ n % Stamps \in Nat /\ n % Stamps <= n
         /\ n < Stamps => n % Stamps = n
         /\ n >= Stamps => n % Stamps < n
<1>1. Stamps \in Nat /\ Stamps > 0
  BY ContextAssumption
<1>2. QED
  BY <1>1

LEMMA ContextStart == ContextInit => ContextInv
<1> SUFFICES ASSUME ContextInit PROVE ContextInv
  OBVIOUS
<1>1. MaxSegments \in Nat
  BY ContextAssumption
<1>2. IsWord(Zero)
  <2>1. 0 % Stamps = 0
    BY StampFacts
  <2>2. QED
    BY <2>1 DEF IsWord, Zero
<1>3. WriterInv
  <2>1. \A s \in 1..MaxSegments : IsWord(memory[s]) /\ memory[s].clock = 0
    BY <1>2 DEF ContextInit, ContextIdle, Zero
  <2>2. memory = [s \in 1..MaxSegments |-> memory[s]]
    BY DEF ContextInit, ContextIdle
  <2>3. QED
    BY <1>1, <2>1, <2>2 DEF ContextInit, ContextIdle, WriterInv
<1>4. ReaderInv
  BY DEF ContextInit, ContextIdle, ReaderInv, NoSample
<1>5. NeverUnderestimates
  BY ContextAssumption DEF ContextInit, ContextIdle, NeverUnderestimates, NoSample
<1>6. QED
  BY <1>3, <1>4, <1>5 DEF ContextInv

(***************************************************************************)
(* The writer's steps: a stored word is newer than all that the reader     *)
(* knows of.                                                               *)
(***************************************************************************)
LEMMA WriterStep ==
  ASSUME ContextInv, StartWriter \/ Stamp \/ Store \/ EndWriter
  PROVE  ContextInv'
<1>1. UNCHANGED readerVars
  BY DEF StartWriter, Stamp, Store, EndWriter
<1>2. NeverUnderestimates'
  BY <1>1 DEF readerVars, ContextInv, NeverUnderestimates
<1>3. ASSUME memory' = memory
      PROVE  ReaderInv'
  BY <1>1, <1>3 DEF readerVars, ContextInv, ReaderInv, NotBeforeSample, IsWord
<1>a. /\ clock \in Nat \ {0} /\ writerRan \in 0..clock
      /\ segments \in 0..MaxSegments /\ linked \in 0..segments
      /\ MaxSegments \in Nat
      /\ memory = [s \in 1..MaxSegments |-> memory[s]]
      /\ \A s \in 1..MaxSegments : IsWord(memory[s]) /\ memory[s].clock <= writerRan
      /\ \A s \in 1..MaxSegments : memory[s].clock \in Nat /\ memory[s].clock < clock
  BY ContextAssumption DEF ContextInv, WriterInv, IsWord
<1>4. CASE StartWriter
  <2>1. memory' = memory /\ clock' = clock /\ writerRan' = clock /\ writer' = "stamp"
    BY <1>4 DEF StartWriter, segmentVars
  <2>2. /\ segments' \in 0..MaxSegments /\ linked' \in 0..segments'
        /\ writerAt' \in 1..MaxSegments
    BY <1>4, <1>a DEF StartWriter, segmentVars
  <2>3. \A s \in 1..MaxSegments : IsWord(memory'[s]) /\ memory'[s].clock <= writerRan'
    BY <1>a, <2>1
  <2>4. WriterInv'
    BY <1>a, <2>1, <2>2, <2>3 DEF WriterInv, IsWord
  <2>5. QED
    BY <1>2, <1>3, <2>1, <2>4 DEF ContextInv
<1>5. CASE Stamp
  <2>1. /\ memory' = memory /\ clock' = clock + 1 /\ writerRan' = clock + 1
        /\ linked' = linked /\ segments' = segments /\ writerAt' = writerAt
    BY <1>5 DEF Stamp, Rdtsc, segmentVars
  <2>2. /\ value'.clock = clock
        /\ IsWord(value')
    BY <1>5 DEF Stamp, IsWord, ContextInv, WriterInv
  <2>3. \A s \in 1..MaxSegments :
           IsWord(memory'[s]) /\ memory'[s].clock <= writerRan' /\ memory'[s].clock < value'.clock
    BY <1>a, <2>1, <2>2 DEF ContextInv, WriterInv
  <2>4. WriterInv'
    BY <1>5, <1>a, <2>1, <2>2, <2>3 DEF Stamp, ContextInv, WriterInv, IsWord
  <2>5. QED
    BY <1>2, <1>3, <2>1, <2>4 DEF ContextInv
<1>6. CASE Store
  <2>1. /\ clock' = clock /\ writerRan' = clock
        /\ linked' = linked /\ segments' = segments /\ writerAt' = writerAt
        /\ memory' = [memory EXCEPT ![writerAt] = value]
    BY <1>6 DEF Store
  <2>2. /\ IsWord(value) /\ value.clock < clock
        /\ \A s \in 1..MaxSegments : memory[s].clock < value.clock
        /\ writerAt \in 1..MaxSegments
    BY <1>6 DEF Store, ContextInv, WriterInv
  <2>3. \A s \in 1..MaxSegments : memory'[s] = IF s = writerAt THEN value ELSE memory[s]
    BY <2>1, <2>2 DEF ContextInv, WriterInv
  <2>4. WriterInv'
    <3>1. memory' = [s \in 1..MaxSegments |-> memory'[s]]
      BY <2>1 DEF ContextInv, WriterInv
    <3>2. \A s \in 1..MaxSegments :
             IsWord(memory'[s]) /\ memory'[s].clock < clock /\ memory'[s].clock <= clock
      BY <2>2, <2>3 DEF ContextInv, WriterInv, IsWord
    <3>3. QED
      BY <1>6, <2>1, <3>1, <3>2 DEF Store, ContextInv, WriterInv, IsWord
  <2>5. ReaderInv'
    BY <1>1, <2>2, <2>3 DEF readerVars, ContextInv, WriterInv, ReaderInv, NotBeforeSample, IsWord
  <2>6. QED
    BY <1>2, <2>4, <2>5 DEF ContextInv
<1>7. CASE EndWriter
  <2>1. memory' = memory
    BY <1>7 DEF EndWriter
  <2>2. WriterInv'
    BY <1>7, <2>1 DEF EndWriter, ContextInv, WriterInv, IsWord
  <2>3. QED
    BY <1>2, <1>3, <2>1, <2>2 DEF ContextInv
<1>8. QED
  BY <1>4, <1>5, <1>6, <1>7

\* What a sample says, and that it is newer than the last.
LEMMA SampleTaken ==
  ASSUME ContextInv, TakeSample, word.counter # prevCounter
  PROVE  /\ sample'.clock = word.clock /\ prevCounter' = word.counter
         /\ samples' = samples + 1
         /\ sample'.clock > sample.clock
         /\ NeverUnderestimates'
<1>1. /\ sample' = [delta |-> now - word.stamp, gap |-> now - gapFrom,
                    clock |-> word.clock, now |-> now]
      /\ prevCounter' = word.counter /\ samples' = samples + 1
      /\ reader = "test"
  BY DEF TakeSample
<1>2. /\ word.clock \in Nat /\ word.stamp = word.clock % Stamps
      /\ word.clock <= gapFrom /\ now \in Nat /\ gapFrom \in Nat
      /\ sample.clock \in Nat /\ sample.clock < word.clock
  BY <1>1 DEF ContextInv, ReaderInv, NotBeforeSample, IsWord
<1>3. NeverUnderestimates'
  BY <1>1, <1>2, StampFacts, ContextAssumption DEF NeverUnderestimates
<1>4. QED
  BY <1>1, <1>2, <1>3

LEMMA ReaderStep ==
  ASSUME ContextInv, StartReader \/ Load \/ ReadClock \/ TakeSample \/ EndReader
  PROVE  ContextInv'
<1>1. WriterInv'
  <2>1. /\ UNCHANGED <<segmentVars, writerVars, writerRan>>
        /\ clock' = clock \/ clock' = clock + 1
    BY DEF StartReader, Load, ReadClock, Rdtsc, TakeSample, EndReader
  <2>2. QED
    BY <2>1 DEF segmentVars, writerVars, ContextInv, WriterInv, IsWord
<1>2. memory' = memory
  BY DEF StartReader, Load, ReadClock, TakeSample, EndReader, segmentVars
<1>3. CASE StartReader
  <2>1. /\ readerAt' \in 1..MaxSegments
        /\ samples' = 0 /\ prevCounter' = 0 /\ sample' = NoSample
        /\ reader' = "load" /\ now' = now /\ gapFrom' = gapFrom
    BY <1>3, ContextAssumption DEF StartReader, ContextInv, WriterInv
  <2>2. memory[readerAt'].clock \in Nat
        /\ (memory[readerAt'].clock = 0 => memory[readerAt'].counter = 0)
    BY <2>1 DEF ContextInv, WriterInv, IsWord
  <2>3. ReaderInv'
    BY <1>2, <2>1, <2>2 DEF ContextInv, ReaderInv, NotBeforeSample, NoSample
  <2>4. NeverUnderestimates'
    BY <2>1, ContextAssumption DEF NeverUnderestimates, NoSample
  <2>5. QED
    BY <1>1, <2>3, <2>4 DEF ContextInv
<1>4. CASE Load
  <2>1. NeverUnderestimates'
    BY <1>4 DEF Load, ContextInv, NeverUnderestimates
  <2>2. IsWord(memory[readerAt]) /\ memory[readerAt].clock <= writerRan
        /\ writerRan \in Nat
    BY <1>4 DEF Load, ContextInv, WriterInv, ReaderInv
  <2>3. ReaderInv'
    BY <1>2, <1>4, <2>2 DEF Load, ContextInv, ReaderInv, NotBeforeSample, IsWord
  <2>4. QED
    BY <1>1, <2>1, <2>3 DEF ContextInv
<1>5. CASE ReadClock
  <2>1. NeverUnderestimates'
    BY <1>5 DEF ReadClock, ContextInv, NeverUnderestimates
  <2>2. now' \in Nat
    BY <1>5 DEF ReadClock, ContextInv, WriterInv
  <2>3. ReaderInv'
    BY <1>2, <1>5, <2>2 DEF ReadClock, ContextInv, ReaderInv, NotBeforeSample, IsWord
  <2>4. QED
    BY <1>1, <2>1, <2>3 DEF ContextInv
<1>6. CASE TakeSample
  <2>1. /\ reader = "test" /\ reader' \in {"off", "load"} /\ readerAt' = readerAt
        /\ now' = 0 /\ gapFrom' = 0
    BY <1>6 DEF TakeSample
  <2>2. CASE word.counter # prevCounter
    <3>1. ReaderInv'
      BY <1>2, <1>6, <2>1, <2>2, SampleTaken DEF ContextInv, ReaderInv, NotBeforeSample, IsWord
    <3>2. QED
      BY <1>1, <1>6, <2>2, <3>1, SampleTaken DEF ContextInv
  <2>3. CASE word.counter = prevCounter
    <3>1. sample' = sample /\ prevCounter' = prevCounter /\ samples' = samples
      BY <1>6, <2>3 DEF TakeSample
    <3>2. ReaderInv' /\ NeverUnderestimates'
      BY <1>2, <2>1, <3>1 DEF ContextInv, ReaderInv, NotBeforeSample, NeverUnderestimates
    <3>3. QED
      BY <1>1, <3>2 DEF ContextInv
  <2>4. QED
    BY <2>2, <2>3
<1>7. CASE EndReader
  <2>1. ReaderInv' /\ NeverUnderestimates'
    BY <1>2, <1>7 DEF EndReader, ContextInv, ReaderInv, NeverUnderestimates
  <2>2. QED
    BY <1>1, <2>1 DEF ContextInv
<1>8. QED
  BY <1>3, <1>4, <1>5, <1>6, <1>7

LEMMA ContextInvStep ==
  ASSUME ContextInv, [ContextNext]_contextVars
  PROVE  ContextInv'
<1>1. CASE UNCHANGED contextVars
  BY <1>1 DEF contextVars, segmentVars, writerVars, readerVars, ContextInv, WriterInv,
     ReaderInv, NotBeforeSample, IsWord, NeverUnderestimates
<1>2. CASE ContextNext
  BY <1>2, WriterStep, ReaderStep DEF ContextNext
<1>3. QED
  BY <1>1, <1>2

THEOREM ContextSafety == ContextSpec => []ContextInv
<1>1. ContextInit => ContextInv
  BY ContextStart
<1>2. ContextInv /\ [ContextNext]_contextVars => ContextInv'
  BY ContextInvStep
<1>3. QED
  BY <1>1, <1>2, PTL DEF ContextSpec

(***************************************************************************)
(* A sample of main-to-clear or main-to-set is never too short, for every  *)
(* width of the counter and of the clock in a word.                        *)
(***************************************************************************)
THEOREM SamplesNotTooShort == ContextSpec => []NeverUnderestimates
<1>1. ContextInv => NeverUnderestimates
  BY DEF ContextInv
<1>2. QED
  BY <1>1, ContextSafety, PTL

(***************************************************************************)
(* No stamp gives two samples, however the counter wraps around.           *)
(***************************************************************************)
THEOREM StampsTakenOnce == ContextSpec => OneSamplePerStamp
<1>1. ContextInv /\ [ContextNext]_contextVars
        => [samples' > samples => sample'.clock > sample.clock]_contextVars
  <2> SUFFICES ASSUME ContextInv, ContextNext, samples' > samples
               PROVE  sample'.clock > sample.clock
    OBVIOUS
  <2>1. samples \in Nat
    BY DEF ContextInv, ReaderInv
  <2>2. TakeSample /\ samples' # samples
    BY <2>1 DEF ContextNext, StartWriter, Stamp, Store, EndWriter, StartReader, Load,
       ReadClock, EndReader, readerVars
  <2>3. word.counter # prevCounter
    BY <2>2 DEF TakeSample
  <2>4. QED
    BY <2>2, <2>3, SampleTaken
<1>2. QED
  BY <1>1, ContextSafety, PTL DEF ContextSpec, OneSamplePerStamp

-----------------------------------------------------------------------------
(* The boot stub.                                                          *)

(***************************************************************************)
(* armstub8.S: each core's word of the spin table.                         *)
(***************************************************************************)
LEMMA SlotInTable ==
  ASSUME NEW c \in BootCores
  PROVE  216 + 8 * c \in SpinTable
BY BootAssumption DEF SpinTable

(***************************************************************************)
(* No step of a core, of the firmware or of the kernel breaks BootInv.     *)
(***************************************************************************)
LEMMA BootInvStep == BootInv /\ [BootNext]_bootVars => BootInv'
<1>1. SUFFICES ASSUME BootInv, [BootNext]_bootVars
               PROVE  BootInv'
  OBVIOUS
<1> USE <1>1 DEF BootInv, EntersKernelRight
<1>2. CASE UNCHANGED bootVars
  BY <1>2 DEF bootVars
<1>3. CASE StartCores
  BY <1>3, ZenonT(40) DEF StartCores, StubMagic
<1>4. ASSUME NEW c \in BootCores, SetUp(c)
      PROVE  BootInv'
  BY <1>4 DEF SetUp
<1>5. ASSUME NEW c \in BootCores, BootPrimary(c)
      PROVE  BootInv'
  BY <1>5 DEF BootPrimary
<1>6. ASSUME NEW c \in BootCores, WaitForEvent(c)
      PROVE  BootInv'
  BY <1>6 DEF WaitForEvent
<1>7. ASSUME NEW c \in BootCores, LoadSlot(c)
      PROVE  BootInv'
  <2>1. stub[SlotOf(c)] \in {"zero", "secondary_entry"}
    BY <1>7, SlotInTable DEF LoadSlot, SlotOf
  <2>2. QED
    BY <1>7, <2>1 DEF LoadSlot
<1>8. ASSUME NEW c \in BootCores, TestSlot(c)
      PROVE  BootInv'
  BY <1>8 DEF TestSlot
<1>9. ASSUME NEW c \in BootCores \ {0}, KernelReleases(c)
      PROVE  BootInv'
  BY <1>9, SlotInTable DEF KernelReleases
<1>10. CASE KernelSends
  BY <1>10 DEF KernelSends
<1>11. QED
  BY <1>1, <1>2, <1>3, <1>4, <1>5, <1>6, <1>7, <1>8, <1>9, <1>10 DEF BootNext, BootStep

(***************************************************************************)
(* Each core enters the kernel at the address that was meant for it, and   *)
(* with access to CPUACTLR_EL1, whenever the kernel releases it and        *)
(* whatever events arrive.                                                 *)
(***************************************************************************)
THEOREM CoresEnterRight == BootSpec => []EntersKernelRight
<1>1. BootInit => BootInv
  BY DEF BootInit, BootIdle, BootInv, EntersKernelRight
<1>2. BootInv => EntersKernelRight
  BY DEF BootInv
<1>3. QED
  BY <1>1, <1>2, BootInvStep, PTL DEF BootSpec

-----------------------------------------------------------------------------
(* The plot of the SPEC results.                                           *)

(***************************************************************************)
(* What a results file holds.                                              *)
(***************************************************************************)
\* The markers of a file come once and in order.
LEMMA MarksOnce ==
  ASSUME NEW c, CsvFormed(c), NEW i \in DOMAIN c, NEW j \in DOMAIN c
  PROVE  /\ i \in 1..Len(c) /\ Len(c) \in Nat
         /\ c[i].kind = c[j].kind /\ c[i].kind \in {"start", "end", "score"} => i = j
         /\ c[i].kind = "start" /\ c[j].kind \in {"end", "score"} => i < j
         /\ c[i].kind = "end" /\ c[j].kind = "score" => i < j
<1>1. c \in Seq(CsvLines)
  BY DEF CsvFormed
<1>2. Len(c) \in Nat /\ DOMAIN c = 1..Len(c)
  BY <1>1
<1> DEFINE marks == <<"start", "end", "score">>
<1>3. ASSUME NEW k \in 1..3, NEW l \in 1..3
      PROVE  /\ i < j /\ c[i].kind = marks[k] /\ c[j].kind = marks[l] => k < l
             /\ j < i /\ c[j].kind = marks[k] /\ c[i].kind = marks[l] => k < l
  BY DEF CsvFormed
<1>4. marks[1] = "start" /\ marks[2] = "end" /\ marks[3] = "score"
  OBVIOUS
<1> HIDE DEF marks
<1>5. 1 \in 1..3 /\ 2 \in 1..3 /\ 3 \in 1..3
  OBVIOUS
<1>6. i \in Int /\ j \in Int /\ i \in 1..Len(c)
  BY <1>2
<1>7. i = j \/ i < j \/ j < i
  BY <1>6
<1>8. ASSUME c[i].kind = c[j].kind, c[i].kind \in {"start", "end", "score"}
      PROVE  i = j
  <2>1. PICK k \in 1..3 : c[i].kind = marks[k] /\ c[j].kind = marks[k]
    BY <1>4, <1>5, <1>8
  <2>2. ~(k < k)
    BY <2>1
  <2>3. QED
    BY <1>3, <1>7, <2>1, <2>2
<1>9. ASSUME c[i].kind = "start", c[j].kind \in {"end", "score"}
      PROVE  i < j
  <2>1. PICK l \in 2..3 : c[j].kind = marks[l]
    BY <1>4, <1>9
  <2>2. c[i].kind = marks[1] /\ i # j /\ l \in 1..3 /\ ~(l < 1)
    BY <1>4, <1>9, <2>1
  <2>3. QED
    BY <1>3, <1>5, <1>7, <2>1, <2>2
<1>10. ASSUME c[i].kind = "end", c[j].kind = "score"
       PROVE  i < j
  <2>1. c[i].kind = marks[2] /\ c[j].kind = marks[3] /\ i # j /\ ~(3 < 2)
    BY <1>4, <1>10
  <2>2. QED
    BY <1>3, <1>5, <1>7, <2>1
<1>11. QED
  BY <1>2, <1>6, <1>8, <1>9, <1>10

\* How a line changes whether the next one is in the table.
LEMMA TableGoesOn ==
  ASSUME NEW c \in Seq(CsvLines), NEW i \in 1..Len(c)
  PROVE  /\ ~InTable(c, 0)
         /\ InTable(c, i) <=> \/ c[i].kind = "start"
                              \/ InTable(c, i - 1) /\ c[i].kind # "end"
<1>1. ~InTable(c, 0)
  BY DEF InTable
<1>2. ASSUME c[i].kind = "start"
      PROVE  InTable(c, i)
  <2>1. i \in 1..i /\ \A j \in i..i : c[j].kind # "end"
    BY <1>2
  <2>2. QED
    BY <1>2, <2>1 DEF InTable
<1>3. ASSUME InTable(c, i - 1), c[i].kind # "end"
      PROVE  InTable(c, i)
  <2>1. PICK s \in 1..(i - 1) : c[s].kind = "start" /\ \A j \in s..(i - 1) : c[j].kind # "end"
    BY <1>3 DEF InTable
  <2>2. s \in 1..i /\ \A j \in s..i : j = i \/ j \in s..(i - 1)
    BY <2>1
  <2>3. QED
    BY <1>3, <2>1, <2>2 DEF InTable
<1>4. ASSUME InTable(c, i), c[i].kind # "start"
      PROVE  InTable(c, i - 1) /\ c[i].kind # "end"
  <2>1. PICK s \in 1..i : c[s].kind = "start" /\ \A j \in s..i : c[j].kind # "end"
    BY <1>4 DEF InTable
  <2>2. s \in 1..(i - 1) /\ i \in s..i /\ \A j \in s..(i - 1) : j \in s..i
    BY <1>4, <2>1
  <2>3. QED
    BY <2>1, <2>2 DEF InTable
<1>5. QED
  BY <1>1, <1>2, <1>3, <1>4

\* The lines of a table, which has one header, before its rows.
LEMMA TableLines ==
  ASSUME NEW c, CsvFormed(c), NEW i \in DOMAIN c
  PROVE  /\ InTable(c, i) => c[i].kind \in {"start", "header", "row", "blank"}
         /\ c[i].kind = "end" \/ (InTable(c, i) /\ c[i].kind = "row") =>
              \E h \in DOMAIN c : h < i /\ InTable(c, h) /\ c[h].kind = "header"
         /\ \A h \in DOMAIN c : /\ InTable(c, i) /\ c[i].kind = "header"
                                /\ InTable(c, h) /\ c[h].kind = "header"
                                => h = i
         /\ c[i].kind = "row" =>
              \E j \in DOMAIN c : InTable(c, j) /\ c[j].kind = "row" /\ c[j].name = c[i].name
<1>1. c \in Seq(CsvLines)
  BY DEF CsvFormed
<1>2. Len(c) \in Nat /\ DOMAIN c = 1..Len(c)
  BY <1>1
<1> DEFINE heads(k) == {h \in 1..k - 1 : InTable(c, h) /\ c[h].kind = "header"}
<1>3. \A k \in DOMAIN c :
        /\ InTable(c, k) => c[k].kind \in {"start", "header", "row", "blank"}
        /\ c[k].kind = "row" =>
             \E j \in DOMAIN c : InTable(c, j) /\ c[j].kind = "row" /\ c[j].name = c[k].name
        /\ InTable(c, k) /\ c[k].kind = "header" => heads(k) = {}
        /\ c[k].kind = "end" \/ (InTable(c, k) /\ c[k].kind = "row") => heads(k) # {}
  BY DEF CsvFormed
<1>4. ASSUME heads(i) # {}
      PROVE  \E h \in DOMAIN c : h < i /\ InTable(c, h) /\ c[h].kind = "header"
  <2>1. PICK h \in 1..(i - 1) : InTable(c, h) /\ c[h].kind = "header"
    BY <1>4
  <2>2. h \in DOMAIN c /\ h < i
    BY <1>2
  <2>3. QED
    BY <2>1, <2>2
<1>5. ASSUME NEW h \in DOMAIN c, InTable(c, i), c[i].kind = "header",
             InTable(c, h), c[h].kind = "header"
      PROVE  h = i
  <2>1. heads(i) = {} /\ heads(h) = {}
    BY <1>3, <1>5
  <2>2. h \notin 1..(i - 1) /\ i \notin 1..(h - 1)
    BY <1>5, <2>1
  <2>3. QED
    BY <1>2, <2>2
<1> HIDE DEF heads
<1>6. QED
  BY <1>3, <1>4, <1>5

\* The full table of a file that has all markers.
LEMMA FullTableRows ==
  ASSUME NEW c, CsvFormed(c), Ended(c), NEW name
  PROVE  FullTable(c, name) = {i \in RowPlaces(c) : c[i].name = name}
<1> DEFINE start == CHOOSE i \in DOMAIN c : c[i].kind = "start"
           end   == CHOOSE i \in DOMAIN c : c[i].kind = "end"
<1>1. /\ start \in DOMAIN c /\ c[start].kind = "start"
      /\ end \in DOMAIN c /\ c[end].kind = "end"
  <2>1. (\E i \in DOMAIN c : c[i].kind = "start") /\ (\E i \in DOMAIN c : c[i].kind = "end")
    BY DEF Ended
  <2>2. QED
    BY <2>1
<1>2. FullTable(c, name) = {i \in start..end : c[i].kind = "row" /\ c[i].name = name}
  BY DEF FullTable
<1> HIDE DEF start, end
<1>3. c \in Seq(CsvLines)
  BY DEF CsvFormed
<1>4. Len(c) \in Nat /\ DOMAIN c = 1..Len(c)
  BY <1>3
<1>5. start \in 1..Len(c) /\ end \in 1..Len(c) /\ start < end
  BY <1>1, <1>4, MarksOnce
<1>6. ASSUME NEW i \in start..end, c[i].kind = "row"
      PROVE  i \in RowPlaces(c)
  <2>1. i \in DOMAIN c /\ start \in 1..i /\ i # end
    BY <1>1, <1>4, <1>5, <1>6
  <2>2. ASSUME NEW j \in start..i, c[j].kind = "end"
        PROVE  FALSE
    <3>1. j \in DOMAIN c /\ j # end
      BY <1>4, <1>5, <2>1
    <3>2. QED
      BY <1>1, <2>2, <3>1, MarksOnce
  <2>3. InTable(c, i)
    BY <1>1, <2>1, <2>2 DEF InTable
  <2>4. QED
    BY <1>6, <2>1, <2>3 DEF RowPlaces
<1>7. ASSUME NEW i \in RowPlaces(c)
      PROVE  i \in start..end /\ c[i].kind = "row"
  <2>1. i \in 1..Len(c) /\ InTable(c, i) /\ c[i].kind = "row"
    BY <1>4 DEF RowPlaces
  <2>2. PICK s \in 1..i : c[s].kind = "start" /\ \A j \in s..i : c[j].kind # "end"
    BY <2>1 DEF InTable
  <2>3. s \in DOMAIN c
    BY <1>4, <2>1
  <2>4. s = start
    BY <1>1, <2>2, <2>3, MarksOnce
  <2>5. end \notin s..i
    BY <1>1, <2>2
  <2>6. QED
    BY <1>5, <2>1, <2>4, <2>5
<1>8. QED
  BY <1>2, <1>6, <1>7

\* The rows that have been collected from a file of all markers.
TableOf(c) == Kept(c, RowPlaces(c))

\* The lines that are collected from a file are lines of its table, with the
\* names that the table has.
LEMMA TableTyped ==
  ASSUME NEW c, CsvFormed(c)
  PROVE  /\ TableOf(c) \in Seq(CsvLines)
         /\ Members(Benchmarks(TableOf(c))) = NamesIn(c)
         /\ \A name \in NamesIn(c) : name \in STRING
<1> DEFINE t == TableOf(c)
<1>1. c \in Seq(CsvLines)
  BY DEF CsvFormed
<1>2. Len(c) \in Nat /\ DOMAIN c = 1..Len(c) /\ \A i \in DOMAIN c : c[i] \in CsvLines
  BY <1>1
<1>3. t \in Seq(CsvLines) /\ RowPlaces(c) \cap 1..Len(c) = RowPlaces(c)
  BY <1>1, <1>2, KeptPlaces DEF TableOf, RowPlaces
<1>4. PICK e : IsPlacing(e, t, c, RowPlaces(c))
  BY <1>1, <1>3, KeptPlaces DEF TableOf
<1> HIDE DEF t
<1>5. /\ e \in [1..Len(t) -> RowPlaces(c)]
      /\ \A q \in RowPlaces(c) : \E i \in 1..Len(t) : e[i] = q
      /\ \A i \in 1..Len(t) : t[i] = c[e[i]]
  BY <1>4 DEF IsPlacing
<1>6. DOMAIN t = 1..Len(t)
  BY <1>3
<1>7. Members(Benchmarks(t)) = {t[i].name : i \in 1..Len(t)}
  BY <1>6 DEF Members, Benchmarks
<1>8. ASSUME NEW i \in 1..Len(t)
      PROVE  t[i].name \in NamesIn(c)
  <2>1. e[i] \in DOMAIN c /\ c[e[i]].kind = "row" /\ t[i] = c[e[i]]
    BY <1>5 DEF RowPlaces
  <2>2. QED
    BY <2>1 DEF NamesIn
<1>9. ASSUME NEW name \in NamesIn(c)
      PROVE  \E i \in 1..Len(t) : t[i].name = name
  <2>1. PICK k \in DOMAIN c : c[k].kind = "row" /\ c[k].name = name
    BY DEF NamesIn
  <2>2. PICK q \in DOMAIN c : InTable(c, q) /\ c[q].kind = "row" /\ c[q].name = name
    BY <2>1, TableLines
  <2>3. q \in RowPlaces(c)
    BY <2>2 DEF RowPlaces
  <2>4. PICK i \in 1..Len(t) : e[i] = q
    BY <1>5, <2>3
  <2>5. QED
    BY <1>5, <2>2, <2>4
<1>10. \A name \in NamesIn(c) : name \in STRING
  BY <1>2 DEF NamesIn, CsvLines
<1>11. Members(Benchmarks(t)) = NamesIn(c)
  BY <1>7, <1>8, <1>9
<1>12. QED
  BY <1>3, <1>10, <1>11 DEF t

\* The rows of a benchmark are those of its runs in the full table, in order.
IsRuns(d, rows, c, name) ==
  /\ rows \in Seq(CsvLines)
  /\ d \in [1..Len(rows) -> FullTable(c, name)]
  /\ \A i, j \in 1..Len(rows) : d[i] = d[j] => i = j
  /\ \A q \in FullTable(c, name) : \E i \in 1..Len(rows) : d[i] = q
  /\ \A i \in 1..Len(rows) : rows[i] = c[d[i]]

\* The rows that a script finds for a name are the runs of the full table.
LEMMA RowsAreRuns ==
  ASSUME NEW c, CsvFormed(c), Ended(c), NEW name, NEW n, tables[n] = TableOf(c)
  PROVE  \E d : IsRuns(d, RowsOf(n, name), c, name)
<1> DEFINE t == TableOf(c)
           K == {k \in DOMAIN t : t[k].name = name}
           r == Kept(t, K)
           F == FullTable(c, name)
<1>1. c \in Seq(CsvLines) /\ t \in Seq(CsvLines)
  BY TableTyped DEF CsvFormed
<1>2. RowPlaces(c) \cap 1..Len(c) = RowPlaces(c)
  BY <1>1 DEF RowPlaces
<1>3. PICK e : IsPlacing(e, t, c, RowPlaces(c))
  BY <1>1, <1>2, KeptPlaces DEF TableOf
<1>4. RowsOf(n, name) = r
  BY DEF RowsOf
<1>5. F = {i \in RowPlaces(c) : c[i].name = name}
  BY FullTableRows
<1> HIDE DEF t
<1>6. K \cap 1..Len(t) = K
  BY <1>1
<1>7. r \in Seq(CsvLines) /\ \E f : IsPlacing(f, r, t, K)
  BY <1>1, <1>6, KeptPlaces
<1>8. PICK f : IsPlacing(f, r, t, K)
  BY <1>7
<1> HIDE DEF r, F
<1> DEFINE d == [i \in 1..Len(r) |-> e[f[i]]]
<1>9. /\ e \in [1..Len(t) -> RowPlaces(c)]
      /\ \A i, j \in 1..Len(t) : i < j => e[i] < e[j]
      /\ \A q \in RowPlaces(c) : \E i \in 1..Len(t) : e[i] = q
      /\ \A i \in 1..Len(t) : t[i] = c[e[i]]
  BY <1>3 DEF IsPlacing
<1>10. /\ f \in [1..Len(r) -> K]
       /\ \A i, j \in 1..Len(r) : i < j => f[i] < f[j]
       /\ \A q \in K : \E i \in 1..Len(r) : f[i] = q
       /\ \A i \in 1..Len(r) : r[i] = t[f[i]]
  BY <1>8 DEF IsPlacing
<1>11. K \subseteq 1..Len(t) /\ RowPlaces(c) \subseteq Int /\ Len(t) \in Nat /\ Len(r) \in Nat
  <2>1. RowPlaces(c) \subseteq Int
    BY <1>1 DEF RowPlaces
  <2>2. QED
    BY <1>1, <1>7, <2>1
<1>12. \A i \in 1..Len(r) : f[i] \in 1..Len(t) /\ d[i] = e[f[i]] /\ r[i] = c[d[i]]
  BY <1>9, <1>10, <1>11
<1>13. d \in [1..Len(r) -> F]
  <2> SUFFICES ASSUME NEW i \in 1..Len(r)
               PROVE  e[f[i]] \in F
    OBVIOUS
  <2>1. e[f[i]] \in RowPlaces(c) /\ f[i] \in K /\ t[f[i]] = c[e[f[i]]]
    BY <1>9, <1>10, <1>12
  <2>2. QED
    BY <1>5, <2>1
<1>14. ASSUME NEW i \in 1..Len(r), NEW j \in 1..Len(r), d[i] = d[j]
       PROVE  i = j
  <2>1. ASSUME NEW a \in 1..Len(r), NEW b \in 1..Len(r), a < b
        PROVE  e[f[a]] # e[f[b]]
    <3>1. f[a] \in 1..Len(t) /\ f[b] \in 1..Len(t) /\ f[a] < f[b]
      BY <1>10, <1>12, <2>1
    <3>2. e[f[a]] < e[f[b]] /\ e[f[a]] \in Int /\ e[f[b]] \in Int
      BY <1>9, <1>11, <3>1
    <3>3. QED
      BY <3>2
  <2>2. e[f[i]] = e[f[j]]
    BY <1>12, <1>14
  <2>3. ~(i < j) /\ ~(j < i)
    BY <2>1, <2>2
  <2>4. QED
    BY <2>3
<1>15. ASSUME NEW q \in F
       PROVE  \E i \in 1..Len(r) : d[i] = q
  <2>1. q \in RowPlaces(c) /\ c[q].name = name
    BY <1>5
  <2>2. PICK p \in 1..Len(t) : e[p] = q
    BY <1>9, <2>1
  <2>3. p \in K
    BY <1>1, <1>9, <2>1, <2>2
  <2>4. PICK i \in 1..Len(r) : f[i] = p
    BY <1>10, <2>3
  <2>5. QED
    BY <1>12, <2>2, <2>4
<1> HIDE DEF d, K
<1>16. IsRuns(d, r, c, name)
  BY <1>7, <1>12, <1>13, <1>14, <1>15 DEF IsRuns, F
<1>17. QED
  BY <1>4, <1>16

\* The rows of a table tell whether a run has failed.
LEMMA FinishedRows ==
  ASSUME NEW c, CsvFormed(c)
  PROVE  Finished(c) <=> \A row \in Members(TableOf(c)) : row.time # NoTime
<1> DEFINE t == TableOf(c)
<1>1. c \in Seq(CsvLines) /\ t \in Seq(CsvLines)
  BY TableTyped DEF CsvFormed
<1>2. RowPlaces(c) \cap 1..Len(c) = RowPlaces(c)
  BY <1>1 DEF RowPlaces
<1>3. PICK e : IsPlacing(e, t, c, RowPlaces(c))
  BY <1>1, <1>2, KeptPlaces DEF TableOf
<1> HIDE DEF t
<1>4. /\ e \in [1..Len(t) -> RowPlaces(c)]
      /\ \A q \in RowPlaces(c) : \E i \in 1..Len(t) : e[i] = q
      /\ \A i \in 1..Len(t) : t[i] = c[e[i]]
  BY <1>3 DEF IsPlacing
<1>5. Members(t) = {t[i] : i \in 1..Len(t)}
  BY <1>1 DEF Members
<1>6. ASSUME Finished(c), NEW i \in 1..Len(t)
      PROVE  t[i].time # NoTime
  BY <1>4, <1>6 DEF Finished
<1>7. ASSUME \A i \in 1..Len(t) : t[i].time # NoTime, NEW q \in RowPlaces(c)
      PROVE  c[q].time # NoTime
  BY <1>4, <1>7
<1>8. QED
  BY <1>5, <1>6, <1>7 DEF Finished, t

\* A file with a run that has failed is not whole.
LEMMA FinishedIfWhole ==
  ASSUME NEW c, CsvFormed(c), WholeFile(c)
  PROVE  Ended(c) /\ Finished(c)
<1>1. Ended(c)
  BY DEF WholeFile, Ended
<1>2. ASSUME NEW i \in RowPlaces(c)
      PROVE  c[i].time # NoTime
  <2>1. c[i].name \in NamesIn(c)
    BY DEF NamesIn, RowPlaces
  <2>2. i \in FullTable(c, c[i].name)
    BY <1>1, FullTableRows
  <2>3. QED
    BY <2>1, <2>2 DEF WholeFile
<1>3. QED
  BY <1>1, <1>2 DEF Finished

\* How many there are.
LEMMA RunsCounted ==
  ASSUME NEW c, CsvFormed(c), Ended(c), NEW name, NEW n, tables[n] = TableOf(c)
  PROVE  /\ IsFiniteSet(FullTable(c, name))
         /\ Cardinality(FullTable(c, name)) = Len(RowsOf(n, name))
         /\ RowsOf(n, name) \in Seq(CsvLines)
         /\ Len(Times(n, name)) = Len(RowsOf(n, name))
         /\ Times(n, name) \in Seq(Int)
<1> DEFINE r == RowsOf(n, name)
<1>1. PICK d : IsRuns(d, r, c, name)
  BY RowsAreRuns
<1> HIDE DEF r
<1>2. /\ r \in Seq(CsvLines) /\ d \in [1..Len(r) -> FullTable(c, name)]
      /\ \A i, j \in 1..Len(r) : d[i] = d[j] => i = j
      /\ \A q \in FullTable(c, name) : \E i \in 1..Len(r) : d[i] = q
  BY <1>1 DEF IsRuns
<1>3. Len(r) \in Nat /\ DOMAIN r = 1..Len(r)
  BY <1>2
<1>6. IsFiniteSet(FullTable(c, name)) /\ Cardinality(FullTable(c, name)) = Len(r)
  BY <1>2, <1>3, NumberedSize
<1> DEFINE unsorted == RunTimes(n, name)
<1>7. unsorted = [k \in 1..Len(r) |-> r[k].time]
  BY <1>3 DEF RunTimes, r
<1>8. unsorted \in Seq(Int) /\ Len(unsorted) = Len(r)
  <2>1. ASSUME NEW k \in 1..Len(r)
        PROVE  r[k].time \in Int
    <3>1. r[k] \in CsvLines
      BY <1>2, <1>3
    <3>2. QED
      BY <3>1 DEF CsvLines
  <2>2. unsorted \in [1..Len(r) -> Int]
    BY <1>7, <2>1
  <2> HIDE DEF unsorted
  <2>3. QED
    BY <1>3, <2>2, FunctionIsSeq
<1> HIDE DEF unsorted
<1>9. Order(unsorted) \in [1..Len(unsorted) -> 1..Len(unsorted)]
  BY <1>8, OrderSorts
<1>10. Times(n, name) = [k \in 1..Len(r) |-> unsorted[Order(unsorted)[k]]]
  BY <1>3, <1>8 DEF Times, unsorted
<1>11. Times(n, name) \in Seq(Int) /\ Len(Times(n, name)) = Len(r)
  BY <1>3, <1>8, <1>9, <1>10
<1>12. QED
  BY <1>2, <1>6, <1>11 DEF r

\* What is collected from a line of a file.
LEMMA LineCollected ==
  ASSUME NEW c, CsvFormed(c), NEW i \in 1..Len(c)
  PROVE  /\ InTable(c, i - 1) => c[i].kind # "score" /\ c[i].kind # "start"
         /\ Kept(c, TablePlaces(c) \cap 1..i) =
              IF InTable(c, i - 1) /\ c[i].kind \notin {"end", "blank"}
              THEN Append(Kept(c, TablePlaces(c) \cap 1..(i - 1)), c[i])
              ELSE Kept(c, TablePlaces(c) \cap 1..(i - 1))
<1>1. c \in Seq(CsvLines)
  BY DEF CsvFormed
<1>2. Len(c) \in Nat /\ DOMAIN c = 1..Len(c) /\ i \in DOMAIN c /\ i \in Int
  BY <1>1
<1>3. InTable(c, i) <=> c[i].kind = "start" \/ (InTable(c, i - 1) /\ c[i].kind # "end")
  BY <1>1, TableGoesOn
<1>4. InTable(c, i) => c[i].kind \in {"start", "header", "row", "blank"}
  BY <1>2, TableLines
<1>5. ASSUME InTable(c, i - 1), c[i].kind = "start"
      PROVE  FALSE
  <2>1. PICK s \in 1..(i - 1) : c[s].kind = "start"
    BY <1>5 DEF InTable
  <2>2. s \in DOMAIN c /\ s # i
    BY <1>2
  <2>3. QED
    BY <1>2, <1>5, <2>1, <2>2, MarksOnce
<1>6. ASSUME InTable(c, i - 1)
      PROVE  c[i].kind # "score"
  BY <1>3, <1>4, <1>6
<1>7. i \in TablePlaces(c) <=> InTable(c, i - 1) /\ c[i].kind \notin {"end", "blank"}
  <2>1. i \in TablePlaces(c) <=> InTable(c, i) /\ c[i].kind \in {"header", "row"}
    BY <1>2 DEF TablePlaces
  <2>2. QED
    BY <1>3, <1>4, <1>5, <2>1
<1> DEFINE P == TablePlaces(c)
<1> HIDE DEF P
<1>8. CASE i \in P
  <2>1. \A k \in 1..Len(c) : k \in P \cap 1..i <=> k \in P \cap 1..(i - 1) \/ k = i
    BY <1>2, <1>8
  <2>2. \A k \in P \cap 1..(i - 1) : k < i
    BY <1>2
  <2>3. Kept(c, P \cap 1..i) = Append(Kept(c, P \cap 1..(i - 1)), c[i])
    BY <1>1, <2>1, <2>2, KeptAdds
  <2>4. QED
    BY <1>5, <1>6, <1>7, <1>8, <2>3 DEF P
<1>9. CASE i \notin P
  <2>1. P \cap 1..i = P \cap 1..(i - 1)
    BY <1>2, <1>9
  <2>2. QED
    BY <1>5, <1>6, <1>7, <1>9, <2>1 DEF P
<1>10. QED
  BY <1>8, <1>9

\* What has been collected when the score is met outside the table.
LEMMA ScoreMet ==
  ASSUME NEW c, CsvFormed(c), NEW i \in 1..Len(c),
         c[i].kind = "score", ~InTable(c, i - 1),
         NEW l, l = Kept(c, TablePlaces(c) \cap 1..(i - 1))
  PROVE  /\ l = << >> => ~Ended(c)
         /\ l # << >> => Ended(c) /\ Tail(l) = TableOf(c)
<1>1. c \in Seq(CsvLines)
  BY DEF CsvFormed
<1>2. Len(c) \in Nat /\ DOMAIN c = 1..Len(c) /\ i \in DOMAIN c /\ i \in Int
  BY <1>1
<1> DEFINE P == TablePlaces(c) \cap 1..(i - 1)
<1>3. P \cap 1..Len(c) = P
  BY <1>2
<1>4. l \in Seq(CsvLines) /\ \E e : IsPlacing(e, l, c, P)
  <2> HIDE DEF P
  <2>1. l = Kept(c, P)
    BY DEF P
  <2>2. QED
    BY <1>1, <1>3, <2>1, KeptPlaces
<1>5. PICK e : IsPlacing(e, l, c, P)
  BY <1>4
<1>6. l # << >> <=> P # {}
  <2>1. /\ e \in [1..Len(l) -> P]
        /\ \A q \in P : \E k \in 1..Len(l) : e[k] = q
    BY <1>5 DEF IsPlacing
  <2> HIDE DEF P
  <2>2. ASSUME l # << >>
        PROVE  P # {}
    <3>1. 1 \in 1..Len(l)
      BY <1>4, <2>2
    <3>2. QED
      BY <2>1, <3>1
  <2>3. ASSUME P # {}
        PROVE  l # << >>
    <3>1. PICK q \in P : TRUE
      BY <2>3
    <3>2. PICK k \in 1..Len(l) : e[k] = q
      BY <2>1, <3>1
    <3>3. QED
      BY <3>2
  <2>4. QED
    BY <2>2, <2>3
<1>7. ASSUME Ended(c)
      PROVE  \E h \in P : c[h].kind = "header"
  <2>1. PICK e1 \in DOMAIN c : c[e1].kind = "end"
    BY <1>7 DEF Ended
  <2>2. e1 < i
    BY <1>2, <2>1, MarksOnce
  <2>3. PICK h \in DOMAIN c : h < e1 /\ InTable(c, h) /\ c[h].kind = "header"
    BY <2>1, TableLines
  <2>4. h \in TablePlaces(c)
    BY <2>3 DEF TablePlaces
  <2>5. h \in 1..(i - 1)
    BY <1>2, <2>2, <2>3
  <2>6. QED
    BY <2>3, <2>4, <2>5
<1>8. ASSUME l # << >>
      PROVE  Ended(c) /\ Tail(l) = TableOf(c)
  <2>1. PICK p \in P : TRUE
    BY <1>6, <1>8
  <2>2. p \in 1..(i - 1) /\ InTable(c, p)
    BY <2>1 DEF TablePlaces
  <2>3. PICK s \in 1..p : c[s].kind = "start"
    BY <2>2 DEF InTable
  <2>4. s \in 1..(i - 1) /\ s \in DOMAIN c
    BY <1>2, <2>2
  <2>5. PICK e1 \in s..(i - 1) : c[e1].kind = "end"
    BY <2>3, <2>4 DEF InTable
  <2>6. e1 \in DOMAIN c
    BY <1>2, <2>4, <2>5
  <2>7. Ended(c)
    BY <1>2, <2>3, <2>4, <2>5, <2>6 DEF Ended
  <2>8. PICK h \in P : c[h].kind = "header"
    BY <1>7, <2>7
  <2>9. h \in DOMAIN c /\ InTable(c, h) /\ h \in 1..Len(c)
    BY <1>2, <2>8 DEF TablePlaces
  <2>10. ASSUME NEW k \in TablePlaces(c)
         PROVE  k \in 1..(i - 1)
    <3>1. k \in DOMAIN c /\ InTable(c, k)
      BY DEF TablePlaces
    <3>2. PICK s1 \in 1..k : c[s1].kind = "start" /\ \A j \in s1..k : c[j].kind # "end"
      BY <3>1 DEF InTable
    <3>3. s1 \in DOMAIN c
      BY <1>2, <3>1
    <3>4. s1 = s
      BY <2>3, <2>4, <3>2, <3>3, MarksOnce
    <3>5. e1 \notin s..k
      BY <2>5, <3>2, <3>4
    <3>6. QED
      BY <1>2, <2>4, <2>5, <3>1, <3>5
  <2>11. ASSUME NEW k \in 1..Len(c)
         PROVE  /\ k \in P <=> k \in RowPlaces(c) \/ k = h
                /\ k \in RowPlaces(c) => h < k
    <3>1. k \in P <=> InTable(c, k) /\ c[k].kind \in {"header", "row"}
      BY <1>2, <2>10 DEF TablePlaces
    <3>2. k \in RowPlaces(c) <=> InTable(c, k) /\ c[k].kind = "row"
      BY <1>2 DEF RowPlaces
    <3>3. InTable(c, k) /\ c[k].kind = "header" => k = h
      BY <1>2, <2>8, <2>9, TableLines
    <3>4. ASSUME k \in RowPlaces(c)
          PROVE  h < k
      <4>1. PICK g \in DOMAIN c : g < k /\ InTable(c, g) /\ c[g].kind = "header"
        BY <1>2, <3>2, <3>4, TableLines
      <4>2. g = h
        BY <2>8, <2>9, <4>1, TableLines
      <4>3. QED
        BY <4>1, <4>2
    <3>5. QED
      BY <2>8, <2>9, <3>1, <3>2, <3>3, <3>4
  <2> HIDE DEF P
  <2>12. Tail(Kept(c, P)) = Kept(c, RowPlaces(c))
    BY <1>1, <2>9, <2>11, KeptTail
  <2>13. QED
    BY <2>7, <2>12 DEF P, TableOf
<1>9. QED
  BY <1>6, <1>7, <1>8

\* What the types say of the files and tables.
LEMMA SpecFacts ==
  ASSUME SpecTypeOK
  PROVE  /\ \A i \in DOMAIN contents : contents[i] \in CsvContents /\ CsvFormed(contents[i])
         /\ Len(Csvs) \in Nat /\ Len(Csvs) > 0 /\ DOMAIN Csvs = 1..Len(Csvs)
         /\ Len(contents) \in Nat /\ DOMAIN contents = 1..Len(contents)
         /\ Len(tables) \in Nat /\ DOMAIN tables = 1..Len(tables)
         /\ \A i \in DOMAIN tables : i \in DOMAIN contents
<1>1. Csvs \in Seq(STRING) /\ Csvs # << >> /\ \A content \in CsvContents : CsvFormed(content)
  BY CsvAssumption
<1>2. contents \in Seq(CsvContents) /\ tables \in Seq(Seq(CsvLines)) /\ Len(tables) <= Len(contents)
  BY DEF SpecTypeOK
<1>3. Len(contents) \in Nat /\ DOMAIN contents = 1..Len(contents)
  BY <1>2
<1>4. Len(tables) \in Nat /\ DOMAIN tables = 1..Len(tables)
  BY <1>2
<1>5. \A i \in DOMAIN contents : contents[i] \in CsvContents
  BY <1>2
<1>6. Len(Csvs) \in Nat /\ Len(Csvs) > 0 /\ DOMAIN Csvs = 1..Len(Csvs)
  BY <1>1
<1>7. \A i \in DOMAIN tables : i \in DOMAIN contents
  BY <1>2, <1>3, <1>4
<1>8. QED
  BY <1>1, <1>3, <1>4, <1>5, <1>6, <1>7

\* The invariant holds before the first file is opened.
LEMMA SpecInitially ==
  ASSUME SpecInit
  PROVE  SpecInv
<1> USE DEF SpecInit, SpecIdle
<1>1. Csvs \in Seq(STRING) /\ Csvs # << >>
  BY CsvAssumption
<1>2. Len(Csvs) >= 1
  BY <1>1
<1>3. SpecTypeOK
  BY <1>2 DEF SpecTypeOK, BarsTyped
<1>4. LinesRead /\ TablesRead /\ NamesKnown /\ BarsInTurn /\ WholeFilesDrawn
  BY DEF LinesRead, TablesRead, NamesKnown, BarsInTurn, WholeFilesDrawn, Failures
<1>5. BarsDrawn
  BY DEF BarsDrawn
<1>6. QED
  BY <1>3, <1>4, <1>5 DEF SpecInv

\* A file is opened.
LEMMA OpenCsvKeeps ==
  ASSUME SpecInv, NEW content \in CsvContents, OpenCsv(content)
  PROVE  SpecInv'
<1> USE DEF OpenCsv
<1>1. SpecTypeOK /\ LinesRead /\ TablesRead /\ BarsDrawn
  BY DEF SpecInv
<1>2. /\ names = << >> /\ bars = << >> /\ barLabels = << >> /\ tickAt = << >>
      /\ csv \in Nat \ {0} /\ csv <= Len(Csvs) /\ Len(contents) = csv - 1 /\ Len(tables) = csv - 1
      /\ contents \in Seq(CsvContents) /\ tables \in Seq(Seq(CsvLines))
  BY <1>1 DEF SpecTypeOK
<1>3. CsvFormed(content) /\ content \in Seq(CsvLines)
  BY CsvAssumption DEF CsvFormed
<1>4. /\ contents' \in Seq(CsvContents) /\ Len(contents') = csv /\ contents'[csv] = content
      /\ \A i \in DOMAIN contents : contents'[i] = contents[i]
  BY <1>2
<1>5. SpecTypeOK'
  <2>1. BarsTyped'
    BY <1>1 DEF SpecTypeOK, BarsTyped
  <2>2. QED
    BY <1>2, <1>4, <2>1 DEF SpecTypeOK, Failures
<1>6. LinesRead'
  <2>1. Kept(content, TablePlaces(content) \cap 1..(1 - 1)) = << >>
    BY <1>3, KeptNone
  <2>2. InTable(content, 1 - 1) = FALSE
    BY DEF InTable
  <2>3. 1 \in 1..(Len(content) + 1)
    BY <1>3
  <2>4. contents'[csv'] = content /\ lineNo' = 1 /\ collecting' = FALSE /\ resultLines' = << >>
    BY <1>4
  <2>5. \A i \in 1..(1 - 1) : content[i].kind # "score"
    OBVIOUS
  <2>6. QED
    BY <2>1, <2>2, <2>3, <2>4, <2>5 DEF LinesRead
<1>7. TablesRead'
  BY <1>1, <1>4, SpecFacts DEF TablesRead
<1>8. BarsDrawn' /\ NamesKnown' /\ BarsInTurn' /\ WholeFilesDrawn'
  BY <1>1, <1>2 DEF BarsDrawn, NamesKnown, BarsInTurn, WholeFilesDrawn, Failures
<1>9. QED
  BY <1>5, <1>6, <1>7, <1>8 DEF SpecInv

\* What is known while a file is read.
LEMMA WhileReading ==
  ASSUME SpecInv, specPhase = "lines"
  PROVE  /\ names = << >> /\ bars = << >> /\ barLabels = << >> /\ tickAt = << >>
         /\ csv \in Nat \ {0} /\ csv <= Len(Csvs) /\ Len(contents) = csv /\ Len(tables) = csv - 1
         /\ contents \in Seq(CsvContents) /\ tables \in Seq(Seq(CsvLines))
         /\ csv \in DOMAIN contents /\ CsvFormed(contents[csv]) /\ contents[csv] \in Seq(CsvLines)
         /\ lineNo \in 1..(Len(contents[csv]) + 1)
         /\ collecting = InTable(contents[csv], lineNo - 1)
         /\ resultLines = Kept(contents[csv], TablePlaces(contents[csv]) \cap 1..(lineNo - 1))
         /\ \A i \in 1..(lineNo - 1) : contents[csv][i].kind # "score"
<1>1. SpecTypeOK /\ LinesRead
  BY DEF SpecInv
<1>2. /\ names = << >> /\ bars = << >> /\ barLabels = << >> /\ tickAt = << >>
      /\ csv \in Nat \ {0} /\ csv <= Len(Csvs) /\ Len(contents) = csv /\ Len(tables) = csv - 1
      /\ contents \in Seq(CsvContents) /\ tables \in Seq(Seq(CsvLines))
  BY <1>1 DEF SpecTypeOK
<1>3. csv \in DOMAIN contents
  BY <1>2
<1>4. CsvFormed(contents[csv])
  BY <1>1, <1>3, SpecFacts
<1>5. contents[csv] \in Seq(CsvLines)
  BY <1>4 DEF CsvFormed
<1>6. QED
  BY <1>1, <1>2, <1>3, <1>4, <1>5 DEF LinesRead

\* The script fails on a file that is not whole.
LEMMA FailsOnFile ==
  ASSUME SpecInv, specPhase = "lines", ~WholeFile(contents[csv]), specPhase' \in Failures,
         UNCHANGED <<csv, tables, lineNo, collecting, resultLines, names, ybar, bars, tickAt,
                     barLabels, contents>>
  PROVE  SpecInv'
<1>1. SpecTypeOK /\ TablesRead /\ BarsDrawn
  BY DEF SpecInv
<1>2. SpecTypeOK'
  BY <1>1 DEF SpecTypeOK, BarsTyped, Failures
<1>3. LinesRead' /\ NamesKnown' /\ BarsInTurn'
  BY DEF LinesRead, NamesKnown, BarsInTurn, Failures
<1>4. TablesRead'
  BY <1>1 DEF TablesRead
<1>5. BarsDrawn'
  BY WhileReading DEF BarsDrawn, Failures
<1>6. csv \in DOMAIN contents
  BY WhileReading
<1>7. WholeFilesDrawn'
  BY <1>6 DEF WholeFilesDrawn, Failures
<1>8. QED
  BY <1>2, <1>3, <1>4, <1>5, <1>7 DEF SpecInv

\* A line is read that does not end the file.
LEMMA TakeLineKeeps ==
  ASSUME SpecInv, specPhase = "lines", lineNo <= Len(contents[csv]),
         collecting \/ Line.kind # "score", TakeLine, lineNo' = lineNo + 1,
         UNCHANGED <<specPhase, csv, tables, names, ybar, bars, tickAt, barLabels, contents>>
  PROVE  SpecInv'
<1> DEFINE c == contents[csv]
<1>1. SpecTypeOK /\ TablesRead /\ BarsDrawn
  BY DEF SpecInv
<1>2. /\ CsvFormed(c) /\ c \in Seq(CsvLines) /\ lineNo \in 1..(Len(c) + 1)
      /\ collecting = InTable(c, lineNo - 1)
      /\ resultLines = Kept(c, TablePlaces(c) \cap 1..(lineNo - 1))
      /\ \A i \in 1..(lineNo - 1) : c[i].kind # "score"
  BY WhileReading
<1>3. lineNo \in 1..Len(c) /\ lineNo \in Nat /\ Len(c) \in Nat /\ Line = c[lineNo] /\ c' = c
  BY <1>2 DEF Line
<1> HIDE DEF c
<1>4. /\ InTable(c, lineNo - 1) => c[lineNo].kind # "score" /\ c[lineNo].kind # "start"
      /\ Kept(c, TablePlaces(c) \cap 1..lineNo) =
           IF InTable(c, lineNo - 1) /\ c[lineNo].kind \notin {"end", "blank"}
           THEN Append(Kept(c, TablePlaces(c) \cap 1..(lineNo - 1)), c[lineNo])
           ELSE Kept(c, TablePlaces(c) \cap 1..(lineNo - 1))
      /\ InTable(c, lineNo) <=> \/ c[lineNo].kind = "start"
                                \/ InTable(c, lineNo - 1) /\ c[lineNo].kind # "end"
  BY <1>2, <1>3, LineCollected, TableGoesOn
<1>5. lineNo' - 1 = lineNo /\ lineNo' \in 1..(Len(c) + 1)
  BY <1>3
<1>6. collecting' = InTable(c, lineNo)
  <2>1. InTable(c, lineNo) \in BOOLEAN /\ InTable(c, lineNo - 1) \in BOOLEAN
    BY DEF InTable
  <2>2. collecting' = CASE ~collecting /\ c[lineNo].kind = "start" -> TRUE
                        [] collecting /\ c[lineNo].kind = "end"    -> FALSE
                        [] OTHER                                   -> collecting
    BY <1>3 DEF TakeLine
  <2>3. CASE collecting
    BY <1>2, <1>4, <2>1, <2>2, <2>3
  <2>4. CASE ~collecting
    BY <1>2, <1>4, <2>1, <2>2, <2>4
  <2>5. QED
    BY <2>3, <2>4
<1>7. resultLines' = Kept(c, TablePlaces(c) \cap 1..lineNo)
  BY <1>2, <1>3, <1>4 DEF TakeLine
<1>8. \A i \in 1..lineNo : c[i].kind # "score"
  <2> SUFFICES ASSUME NEW i \in 1..lineNo
               PROVE  c[i].kind # "score"
    OBVIOUS
  <2>1. CASE i = lineNo
    BY <1>2, <1>3, <1>4, <2>1
  <2>2. CASE i # lineNo
    BY <1>2, <1>3, <2>2
  <2>3. QED
    BY <2>1, <2>2
<1>9. LinesRead'
  <2>1. contents'[csv'] = c
    BY DEF c
  <2>2. QED
    BY <1>5, <1>6, <1>7, <1>8, <2>1 DEF LinesRead
<1>10. SpecTypeOK'
  BY <1>1 DEF SpecTypeOK, BarsTyped, Failures
<1>11. TablesRead'
  BY <1>1 DEF TablesRead
<1>12. BarsDrawn' /\ NamesKnown' /\ BarsInTurn' /\ WholeFilesDrawn'
  BY WhileReading DEF BarsDrawn, NamesKnown, BarsInTurn, WholeFilesDrawn, Failures
<1>13. QED
  BY <1>9, <1>10, <1>11, <1>12 DEF SpecInv

\* The file has been read to its score, or the script fails.
LEMMA CloseCsvKeeps ==
  ASSUME SpecInv, specPhase = "lines",
         NEW score, CloseCsv(score),
         \/ score = FALSE /\ lineNo > Len(contents[csv])
         \/ /\ score = TRUE /\ lineNo <= Len(contents[csv])
            /\ ~collecting /\ Line.kind = "score",
         UNCHANGED <<names, ybar, bars, tickAt, barLabels, contents>>
  PROVE  SpecInv'
<1> DEFINE c == contents[csv]
<1>1. SpecTypeOK /\ TablesRead /\ BarsDrawn
  BY DEF SpecInv
<1>2. /\ names = << >> /\ bars = << >> /\ barLabels = << >> /\ tickAt = << >>
      /\ csv \in Nat \ {0} /\ csv <= Len(Csvs) /\ Len(contents) = csv /\ Len(tables) = csv - 1
      /\ contents \in Seq(CsvContents) /\ tables \in Seq(Seq(CsvLines))
      /\ CsvFormed(c) /\ c \in Seq(CsvLines) /\ lineNo \in 1..(Len(c) + 1)
      /\ collecting = InTable(c, lineNo - 1)
      /\ resultLines = Kept(c, TablePlaces(c) \cap 1..(lineNo - 1))
      /\ \A i \in 1..(lineNo - 1) : c[i].kind # "score"
  BY WhileReading
<1>3. Line = c[lineNo] /\ Len(c) \in Nat /\ DOMAIN c = 1..Len(c)
  BY <1>2 DEF Line
<1> HIDE DEF c
<1>4. CASE score = FALSE
  <2>1. lineNo - 1 = Len(c)
    <3>1. lineNo \in 1..(Len(c) + 1)
      BY <1>2
    <3>2. lineNo > Len(c)
      BY <1>4 DEF c
    <3>3. QED
      BY <1>3, <3>1, <3>2
  <2>2. ~WholeFile(c)
    BY <1>2, <1>3, <2>1 DEF WholeFile
  <2>3. specPhase' \in Failures /\ UNCHANGED <<csv, tables, lineNo, collecting, resultLines>>
    BY <1>4 DEF CloseCsv, EndWith, Failures
  <2>4. QED
    BY <2>2, <2>3, FailsOnFile DEF c
<1>5. CASE score = TRUE
  <2>1. lineNo \in 1..Len(c) /\ c[lineNo].kind = "score" /\ ~InTable(c, lineNo - 1)
    BY <1>2, <1>3, <1>5 DEF c
  <2>2. /\ resultLines = << >> => ~Ended(c)
        /\ resultLines # << >> => Ended(c) /\ Tail(resultLines) = TableOf(c)
    BY <1>2, <2>1, ScoreMet
  <2>3. CASE resultLines = << >>
    <3>1. specPhase' \in Failures /\ UNCHANGED <<csv, tables, lineNo, collecting, resultLines>>
      BY <2>3 DEF CloseCsv, EndWith, Failures
    <3>2. ~WholeFile(c)
      BY <1>2, <2>2, <2>3, FinishedIfWhole
    <3>3. QED
      BY <3>1, <3>2, FailsOnFile DEF c
  <2>4. CASE resultLines # << >> /\ ~Finished(c)
    <3>1. \E row \in Members(Tail(resultLines)) : row.time = NoTime
      BY <1>2, <2>2, <2>4, FinishedRows
    <3>2. specPhase' \in Failures /\ UNCHANGED <<csv, tables, lineNo, collecting, resultLines>>
      BY <2>4, <3>1 DEF CloseCsv, EndWith, Failures
    <3>3. ~WholeFile(c)
      BY <1>2, <2>4, FinishedIfWhole
    <3>4. QED
      BY <3>2, <3>3, FailsOnFile DEF c
  <2>5. CASE resultLines # << >> /\ Finished(c)
    <3> \A row \in Members(Tail(resultLines)) : row.time # NoTime
      BY <1>2, <2>2, <2>5, FinishedRows
    <3>1. /\ tables' = Append(tables, TableOf(c)) /\ csv' = csv + 1
          /\ specPhase' = IF csv < Len(Csvs) THEN "open" ELSE "group"
      BY <1>5, <2>2, <2>5 DEF CloseCsv
    <3>2. TableOf(c) \in Seq(CsvLines)
      BY <1>2, TableTyped
    <3>3. /\ tables' \in Seq(Seq(CsvLines)) /\ Len(tables') = csv
          /\ tables'[csv] = TableOf(c)
          /\ \A i \in DOMAIN tables : tables'[i] = tables[i]
          /\ \A i \in DOMAIN tables' : i \in DOMAIN tables \/ i = csv
      BY <1>2, <3>1, <3>2
    <3>4. SpecTypeOK'
      <4> BarsTyped'
        BY <1>1 DEF SpecTypeOK, BarsTyped
      <4>1. CASE csv < Len(Csvs)
        BY <1>2, <3>1, <3>3, <4>1 DEF SpecTypeOK, Failures
      <4>2. CASE ~(csv < Len(Csvs))
        <5>1. csv = Len(Csvs) /\ specPhase' = "group" /\ csv' \in Nat \ {0}
          <6>1. Len(Csvs) \in Nat
            BY <1>1, SpecFacts
          <6>2. QED
            BY <1>2, <3>1, <4>2, <6>1
        <5>2. QED
          BY <1>2, <3>1, <3>3, <5>1 DEF SpecTypeOK, Failures
      <4>3. QED
        BY <4>1, <4>2
    <3>5. TablesRead'
      <4> SUFFICES ASSUME NEW i \in DOMAIN tables'
                   PROVE  /\ Ended(contents[i]) /\ Finished(contents[i])
                          /\ tables'[i] = Kept(contents[i], RowPlaces(contents[i]))
        BY DEF TablesRead
      <4>1. CASE i = csv
        BY <2>2, <2>5, <3>3, <4>1 DEF TableOf, c
      <4>2. CASE i # csv
        <5>1. i \in DOMAIN tables /\ tables'[i] = tables[i]
          BY <3>3, <4>2
        <5>2. QED
          BY <1>1, <5>1 DEF TablesRead
      <4>3. QED
        BY <4>1, <4>2
    <3>6. bars' = << >> /\ specPhase' \in {"open", "group"}
      BY <1>2, <3>1
    <3>7. BarsDrawn'
      BY <3>6 DEF BarsDrawn
    <3>8. LinesRead' /\ NamesKnown' /\ BarsInTurn' /\ WholeFilesDrawn'
      BY <3>6 DEF LinesRead, NamesKnown, BarsInTurn, WholeFilesDrawn, Failures
    <3>9. QED
      BY <3>4, <3>5, <3>7, <3>8 DEF SpecInv
  <2>6. QED
    BY <2>3, <2>4, <2>5
<1>6. QED
  BY <1>4, <1>5

\* A line is read.
LEMMA ReadLineKeeps ==
  ASSUME SpecInv, ReadLine
  PROVE  SpecInv'
<1>1. /\ specPhase = "lines"
      /\ UNCHANGED <<names, ybar, bars, tickAt, barLabels, contents>>
  BY DEF ReadLine
<1>2. lineNo \in Int /\ Len(contents[csv]) \in Nat
  <2>1. contents[csv] \in Seq(CsvLines) /\ lineNo \in 1..(Len(contents[csv]) + 1)
    BY <1>1, WhileReading
  <2>2. QED
    BY <2>1
<1>3. CASE lineNo > Len(contents[csv])
  <2>1. CloseCsv(FALSE)
    BY <1>3 DEF ReadLine
  <2>2. QED
    BY <1>1, <1>3, <2>1, CloseCsvKeeps
<1>4. CASE ~(lineNo > Len(contents[csv])) /\ ~collecting /\ Line.kind = "score"
  <2>1. CloseCsv(TRUE)
    BY <1>4 DEF ReadLine
  <2>2. lineNo <= Len(contents[csv])
    BY <1>2, <1>4
  <2>3. QED
    BY <1>1, <1>4, <2>1, <2>2, CloseCsvKeeps
<1>5. CASE ~(lineNo > Len(contents[csv])) /\ (collecting \/ Line.kind # "score")
  <2>1. TakeLine /\ lineNo' = lineNo + 1 /\ UNCHANGED <<specPhase, csv, tables>>
    BY <1>5 DEF ReadLine
  <2>2. lineNo <= Len(contents[csv])
    BY <1>2, <1>5
  <2>3. QED
    BY <1>1, <1>5, <2>1, <2>2, TakeLineKeeps
<1>6. QED
  BY <1>3, <1>4, <1>5

-----------------------------------------------------------------------------
(* Grouping.                                                               *)

\* The benchmarks of the first tables, as Group puts them one after another.
RowsBy(g, m) ==
  g = [i \in 0..m |-> IF i = 0 THEN << >> ELSE g[i - 1] \o Benchmarks(tables[i])]

\* The names of the benchmarks can be joined table by table.
LEMMA RowsExist ==
  \A n \in Nat : \E g : RowsBy(g, n)
<1> DEFINE S == {n \in Nat : \E g : RowsBy(g, n)}
<1>1. 0 \in S
  <2>1. RowsBy([i \in 0..0 |-> << >>], 0)
    BY DEF RowsBy
  <2>2. QED
    BY <2>1
<1>2. ASSUME NEW n \in Nat, n \in S
      PROVE  n + 1 \in S
  <2>1. PICK g : RowsBy(g, n)
    BY <1>2
  <2> DEFINE h == [i \in 0..(n + 1) |-> IF i <= n THEN g[i] ELSE g[n] \o Benchmarks(tables[i])]
  <2>2. ASSUME NEW i \in 0..(n + 1)
        PROVE  h[i] = IF i = 0 THEN << >> ELSE h[i - 1] \o Benchmarks(tables[i])
    <3>1. CASE i = n + 1
      BY <3>1
    <3>2. CASE i # n + 1 /\ i # 0
      <4>1. i \in 0..n /\ i - 1 \in 0..n
        BY <3>2
      <4>2. g[i] = g[i - 1] \o Benchmarks(tables[i])
        BY <2>1, <3>2, <4>1 DEF RowsBy
      <4>3. h[i] = g[i] /\ h[i - 1] = g[i - 1]
        BY <3>2, <4>1
      <4>4. QED
        BY <3>2, <4>2, <4>3
    <3>3. CASE i = 0
      BY <2>1, <3>3 DEF RowsBy
    <3>4. QED
      BY <3>1, <3>2, <3>3
  <2>3. RowsBy(h, n + 1)
    BY <2>2 DEF RowsBy
  <2>4. QED
    BY <2>3
<1> HIDE DEF S
<1>3. Nat \subseteq S
  BY <1>1, <1>2, SetInduction
<1>4. QED
  BY <1>3 DEF S

\* They are those of the tables, one after another.
LEMMA RowsMembers ==
  ASSUME tables \in Seq(Seq(CsvLines)), NEW g, RowsBy(g, Len(tables))
  PROVE  \A n \in Nat : n <= Len(tables) =>
           /\ g[n] \in Seq(STRING)
           /\ \A v : v \in Members(g[n]) <=> \E i \in 1..n : v \in Members(Benchmarks(tables[i]))
<1> DEFINE G(n) == /\ g[n] \in Seq(STRING)
                   /\ \A v : v \in Members(g[n]) <=> \E i \in 1..n : v \in Members(Benchmarks(tables[i]))
           S    == {n \in Nat : n <= Len(tables) => G(n)}
<1>0. /\ g[0] = << >>
      /\ \A i \in 1..Len(tables) : g[i] = g[i - 1] \o Benchmarks(tables[i])
  BY DEF RowsBy
<1>1. 0 \in S
  <2>1. g[0] \in Seq(STRING) /\ Members(g[0]) = {}
    BY <1>0 DEF Members
  <2>2. QED
    BY <2>1
<1>2. ASSUME NEW n \in Nat, n \in S
      PROVE  n + 1 \in S
  <2> HIDE DEF G
  <2> SUFFICES ASSUME n + 1 <= Len(tables)
               PROVE  G(n + 1)
    OBVIOUS
  <2>0. G(n)
    BY <1>2
  <2> USE DEF G
  <2> DEFINE t == tables[n + 1]
             b == Benchmarks(t)
  <2>1. n + 1 \in 1..Len(tables) /\ (n + 1) - 1 = n
    OBVIOUS
  <2>2. t \in Seq(CsvLines) /\ g[n + 1] = g[n] \o b
    <3>1. t \in Seq(CsvLines)
      BY <2>1
    <3>2. g[n + 1] = g[(n + 1) - 1] \o Benchmarks(tables[n + 1])
      BY <1>0, <2>1
    <3>3. QED
      BY <2>1, <3>1, <3>2
  <2> HIDE DEF t
  <2>3. b \in Seq(STRING)
    <3>1. \A i \in 1..Len(t) : t[i] \in CsvLines
      BY <2>2
    <3>2. \A i \in 1..Len(t) : t[i].name \in STRING
      BY <3>1 DEF CsvLines
    <3>3. Len(t) \in Nat /\ b \in [1..Len(t) -> STRING]
      BY <2>2, <3>2 DEF Benchmarks
    <3> HIDE DEF b
    <3>4. QED
      BY <3>3, FunctionIsSeq
  <2> HIDE DEF b
  <2>4. g[n + 1] \in Seq(STRING)
    BY <2>0, <2>2, <2>3
  <2>5. Members(g[n] \o b) = Members(g[n]) \cup Members(b)
    <3>1. /\ g[n] \in Seq(STRING) /\ Len(g[n] \o b) = Len(g[n]) + Len(b)
          /\ \A i \in 1..(Len(g[n]) + Len(b)) :
               (g[n] \o b)[i] = IF i <= Len(g[n]) THEN g[n][i] ELSE b[i - Len(g[n])]
      BY <2>0, <2>3, ConcatProperties
    <3>2. Len(g[n]) \in Nat /\ Len(b) \in Nat /\ DOMAIN b = 1..Len(b) /\ DOMAIN g[n] = 1..Len(g[n])
      BY <2>3, <3>1
    <3>3. DOMAIN (g[n] \o b) = 1..(Len(g[n]) + Len(b))
      BY <2>2, <2>4, <3>1
    <3>4. ASSUME NEW i \in DOMAIN (g[n] \o b)
          PROVE  (g[n] \o b)[i] \in Members(g[n]) \cup Members(b)
      <4>1. CASE i <= Len(g[n])
        BY <3>1, <3>2, <3>3, <4>1 DEF Members
      <4>2. CASE ~(i <= Len(g[n]))
        <5>1. i - Len(g[n]) \in DOMAIN b /\ (g[n] \o b)[i] = b[i - Len(g[n])]
          BY <3>1, <3>2, <3>3, <4>2
        <5>2. QED
          BY <5>1 DEF Members
      <4>3. QED
        BY <4>1, <4>2
    <3>5. ASSUME NEW i \in DOMAIN g[n]
          PROVE  g[n][i] \in Members(g[n] \o b)
      <4>1. i \in DOMAIN (g[n] \o b) /\ (g[n] \o b)[i] = g[n][i]
        BY <3>1, <3>2, <3>3
      <4>2. QED
        BY <4>1 DEF Members
    <3>6. ASSUME NEW i \in DOMAIN b
          PROVE  b[i] \in Members(g[n] \o b)
      <4>1. i + Len(g[n]) \in DOMAIN (g[n] \o b) /\ (g[n] \o b)[i + Len(g[n])] = b[i]
        BY <3>1, <3>2, <3>3
      <4>2. QED
        BY <4>1 DEF Members
    <3>7. QED
      BY <3>4, <3>5, <3>6 DEF Members
  <2>6. \A i \in 1..(n + 1) : i \in 1..n \/ i = n + 1
    OBVIOUS
  <2>7. ASSUME NEW v
        PROVE  v \in Members(g[n + 1]) <=> \E i \in 1..(n + 1) : v \in Members(Benchmarks(tables[i]))
    <3>1. v \in Members(g[n + 1]) <=> v \in Members(g[n]) \/ v \in Members(b)
      BY <2>2, <2>5
    <3>2. v \in Members(g[n]) <=> \E i \in 1..n : v \in Members(Benchmarks(tables[i]))
      BY <2>0
    <3>3. v \in Members(b) <=> v \in Members(Benchmarks(tables[n + 1]))
      BY DEF b, t
    <3>4. n + 1 \in 1..(n + 1) /\ \A i \in 1..n : i \in 1..(n + 1)
      OBVIOUS
    <3>5. QED
      BY <2>6, <3>1, <3>2, <3>3, <3>4
  <2>8. QED
    BY <2>4, <2>7
<1> HIDE DEF S
<1>3. Nat \subseteq S
  BY <1>1, <1>2, SetInduction
<1>4. QED
  BY <1>3 DEF S

\* Every value has a first occurrence.
LEMMA DistinctMembers ==
  ASSUME NEW X, NEW s \in Seq(X)
  PROVE  Distinct(s) \in Seq(X) /\ Members(Distinct(s)) = Members(s)
<1> DEFINE P == {i \in DOMAIN s : \A j \in 1..(i - 1) : s[j] # s[i]}
           t == Kept(s, P)
<1>1. DOMAIN s = 1..Len(s) /\ Len(s) \in Nat /\ P \cap 1..Len(s) = P
  OBVIOUS
<1>2. t \in Seq(X) /\ \E e : IsPlacing(e, t, s, P)
  <2> HIDE DEF P
  <2>1. QED
    BY <1>1, KeptPlaces
<1>3. PICK e : IsPlacing(e, t, s, P)
  BY <1>2
<1> HIDE DEF t
<1>4. /\ e \in [1..Len(t) -> P]
      /\ \A q \in P : \E i \in 1..Len(t) : e[i] = q
      /\ \A i \in 1..Len(t) : t[i] = s[e[i]]
  BY <1>3 DEF IsPlacing
<1>5. DOMAIN t = 1..Len(t)
  BY <1>2
<1>6. ASSUME NEW i \in DOMAIN s
      PROVE  \E j \in P : s[j] = s[i]
  <2> DEFINE T == {m \in Nat : \A k \in 1..m : k \in DOMAIN s /\ s[k] = s[i] => \E j \in P : s[j] = s[i]}
  <2>1. 0 \in T
    OBVIOUS
  <2>2. ASSUME NEW m \in Nat, m \in T
        PROVE  m + 1 \in T
    <3> SUFFICES ASSUME NEW k \in 1..(m + 1), k \in DOMAIN s, s[k] = s[i]
                 PROVE  \E j \in P : s[j] = s[i]
      OBVIOUS
    <3>1. CASE k \in P
      BY <3>1
    <3>2. CASE k \notin P
      <4>1. PICK l \in 1..(k - 1) : s[l] = s[k]
        BY <3>2
      <4>2. l \in 1..m /\ l \in DOMAIN s
        BY <1>1, <4>1
      <4>3. QED
        BY <2>2, <4>1, <4>2
    <3>3. QED
      BY <3>1, <3>2
  <2> HIDE DEF T
  <2>3. i \in T /\ i \in 1..i
    BY <1>1, <2>1, <2>2, SetInduction
  <2>4. QED
    BY <2>3 DEF T
<1>7. \A i \in 1..Len(t) : t[i] \in Members(s)
  BY <1>4 DEF Members
<1>8. \A i \in DOMAIN s : \E k \in 1..Len(t) : t[k] = s[i]
  <2> SUFFICES ASSUME NEW i \in DOMAIN s
               PROVE  \E k \in 1..Len(t) : t[k] = s[i]
    OBVIOUS
  <2>1. PICK j \in P : s[j] = s[i]
    BY <1>6
  <2>2. PICK k \in 1..Len(t) : e[k] = j
    BY <1>4, <2>1
  <2>3. QED
    BY <1>4, <2>1, <2>2
<1>9. Members(t) = Members(s)
  BY <1>5, <1>7, <1>8 DEF Members
<1>10. QED
  BY <1>2, <1>9 DEF Distinct, t

\* Remainders of a multiple of m and what follows it.
LEMMA Multiples ==
  ASSUME NEW a \in Nat, NEW m \in Nat, m > 0, a % m = 0, NEW r \in 0..(m - 1)
  PROVE  (a + r) % m = r /\ (a + m) % m = 0 /\ r % m = r
<1> DEFINE q == a \div m
<1>1. q \in Int /\ a = m * q
  OBVIOUS
<1> HIDE DEF q
<1>2. a + r = m * q + r /\ a + m = m * (q + 1) + 0
  BY <1>1
<1>3. ASSUME NEW p \in Int, NEW s \in 0..(m - 1)
      PROVE  (m * p + s) % m = s
  OBVIOUS
<1>4. QED
  BY <1>1, <1>2, <1>3

\* The benchmarks are grouped by their names.
LEMMA GroupKeeps ==
  ASSUME SpecInv, Group
  PROVE  SpecInv'
<1>1. SpecTypeOK /\ TablesRead /\ BarsDrawn
  BY DEF SpecInv
<1>2. /\ specPhase = "group" /\ specPhase' = "bars"
      /\ UNCHANGED <<csv, lineNo, collecting, resultLines, tables, ybar, bars,
                     tickAt, barLabels, contents>>
  BY DEF Group
<1>3. bars = << >> /\ barLabels = << >> /\ tickAt = << >> /\ tables \in Seq(Seq(CsvLines))
  BY <1>1, <1>2 DEF SpecTypeOK
<1> DEFINE m == Len(tables)
           g == CHOOSE f : RowsBy(f, m)
<1>4. m \in Nat /\ DOMAIN tables = 1..m /\ m <= m
  BY <1>3
<1>5. names' = Distinct(g[m])
  BY DEF Group, RowsBy
<1>6. RowsBy(g, m)
  BY <1>4, RowsExist
<1> HIDE DEF g
<1>7. /\ g[m] \in Seq(STRING)
      /\ \A v : v \in Members(g[m]) <=> \E i \in 1..m : v \in Members(Benchmarks(tables[i]))
  BY <1>3, <1>4, <1>6, RowsMembers
<1>8. names' \in Seq(STRING) /\ Members(names') = Members(g[m])
  BY <1>5, <1>7, DistinctMembers
<1> HIDE DEF m
<1>9. SpecTypeOK'
  <2>1. BarsTyped'
    BY <1>1, <1>2, <1>8 DEF SpecTypeOK, BarsTyped
  <2>2. QED
    BY <1>1, <1>2, <2>1 DEF SpecTypeOK, Failures
<1>10. TablesRead'
  BY <1>1, <1>2 DEF TablesRead
<1>11. NamesKnown'
  BY <1>2, <1>4, <1>7, <1>8 DEF NamesKnown
<1>12. BarsDrawn'
  <2>1. ASSUME NEW i \in DOMAIN tables
        PROVE  Members(Benchmarks(tables[i])) \subseteq Members(names')
    BY <1>4, <1>7, <1>8
  <2>2. DOMAIN bars' = {} /\ bars' = << >> /\ Len(bars') = 0 /\ 1..0 = {}
    BY <1>2, <1>3
  <2>3. QED
    BY <1>2, <2>1, <2>2 DEF BarsDrawn
<1>13. BarsInTurn'
  <2>1. 0 % Len(Csvs) = 0
    <3>1. Len(Csvs) \in Nat /\ Len(Csvs) > 0
      BY <1>1, SpecFacts
    <3>2. QED
      BY <3>1
  <2>2. bars' = << >> /\ barLabels' = << >> /\ tickAt' = << >> /\ Len(bars') = 0
    BY <1>2, <1>3
  <2>3. QED
    BY <2>1, <2>2 DEF BarsInTurn
<1>14. LinesRead' /\ WholeFilesDrawn'
  BY <1>2 DEF LinesRead, WholeFilesDrawn, Failures
<1>15. QED
  BY <1>9, <1>10, <1>11, <1>12, <1>13, <1>14 DEF SpecInv

-----------------------------------------------------------------------------
(* Drawing.                                                                *)

\* The tables and the files they are of.
LEMMA TablesOfFiles ==
  ASSUME SpecTypeOK, TablesRead, NEW i \in DOMAIN tables
  PROVE  /\ i \in DOMAIN contents /\ CsvFormed(contents[i]) /\ Ended(contents[i])
         /\ tables[i] = TableOf(contents[i])
         /\ Members(Benchmarks(tables[i])) = NamesIn(contents[i])
         /\ \A name : Len(Times(i, name)) = Len(RowsOf(i, name))
         /\ \A name : Len(RowsOf(i, name)) = Cardinality(FullTable(contents[i], name))
         /\ WholeFile(contents[i]) <=>
              \A name \in Members(Benchmarks(tables[i])) : Len(RowsOf(i, name)) = 3
<1>1. i \in DOMAIN contents /\ CsvFormed(contents[i])
  BY SpecFacts
<1>2. Ended(contents[i]) /\ Finished(contents[i]) /\ tables[i] = TableOf(contents[i])
  BY DEF TablesRead, TableOf
<1>3. Members(Benchmarks(tables[i])) = NamesIn(contents[i])
  BY <1>1, <1>2, TableTyped
<1>4. ASSUME NEW name
      PROVE  /\ Len(Times(i, name)) = Len(RowsOf(i, name))
             /\ Len(RowsOf(i, name)) = Cardinality(FullTable(contents[i], name))
  BY <1>1, <1>2, RunsCounted
<1>5. ASSUME NEW name
      PROVE  \A j \in FullTable(contents[i], name) : contents[i][j].time # NoTime
  BY <1>1, <1>2, FullTableRows DEF Finished
<1>6. WholeFile(contents[i]) <=>
        \A name \in Members(Benchmarks(tables[i])) : Len(RowsOf(i, name)) = 3
  BY <1>2, <1>3, <1>4, <1>5 DEF WholeFile, Ended
<1>7. QED
  BY <1>1, <1>2, <1>3, <1>4, <1>6

\* A benchmark has a bar for each file whose table names it.
LEMMA LabelsAre ==
  ASSUME SpecTypeOK, NEW name
  PROVE  /\ LabelsOf(name) \in Seq(Nat)
         /\ Members(LabelsOf(name))
              = {i \in DOMAIN tables : name \in Members(Benchmarks(tables[i]))}
         /\ (\A i \in DOMAIN tables : name \in Members(Benchmarks(tables[i]))) =>
              LabelsOf(name) = [i \in DOMAIN tables |-> i]
<1> DEFINE L == {i \in DOMAIN tables : name \in Members(Benchmarks(tables[i]))}
           m == Len(tables)
           s == [i \in DOMAIN tables |-> i]
           t == Kept(s, L)
<1>1. m \in Nat /\ DOMAIN tables = 1..m
  BY SpecFacts
<1>2. s \in [1..m -> Nat]
  BY <1>1
<1> HIDE DEF m
<1>3. s \in Seq(Nat) /\ Len(s) = m /\ \A i \in 1..m : s[i] = i
  <2>1. s \in Seq(Nat) /\ Len(s) = m
    <3> HIDE DEF s
    <3>1. QED
      BY <1>1, <1>2, FunctionIsSeq
  <2>2. QED
    BY <1>1, <2>1
<1>4. L \cap 1..Len(s) = L
  BY <1>1, <1>3
<1>5. LabelsOf(name) = t
  BY DEF LabelsOf
<1>6. t \in Seq(Nat) /\ \E e : IsPlacing(e, t, s, L)
  <2> HIDE DEF L, s
  <2>1. QED
    BY <1>3, <1>4, KeptPlaces
<1>7. Members(t) = L
  <2>1. PICK e : IsPlacing(e, t, s, L)
    BY <1>6
  <2> HIDE DEF t
  <2>2. /\ e \in [1..Len(t) -> L]
        /\ \A q \in L : \E i \in 1..Len(t) : e[i] = q
        /\ \A i \in 1..Len(t) : t[i] = s[e[i]]
    BY <2>1 DEF IsPlacing
  <2>3. DOMAIN t = 1..Len(t) /\ L \subseteq 1..m
    BY <1>1, <1>6
  <2> HIDE DEF L, s
  <2>4. \A i \in 1..Len(t) : t[i] = e[i] /\ e[i] \in L
    BY <1>3, <2>2, <2>3
  <2>5. ASSUME NEW q \in L
        PROVE  \E i \in DOMAIN t : t[i] = q
    <3>1. PICK i \in 1..Len(t) : e[i] = q
      BY <2>2
    <3>2. QED
      BY <2>3, <2>4, <3>1
  <2>6. \A i \in DOMAIN t : t[i] \in L
    BY <2>3, <2>4
  <2>7. QED
    BY <2>5, <2>6 DEF Members
<1>8. ASSUME \A i \in DOMAIN tables : name \in Members(Benchmarks(tables[i]))
      PROVE  t = s
  <2>1. \A i \in 1..Len(s) : i \in L <=> i <= m
    BY <1>1, <1>3, <1>8
  <2>2. Len(t) = m /\ \A i \in 1..m : t[i] = s[i]
    <3>1. m \in Nat /\ m <= Len(s)
      BY <1>1, <1>3
    <3> HIDE DEF L, s
    <3>2. QED
      BY <1>3, <2>1, <3>1, KeptBlock
  <2> HIDE DEF t, s
  <2>3. QED
    BY <1>3, <1>6, <2>2
<1>9. QED
  BY <1>5, <1>6, <1>7, <1>8

\* What is known when the bars of the next benchmark are drawn.
LEMMA NextBenchmark ==
  ASSUME SpecInv, specPhase = "bars", names # << >>
  PROVE  /\ Head(names) \in Members(names)
         /\ Members(names) = {Head(names)} \cup Members(Tail(names))
         /\ Tail(names) \in Seq(STRING)
         /\ LabelsOf(Head(names)) \in Seq(Nat) /\ LabelsOf(Head(names)) # << >>
         /\ \A i : i \in Members(LabelsOf(Head(names))) <=>
              i \in DOMAIN tables /\ Head(names) \in Members(Benchmarks(tables[i]))
         /\ \A i \in DOMAIN tables :
              Len(Times(i, Head(names))) = Len(RowsOf(i, Head(names)))
<1> DEFINE name == Head(names)
           labels == LabelsOf(name)
<1>1. SpecTypeOK /\ TablesRead /\ NamesKnown /\ names \in Seq(STRING)
  BY DEF SpecInv, SpecTypeOK, BarsTyped
<1>2. /\ Len(names) \in Nat /\ Len(names) >= 1 /\ DOMAIN names = 1..Len(names)
      /\ name = names[1] /\ Tail(names) \in Seq(STRING)
      /\ DOMAIN Tail(names) = 1..(Len(names) - 1)
      /\ \A i \in 1..(Len(names) - 1) : Tail(names)[i] = names[i + 1]
  BY <1>1
<1>3. name \in Members(names)
  <2>1. 1 \in DOMAIN names
    BY <1>2
  <2>2. QED
    BY <1>2, <2>1 DEF Members
<1>4. Members(names) = {name} \cup Members(Tail(names))
  <2>1. ASSUME NEW i \in DOMAIN names
        PROVE  names[i] \in {name} \cup Members(Tail(names))
    <3>1. CASE i = 1
      BY <1>2, <3>1
    <3>2. CASE i # 1
      <4>1. i - 1 \in DOMAIN Tail(names) /\ Tail(names)[i - 1] = names[i]
        BY <1>2, <3>2
      <4>2. QED
        BY <4>1 DEF Members
    <3>3. QED
      BY <3>1, <3>2
  <2>2. ASSUME NEW i \in DOMAIN Tail(names)
        PROVE  Tail(names)[i] \in Members(names)
    <3>1. i + 1 \in DOMAIN names /\ Tail(names)[i] = names[i + 1]
      BY <1>2
    <3>2. QED
      BY <3>1 DEF Members
  <2>3. QED
    BY <1>3, <2>1, <2>2 DEF Members
<1>5. labels \in Seq(Nat) /\ Members(labels) = {i \in DOMAIN tables : name \in Members(Benchmarks(tables[i]))}
  BY <1>1, LabelsAre
<1>6. PICK i \in DOMAIN tables : name \in Members(Benchmarks(tables[i]))
  BY <1>1, <1>3 DEF NamesKnown
<1> HIDE DEF labels
<1>7. labels # << >>
  <2>1. i \in Members(labels)
    BY <1>5, <1>6
  <2>2. QED
    BY <2>1 DEF Members
<1>8. \A k \in DOMAIN tables : Len(Times(k, name)) = Len(RowsOf(k, name))
  BY <1>1, TablesOfFiles
<1>9. QED
  BY <1>2, <1>3, <1>4, <1>5, <1>7, <1>8 DEF labels

\* The rows of a benchmark are those of the tables.
LEMMA RowsStay ==
  ASSUME UNCHANGED tables
  PROVE  \A i, name : RowsOf(i, name)' = RowsOf(i, name) /\ Times(i, name)' = Times(i, name)
BY DEF RowsOf, RunTimes, Times

\* A benchmark that was not run three times.
LEMMA AddBarsFails ==
  ASSUME SpecInv, AddBars, names # << >>, specPhase = "bars",
         \E i \in Members(LabelsOf(Head(names))) : Len(Times(i, Head(names))) # 3
  PROVE  SpecInv'
<1>1. SpecTypeOK /\ TablesRead /\ BarsDrawn
  BY DEF SpecInv
<1>2. /\ specPhase' = "AssertionError"
      /\ UNCHANGED <<names, ybar, bars, tickAt, barLabels, csv, lineNo, collecting,
                     resultLines, tables, contents>>
  BY DEF AddBars
<1>3. PICK i \in Members(LabelsOf(Head(names))) : Len(Times(i, Head(names))) # 3
  OBVIOUS
<1>4. /\ i \in DOMAIN tables /\ Head(names) \in Members(Benchmarks(tables[i]))
      /\ Len(RowsOf(i, Head(names))) # 3
  BY <1>3, NextBenchmark
<1>5. i \in DOMAIN contents /\ ~WholeFile(contents[i])
  BY <1>1, <1>4, TablesOfFiles
<1>6. WholeFilesDrawn'
  BY <1>2, <1>5 DEF WholeFilesDrawn
<1>7. SpecTypeOK'
  BY <1>1, <1>2 DEF SpecTypeOK, BarsTyped, Failures
<1>8. TablesRead' /\ LinesRead' /\ NamesKnown' /\ BarsInTurn'
  BY <1>1, <1>2 DEF TablesRead, LinesRead, NamesKnown, BarsInTurn
<1>9. BarsDrawn'
  BY <1>1, <1>2, RowsStay DEF BarsDrawn
<1>10. QED
  BY <1>6, <1>7, <1>8, <1>9 DEF SpecInv

\* The bars that are added.
LEMMA BarsAdded ==
  ASSUME SpecInv, AddBars, names # << >>, specPhase = "bars",
         NEW labels, labels = LabelsOf(Head(names)),
         \A i \in Members(labels) : Len(Times(i, Head(names))) = 3
  PROVE  /\ bars' \in Seq(Bars) /\ bars' # << >> /\ DOMAIN bars' = 1..(Len(bars) + Len(labels))
         /\ Len(bars') = Len(bars) + Len(labels) /\ Len(bars) \in Nat
         /\ Len(labels) \in Nat /\ DOMAIN labels = 1..Len(labels)
         /\ DOMAIN bars = 1..Len(bars)
         /\ \A n \in 1..Len(bars) : bars'[n] = bars[n]
         /\ \A idx \in 1..Len(labels) :
              bars'[Len(bars) + idx] =
                [name |-> Head(names), label |-> labels[idx], y |-> ybar + 10 * (idx - 1),
                 times |-> Times(labels[idx], Head(names))]
         /\ barLabels' = barLabels \o NewLabels(labels)
         /\ tickAt' = Append(tickAt, [name |-> Head(names),
                                      y |-> ybar + 10 * ((Len(labels) \div 2 + 1) - 1)])
         /\ names' = Tail(names)
         /\ UNCHANGED <<specPhase, csv, lineNo, collecting, resultLines, tables, contents>>
<1> DEFINE new == [idx \in DOMAIN labels |->
                     [name |-> Head(names), label |-> labels[idx], y |-> ybar + 10 * (idx - 1),
                      times |-> Times(labels[idx], Head(names))]]
<1>1. /\ bars' = bars \o new
      /\ barLabels' = barLabels \o NewLabels(labels)
      /\ tickAt' = Append(tickAt, [name |-> Head(names),
                                   y |-> ybar + 10 * ((Len(labels) \div 2 + 1) - 1)])
      /\ names' = Tail(names)
      /\ UNCHANGED <<specPhase, csv, lineNo, collecting, resultLines, tables, contents>>
  BY DEF AddBars
<1>2. labels \in Seq(Nat) /\ labels # << >>
  BY NextBenchmark
<1>12. SpecTypeOK /\ TablesRead /\ bars \in Seq(Bars) /\ names \in Seq(STRING) /\ ybar \in Int
  BY DEF SpecInv, SpecTypeOK, BarsTyped
<1>3. Len(labels) \in Nat /\ Len(labels) > 0 /\ DOMAIN labels = 1..Len(labels)
  BY <1>2
<1>4. DOMAIN bars = 1..Len(bars) /\ Len(bars) \in Nat
  BY <1>12
<1>5. new \in Seq(Bars) /\ Len(new) = Len(labels)
  <2>1. ASSUME NEW idx \in 1..Len(labels)
        PROVE  new[idx] \in Bars
    <3>1. labels[idx] \in Nat /\ labels[idx] \in Members(labels)
      BY <1>2, <1>3 DEF Members
    <3>2. labels[idx] \in DOMAIN tables
      BY <3>1, NextBenchmark
    <3>3. Times(labels[idx], Head(names)) \in Seq(Int)
      BY <1>12, <3>2, TablesOfFiles, RunsCounted
    <3>4. ybar + 10 * (idx - 1) \in Int /\ Head(names) \in STRING
      BY <1>12
    <3>5. new[idx] = [name |-> Head(names), label |-> labels[idx], y |-> ybar + 10 * (idx - 1),
                      times |-> Times(labels[idx], Head(names))]
      BY <1>3
    <3> HIDE DEF new
    <3>6. QED
      BY <3>1, <3>3, <3>4, <3>5 DEF Bars
  <2>2. new \in [1..Len(labels) -> Bars]
    <3>1. new = [idx \in 1..Len(labels) |-> new[idx]]
      BY <1>3
    <3> HIDE DEF new
    <3>2. QED
      BY <2>1, <3>1
  <2> HIDE DEF new
  <2>3. QED
    BY <1>3, <2>2, FunctionIsSeq
<1>6. /\ bars' \in Seq(Bars) /\ Len(bars') = Len(bars) + Len(labels)
      /\ \A i \in 1..(Len(bars) + Len(labels)) :
           bars'[i] = IF i <= Len(bars) THEN bars[i] ELSE new[i - Len(bars)]
  <2> HIDE DEF new
  <2>1. /\ bars \o new \in Seq(Bars) /\ Len(bars \o new) = Len(bars) + Len(new)
        /\ \A i \in 1..(Len(bars) + Len(new)) :
             (bars \o new)[i] = IF i <= Len(bars) THEN bars[i] ELSE new[i - Len(bars)]
    BY <1>5, <1>12, ConcatProperties
  <2>2. bars' = bars \o new /\ Len(new) = Len(labels)
    BY <1>1, <1>5 DEF new
  <2>3. QED
    BY <2>1, <2>2, Zenon
<1>7. /\ DOMAIN bars' = 1..(Len(bars) + Len(labels))
      /\ \A n \in 1..Len(bars) : bars'[n] = bars[n]
      /\ \A idx \in 1..Len(labels) : bars'[Len(bars) + idx] = new[idx]
  <2> HIDE DEF new
  <2>1. DOMAIN bars' = 1..(Len(bars) + Len(labels))
    BY <1>6
  <2>2. QED
    BY <1>3, <1>4, <1>6, <2>1
<1>9. bars' # << >>
  BY <1>3, <1>4, <1>7
<1>10. \A idx \in 1..Len(labels) : new[idx] =
         [name |-> Head(names), label |-> labels[idx], y |-> ybar + 10 * (idx - 1),
          times |-> Times(labels[idx], Head(names))]
  BY <1>3
<1> HIDE DEF new
<1>11. QED
  BY <1>1, <1>3, <1>4, <1>6, <1>7, <1>9, <1>10

\* With the same benchmarks in all files, a benchmark's bars are those of all
\* files in order.
LEMMA AllLabels ==
  ASSUME SpecInv, specPhase = "bars", names # << >>, SameBenchmarks
  PROVE  LabelsOf(Head(names)) = [i \in 1..Len(Csvs) |-> i] /\ DOMAIN tables = 1..Len(Csvs)
<1> DEFINE name == Head(names)
<1>1. SpecTypeOK /\ TablesRead /\ Len(tables) = Len(Csvs)
  BY DEF SpecInv, SpecTypeOK
<1>2. DOMAIN tables = 1..Len(Csvs)
  BY <1>1, SpecFacts
<1>3. PICK j : j \in Members(LabelsOf(name))
  <2>1. LabelsOf(name) \in Seq(Nat) /\ LabelsOf(name) # << >>
    BY NextBenchmark
  <2>2. 1 \in DOMAIN LabelsOf(name)
    BY <2>1
  <2>3. QED
    BY <2>2 DEF Members
<1>4. j \in DOMAIN tables /\ name \in Members(Benchmarks(tables[j]))
  BY <1>3, NextBenchmark
<1>5. \A i \in DOMAIN tables : name \in Members(Benchmarks(tables[i]))
  BY <1>1, <1>4, TablesOfFiles DEF SameBenchmarks
<1>6. QED
  BY <1>1, <1>2, <1>5, LabelsAre

\* With the same benchmarks in all files, the bars stay in the turn of the
\* files.
LEMMA BarsStayInTurn ==
  ASSUME SpecInv, AddBars, names # << >>, specPhase = "bars", SameBenchmarks,
         \A i \in Members(LabelsOf(Head(names))) : Len(Times(i, Head(names))) = 3
  PROVE  BarsInTurn'
<1> DEFINE labels == LabelsOf(Head(names))
           m == Len(Csvs)
           b == Len(bars)
<1>1. labels = [i \in 1..m |-> i]
  BY AllLabels
<1>2. SpecTypeOK /\ BarsInTurn
  BY DEF SpecInv
<1>3. m \in Nat /\ m > 0 /\ DOMAIN Csvs = 1..m
  BY <1>2, SpecFacts
<1>4. /\ bars' # << >> /\ DOMAIN bars' = 1..(b + Len(labels))
      /\ Len(bars') = b + Len(labels) /\ b \in Nat
      /\ DOMAIN labels = 1..Len(labels) /\ Len(labels) \in Nat
      /\ DOMAIN bars = 1..b
      /\ \A n \in 1..b : bars'[n] = bars[n]
      /\ \A idx \in 1..Len(labels) :
           bars'[b + idx] =
             [name |-> Head(names), label |-> labels[idx], y |-> ybar + 10 * (idx - 1),
              times |-> Times(labels[idx], Head(names))]
      /\ barLabels' = barLabels \o NewLabels(labels)
      /\ tickAt' = Append(tickAt, [name |-> Head(names),
                                   y |-> ybar + 10 * ((Len(labels) \div 2 + 1) - 1)])
      /\ UNCHANGED <<specPhase, contents>>
  BY BarsAdded
<1>5. Len(labels) = m /\ labels \in Seq(Nat) /\ \A idx \in 1..m : labels[idx] = idx
  <2>1. labels \in Seq(Nat)
    BY NextBenchmark
  <2>2. DOMAIN labels = 1..m
    BY <1>1
  <2>3. Len(labels) = m
    BY <1>3, <1>4, <2>2
  <2>4. QED
    BY <1>1, <2>1, <2>3
<1> HIDE DEF labels, m, b
<1>6. /\ barLabels = IF bars = << >> THEN << >> ELSE [i \in DOMAIN Csvs |-> i]
      /\ b % m = 0
      /\ \A n \in DOMAIN bars : bars[n].label = ((n - 1) % m) + 1
      /\ \A k \in DOMAIN tickAt : \E n \in DOMAIN bars :
           bars[n].name = tickAt[k].name /\ bars[n].y = tickAt[k].y
  BY <1>2 DEF BarsInTurn, m, b
<1>7. barLabels' = [i \in DOMAIN Csvs |-> i]
  <2>1. labels = [i \in DOMAIN Csvs |-> i]
    BY <1>1, <1>3 DEF labels, m
  <2>2. CASE bars = << >>
    <3>1. NewLabels(labels) = SubSeq(labels, 1, Len(labels) - 0) /\ barLabels = << >>
      BY <1>6, <2>2 DEF NewLabels
    <3>2. SubSeq(labels, 1, Len(labels)) = labels
      BY <1>5, SubSeqFull
    <3>3. << >> \o labels = labels
      BY <1>5, ConcatEmptySeq
    <3>4. Len(labels) - 0 = Len(labels)
      BY <1>3, <1>5
    <3>5. QED
      BY <1>4, <2>1, <3>1, <3>2, <3>3, <3>4
  <2>3. CASE bars # << >>
    <3>1. barLabels = labels
      BY <1>6, <2>1, <2>3
    <3>2. NewLabels(labels) = SubSeq(labels, 1, 0)
      BY <1>3, <1>5, <3>1 DEF NewLabels
    <3>3. SubSeq(labels, 1, 0) = << >>
      BY <1>5, SubSeqEmpty
    <3>4. labels \o << >> = labels
      BY <1>5, ConcatEmptySeq
    <3>5. QED
      BY <1>4, <2>1, <3>1, <3>2, <3>3, <3>4
  <2>4. QED
    BY <2>2, <2>3
<1>8. Len(bars') % m = 0
  <2>1. 0 \in 0..(m - 1)
    BY <1>3
  <2>2. (b + m) % m = 0
    BY <1>3, <1>4, <1>6, <2>1, Multiples
  <2>3. QED
    BY <1>4, <1>5, <2>2
<1>9. ASSUME NEW n \in DOMAIN bars'
      PROVE  bars'[n].label = ((n - 1) % m) + 1
  <2>1. CASE n <= b
    <3>1. n \in 1..b
      BY <1>3, <1>4, <1>5, <2>1
    <3>2. QED
      BY <1>4, <1>6, <3>1
  <2>2. CASE ~(n <= b)
    <3> DEFINE idx == n - b
    <3>1. idx \in 1..m /\ n = b + idx /\ idx - 1 \in 0..(m - 1) /\ n - 1 = b + (idx - 1)
      BY <1>3, <1>4, <1>5, <2>2
    <3> HIDE DEF idx
    <3>2. (b + (idx - 1)) % m = idx - 1
      BY <1>3, <1>4, <1>6, <3>1, Multiples
    <3>3. bars'[n].label = labels[idx]
      <4>1. bars'[b + idx] =
              [name |-> Head(names), label |-> labels[idx], y |-> ybar + 10 * (idx - 1),
               times |-> Times(labels[idx], Head(names))]
        BY <1>4, <1>5, <3>1
      <4>2. bars'[n] = bars'[b + idx]
        BY <3>1
      <4>3. QED
        BY <4>1, <4>2
    <3>4. labels[idx] = idx /\ (idx - 1) + 1 = idx
      BY <1>5, <3>1
    <3>5. QED
      BY <3>1, <3>2, <3>3, <3>4
  <2>3. QED
    BY <2>1, <2>2
<1>10. ASSUME NEW k \in DOMAIN tickAt'
       PROVE  \E n \in DOMAIN bars' : bars'[n].name = tickAt'[k].name /\ bars'[n].y = tickAt'[k].y
  <2> DEFINE tick == [name |-> Head(names), y |-> ybar + 10 * ((m \div 2 + 1) - 1)]
  <2>1. tickAt \in Seq(Ticks) /\ ybar \in Int /\ names \in Seq(STRING) /\ Head(names) \in STRING
    <3>1. tickAt \in Seq(Ticks) /\ ybar \in Int /\ names \in Seq(STRING)
      BY <1>2 DEF SpecTypeOK, BarsTyped
    <3>2. QED
      BY <3>1
  <2>2. tick \in Ticks /\ tickAt' = Append(tickAt, tick)
    <3>1. m \div 2 \in Int
      BY <1>3
    <3>2. ybar + 10 * ((m \div 2 + 1) - 1) \in Int
      BY <2>1, <3>1
    <3>3. QED
      BY <1>4, <1>5, <2>1, <3>2 DEF Ticks
  <2>3. CASE k <= Len(tickAt)
    <3>1. k \in DOMAIN tickAt /\ tickAt'[k] = tickAt[k]
      <4> HIDE DEF tick
      <4>1. QED
        BY <2>1, <2>2, <2>3
    <3>2. PICK n \in DOMAIN bars : bars[n].name = tickAt[k].name /\ bars[n].y = tickAt[k].y
      BY <1>6, <3>1
    <3>3. n \in DOMAIN bars' /\ bars'[n] = bars[n]
      BY <1>3, <1>4, <1>5, <3>2
    <3>4. QED
      BY <3>1, <3>2, <3>3
  <2>4. CASE ~(k <= Len(tickAt))
    <3>1. tickAt'[k] = tick
      <4> HIDE DEF tick
      <4>1. QED
        BY <2>1, <2>2, <2>4
    <3> DEFINE idx == m \div 2 + 1
    <3>2. idx \in 1..m
      BY <1>3
    <3> HIDE DEF idx
    <3>3. bars'[b + idx] = [name |-> Head(names), label |-> labels[idx], y |-> ybar + 10 * (idx - 1),
                            times |-> Times(labels[idx], Head(names))]
      BY <1>4, <1>5, <3>2
    <3>4. b + idx \in DOMAIN bars'
      BY <1>3, <1>4, <1>5, <3>2
    <3>5. tick.name = Head(names) /\ tick.y = ybar + 10 * (idx - 1)
      BY DEF idx
    <3>6. QED
      BY <3>1, <3>3, <3>4, <3>5
  <2>5. QED
    BY <2>1, <2>3, <2>4
<1>11. QED
  BY <1>4, <1>7, <1>8, <1>9, <1>10 DEF BarsInTurn, m

\* The bars of a benchmark are added.
LEMMA AddBarsKeeps ==
  ASSUME SpecInv, AddBars
  PROVE  SpecInv'
<1> DEFINE name == Head(names)
           labels == LabelsOf(name)
<1>1. specPhase = "bars" /\ names # << >>
  BY DEF AddBars
<1>2. CASE \E i \in Members(labels) : Len(Times(i, name)) # 3
  BY <1>1, <1>2, AddBarsFails
<1>3. CASE \A i \in Members(labels) : Len(Times(i, name)) = 3
  <2>1. SpecTypeOK /\ TablesRead /\ BarsDrawn /\ NamesKnown /\ BarsInTurn
    BY DEF SpecInv
  <2>2. /\ name \in Members(names)
        /\ Members(names) = {name} \cup Members(Tail(names))
        /\ Tail(names) \in Seq(STRING)
        /\ labels \in Seq(Nat)
        /\ \A i : i \in Members(labels) <=>
             i \in DOMAIN tables /\ name \in Members(Benchmarks(tables[i]))
        /\ \A i \in DOMAIN tables : Len(Times(i, name)) = Len(RowsOf(i, name))
    BY <1>1, NextBenchmark
  <2>3. /\ bars' \in Seq(Bars) /\ bars' # << >> /\ DOMAIN bars' = 1..(Len(bars) + Len(labels))
        /\ Len(bars) \in Nat /\ Len(labels) \in Nat /\ DOMAIN labels = 1..Len(labels)
        /\ DOMAIN bars = 1..Len(bars)
        /\ \A n \in 1..Len(bars) : bars'[n] = bars[n]
        /\ \A idx \in 1..Len(labels) :
             bars'[Len(bars) + idx] =
               [name |-> name, label |-> labels[idx], y |-> ybar + 10 * (idx - 1),
                times |-> Times(labels[idx], name)]
        /\ barLabels' = barLabels \o NewLabels(labels)
        /\ tickAt' = Append(tickAt, [name |-> name, y |-> ybar + 10 * ((Len(labels) \div 2 + 1) - 1)])
        /\ names' = Tail(names)
        /\ UNCHANGED <<specPhase, csv, lineNo, collecting, resultLines, tables, contents>>
    BY <1>1, <1>3, BarsAdded
  <2>4. \A i, nm : RowsOf(i, nm)' = RowsOf(i, nm) /\ Times(i, nm)' = Times(i, nm)
    BY <2>3, RowsStay
  <2>5. BarsTyped /\ ybar' = ybar + 10 * ((Len(labels) + 1) - 1) + 2
    <3>1. BarsTyped
      BY <2>1 DEF SpecTypeOK
    <3>2. QED
      BY <1>1, <1>3, <3>1 DEF AddBars
  <2> HIDE DEF labels, name
  <2>6. BarsTyped'
    <3>1. tickAt' \in Seq(Ticks)
      <4> DEFINE y1 == ybar + 10 * ((Len(labels) \div 2 + 1) - 1)
      <4>1. name \in STRING /\ tickAt \in Seq(Ticks)
        BY <1>1, <2>5 DEF BarsTyped, name
      <4>2. y1 \in Int
        <5>1. Len(labels) \div 2 \in Int /\ ybar \in Int
          BY <2>3, <2>5 DEF BarsTyped
        <5>2. QED
          BY <5>1
      <4> HIDE DEF y1
      <4>3. [name |-> name, y |-> y1] \in Ticks
        BY <4>1, <4>2 DEF Ticks
      <4>4. tickAt' = Append(tickAt, [name |-> name, y |-> y1])
        BY <2>3 DEF y1
      <4>5. QED
        BY <4>1, <4>3, <4>4, AppendProperties
    <3>2. barLabels' \in Seq(Nat)
      <4> DEFINE k == Len(labels) - Len(barLabels)
      <4>1. barLabels \in Seq(Nat) /\ Len(barLabels) \in Nat
        BY <2>5 DEF BarsTyped
      <4>2. SubSeq(labels, 1, k) \in Seq(Nat)
        <5>1. k \in Int /\ \A i \in 1..k : i \in 1..Len(labels)
          BY <2>3, <4>1
        <5>2. \A i \in 1..k : labels[i] \in Nat
          BY <2>2, <5>1
        <5> HIDE DEF k
        <5>3. QED
          BY <2>2, <5>1, <5>2, SubSeqProperties
      <4>3. barLabels' = barLabels \o SubSeq(labels, 1, k)
        BY <2>3 DEF NewLabels
      <4> HIDE DEF k
      <4>4. QED
        BY <4>1, <4>2, <4>3, ConcatProperties
    <3>3. ybar' \in Int
      BY <2>3, <2>5 DEF BarsTyped
    <3>4. QED
      BY <2>2, <2>3, <3>1, <3>2, <3>3 DEF BarsTyped
  <2>7. SpecTypeOK'
    BY <1>1, <2>1, <2>3, <2>6 DEF SpecTypeOK, Failures
  <2>8. TablesRead'
    BY <2>1, <2>3 DEF TablesRead
  <2>9. NamesKnown'
    BY <1>1, <2>1, <2>2, <2>3 DEF NamesKnown
  <2>10. BarsDrawn'
    <3>1. ASSUME NEW n \in DOMAIN bars'
          PROVE  /\ bars'[n].label \in DOMAIN tables
                 /\ Len(RowsOf(bars'[n].label, bars'[n].name)) = 3
                 /\ bars'[n].times = Times(bars'[n].label, bars'[n].name)
      <4>1. CASE n <= Len(bars)
        <5>1. n \in DOMAIN bars /\ bars'[n] = bars[n]
          BY <2>3, <4>1
        <5>2. QED
          BY <2>1, <5>1 DEF BarsDrawn
      <4>2. CASE ~(n <= Len(bars))
        <5> DEFINE idx == n - Len(bars)
        <5>1. idx \in 1..Len(labels) /\ n = Len(bars) + idx
          BY <2>3, <4>2
        <5> HIDE DEF idx
        <5>2. bars'[n].label = labels[idx] /\ bars'[n].name = name /\ bars'[n].times = Times(labels[idx], name)
          <6>1. bars'[Len(bars) + idx] =
                  [name |-> name, label |-> labels[idx], y |-> ybar + 10 * (idx - 1),
                   times |-> Times(labels[idx], name)]
            BY <2>3, <5>1
          <6>2. bars'[n] = bars'[Len(bars) + idx]
            BY <5>1
          <6>3. QED
            BY <6>1, <6>2
        <5>3. labels[idx] \in Members(labels)
          BY <2>3, <5>1 DEF Members
        <5>4. labels[idx] \in DOMAIN tables /\ Len(Times(labels[idx], name)) = 3
          BY <1>3, <2>2, <5>3 DEF labels, name
        <5>5. QED
          BY <2>2, <5>2, <5>4
      <4>3. QED
        BY <4>1, <4>2
    <3>2. ASSUME NEW i \in DOMAIN tables, NEW nm \in Members(Benchmarks(tables[i])),
                 nm \notin Members(Tail(names))
          PROVE  Len(RowsOf(i, nm)) = 3
      <4>1. CASE nm = name
        <5>1. i \in Members(labels)
          BY <2>2, <4>1
        <5>2. Len(Times(i, name)) = 3
          BY <1>3, <5>1 DEF labels, name
        <5>3. QED
          BY <2>2, <4>1, <5>2
      <4>2. CASE nm # name
        <5>1. nm \notin Members(names)
          BY <2>2, <3>2, <4>2
        <5>2. QED
          BY <1>1, <2>1, <5>1 DEF BarsDrawn
      <4>3. QED
        BY <4>1, <4>2
    <3>3. QED
      BY <1>1, <2>3, <2>4, <3>1, <3>2 DEF BarsDrawn
  <2>11. BarsInTurn'
    <3>1. CASE SameBenchmarks
      BY <1>1, <1>3, <3>1, BarsStayInTurn DEF labels, name
    <3>2. CASE ~SameBenchmarks
      BY <2>3, <3>2 DEF BarsInTurn, SameBenchmarks
    <3>3. QED
      BY <3>1, <3>2
  <2>12. LinesRead' /\ WholeFilesDrawn'
    BY <1>1, <2>3 DEF LinesRead, WholeFilesDrawn, Failures
  <2>13. QED
    BY <2>7, <2>8, <2>9, <2>10, <2>11, <2>12 DEF SpecInv
<1>4. QED
  BY <1>2, <1>3

\* The plot is shown.
LEMMA ShowKeeps ==
  ASSUME SpecInv, Show
  PROVE  SpecInv'
<1>1. SpecTypeOK /\ TablesRead /\ BarsDrawn /\ NamesKnown /\ BarsInTurn
  BY DEF SpecInv
<1>2. /\ specPhase = "bars" /\ names = << >>
      /\ specPhase' = IF bars = << >> THEN "IndexError" ELSE "shown"
      /\ UNCHANGED <<csv, lineNo, collecting, resultLines, tables, names, ybar,
                     bars, tickAt, barLabels, contents>>
  BY DEF Show
<1>3. Members(names) = {} /\ Len(contents) = Len(Csvs) /\ Len(tables) = Len(Csvs)
  BY <1>1, <1>2 DEF Members, SpecTypeOK
<1>4. DOMAIN contents = DOMAIN tables
  BY <1>1, <1>3, SpecFacts
<1>5. SpecTypeOK'
  BY <1>1, <1>2 DEF SpecTypeOK, BarsTyped, Failures
<1>6. TablesRead' /\ LinesRead' /\ NamesKnown'
  BY <1>1, <1>2 DEF TablesRead, LinesRead, NamesKnown
<1>7. BarsDrawn'
  BY <1>1, <1>2, RowsStay DEF BarsDrawn
<1>8. BarsInTurn'
  BY <1>1, <1>2 DEF BarsInTurn, SameBenchmarks
<1>9. WholeFilesDrawn'
  <2>1. CASE bars = << >>
    <3>1. \A i \in DOMAIN contents : NamesIn(contents[i]) = {}
      BY <1>1, <1>2, <1>3, <1>4, <2>1, TablesOfFiles DEF BarsDrawn
    <3>2. QED
      BY <1>2, <2>1, <3>1 DEF WholeFilesDrawn
  <2>2. CASE bars # << >>
    <3>1. \A i \in DOMAIN contents : WholeFile(contents[i])
      BY <1>1, <1>2, <1>3, <1>4, TablesOfFiles DEF BarsDrawn
    <3>2. QED
      BY <1>2, <2>2, <3>1 DEF WholeFilesDrawn, Failures
  <2>3. QED
    BY <2>1, <2>2
<1>10. QED
  BY <1>5, <1>6, <1>7, <1>8, <1>9 DEF SpecInv

\* plot_spec.py keeps what SpecInv says of what it has read and drawn.
THEOREM CsvSafety == CsvSpec => []SpecInv
<1>1. ASSUME SpecInv, [SpecNext]_specVars
      PROVE  SpecInv'
  <2>1. ASSUME NEW content \in CsvContents, OpenCsv(content)
        PROVE  SpecInv'
    BY <1>1, <2>1, OpenCsvKeeps
  <2>2. CASE ReadLine
    BY <1>1, <2>2, ReadLineKeeps
  <2>3. CASE Group
    BY <1>1, <2>3, GroupKeeps
  <2>4. CASE AddBars
    BY <1>1, <2>4, AddBarsKeeps
  <2>5. CASE Show
    BY <1>1, <2>5, ShowKeeps
  <2>6. CASE UNCHANGED specVars
    <3>1. /\ UNCHANGED <<specPhase, csv, lineNo, collecting, resultLines, tables, names>>
          /\ UNCHANGED <<ybar, bars, tickAt, barLabels, contents>>
      BY <2>6 DEF specVars
    <3>2. SpecTypeOK' /\ TablesRead' /\ LinesRead' /\ NamesKnown'
      BY <1>1, <3>1 DEF SpecInv, SpecTypeOK, BarsTyped, TablesRead, LinesRead, NamesKnown
    <3>3. BarsDrawn'
      BY <1>1, <3>1, RowsStay DEF SpecInv, BarsDrawn
    <3>4. BarsInTurn' /\ WholeFilesDrawn'
      BY <1>1, <3>1 DEF SpecInv, BarsInTurn, SameBenchmarks, WholeFilesDrawn
    <3>5. QED
      BY <3>2, <3>3, <3>4 DEF SpecInv
  <2>7. QED
    BY <1>1, <2>1, <2>2, <2>3, <2>4, <2>5, <2>6 DEF SpecNext, SpecOver
<1>2. QED
  BY <1>1, SpecInitially, PTL DEF CsvSpec

\* A figure is drawn exactly if every file is whole and not all are empty.
THEOREM OnlyWholeFiles == CsvSpec => []WholeFilesDrawn
<1>1. SpecInv => WholeFilesDrawn
  BY DEF SpecInv
<1>2. QED
  BY <1>1, CsvSafety, PTL

\* Two different members.
LEMMA AtLeastTwo ==
  ASSUME NEW T, IsFiniteSet(T), NEW a \in T, NEW b \in T, a # b
  PROVE  Cardinality(T) >= 2
<1>1. Cardinality({}) = 0 /\ IsFiniteSet({})
  BY FS_EmptySet
<1> DEFINE A == {a}
<1>2. IsFiniteSet(A) /\ Cardinality(A) = 1 /\ b \notin A
  BY FS_Singleton
<1> HIDE DEF A
<1>3. IsFiniteSet(A \cup {b}) /\ Cardinality(A \cup {b}) = 2
  BY <1>2, FS_AddElement
<1>4. A \cup {b} \in SUBSET T
  BY DEF A
<1> DEFINE P == A \cup {b}
<1> HIDE DEF P
<1>5. Cardinality(P) <= Cardinality(T) /\ Cardinality(T) \in Nat
  BY <1>4, FS_Subset, FS_CardinalityType DEF P
<1>6. QED
  BY <1>3, <1>5 DEF P

\* Three times in order, of the runs of a benchmark.
LEMMA TimesOfRuns ==
  ASSUME SpecInv, NEW n \in DOMAIN bars
  PROVE  LET c    == contents[bars[n].label]
             runs == FullTable(c, bars[n].name)
             t    == bars[n].times
         IN /\ IsFiniteSet(runs) /\ DOMAIN t = 1..3
            /\ \A i \in runs : c[i].time \in Int
            /\ \E d \in [1..3 -> runs] :
                 /\ \A k, l \in 1..3 : d[k] = d[l] => k = l
                 /\ \A q \in runs : \E k \in 1..3 : d[k] = q
                 /\ \A k \in 1..3 : t[k] = c[d[k]].time
                 /\ \A k, l \in 1..3 : k < l => t[k] <= t[l]
<1> DEFINE i    == bars[n].label
           name == bars[n].name
           c    == contents[i]
           runs == FullTable(c, name)
           rows == RowsOf(i, name)
           unsorted == RunTimes(i, name)
           o    == Order(unsorted)
           t    == bars[n].times
<1>1. SpecTypeOK /\ TablesRead /\ i \in DOMAIN tables /\ Len(rows) = 3 /\ t = Times(i, name)
  BY DEF SpecInv, BarsDrawn
<1>2. CsvFormed(c) /\ Ended(c) /\ tables[i] = TableOf(c)
  BY <1>1, TablesOfFiles
<1>3. /\ IsFiniteSet(runs) /\ rows \in Seq(CsvLines)
  BY <1>2, RunsCounted
<1>4. DOMAIN rows = 1..3
  BY <1>1, <1>3
<1>5. PICK e : IsRuns(e, rows, c, name)
  BY <1>2, RowsAreRuns
<1> HIDE DEF rows, runs, c, i, name
<1>6. /\ e \in [1..3 -> runs]
      /\ \A k, l \in 1..3 : e[k] = e[l] => k = l
      /\ \A q \in runs : \E k \in 1..3 : e[k] = q
      /\ \A k \in 1..3 : rows[k] = c[e[k]]
  BY <1>1, <1>5 DEF IsRuns, runs
<1>7. unsorted = [k \in 1..3 |-> rows[k].time]
  BY <1>4 DEF RunTimes, rows
<1>8. \A k \in 1..3 : rows[k].time \in Int
  <2>1. \A k \in 1..3 : rows[k] \in CsvLines
    BY <1>1, <1>3, SMTT(30)
  <2>2. QED
    BY <2>1 DEF CsvLines
<1>9. unsorted \in Seq(Int) /\ Len(unsorted) = 3 /\ DOMAIN unsorted = 1..3
  <2>1. unsorted \in [1..3 -> Int]
    BY <1>7, <1>8
  <2> HIDE DEF unsorted
  <2>2. 3 \in Nat
    OBVIOUS
  <2>3. QED
    BY <2>1, <2>2, FunctionIsSeq
<1>10. t = [k \in 1..3 |-> unsorted[o[k]]]
  BY <1>1, <1>9 DEF Times
<1> HIDE DEF unsorted, t
<1>11. /\ o \in [1..3 -> 1..3]
       /\ \A k, l \in 1..3 : o[k] = o[l] => k = l
       /\ \A p \in 1..3 : \E k \in 1..3 : o[k] = p
       /\ \A k, l \in 1..3 : k < l => unsorted[o[k]] <= unsorted[o[l]]
  <2>1. Len(unsorted) = 3
    BY <1>9
  <2>2. QED
    BY <1>9, <2>1, OrderSorts
<1> HIDE DEF o
<1> DEFINE d == [k \in 1..3 |-> e[o[k]]]
<1>12. d \in [1..3 -> runs]
  BY <1>6, <1>11
<1>13. \A k, l \in 1..3 : d[k] = d[l] => k = l
  BY <1>6, <1>11
<1>14. ASSUME NEW q \in runs
       PROVE  \E k \in 1..3 : d[k] = q
  <2>1. PICK p \in 1..3 : e[p] = q
    BY <1>6
  <2>2. PICK k \in 1..3 : o[k] = p
    BY <1>11
  <2>3. QED
    BY <2>1, <2>2
<1>15. \A k \in 1..3 : t[k] = c[d[k]].time
  BY <1>6, <1>7, <1>10, <1>11
<1>16. \A k, l \in 1..3 : k < l => t[k] <= t[l]
  BY <1>10, <1>11
<1>17. \A q \in runs : c[q].time \in Int
  BY <1>6, <1>8
<1>18. DOMAIN t = 1..3
  BY <1>10
<1> HIDE DEF d
<1>19. QED
  BY <1>3, <1>12, <1>13, <1>14, <1>15, <1>16, <1>17, <1>18 DEF runs, c, t, i, name

\* A bar shows the median of its benchmark's runs, its whiskers the others.
THEOREM BarsAreRuns == CsvSpec => []BarsShowRuns
<1>1. ASSUME SpecInv
      PROVE  BarsShowRuns
  <2> SUFFICES ASSUME NEW n \in DOMAIN bars
               PROVE  LET c    == contents[bars[n].label]
                          runs == FullTable(c, bars[n].name)
                          t    == bars[n].times
                      IN /\ {c[i].time : i \in runs} = Members(t)
                         /\ \A i \in runs : t[1] <= c[i].time /\ c[i].time <= t[3]
                         /\ Cardinality({i \in runs : c[i].time <= t[2]}) >= 2
                         /\ Cardinality({i \in runs : c[i].time >= t[2]}) >= 2
    BY DEF BarsShowRuns
  <2> DEFINE c    == contents[bars[n].label]
             runs == FullTable(c, bars[n].name)
             t    == bars[n].times
  <2>1. /\ IsFiniteSet(runs) /\ DOMAIN t = 1..3
        /\ \A i \in runs : c[i].time \in Int
        /\ \E d \in [1..3 -> runs] :
             /\ \A k, l \in 1..3 : d[k] = d[l] => k = l
             /\ \A q \in runs : \E k \in 1..3 : d[k] = q
             /\ \A k \in 1..3 : t[k] = c[d[k]].time
             /\ \A k, l \in 1..3 : k < l => t[k] <= t[l]
    BY <1>1, TimesOfRuns
  <2> HIDE DEF c, runs, t
  <2>2. PICK d \in [1..3 -> runs] :
             /\ \A k, l \in 1..3 : d[k] = d[l] => k = l
             /\ \A q \in runs : \E k \in 1..3 : d[k] = q
             /\ \A k \in 1..3 : t[k] = c[d[k]].time
             /\ \A k, l \in 1..3 : k < l => t[k] <= t[l]
    BY <2>1
  <2>3. 1 \in 1..3 /\ 2 \in 1..3 /\ 3 \in 1..3
    OBVIOUS
  <2>4. /\ t[1] \in Int /\ t[2] \in Int /\ t[3] \in Int /\ t[1] <= t[2] /\ t[2] <= t[3]
        /\ d[1] \in runs /\ d[2] \in runs /\ d[3] \in runs /\ d[1] # d[2] /\ d[3] # d[2]
        /\ t[1] = c[d[1]].time /\ t[2] = c[d[2]].time /\ t[3] = c[d[3]].time
    BY <2>1, <2>2, <2>3
  <2>5. \A q \in runs : \E k \in 1..3 : d[k] = q /\ c[q].time = t[k]
    BY <2>2
  <2>6. {c[i].time : i \in runs} = Members(t)
    <3>1. \A q \in runs : \E k \in DOMAIN t : c[q].time = t[k]
      BY <2>1, <2>5
    <3>2. \A k \in DOMAIN t : \E q \in runs : c[q].time = t[k]
      BY <2>1, <2>2
    <3>3. QED
      BY <3>1, <3>2 DEF Members
  <2>7. \A q \in runs : t[1] <= c[q].time /\ c[q].time <= t[3]
    <3> SUFFICES ASSUME NEW q \in runs
                 PROVE  t[1] <= c[q].time /\ c[q].time <= t[3]
      OBVIOUS
    <3>1. PICK k \in 1..3 : c[q].time = t[k]
      BY <2>5
    <3>2. k = 1 \/ k = 2 \/ k = 3
      OBVIOUS
    <3>3. QED
      BY <2>4, <3>1, <3>2
  <2>8. Cardinality({i \in runs : c[i].time <= t[2]}) >= 2
    <3> DEFINE T == {i \in runs : c[i].time <= t[2]}
    <3>1. T \in SUBSET runs /\ d[1] \in T /\ d[2] \in T
      BY <2>4
    <3> HIDE DEF T
    <3>2. IsFiniteSet(T)
      BY <2>1, <3>1, FS_Subset
    <3>3. Cardinality(T) >= 2
      BY <2>4, <3>1, <3>2, AtLeastTwo
    <3>4. QED
      BY <3>3 DEF T
  <2>9. Cardinality({i \in runs : c[i].time >= t[2]}) >= 2
    <3> DEFINE T == {i \in runs : c[i].time >= t[2]}
    <3>1. T \in SUBSET runs /\ d[3] \in T /\ d[2] \in T
      BY <2>4
    <3> HIDE DEF T
    <3>2. IsFiniteSet(T)
      BY <2>1, <3>1, FS_Subset
    <3>3. Cardinality(T) >= 2
      BY <2>4, <3>1, <3>2, AtLeastTwo
    <3>4. QED
      BY <3>3 DEF T
  <2>10. QED
    BY <2>6, <2>7, <2>8, <2>9 DEF c, runs, t
<1>2. QED
  BY <1>1, CsvSafety, PTL

\* With the same benchmarks in all files, a bar has its configuration's colour.
THEOREM BarsAreRecognisable == CsvSpec => []BarsRecognisable
<1>1. ASSUME SpecInv
      PROVE  BarsRecognisable
  <2> SUFFICES ASSUME specPhase = "shown", SameBenchmarks
               PROVE  /\ \A n \in DOMAIN bars : ColourOf(n) = Csvs[bars[n].label]
                      /\ bars # << >> => barLabels = [i \in DOMAIN Csvs |-> i]
                      /\ \A k \in DOMAIN tickAt : \E n \in DOMAIN bars :
                           bars[n].name = tickAt[k].name /\ bars[n].y = tickAt[k].y
    BY DEF BarsRecognisable
  <2> DEFINE m == Len(Csvs)
  <2>1. /\ barLabels = IF bars = << >> THEN << >> ELSE [i \in DOMAIN Csvs |-> i]
        /\ \A n \in DOMAIN bars : bars[n].label = ((n - 1) % m) + 1
        /\ \A k \in DOMAIN tickAt : \E n \in DOMAIN bars :
             bars[n].name = tickAt[k].name /\ bars[n].y = tickAt[k].y
        /\ bars # << >>
    BY <1>1 DEF SpecInv, BarsInTurn, BarsDrawn
  <2>2. m \in Nat /\ m > 0 /\ DOMAIN Csvs = 1..m /\ bars \in Seq(Bars)
    BY <1>1, SpecFacts DEF SpecInv, SpecTypeOK, BarsTyped
  <2> HIDE DEF m
  <2>3. barLabels = [i \in 1..m |-> i] /\ Len(barLabels) = m
    <3>1. barLabels = [i \in 1..m |-> i]
      BY <2>1, <2>2
    <3>2. barLabels \in [1..m -> Nat]
      BY <2>2, <3>1
    <3>3. QED
      BY <2>2, <3>1, <3>2, FunctionIsSeq
  <2>4. ASSUME NEW n \in DOMAIN bars
        PROVE  ColourOf(n) = Csvs[bars[n].label]
    <3>1. n - 1 \in Nat /\ (n - 1) % m \in 0..(m - 1)
      BY <2>2
    <3> DEFINE k == (n - 1) % m
    <3>2. k + 1 \in 1..m
      BY <2>2, <3>1
    <3>3. barLabels[k + 1] = k + 1
      BY <2>3, <3>2
    <3>4. ColourOf(n) = Csvs[barLabels[k + 1]]
      BY <2>3 DEF ColourOf
    <3>5. QED
      BY <2>1, <3>3, <3>4
  <2>5. QED
    BY <2>1, <2>4
<1>2. QED
  BY <1>1, CsvSafety, PTL

-----------------------------------------------------------------------------
(* The plot of the lighttpd benchmark.                                     *)

\* A member of a sequence that sorted() has at place k, by the numbers that
\* order the sequence.
LEMMA SortedIs ==
  ASSUME NEW s \in Seq(Rationals), NEW keys \in Seq(Int), Len(s) = Len(keys),
         \A i, j \in 1..Len(s) : Less(s[i], s[j]) <=> keys[i] < keys[j],
         NEW k \in 0..(Len(s) - 1)
  PROVE  \E j \in 1..Len(s) : Sorted(s, k) = s[j] /\ IsMiddle(keys, keys[j], k)
<1> DEFINE n == Len(s)
           below(v) == Cardinality({i \in DOMAIN s : Less(s[i], v)})
           upTo(v)  == Cardinality({i \in DOMAIN s : ~Less(v, s[i])})
           right(v) == below(v) <= k /\ k < upTo(v)
<1>1. n \in Nat /\ DOMAIN s = 1..n /\ Len(keys) = n /\ \A i \in 1..n : keys[i] \in Int
  OBVIOUS
<1>2. Sorted(s, k) = CHOOSE v \in Elements(s) : right(v)
  BY DEF Sorted
<1>3. ASSUME NEW j \in 1..n
      PROVE  right(s[j]) <=> IsMiddle(keys, keys[j], k)
  <2>1. {i \in DOMAIN s : Less(s[i], s[j])} = {i \in 1..n : keys[i] < keys[j]}
    BY <1>1
  <2>2. {i \in DOMAIN s : ~Less(s[j], s[i])} = {i \in 1..n : keys[i] <= keys[j]}
    <3>1. \A i \in 1..n : ~Less(s[j], s[i]) <=> keys[i] <= keys[j]
      BY <1>1
    <3>2. QED
      BY <1>1, <3>1
  <2>3. below(s[j]) = Cardinality({i \in 1..n : keys[i] < keys[j]})
    BY <2>1
  <2>4. upTo(s[j]) = Cardinality({i \in 1..n : keys[i] <= keys[j]})
    BY <2>2
  <2>5. \E i \in 1..n : keys[j] = keys[i]
    OBVIOUS
  <2> HIDE DEF below, upTo, n
  <2>6. QED
    BY <1>1, <2>3, <2>4, <2>5 DEF IsMiddle
<1> HIDE DEF right
<1>4. PICK m \in Int : IsMiddle(keys, m, k)
  <2>1. k \in 0..(Len(keys) - 1)
    BY <1>1
  <2>2. QED
    BY <2>1, MiddleExists
<1>5. PICK j \in 1..n : m = keys[j]
  BY <1>1, <1>4 DEF IsMiddle
<1>6. s[j] \in Elements(s) /\ right(s[j])
  BY <1>1, <1>3, <1>4, <1>5 DEF Elements
<1>7. Sorted(s, k) \in Elements(s) /\ right(Sorted(s, k))
  BY <1>2, <1>6
<1>8. PICK l \in 1..n : Sorted(s, k) = s[l]
  BY <1>1, <1>7 DEF Elements
<1>9. QED
  BY <1>3, <1>7, <1>8

\* The number in the middle is the only one there.
LEMMA OneMiddle ==
  ASSUME NEW keys \in Seq(Int), NEW k \in Nat, NEW l \in Nat, k <= l,
         NEW v, IsMiddle(keys, v, k), NEW w, IsMiddle(keys, w, l)
  PROVE  v \in Int /\ w \in Int /\ v <= w /\ (k = l => v = w)
<1>0. Len(keys) \in Nat /\ \A i \in 1..Len(keys) : keys[i] \in Int
  OBVIOUS
<1>1. v \in Int /\ w \in Int
  BY <1>0 DEF IsMiddle
<1> DEFINE lowV == Cardinality({i \in 1..Len(keys) : keys[i] < v})
           lowW == Cardinality({i \in 1..Len(keys) : keys[i] < w})
           upV  == Cardinality({i \in 1..Len(keys) : keys[i] <= v})
           upW  == Cardinality({i \in 1..Len(keys) : keys[i] <= w})
<1>2. lowV <= k /\ k < upV /\ lowW <= l /\ l < upW
  BY DEF IsMiddle
<1>3. lowV \in Nat /\ lowW \in Nat /\ upV \in Nat /\ upW \in Nat
  BY <1>0, PlacesFinite
<1> HIDE DEF lowV, lowW, upV, upW
<1>4. upW > l /\ lowV <= l
  BY <1>2, <1>3
<1>5. v <= w
  BY <1>1, <1>4, MiddleUnique DEF upW, lowV
<1>6. ASSUME k = l
      PROVE  w <= v
  <2>1. upV > l /\ lowW <= l
    BY <1>2, <1>3, <1>6
  <2>2. QED
    BY <1>1, <2>1, MiddleUnique DEF upV, lowW
<1>7. QED
  BY <1>1, <1>5, <1>6

\* The places with and those without add up.
LEMMA PlacesSplit ==
  ASSUME NEW n \in Nat, NEW A \in SUBSET (1..n), NEW B \in SUBSET (1..n),
         \A i \in 1..n : i \in A <=> i \notin B
  PROVE  /\ Cardinality(A) \in Nat /\ Cardinality(B) \in Nat
         /\ Cardinality(A) + Cardinality(B) = n
<1>1. IsFiniteSet(A) /\ IsFiniteSet(B) /\ Cardinality(A) \in Nat /\ Cardinality(B) \in Nat
  BY PlacesFinite
<1>2. A \cup B = 1..n /\ A \cap B = {}
  OBVIOUS
<1>3. Cardinality(A \cup B) = n /\ Cardinality(A \cap B) = 0
  <2>1. Cardinality(1..n) = n /\ Cardinality({}) = 0
    BY FS_Interval, FS_EmptySet
  <2>2. QED
    BY <1>2, <2>1
<1>4. Cardinality(A \cup B) = Cardinality(A) + Cardinality(B) - Cardinality(A \cap B)
  BY <1>1, FS_Union
<1> DEFINE a == Cardinality(A)
           b == Cardinality(B)
<1>5. a \in Nat /\ b \in Nat /\ n = a + b - 0
  BY <1>1, <1>3, <1>4
<1> HIDE DEF a, b
<1>6. a + b = n
  BY <1>5
<1>7. QED
  BY <1>5, <1>6 DEF a, b

\* Counted from above, place k is place n - 1 - k.
LEMMA MiddleFromAbove ==
  ASSUME NEW keys \in Seq(Int), NEW negs \in Seq(Int), Len(negs) = Len(keys),
         \A i \in 1..Len(keys) : negs[i] = -keys[i],
         NEW k \in 0..(Len(keys) - 1), NEW w \in Int, IsMiddle(negs, -w, k)
  PROVE  IsMiddle(keys, w, Len(keys) - 1 - k)
<1> DEFINE n == Len(keys)
           less  == {i \in 1..n : keys[i] < w}
           upTo  == {i \in 1..n : keys[i] <= w}
           nless == {i \in 1..n : negs[i] < -w}
           nupTo == {i \in 1..n : negs[i] <= -w}
<1>0. n \in Nat /\ \A i \in 1..n : keys[i] \in Int /\ negs[i] = -keys[i]
  OBVIOUS
<1> HIDE DEF n
<1>1. Cardinality(nless) <= k /\ k < Cardinality(nupTo) /\ \E i \in 1..n : -w = negs[i]
  BY DEF IsMiddle, n
<1>2. \E i \in 1..n : w = keys[i]
  <2>1. PICK i \in 1..n : -w = negs[i]
    BY <1>1
  <2>2. w = keys[i]
    BY <1>0, <2>1, SMTT(30)
  <2>3. QED
    BY <2>2
<1>3. ASSUME NEW i \in 1..n
      PROVE  (i \in less <=> i \notin nupTo) /\ (i \in upTo <=> i \notin nless)
  <2>1. keys[i] \in Int /\ negs[i] = -keys[i] /\ (keys[i] < w <=> ~(-keys[i] <= -w))
    BY <1>0
  <2>2. i \in less <=> keys[i] < w
    OBVIOUS
  <2>3. i \in upTo <=> keys[i] <= w
    OBVIOUS
  <2>4. i \in nless <=> negs[i] < -w
    OBVIOUS
  <2>5. i \in nupTo <=> negs[i] <= -w
    OBVIOUS
  <2> HIDE DEF less, upTo, nless, nupTo
  <2>6. QED
    BY <2>1, <2>2, <2>3, <2>4, <2>5, SMTT(30)
<1>4. less \in SUBSET (1..n) /\ upTo \in SUBSET (1..n) /\ nless \in SUBSET (1..n) /\ nupTo \in SUBSET (1..n)
  OBVIOUS
<1> HIDE DEF less, upTo, nless, nupTo
<1>5. /\ Cardinality(less) \in Nat /\ Cardinality(nupTo) \in Nat
      /\ Cardinality(less) + Cardinality(nupTo) = n
  BY <1>0, <1>3, <1>4, PlacesSplit
<1>6. /\ Cardinality(upTo) \in Nat /\ Cardinality(nless) \in Nat
      /\ Cardinality(upTo) + Cardinality(nless) = n
  BY <1>0, <1>3, <1>4, PlacesSplit
<1>7. Cardinality(less) <= n - 1 - k /\ n - 1 - k < Cardinality(upTo)
  <2> DEFINE a == Cardinality(less)
             b == Cardinality(nupTo)
             c == Cardinality(upTo)
             d == Cardinality(nless)
  <2>1. /\ a \in Nat /\ b \in Nat /\ c \in Nat /\ d \in Nat
        /\ a + b = n /\ c + d = n /\ d <= k /\ k < b
    BY <1>1, <1>5, <1>6
  <2>2. k \in Int
    OBVIOUS
  <2> HIDE DEF a, b, c, d
  <2>3. a <= n - 1 - k /\ n - 1 - k < c
    BY <1>0, <2>1, <2>2
  <2>4. QED
    BY <2>3 DEF a, c
<1>8. QED
  BY <1>2, <1>7 DEF IsMiddle, less, upTo, n

\* A sequence has as many elements as members if none occurs twice.
LEMMA DistinctElements ==
  ASSUME NEW X, NEW s \in Seq(X)
  PROVE  /\ IsFiniteSet(Elements(s))
         /\ Cardinality(Elements(s)) = Len(s)
              <=> \A i, j \in 1..Len(s) : s[i] = s[j] => i = j
<1> DEFINE n == Len(s)
           E == Elements(s)
           S == 1..n
<1>1. n \in Nat /\ DOMAIN s = S
  OBVIOUS
<1>2. s \in [S -> E] /\ \A x \in E : \E i \in S : s[i] = x
  BY <1>1 DEF Elements
<1>3. IsFiniteSet(S) /\ Cardinality(S) = n
  BY <1>1, FS_Interval
<1> HIDE DEF E, S, n
<1>4. s \in Surjection(S, E)
  BY <1>2 DEF Surjection
<1>5. IsFiniteSet(E) /\ (Cardinality(E) = n <=> s \in Injection(S, E))
  BY <1>3, <1>4, FS_Surjection
<1>6. s \in Injection(S, E) <=> \A i, j \in S : s[i] = s[j] => i = j
  BY <1>2 DEF Injection, IsInjective
<1>7. QED
  BY <1>5, <1>6 DEF E, S, n

\* The points of a file: those of the dataset, by size.
Datapoints == [dataset : STRING, x : Nat, y : Nat \ {0}]

\* The places of the datapoints that are plotted, and how the points that the
\* script makes of a file number them.
PlacesIn(content) == {j \in DOMAIN content : content[j].dataset = Dataset}

IsReading(place, points, content) ==
  /\ points \in Seq(Datapoints)
  /\ place \in [1..Len(points) -> PlacesIn(content)]
  /\ \A i, j \in 1..Len(points) : place[i] = place[j] => i = j
  /\ \A p \in PlacesIn(content) : \E i \in 1..Len(points) : place[i] = p
  /\ \A i \in 1..Len(points) : points[i] = content[place[i]]
  /\ \A i, j \in 1..Len(points) : i < j => points[i].x < points[j].x

\* The points of a file are its datapoints of the dataset, each once, by size.
LEMMA PointsPlaced ==
  ASSUME NEW content \in Contents
  PROVE  \E place : IsReading(place, Points(content), content)
<1> DEFINE D == PlacesIn(content)
           chosen == InDataset(content)
           n == Len(chosen)
           keys == [i \in DOMAIN chosen |-> chosen[i].x]
           o == Order(keys)
           points == Points(content)
<1>1. /\ content \in Seq(Datapoints)
      /\ \A i, j \in D : content[i].x = content[j].x => i = j
  BY PlotAssumption DEF Datapoints, PlacesIn
<1>2. chosen \in Seq(Datapoints) /\ \E e : IsPlacing(e, chosen, content, D)
  <2>1. D \cap 1..Len(content) = D
    BY <1>1 DEF PlacesIn
  <2>2. chosen = Kept(content, D)
    BY DEF InDataset, PlacesIn
  <2> HIDE DEF D, chosen
  <2>3. QED
    BY <1>1, <2>1, <2>2, KeptPlaces
<1>3. PICK e : IsPlacing(e, chosen, content, D)
  BY <1>2
<1>4. n \in Nat /\ DOMAIN chosen = 1..n /\ \A i \in 1..n : chosen[i] \in Datapoints
  BY <1>2
<1>5. /\ e \in [1..n -> D] /\ (\A i, j \in 1..n : i < j => e[i] < e[j])
      /\ (\A q \in D : \E i \in 1..n : e[i] = q) /\ (\A i \in 1..n : chosen[i] = content[e[i]])
  BY <1>3 DEF IsPlacing
<1>6. D \subseteq Nat
  BY <1>1 DEF PlacesIn
<1>7. points = [i \in 1..n |-> chosen[o[i]]]
  BY <1>4 DEF Points
<1> HIDE DEF chosen, D, points
<1>8. keys \in [1..n -> Int]
  BY <1>4 DEF Datapoints
<1>9. keys \in Seq(Int) /\ Len(keys) = n
  <2> HIDE DEF n, keys
  <2>1. QED
    BY <1>4, <1>8, FunctionIsSeq
<1>10. \A i \in 1..n : keys[i] = chosen[i].x
  BY <1>4
<1> HIDE DEF keys
<1>11. /\ o \in [1..n -> 1..n]
       /\ \A i, j \in 1..n : o[i] = o[j] => i = j
       /\ \A p \in 1..n : \E i \in 1..n : o[i] = p
       /\ \A i, j \in 1..n : i < j => keys[o[i]] <= keys[o[j]]
  BY <1>9, OrderSorts
<1> HIDE DEF o, n
<1>12. points \in [1..n -> Datapoints]
  BY <1>4, <1>7, <1>11
<1>13. points \in Seq(Datapoints) /\ Len(points) = n
  BY <1>4, <1>12, FunctionIsSeq
<1> DEFINE place == [i \in 1..n |-> e[o[i]]]
<1>14. \A i \in 1..n : o[i] \in 1..n /\ e[o[i]] \in D /\ place[i] = e[o[i]] /\ points[i] = content[place[i]]
  BY <1>5, <1>7, <1>11
<1>15. place \in [1..n -> D]
  BY <1>14
<1> HIDE DEF place
<1>16. ASSUME NEW i \in 1..n, NEW j \in 1..n, place[i] = place[j]
       PROVE  i = j
  <2>1. e[o[i]] = e[o[j]] /\ o[i] \in 1..n /\ o[j] \in 1..n
    BY <1>14, <1>16
  <2>2. e[o[i]] \in Nat /\ o[i] \in Nat /\ o[j] \in Nat /\ e[o[j]] \in Nat
    <3>1. e[o[i]] \in D /\ e[o[j]] \in D
      BY <1>14
    <3>2. e[o[i]] \in Nat /\ e[o[j]] \in Nat
      BY <1>6, <3>1
    <3>3. o[i] \in Nat /\ o[j] \in Nat
      <4>1. n \in Nat
        BY <1>4
      <4>2. QED
        BY <2>1, <4>1
    <3>4. QED
      BY <3>2, <3>3
  <2>3. o[i] = o[j]
    <3>1. \A k, l \in 1..n : k < l => e[k] < e[l]
      BY <1>5
    <3>2. ~(o[i] < o[j]) /\ ~(o[j] < o[i])
      BY <2>1, <2>2, <3>1
    <3>3. QED
      BY <2>2, <3>2
  <2>4. QED
    BY <1>11, <2>3
<1>17. ASSUME NEW p \in D
       PROVE  \E i \in 1..n : place[i] = p
  <2>1. PICK j \in 1..n : e[j] = p
    BY <1>5
  <2>2. PICK i \in 1..n : o[i] = j
    BY <1>11
  <2>3. QED
    BY <1>14, <2>1, <2>2
<1>18. ASSUME NEW i \in 1..n, NEW j \in 1..n, i < j
       PROVE  points[i].x < points[j].x
  <2>1. o[i] \in 1..n /\ o[j] \in 1..n /\ keys[o[i]] <= keys[o[j]]
    BY <1>11, <1>18
  <2>2. keys[o[i]] = points[i].x /\ keys[o[j]] = points[j].x
    BY <1>7, <1>10, <2>1
  <2>3. points[i].x \in Nat /\ points[j].x \in Nat
    BY <1>12 DEF Datapoints
  <2>4. points[i].x # points[j].x
    <3>1. i # j /\ place[i] # place[j]
      BY <1>4, <1>16, <1>18
    <3>2. QED
      BY <1>1, <1>14, <3>1 DEF D
  <2>5. QED
    BY <2>1, <2>2, <2>3, <2>4
<1>19. IsReading(place, points, content)
  BY <1>13, <1>14, <1>15, <1>16, <1>17, <1>18 DEF IsReading, D
<1>20. QED
  BY <1>19 DEF points

\* The sizes of a file.
SizesOf(content) == [i \in DOMAIN Points(content) |-> Points(content)[i].x]

\* The sizes that are new to the buckets.
NewSizes(content, old) ==
  Kept(SizesOf(content), {i \in DOMAIN Points(content) : SizesOf(content)[i] \notin Elements(old)})

\* The times of a size, in their order.
ValuesOf(content, x) ==
  Kept([i \in DOMAIN Points(content) |-> <<Points(content)[i].y, 1>>],
       {i \in DOMAIN Points(content) : SizesOf(content)[i] = x})

\* The new sizes ascend.
LEMMA NewSizesAscend ==
  ASSUME NEW content \in Contents, NEW old \in Seq(Nat)
  PROVE  /\ NewSizes(content, old) \in Seq(Nat)
         /\ Elements(NewSizes(content, old)) = SizesIn(content) \ Elements(old)
         /\ \A i, j \in 1..Len(NewSizes(content, old)) :
              i < j => NewSizes(content, old)[i] < NewSizes(content, old)[j]
<1> DEFINE points == Points(content)
           n == Len(points)
           xs == SizesOf(content)
           P == {i \in DOMAIN points : xs[i] \notin Elements(old)}
           new == NewSizes(content, old)
<1>1. PICK place : IsReading(place, points, content)
  BY PointsPlaced
<1>2. n \in Nat /\ points \in Seq(Datapoints) /\ DOMAIN points = 1..n
  BY <1>1 DEF IsReading
<1>3. \A i \in 1..n : xs[i] = points[i].x /\ xs[i] \in Nat
  <2>1. \A i \in 1..n : points[i] \in Datapoints
    BY <1>2
  <2>2. \A i \in 1..n : points[i].x \in Nat
    BY <2>1 DEF Datapoints
  <2>3. \A i \in 1..n : xs[i] = points[i].x
    BY <1>2 DEF SizesOf
  <2>4. QED
    BY <2>2, <2>3
<1>4. xs \in [1..n -> Nat]
  <2>1. xs = [i \in 1..n |-> points[i].x]
    BY <1>2 DEF SizesOf
  <2>2. QED
    BY <1>3, <2>1
<1>5. new = Kept(xs, P)
  BY DEF NewSizes
<1>6. /\ place \in [1..n -> PlacesIn(content)]
      /\ \A p \in PlacesIn(content) : \E i \in 1..n : place[i] = p
      /\ \A i \in 1..n : xs[i] = content[place[i]].x
      /\ \A i, j \in 1..n : i < j => xs[i] < xs[j]
  <2>1. /\ place \in [1..n -> PlacesIn(content)]
        /\ \A p \in PlacesIn(content) : \E i \in 1..n : place[i] = p
        /\ \A i \in 1..n : points[i] = content[place[i]]
        /\ \A i, j \in 1..n : i < j => points[i].x < points[j].x
    BY <1>1 DEF IsReading
  <2>2. \A i \in 1..n : xs[i] = content[place[i]].x
    BY <1>3, <2>1
  <2>3. \A i, j \in 1..n : i < j => xs[i] < xs[j]
    BY <1>3, <2>1
  <2>4. QED
    BY <2>1, <2>2, <2>3
<1>7. \A i \in 1..n : i \in P <=> xs[i] \notin Elements(old)
  BY <1>2
<1> HIDE DEF points, n, xs, P, new
<1>8. xs \in Seq(Nat) /\ Len(xs) = n
  BY <1>2, <1>4, FunctionIsSeq
<1>9. PICK e : IsPlacing(e, new, xs, P \cap 1..n)
  <2>1. \E e : IsPlacing(e, Kept(xs, P), xs, P \cap 1..Len(xs))
    BY <1>8, KeptPlaces
  <2>2. QED
    BY <1>5, <1>8, <2>1
<1>10. new \in Seq(Nat)
  BY <1>5, <1>8, KeptPlaces
<1> DEFINE m == Len(new)
<1>11. m \in Nat /\ DOMAIN new = 1..m
  BY <1>10
<1> HIDE DEF m
<1>12. /\ e \in [1..m -> P \cap 1..n]
       /\ \A i, j \in 1..m : i < j => e[i] < e[j]
       /\ \A q \in P \cap 1..n : \E i \in 1..m : e[i] = q
       /\ \A i \in 1..m : new[i] = xs[e[i]]
  BY <1>9 DEF IsPlacing, m
<1>13. \A i \in 1..m : e[i] \in P /\ e[i] \in 1..n
  BY <1>12
<1>14. ASSUME NEW i \in 1..m, NEW j \in 1..m, i < j
       PROVE  new[i] < new[j]
  <2>1. e[i] < e[j] /\ e[i] \in 1..n /\ e[j] \in 1..n
    BY <1>12, <1>13, <1>14
  <2>2. xs[e[i]] < xs[e[j]]
    BY <1>6, <2>1
  <2>3. QED
    BY <1>12, <2>2
<1>15. ASSUME NEW i \in 1..m
       PROVE  new[i] \in SizesIn(content) /\ new[i] \notin Elements(old)
  <2>1. e[i] \in P /\ e[i] \in 1..n /\ new[i] = xs[e[i]]
    BY <1>12, <1>13
  <2>2. new[i] \notin Elements(old)
    BY <1>7, <2>1
  <2>3. place[e[i]] \in PlacesIn(content) /\ new[i] = content[place[e[i]]].x
    BY <1>6, <2>1
  <2>4. QED
    BY <2>2, <2>3 DEF SizesIn, PlacesIn
<1>16. ASSUME NEW x \in SizesIn(content), x \notin Elements(old)
       PROVE  \E i \in 1..m : x = new[i]
  <2>1. PICK p \in PlacesIn(content) : x = content[p].x
    BY DEF SizesIn, PlacesIn
  <2>2. PICK i \in 1..n : place[i] = p
    BY <1>6
  <2>3. x = xs[i]
    BY <1>6, <2>1, <2>2
  <2>4. i \in P \cap 1..n
    BY <1>7, <1>16, <2>3
  <2>5. PICK j \in 1..m : e[j] = i
    BY <1>12, <2>4
  <2>6. QED
    BY <1>12, <2>3, <2>5
<1>17. Elements(new) = {new[i] : i \in 1..m}
  BY <1>11 DEF Elements
<1>18. Elements(new) = SizesIn(content) \ Elements(old)
  BY <1>15, <1>16, <1>17
<1>19. QED
  BY <1>10, <1>14, <1>18 DEF new, m

\* The places of a size in a file.
Sized(content, x) == {j \in PlacesIn(content) : content[j].x = x}

\* The values number the places of the size.
IsMeasuring(q, v, content, x) ==
  /\ v \in Seq(Rationals)
  /\ q \in [1..Len(v) -> Sized(content, x)]
  /\ \A i, j \in 1..Len(v) : q[i] = q[j] => i = j
  /\ \A p \in Sized(content, x) : \E i \in 1..Len(v) : q[i] = p
  /\ \A i \in 1..Len(v) : v[i] = <<content[q[i]].y, 1>>

\* The values of a size are its times in the file, each once.
LEMMA ValuesPlaced ==
  ASSUME NEW content \in Contents, NEW x
  PROVE  \E q : IsMeasuring(q, ValuesOf(content, x), content, x)
<1> DEFINE points == Points(content)
           n == Len(points)
           xs == SizesOf(content)
           ys == [i \in DOMAIN points |-> <<points[i].y, 1>>]
           P == {i \in DOMAIN points : xs[i] = x}
           v == ValuesOf(content, x)
<1>1. PICK place : IsReading(place, points, content)
  BY PointsPlaced
<1>2. n \in Nat /\ points \in Seq(Datapoints) /\ DOMAIN points = 1..n
  BY <1>1 DEF IsReading
<1>3. \A i \in 1..n : xs[i] = points[i].x /\ ys[i] = <<points[i].y, 1>> /\ ys[i] \in Rationals
  <2>1. \A i \in 1..n : points[i] \in Datapoints
    BY <1>2
  <2>2. \A i \in 1..n : points[i].y \in Nat
    BY <2>1 DEF Datapoints
  <2>3. \A i \in 1..n : xs[i] = points[i].x /\ ys[i] = <<points[i].y, 1>>
    BY <1>2 DEF SizesOf
  <2>4. \A z \in Nat : <<z, 1>> \in Rationals
    BY DEF Rationals
  <2>5. \A i \in 1..n : ys[i] \in Rationals
    BY <2>2, <2>3, <2>4
  <2>6. QED
    BY <2>3, <2>5
<1>4. ys \in [1..n -> Rationals]
  BY <1>2, <1>3
<1>5. v = Kept(ys, P)
  BY DEF ValuesOf
<1>6. /\ place \in [1..n -> PlacesIn(content)]
      /\ \A i, j \in 1..n : place[i] = place[j] => i = j
      /\ \A p \in PlacesIn(content) : \E i \in 1..n : place[i] = p
      /\ \A i \in 1..n : xs[i] = content[place[i]].x /\ ys[i] = <<content[place[i]].y, 1>>
  BY <1>1, <1>3 DEF IsReading
<1>7. \A i \in 1..n : i \in P <=> xs[i] = x
  BY <1>2
<1> HIDE DEF points, n, xs, ys, P, v
<1>8. ys \in Seq(Rationals) /\ Len(ys) = n
  BY <1>2, <1>4, FunctionIsSeq
<1>9. PICK e : IsPlacing(e, v, ys, P \cap 1..n)
  <2>1. \E e : IsPlacing(e, Kept(ys, P), ys, P \cap 1..Len(ys))
    BY <1>8, KeptPlaces
  <2>2. QED
    BY <1>5, <1>8, <2>1
<1>10. v \in Seq(Rationals)
  BY <1>5, <1>8, KeptPlaces
<1> DEFINE m == Len(v)
<1>11. m \in Nat
  BY <1>10
<1> HIDE DEF m
<1>12. /\ e \in [1..m -> P \cap 1..n]
       /\ \A i, j \in 1..m : i < j => e[i] < e[j]
       /\ \A p \in P \cap 1..n : \E i \in 1..m : e[i] = p
       /\ \A i \in 1..m : v[i] = ys[e[i]]
  BY <1>9 DEF IsPlacing, m
<1>13. \A i \in 1..m : e[i] \in P /\ e[i] \in 1..n
  BY <1>12
<1> DEFINE q == [i \in 1..m |-> place[e[i]]]
<1>14. ASSUME NEW i \in 1..m
       PROVE  q[i] = place[e[i]] /\ q[i] \in Sized(content, x) /\ v[i] = <<content[q[i]].y, 1>>
  <2>1. e[i] \in P /\ e[i] \in 1..n /\ v[i] = ys[e[i]] /\ q[i] = place[e[i]]
    BY <1>12, <1>13
  <2>2. place[e[i]] \in PlacesIn(content) /\ content[place[e[i]]].x = x
    BY <1>6, <1>7, <2>1
  <2>3. QED
    BY <1>6, <2>1, <2>2 DEF Sized
<1>15. q \in [1..m -> Sized(content, x)]
  BY <1>14
<1> HIDE DEF q
<1>16. ASSUME NEW i \in 1..m, NEW j \in 1..m, q[i] = q[j]
       PROVE  i = j
  <2>1. place[e[i]] = place[e[j]] /\ e[i] \in 1..n /\ e[j] \in 1..n
    BY <1>13, <1>14, <1>16
  <2>2. e[i] = e[j]
    BY <1>6, <2>1
  <2>3. e[i] \in Nat
    BY <1>2, <2>1
  <2>4. ~(i < j) /\ ~(j < i)
    <3>1. \A k, l \in 1..m : k < l => e[k] < e[l]
      BY <1>12
    <3>2. ~(e[i] < e[j]) /\ ~(e[j] < e[i])
      BY <2>2, <2>3
    <3>3. QED
      BY <3>1, <3>2
  <2>5. QED
    BY <1>11, <2>4
<1>17. ASSUME NEW p \in Sized(content, x)
       PROVE  \E i \in 1..m : q[i] = p
  <2>1. p \in PlacesIn(content) /\ content[p].x = x
    BY DEF Sized
  <2>2. PICK i \in 1..n : place[i] = p
    BY <1>6, <2>1
  <2>3. i \in P \cap 1..n
    BY <1>6, <1>7, <2>1, <2>2
  <2>4. PICK j \in 1..m : e[j] = i
    BY <1>12, <2>3
  <2>5. QED
    BY <1>14, <2>2, <2>4
<1>18. IsMeasuring(q, v, content, x)
  BY <1>10, <1>14, <1>15, <1>16, <1>17 DEF IsMeasuring, m
<1>19. QED
  BY <1>18 DEF v

\* The datapoints of a size in a series' files.
PlacesOf(files, x) ==
  UNION {{<<i, j>> : j \in {j \in DOMAIN files[i] :
                             /\ files[i][j].dataset = Dataset
                             /\ files[i][j].x = x}} : i \in DOMAIN files}

\* The places of a size, file by file.
LEMMA PlacesAre ==
  ASSUME NEW files, NEW x, NEW p
  PROVE  p \in PlacesOf(files, x) <=>
           \E i \in DOMAIN files : \E j \in Sized(files[i], x) : p = <<i, j>>
BY DEF PlacesOf, Sized, PlacesIn

\* A bucket has one time for each of them.
IsBucket(place, bucket, files, x) ==
  /\ Numbers(place, Len(bucket), PlacesOf(files, x))
  /\ \A i \in 1..Len(bucket) : bucket[i] = <<files[place[i][1]][place[i][2]].y, 1>>

\* Another file adds its times to a bucket.
LEMMA TimesAdded ==
  ASSUME NEW files \in Seq(Contents), NEW content \in Contents, NEW x,
         NEW bucket \in Seq(Rationals), NEW place, IsBucket(place, bucket, files, x),
         NEW v, NEW q, IsMeasuring(q, v, content, x)
  PROVE  \E next : IsBucket(next, bucket \o v, Append(files, content), x)
<1> DEFINE n == Len(bucket)
           m == Len(v)
           f == Len(files)
           all == bucket \o v
           after == Append(files, content)
           T == PlacesOf(files, x)
           U == PlacesOf(after, x)
           S == Sized(content, x)
           next == [i \in 1..(n + m) |-> IF i <= n THEN place[i] ELSE <<f + 1, q[i - n]>>]
<1>0. v \in Seq(Rationals)
  BY DEF IsMeasuring
<1>1. n \in Nat /\ m \in Nat /\ f \in Nat
  BY <1>0
<1>2. /\ Len(all) = n + m
      /\ \A i \in 1..n : all[i] = bucket[i]
      /\ \A i \in 1..m : all[n + i] = v[i]
  BY <1>0
<1>3. /\ DOMAIN after = 1..(f + 1) /\ DOMAIN files = 1..f
      /\ \A i \in 1..f : after[i] = files[i]
      /\ after[f + 1] = content
  OBVIOUS
<1>4. /\ place \in [1..n -> T]
      /\ \A i, j \in 1..n : place[i] = place[j] => i = j
      /\ \A p \in T : \E i \in 1..n : place[i] = p
      /\ \A i \in 1..n : bucket[i] = <<files[place[i][1]][place[i][2]].y, 1>>
  BY DEF IsBucket, Numbers
<1>5. /\ q \in [1..m -> S]
      /\ \A i, j \in 1..m : q[i] = q[j] => i = j
      /\ \A p \in S : \E i \in 1..m : q[i] = p
      /\ \A i \in 1..m : v[i] = <<content[q[i]].y, 1>>
  BY DEF IsMeasuring
<1>6. \A p : p \in T <=> \E i \in 1..f : \E j \in Sized(files[i], x) : p = <<i, j>>
  BY <1>3, PlacesAre
<1>7. \A p : p \in U <=> \E i \in 1..(f + 1) : \E j \in Sized(after[i], x) : p = <<i, j>>
  <2>1. DOMAIN after = 1..(f + 1)
    BY <1>3
  <2> HIDE DEF after, f
  <2>2. \A p : p \in U <=> \E i \in DOMAIN after : \E j \in Sized(after[i], x) : p = <<i, j>>
    BY PlacesAre
  <2>3. QED
    BY <2>1, <2>2
<1> HIDE DEF n, m, f, all, after, T, U, S
<1>8. \A p : p \in U <=> p \in T \/ \E j \in S : p = <<f + 1, j>>
  <2>1. ASSUME NEW p \in U
        PROVE  p \in T \/ \E j \in S : p = <<f + 1, j>>
    <3>1. PICK i \in 1..(f + 1) : \E j \in Sized(after[i], x) : p = <<i, j>>
      BY <1>7
    <3>2. CASE i = f + 1
      BY <1>3, <3>1, <3>2 DEF S
    <3>3. CASE i # f + 1
      <4>1. i \in 1..f
        BY <1>1, <3>3
      <4>2. QED
        BY <1>3, <1>6, <3>1, <4>1
    <3>4. QED
      BY <3>2, <3>3
  <2>2. ASSUME NEW p \in T
        PROVE  p \in U
    <3>1. PICK i \in 1..f : \E j \in Sized(files[i], x) : p = <<i, j>>
      BY <1>6
    <3>2. i \in 1..(f + 1) /\ after[i] = files[i]
      BY <1>1, <1>3
    <3>3. QED
      BY <1>7, <3>1, <3>2
  <2>3. ASSUME NEW j \in S
        PROVE  <<f + 1, j>> \in U
    <3>1. f + 1 \in 1..(f + 1)
      BY <1>1
    <3>2. QED
      BY <1>3, <1>7, <3>1 DEF S
  <2>4. QED
    BY <2>1, <2>2, <2>3
<1>9. ASSUME NEW p \in T, NEW j
      PROVE  p # <<f + 1, j>>
  <2>1. PICK i \in 1..f : \E l : p = <<i, l>>
    BY <1>6
  <2>2. i # f + 1
    BY <1>1
  <2>3. QED
    BY <2>1, <2>2
<1>10. ASSUME NEW i \in 1..n
       PROVE  i \in 1..(n + m) /\ next[i] = place[i] /\ place[i] \in T
  BY <1>1, <1>4
<1>11. ASSUME NEW i \in 1..(n + m), ~(i <= n)
       PROVE  i - n \in 1..m /\ i = n + (i - n) /\ next[i] = <<f + 1, q[i - n]>> /\ q[i - n] \in S
  <2>1. i - n \in 1..m /\ i = n + (i - n)
    BY <1>1, <1>11
  <2>2. QED
    BY <1>5, <1>11, <2>1
<1>12. ASSUME NEW i \in 1..m
       PROVE  n + i \in 1..(n + m) /\ next[n + i] = <<f + 1, q[i]>> /\ q[i] \in S
  <2>1. n + i \in 1..(n + m) /\ ~(n + i <= n) /\ (n + i) - n = i
    BY <1>1
  <2>2. QED
    BY <1>5, <2>1
<1>13. \A i \in 1..(n + m) : i <= n => i \in 1..n
  BY <1>1
<1>14. next \in [1..(n + m) -> U]
  <2>1. ASSUME NEW i \in 1..(n + m)
        PROVE  next[i] \in U
    BY <1>8, <1>10, <1>11, <1>13
  <2>2. QED
    BY <2>1
<1> HIDE DEF next
<1>15. ASSUME NEW i \in 1..(n + m), NEW j \in 1..(n + m), next[i] = next[j]
       PROVE  i = j
  <2>1. CASE i <= n /\ j <= n
    BY <1>4, <1>10, <1>13, <1>15, <2>1
  <2>2. CASE i <= n /\ ~(j <= n)
    BY <1>9, <1>10, <1>11, <1>13, <1>15, <2>2
  <2>3. CASE ~(i <= n) /\ j <= n
    BY <1>9, <1>10, <1>11, <1>13, <1>15, <2>3, ZenonT(40)
  <2>4. CASE ~(i <= n) /\ ~(j <= n)
    <3>1. i - n \in 1..m /\ j - n \in 1..m /\ i = n + (i - n) /\ j = n + (j - n)
      BY <1>11, <2>4
    <3>2. <<f + 1, q[i - n]>> = <<f + 1, q[j - n]>>
      BY <1>11, <1>15, <2>4
    <3>3. q[i - n] = q[j - n]
      BY <3>2
    <3>4. i - n = j - n
      BY <1>5, <3>1, <3>3
    <3>5. QED
      BY <3>1, <3>4
  <2>5. QED
    BY <2>1, <2>2, <2>3, <2>4
<1>16. ASSUME NEW p \in U
       PROVE  \E i \in 1..(n + m) : next[i] = p
  <2>1. CASE p \in T
    BY <1>4, <1>10, <2>1
  <2>2. ASSUME NEW j \in S, p = <<f + 1, j>>
        PROVE  \E i \in 1..(n + m) : next[i] = p
    <3>1. PICK i \in 1..m : q[i] = j
      BY <1>5
    <3>2. QED
      BY <1>12, <2>2, <3>1
  <2>3. QED
    BY <1>8, <2>1, <2>2
<1>17. ASSUME NEW i \in 1..(n + m)
       PROVE  all[i] = <<after[next[i][1]][next[i][2]].y, 1>>
  <2>1. CASE i <= n
    <3>1. i \in 1..n /\ next[i] = place[i] /\ place[i] \in T
      BY <1>10, <1>13, <2>1
    <3>2. PICK k \in 1..f : \E l : place[i] = <<k, l>>
      BY <1>6, <3>1
    <3>3. after[place[i][1]] = files[place[i][1]]
      BY <1>3, <3>2
    <3>4. QED
      BY <1>2, <1>4, <3>1, <3>3
  <2>2. CASE ~(i <= n)
    <3>1. i - n \in 1..m /\ i = n + (i - n) /\ next[i] = <<f + 1, q[i - n]>>
      BY <1>11, <2>2
    <3>2. next[i][1] = f + 1 /\ next[i][2] = q[i - n]
      BY <3>1
    <3>3. all[n + (i - n)] = v[i - n] /\ v[i - n] = <<content[q[i - n]].y, 1>>
      BY <1>2, <1>5, <3>1
    <3>4. QED
      BY <1>3, <3>1, <3>2, <3>3
  <2>3. QED
    BY <2>1, <2>2
<1>18. IsBucket(next, all, after, x)
  BY <1>2, <1>14, <1>15, <1>16, <1>17 DEF IsBucket, Numbers, U
<1>19. QED
  BY <1>18 DEF all, after

\* A size that no file has yet has an empty bucket.
LEMMA NoTimesYet ==
  ASSUME NEW files \in Seq(Contents), NEW x,
         \A i \in DOMAIN files : x \notin SizesIn(files[i])
  PROVE  \E place : IsBucket(place, << >>, files, x)
<1>1. PlacesOf(files, x) = {}
  <2>1. \A i \in DOMAIN files : Sized(files[i], x) = {}
    BY DEF Sized, SizesIn, PlacesIn
  <2>2. QED
    BY <2>1, PlacesAre
<1>2. Len(<< >>) = 0 /\ 1..0 = {}
  OBVIOUS
<1>3. IsBucket([i \in 1..0 |-> 0], << >>, files, x)
  BY <1>1, <1>2 DEF IsBucket, Numbers
<1>4. QED
  BY <1>3

\* The buckets of a series while its files are read.
SizesOfAll(files) == UNION {SizesIn(files[i]) : i \in DOMAIN files}

\* All files have the same sizes.
SizesAlike(files) == \A i, j \in DOMAIN files : SizesIn(files[i]) = SizesIn(files[j])

\* The sizes of a series: each once, those of its files, and in order if the
\* files have the same ones.
IsSized(files, s, b) ==
  /\ s \in Seq(Nat)
  /\ b \in [Elements(s) -> Seq(Rationals)]
  /\ \A x \in Elements(s) : b[x] # << >>
  /\ \A i, j \in 1..Len(s) : s[i] = s[j] => i = j
  /\ Elements(s) = SizesOfAll(files)
  /\ SizesAlike(files) => \A i, j \in 1..Len(s) : i < j => s[i] < s[j]

\* A series with all times of its files.
IsSeries(files, s, b) ==
  /\ IsSized(files, s, b)
  /\ \A x \in Elements(s) : \E place : IsBucket(place, b[x], files, x)

\* The buckets after another file.
WithPoints(s, b, content) ==
  LET old(x) == IF x \in DOMAIN b THEN b[x] ELSE << >> IN
  [x \in Elements(s) \cup Elements(NewSizes(content, s)) |-> old(x) \o ValuesOf(content, x)]

\* The elements of two sequences one after the other.
LEMMA ElementsJoined ==
  ASSUME NEW X, NEW s \in Seq(X), NEW t \in Seq(X)
  PROVE  Elements(s \o t) = Elements(s) \cup Elements(t)
<1> DEFINE n == Len(s)
           m == Len(t)
           u == s \o t
<1>1. /\ n \in Nat /\ m \in Nat /\ DOMAIN s = 1..n /\ DOMAIN t = 1..m /\ DOMAIN u = 1..(n + m)
      /\ (\A i \in 1..n : u[i] = s[i]) /\ (\A i \in 1..m : u[n + i] = t[i])
  OBVIOUS
<1> HIDE DEF n, m, u
<1>2. ASSUME NEW i \in 1..(n + m)
      PROVE  u[i] \in Elements(s) \cup Elements(t)
  <2>1. CASE i <= n
    <3>1. i \in 1..n
      BY <1>1, <2>1
    <3>2. QED
      BY <1>1, <3>1 DEF Elements
  <2>2. CASE ~(i <= n)
    <3>1. i - n \in 1..m /\ n + (i - n) = i
      BY <1>1, <2>2
    <3>2. u[i] = t[i - n]
      BY <1>1, <3>1
    <3>3. QED
      BY <1>1, <3>1, <3>2 DEF Elements
  <2>3. QED
    BY <2>1, <2>2
<1>3. ASSUME NEW i \in 1..n
      PROVE  s[i] \in Elements(u)
  <2>1. i \in 1..(n + m) /\ u[i] = s[i]
    BY <1>1
  <2>2. QED
    BY <1>1, <2>1 DEF Elements
<1>4. ASSUME NEW i \in 1..m
      PROVE  t[i] \in Elements(u)
  <2>1. n + i \in 1..(n + m) /\ u[n + i] = t[i]
    BY <1>1
  <2>2. QED
    BY <1>1, <2>1 DEF Elements
<1>5. Elements(u) = {u[i] : i \in 1..(n + m)} /\ Elements(s) = {s[i] : i \in 1..n}
      /\ Elements(t) = {t[i] : i \in 1..m}
  BY <1>1 DEF Elements
<1>6. Elements(u) = Elements(s) \cup Elements(t)
  BY <1>2, <1>3, <1>4, <1>5
<1>7. QED
  BY <1>6 DEF u

\* The sizes of one more file.
LEMMA SizesOfMore ==
  ASSUME NEW files \in Seq(Contents), NEW content \in Contents
  PROVE  /\ SizesOfAll(Append(files, content)) = SizesOfAll(files) \cup SizesIn(content)
         /\ SizesAlike(Append(files, content)) =>
              /\ SizesAlike(files)
              /\ files = << >> \/ SizesIn(content) \subseteq SizesOfAll(files)
<1> DEFINE f == Len(files)
           after == Append(files, content)
<1>1. /\ f \in Nat /\ DOMAIN after = 1..(f + 1) /\ DOMAIN files = 1..f
      /\ \A i \in 1..f : after[i] = files[i]
      /\ after[f + 1] = content
      /\ files = << >> \/ f # 0
  OBVIOUS
<1> HIDE DEF f, after
<1>2. /\ f + 1 \in 1..(f + 1) /\ \A i \in 1..f : i \in 1..(f + 1)
      /\ \A i \in 1..(f + 1) : i \in 1..f \/ i = f + 1
  BY <1>1
<1>3. SizesOfAll(after) = SizesOfAll(files) \cup SizesIn(content)
  <2>1. ASSUME NEW x
        PROVE  x \in SizesOfAll(after) <=> x \in SizesOfAll(files) \/ x \in SizesIn(content)
    <3>1. x \in SizesOfAll(after) <=> \E i \in 1..(f + 1) : x \in SizesIn(after[i])
      BY <1>1 DEF SizesOfAll
    <3>2. x \in SizesOfAll(files) <=> \E i \in 1..f : x \in SizesIn(files[i])
      BY <1>1 DEF SizesOfAll
    <3>3. (\E i \in 1..(f + 1) : x \in SizesIn(after[i]))
            <=> (\E i \in 1..f : x \in SizesIn(files[i])) \/ x \in SizesIn(content)
      BY <1>1, <1>2
    <3>4. QED
      BY <3>1, <3>2, <3>3
  <2>2. QED
    BY <2>1
<1>4. ASSUME SizesAlike(after)
      PROVE  SizesAlike(files) /\ (files = << >> \/ SizesIn(content) \subseteq SizesOfAll(files))
  <2>1. \A i, j \in 1..(f + 1) : SizesIn(after[i]) = SizesIn(after[j])
    BY <1>1, <1>4 DEF SizesAlike
  <2>2. \A i, j \in 1..f : SizesIn(files[i]) = SizesIn(files[j])
    BY <1>1, <1>2, <2>1
  <2>3. ASSUME f # 0
        PROVE  SizesIn(content) \subseteq SizesOfAll(files)
    <3>1. 1 \in 1..f /\ 1 \in 1..(f + 1)
      BY <1>1, <2>3
    <3>2. SizesIn(content) = SizesIn(files[1])
      BY <1>1, <1>2, <2>1, <3>1
    <3>3. QED
      BY <1>1, <3>1, <3>2 DEF SizesOfAll
  <2>4. QED
    BY <1>1, <2>2, <2>3 DEF SizesAlike
<1>5. QED
  BY <1>3, <1>4 DEF after

\* Another file adds the sizes that are new.
LEMMA SizesAdded ==
  ASSUME NEW files \in Seq(Contents), NEW content \in Contents, NEW s, NEW b,
         IsSized(files, s, b)
  PROVE  LET t     == s \o NewSizes(content, s)
             after == Append(files, content)
         IN /\ t \in Seq(Nat)
            /\ Elements(t) = Elements(s) \cup Elements(NewSizes(content, s))
            /\ \A i, j \in 1..Len(t) : t[i] = t[j] => i = j
            /\ Elements(t) = SizesOfAll(after)
            /\ SizesAlike(after) => \A i, j \in 1..Len(t) : i < j => t[i] < t[j]
<1> DEFINE new == NewSizes(content, s)
           n == Len(s)
           m == Len(new)
           t == s \o new
           after == Append(files, content)
<1>1. /\ s \in Seq(Nat) /\ Elements(s) = SizesOfAll(files)
      /\ \A i, j \in 1..n : s[i] = s[j] => i = j
      /\ SizesAlike(files) => \A i, j \in 1..n : i < j => s[i] < s[j]
  BY DEF IsSized
<1>2. /\ new \in Seq(Nat) /\ Elements(new) = SizesIn(content) \ Elements(s)
      /\ \A i, j \in 1..m : i < j => new[i] < new[j]
  BY <1>1, NewSizesAscend
<1> HIDE DEF new
<1>3. /\ n \in Nat /\ m \in Nat /\ DOMAIN s = 1..n /\ DOMAIN new = 1..m /\ Len(t) = n + m
      /\ (\A i \in 1..n : t[i] = s[i]) /\ (\A i \in 1..m : t[n + i] = new[i])
      /\ t \in Seq(Nat) /\ (n = 0 => s = << >> /\ t = new) /\ (m = 0 => t = s)
      /\ (\A i \in 1..m : new[i] \in Nat)
  <2>1. /\ n \in Nat /\ m \in Nat /\ DOMAIN s = 1..n /\ DOMAIN new = 1..m /\ Len(t) = n + m
        /\ (\A i \in 1..n : t[i] = s[i]) /\ (\A i \in 1..m : t[n + i] = new[i])
    BY <1>1, <1>2
  <2>2. t \in Seq(Nat) /\ \A i \in 1..m : new[i] \in Nat
    BY <1>1, <1>2
  <2>3. ASSUME n = 0
        PROVE  s = << >> /\ t = new
    <3>1. s = << >>
      BY <1>1, <2>3
    <3>2. << >> \o new = new
      BY <1>2
    <3>3. QED
      BY <3>1, <3>2
  <2>4. ASSUME m = 0
        PROVE  t = s
    <3>1. new = << >>
      BY <1>2, <2>4
    <3>2. s \o << >> = s
      BY <1>1
    <3>3. QED
      BY <3>1, <3>2
  <2>5. QED
    BY <2>1, <2>2, <2>3, <2>4
<1>4. Elements(t) = Elements(s) \cup Elements(new)
  BY <1>1, <1>2, ElementsJoined
<1> HIDE DEF n, m, t
<1>5. Elements(t) = SizesOfAll(after)
  BY <1>1, <1>2, <1>4, SizesOfMore
<1>6. (\A i \in 1..n : s[i] \in Elements(s)) /\ (\A i \in 1..m : new[i] \notin Elements(s))
  <2>1. \A i \in 1..n : s[i] \in Elements(s)
    BY <1>3 DEF Elements
  <2>2. \A i \in 1..m : new[i] \in Elements(new)
    BY <1>3 DEF Elements
  <2>3. QED
    BY <1>2, <2>1, <2>2
<1>7. ASSUME NEW i \in 1..(n + m)
      PROVE  \/ i \in 1..n /\ t[i] = s[i]
             \/ i - n \in 1..m /\ i = n + (i - n) /\ t[i] = new[i - n]
  <2>1. i \in 1..n \/ (i - n \in 1..m /\ i = n + (i - n))
    BY <1>3
  <2>2. QED
    BY <1>3, <2>1
<1>8. \A i, j \in 1..m : new[i] = new[j] => i = j
  <2> SUFFICES ASSUME NEW i \in 1..m, NEW j \in 1..m, new[i] = new[j]
               PROVE  i = j
    OBVIOUS
  <2>1. ~(i < j) /\ ~(j < i)
    BY <1>2, <1>3, SMTT(30)
  <2>2. QED
    BY <1>3, <2>1
<1>9. ASSUME NEW i \in 1..(n + m), NEW j \in 1..(n + m), t[i] = t[j]
      PROVE  i = j
  <2>1. CASE i \in 1..n /\ t[i] = s[i] /\ j \in 1..n /\ t[j] = s[j]
    BY <1>1, <1>9, <2>1
  <2>2. CASE i - n \in 1..m /\ i = n + (i - n) /\ t[i] = new[i - n]
             /\ j - n \in 1..m /\ j = n + (j - n) /\ t[j] = new[j - n]
    <3>1. i - n = j - n
      BY <1>8, <1>9, <2>2
    <3>2. QED
      BY <2>2, <3>1
  <2>3. QED
    BY <1>6, <1>7, <1>9, <2>1, <2>2
<1>10. ASSUME SizesAlike(after), NEW i \in 1..(n + m), NEW j \in 1..(n + m), i < j
       PROVE  t[i] < t[j]
  <2>1. SizesAlike(files) /\ (files = << >> \/ SizesIn(content) \subseteq SizesOfAll(files))
    BY <1>10, SizesOfMore
  <2>2. CASE files = << >>
    <3>1. SizesOfAll(files) = {}
      BY <2>2 DEF SizesOfAll
    <3>2. n = 0
      <4>1. ASSUME n # 0
            PROVE  FALSE
        <5>1. 1 \in 1..n
          BY <1>3, <4>1
        <5>2. QED
          BY <1>1, <1>6, <3>1, <5>1
      <4>2. QED
        BY <4>1
    <3>3. t = new /\ n + m = m
      BY <1>3, <3>2
    <3>4. QED
      BY <1>2, <1>10, <3>3
  <2>3. CASE SizesIn(content) \subseteq SizesOfAll(files)
    <3>1. m = 0
      <4>1. ASSUME m # 0
            PROVE  FALSE
        <5>1. 1 \in 1..m
          BY <1>3, <4>1
        <5>2. new[1] \in Elements(new)
          BY <1>3, <5>1 DEF Elements
        <5>3. QED
          BY <1>1, <1>2, <2>3, <5>2
      <4>2. QED
        BY <4>1
    <3>2. t = s /\ n + m = n
      BY <1>3, <3>1
    <3>3. QED
      BY <1>1, <1>10, <2>1, <3>2
  <2>4. QED
    BY <2>1, <2>2, <2>3
<1>11. /\ t \in Seq(Nat)
       /\ Elements(t) = Elements(s) \cup Elements(new)
       /\ \A i, j \in 1..Len(t) : t[i] = t[j] => i = j
       /\ Elements(t) = SizesOfAll(after)
       /\ SizesAlike(after) => \A i, j \in 1..Len(t) : i < j => t[i] < t[j]
  BY <1>3, <1>4, <1>5, <1>9, <1>10
<1>12. QED
  BY <1>11 DEF t, after, new

\* Another file keeps a series what it is.
LEMMA SeriesGrows ==
  ASSUME NEW files \in Seq(Contents), NEW content \in Contents, NEW s, NEW b,
         IsSeries(files, s, b)
  PROVE  IsSeries(Append(files, content), s \o NewSizes(content, s), WithPoints(s, b, content))
<1> DEFINE new == NewSizes(content, s)
           t == s \o new
           after == Append(files, content)
           old(x) == IF x \in DOMAIN b THEN b[x] ELSE << >>
           c == WithPoints(s, b, content)
<1>1. IsSized(files, s, b) /\ (\A x \in Elements(s) : \E place : IsBucket(place, b[x], files, x))
  BY DEF IsSeries
<1>2. /\ s \in Seq(Nat) /\ b \in [Elements(s) -> Seq(Rationals)]
      /\ (\A x \in Elements(s) : b[x] # << >>) /\ Elements(s) = SizesOfAll(files)
  BY <1>1 DEF IsSized
<1>3. /\ t \in Seq(Nat)
      /\ Elements(t) = Elements(s) \cup Elements(new)
      /\ \A i, j \in 1..Len(t) : t[i] = t[j] => i = j
      /\ Elements(t) = SizesOfAll(after)
      /\ SizesAlike(after) => \A i, j \in 1..Len(t) : i < j => t[i] < t[j]
  BY <1>1, SizesAdded
<1>4. new \in Seq(Nat) /\ Elements(new) = SizesIn(content) \ Elements(s)
  BY <1>2, NewSizesAscend
<1>5. c = [x \in Elements(t) |-> old(x) \o ValuesOf(content, x)]
  BY <1>3 DEF WithPoints
<1> HIDE DEF new, t, after, c
<1>6. ASSUME NEW x \in Elements(t)
      PROVE  /\ c[x] \in Seq(Rationals) /\ c[x] # << >>
             /\ \E place : IsBucket(place, c[x], after, x)
  <2>1. PICK q : IsMeasuring(q, ValuesOf(content, x), content, x)
    BY ValuesPlaced
  <2> DEFINE v == ValuesOf(content, x)
             o == old(x)
  <2>2. v \in Seq(Rationals) /\ \A p \in Sized(content, x) : \E i \in 1..Len(v) : q[i] = p
    BY <2>1 DEF IsMeasuring
  <2>3. o \in Seq(Rationals)
    BY <1>2
  <2>4. \E place : IsBucket(place, o, files, x)
    <3>1. CASE x \in Elements(s)
      BY <1>1, <1>2, <3>1
    <3>2. CASE x \notin Elements(s)
      <4>1. \A i \in DOMAIN files : x \notin SizesIn(files[i])
        BY <1>2, <3>2 DEF SizesOfAll
      <4>2. o = << >>
        BY <1>2, <3>2
      <4>3. QED
        BY <4>1, <4>2, NoTimesYet
    <3>3. QED
      BY <3>1, <3>2
  <2>5. o # << >> \/ v # << >>
    <3>1. CASE x \in Elements(s)
      BY <1>2, <3>1
    <3>2. CASE x \notin Elements(s)
      <4>1. x \in SizesIn(content)
        BY <1>3, <1>4, <3>2
      <4>2. PICK p \in Sized(content, x) : TRUE
        BY <4>1 DEF SizesIn, Sized, PlacesIn
      <4>3. PICK i \in 1..Len(v) : q[i] = p
        BY <2>2
      <4>4. Len(v) # 0
        BY <2>2, <4>3
      <4>5. QED
        BY <4>4
    <3>3. QED
      BY <3>1, <3>2
  <2>6. c[x] = o \o v
    BY <1>5
  <2> HIDE DEF v, o
  <2>7. o \o v \in Seq(Rationals) /\ o \o v # << >>
    <3>1. Len(o) \in Nat /\ Len(v) \in Nat /\ Len(o \o v) = Len(o) + Len(v) /\ o \o v \in Seq(Rationals)
      BY <2>2, <2>3
    <3>2. Len(o) # 0 \/ Len(v) # 0
      BY <2>2, <2>3, <2>5
    <3>3. Len(o \o v) # 0
      BY <3>1, <3>2
    <3>4. QED
      BY <3>1, <3>3
  <2>8. \E next : IsBucket(next, o \o v, Append(files, content), x)
    <3>1. PICK place : IsBucket(place, o, files, x)
      BY <2>4
    <3>2. IsMeasuring(q, v, content, x)
      BY <2>1 DEF v
    <3>3. QED
      BY <2>3, <3>1, <3>2, TimesAdded
  <2>9. QED
    BY <2>6, <2>7, <2>8 DEF after
<1>7. c \in [Elements(t) -> Seq(Rationals)]
  BY <1>5, <1>6
<1>8. IsSized(after, t, c)
  BY <1>3, <1>6, <1>7 DEF IsSized
<1>9. QED
  BY <1>6, <1>8 DEF IsSeries, t, new, after, c

\* What the invariant says of each series while the files are read.
LEMMA PlotFacts ==
  ASSUME PlotTyped
  PROVE  /\ current \in Series /\ current \in 1..Len(Labels) /\ Len(Labels) \in Nat \ {0}
         /\ Series = 1..Len(Labels)
         /\ figure \in FigureTypes
         /\ filesRead \in [Series -> Seq(Contents)] /\ sizes \in [Series -> Seq(Nat)]
         /\ DOMAIN buckets = Series /\ DOMAIN lines = Series
         /\ \A k \in Series : /\ buckets[k] \in [Elements(sizes[k]) -> Seq(Rationals)]
                              /\ \A x \in Elements(sizes[k]) : buckets[k][x] # << >>
                              /\ \A i, j \in 1..Len(sizes[k]) : sizes[k][i] = sizes[k][j] => i = j
<1>1. /\ figure \in FigureTypes /\ current \in Series
      /\ filesRead \in [Series -> Seq(Contents)] /\ sizes \in [Series -> Seq(Nat)]
      /\ DOMAIN buckets = Series /\ DOMAIN lines = Series
      /\ \A k \in Series : /\ buckets[k] \in [Elements(sizes[k]) -> Seq(Rationals)]
                           /\ DOMAIN buckets[k] = Elements(sizes[k])
                           /\ \A x \in DOMAIN buckets[k] : buckets[k][x] # << >>
                           /\ Cardinality(Elements(sizes[k])) = Len(sizes[k])
  BY DEF PlotTyped, PlotTypeOK
<1>2. Series = 1..Len(Labels) /\ Len(Labels) \in Nat \ {0}
  BY PlotAssumption DEF Series
<1>3. ASSUME NEW k \in Series
      PROVE  \A i, j \in 1..Len(sizes[k]) : sizes[k][i] = sizes[k][j] => i = j
  <2>1. sizes[k] \in Seq(Nat)
    BY <1>1
  <2>2. QED
    BY <1>1, <2>1, DistinctElements
<1>4. QED
  BY <1>1, <1>2, <1>3

\* A series that is not related yet has the times of its files.
LEMMA WhileFilesAreRead ==
  ASSUME PlotTyped, SizesRead, TimesOnce, plotPhase \notin Exceptions,
         NEW k \in Series, ~IsRelated(k)
  PROVE  IsSeries(filesRead[k], sizes[k], buckets[k])
<1>1. /\ sizes[k] \in Seq(Nat)
      /\ buckets[k] \in [Elements(sizes[k]) -> Seq(Rationals)]
      /\ \A x \in Elements(sizes[k]) : buckets[k][x] # << >>
      /\ \A i, j \in 1..Len(sizes[k]) : sizes[k][i] = sizes[k][j] => i = j
  BY PlotFacts
<1>2. DOMAIN sizes[k] = 1..Len(sizes[k])
  BY <1>1
<1>3. /\ Elements(sizes[k]) = SizesOfAll(filesRead[k])
      /\ SizesAlike(filesRead[k]) =>
           \A i, j \in 1..Len(sizes[k]) : i < j => sizes[k][i] < sizes[k][j]
  BY <1>2 DEF SizesRead, SizesOfAll, SizesAlike
<1>4. IsSized(filesRead[k], sizes[k], buckets[k])
  BY <1>1, <1>3 DEF IsSized
<1>5. ASSUME NEW x \in Elements(sizes[k])
      PROVE  \E place : IsBucket(place, buckets[k][x], filesRead[k], x)
  <2>1. DOMAIN buckets[k][x] = 1..Len(buckets[k][x])
    BY <1>1
  <2>2. PICK place \in [DOMAIN buckets[k][x] -> Places(k, x)] :
          /\ \A i, j \in DOMAIN buckets[k][x] : place[i] = place[j] => i = j
          /\ \A p \in Places(k, x) : \E i \in DOMAIN buckets[k][x] : place[i] = p
          /\ \A i \in DOMAIN buckets[k][x] : buckets[k][x][i] = Held(k, x, place[i])
    BY DEF TimesOnce
  <2>3. Places(k, x) = PlacesOf(filesRead[k], x)
    BY DEF Places, PlacesOf
  <2>4. \A i \in 1..Len(buckets[k][x]) :
          buckets[k][x][i] = <<filesRead[k][place[i][1]][place[i][2]].y, 1>>
    BY <2>1, <2>2 DEF TimeAt, Held
  <2>5. IsBucket(place, buckets[k][x], filesRead[k], x)
    BY <2>1, <2>2, <2>3, <2>4 DEF IsBucket, Numbers
  <2>6. QED
    BY <2>5
<1>6. QED
  BY <1>4, <1>5 DEF IsSeries

\* A series without files.
LEMMA NothingRead == IsSeries(<< >>, << >>, << >>)
<1>1. Elements(<< >>) = {} /\ SizesOfAll(<< >>) = {} /\ Len(<< >>) = 0 /\ 1..0 = {}
  BY DEF Elements, SizesOfAll
<1>2. << >> \in Seq(Nat) /\ << >> \in [{} -> Seq(Rationals)]
  <2>1. << >> \in Seq(Seq(Rationals)) /\ Len(<< >>) = 0
    OBVIOUS
  <2>2. << >> \in [1..0 -> Seq(Rationals)]
    BY <2>1
  <2>3. QED
    BY <1>1, <2>2
<1>3. IsSized(<< >>, << >>, << >>)
  BY <1>1, <1>2 DEF IsSized
<1>4. QED
  BY <1>1, <1>3 DEF IsSeries

\* The invariant holds before the first file is read.
LEMMA PlotInitially == PlotInit => PlotInv
<1> SUFFICES ASSUME PlotInit
             PROVE  PlotInv
  OBVIOUS
<1>1. /\ plotPhase = "read" /\ figure = "ABSOLUTE_RUNTIME" /\ current = 1
      /\ sizes = [k \in Series |-> << >>] /\ buckets = [k \in Series |-> << >>]
      /\ lines = [k \in Series |-> << >>] /\ filesRead = [k \in Series |-> << >>]
  BY DEF PlotInit, PlotIdle
<1>2. current \in Series
  BY <1>1, PlotAssumption DEF Series
<1>3. IsSized(<< >>, << >>, << >>)
  BY NothingRead DEF IsSeries
<1>4. Elements(<< >>) = {} /\ Cardinality(Elements(<< >>)) = Len(<< >>) /\ DOMAIN << >> = {}
  BY FS_EmptySet DEF Elements
<1>5. << >> \in [{} -> Seq(Rationals)] /\ << >> \in Seq(Nat) /\ << >> \in Seq(Contents)
  BY <1>3, <1>4 DEF IsSized
<1>6. PlotTypeOK
  BY <1>1, <1>2, <1>4 DEF PlotTypeOK, FigureTypes
<1>7. PlotTyped
  BY <1>1, <1>4, <1>5, <1>6 DEF PlotTyped
<1>8. SizesRead
  BY <1>1, <1>4 DEF SizesRead
<1>9. TimesOnce
  BY <1>1, <1>4 DEF TimesOnce
<1>10. MediansMeasured /\ LinesDrawn
  BY <1>1 DEF MediansMeasured, LinesDrawn
<1>11. QED
  BY <1>7, <1>8, <1>9, <1>10 DEF PlotInv

\* The next file adds its points to the buckets.
LEMMA ReadFileKeeps ==
  ASSUME PlotInv, NEW content \in Contents, ReadFile(content)
  PROVE  PlotInv'
<1> DEFINE c == current
<1>1. PlotTyped /\ SizesRead /\ TimesOnce
  BY DEF PlotInv
<1>2. /\ plotPhase = "read" /\ plotPhase' = "read" /\ figure' = figure /\ current' = current
      /\ medians' = medians /\ lines' = lines /\ xvals' = xvals
      /\ filesRead' = [filesRead EXCEPT ![c] = Append(@, content)]
      /\ AddPoints(c, content)
  BY DEF ReadFile
<1>3. /\ c \in Series /\ figure \in FigureTypes
      /\ filesRead \in [Series -> Seq(Contents)] /\ sizes \in [Series -> Seq(Nat)]
      /\ DOMAIN buckets = Series /\ DOMAIN lines = Series
      /\ \A k \in Series : buckets[k] \in [Elements(sizes[k]) -> Seq(Rationals)]
  BY <1>1, PlotFacts
<1>4. /\ sizes' = [sizes EXCEPT ![c] = @ \o NewSizes(content, sizes[c])]
      /\ buckets' = [buckets EXCEPT ![c] = WithPoints(sizes[c], buckets[c], content)]
  BY <1>2 DEF AddPoints, NewSizes, SizesOf, ValuesOf, WithPoints
<1>5. \A k \in Series : IsSeries(filesRead[k], sizes[k], buckets[k])
  BY <1>1, <1>2, WhileFilesAreRead DEF IsRelated, Exceptions
<1>6. /\ DOMAIN sizes' = Series /\ DOMAIN buckets' = Series /\ DOMAIN filesRead' = Series
      /\ sizes'[c] = sizes[c] \o NewSizes(content, sizes[c])
      /\ buckets'[c] = WithPoints(sizes[c], buckets[c], content)
      /\ filesRead'[c] = Append(filesRead[c], content)
      /\ \A k \in Series : k # c =>
           sizes'[k] = sizes[k] /\ buckets'[k] = buckets[k] /\ filesRead'[k] = filesRead[k]
  BY <1>2, <1>3, <1>4
<1> HIDE DEF c
<1>7. ASSUME NEW k \in Series
      PROVE  IsSeries(filesRead'[k], sizes'[k], buckets'[k]) /\ filesRead'[k] \in Seq(Contents)
  <2>1. CASE k = c
    <3>1. filesRead[c] \in Seq(Contents) /\ IsSeries(filesRead[c], sizes[c], buckets[c])
      BY <1>3, <1>5
    <3>2. IsSeries(filesRead'[c], sizes'[c], buckets'[c])
      BY <1>6, <3>1, SeriesGrows
    <3>3. Append(filesRead[c], content) \in Seq(Contents)
      BY <3>1
    <3>4. QED
      BY <1>6, <2>1, <3>2, <3>3
  <2>2. CASE k # c
    BY <1>3, <1>5, <1>6, <2>2
  <2>3. QED
    BY <2>1, <2>2
<1>8. ASSUME NEW k \in Series
      PROVE  /\ sizes'[k] \in Seq(Nat)
             /\ buckets'[k] \in [Elements(sizes'[k]) -> Seq(Rationals)]
             /\ \A x \in Elements(sizes'[k]) : buckets'[k][x] # << >>
             /\ \A i, j \in 1..Len(sizes'[k]) : sizes'[k][i] = sizes'[k][j] => i = j
             /\ Elements(sizes'[k]) = SizesOfAll(filesRead'[k])
             /\ SizesAlike(filesRead'[k]) =>
                  \A i, j \in 1..Len(sizes'[k]) : i < j => sizes'[k][i] < sizes'[k][j]
  BY <1>7 DEF IsSeries, IsSized
<1>9. PlotTyped'
  <2>1. \A k \in Series : Cardinality(Elements(sizes'[k])) = Len(sizes'[k])
    BY <1>8, DistinctElements
  <2>2. PlotTypeOK'
    BY <1>2, <1>3, <1>8, <2>1 DEF PlotTypeOK, c
  <2>3. filesRead' \in [Series -> Seq(Contents)] /\ sizes' \in [Series -> Seq(Nat)]
    <3>1. filesRead' = [k \in Series |-> filesRead'[k]] /\ sizes' = [k \in Series |-> sizes'[k]]
      BY <1>2, <1>3, <1>4, <1>6
    <3>2. QED
      BY <1>7, <1>8, <3>1
  <2>4. QED
    BY <1>2, <1>3, <1>6, <1>8, <2>2, <2>3 DEF PlotTyped
<1>10. SizesRead'
  <2>1. \A k \in Series : DOMAIN sizes'[k] = 1..Len(sizes'[k])
    BY <1>8
  <2>2. QED
    BY <1>8, <2>1 DEF SizesRead, SizesOfAll, SizesAlike
<1>11. TimesOnce'
  <2>1. ASSUME NEW k \in Series, NEW x \in Elements(sizes'[k])
        PROVE  \E place \in [DOMAIN buckets'[k][x] -> Places(k, x)'] :
                 /\ \A i, j \in DOMAIN buckets'[k][x] : place[i] = place[j] => i = j
                 /\ \A p \in Places(k, x)' : \E i \in DOMAIN buckets'[k][x] : place[i] = p
                 /\ \A i \in DOMAIN buckets'[k][x] :
                      buckets'[k][x][i] = <<TimeAt(k, place[i])', 1>>
    <3>1. PICK place : IsBucket(place, buckets'[k][x], filesRead'[k], x)
      BY <1>7 DEF IsSeries
    <3>2. DOMAIN buckets'[k][x] = 1..Len(buckets'[k][x])
      BY <1>8
    <3>3. Places(k, x)' = PlacesOf(filesRead'[k], x)
      BY DEF Places, PlacesOf
    <3>4. \A i \in 1..Len(buckets'[k][x]) : buckets'[k][x][i] = <<TimeAt(k, place[i])', 1>>
      BY <3>1 DEF IsBucket, TimeAt
    <3>5. QED
      BY <3>1, <3>2, <3>3, <3>4 DEF IsBucket, Numbers
  <2>2. \A k \in Series : \A x, p : Held(k, x, p)' = <<TimeAt(k, p)', 1>>
    BY <1>2 DEF Held, IsRelated
  <2>3. QED
    BY <1>2, <2>1, <2>2 DEF TimesOnce
<1>12. MediansMeasured' /\ LinesDrawn'
  BY <1>2 DEF MediansMeasured, LinesDrawn
<1>13. QED
  BY <1>9, <1>10, <1>11, <1>12 DEF PlotInv

\* The times at the places, and their upper median.
TimeIn(files, p) == files[p[1]][p[2]].y

\* The upper median of the times of a size.
MedianOf(files, x) ==
  LET P == PlacesOf(files, x)
      below(v) == Cardinality({p \in P : TimeIn(files, p) < v})
      upTo(v)  == Cardinality({p \in P : TimeIn(files, p) <= v})
      half     == Cardinality(P) \div 2
  IN CHOOSE v \in {TimeIn(files, p) : p \in P} : below(v) <= half /\ half < upTo(v)

\* The times at the first n of the places.
TimesAt(files, place, n) == [i \in 1..n |-> TimeIn(files, place[i])]

\* All times are positive.
LEMMA TimesPositive ==
  ASSUME NEW files \in Seq(Contents), NEW x, NEW p \in PlacesOf(files, x)
  PROVE  TimeIn(files, p) \in Nat /\ TimeIn(files, p) > 0
<1>0. PICK i \in DOMAIN files : \E j \in Sized(files[i], x) : p = <<i, j>>
  BY PlacesAre
<1>1. PICK j \in Sized(files[i], x) : p = <<i, j>>
  BY <1>0
<1>2. files[i] \in Contents
  OBVIOUS
<1>3. files[i] \in Seq(Datapoints) /\ j \in DOMAIN files[i]
  BY <1>1, <1>2, PlotAssumption DEF Sized, PlacesIn, Datapoints
<1>4. files[i][j] \in Datapoints
  BY <1>3
<1>5. files[i][j].y \in Nat \ {0}
  BY <1>4 DEF Datapoints
<1>6. TimeIn(files, p) = files[i][j].y
  BY <1>1 DEF TimeIn
<1>7. QED
  BY <1>5, <1>6

\* The times in the order of a bucket have the same median.
LEMMA MedianPlaced ==
  ASSUME NEW files \in Seq(Contents), NEW x, NEW n \in Nat \ {0}, NEW place,
         Numbers(place, n, PlacesOf(files, x)),
         NEW h, h = n \div 2
  PROVE  /\ TimesAt(files, place, n) \in Seq(Int)
         /\ Len(TimesAt(files, place, n)) = n
         /\ \A i \in 1..n : TimesAt(files, place, n)[i] \in Nat /\ TimesAt(files, place, n)[i] > 0
         /\ Cardinality(PlacesOf(files, x)) = n
         /\ MedianOf(files, x) \in Nat /\ MedianOf(files, x) > 0
         /\ IsMiddle(TimesAt(files, place, n), MedianOf(files, x), h)
<1> DEFINE P == PlacesOf(files, x)
           T(p) == TimeIn(files, p)
           keys == TimesAt(files, place, n)
           below(v) == Cardinality({p \in P : T(p) < v})
           upTo(v)  == Cardinality({p \in P : T(p) <= v})
           ys == {T(p) : p \in P}
           right(v) == below(v) <= h /\ h < upTo(v)
           med == MedianOf(files, x)
<1>0. n \in Nat
  OBVIOUS
<1>1. \A p \in P : T(p) \in Nat /\ T(p) > 0
  BY TimesPositive
<1>2. /\ place \in [1..n -> P]
      /\ \A i, j \in 1..n : place[i] = place[j] => i = j
      /\ \A p \in P : \E i \in 1..n : place[i] = p
      /\ Numbers(place, n, P)
  BY DEF Numbers
<1> HIDE DEF P
<1>3. Cardinality(P) = n /\ IsFiniteSet(P)
  BY <1>2, NumberedSize
<1>4. med = CHOOSE v \in ys : right(v)
  BY <1>3 DEF MedianOf, P
<1>5. \A i \in 1..n : keys[i] = T(place[i]) /\ place[i] \in P /\ keys[i] \in Nat /\ keys[i] > 0
  BY <1>1, <1>2 DEF TimesAt
<1>6. keys \in [1..n -> Int]
  BY <1>5 DEF TimesAt
<1> HIDE DEF med, ys, T, keys
<1>7. keys \in Seq(Int) /\ Len(keys) = n
  BY <1>6, FunctionIsSeq
<1>8. ASSUME NEW v \in ys
      PROVE  right(v) <=> IsMiddle(keys, v, h)
  <2> DEFINE I == {i \in 1..n : keys[i] < v}
             J == {i \in 1..n : keys[i] <= v}
             Q == {p \in P : T(p) < v}
             R == {p \in P : T(p) <= v}
  <2>1. Cardinality(I) = Cardinality(Q)
    <3>1. AreThose(I, place, n, Q)
      BY <1>5 DEF AreThose
    <3>2. I \in SUBSET (1..n) /\ Q \in SUBSET P
      OBVIOUS
    <3> HIDE DEF I, Q
    <3>3. QED
      BY <1>0, <1>2, <3>1, <3>2, CountedAlike
  <2>2. Cardinality(J) = Cardinality(R)
    <3>1. AreThose(J, place, n, R)
      BY <1>5 DEF AreThose
    <3>2. J \in SUBSET (1..n) /\ R \in SUBSET P
      OBVIOUS
    <3> HIDE DEF J, R
    <3>3. QED
      BY <1>0, <1>2, <3>1, <3>2, CountedAlike
  <2>3. \E i \in 1..n : v = keys[i]
    <3>1. PICK p \in P : v = T(p)
      BY DEF ys
    <3>2. PICK i \in 1..n : place[i] = p
      BY <1>2
    <3>3. QED
      BY <1>5, <3>1, <3>2
  <2>4. below(v) = Cardinality(I) /\ upTo(v) = Cardinality(J)
    BY <2>1, <2>2
  <2> HIDE DEF below, upTo
  <2>5. QED
    BY <1>7, <2>3, <2>4 DEF IsMiddle
<1> HIDE DEF right
<1>9. h \in 0..(n - 1)
  OBVIOUS
<1>10. PICK m \in Int : IsMiddle(keys, m, h)
  <2>1. h \in 0..(Len(keys) - 1)
    BY <1>7, <1>9
  <2>2. QED
    BY <1>7, <2>1, MiddleExists
<1>11. m \in ys
  <2>1. PICK i \in 1..n : m = keys[i]
    BY <1>7, <1>10 DEF IsMiddle
  <2>2. QED
    BY <1>5, <2>1 DEF ys
<1>12. med \in ys /\ right(med)
  BY <1>4, <1>8, <1>10, <1>11
<1>13. IsMiddle(keys, med, h)
  BY <1>8, <1>12
<1>14. med \in Nat /\ med > 0
  BY <1>1, <1>12 DEF ys
<1>15. QED
  BY <1>3, <1>5, <1>7, <1>13, <1>14 DEF med, keys, P, T

\* reference_medians: a number of the bucket as it is.
LEMMA UpperMedianMeasured ==
  ASSUME NEW files \in Seq(Contents), NEW x, NEW bucket \in Seq(Rationals), bucket # << >>,
         NEW place, IsBucket(place, bucket, files, x)
  PROVE  UpperMedian(bucket) = <<MedianOf(files, x), 1>>
<1> DEFINE n == Len(bucket)
           keys == TimesAt(files, place, n)
           med == MedianOf(files, x)
           h == n \div 2
<1>1. n \in Nat \ {0} /\ h \in 0..(n - 1)
  OBVIOUS
<1>2. /\ place \in [1..n -> PlacesOf(files, x)]
      /\ \A i, j \in 1..n : place[i] = place[j] => i = j
      /\ \A p \in PlacesOf(files, x) : \E i \in 1..n : place[i] = p
      /\ \A i \in 1..n : bucket[i] = <<keys[i], 1>>
  BY DEF IsBucket, Numbers, TimeIn, TimesAt
<1>3. UpperMedian(bucket) = Sorted(bucket, h)
  BY DEF UpperMedian
<1> HIDE DEF n
<1>4. /\ keys \in Seq(Int) /\ Len(keys) = n
      /\ \A i \in 1..n : keys[i] \in Nat /\ keys[i] > 0
      /\ med \in Nat
      /\ IsMiddle(keys, med, h)
  <2>1. n \in Nat \ {0}
    BY <1>1
  <2>2. Numbers(place, n, PlacesOf(files, x))
    BY DEF IsBucket, n
  <2>3. h = n \div 2
    OBVIOUS
  <2> HIDE DEF h
  <2>4. QED
    BY <2>1, <2>2, <2>3, MedianPlaced
<1> HIDE DEF keys, med, h
<1>5. \A i, j \in 1..n : Less(bucket[i], bucket[j]) <=> keys[i] < keys[j]
  <2> SUFFICES ASSUME NEW i \in 1..n, NEW j \in 1..n
               PROVE  Less(bucket[i], bucket[j]) <=> keys[i] < keys[j]
    OBVIOUS
  <2>1. bucket[i][1] = keys[i] /\ bucket[i][2] = 1 /\ bucket[j][1] = keys[j] /\ bucket[j][2] = 1
    BY <1>2
  <2>2. keys[i] \in Nat /\ keys[j] \in Nat
    BY <1>4
  <2>3. QED
    BY <2>1, <2>2 DEF Less
<1>6. PICK j \in 1..n : Sorted(bucket, h) = bucket[j] /\ IsMiddle(keys, keys[j], h)
  BY <1>1, <1>4, <1>5, SortedIs DEF n
<1>7. med = keys[j]
  <2>1. h \in Nat
    BY <1>1
  <2>2. QED
    BY <1>4, <1>6, <2>1, OneMiddle
<1>8. QED
  BY <1>2, <1>3, <1>6, <1>7 DEF med

\* The reference median is that of the files of the reference.
LEMMA MedianMeasured ==
  ASSUME NEW x
  PROVE  MeasuredMedian(x) = MedianOf(filesRead[Reference], x)
BY DEF MeasuredMedian, MedianOf, TimeAt, TimeIn, Places, PlacesOf

\* After the last file of a series.
LEMMA SeriesReadKeeps ==
  ASSUME PlotInv, SeriesRead
  PROVE  PlotInv'
<1>1. PlotTyped /\ SizesRead /\ TimesOnce
  BY DEF PlotInv
<1>2. /\ plotPhase = "read"
      /\ sizes' = sizes /\ buckets' = buckets /\ lines' = lines /\ xvals' = xvals /\ filesRead' = filesRead
  BY DEF SeriesRead
<1>3. PICK type \in FigureTypes :
        LET relative == current = Len(Labels) /\ type # "ABSOLUTE_RUNTIME" IN
        /\ current < Len(Labels) => type = figure
        /\ figure' = type
        /\ NextSeries(IF relative THEN "relate" ELSE "draw")
        /\ medians' = IF relative
                      THEN [x \in DOMAIN buckets[Reference] |->
                              UpperMedian(buckets[Reference][x])]
                      ELSE medians
  BY DEF SeriesRead
<1>4. /\ current \in 1..Len(Labels) /\ Len(Labels) \in Nat \ {0} /\ Series = 1..Len(Labels)
      /\ figure \in FigureTypes
      /\ filesRead \in [Series -> Seq(Contents)] /\ sizes \in [Series -> Seq(Nat)]
      /\ \A k \in Series : /\ buckets[k] \in [Elements(sizes[k]) -> Seq(Rationals)]
                           /\ \A x \in Elements(sizes[k]) : buckets[k][x] # << >>
  BY <1>1, PlotFacts
<1> DEFINE more == plotPhase' = "read" /\ current' = current + 1 /\ current < Len(Labels)
           draw == plotPhase' = "draw" /\ current' = 1 /\ figure' = "ABSOLUTE_RUNTIME"
           relate == /\ plotPhase' = "relate" /\ current' = 1 /\ figure' # "ABSOLUTE_RUNTIME"
                     /\ medians' = [x \in DOMAIN buckets[Reference] |->
                                      UpperMedian(buckets[Reference][x])]
<1>5. more \/ draw \/ relate
  <2>1. CASE current < Len(Labels)
    BY <1>2, <1>3, <2>1 DEF NextSeries
  <2>2. CASE ~(current < Len(Labels))
    <3>1. current = Len(Labels)
      BY <1>4, <2>2
    <3>2. CASE type = "ABSOLUTE_RUNTIME"
      BY <1>3, <2>2, <3>1, <3>2 DEF NextSeries
    <3>3. CASE type # "ABSOLUTE_RUNTIME"
      BY <1>3, <2>2, <3>1, <3>3 DEF NextSeries
    <3>4. QED
      BY <3>2, <3>3
  <2>3. QED
    BY <2>1, <2>2
<1>6. figure' \in FigureTypes /\ current' \in Series
  BY <1>3, <1>4, <1>5
<1>7. PlotTyped'
  <2>1. PlotTypeOK'
    BY <1>1, <1>2, <1>5, <1>6 DEF PlotTyped, PlotTypeOK
  <2>2. QED
    BY <1>1, <1>2, <1>5, <2>1 DEF PlotTyped
<1>8. SizesRead'
  BY <1>1, <1>2 DEF SizesRead
<1>9. \A k \in Series : IsSeries(filesRead[k], sizes[k], buckets[k])
  BY <1>1, <1>2, WhileFilesAreRead DEF IsRelated, Exceptions
<1>10. TimesOnce'
  <2>1. ASSUME NEW k \in Series, NEW x \in Elements(sizes'[k])
        PROVE  \E place \in [DOMAIN buckets'[k][x] -> Places(k, x)'] :
                 /\ \A i, j \in DOMAIN buckets'[k][x] : place[i] = place[j] => i = j
                 /\ \A p \in Places(k, x)' : \E i \in DOMAIN buckets'[k][x] : place[i] = p
                 /\ \A i \in DOMAIN buckets'[k][x] :
                      buckets'[k][x][i] = <<TimeAt(k, place[i])', 1>>
    <3>1. PICK place : IsBucket(place, buckets'[k][x], filesRead'[k], x)
      BY <1>2, <1>9 DEF IsSeries
    <3>2. DOMAIN buckets'[k][x] = 1..Len(buckets'[k][x])
      BY <1>2, <1>4
    <3>3. Places(k, x)' = PlacesOf(filesRead'[k], x)
      BY DEF Places, PlacesOf
    <3>4. \A i \in 1..Len(buckets'[k][x]) : buckets'[k][x][i] = <<TimeAt(k, place[i])', 1>>
      BY <3>1 DEF IsBucket, TimeAt
    <3>5. QED
      BY <3>1, <3>2, <3>3, <3>4 DEF IsBucket, Numbers
  <2>2. ASSUME NEW k \in Series, NEW x, NEW p
        PROVE  Held(k, x, p)' = <<TimeAt(k, p)', 1>>
    <3>1. CASE more
      BY <3>1 DEF Held, IsRelated
    <3>2. CASE draw
      BY <3>2 DEF Held, Shown
    <3>3. CASE relate
      BY <1>4, <3>3 DEF Held, IsRelated
    <3>4. QED
      BY <1>5, <3>1, <3>2, <3>3
  <2>3. QED
    BY <2>1, <2>2 DEF TimesOnce
<1>11. MediansMeasured'
  <2> SUFFICES ASSUME plotPhase' = "relate"
               PROVE  medians' = [x \in Elements(sizes'[Reference]) |-> <<MeasuredMedian(x)', 1>>]
    BY DEF MediansMeasured
  <2> DEFINE r == Reference
  <2>1. relate
    BY <1>5
  <2>2. r \in Series
    BY <1>4 DEF Reference
  <2>3. DOMAIN buckets[r] = Elements(sizes[r])
    BY <1>4, <2>2
  <2>4. medians' = [x \in Elements(sizes[r]) |-> UpperMedian(buckets[r][x])]
    BY <2>1, <2>3
  <2>5. ASSUME NEW x \in Elements(sizes[r])
        PROVE  UpperMedian(buckets[r][x]) = <<MeasuredMedian(x)', 1>>
    <3>1. PICK place : IsBucket(place, buckets[r][x], filesRead[r], x)
      BY <1>9, <2>2 DEF IsSeries
    <3>2. buckets[r][x] \in Seq(Rationals) /\ buckets[r][x] # << >> /\ filesRead[r] \in Seq(Contents)
      BY <1>4, <2>2
    <3>3. UpperMedian(buckets[r][x]) = <<MedianOf(filesRead[r], x), 1>>
      BY <3>1, <3>2, UpperMedianMeasured
    <3>4. MeasuredMedian(x)' = MedianOf(filesRead[r], x)
      BY <1>2 DEF MeasuredMedian, MedianOf, TimeAt, TimeIn, Places, PlacesOf
    <3>5. QED
      BY <3>3, <3>4
  <2>6. QED
    BY <1>2, <2>4, <2>5
<1>12. LinesDrawn'
  <2>1. \A k \in Series : ~(k < current') \/ plotPhase' = "read"
    BY <1>4, <1>5
  <2>2. QED
    BY <1>5, <2>1 DEF LinesDrawn
<1>13. QED
  BY <1>7, <1>8, <1>10, <1>11, <1>12 DEF PlotInv

\* A step that leaves the files, the buckets and what is related as they are.
LEMMA TimesStay ==
  ASSUME TimesOnce, UNCHANGED <<filesRead, buckets, sizes, figure>>,
         \A k \in Series : IsRelated(k)' <=> IsRelated(k), plotPhase \notin Exceptions
  PROVE  TimesOnce'
<1>1. /\ filesRead' = filesRead /\ buckets' = buckets /\ sizes' = sizes /\ figure' = figure
      /\ \A k, x : Places(k, x)' = Places(k, x)
      /\ \A k \in Series : \A x, p : Held(k, x, p)' = Held(k, x, p)
  <2>1. filesRead' = filesRead /\ buckets' = buckets /\ sizes' = sizes /\ figure' = figure
    OBVIOUS
  <2>2. \A k, x : Places(k, x)' = Places(k, x)
    BY <2>1 DEF Places
  <2>3. \A k, p : TimeAt(k, p)' = TimeAt(k, p)
    BY <2>1 DEF TimeAt
  <2>4. ASSUME NEW x
        PROVE  MeasuredMedian(x)' = MeasuredMedian(x)
    <3>1. MeasuredMedian(x)' = MedianOf(filesRead'[Reference], x)
      BY DEF MeasuredMedian, MedianOf, TimeAt, TimeIn, Places, PlacesOf
    <3>2. QED
      BY <2>1, <3>1, MedianMeasured
  <2>5. ASSUME NEW k \in Series, NEW x, NEW p
        PROVE  Held(k, x, p)' = Held(k, x, p)
    <3>1. Shown(TimeAt(k, p), x)' = Shown(TimeAt(k, p), x)
      BY <2>1, <2>3, <2>4 DEF Shown
    <3>2. CASE IsRelated(k)
      BY <3>1, <3>2 DEF Held
    <3>3. CASE ~IsRelated(k)
      BY <2>3, <3>3 DEF Held
    <3>4. QED
      BY <3>2, <3>3
  <2>6. QED
    BY <2>1, <2>2, <2>5
<1>2. ASSUME NEW k \in Series, NEW x \in Elements(sizes'[k])
      PROVE  \E place \in [DOMAIN buckets'[k][x] -> Places(k, x)'] :
               /\ \A i, j \in DOMAIN buckets'[k][x] : place[i] = place[j] => i = j
               /\ \A p \in Places(k, x)' : \E i \in DOMAIN buckets'[k][x] : place[i] = p
               /\ \A i \in DOMAIN buckets'[k][x] : buckets'[k][x][i] = Held(k, x, place[i])'
  <2>1. PICK place \in [DOMAIN buckets[k][x] -> Places(k, x)] :
          /\ \A i, j \in DOMAIN buckets[k][x] : place[i] = place[j] => i = j
          /\ \A p \in Places(k, x) : \E i \in DOMAIN buckets[k][x] : place[i] = p
          /\ \A i \in DOMAIN buckets[k][x] : buckets[k][x][i] = Held(k, x, place[i])
    BY <1>1 DEF TimesOnce
  <2>2. buckets'[k][x] = buckets[k][x] /\ Places(k, x)' = Places(k, x)
    BY <1>1
  <2>3. \A i \in DOMAIN buckets'[k][x] : buckets'[k][x][i] = Held(k, x, place[i])'
    BY <1>1, <2>1, <2>2
  <2>4. QED
    BY <2>1, <2>2, <2>3
<1>3. QED
  BY <1>2 DEF TimesOnce

\* The next line.
LEMMA DrawKeeps ==
  ASSUME PlotInv, Draw
  PROVE  PlotInv'
<1> DEFINE c == current
           line(k) == [i \in DOMAIN sizes[k] |-> <<sizes[k][i], BoxMedian(buckets[k][sizes[k][i]])>>]
<1>1. PlotTyped /\ SizesRead /\ TimesOnce /\ LinesDrawn
  BY DEF PlotInv
<1>2. /\ plotPhase = "draw" /\ xvals' = sizes[c]
      /\ \/ plotPhase' = "ValueError" /\ current' = c /\ lines' = lines
         \/ /\ sizes[c] # << >> /\ NextSeries("drawn")
            /\ lines' = [lines EXCEPT ![c] = line(c)]
      /\ figure' = figure /\ sizes' = sizes /\ buckets' = buckets /\ medians' = medians
      /\ filesRead' = filesRead
  BY DEF Draw
<1>3. /\ c \in 1..Len(Labels) /\ Len(Labels) \in Nat \ {0} /\ Series = 1..Len(Labels)
      /\ DOMAIN lines = Series
  BY <1>1, PlotFacts
<1>4. \/ plotPhase' = "draw" /\ current' = c + 1 /\ c < Len(Labels)
      \/ plotPhase' = "drawn" /\ current' = 1 /\ c = Len(Labels)
      \/ plotPhase' = "ValueError" /\ current' = c
  BY <1>2, <1>3 DEF NextSeries
<1>5. PlotTyped'
  <2>1. current' \in Series
    BY <1>3, <1>4
  <2>2. PlotTypeOK'
    BY <1>1, <1>2, <1>4, <2>1 DEF PlotTyped, PlotTypeOK, Exceptions
  <2>3. QED
    BY <1>1, <1>2, <1>4, <2>2 DEF PlotTyped
<1>6. SizesRead'
  BY <1>1, <1>2 DEF SizesRead
<1>7. TimesOnce'
  <2>1. CASE plotPhase' \in Exceptions
    BY <2>1 DEF TimesOnce
  <2>2. CASE plotPhase' \notin Exceptions
    <3>1. \A k \in Series : IsRelated(k)' <=> IsRelated(k)
      BY <1>2, <1>4, <2>2 DEF IsRelated, Exceptions
    <3>2. plotPhase \notin Exceptions
      BY <1>2 DEF Exceptions
    <3>3. QED
      BY <1>1, <1>2, <3>1, <3>2, TimesStay
  <2>3. QED
    BY <2>1, <2>2
<1>8. MediansMeasured'
  BY <1>4 DEF MediansMeasured
<1>9. LinesDrawn'
  <2>1. ASSUME NEW k \in Series, plotPhase' \in {"draw", "drawn"},
               k < current' \/ plotPhase' = "drawn"
        PROVE  sizes[k] # << >> /\ lines'[k] = line(k)
    <3>1. k < c \/ k = c
      BY <1>3, <1>4, <2>1
    <3>2. /\ sizes[c] # << >>
          /\ lines' = [lines EXCEPT ![c] = line(c)]
      BY <1>2, <2>1
    <3>3. CASE k = c
      BY <1>3, <3>2, <3>3
    <3>4. CASE k < c
      <4>1. sizes[k] # << >> /\ lines[k] = line(k)
        BY <1>1, <1>2, <3>4 DEF LinesDrawn
      <4>2. k # c
        BY <1>3, <3>4
      <4>3. QED
        BY <1>3, <3>2, <4>1, <4>2
    <3>5. QED
      BY <3>1, <3>3, <3>4
  <2>2. plotPhase' = "drawn" => xvals' = sizes'[Len(Labels)]
    BY <1>2, <1>4
  <2>3. QED
    BY <1>2, <2>1, <2>2 DEF LinesDrawn
<1>10. QED
  BY <1>5, <1>6, <1>7, <1>8, <1>9 DEF PlotInv

\* What the invariant says of a bucket.
LEMMA BucketFacts ==
  ASSUME PlotTyped, TimesOnce, plotPhase \notin Exceptions,
         NEW k \in Series, NEW x \in Elements(sizes[k])
  PROVE  /\ filesRead[k] \in Seq(Contents)
         /\ buckets[k][x] \in Seq(Rationals) /\ Len(buckets[k][x]) \in Nat \ {0}
         /\ DOMAIN buckets[k][x] = 1..Len(buckets[k][x])
         /\ \E place : /\ Numbers(place, Len(buckets[k][x]), PlacesOf(filesRead[k], x))
                       /\ \A i \in 1..Len(buckets[k][x]) : buckets[k][x][i] = Held(k, x, place[i])
<1>1. filesRead[k] \in Seq(Contents) /\ buckets[k][x] \in Seq(Rationals) /\ buckets[k][x] # << >>
  BY PlotFacts
<1>2. DOMAIN buckets[k][x] = 1..Len(buckets[k][x]) /\ Len(buckets[k][x]) \in Nat \ {0}
  BY <1>1
<1>3. PICK place \in [DOMAIN buckets[k][x] -> Places(k, x)] :
        /\ \A i, j \in DOMAIN buckets[k][x] : place[i] = place[j] => i = j
        /\ \A p \in Places(k, x) : \E i \in DOMAIN buckets[k][x] : place[i] = p
        /\ \A i \in DOMAIN buckets[k][x] : buckets[k][x][i] = Held(k, x, place[i])
  BY DEF TimesOnce
<1>4. Places(k, x) = PlacesOf(filesRead[k], x)
  BY DEF Places, PlacesOf
<1>5. Numbers(place, Len(buckets[k][x]), PlacesOf(filesRead[k], x))
  BY <1>2, <1>3, <1>4 DEF Numbers
<1>6. \A i \in 1..Len(buckets[k][x]) : buckets[k][x][i] = Held(k, x, place[i])
  BY <1>2, <1>3
<1>7. QED
  BY <1>1, <1>2, <1>5, <1>6

\* All reference medians are positive.
LEMMA MediansPositive ==
  ASSUME PlotTyped, TimesOnce, plotPhase \notin Exceptions, NEW x \in Elements(sizes[Reference])
  PROVE  MeasuredMedian(x) \in Nat /\ MeasuredMedian(x) > 0
<1> DEFINE r == Reference
           n == Len(buckets[r][x])
           h == n \div 2
<1>1. r \in Series
  BY PlotFacts DEF Reference
<1>2. /\ filesRead[r] \in Seq(Contents) /\ n \in Nat \ {0}
      /\ \E place : Numbers(place, n, PlacesOf(filesRead[r], x))
  BY <1>1, BucketFacts
<1>3. h = n \div 2
  OBVIOUS
<1> HIDE DEF r, n, h
<1>4. MedianOf(filesRead[r], x) \in Nat /\ MedianOf(filesRead[r], x) > 0
  BY <1>2, <1>3, MedianPlaced
<1>5. QED
  BY <1>4, MedianMeasured DEF r

\* A time that is related to the median as it was measured.
LEMMA RelatedTimes ==
  ASSUME figure \in FigureTypes, figure # "ABSOLUTE_RUNTIME", NEW y \in Nat, y > 0, NEW x,
         MeasuredMedian(x) \in Nat, MeasuredMedian(x) > 0
  PROVE  /\ Related(<<y, 1>>, <<MeasuredMedian(x), 1>>) = Shown(y, x)
         /\ Shown(y, x) \in Rationals
<1> DEFINE m == MeasuredMedian(x)
           a == <<y, 1>>
           b == <<m, 1>>
<1>1. m \in Nat /\ a[1] = y /\ a[2] = 1 /\ b[1] = m /\ b[2] = 1
  OBVIOUS
<1>2. Divided(a, b) = <<y, m>> /\ Minus(a, b) = <<y - m, 1>>
  <2>1. Divided(a, b) = <<y * 1, 1 * m>> /\ Minus(a, b) = <<y * 1 - m * 1, 1 * 1>>
    BY <1>1 DEF Divided, Minus
  <2>2. y * 1 = y /\ 1 * m = m /\ y * 1 - m * 1 = y - m /\ 1 * 1 = 1
    BY <1>1
  <2>3. QED
    BY <2>1, <2>2
<1>3. Inverted(Divided(a, b)) = <<m, y>>
  BY <1>2 DEF Inverted
<1>4. Shown(y, x) = CASE figure = "ABSOLUTE_RUNTIME_DIFFERENCE"    -> <<y - m, 1>>
                      [] figure = "RELATIVE_RUNTIME_DIFFERENCE"    -> <<y, m>>
                      [] figure = "RELATIVE_PERFORMANCE_DIFFERENCE" -> <<m, y>>
  BY DEF Shown, FigureTypes
<1>5. /\ y \in Int /\ m \in Int /\ y - m \in Int /\ 1 \in Int
      /\ <<y - m, 1>> \in Rationals /\ <<y, m>> \in Rationals /\ <<m, y>> \in Rationals
  BY <1>1 DEF Rationals
<1> HIDE DEF m, a, b
<1>6. CASE figure = "ABSOLUTE_RUNTIME_DIFFERENCE"
  BY <1>2, <1>4, <1>5, <1>6 DEF Related, m, a, b
<1>7. CASE figure = "RELATIVE_RUNTIME_DIFFERENCE"
  BY <1>2, <1>4, <1>5, <1>7 DEF Related, m, a, b
<1>8. CASE figure = "RELATIVE_PERFORMANCE_DIFFERENCE"
  BY <1>3, <1>4, <1>5, <1>8 DEF Related, m, a, b
<1>9. QED
  BY <1>6, <1>7, <1>8 DEF FigureTypes

\* All times of the next series are replaced.
LEMMA RelateKeeps ==
  ASSUME PlotInv, Relate
  PROVE  PlotInv'
<1>0. PICK c : c = current
  OBVIOUS
<1>1. PlotTyped /\ SizesRead /\ TimesOnce /\ MediansMeasured
  BY DEF PlotInv
<1>2. /\ plotPhase = "relate"
      /\ figure' = figure /\ sizes' = sizes /\ medians' = medians /\ lines' = lines
      /\ xvals' = xvals /\ filesRead' = filesRead
  BY DEF Relate
<1>3. /\ c \in 1..Len(Labels) /\ Len(Labels) \in Nat \ {0} /\ Series = 1..Len(Labels)
      /\ figure \in FigureTypes /\ figure # "ABSOLUTE_RUNTIME"
      /\ DOMAIN buckets = Series
      /\ filesRead \in [Series -> Seq(Contents)] /\ sizes \in [Series -> Seq(Nat)]
      /\ \A k \in Series : /\ buckets[k] \in [Elements(sizes[k]) -> Seq(Rationals)]
                           /\ \A x \in Elements(sizes[k]) : buckets[k][x] # << >>
  BY <1>0, <1>1, <1>2, PlotFacts DEF PlotTyped
<1>4. SizesRead'
  BY <1>1, <1>2 DEF SizesRead
<1>5. MediansMeasured'
  <2>1. \A x : MeasuredMedian(x)' = MeasuredMedian(x)
    <3> TAKE x
    <3>1. MeasuredMedian(x)' = MedianOf(filesRead'[Reference], x)
      BY DEF MeasuredMedian, MedianOf, TimeAt, TimeIn, Places, PlacesOf
    <3>2. QED
      BY <1>2, <3>1, MedianMeasured
  <2>2. QED
    BY <1>1, <1>2, <2>1 DEF MediansMeasured
<1>6. CASE ~(DOMAIN buckets[c] \subseteq DOMAIN medians)
  <2>1. plotPhase' = "KeyError" /\ current' = current /\ buckets' = buckets
    BY <1>0, <1>6 DEF Relate
  <2>2. PlotTyped'
    <3>1. PlotTypeOK'
      BY <1>1, <1>2, <2>1 DEF PlotTyped, PlotTypeOK, Exceptions
    <3>2. QED
      BY <1>1, <1>2, <2>1, <3>1 DEF PlotTyped
  <2>3. TimesOnce' /\ LinesDrawn'
    BY <2>1 DEF TimesOnce, LinesDrawn, Exceptions
  <2>4. QED
    BY <1>4, <1>5, <2>2, <2>3 DEF PlotInv
<1>7. CASE DOMAIN buckets[c] \subseteq DOMAIN medians
  <2>1. RelateAll(c) /\ NextSeries("draw")
    BY <1>0, <1>7 DEF Relate
  <2> DEFINE new(x) == [i \in DOMAIN buckets[c][x] |-> Related(buckets[c][x][i], medians[x])]
  <2>2. c \in Series /\ DOMAIN buckets[c] = Elements(sizes[c])
    BY <1>3
  <2>3. /\ DOMAIN buckets' = Series
        /\ buckets'[c] = [x \in Elements(sizes[c]) |-> new(x)]
        /\ \A k \in Series : k # c => buckets'[k] = buckets[k]
    BY <1>3, <2>1, <2>2 DEF RelateAll
  <2>4. \/ plotPhase' = "relate" /\ current' = c + 1 /\ c < Len(Labels)
        \/ plotPhase' = "draw" /\ current' = 1 /\ c = Len(Labels)
    BY <1>0, <1>2, <1>3, <2>1 DEF NextSeries
  <2>5. /\ ~IsRelated(c) /\ IsRelated(c)'
        /\ \A k \in Series : k # c => (IsRelated(k)' <=> IsRelated(k))
    <3>1. ~IsRelated(c)
      BY <1>0, <1>2, <1>3 DEF IsRelated
    <3>2. IsRelated(c)'
      BY <1>3, <2>4 DEF IsRelated
    <3>3. ASSUME NEW k \in Series, k # c
          PROVE  IsRelated(k)' <=> IsRelated(k)
      <4>1. k \in 1..Len(Labels)
        BY <1>3
      <4>2. CASE plotPhase' = "relate" /\ current' = c + 1
        <5>1. k < c + 1 <=> k < c
          BY <1>3, <3>3, <4>1
        <5>2. QED
          BY <1>0, <1>2, <4>2, <5>1 DEF IsRelated
      <4>3. CASE plotPhase' = "draw" /\ c = Len(Labels)
        <5>1. k < c
          BY <1>3, <3>3, <4>1, <4>3
        <5>2. QED
          BY <1>0, <1>2, <4>3, <5>1 DEF IsRelated
      <4>4. QED
        BY <2>4, <4>2, <4>3
    <3>4. QED
      BY <3>1, <3>2, <3>3
  <2>6. IsSeries(filesRead[c], sizes[c], buckets[c])
    BY <1>1, <1>2, <2>2, <2>5, WhileFilesAreRead DEF Exceptions
  <2>7. \A k, x : Places(k, x)' = PlacesOf(filesRead[k], x) /\ Places(k, x) = PlacesOf(filesRead[k], x)
    BY <1>2 DEF Places, PlacesOf
  <2>8. \A k, p : TimeAt(k, p)' = TimeAt(k, p)
    BY <1>2 DEF TimeAt
  <2>9. ASSUME NEW k, NEW p, NEW x
        PROVE  Shown(TimeAt(k, p), x)' = Shown(TimeAt(k, p), x)
    <3>1. MeasuredMedian(x)' = MedianOf(filesRead'[Reference], x)
      BY DEF MeasuredMedian, MedianOf, TimeAt, TimeIn, Places, PlacesOf
    <3>2. MeasuredMedian(x)' = MeasuredMedian(x)
      BY <1>2, <3>1, MedianMeasured
    <3>3. QED
      BY <1>2, <2>8, <3>2 DEF Shown
  <2>10. ASSUME NEW x \in Elements(sizes[c])
         PROVE  /\ new(x) \in Seq(Rationals) /\ Len(new(x)) = Len(buckets[c][x]) /\ new(x) # << >>
                /\ DOMAIN new(x) = 1..Len(buckets[c][x])
                /\ \E place : /\ Numbers(place, Len(buckets[c][x]), PlacesOf(filesRead[c], x))
                              /\ \A i \in 1..Len(buckets[c][x]) :
                                   new(x)[i] = Shown(TimeAt(c, place[i]), x)
    <3> DEFINE bucket == buckets[c][x]
               n == Len(bucket)
               files == filesRead[c]
    <3>1. bucket \in Seq(Rationals) /\ bucket # << >> /\ files \in Seq(Contents)
          /\ n \in Nat \ {0} /\ DOMAIN bucket = 1..n
      BY <1>3, <2>2
    <3>2. PICK place : IsBucket(place, bucket, files, x)
      BY <2>6 DEF IsSeries
    <3>3. MeasuredMedian(x) \in Nat /\ MeasuredMedian(x) > 0 /\ medians[x] = <<MeasuredMedian(x), 1>>
      <4> DEFINE r == Reference
      <4>1. medians = [z \in Elements(sizes[r]) |-> <<MeasuredMedian(z), 1>>]
        BY <1>1, <1>2 DEF MediansMeasured
      <4>2. x \in DOMAIN medians
        BY <1>7, <2>2
      <4>3. x \in Elements(sizes[r])
        BY <4>1, <4>2
      <4>4. medians[x] = <<MeasuredMedian(x), 1>>
        BY <4>1, <4>3
      <4>5. MeasuredMedian(x) \in Nat /\ MeasuredMedian(x) > 0
        BY <1>1, <1>2, <4>3, MediansPositive DEF Exceptions
      <4>6. QED
        BY <4>4, <4>5
    <3>4. Numbers(place, n, PlacesOf(files, x))
      BY <3>2 DEF IsBucket
    <3>5. ASSUME NEW i \in 1..n
          PROVE  new(x)[i] = Shown(TimeAt(c, place[i]), x) /\ new(x)[i] \in Rationals
      <4>1. place[i] \in PlacesOf(files, x)
        BY <3>4 DEF Numbers
      <4> DEFINE y == TimeIn(files, place[i])
      <4>2. y \in Nat /\ y > 0
        BY <3>1, <4>1, TimesPositive
      <4>3. bucket[i] = <<y, 1>> /\ TimeAt(c, place[i]) = y
        BY <3>2 DEF IsBucket, TimeIn, TimeAt
      <4>4. new(x)[i] = Related(<<y, 1>>, <<MeasuredMedian(x), 1>>)
        BY <3>1, <3>3, <4>3
      <4> HIDE DEF y
      <4>5. Related(<<y, 1>>, <<MeasuredMedian(x), 1>>) = Shown(y, x) /\ Shown(y, x) \in Rationals
        BY <1>3, <3>3, <4>2, RelatedTimes
      <4>6. QED
        BY <4>3, <4>4, <4>5
    <3>6. new(x) \in [1..n -> Rationals]
      BY <3>1, <3>5
    <3> HIDE DEF new, n
    <3>7. n \in Nat
      BY <3>1
    <3>8. new(x) \in Seq(Rationals) /\ Len(new(x)) = n /\ DOMAIN new(x) = 1..n
      BY <3>6, <3>7, FunctionIsSeq
    <3>9. new(x) # << >>
      BY <3>1, <3>8
    <3>10. QED
      BY <3>4, <3>5, <3>8, <3>9 DEF n
  <2> HIDE DEF new
  <2>11. ASSUME NEW k \in Series
         PROVE  /\ buckets'[k] \in [Elements(sizes'[k]) -> Seq(Rationals)]
                /\ \A x \in Elements(sizes'[k]) : buckets'[k][x] # << >>
    BY <1>2, <1>3, <2>3, <2>10
  <2>12. PlotTyped'
    <3>1. current' \in Series
      BY <1>3, <2>4
    <3>2. PlotTypeOK'
      BY <1>1, <1>2, <2>4, <2>11, <3>1 DEF PlotTyped, PlotTypeOK
    <3>3. QED
      BY <1>1, <1>2, <1>3, <2>3, <2>11, <3>2 DEF PlotTyped
  <2>13. ASSUME NEW k \in Series, NEW x \in Elements(sizes'[k])
         PROVE  \E place \in [DOMAIN buckets'[k][x] -> Places(k, x)'] :
                  /\ \A i, j \in DOMAIN buckets'[k][x] : place[i] = place[j] => i = j
                  /\ \A p \in Places(k, x)' : \E i \in DOMAIN buckets'[k][x] : place[i] = p
                  /\ \A i \in DOMAIN buckets'[k][x] : buckets'[k][x][i] = Held(k, x, place[i])'
    <3>1. CASE k = c
      <4>1. x \in Elements(sizes[c]) /\ buckets'[k][x] = new(x)
        BY <1>2, <2>3, <3>1
      <4>2. PICK place : /\ Numbers(place, Len(buckets[c][x]), PlacesOf(filesRead[c], x))
                         /\ \A i \in 1..Len(buckets[c][x]) :
                              new(x)[i] = Shown(TimeAt(c, place[i]), x)
        BY <2>10, <4>1
      <4>3. DOMAIN buckets'[k][x] = 1..Len(buckets[c][x])
        BY <2>10, <4>1
      <4>4. \A p : Held(k, x, p)' = Shown(TimeAt(c, p), x)
        <5> TAKE p
        <5>1. IsRelated(k)' /\ Shown(TimeAt(k, p), x)' = Shown(TimeAt(k, p), x)
          BY <2>5, <2>9, <3>1
        <5>2. Held(k, x, p)' = Shown(TimeAt(k, p), x)
          BY <5>1 DEF Held
        <5>3. QED
          BY <3>1, <5>2
      <4>5. QED
        BY <2>7, <3>1, <4>1, <4>2, <4>3, <4>4 DEF Numbers
    <3>2. CASE k # c
      <4>1. buckets'[k][x] = buckets[k][x] /\ Places(k, x)' = Places(k, x) /\ x \in Elements(sizes[k])
        BY <1>2, <2>3, <2>7, <3>2
      <4>2. \A p : Held(k, x, p)' = Held(k, x, p)
        <5> TAKE p
        <5>1. CASE IsRelated(k)
          BY <2>5, <2>8, <2>9, <3>2, <5>1 DEF Held
        <5>2. CASE ~IsRelated(k)
          BY <2>5, <2>8, <3>2, <5>2 DEF Held
        <5>3. QED
          BY <5>1, <5>2
      <4>3. PICK place \in [DOMAIN buckets[k][x] -> Places(k, x)] :
              /\ \A i, j \in DOMAIN buckets[k][x] : place[i] = place[j] => i = j
              /\ \A p \in Places(k, x) : \E i \in DOMAIN buckets[k][x] : place[i] = p
              /\ \A i \in DOMAIN buckets[k][x] : buckets[k][x][i] = Held(k, x, place[i])
        BY <1>1, <1>2, <4>1 DEF TimesOnce, Exceptions
      <4>4. QED
        BY <4>1, <4>2, <4>3
    <3>3. QED
      BY <3>1, <3>2
  <2>14. TimesOnce'
    BY <2>13 DEF TimesOnce
  <2>15. LinesDrawn'
    <3>1. plotPhase' = "draw" => \A k \in Series : ~(k < current')
      BY <1>3, <2>4
    <3>2. QED
      BY <2>4, <3>1 DEF LinesDrawn
  <2>16. QED
    BY <1>4, <1>5, <2>12, <2>14, <2>15 DEF PlotInv
<1>8. QED
  BY <1>6, <1>7

\* A step that changes nothing keeps the invariant.
LEMMA PlotStutters ==
  ASSUME PlotInv, UNCHANGED plotVars
  PROVE  PlotInv'
<1>1. /\ plotPhase' = plotPhase /\ figure' = figure /\ current' = current /\ sizes' = sizes
      /\ buckets' = buckets /\ medians' = medians /\ lines' = lines /\ xvals' = xvals
      /\ filesRead' = filesRead
  BY DEF plotVars
<1>2. PlotTyped /\ SizesRead /\ TimesOnce /\ MediansMeasured /\ LinesDrawn
  BY DEF PlotInv
<1>3. PlotTyped'
  <2>1. PlotTypeOK'
    BY <1>1, <1>2 DEF PlotTyped, PlotTypeOK
  <2>2. QED
    BY <1>1, <1>2, <2>1 DEF PlotTyped
<1>4. SizesRead' /\ LinesDrawn'
  <2>1. SizesRead'
    BY <1>1, <1>2 DEF SizesRead
  <2>2. LinesDrawn'
    BY <1>1, <1>2 DEF LinesDrawn
  <2>3. QED
    BY <2>1, <2>2
<1>5. TimesOnce'
  <2>1. CASE plotPhase \in Exceptions
    BY <1>1, <2>1 DEF TimesOnce
  <2>2. CASE plotPhase \notin Exceptions
    <3>1. \A k \in Series : IsRelated(k)' <=> IsRelated(k)
      BY <1>1 DEF IsRelated
    <3>2. QED
      BY <1>1, <1>2, <2>2, <3>1, TimesStay
  <2>3. QED
    BY <2>1, <2>2
<1>6. MediansMeasured'
  <2>1. \A x : MeasuredMedian(x)' = MeasuredMedian(x)
    <3> TAKE x
    <3>1. MeasuredMedian(x)' = MedianOf(filesRead'[Reference], x)
      BY DEF MeasuredMedian, MedianOf, TimeAt, TimeIn, Places, PlacesOf
    <3>2. QED
      BY <1>1, <3>1, MedianMeasured
  <2>2. QED
    BY <1>1, <1>2, <2>1 DEF MediansMeasured
<1>7. QED
  BY <1>3, <1>4, <1>5, <1>6 DEF PlotInv

(***************************************************************************)
(* The inductive invariant of plot-lighttpd-upload.py, for any series and  *)
(* any files: while files are read each bucket has the times of its files, *)
(* while it relates them each has what the figure shows, and the lines have *)
(* the medians of the boxes.                                               *)
(***************************************************************************)
THEOREM PlotSafety == PlotSpec => []PlotInv
<1>1. PlotInit => PlotInv
  BY PlotInitially
<1>2. PlotInv /\ [PlotNext]_plotVars => PlotInv'
  <2> SUFFICES ASSUME PlotInv, [PlotNext]_plotVars
               PROVE  PlotInv'
    OBVIOUS
  <2>1. CASE \E content \in Contents : ReadFile(content)
    BY <2>1, ReadFileKeeps
  <2>2. CASE SeriesRead
    BY <2>2, SeriesReadKeeps
  <2>3. CASE Relate
    BY <2>3, RelateKeeps
  <2>4. CASE Draw
    BY <2>4, DrawKeeps
  <2>5. CASE PlotOver
    BY <2>5, PlotStutters DEF PlotOver
  <2>6. CASE UNCHANGED plotVars
    BY <2>6, PlotStutters
  <2>7. QED
    BY <2>1, <2>2, <2>3, <2>4, <2>5, <2>6 DEF PlotNext
<1>3. QED
  BY <1>1, <1>2, PTL DEF PlotSpec

\* In the end all times are those that a figure shows.
LEMMA AllShown ==
  ASSUME PlotInv, plotPhase \in {"draw", "drawn"}, NEW k \in Series, NEW x \in Elements(sizes[k])
  PROVE  /\ filesRead[k] \in Seq(Contents)
         /\ buckets[k][x] \in Seq(Rationals) /\ Len(buckets[k][x]) \in Nat \ {0}
         /\ DOMAIN buckets[k][x] = 1..Len(buckets[k][x])
         /\ Places(k, x) = PlacesOf(filesRead[k], x)
         /\ Cardinality(Places(k, x)) = Len(buckets[k][x])
         /\ \E place : /\ Numbers(place, Len(buckets[k][x]), PlacesOf(filesRead[k], x))
                       /\ \A i \in 1..Len(buckets[k][x]) :
                            buckets[k][x][i] = Shown(TimeAt(k, place[i]), x)
<1> DEFINE n == Len(buckets[k][x])
<1>1. PlotTyped /\ TimesOnce
  BY DEF PlotInv
<1>2. /\ filesRead[k] \in Seq(Contents) /\ buckets[k][x] \in Seq(Rationals) /\ n \in Nat \ {0}
      /\ DOMAIN buckets[k][x] = 1..n
  BY <1>1, BucketFacts DEF Exceptions
<1>3. PICK place : /\ Numbers(place, n, PlacesOf(filesRead[k], x))
                   /\ \A i \in 1..n : buckets[k][x][i] = Held(k, x, place[i])
  BY <1>1, BucketFacts DEF Exceptions
<1>4. Places(k, x) = PlacesOf(filesRead[k], x)
  BY DEF Places, PlacesOf
<1>5. IsRelated(k)
  BY DEF IsRelated
<1>6. \A i \in 1..n : buckets[k][x][i] = Shown(TimeAt(k, place[i]), x)
  BY <1>3, <1>5 DEF Held
<1> HIDE DEF n
<1>7. Cardinality(PlacesOf(filesRead[k], x)) = n
  BY <1>2, <1>3, NumberedSize DEF Numbers
<1>8. QED
  BY <1>2, <1>3, <1>4, <1>6, <1>7 DEF n

(***************************************************************************)
(* In each figure a box of a size has as many values as the files have times *)
(* of it, and the values are those times, related to the reference as the  *)
(* figure says.                                                            *)
(***************************************************************************)
THEOREM FiguresShowFiles == PlotSpec => []FigureShowsFiles
<1>1. PlotInv => FigureShowsFiles
  <2> SUFFICES ASSUME PlotInv, plotPhase \in {"draw", "drawn"}, NEW k \in Series
               PROVE  /\ \A x \in Elements(sizes[k]), v \in Values(k) :
                           Cardinality({i \in DOMAIN buckets[k][x] : Same(buckets[k][x][i], v)})
                             = Cardinality({p \in Places(k, x) : Same(Shown(TimeAt(k, p), x), v)})
                      /\ \A i \in DOMAIN filesRead[k] : \A j \in DOMAIN filesRead[k][i] :
                           filesRead[k][i][j].dataset = Dataset =>
                             LET x == filesRead[k][i][j].x IN
                             x \in DOMAIN buckets[k] /\ Len(buckets[k][x]) = Cardinality(Places(k, x))
    BY DEF FigureShowsFiles
  <2>1. ASSUME NEW x \in Elements(sizes[k]), NEW v
        PROVE  Cardinality({i \in DOMAIN buckets[k][x] : Same(buckets[k][x][i], v)})
                 = Cardinality({p \in Places(k, x) : Same(Shown(TimeAt(k, p), x), v)})
    <3> DEFINE n == Len(buckets[k][x])
               T == PlacesOf(filesRead[k], x)
               A == {i \in 1..n : Same(buckets[k][x][i], v)}
               Q == {p \in T : Same(Shown(TimeAt(k, p), x), v)}
    <3>1. n \in Nat /\ DOMAIN buckets[k][x] = 1..n /\ Places(k, x) = T
      BY AllShown
    <3>2. PICK place : /\ Numbers(place, n, T)
                       /\ \A i \in 1..n : buckets[k][x][i] = Shown(TimeAt(k, place[i]), x)
      BY AllShown
    <3> HIDE DEF n, T
    <3>3. \A i \in 1..n : place[i] \in T
      BY <3>2 DEF Numbers
    <3>4. AreThose(A, place, n, Q)
      BY <3>2, <3>3 DEF AreThose
    <3>5. A \in SUBSET (1..n) /\ Q \in SUBSET T
      OBVIOUS
    <3> HIDE DEF A, Q
    <3>6. Cardinality(A) = Cardinality(Q)
      BY <3>1, <3>2, <3>4, <3>5, CountedAlike
    <3>7. QED
      BY <3>1, <3>6 DEF A, Q
  <2>2. ASSUME NEW i \in DOMAIN filesRead[k], NEW j \in DOMAIN filesRead[k][i],
               filesRead[k][i][j].dataset = Dataset
        PROVE  LET x == filesRead[k][i][j].x IN
               x \in DOMAIN buckets[k] /\ Len(buckets[k][x]) = Cardinality(Places(k, x))
    <3> DEFINE x == filesRead[k][i][j].x
    <3>1. x \in SizesIn(filesRead[k][i])
      BY <2>2 DEF SizesIn
    <3>2. x \in Elements(sizes[k])
      BY <3>1 DEF PlotInv, SizesRead
    <3>3. DOMAIN buckets[k] = Elements(sizes[k])
      BY DEF PlotInv, PlotTyped, PlotTypeOK
    <3> HIDE DEF x
    <3>4. Len(buckets[k][x]) = Cardinality(Places(k, x))
      BY <3>2, AllShown
    <3>5. QED
      BY <3>2, <3>3, <3>4 DEF x
  <2>3. QED
    BY <2>1, <2>2
<1>2. QED
  BY <1>1, PlotSafety, PTL

\* The mean of the upper median and a number that is not above it.
LEMMA Products ==
  ASSUME NEW a \in Nat, NEW b \in Nat, NEW m \in Nat, m > 0
  PROVE  /\ a * m < b * m <=> a < b
         /\ m * a < m * b <=> a < b
         /\ a <= b => a * m <= b * m
         /\ a * m = m * a /\ a * m \in Nat
OBVIOUS

\* The mean of the two middle runtimes of the reference is at most its median.
LEMMA RuntimeMean ==
  ASSUME NEW w \in Nat, NEW m \in Nat, m > 0, w <= m
  PROVE  /\ ~Less(<<1, 1>>, Mean(<<w, m>>, <<m, m>>))
         /\ w = m => Same(Mean(<<w, m>>, <<m, m>>), <<1, 1>>)
<1> DEFINE p == w * m
           q == m * m
<1>1. Mean(<<w, m>>, <<m, m>>) = <<w * m + m * m, 2 * m * m>>
  BY DEF Mean
<1>2. p \in Nat /\ q \in Nat /\ p <= q /\ (w = m => p = q)
  BY Products
<1>3. 2 * m * m = 2 * q
  OBVIOUS
<1> HIDE DEF p, q
<1>4. Mean(<<w, m>>, <<m, m>>) = <<p + q, 2 * q>>
  BY <1>1, <1>3 DEF p, q
<1>5. QED
  BY <1>2, <1>4 DEF Less, Same

\* The mean of the two middle performances of the reference is at least 1.
LEMMA PerformanceMean ==
  ASSUME NEW w \in Nat, NEW m \in Nat, m > 0, w <= m
  PROVE  /\ ~Less(Mean(<<m, m>>, <<m, w>>), <<1, 1>>)
         /\ w = m => Same(Mean(<<m, m>>, <<m, w>>), <<1, 1>>)
<1> DEFINE p == m * w
           q == m * m
<1>1. Mean(<<m, m>>, <<m, w>>) = <<m * w + m * m, 2 * m * w>>
  BY DEF Mean
<1>2. p \in Nat /\ q \in Nat /\ p <= q /\ (w = m => p = q)
  BY Products
<1>3. 2 * m * w = 2 * p
  OBVIOUS
<1> HIDE DEF p, q
<1>4. Mean(<<m, m>>, <<m, w>>) = <<p + q, 2 * p>>
  BY <1>1, <1>3 DEF p, q
<1>5. QED
  BY <1>2, <1>4 DEF Less, Same

\* The points of the reference line in the relative figures.
LEMMA ReferenceMeans ==
  ASSUME PlotInv, plotPhase = "drawn", NEW x \in Elements(sizes[Reference]),
         NEW y, y = BoxMedian(buckets[Reference][x]),
         NEW odd, odd <=> Cardinality(Places(Reference, x)) % 2 = 1
  PROVE  /\ figure = "RELATIVE_PERFORMANCE_DIFFERENCE" =>
              ~Less(y, <<1, 1>>) /\ (odd => Same(y, <<1, 1>>))
         /\ figure = "RELATIVE_RUNTIME_DIFFERENCE" =>
              ~Less(<<1, 1>>, y) /\ (odd => Same(y, <<1, 1>>))
<1> DEFINE r == Reference
           b == buckets[r][x]
           n == Len(b)
           lo == (n - 1) \div 2
           hi == n \div 2
           files == filesRead[r]
           m == MedianOf(files, x)
<1>1. r \in Series
  BY PlotFacts DEF Reference, PlotInv
<1>2. /\ files \in Seq(Contents) /\ b \in Seq(Rationals) /\ n \in Nat \ {0} /\ DOMAIN b = 1..n
      /\ Cardinality(Places(r, x)) = n
  BY <1>1, AllShown
<1>3. PICK place : /\ Numbers(place, n, PlacesOf(files, x))
                   /\ \A i \in 1..n : b[i] = Shown(TimeAt(r, place[i]), x)
  BY <1>1, AllShown
<1> DEFINE keys == TimesAt(files, place, n)
<1>4. y = Mean(Sorted(b, lo), Sorted(b, hi))
  BY DEF BoxMedian
<1>5. odd <=> n % 2 = 1
  BY <1>2
<1> HIDE DEF n
<1>6. /\ lo \in 0..(n - 1) /\ hi \in 0..(n - 1) /\ lo <= hi /\ (odd => lo = hi)
      /\ n - 1 - lo = hi /\ n - 1 - hi = lo /\ lo \in Nat /\ hi \in Nat
  BY <1>2, <1>5
<1>7. hi = n \div 2
  OBVIOUS
<1> HIDE DEF lo, hi, files, m, keys
<1>8. /\ keys \in Seq(Int) /\ Len(keys) = n
      /\ \A i \in 1..n : keys[i] \in Nat /\ keys[i] > 0
      /\ m \in Nat /\ m > 0
      /\ IsMiddle(keys, m, hi)
  BY <1>2, <1>3, <1>7, MedianPlaced DEF keys, m
<1>9. ASSUME NEW i \in 1..n
      PROVE  b[i] = Shown(keys[i], x)
  BY <1>3 DEF keys, TimesAt, TimeIn, TimeAt, files
<1>10. MeasuredMedian(x) = m
  BY MedianMeasured DEF m, files, r
<1> HIDE DEF r, b
<1>11. ASSUME figure = "RELATIVE_RUNTIME_DIFFERENCE"
       PROVE  ~Less(<<1, 1>>, y) /\ (odd => Same(y, <<1, 1>>))
  <2>1. \A i \in 1..n : b[i] = <<keys[i], m>>
    BY <1>9, <1>10, <1>11 DEF Shown
  <2>2. \A i, j \in 1..n : Less(b[i], b[j]) <=> keys[i] < keys[j]
    <3> SUFFICES ASSUME NEW i \in 1..n, NEW j \in 1..n
                 PROVE  Less(b[i], b[j]) <=> keys[i] < keys[j]
      OBVIOUS
    <3>1. keys[i] \in Nat /\ keys[j] \in Nat
      BY <1>8
    <3>2. Less(b[i], b[j]) <=> keys[i] * m < keys[j] * m
      BY <2>1 DEF Less
    <3>3. keys[i] * m < keys[j] * m <=> keys[i] < keys[j]
      BY <1>8, <3>1, Products
    <3>4. QED
      BY <3>2, <3>3
  <2>3. PICK j \in 1..n : Sorted(b, lo) = b[j] /\ IsMiddle(keys, keys[j], lo)
    BY <1>2, <1>6, <1>8, <2>2, SortedIs DEF n
  <2>4. PICK l \in 1..n : Sorted(b, hi) = b[l] /\ IsMiddle(keys, keys[l], hi)
    BY <1>2, <1>6, <1>8, <2>2, SortedIs DEF n
  <2>5. keys[l] = m
    <3>1. hi \in Nat /\ hi <= hi
      BY <1>6
    <3>2. QED
      BY <1>8, <2>4, <3>1, OneMiddle
  <2>6. keys[j] <= m /\ (lo = hi => keys[j] = m)
    BY <1>6, <1>8, <2>3, OneMiddle
  <2>7. y = Mean(<<keys[j], m>>, <<m, m>>)
    BY <1>4, <2>1, <2>3, <2>4, <2>5
  <2>8. keys[j] \in Nat
    BY <1>8
  <2>9. ~Less(<<1, 1>>, y) /\ (keys[j] = m => Same(y, <<1, 1>>))
    BY <1>8, <2>6, <2>7, <2>8, RuntimeMean
  <2>10. QED
    BY <1>6, <2>6, <2>9
<1>12. ASSUME figure = "RELATIVE_PERFORMANCE_DIFFERENCE"
       PROVE  ~Less(y, <<1, 1>>) /\ (odd => Same(y, <<1, 1>>))
  <2> DEFINE negs == [i \in 1..n |-> -keys[i]]
  <2>1. \A i \in 1..n : b[i] = <<m, keys[i]>>
    BY <1>9, <1>10, <1>12 DEF Shown
  <2>2. \A i \in 1..n : negs[i] = -keys[i] /\ negs[i] \in Int /\ keys[i] \in Nat
    BY <1>8
  <2>3. negs \in [1..n -> Int]
    BY <2>2
  <2> HIDE DEF negs
  <2>4. negs \in Seq(Int) /\ Len(negs) = n
    BY <1>2, <2>3, FunctionIsSeq
  <2>5. \A i, j \in 1..n : Less(b[i], b[j]) <=> negs[i] < negs[j]
    <3> SUFFICES ASSUME NEW i \in 1..n, NEW j \in 1..n
                 PROVE  Less(b[i], b[j]) <=> negs[i] < negs[j]
      OBVIOUS
    <3>1. keys[i] \in Nat /\ keys[j] \in Nat /\ (negs[i] < negs[j] <=> keys[j] < keys[i])
      BY <2>2
    <3>2. Less(b[i], b[j]) <=> m * keys[j] < m * keys[i]
      BY <2>1 DEF Less
    <3>3. m * keys[j] < m * keys[i] <=> keys[j] < keys[i]
      BY <1>8, <3>1, Products
    <3>4. QED
      BY <3>1, <3>2, <3>3
  <2>6. PICK j \in 1..n : Sorted(b, lo) = b[j] /\ IsMiddle(negs, negs[j], lo)
    BY <1>2, <1>6, <2>4, <2>5, SortedIs DEF n
  <2>7. PICK l \in 1..n : Sorted(b, hi) = b[l] /\ IsMiddle(negs, negs[l], hi)
    BY <1>2, <1>6, <2>4, <2>5, SortedIs DEF n
  <2>8. IsMiddle(keys, keys[j], hi) /\ IsMiddle(keys, keys[l], lo)
    <3>1. /\ IsMiddle(negs, -keys[j], lo) /\ IsMiddle(negs, -keys[l], hi)
          /\ keys[j] \in Int /\ keys[l] \in Int
      BY <2>2, <2>6, <2>7
    <3>2. \A i \in 1..Len(keys) : negs[i] = -keys[i]
      BY <1>8, <2>2
    <3>3. Len(negs) = Len(keys) /\ lo \in 0..(Len(keys) - 1) /\ hi \in 0..(Len(keys) - 1)
      BY <1>6, <1>8, <2>4
    <3>4. IsMiddle(keys, keys[j], Len(keys) - 1 - lo)
      BY <1>8, <2>4, <3>1, <3>2, <3>3, MiddleFromAbove
    <3>5. IsMiddle(keys, keys[l], Len(keys) - 1 - hi)
      BY <1>8, <2>4, <3>1, <3>2, <3>3, MiddleFromAbove
    <3>6. QED
      BY <1>6, <1>8, <3>4, <3>5
  <2>9. keys[j] = m
    BY <1>6, <1>8, <2>8, OneMiddle
  <2>10. keys[l] <= m /\ (lo = hi => keys[l] = m)
    BY <1>6, <1>8, <2>8, OneMiddle
  <2>11. y = Mean(<<m, m>>, <<m, keys[l]>>)
    BY <1>4, <2>1, <2>6, <2>7, <2>9
  <2>12. ~Less(y, <<1, 1>>) /\ (keys[l] = m => Same(y, <<1, 1>>))
    BY <1>8, <2>2, <2>10, <2>11, PerformanceMean
  <2>13. QED
    BY <1>6, <2>10, <2>12
<1>13. QED
  BY <1>11, <1>12

\* The sizes of all files are one set only if each file has that set.
LEMMA OneSetOfSizes ==
  ASSUME PlotInv,
         NEW all, all = UNION {{SizesIn(filesRead[k][i]) : i \in DOMAIN filesRead[k]} : k \in Series},
         Cardinality(all) = 1
  PROVE  \E S : \A k \in Series : \A i \in DOMAIN filesRead[k] : SizesIn(filesRead[k][i]) = S
<1> DEFINE of(k) == {SizesIn(filesRead[k][i]) : i \in DOMAIN filesRead[k]}
           some == {of(k) : k \in Series}
<1>1. Series = 1..Len(Labels) /\ Len(Labels) \in Nat /\ filesRead \in [Series -> Seq(Contents)]
  BY PlotFacts DEF PlotInv
<1>2. ASSUME NEW k \in Series
      PROVE  IsFiniteSet(of(k))
  <2> DEFINE D == DOMAIN filesRead[k]
             T == of(k)
             f == [i \in D |-> SizesIn(filesRead[k][i])]
  <2>1. IsFiniteSet(D)
    <3>1. filesRead[k] \in Seq(Contents)
      BY <1>1
    <3>2. D = 1..Len(filesRead[k]) /\ Len(filesRead[k]) \in Nat
      BY <3>1
    <3>3. IsFiniteSet(1..Len(filesRead[k]))
      BY <3>2, FS_Interval
    <3>4. QED
      BY <3>2, <3>3
  <2>2. f \in Surjection(D, T)
    BY DEF Surjection
  <2> HIDE DEF D, T, f
  <2>3. IsFiniteSet(T)
    BY <2>1, <2>2, FS_Surjection
  <2>4. QED
    BY <2>3 DEF T
<1>3. IsFiniteSet(some)
  <2> DEFINE f == [k \in Series |-> of(k)]
  <2>1. IsFiniteSet(Series)
    BY <1>1, FS_Interval
  <2>2. f \in Surjection(Series, some)
    BY DEF Surjection
  <2> HIDE DEF some, f
  <2>3. QED
    BY <2>1, <2>2, FS_Surjection
<1>4. all = UNION some /\ \A T \in some : IsFiniteSet(T)
  BY <1>2
<1> HIDE DEF some
<1>5. IsFiniteSet(all)
  BY <1>3, <1>4, FS_UNION
<1>6. PICK S : all = {S}
  BY <1>5, FS_Singleton
<1>7. ASSUME NEW k \in Series, NEW i \in DOMAIN filesRead[k]
      PROVE  SizesIn(filesRead[k][i]) = S
  <2>1. SizesIn(filesRead[k][i]) \in of(k) /\ of(k) \in some
    BY DEF some
  <2>2. QED
    BY <1>4, <1>6, <2>1
<1>8. QED
  BY <1>7

(***************************************************************************)
(* Each line goes through the medians of its own boxes, by size, and that of *)
(* the reference is at 1 or on the side of 1 that the mean of two middle   *)
(* values puts it.                                                         *)
(***************************************************************************)
THEOREM LinesAreRight == PlotSpec => []LinesRight
<1>1. PlotInv => LinesRight
  <2> SUFFICES ASSUME PlotInv, plotPhase = "drawn"
               PROVE  LinesRight
    BY DEF LinesRight
  <2> DEFINE all == UNION {{SizesIn(filesRead[k][i]) : i \in DOMAIN filesRead[k]} : k \in Series}
             last == Len(Labels)
  <2>1. /\ Reference \in Series /\ last \in Series
        /\ sizes \in [Series -> Seq(Nat)] /\ filesRead \in [Series -> Seq(Contents)]
    BY PlotFacts DEF PlotInv, Reference
  <2>2. /\ \A k \in Series : /\ sizes[k] # << >>
                              /\ lines[k] = [i \in DOMAIN sizes[k] |->
                                   <<sizes[k][i], BoxMedian(buckets[k][sizes[k][i]])>>]
        /\ xvals = sizes[last]
    BY DEF PlotInv, LinesDrawn
  <2>3. ASSUME NEW k \in Series
        PROVE  /\ DOMAIN lines[k] = DOMAIN sizes[k]
               /\ \A i \in DOMAIN lines[k] : /\ lines[k][i][1] = sizes[k][i]
                                             /\ lines[k][i][2] = BoxMedian(buckets[k][sizes[k][i]])
                                             /\ sizes[k][i] \in Elements(sizes[k])
    <3>1. lines[k] = [i \in DOMAIN sizes[k] |->
                        <<sizes[k][i], BoxMedian(buckets[k][sizes[k][i]])>>]
      BY <2>2
    <3>2. ASSUME NEW i \in DOMAIN sizes[k]
          PROVE  lines[k][i] = <<sizes[k][i], BoxMedian(buckets[k][sizes[k][i]])>>
      BY <3>1
    <3>3. DOMAIN lines[k] = DOMAIN sizes[k]
      BY <3>1
    <3>4. ASSUME NEW i \in DOMAIN sizes[k]
          PROVE  sizes[k][i] \in Elements(sizes[k])
      BY DEF Elements
    <3>5. QED
      BY <3>2, <3>3, <3>4
  <2>4. ASSUME NEW i \in DOMAIN lines[Reference]
        PROVE  LET x == lines[Reference][i][1]
                   y == lines[Reference][i][2]
                   odd == Cardinality(Places(Reference, x)) % 2 = 1
               IN /\ figure = "RELATIVE_PERFORMANCE_DIFFERENCE" =>
                       ~Less(y, <<1, 1>>) /\ (odd => Same(y, <<1, 1>>))
                  /\ figure = "RELATIVE_RUNTIME_DIFFERENCE" =>
                       ~Less(<<1, 1>>, y) /\ (odd => Same(y, <<1, 1>>))
    <3> DEFINE x == lines[Reference][i][1]
               y == lines[Reference][i][2]
    <3>1. x \in Elements(sizes[Reference]) /\ y = BoxMedian(buckets[Reference][x])
      BY <2>1, <2>3
    <3> HIDE DEF x, y
    <3>2. /\ figure = "RELATIVE_PERFORMANCE_DIFFERENCE" =>
               ~Less(y, <<1, 1>>) /\ (Cardinality(Places(Reference, x)) % 2 = 1 => Same(y, <<1, 1>>))
          /\ figure = "RELATIVE_RUNTIME_DIFFERENCE" =>
               ~Less(<<1, 1>>, y) /\ (Cardinality(Places(Reference, x)) % 2 = 1 => Same(y, <<1, 1>>))
      BY <3>1, ReferenceMeans
    <3>3. QED
      BY <3>2 DEF x, y
  <2>5. ASSUME Cardinality(all) = 1
        PROVE  \A k \in Series :
                 /\ \A i, j \in DOMAIN lines[k] : i < j => lines[k][i][1] < lines[k][j][1]
                 /\ \A i \in DOMAIN lines[k] : lines[k][i][1] \in Elements(xvals)
    <3>1. PICK S : \A k \in Series : \A i \in DOMAIN filesRead[k] : SizesIn(filesRead[k][i]) = S
      BY <2>5, OneSetOfSizes
    <3>2. ASSUME NEW k \in Series
          PROVE  /\ Elements(sizes[k]) = S
                 /\ \A i, j \in DOMAIN sizes[k] : i < j => sizes[k][i] < sizes[k][j]
      <4>1. /\ Elements(sizes[k]) = UNION {SizesIn(filesRead[k][i]) : i \in DOMAIN filesRead[k]}
            /\ (\A i, j \in DOMAIN filesRead[k] : SizesIn(filesRead[k][i]) = SizesIn(filesRead[k][j])) =>
                 \A i, j \in DOMAIN sizes[k] : i < j => sizes[k][i] < sizes[k][j]
        BY DEF PlotInv, SizesRead
      <4>2. PICK n \in DOMAIN filesRead[k] : TRUE
        <5>1. 1 \in DOMAIN sizes[k]
          BY <2>1, <2>2
        <5>2. Elements(sizes[k]) # {}
          BY <5>1 DEF Elements
        <5>3. QED
          BY <4>1, <5>2
      <4>3. UNION {SizesIn(filesRead[k][i]) : i \in DOMAIN filesRead[k]} = S
        BY <3>1, <4>2
      <4>4. QED
        BY <3>1, <4>1, <4>3
    <3>3. Elements(xvals) = S
      BY <2>1, <2>2, <3>2
    <3>4. QED
      BY <2>3, <3>2, <3>3
  <2>6. QED
    BY <2>4, <2>5 DEF LinesRight
<1>2. QED
  BY <1>1, PlotSafety, PTL

-----------------------------------------------------------------------------
(* All types.                                                              *)

(***************************************************************************)
(* The types of userspace-test, where a process is bound to CPUs that are  *)
(* online only, of the lighttpd benchmark and of its plot hold together.   *)
(***************************************************************************)
THEOREM TypesHold == TestSpec /\ BenchmarkSpec /\ PlotSpec => []TypesOK
<1>1. ScriptInv /\ BenchmarkInv /\ PlotInv => TypesOK
  BY DEF ScriptInv, BenchmarkInv, PlotInv, PlotTyped, TypesOK
<1>2. QED
  BY <1>1, ScriptSafety, BenchmarkSafety, PlotSafety, PTL
=============================================================================
