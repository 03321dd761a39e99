------------------------------- MODULE Lists --------------------------------
(***************************************************************************)
(* What the scripts of the evaluation do with Python's lists: a loop that  *)
(* appends some members of a list to another, and list.sort().             *)
(***************************************************************************)
EXTENDS Integers, Sequences, FiniteSets

\* The members of a sequence at the places in P, in their order.
Kept(s, P) ==
  LET kept[n \in 0..Len(s)] == IF n = 0 THEN << >>
                               ELSE IF n \in P THEN Append(kept[n - 1], s[n])
                               ELSE kept[n - 1]
  IN kept[Len(s)]

\* The places of a sequence of numbers in ascending order, those of equal
\* numbers as they are.
Order(keys) ==
  LET before(k, l) == keys[k] < keys[l] \/ (keys[k] = keys[l] /\ k < l)
      rank(k) == Cardinality({l \in DOMAIN keys : before(l, k)})
  IN [n \in DOMAIN keys |-> CHOOSE k \in DOMAIN keys : rank(k) = n - 1]
=============================================================================
