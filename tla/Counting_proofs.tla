---------------------------- MODULE Counting_proofs ----------------------------
(* Facts about natural numbers that take the place of induction: a set of       *)
(* numbers has a least one, a set closed under the next number holds them all,  *)
(* and what is built step by step exists.  They speak of sets and functions,    *)
(* since no lemma can take an operator.                                         *)
EXTENDS Naturals, WellFoundedInduction, TLAPS

LEMMA LeastOf ==
  ASSUME NEW S, S \subseteq Nat, S # {}
  PROVE  \E x \in S : \A y \in S : x <= y
  <1>1. PICK x \in S : \A y \in S : <<y, x>> \notin OpToRel(<, Nat)
    BY WFMin, NatLessThanWellFounded, Zenon
  <1>2. \A y \in S : ~(y < x)
    BY <1>1 DEF OpToRel
  <1> QED BY <1>2

LEMMA UpTo ==
  ASSUME NEW N \in Nat, NEW S, 0 \in S, \A n \in 1 .. N : n - 1 \in S => n \in S
  PROVE  0 .. N \subseteq S
  <1> SUFFICES ASSUME NEW k \in 0 .. N, k \notin S PROVE FALSE
    OBVIOUS
  <1> DEFINE open == {n \in Nat : n \in 0 .. N /\ n \notin S}
  <1>1. open \subseteq Nat /\ open # {}
    OBVIOUS
  <1>2. \A n \in open : n \in 1 .. N /\ n \notin S
    OBVIOUS
  <1>3. \A n \in 1 .. N : n - 1 \notin open => n \notin open
    OBVIOUS
  <1> HIDE DEF open
  <1>4. PICK x \in open : \A y \in open : <<y, x>> \notin OpToRel(<, Nat)
    BY <1>1, WFMin, NatLessThanWellFounded, Zenon
  <1>5. \A y \in open : ~(y < x)
    BY <1>1, <1>4 DEF OpToRel
  <1>6. x \in 1 .. N /\ x - 1 < x
    <2>1. x \in 1 .. N
      BY <1>2, <1>4, Zenon
    <2> QED BY <2>1
  <1>7. x - 1 \notin open
    BY <1>5, <1>6
  <1> QED BY <1>3, <1>4, <1>6, <1>7

\* Something built step by step from a first value exists.
Iterated(D, N, base, step) ==
  \E f \in [0 .. N -> D] : f[0] = base /\ \A n \in 1 .. N : f[n] = step[<<n, f[n - 1]>>]

LEMMA Iterates ==
  ASSUME NEW D, NEW N \in Nat, NEW base \in D, NEW step,
         \A n \in 1 .. N, d \in D : step[<<n, d>>] \in D
  PROVE  Iterated(D, N, base, step)
  <1> DEFINE Built(f, k) == f[0] = base /\ \A n \in 1 .. k : f[n] = step[<<n, f[n - 1]>>]
             reached == {k \in 0 .. N : \E f \in [0 .. k -> D] : Built(f, k)}
  <1>1. 0 \in reached
    <2>1. PICK f : f = [i \in 0 .. 0 |-> base]
      OBVIOUS
    <2>2. f \in [0 .. 0 -> D] /\ f[0] = base /\ 1 .. 0 = {} /\ 0 \in 0 .. N
      BY <2>1
    <2>3. Built(f, 0)
      BY <2>2
    <2> HIDE DEF Built
    <2> QED BY <2>2, <2>3
  <1>2. ASSUME NEW n \in 1 .. N, n - 1 \in reached PROVE n \in reached
    <2>1. PICK f \in [0 .. n - 1 -> D] : Built(f, n - 1)
      BY <1>2
    <2>2. PICK g : g = [i \in 0 .. n |-> IF i = n THEN step[<<n, f[n - 1]>>] ELSE f[i]]
      OBVIOUS
    <2>3. f[n - 1] \in D /\ step[<<n, f[n - 1]>>] \in D
      BY <2>1
    <2>4. g \in [0 .. n -> D]
      BY <2>1, <2>2, <2>3
    <2>5. g[0] = base /\ g[n] = step[<<n, f[n - 1]>>] /\ g[n - 1] = f[n - 1]
      BY <2>1, <2>2
    <2>6. ASSUME NEW i \in 1 .. n PROVE g[i] = step[<<i, g[i - 1]>>]
      <3>1. CASE i = n
        BY <2>5, <3>1
      <3>2. CASE i # n
        <4>1. i \in 1 .. n - 1 /\ i - 1 \in 0 .. n - 1 /\ i \in 0 .. n - 1
          BY <3>2
        <4>2. g[i] = f[i] /\ g[i - 1] = f[i - 1]
          BY <2>2, <4>1
        <4> QED BY <2>1, <4>1, <4>2
      <3> QED BY <3>1, <3>2
    <2> QED BY <2>4, <2>5, <2>6
  <1> HIDE DEF reached
  <1>3. N \in reached
    BY <1>1, <1>2, UpTo
  <1> QED BY <1>3 DEF reached, Iterated
================================================================================
