-------------------------- MODULE FencedLease_proofs --------------------------
(* The fenced lease stores results in the order it was issued.                 *)
EXTENDS FencedLease, TLAPS

\* Nothing is held, worked on or stored that was not issued, and whoever holds the
\* lease holds the newest one and has stored nothing under it.
Fenced ==
  /\ issued \in Nat
  /\ holder \in {0, issued}
  /\ working \subseteq 1 .. issued
  /\ committed \subseteq 1 .. issued
  /\ holder \notin committed

LEMMA InitFenced == Init => Fenced
  BY DEF Init, Fenced

LEMMA NextFenced == Fenced /\ [Next]_lease => Fenced'
  <1> SUFFICES ASSUME Fenced, [Next]_lease
               PROVE  Fenced'
    OBVIOUS
  <1>1. CASE Grant
    BY <1>1 DEF Grant, Fenced
  <1>2. CASE Lapse
    BY <1>2 DEF Lapse, Fenced
  <1>3. CASE Revoke
    BY <1>3 DEF Revoke, Fenced
  <1>4. ASSUME NEW g \in working, GiveBack(g)
        PROVE  Fenced'
    BY <1>4 DEF GiveBack, Fenced
  <1>5. ASSUME NEW gone \in SUBSET working, Quit(gone)
        PROVE  Fenced'
    BY <1>5 DEF Quit, Fenced
  <1>6. CASE UNCHANGED lease
    BY <1>6 DEF lease, Fenced
  <1> QED BY <1>1, <1>2, <1>3, <1>4, <1>5, <1>6 DEF Next

\* What is stored newly is stored by the holder, whose generation is the last issued.
LEMMA StepInOrder ==
  ASSUME Fenced, [Next]_lease, NEW g \in committed' \ committed, NEW h \in committed
  PROVE  h < g
  <1>1. ASSUME NEW k \in working, GiveBack(k)
        PROVE  h < g
    <2>1. g = holder /\ holder = issued
      BY <1>1 DEF GiveBack, Fenced
    <2> QED BY <2>1 DEF Fenced
  <1>2. CASE UNCHANGED committed
    BY <1>2
  <1> QED BY <1>1, <1>2 DEF Next, lease, Grant, Lapse, Revoke, Quit

\* Results are stored in the order the lease was issued, each at most once.
THEOREM FencedInOrder == Spec => CommitsInClaimOrder
  <1>1. Spec => []Fenced
    BY InitFenced, NextFenced, PTL DEF Spec
  <1>2. Fenced /\ [Next]_lease => [\A g \in committed' \ committed : \A h \in committed : h < g]_lease
    BY StepInOrder
  <1> QED BY <1>1, <1>2, PTL DEF Spec, CommitsInClaimOrder
=============================================================================
