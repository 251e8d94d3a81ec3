--------------------------- MODULE SpendGate_proofs ---------------------------
(***************************************************************************)
(* What the gate's signature promises, for any signer, any width of the    *)
(* totals and any bundles: what it admits, that value is conserved, that   *)
(* nothing is signed unseen, and that settlement payments are tied.        *)
(*                                                                         *)
(* First what the recursive helpers come to (totals, picked elements,      *)
(* counts, flattened sequences), then what each handler adds to the        *)
(* ledger, then the ledger against the bundle, then the invariants.        *)
(***************************************************************************)
EXTENDS SpendGate, SequenceTheorems, FiniteSetTheorems, WellFoundedInduction, TLAPS

-----------------------------------------------------------------------------
(***************************************************************************)
(* What the recursive helpers of Spends come to.  The induction they take  *)
(* is the least-element principle for sets of natural numbers, which needs *)
(* no operator parameter.                                                  *)
(***************************************************************************)

LEMMA LeastNatural ==
    ASSUME NEW T, T \subseteq Nat, T # {}
    PROVE  \E n \in T : \A m \in T : n <= m
<1>1. PICK n \in T : \A m \in T : ~(<<m, n>> \in OpToRel(<, Nat))
  BY NatLessThanWellFounded, WFMin
<1>2. \A m \in T : ~(m < n)
  BY <1>1 DEF OpToRel
<1> QED BY <1>2

LEMMA InductionUpTo ==
    ASSUME NEW L \in Nat, NEW T, 0 \in T, \A n \in 1..L : n - 1 \in T => n \in T
    PROVE  \A n \in 0..L : n \in T
<1> DEFINE bad == {n \in 0..L : n \notin T}
<1> SUFFICES ASSUME bad # {}
             PROVE  FALSE
  OBVIOUS
<1>0. bad \subseteq Nat
  OBVIOUS
<1>1. PICK n \in bad : \A m \in bad : n <= m
  <2> HIDE DEF bad
  <2> QED BY <1>0, LeastNatural
<1>2. n \in 1..L /\ n - 1 \in 0..L /\ ~(n <= n - 1)
  BY <1>1
<1> QED BY <1>1, <1>2

(* Two functions that take the same steps from the same value agree.       *)
Together(f, g, L) ==
    /\ f[0] = g[0]
    /\ \A n \in 1..L : f[n - 1] = g[n - 1] => f[n] = g[n]

LEMMA SameSteps ==
    ASSUME NEW L \in Nat, NEW f, NEW g, Together(f, g, L)
    PROVE  \A n \in 0..L : f[n] = g[n]
<1> DEFINE T == {n \in 0..L : f[n] = g[n]}
<1>1. 0 \in T /\ \A n \in 1..L : n - 1 \in T => n \in T
  BY DEF Together
<1> HIDE DEF T
<1>2. \A n \in 0..L : n \in T
  BY <1>1, InductionUpTo
<1> QED BY <1>2 DEF T

Agree(f, g, L) == \A n \in 0..L : f[n] = g[n]

LEMMA SameStepsAgree ==
    ASSUME NEW L \in Nat, NEW f, NEW g, Together(f, g, L)
    PROVE  Agree(f, g, L)
BY SameSteps DEF Agree

(* A function on 0..L can be defined step by step.                         *)
Follows(f, base, G, m) == f[0] = base /\ \A n \in 1..m : f[n] = G[n][f[n - 1]]

LEMMA StepByStep ==
    ASSUME NEW L \in Nat, NEW V, NEW base \in V, NEW G \in [1..L -> [V -> V]]
    PROVE  \E f \in [0..L -> V] : Follows(f, base, G, L)
<1> DEFINE T == {m \in 0..L : \E f \in [0..L -> V] : Follows(f, base, G, m)}
<1>1. 0 \in T
  <2> DEFINE g == [n \in 0..L |-> base]
  <2>1. 0 \in 0..L /\ g \in [0..L -> V] /\ g[0] = base /\ 1..0 = {}
    OBVIOUS
  <2> HIDE DEF g
  <2>2. Follows(g, base, G, 0)
    BY <2>1 DEF Follows
  <2> QED BY <2>1, <2>2
<1>2. ASSUME NEW m \in 1..L, m - 1 \in T
      PROVE  m \in T
  <2>1. PICK f \in [0..L -> V] : Follows(f, base, G, m - 1)
    BY <1>2
  <2> DEFINE g == [n \in 0..L |-> IF n = m THEN G[m][f[m - 1]] ELSE f[n]]
  <2>2. m - 1 \in 0..L /\ m \in 0..L /\ 0 \in 0..L
    OBVIOUS
  <2>3. g \in [0..L -> V]
    BY <2>2
  <2>4. g[0] = base
    BY <2>1, <2>2 DEF Follows
  <2>5. ASSUME NEW n \in 1..m
        PROVE  g[n] = G[n][g[n - 1]]
    <3>1. n \in 0..L /\ n - 1 \in 0..L /\ n - 1 # m /\ n \in 1..L
      OBVIOUS
    <3>2. CASE n = m
      BY <3>1, <3>2
    <3>3. CASE n # m
      <4>1. n \in 1..(m - 1)
        BY <3>3
      <4> QED BY <2>1, <3>1, <3>3, <4>1 DEF Follows
    <3> QED BY <3>2, <3>3
  <2> HIDE DEF g
  <2> QED BY <2>2, <2>3, <2>4, <2>5 DEF Follows
<1> HIDE DEF T
<1>3. \A m \in 1..L : m - 1 \in T => m \in T
  BY <1>2
<1>4. \A m \in 0..L : m \in T
  BY <1>1, <1>3, InductionUpTo
<1>5. L \in T
  BY <1>4
<1> QED BY <1>5 DEF T

LEMMA SeqIs ==
    ASSUME NEW s, IsSeq(s)
    PROVE  /\ Len(s) \in Nat /\ DOMAIN s = 1..Len(s)
           /\ s = [i \in 1..Len(s) |-> s[i]]
BY DEF IsSeq

LEMMA SeqIsSeq ==
    ASSUME NEW X, NEW s \in Seq(X)
    PROVE  IsSeq(s)
<1>1. PICK n \in Nat : DOMAIN s = 1..n /\ s = [i \in 1..n |-> s[i]]
  OBVIOUS
<1>2. \A i \in 1..n : s[i] \in ToSet(s)
  BY <1>1 DEF ToSet
<1>3. [i \in 1..n |-> s[i]] \in [1..n -> ToSet(s)]
  BY <1>2
<1>4. [i \in 1..n |-> s[i]] \in Seq(ToSet(s))
  BY <1>3
<1> QED BY <1>1, <1>4 DEF IsSeq

-----------------------------------------------------------------------------
(* Total.                                                                  *)

LEMMA TotalIs ==
    ASSUME NEW ns \in Seq(Nat)
    PROVE  \E f \in [0..Len(ns) -> Nat] :
              /\ Total(ns) = f[Len(ns)] /\ f[0] = 0
              /\ \A n \in 1..Len(ns) : f[n] = f[n - 1] + ns[n]
<1>1. PICK L \in Nat : L = Len(ns)
  OBVIOUS
<1> DEFINE V == Nat
           zero == 0
           G == [n \in 1..L |-> [v \in V |-> v + ns[n]]]
           Sums(f) == f = [n \in 0..L |-> IF n = 0 THEN 0 ELSE f[n - 1] + ns[n]]
<1>2. PICK f \in [0..L -> V] : Follows(f, zero, G, L)
  <2>1. G \in [1..L -> [V -> V]] /\ zero \in V
    BY <1>1
  <2> HIDE DEF G, V, zero
  <2> QED BY <2>1, StepByStep
<1>3. \A n \in 1..L : n - 1 \in 0..L /\ f[n] = f[n - 1] + ns[n]
  <2> SUFFICES ASSUME NEW n \in 1..L
               PROVE  n - 1 \in 0..L /\ f[n] = f[n - 1] + ns[n]
    OBVIOUS
  <2>1. n - 1 \in 0..L
    OBVIOUS
  <2>2. f[n - 1] \in Nat /\ f[n] = G[n][f[n - 1]]
    BY <1>2, <2>1 DEF Follows
  <2> QED BY <2>1, <2>2
<1>4. f[0] = 0 /\ Sums(f)
  BY <1>2, <1>3 DEF Follows
<1> DEFINE c == CHOOSE h : Sums(h)
<1>5. Sums(c)
  BY <1>4
<1>6. Total(ns) = c[L]
  BY <1>1 DEF Total
<1> HIDE DEF c
<1>7. c[0] = 0 /\ \A n \in 1..L : c[n] = c[n - 1] + ns[n]
  <2>1. \A n \in 0..L : c[n] = IF n = 0 THEN 0 ELSE c[n - 1] + ns[n]
    BY <1>5
  <2> QED BY <2>1
<1>8. \A n \in 0..L : c[n] = f[n]
  <2>1. c[0] = f[0] /\ Together(c, f, L)
    BY <1>3, <1>4, <1>7 DEF Together
  <2> QED BY <2>1, SameSteps
<1>9. Total(ns) = f[L] /\ f[0] = 0 /\ \A n \in 1..L : f[n] = f[n - 1] + ns[n]
  BY <1>3, <1>4, <1>6, <1>8
<1> HIDE DEF V
<1> QED BY <1>1, <1>9 DEF V

LEMMA TotalStep ==
    ASSUME NEW ns \in Seq(Nat), NEW n \in 1..Len(ns)
    PROVE  Total([i \in 1..n |-> ns[i]]) = Total([i \in 1..(n - 1) |-> ns[i]]) + ns[n]
<1> DEFINE long  == [i \in 1..n |-> ns[i]]
           short == [i \in 1..(n - 1) |-> ns[i]]
<1>1. /\ n \in Nat /\ n - 1 \in Nat /\ long \in Seq(Nat) /\ short \in Seq(Nat)
      /\ Len(long) = n /\ Len(short) = n - 1 /\ long[n] = ns[n]
      /\ \A i \in 1..(n - 1) : long[i] = short[i]
  OBVIOUS
<1> HIDE DEF long, short
<1>2. PICK f \in [0..n -> Nat] :
         Total(long) = f[n] /\ f[0] = 0 /\ \A i \in 1..n : f[i] = f[i - 1] + long[i]
  BY <1>1, TotalIs
<1>3. PICK m \in Nat : m = n - 1
  BY <1>1
<1>4. PICK g \in [0..Len(short) -> Nat] :
         /\ Total(short) = g[Len(short)] /\ g[0] = 0
         /\ \A i \in 1..Len(short) : g[i] = g[i - 1] + short[i]
  BY <1>1, TotalIs
<1>5. g[0] = 0 /\ Total(short) = g[m] /\ \A i \in 1..m : g[i] = g[i - 1] + short[i]
  BY <1>1, <1>3, <1>4
<1>6. Together(f, g, m) /\ f[0] = g[0] /\ m \in 0..m
  BY <1>1, <1>2, <1>3, <1>5 DEF Together
<1>7. f[m] = g[m]
  <2>1. Agree(f, g, m)
    BY <1>6, SameStepsAgree
  <2> QED BY <1>6, <2>1 DEF Agree
<1>8. Total(long) = Total(short) + ns[n]
  <2>1. f[n] = f[n - 1] + ns[n]
    <3>1. n \in 1..n
      BY <1>1
    <3>2. f[n] = f[n - 1] + long[n]
      BY <1>2, <3>1
    <3> QED BY <1>1, <3>2
  <2>2. f[n - 1] = Total(short)
    BY <1>3, <1>5, <1>7
  <2> QED BY <1>2, <2>1, <2>2
<1> QED BY <1>8 DEF long, short

LEMMA TotalNat == ASSUME NEW ns \in Seq(Nat) PROVE Total(ns) \in Nat
<1>1. Len(ns) \in Nat /\ Len(ns) \in 0..Len(ns)
  OBVIOUS
<1> QED BY <1>1, TotalIs

LEMMA TotalZero ==
    ASSUME NEW ns \in Seq({0})
    PROVE  Total(ns) = 0
<1>1. ns \in Seq(Nat) /\ Len(ns) \in Nat /\ \A n \in 1..Len(ns) : ns[n] = 0
  OBVIOUS
<1>2. PICK f \in [0..Len(ns) -> Nat] :
         /\ Total(ns) = f[Len(ns)] /\ f[0] = 0
         /\ \A n \in 1..Len(ns) : f[n] = f[n - 1] + ns[n]
  BY <1>1, TotalIs
<1> DEFINE zeros == [n \in 0..Len(ns) |-> 0]
<1>3. Together(f, zeros, Len(ns)) /\ zeros[0] = 0
  BY <1>1, <1>2 DEF Together
<1>4. zeros[Len(ns)] = 0
  BY <1>1
<1> HIDE DEF zeros
<1>5. f[Len(ns)] = zeros[Len(ns)]
  BY <1>1, <1>2, <1>3, SameSteps
<1> QED BY <1>2, <1>4, <1>5

-----------------------------------------------------------------------------
(* Picked.                                                                 *)

(* The length and the elements, step by step.                              *)
Picks(f, s, at) ==
    /\ f[0] = <<>>
    /\ \A n \in 1..Len(s) : f[n] = IF n \in at THEN Append(f[n - 1], s[n]) ELSE f[n - 1]

LEMMA PickedIs ==
    ASSUME NEW X, NEW s \in Seq(X), NEW at
    PROVE  \E f \in [0..Len(s) -> Seq(X)] : Picked(s, at) = f[Len(s)] /\ Picks(f, s, at)
<1>1. PICK L \in Nat : L = Len(s)
  OBVIOUS
<1> DEFINE V == Seq(X)
           none == <<>>
           G == [n \in 1..L |-> [v \in V |-> IF n \in at THEN Append(v, s[n]) ELSE v]]
           Grows(f) == f = [n \in 0..L |-> IF n = 0 THEN <<>>
                                           ELSE IF n \in at THEN Append(f[n - 1], s[n])
                                           ELSE f[n - 1]]
<1>2. PICK f \in [0..L -> V] : Follows(f, none, G, L)
  <2>1. none \in V
    OBVIOUS
  <2>2. \A n \in 1..L, v \in V : (IF n \in at THEN Append(v, s[n]) ELSE v) \in V
    BY <1>1
  <2>3. G \in [1..L -> [V -> V]]
    <3> HIDE DEF V
    <3> QED BY <2>2
  <2> HIDE DEF G, V, none
  <2> QED BY <2>1, <2>3, StepByStep
<1>3. \A n \in 1..L :
         n - 1 \in 0..L /\ f[n] = IF n \in at THEN Append(f[n - 1], s[n]) ELSE f[n - 1]
  <2> SUFFICES ASSUME NEW n \in 1..L
               PROVE  /\ n - 1 \in 0..L
                      /\ f[n] = IF n \in at THEN Append(f[n - 1], s[n]) ELSE f[n - 1]
    OBVIOUS
  <2>1. n - 1 \in 0..L
    OBVIOUS
  <2>2. f[n - 1] \in V /\ f[n] = G[n][f[n - 1]]
    BY <1>2, <2>1 DEF Follows
  <2> HIDE DEF V
  <2> QED BY <2>1, <2>2
<1>4. f[0] = <<>> /\ Grows(f)
  <2>1. f[0] = <<>>
    BY <1>2 DEF Follows
  <2>2. f = [n \in 0..L |-> f[n]]
    <3> HIDE DEF V
    <3> QED BY <1>2
  <2>3. \A n \in 0..L : f[n] = IF n = 0 THEN <<>>
                               ELSE IF n \in at THEN Append(f[n - 1], s[n]) ELSE f[n - 1]
    <3> SUFFICES ASSUME NEW n \in 0..L
                 PROVE  f[n] = IF n = 0 THEN <<>>
                               ELSE IF n \in at THEN Append(f[n - 1], s[n]) ELSE f[n - 1]
      OBVIOUS
    <3>1. CASE n = 0
      BY <2>1, <3>1
    <3>2. CASE n # 0
      <4>1. n \in 1..L
        BY <3>2
      <4> HIDE DEF V
      <4> QED BY <1>3, <3>2, <4>1
    <3> QED BY <3>1, <3>2
  <2> QED BY <2>1, <2>2, <2>3
<1> DEFINE c == CHOOSE h : Grows(h)
<1>5. Grows(c)
  BY <1>4
<1>6. Picked(s, at) = c[L]
  BY <1>1 DEF Picked
<1> HIDE DEF c
<1>7. /\ c[0] = <<>>
      /\ \A n \in 1..L : c[n] = IF n \in at THEN Append(c[n - 1], s[n]) ELSE c[n - 1]
  <2>1. \A n \in 0..L : c[n] = IF n = 0 THEN <<>>
                               ELSE IF n \in at THEN Append(c[n - 1], s[n]) ELSE c[n - 1]
    BY <1>5
  <2> QED BY <2>1
<1>8. \A n \in 0..L : c[n] = f[n]
  <2>1. c[0] = f[0] /\ Together(c, f, L)
    BY <1>3, <1>4, <1>7 DEF Together
  <2> QED BY <2>1, SameSteps
<1>9. Picked(s, at) = f[L] /\ Picks(f, s, at)
  <2>1. f[0] = <<>>
    BY <1>4
  <2> QED BY <1>1, <1>3, <1>6, <1>8, <2>1 DEF Picks
<1> HIDE DEF V
<1> QED BY <1>1, <1>9 DEF V

(* Picking every element changes nothing.                                  *)
LEMMA PickedAll ==
    ASSUME NEW X, NEW s \in Seq(X), NEW at, 1..Len(s) \subseteq at
    PROVE  Picked(s, at) = s
<1>1. PICK L \in Nat : L = Len(s)
  OBVIOUS
<1>2. PICK f \in [0..Len(s) -> Seq(X)] : Picked(s, at) = f[Len(s)] /\ Picks(f, s, at)
  BY PickedIs
<1> DEFINE g == [n \in 0..L |-> [i \in 1..n |-> s[i]]]
<1>3. f[0] = g[0]
  BY <1>2 DEF Picks
<1>4. ASSUME NEW n \in 1..L, f[n - 1] = g[n - 1]
      PROVE  f[n] = g[n]
  <2>1. n - 1 \in 0..L /\ n \in 0..L
    OBVIOUS
  <2>2. f[n] = Append([i \in 1..(n - 1) |-> s[i]], s[n])
    BY <1>1, <1>2, <1>4, <2>1 DEF Picks
  <2>3. [i \in 1..(n - 1) |-> s[i]] \in Seq(X) /\ s[n] \in X
    BY <1>1
  <2>4. Append([i \in 1..(n - 1) |-> s[i]], s[n]) = [i \in 1..n |-> s[i]]
    BY <2>3
  <2> QED BY <2>1, <2>2, <2>4
<1>5. Together(f, g, L) /\ L \in 0..L
  <2> HIDE DEF g
  <2> QED BY <1>3, <1>4 DEF Together
<1>6. f[L] = g[L]
  <2> HIDE DEF g
  <2>1. \A n \in 0..L : f[n] = g[n]
    BY <1>3, <1>5, SameSteps
  <2> QED BY <1>5, <2>1
<1> QED BY <1>1, <1>2, <1>5, <1>6

Appends(v, w, x) == Append(v \o w, x) = v \o Append(w, x)

LEMMA AppendToConcat ==
    ASSUME NEW X, NEW v \in Seq(X), NEW w \in Seq(X), NEW x \in X
    PROVE  Appends(v, w, x)
BY DEF Appends

(* What is picked of a concatenation.                                      *)
LEMMA PickedConcat ==
    ASSUME NEW X, NEW s \in Seq(X), NEW t \in Seq(X), NEW at, NEW fst, NEW snd,
           \A i \in 1..Len(s) : i \in at <=> i \in fst,
           \A i \in 1..Len(t) : Len(s) + i \in at <=> i \in snd
    PROVE  Picked(s \o t, at) = Picked(s, fst) \o Picked(t, snd)
<1>1. PICK K \in Nat : K = Len(s)
  OBVIOUS
<1>2. PICK L \in Nat : L = Len(t)
  OBVIOUS
<1> DEFINE u == s \o t
<1>3. /\ u \in Seq(X) /\ Len(u) = K + L
      /\ \A i \in 1..K : u[i] = s[i]
      /\ \A i \in 1..L : u[K + i] = t[i]
  BY <1>1, <1>2
<1> HIDE DEF u
<1>4. PICK f \in [0..Len(u) -> Seq(X)] : Picked(u, at) = f[Len(u)] /\ Picks(f, u, at)
  BY <1>3, PickedIs
<1>5. PICK g \in [0..Len(s) -> Seq(X)] : Picked(s, fst) = g[Len(s)] /\ Picks(g, s, fst)
  BY PickedIs
<1>6. PICK h \in [0..Len(t) -> Seq(X)] : Picked(t, snd) = h[Len(t)] /\ Picks(h, t, snd)
  BY PickedIs
<1>7. f[K] = g[K]
  <2>1. ASSUME NEW n \in 1..K, f[n - 1] = g[n - 1]
        PROVE  f[n] = g[n]
    <3>1. n \in 1..Len(u)
      BY <1>3
    <3> QED BY <1>1, <1>3, <1>4, <1>5, <2>1, <3>1 DEF Picks
  <2>2. f[0] = g[0] /\ Together(f, g, K) /\ K \in 0..K
    BY <1>4, <1>5, <2>1 DEF Picks, Together
  <2>3. \A n \in 0..K : f[n] = g[n]
    BY <2>2, SameSteps
  <2> QED BY <2>2, <2>3
<1> DEFINE a == [n \in 0..L |-> f[K + n]]
           b == [n \in 0..L |-> g[K] \o h[n]]
<1>8. g[K] \in Seq(X) /\ \A n \in 0..L : h[n] \in Seq(X)
  <2>1. g[K] \in Seq(X)
    <3>1. g \in [0..K -> Seq(X)] /\ K \in 0..K
      BY <1>1, <1>5
    <3> QED BY <3>1
  <2>2. \A n \in 0..L : h[n] \in Seq(X)
    BY <1>2, <1>6
  <2> QED BY <2>1, <2>2
<1>9. a[0] = b[0]
  <2>1. h[0] = <<>> /\ g[K] \o <<>> = g[K]
    BY <1>6, <1>8 DEF Picks
  <2>2. 0 \in 0..L /\ K + 0 = K
    BY <1>1, <1>2
  <2> QED BY <1>7, <2>1, <2>2
<1>10. ASSUME NEW n \in 1..L, a[n - 1] = b[n - 1]
       PROVE  a[n] = b[n]
  <2>1. /\ n - 1 \in 0..L /\ n \in 0..L /\ K + n \in 1..Len(u) /\ n \in 1..Len(t)
        /\ K + (n - 1) = (K + n) - 1
    BY <1>2, <1>3
  <2>2. f[(K + n) - 1] = g[K] \o h[n - 1]
    BY <1>10, <2>1
  <2>3. CASE n \in snd
    <3>1. K + n \in at
      BY <1>1, <2>1, <2>3
    <3>2. f[K + n] = Append(g[K] \o h[n - 1], t[n])
      BY <1>3, <1>4, <2>1, <2>2, <3>1 DEF Picks
    <3>3. h[n] = Append(h[n - 1], t[n]) /\ t[n] \in X
      <4>1. t[n] \in X
        BY <1>2, <2>1
      <4> QED BY <1>6, <2>1, <2>3, <4>1 DEF Picks
    <3>4. Append(g[K] \o h[n - 1], t[n]) = g[K] \o Append(h[n - 1], t[n])
      <4>1. g[K] \in Seq(X) /\ h[n - 1] \in Seq(X) /\ t[n] \in X
        BY <1>8, <2>1, <3>3
      <4>2. Appends(g[K], h[n - 1], t[n])
        BY <4>1, AppendToConcat
      <4> QED BY <4>2 DEF Appends
    <3> QED BY <2>1, <3>2, <3>3, <3>4
  <2>4. CASE n \notin snd
    <3>1. K + n \notin at
      BY <1>1, <2>1, <2>4
    <3>2. f[K + n] = g[K] \o h[n - 1]
      BY <1>4, <2>1, <2>2, <3>1 DEF Picks
    <3>3. h[n] = h[n - 1]
      BY <1>6, <2>1, <2>4 DEF Picks
    <3> QED BY <2>1, <3>2, <3>3
  <2> QED BY <2>3, <2>4
<1> HIDE DEF a, b
<1>11. a[L] = b[L]
  <2>1. Together(a, b, L)
    BY <1>9, <1>10 DEF Together
  <2>2. Agree(a, b, L) /\ L \in 0..L
    BY <1>2, <2>1, SameStepsAgree
  <2> QED BY <2>2 DEF Agree
<1> QED BY <1>1, <1>2, <1>3, <1>4, <1>5, <1>6, <1>11 DEF a, b, u

-----------------------------------------------------------------------------
(* How many elements of a sequence are in Y.                               *)

Count(Y, s) == Cardinality({i \in DOMAIN s : s[i] \in Y})

LEMMA CountNat ==
    ASSUME NEW X, NEW s \in Seq(X), NEW Y
    PROVE  /\ IsFiniteSet({i \in DOMAIN s : s[i] \in Y})
           /\ Count(Y, s) \in Nat
<1>1. DOMAIN s = 1..Len(s) /\ Len(s) \in Nat
  OBVIOUS
<1>2. IsFiniteSet(1..Len(s))
  BY <1>1, FS_Interval
<1>3. {i \in DOMAIN s : s[i] \in Y} \in SUBSET (1..Len(s))
  BY <1>1
<1>4. IsFiniteSet({i \in DOMAIN s : s[i] \in Y})
  BY <1>2, <1>3, FS_Subset
<1> QED BY <1>4, FS_CardinalityType DEF Count

LEMMA CountEmpty == \A Y : Count(Y, <<>>) = 0
<1>1. \A Y : {i \in DOMAIN <<>> : <<>>[i] \in Y} = {}
  OBVIOUS
<1> QED BY <1>1, FS_EmptySet DEF Count

LEMMA CountAppend ==
    ASSUME NEW X, NEW s \in Seq(X), NEW x \in X, NEW Y
    PROVE  Count(Y, Append(s, x)) = Count(Y, s) + (IF x \in Y THEN 1 ELSE 0)
<1> DEFINE I == {i \in DOMAIN s : s[i] \in Y}
           J == {i \in DOMAIN Append(s, x) : Append(s, x)[i] \in Y}
<1>1. PICK L \in Nat : L = Len(s)
  OBVIOUS
<1>2. /\ DOMAIN s = 1..L /\ DOMAIN Append(s, x) = 1..(L + 1)
      /\ Append(s, x)[L + 1] = x
      /\ \A i \in 1..L : Append(s, x)[i] = s[i]
  BY <1>1
<1>3. IsFiniteSet(I) /\ Cardinality(I) \in Nat
  BY CountNat DEF Count
<1>4. L + 1 \notin I
  BY <1>2
<1>5. CASE x \in Y
  <2>1. J = I \cup {L + 1}
    BY <1>2, <1>5
  <2>2. Cardinality(J) = Cardinality(I) + 1
    BY <1>3, <1>4, <2>1, FS_AddElement
  <2> QED BY <1>5, <2>2 DEF Count
<1>6. CASE x \notin Y
  <2>1. J = I
    BY <1>2, <1>6
  <2>2. Count(Y, Append(s, x)) = Count(Y, s) /\ Count(Y, s) \in Nat
    BY <1>3, <2>1 DEF Count
  <2> QED BY <1>6, <2>2
<1> QED BY <1>5, <1>6

LEMMA CountAll ==
    ASSUME NEW X, NEW s \in Seq(X)
    PROVE  Count(X, s) = Len(s)
<1>1. {i \in DOMAIN s : s[i] \in X} = 1..Len(s) /\ Len(s) \in Nat
  OBVIOUS
<1>2. Cardinality(1..Len(s)) = Len(s)
  <2>1. PICK n \in Nat : n = Len(s)
    BY <1>1
  <2>2. Cardinality(1..n) = IF 1 > n THEN 0 ELSE n - 1 + 1
    BY FS_Interval
  <2> QED BY <2>1, <2>2
<1> QED BY <1>1, <1>2 DEF Count

LEMMA CountMonotonic ==
    ASSUME NEW X, NEW s \in Seq(X), NEW Y, NEW Z, \A i \in DOMAIN s : s[i] \in Y => s[i] \in Z
    PROVE  Count(Y, s) <= Count(Z, s)
<1>1. {i \in DOMAIN s : s[i] \in Y} \in SUBSET {i \in DOMAIN s : s[i] \in Z}
  OBVIOUS
<1>2. IsFiniteSet({i \in DOMAIN s : s[i] \in Z})
  BY CountNat
<1> QED BY <1>1, <1>2, FS_Subset DEF Count

(* A count taken apart.                                                    *)
LEMMA CountApart ==
    ASSUME NEW X, NEW s \in Seq(X), NEW Y, NEW Z, NEW W,
           \A i \in DOMAIN s : /\ s[i] \in W <=> s[i] \in Y \/ s[i] \in Z
                               /\ ~(s[i] \in Y /\ s[i] \in Z)
    PROVE  Count(W, s) = Count(Y, s) + Count(Z, s)
<1> DEFINE I == {i \in DOMAIN s : s[i] \in Y}
           J == {i \in DOMAIN s : s[i] \in Z}
           K == {i \in DOMAIN s : s[i] \in W}
<1>1. K = I \cup J /\ I \cap J = {}
  OBVIOUS
<1>2. IsFiniteSet(I) /\ IsFiniteSet(J) /\ Cardinality(I) \in Nat /\ Cardinality(J) \in Nat
  BY CountNat DEF Count
<1> HIDE DEF I, J, K
<1>3. Cardinality(I \cup J) = Cardinality(I) + Cardinality(J) - Cardinality(I \cap J)
  BY <1>2, FS_Union
<1>4. Cardinality(K) = Cardinality(I) + Cardinality(J)
  <2>1. Cardinality(I \cap J) = 0
    BY <1>1, FS_EmptySet
  <2> QED BY <1>1, <1>2, <1>3, <2>1
<1> QED BY <1>4 DEF Count, I, J, K

(* What is picked, counted.                                                *)
LEMMA CountPicked ==
    ASSUME NEW X, NEW s \in Seq(X), NEW at, NEW Y, NEW Z,
           \A i \in 1..Len(s) : s[i] \in Z <=> i \in at /\ s[i] \in Y
    PROVE  Count(Y, Picked(s, at)) = Count(Z, s)
<1>1. PICK L \in Nat : L = Len(s)
  OBVIOUS
<1>2. PICK f \in [0..Len(s) -> Seq(X)] : Picked(s, at) = f[Len(s)] /\ Picks(f, s, at)
  BY PickedIs
<1>3. PICK g \in [0..Len(s) -> Seq(X)] :
         Picked(s, 1..Len(s)) = g[Len(s)] /\ Picks(g, s, 1..Len(s))
  BY PickedIs
<1>4. g[L] = s
  BY <1>1, <1>3, PickedAll
<1> DEFINE a == [n \in 0..L |-> Count(Y, f[n])]
           b == [n \in 0..L |-> Count(Z, g[n])]
<1>5. a[0] = b[0]
  <2>1. f[0] = <<>> /\ g[0] = <<>> /\ 0 \in 0..L
    BY <1>2, <1>3 DEF Picks
  <2> QED BY <2>1, CountEmpty
<1>6. ASSUME NEW n \in 1..L, a[n - 1] = b[n - 1]
      PROVE  a[n] = b[n]
  <2>1. n - 1 \in 0..L /\ n \in 0..L /\ n \in 1..Len(s) /\ s[n] \in X
    BY <1>1
  <2>2. Count(Y, f[n - 1]) = Count(Z, g[n - 1])
    BY <1>6, <2>1
  <2>3. f[n - 1] \in Seq(X) /\ g[n - 1] \in Seq(X)
    BY <1>1, <1>2, <1>3, <2>1
  <2>4. Count(Z, g[n]) = Count(Z, g[n - 1]) + (IF s[n] \in Z THEN 1 ELSE 0)
    <3>1. g[n] = Append(g[n - 1], s[n])
      BY <1>3, <2>1 DEF Picks
    <3> QED BY <2>1, <2>3, <3>1, CountAppend
  <2>5. CASE n \in at
    <3>1. f[n] = Append(f[n - 1], s[n])
      BY <1>2, <2>1, <2>5 DEF Picks
    <3>2. Count(Y, f[n]) = Count(Y, f[n - 1]) + (IF s[n] \in Y THEN 1 ELSE 0)
      BY <2>1, <2>3, <3>1, CountAppend
    <3> QED BY <2>1, <2>2, <2>4, <2>5, <3>2
  <2>6. CASE n \notin at
    <3>1. f[n] = f[n - 1] /\ s[n] \notin Z
      BY <1>2, <2>1, <2>6 DEF Picks
    <3>2. Count(Z, g[n - 1]) \in Nat
      BY <2>3, CountNat
    <3> QED BY <2>1, <2>2, <2>4, <3>1, <3>2
  <2> QED BY <2>5, <2>6
<1> HIDE DEF a, b
<1>7. a[L] = b[L]
  <2>1. Together(a, b, L) /\ L \in 0..L
    BY <1>5, <1>6 DEF Together
  <2>2. \A n \in 0..L : a[n] = b[n]
    BY <2>1, SameSteps
  <2> QED BY <2>1, <2>2
<1>8. a[L] = Count(Y, f[L]) /\ b[L] = Count(Z, g[L])
  BY DEF a, b
<1> QED BY <1>1, <1>2, <1>4, <1>7, <1>8

LEMMA CountMapped ==
    ASSUME NEW s, NEW t, DOMAIN t = DOMAIN s, NEW Y, NEW Z,
           \A i \in DOMAIN s : t[i] \in Y <=> s[i] \in Z
    PROVE  Count(Y, t) = Count(Z, s)
<1>1. {i \in DOMAIN t : t[i] \in Y} = {i \in DOMAIN s : s[i] \in Z}
  OBVIOUS
<1> QED BY <1>1 DEF Count

LEMMA CountConcat ==
    ASSUME NEW X, NEW s \in Seq(X), NEW t \in Seq(X), NEW Y
    PROVE  Count(Y, s \o t) = Count(Y, s) + Count(Y, t)
<1>1. PICK L \in Nat : L = Len(t)
  OBVIOUS
<1>2. PICK g \in [0..Len(t) -> Seq(X)] :
         Picked(t, 1..Len(t)) = g[Len(t)] /\ Picks(g, t, 1..Len(t))
  BY PickedIs
<1>3. g[L] = t
  BY <1>1, <1>2, PickedAll
<1>4. Count(Y, s) \in Nat
  BY CountNat
<1> DEFINE a == [n \in 0..L |-> Count(Y, s \o g[n])]
           b == [n \in 0..L |-> Count(Y, s) + Count(Y, g[n])]
<1>5. a[0] = b[0]
  <2>1. g[0] = <<>> /\ 0 \in 0..L /\ s \o <<>> = s
    BY <1>2 DEF Picks
  <2>2. Count(Y, <<>>) = 0
    BY CountEmpty
  <2>3. a[0] = Count(Y, s) /\ b[0] = Count(Y, s) + Count(Y, <<>>)
    BY <2>1
  <2> HIDE DEF a, b
  <2> QED BY <1>4, <2>2, <2>3
<1>6. ASSUME NEW n \in 1..L, a[n - 1] = b[n - 1]
      PROVE  a[n] = b[n]
  <2>1. n - 1 \in 0..L /\ n \in 0..L /\ n \in 1..Len(t) /\ t[n] \in X
    BY <1>1
  <2>2. Count(Y, s \o g[n - 1]) = Count(Y, s) + Count(Y, g[n - 1])
    BY <1>6, <2>1
  <2>3. PICK v \in Seq(X) : v = g[n - 1]
    BY <1>1, <1>2, <2>1
  <2>4. g[n] = Append(v, t[n])
    BY <1>2, <2>1, <2>3 DEF Picks
  <2>5. s \o g[n] = Append(s \o v, t[n])
    <3>1. Appends(s, v, t[n])
      BY <2>1, AppendToConcat
    <3> QED BY <2>4, <3>1 DEF Appends
  <2>6. PICK u \in Seq(X) : u = s \o v
    BY ONLY <2>3, ConcatProperties, s \in Seq(X)
  <2>7. Count(Y, g[n]) = Count(Y, v) + (IF t[n] \in Y THEN 1 ELSE 0)
    BY <2>1, <2>4, CountAppend
  <2>8. Count(Y, Append(u, t[n])) = Count(Y, u) + (IF t[n] \in Y THEN 1 ELSE 0)
    BY <2>1, CountAppend
  <2>9. Count(Y, s \o g[n]) = Count(Y, s) + Count(Y, g[n])
    <3> HIDE DEF a, b
    <3>1. Count(Y, v) \in Nat
      BY CountNat
    <3> QED BY <1>4, <2>2, <2>3, <2>5, <2>6, <2>7, <2>8, <3>1
  <2> QED BY <2>1, <2>9
<1> HIDE DEF a, b
<1>7. a[L] = b[L]
  <2>1. Together(a, b, L) /\ L \in 0..L
    BY <1>5, <1>6 DEF Together
  <2>2. \A n \in 0..L : a[n] = b[n]
    BY <2>1, SameSteps
  <2> QED BY <2>1, <2>2
<1>8. a[L] = Count(Y, s \o g[L]) /\ b[L] = Count(Y, s) + Count(Y, g[L])
  BY DEF a, b
<1> QED BY <1>3, <1>7, <1>8

(* How often x occurs is a count, and equally long sequences in which      *)
(* everything is counted alike are the same bag.                           *)
LEMMA OccurrencesCounted ==
    ASSUME NEW x, NEW s
    PROVE  Occurrences(x, s) = Count({x}, s)
<1>1. {i \in DOMAIN s : s[i] = x} = {i \in DOMAIN s : s[i] \in {x}}
  OBVIOUS
<1> QED BY <1>1 DEF Occurrences, Count

-----------------------------------------------------------------------------
(* FlattenSeq, step by step.                                               *)

Joins(f, ss) == f[0] = <<>> /\ \A n \in 1..Len(ss) : f[n] = f[n - 1] \o ss[n]

LEMMA FlattenIs ==
    ASSUME NEW X, NEW ss \in Seq(Seq(X))
    PROVE  \E f \in [0..Len(ss) -> Seq(X)] : FlattenSeq(ss) = f[Len(ss)] /\ Joins(f, ss)
<1>1. PICK L \in Nat : L = Len(ss)
  OBVIOUS
<1> DEFINE V == Seq(X)
           none == <<>>
           G == [n \in 1..L |-> [v \in V |-> v \o ss[n]]]
           Grows(h) == h = [i \in 1..L |-> IF i = 1 THEN ss[i] ELSE h[i - 1] \o ss[i]]
<1>2. PICK f \in [0..L -> V] : Follows(f, none, G, L)
  <2>1. none \in V
    OBVIOUS
  <2>2. \A n \in 1..L, v \in V : v \o ss[n] \in V
    BY <1>1
  <2>3. G \in [1..L -> [V -> V]]
    <3> HIDE DEF V
    <3> QED BY <2>2
  <2> HIDE DEF G, V, none
  <2> QED BY <2>1, <2>3, StepByStep
<1>3. f[0] = <<>> /\ \A n \in 1..L : f[n] = f[n - 1] \o ss[n]
  <2>1. f[0] = <<>>
    BY <1>2 DEF Follows
  <2>2. ASSUME NEW n \in 1..L
        PROVE  f[n] = f[n - 1] \o ss[n]
    <3>1. n - 1 \in 0..L
      OBVIOUS
    <3>2. f[n - 1] \in V /\ f[n] = G[n][f[n - 1]]
      BY <1>2, <3>1 DEF Follows
    <3> HIDE DEF V
    <3> QED BY <3>1, <3>2
  <2> QED BY <2>1, <2>2
<1>4. Joins(f, ss)
  BY <1>1, <1>3 DEF Joins
<1>5. CASE L = 0
  <2>1. ss = <<>>
    BY <1>1, <1>5, EmptySeq
  <2>2. FlattenSeq(ss) = ss
    BY <1>1, <1>5 DEF FlattenSeq
  <2> HIDE DEF V
  <2> QED BY <1>1, <1>2, <1>3, <1>4, <1>5, <2>1, <2>2 DEF V
<1>6. CASE L # 0
  <2>1. L \in 1..L /\ 1 \in 1..L
    BY <1>6
  <2>2. f[1] = ss[1]
    <3>1. PICK n \in 1..L : n = 1
      BY <2>1
    <3>2. PICK w \in Seq(X) : w = ss[n]
      BY <1>1
    <3>3. f[n] = f[n - 1] \o w
      BY <1>3, <3>2
    <3>4. n - 1 = 0
      BY <3>1
    <3>5. f[n - 1] = <<>>
      BY <1>3, <3>4, Zenon
    <3>6. f[n] = <<>> \o w
      BY <3>3, <3>5, Zenon
    <3> QED BY <3>1, <3>2, <3>6
  <2> DEFINE g == [i \in 1..L |-> f[i]]
             c == CHOOSE h : Grows(h)
  <2>3. Grows(g)
    <3>1. \A i \in 1..L : f[i] = IF i = 1 THEN ss[i] ELSE g[i - 1] \o ss[i]
      <4> SUFFICES ASSUME NEW i \in 1..L
                   PROVE  f[i] = IF i = 1 THEN ss[i] ELSE g[i - 1] \o ss[i]
        OBVIOUS
      <4>1. CASE i = 1
        BY <2>2, <4>1
      <4>2. CASE i # 1
        <5>1. i - 1 \in 1..L
          BY <4>2
        <5>2. g[i - 1] = f[i - 1]
          BY <5>1
        <5>3. f[i] = f[i - 1] \o ss[i]
          BY <1>3
        <5> QED BY <4>2, <5>2, <5>3
      <4> QED BY <4>1, <4>2
    <3> QED BY <3>1
  <2>4. Grows(c)
    BY <2>3
  <2>5. FlattenSeq(ss) = c[L]
    BY <1>1, <1>6 DEF FlattenSeq
  <2> HIDE DEF c, g
  <2> DEFINE d == [n \in 0..L |-> IF n = 0 THEN <<>> ELSE c[n]]
  <2>6. \A i \in 1..L : c[i] = IF i = 1 THEN ss[i] ELSE c[i - 1] \o ss[i]
    BY <2>4
  <2>7. ASSUME NEW n \in 1..L, d[n - 1] = f[n - 1]
        PROVE  d[n] = f[n]
    <3>1. n - 1 \in 0..L /\ n \in 0..L /\ d[n] = c[n]
      OBVIOUS
    <3>2. CASE n = 1
      BY <2>2, <2>6, <3>1, <3>2
    <3>3. CASE n # 1
      <4>1. d[n - 1] = c[n - 1]
        BY <3>1, <3>3
      <4>2. c[n] = c[n - 1] \o ss[n]
        BY <2>6, <3>3
      <4>3. f[n] = f[n - 1] \o ss[n]
        BY <1>3
      <4> QED BY <2>7, <3>1, <4>1, <4>2, <4>3
    <3> QED BY <3>2, <3>3
  <2>8. d[0] = f[0] /\ d[L] = c[L]
    BY <1>3, <1>6
  <2> HIDE DEF d
  <2>9. d[L] = f[L]
    <3>1. Together(d, f, L) /\ L \in 0..L
      BY <2>7, <2>8 DEF Together
    <3>2. \A n \in 0..L : d[n] = f[n]
      BY <3>1, SameSteps
    <3> QED BY <3>1, <3>2
  <2>10. FlattenSeq(ss) = f[L]
    BY <2>5, <2>8, <2>9
  <2> HIDE DEF V
  <2> QED BY <1>1, <1>4, <2>10 DEF V
<1> QED BY <1>5, <1>6

LEMMA FlattenType ==
    ASSUME NEW X, NEW ss \in Seq(Seq(X))
    PROVE  FlattenSeq(ss) \in Seq(X)
<1>1. Len(ss) \in 0..Len(ss)
  OBVIOUS
<1> QED BY <1>1, FlattenIs

LEMMA FlattenStep ==
    ASSUME NEW X, NEW ss \in Seq(Seq(X)), NEW n \in 1..Len(ss)
    PROVE  FlattenSeq([i \in 1..n |-> ss[i]]) = FlattenSeq([i \in 1..(n - 1) |-> ss[i]]) \o ss[n]
<1> DEFINE long  == [i \in 1..n |-> ss[i]]
           short == [i \in 1..(n - 1) |-> ss[i]]
<1>1. /\ n \in Nat /\ n - 1 \in Nat /\ long \in Seq(Seq(X)) /\ short \in Seq(Seq(X))
      /\ Len(long) = n /\ Len(short) = n - 1 /\ long[n] = ss[n]
      /\ \A i \in 1..(n - 1) : long[i] = short[i]
  OBVIOUS
<1> HIDE DEF long, short
<1>2. PICK m \in Nat : m = n - 1
  BY <1>1
<1>3. PICK f \in [0..Len(long) -> Seq(X)] : FlattenSeq(long) = f[Len(long)] /\ Joins(f, long)
  BY <1>1, FlattenIs
<1>4. PICK g \in [0..Len(short) -> Seq(X)] : FlattenSeq(short) = g[Len(short)] /\ Joins(g, short)
  BY <1>1, FlattenIs
<1>5. ASSUME NEW i \in 1..m, f[i - 1] = g[i - 1]
      PROVE  f[i] = g[i]
  <2>1. i \in 1..Len(long) /\ i \in 1..Len(short) /\ long[i] = short[i]
    BY <1>1, <1>2
  <2>2. f[i] = f[i - 1] \o long[i] /\ g[i] = g[i - 1] \o short[i]
    BY <1>3, <1>4, <2>1 DEF Joins
  <2> QED BY <1>5, <2>1, <2>2
<1>6. Together(f, g, m) /\ m \in 0..m
  BY <1>3, <1>4, <1>5 DEF Together, Joins
<1>7. f[m] = g[m]
  <2>1. Agree(f, g, m)
    BY <1>6, SameStepsAgree
  <2> QED BY <1>6, <2>1 DEF Agree
<1>8. FlattenSeq(long) = FlattenSeq(short) \o ss[n]
  <2>1. n \in 1..Len(long) /\ long[n] = ss[n]
    BY <1>1
  <2>2. f[n] = f[n - 1] \o ss[n]
    BY <1>3, <2>1 DEF Joins
  <2>3. FlattenSeq(long) = f[n] /\ FlattenSeq(short) = g[m] /\ m = n - 1
    BY <1>1, <1>2, <1>3, <1>4
  <2> QED BY <1>7, <2>2, <2>3
<1> QED BY <1>8 DEF long, short

-----------------------------------------------------------------------------
(* What the conditions of a well-formed spend come to.                     *)

LEMMA MadeSeq ==
    ASSUME NEW n \in Nat, NEW f, f = [i \in 1..n |-> f[i]]
    PROVE  IsSeq(f) /\ Len(f) = n /\ DOMAIN f = 1..n
<1>1. DOMAIN f = 1..n
  BY SMT
<1>2. \A i \in 1..n : f[i] \in ToSet(f)
  BY <1>1 DEF ToSet
<1>3. [i \in 1..n |-> f[i]] \in Seq(ToSet(f))
  BY <1>2
<1> QED BY <1>1, <1>3 DEF IsSeq

LEMMA PickedSeq ==
    ASSUME NEW s, NEW at, IsSeq(s)
    PROVE  IsSeq(Picked(s, at)) /\ Picked(s, at) \in Seq(ToSet(s))
<1>1. s \in Seq(ToSet(s)) /\ Len(s) \in 0..Len(s)
  BY DEF IsSeq
<1>2. Picked(s, at) \in Seq(ToSet(s))
  BY <1>1, PickedIs
<1> QED BY <1>2, SeqIsSeq

(* Amounts are natural numbers.                                            *)
Priced(conds) ==
    /\ IsSeq(conds)
    /\ \A c \in ToSet(conds) : c.op \in {"create_coin", "reserve_fee"} => c.amount \in Nat

LEMMA AmountsAdd ==
    ASSUME NEW conds, Priced(conds)
    PROVE  Paid(conds) \in Nat /\ Reserved(conds) \in Nat
<1> DEFINE paid == [i \in DOMAIN conds |->
                      IF conds[i].op = "create_coin" THEN conds[i].amount ELSE 0]
           kept == [i \in DOMAIN conds |->
                      IF conds[i].op = "reserve_fee" THEN conds[i].amount ELSE 0]
<1>1. Len(conds) \in Nat /\ DOMAIN conds = 1..Len(conds)
  BY SeqIs DEF Priced
<1>2. \A i \in DOMAIN conds : conds[i] \in ToSet(conds)
  BY DEF ToSet
<1>3. paid \in Seq(Nat) /\ kept \in Seq(Nat)
  <2>1. \A i \in DOMAIN conds : conds[i].op \in {"create_coin", "reserve_fee"}
                                => conds[i].amount \in Nat
    BY <1>2 DEF Priced
  <2>2. paid \in [1..Len(conds) -> Nat] /\ kept \in [1..Len(conds) -> Nat]
    BY <1>1, <2>1
  <2> HIDE DEF paid, kept
  <2> QED BY <1>1, <2>2
<1>4. Paid(conds) = Total(paid) /\ Reserved(conds) = Total(kept)
  BY DEF Paid, Reserved, SumOver
<1> HIDE DEF paid, kept
<1> QED BY <1>3, <1>4, TotalNat

(* Where nothing is created nothing is paid.                               *)
LEMMA PaysNothing ==
    ASSUME NEW conds, IsSeq(conds), \A i \in DOMAIN conds : conds[i].op # "create_coin"
    PROVE  Paid(conds) = 0
<1> DEFINE paid == [i \in DOMAIN conds |->
                      IF conds[i].op = "create_coin" THEN conds[i].amount ELSE 0]
<1>1. Len(conds) \in Nat /\ DOMAIN conds = 1..Len(conds)
  BY SeqIs
<1>2. paid \in [1..Len(conds) -> {0}]
  BY <1>1
<1>3. Paid(conds) = Total(paid)
  BY DEF Paid, SumOver
<1> HIDE DEF paid
<1>4. paid \in Seq({0})
  BY <1>1, <1>2
<1> QED BY <1>3, <1>4, TotalZero

LEMMA InnerRunPriced ==
    ASSUME NEW s, Priced(s.conds)
    PROVE  Priced(InnerRun(s))
<1>1. CASE ~AsksSignature(s)
  BY <1>1 DEF InnerRun
<1>2. CASE AsksSignature(s)
  <2>1. PICK sig : /\ InnerRun(s) = <<sig>> \o s.conds
                   /\ sig.op = "agg_sig_me"
    BY <1>2 DEF InnerRun, AggSigMe
  <2>2. PICK X : X = ToSet(s.conds) \cup {sig}
    OBVIOUS
  <2>3. <<sig>> \in Seq(X) /\ s.conds \in Seq(ToSet(s.conds))
    BY <2>2 DEF Priced, IsSeq
  <2>4. s.conds \in Seq(X)
    BY <2>2, <2>3, SeqMonotonic
  <2>5. InnerRun(s) \in Seq(X)
    BY <2>1, <2>3, <2>4, ConcatProperties
  <2>6. IsSeq(InnerRun(s))
    BY <2>5, SeqIsSeq
  <2>7. ToSet(InnerRun(s)) \subseteq X
    BY <2>5 DEF ToSet
  <2> QED BY <2>1, <2>2, <2>6, <2>7 DEF Priced
<1> QED BY <1>1, <1>2

Wraps(s) == s.kind \in {"nft", "singleton", "option"}
Kept(s)  == Where(InnerRun(s), LAMBDA c : c.op \notin {"melt_singleton", "update_metadata"})

(* What the singleton layer makes of a condition.                          *)
Rewritten(c) == IF c.op = "create_coin" /\ c.amount % 2 = 1
                THEN CreateCoin(SingletonOf(c.ph), c.amount) ELSE c

LEMMA RunIs ==
    ASSUME NEW s
    PROVE  Run(s) = IF Wraps(s) THEN [i \in DOMAIN Kept(s) |-> Rewritten(Kept(s)[i])]
                                ELSE InnerRun(s)
BY DEF Run, Wraps, Kept, Rewritten

LEMMA RunPriced ==
    ASSUME NEW s, Priced(s.conds)
    PROVE  Priced(Run(s))
<1>1. Priced(InnerRun(s))
  BY InnerRunPriced
<1>2. CASE ~Wraps(s)
  BY <1>1, <1>2, RunIs
<1>3. CASE Wraps(s)
  <2>1. IsSeq(Kept(s)) /\ Kept(s) \in Seq(ToSet(InnerRun(s)))
    BY <1>1, PickedSeq DEF Priced, Kept, Where
  <2>2. Len(Kept(s)) \in Nat /\ DOMAIN Kept(s) = 1..Len(Kept(s))
    BY <2>1, SeqIs
  <2>3. Run(s) = [i \in 1..Len(Kept(s)) |-> Rewritten(Kept(s)[i])]
    BY <1>3, <2>2, RunIs
  <2>4. IsSeq(Run(s)) /\ DOMAIN Run(s) = 1..Len(Kept(s))
    <3>1. Run(s) = [i \in 1..Len(Kept(s)) |-> Run(s)[i]]
      BY <2>3
    <3> QED BY <2>2, <3>1, MadeSeq
  <2>5. ASSUME NEW c \in ToSet(Run(s)), c.op \in {"create_coin", "reserve_fee"}
        PROVE  c.amount \in Nat
    <3>1. PICK i \in 1..Len(Kept(s)) : c = Rewritten(Kept(s)[i])
      BY <2>3, <2>4 DEF ToSet
    <3>2. Kept(s)[i] \in ToSet(InnerRun(s))
      BY <2>1, <2>2, <3>1
    <3>3. CASE Kept(s)[i].op = "create_coin" /\ Kept(s)[i].amount % 2 = 1
      <4>1. c.amount = Kept(s)[i].amount
        BY <3>1, <3>3 DEF Rewritten, CreateCoin
      <4> QED BY <1>1, <3>2, <3>3, <4>1 DEF Priced
    <3>4. CASE ~(Kept(s)[i].op = "create_coin" /\ Kept(s)[i].amount % 2 = 1)
      <4>1. c = Kept(s)[i]
        BY <3>1, <3>4 DEF Rewritten
      <4> QED BY <1>1, <2>5, <3>2, <4>1 DEF Priced
    <3> QED BY <3>3, <3>4
  <2> QED BY <2>4, <2>5 DEF Priced
<1> QED BY <1>2, <1>3

Image(F, s) == [j \in DOMAIN s |-> F[s[j]]]
Extends(F, v, x) == Image(F, Append(v, x)) = Append(Image(F, v), F[x])

LEMMA ImageAppend ==
    ASSUME NEW X, NEW Z, NEW F \in [X -> Z], NEW v \in Seq(X), NEW x \in X
    PROVE  Extends(F, v, x)
<1>1. PICK K \in Nat : K = Len(v) /\ DOMAIN v = 1..K
  OBVIOUS
<1>2. Image(F, v) = [j \in 1..K |-> F[v[j]]] /\ F[x] \in Z
  BY <1>1 DEF Image
<1>3. \A j \in 1..K : F[v[j]] \in Z
  BY <1>1
<1>4. Image(F, v) \in Seq(Z) /\ Len(Image(F, v)) = K
  BY <1>2, <1>3
<1>5. Append(Image(F, v), F[x]) =
         [j \in 1..(K + 1) |-> IF j = K + 1 THEN F[x] ELSE Image(F, v)[j]]
  BY <1>4, <1>2
<1>6. /\ DOMAIN Append(v, x) = 1..(K + 1) /\ Append(v, x)[K + 1] = x
      /\ \A j \in 1..K : Append(v, x)[j] = v[j]
  BY <1>1
<1>7. Image(F, Append(v, x)) = [j \in 1..(K + 1) |-> F[Append(v, x)[j]]]
  BY <1>6 DEF Image
<1>8. \A j \in 1..(K + 1) :
         F[Append(v, x)[j]] = IF j = K + 1 THEN F[x] ELSE Image(F, v)[j]
  BY <1>2, <1>6
<1> QED BY <1>5, <1>7, <1>8 DEF Extends

(* Picking from what every element is turned into.                         *)
LEMMA PickedMapped ==
    ASSUME NEW X, NEW Z, NEW F \in [X -> Z], NEW s \in Seq(X), NEW t \in Seq(Z), NEW at,
           Len(t) = Len(s), \A i \in 1..Len(s) : t[i] = F[s[i]]
    PROVE  Picked(t, at) = Image(F, Picked(s, at))
<1>1. PICK L \in Nat : L = Len(s) /\ L = Len(t)
  OBVIOUS
<1>2. PICK f \in [0..Len(s) -> Seq(X)] : Picked(s, at) = f[Len(s)] /\ Picks(f, s, at)
  BY PickedIs
<1>3. PICK g \in [0..Len(t) -> Seq(Z)] : Picked(t, at) = g[Len(t)] /\ Picks(g, t, at)
  BY PickedIs
<1> DEFINE h == [n \in 0..L |-> Image(F, f[n])]
<1>4. g[0] = h[0]
  <2>1. g[0] = <<>> /\ f[0] = <<>> /\ 0 \in 0..L
    BY <1>2, <1>3 DEF Picks
  <2>2. Image(F, <<>>) = <<>>
    BY DEF Image
  <2> QED BY <2>1, <2>2
<1>5. ASSUME NEW n \in 1..L, g[n - 1] = h[n - 1]
      PROVE  g[n] = h[n]
  <2>1. n - 1 \in 0..L /\ n \in 0..L /\ n \in 1..Len(s) /\ n \in 1..Len(t)
    BY <1>1
  <2>2. PICK v \in Seq(X) : v = f[n - 1]
    BY <1>1, <1>2, <2>1
  <2>3. PICK x \in X : x = s[n]
    BY <2>1
  <2>4. g[n - 1] = Image(F, v) /\ h[n] = Image(F, f[n]) /\ t[n] = F[x]
    <3> QED BY <1>5, <2>1, <2>2, <2>3
  <2>5. Image(F, Append(v, x)) = Append(Image(F, v), F[x])
    <3>1. Extends(F, v, x)
      BY ImageAppend
    <3> QED BY <3>1 DEF Extends
  <2>6. CASE n \in at
    <3>1. f[n] = Append(v, x)
      BY <1>2, <2>1, <2>2, <2>3, <2>6 DEF Picks
    <3>2. g[n] = Append(Image(F, v), F[x])
      BY <1>3, <2>1, <2>4, <2>6 DEF Picks
    <3> QED BY <2>4, <2>5, <3>1, <3>2
  <2>7. CASE n \notin at
    <3>1. f[n] = v
      BY <1>2, <2>1, <2>2, <2>7 DEF Picks
    <3>2. g[n] = Image(F, v)
      BY <1>3, <2>1, <2>4, <2>7 DEF Picks
    <3> QED BY <2>4, <3>1, <3>2
  <2> QED BY <2>6, <2>7
<1>6. h[L] = Image(F, f[L])
  OBVIOUS
<1> HIDE DEF h
<1>7. g[L] = h[L]
  <2>1. Together(g, h, L) /\ L \in 0..L
    BY <1>4, <1>5 DEF Together
  <2>2. Agree(g, h, L)
    BY <2>1, SameStepsAgree
  <2> QED BY <2>1, <2>2 DEF Agree
<1>8. Picked(t, at) = Image(F, Picked(s, at))
  BY <1>1, <1>2, <1>3, <1>6, <1>7
<1> QED BY <1>8

(* What is picked passed the test.                                         *)
LEMMA PickedIn ==
    ASSUME NEW s, IsSeq(s), NEW at, NEW Z, \A i \in DOMAIN s : i \in at => s[i] \in Z
    PROVE  Picked(s, at) \in Seq(Z)
<1>1. PICK L \in Nat : L = Len(s) /\ DOMAIN s = 1..L
  BY SeqIs
<1>2. s \in Seq(ToSet(s))
  BY DEF IsSeq
<1>3. PICK f \in [0..Len(s) -> Seq(ToSet(s))] : Picked(s, at) = f[Len(s)] /\ Picks(f, s, at)
  BY <1>2, PickedIs
<1> DEFINE T == {n \in 0..L : f[n] \in Seq(Z)}
<1>4. 0 \in T
  BY <1>3 DEF Picks
<1>5. ASSUME NEW n \in 1..L, n - 1 \in T
      PROVE  n \in T
  <2>1. PICK v \in Seq(Z) : v = f[n - 1]
    BY <1>5
  <2>2. n \in 1..Len(s) /\ n \in DOMAIN s
    BY <1>1
  <2>3. CASE n \in at
    <3>1. PICK x \in Z : x = s[n]
      BY <2>2, <2>3
    <3>2. f[n] = Append(v, x)
      BY <1>3, <2>1, <2>2, <2>3, <3>1 DEF Picks
    <3>3. Append(v, x) \in Seq(Z)
      BY AppendProperties
    <3>4. f[n] \in Seq(Z)
      BY <3>2, <3>3, Zenon
    <3> QED BY <3>4
  <2>4. CASE n \notin at
    BY <1>3, <2>1, <2>2, <2>4 DEF Picks
  <2> QED BY <2>3, <2>4
<1> HIDE DEF T
<1>6. \A n \in 0..L : n \in T
  BY <1>4, <1>5, InductionUpTo
<1>7. L \in T
  BY <1>6
<1> QED BY <1>1, <1>3, <1>7 DEF T

-----------------------------------------------------------------------------
(* What a spend makes, and what its handler accounts for.                  *)

WellFormed(s) ==
    /\ Priced(s.conds)
    /\ AmountOf(s.coin) \in Nat
    /\ s.asset \in Assets \cup {XCH}
    /\ s.kind = "cat" <=> s.asset # XCH

Named(conds, asset) ==
    [i \in DOMAIN Creates(conds) |->
        Output(Creates(conds)[i].ph, Creates(conds)[i].amount, asset)]

(* What a handler says of the spend is what the network makes of it.       *)
Faithful(s, conds) == Named(conds, s.asset) = Made(s) /\ Paid(conds) = Paid(Run(s))

LEMMA PlainFaithful ==
    ASSUME NEW s, s.kind # "option"
    PROVE  Faithful(s, Run(s))
BY DEF Faithful, Named, Made, Payee

LEMMA CreatesAre ==
    ASSUME NEW conds, IsSeq(conds)
    PROVE  /\ IsSeq(Creates(conds))
           /\ Creates(conds) \in Seq({c \in ToSet(conds) : c.op = "create_coin"})
<1> DEFINE at == {i \in DOMAIN conds : conds[i].op = "create_coin"}
           Z  == {c \in ToSet(conds) : c.op = "create_coin"}
<1>1. Creates(conds) = Picked(conds, at)
  BY DEF Creates, Where
<1>2. \A i \in DOMAIN conds : i \in at => conds[i] \in Z
  BY DEF ToSet
<1> HIDE DEF at, Z
<1>3. Picked(conds, at) \in Seq(Z)
  BY <1>2, PickedIn
<1>4. IsSeq(Creates(conds))
  BY <1>1, <1>3, SeqIsSeq
<1> QED BY <1>1, <1>3, <1>4 DEF Z

LEMMA OptionFaithful ==
    ASSUME NEW s, WellFormed(s), IsOptionTransfer(s)
    PROVE  Faithful(s, InnerRun(s))
<1> DEFINE conds == InnerRun(s)
           X  == ToSet(conds)
           Z  == {Rewritten(c) : c \in X}
           F  == [c \in X |-> Rewritten(c)]
           at == {i \in DOMAIN conds : conds[i].op = "create_coin"}
<1>1. /\ IsSeq(conds) /\ Len(conds) \in Nat /\ DOMAIN conds = 1..Len(conds)
      /\ conds \in Seq(X)
  BY InnerRunPriced, SeqIs DEF WellFormed, Priced, IsSeq
<1>2. Only(TransferOps, conds) /\ OneOdd(conds) /\ s.kind = "option" /\ s.asset = XCH
  BY DEF IsOptionTransfer, WellFormed
<1> HIDE DEF conds
<1>3. Kept(s) = conds
  <2>1. \A i \in DOMAIN conds : conds[i].op \notin {"melt_singleton", "update_metadata"}
    BY <1>2 DEF Only, TransferOps, Benign
  <2>2. {i \in DOMAIN conds : conds[i].op \notin {"melt_singleton", "update_metadata"}}
        = 1..Len(conds)
    BY <1>1, <2>1
  <2>3. Kept(s) = Picked(conds, 1..Len(conds))
    BY <2>2 DEF Kept, Where, conds
  <2> QED BY <1>1, <2>3, PickedAll
<1>4. Run(s) = [i \in 1..Len(conds) |-> Rewritten(conds[i])]
  BY <1>1, <1>2, <1>3, RunIs DEF Wraps
<1>5. \A c : /\ Rewritten(c).op = c.op
             /\ c.op = "create_coin" => Rewritten(c).amount = c.amount
  BY DEF Rewritten, CreateCoin
<1>6. Paid(Run(s)) = Paid(conds)
  <2>1. [i \in DOMAIN Run(s) |-> IF Run(s)[i].op = "create_coin" THEN Run(s)[i].amount ELSE 0]
        = [i \in DOMAIN conds |-> IF conds[i].op = "create_coin" THEN conds[i].amount ELSE 0]
    BY <1>1, <1>4, <1>5
  <2> QED BY <2>1 DEF Paid, SumOver
<1>7. Creates(Run(s)) = Image(F, Creates(conds))
  <2>1. /\ Len(Run(s)) = Len(conds) /\ Run(s) \in Seq(Z)
        /\ \A i \in 1..Len(conds) : Run(s)[i] = F[conds[i]]
    <3>1. \A i \in 1..Len(conds) : conds[i] \in X
      BY <1>1
    <3>2. \A i \in 1..Len(conds) : Rewritten(conds[i]) \in Z
      BY <3>1
    <3> HIDE DEF X, Z
    <3>3. Run(s) \in Seq(Z) /\ Len(Run(s)) = Len(conds)
      BY <1>1, <1>4, <3>2
    <3> QED BY <1>4, <3>1, <3>3
  <2>2. {i \in DOMAIN Run(s) : Run(s)[i].op = "create_coin"} = at
    BY <1>1, <1>4, <1>5
  <2>3. Creates(Run(s)) = Picked(Run(s), at) /\ Creates(conds) = Picked(conds, at)
    BY <2>2 DEF Creates, Where
  <2>4. F \in [X -> Z]
    OBVIOUS
  <2> HIDE DEF F, X, Z, at
  <2> QED BY <1>1, <2>1, <2>3, <2>4, PickedMapped
<1>8. PICK c \in X : /\ c.op = "create_coin" /\ c.amount % 2 = 1
                     /\ DOMAIN Creates(conds) = {1} /\ Creates(conds)[1] = c
  <2>1. Creates(conds) \in Seq({c \in X : c.op = "create_coin"}) /\ Len(Creates(conds)) = 1
    BY <1>1, <1>2, CreatesAre DEF OneOdd
  <2>2. DOMAIN Creates(conds) = {1}
    BY <2>1
  <2>3. Creates(conds)[1] \in X /\ Creates(conds)[1].op = "create_coin"
    BY <2>1
  <2> QED BY <1>2, <2>2, <2>3 DEF OneOdd
<1>9. /\ DOMAIN Creates(Run(s)) = {1}
      /\ Creates(Run(s))[1] = CreateCoin(SingletonOf(c.ph), c.amount)
  BY <1>7, <1>8 DEF Image, Rewritten
<1>10. Payee(s, SingletonOf(c.ph)) = c.ph
  BY <1>2 DEF Payee, SingletonOf
<1>11. Made(s) = [i \in {1} |-> Output(c.ph, c.amount, s.asset)]
  BY <1>9, <1>10 DEF Made, CreateCoin
<1>12. Named(conds, s.asset) = [i \in {1} |-> Output(c.ph, c.amount, s.asset)]
  BY <1>8 DEF Named
<1> QED BY <1>6, <1>11, <1>12 DEF Faithful, conds

(* A melted singleton makes nothing.                                       *)
LEMMA MeltMakesNothing ==
    ASSUME NEW s, WellFormed(s), IsMelt(s)
    PROVE  Made(s) = <<>> /\ Paid(Run(s)) = 0
<1>1. IsSeq(Run(s))
  BY RunPriced DEF WellFormed, Priced
<1>2. \A i \in DOMAIN Run(s) : Run(s)[i].op # "create_coin"
  BY DEF IsMelt, Only, MeltOps, Benign
<1>3. Paid(Run(s)) = 0
  BY <1>1, <1>2, PaysNothing
<1>4. Creates(Run(s)) = <<>>
  <2>1. \A c \in ToSet(Run(s)) : c.op # "create_coin"
    BY <1>2 DEF ToSet
  <2>2. Creates(Run(s)) \in Seq({})
    BY <1>1, <2>1, CreatesAre
  <2> QED BY <2>2
<1>5. Made(s) = <<>>
  BY <1>4 DEF Made
<1> QED BY <1>3, <1>5

-----------------------------------------------------------------------------
(* What one spend adds to the ledger.                                      *)

Fields == {"outputs", "sinks", "fee", "melted", "melts", "in", "out", "nfts",
           "launches", "eveParents", "asserted", "bindings"}

IsLedger(l) ==
    /\ l = [f \in Fields |-> l[f]]
    /\ l.in \in [Assets \cup {XCH} -> Nat] /\ l.out \in [Assets \cup {XCH} -> Nat]
    /\ l.fee \in Nat /\ l.melted \in Nat

(* route_output, taken apart.                                              *)
Ordinary(made) == Where(made, LAMBDA o : ~IsProtocolSink(o.ph))
Sunk(made)     == Where(made, LAMBDA o : IsProtocolSink(o.ph))

(* old with more at its end.                                               *)
Grown(new, old, more) ==
    \/ new = old \o more
    \/ more = <<>> /\ new = old
    \/ \E x : more = <<x>> /\ new = Append(old, x)

(* The binding of a spend the settlement check looks at.                   *)
Bindable(s) == s.kind = "standard" \/ (s.kind = "cat" /\ s.inner = "standard")
Bound(s)    == IF Bindable(s) THEN {Binding(s, InnerRun(s))} ELSE {}

Adds(l, m, s) ==
    /\ m.in  = [l.in  EXCEPT ![s.asset] = @ + AmountOf(s.coin)]
    /\ m.out = [l.out EXCEPT ![s.asset] = @ + Paid(Run(s))]
    /\ Grown(m.outputs, l.outputs, Ordinary(Made(s)))
    /\ Grown(m.sinks, l.sinks, Sunk(Made(s)))
    /\ Grown(m.melts, l.melts, Melted(s))
    /\ Grown(m.nfts, l.nfts, Moved(s))
    /\ m.bindings = l.bindings \cup Bound(s)

LEMMA NothingRouted == Ordinary(<<>>) = <<>> /\ Sunk(<<>>) = <<>>
<1>1. IsSeq(<<>>) /\ ToSet(<<>>) = {}
  BY DEF IsSeq, ToSet
<1>2. \A at : Picked(<<>>, at) \in Seq({})
  BY <1>1, PickedSeq
<1>3. \A t \in Seq({}) : t = <<>>
  OBVIOUS
<1> QED BY <1>2, <1>3 DEF Ordinary, Sunk, Where

LEMMA EmptyIsLedger == IsLedger(EmptyLedger)
BY DEF IsLedger, EmptyLedger, Fields

LEMMA EntersDoes ==
    ASSUME NEW l, IsLedger(l), NEW a \in Assets \cup {XCH}, NEW n \in Nat
    PROVE  /\ IsLedger(Enters(l, a, n))
           /\ Enters(l, a, n).in = [l.in EXCEPT ![a] = @ + n]
           /\ \A f \in Fields \ {"in"} : Enters(l, a, n)[f] = l[f]
<1>1. PICK m : m = Enters(l, a, n)
  OBVIOUS
<1>2. m = [l EXCEPT !.in = [l.in EXCEPT ![a] = l.in[a] + n]]
  BY <1>1 DEF Enters
<1>3. l = [f \in Fields |-> l[f]] /\ "in" \in Fields
  BY DEF IsLedger, Fields
<1>4. m = [f \in Fields |-> IF f = "in" THEN [l.in EXCEPT ![a] = l.in[a] + n] ELSE l[f]]
  BY <1>2, <1>3
<1>5. m.in = [l.in EXCEPT ![a] = l.in[a] + n] /\ \A f \in Fields \ {"in"} : m[f] = l[f]
  BY <1>3, <1>4
<1>6. [l.in EXCEPT ![a] = l.in[a] + n] \in [Assets \cup {XCH} -> Nat]
  BY DEF IsLedger
<1>7. m = [f \in Fields |-> m[f]]
  BY <1>4
<1>8. m.out = l.out /\ m.fee = l.fee /\ m.melted = l.melted
  BY <1>5 DEF Fields
<1>9. IsLedger(m)
  BY <1>5, <1>6, <1>7, <1>8 DEF IsLedger
<1> QED BY <1>1, <1>5, <1>9

(* l after the outputs of some conditions.                                 *)
HasLeft(l, m, a, conds) ==
    /\ IsLedger(m)
    /\ m.out = [l.out EXCEPT ![a] = @ + Paid(conds)]
    /\ m.outputs = l.outputs \o Ordinary(Named(conds, a))
    /\ m.sinks = l.sinks \o Sunk(Named(conds, a))
    /\ \A f \in Fields \ {"out", "outputs", "sinks"} : m[f] = l[f]

LEMMA LeavesDoes ==
    ASSUME NEW l, IsLedger(l), NEW a \in Assets \cup {XCH}, NEW conds, Priced(conds)
    PROVE  HasLeft(l, Leaves(l, a, conds), a, conds)
<1>1. PICK m : m = Leaves(l, a, conds)
  OBVIOUS
<1>2. PICK o : o = l.outputs \o Ordinary(Named(conds, a))
  OBVIOUS
<1>3. PICK k : k = l.sinks \o Sunk(Named(conds, a))
  OBVIOUS
<1>4. PICK p \in Nat : p = Paid(conds)
  BY AmountsAdd
<1>5. PICK r : r = [l EXCEPT !.outputs = o, !.sinks = k]
  OBVIOUS
<1>6. m = [r EXCEPT !.out = [r.out EXCEPT ![a] = r.out[a] + p]]
  BY <1>1, <1>2, <1>3, <1>4, <1>5 DEF Leaves, Routed, Named, Ordinary, Sunk
<1>7. l = [f \in Fields |-> l[f]] /\ {"out", "outputs", "sinks"} \subseteq Fields
  BY DEF IsLedger, Fields
<1>8. r = [f \in Fields |-> IF f = "outputs" THEN o ELSE IF f = "sinks" THEN k ELSE l[f]]
  BY <1>5, <1>7
<1>9. r.out = l.out
  BY <1>7, <1>8
<1>10. m = [f \in Fields |-> IF f = "out" THEN [l.out EXCEPT ![a] = l.out[a] + p] ELSE r[f]]
  BY <1>6, <1>7, <1>8, <1>9
<1>11. /\ m.out = [l.out EXCEPT ![a] = l.out[a] + p] /\ m.outputs = o /\ m.sinks = k
       /\ \A f \in Fields \ {"out", "outputs", "sinks"} : m[f] = l[f]
  BY <1>7, <1>8, <1>10
<1>12. [l.out EXCEPT ![a] = l.out[a] + p] \in [Assets \cup {XCH} -> Nat]
  BY DEF IsLedger
<1>13. m = [f \in Fields |-> m[f]]
  BY <1>10
<1>14. m.in = l.in /\ m.fee = l.fee /\ m.melted = l.melted
  BY <1>11 DEF Fields
<1>15. IsLedger(m)
  BY <1>11, <1>12, <1>13, <1>14 DEF IsLedger
<1> QED BY <1>1, <1>2, <1>3, <1>4, <1>11, <1>15 DEF HasLeft

(* What most handlers do; bs are the bindings added.                       *)
Carried(l, m, s, bs) ==
    /\ IsLedger(m)
    /\ m.in  = [l.in  EXCEPT ![s.asset] = @ + AmountOf(s.coin)]
    /\ m.out = [l.out EXCEPT ![s.asset] = @ + Paid(Run(s))]
    /\ m.outputs = l.outputs \o Ordinary(Made(s))
    /\ m.sinks = l.sinks \o Sunk(Made(s))
    /\ m.melts = l.melts /\ m.nfts = l.nfts
    /\ m.bindings = l.bindings \cup bs

LEMMA EnterAndLeave ==
    ASSUME NEW l, IsLedger(l), NEW s, WellFormed(s), NEW conds, Priced(conds),
           Faithful(s, conds)
    PROVE  Carried(l, Leaves(Enters(l, s.asset, AmountOf(s.coin)), s.asset, conds), s, {})
<1>1. PICK e : e = Enters(l, s.asset, AmountOf(s.coin))
  OBVIOUS
<1>2. /\ IsLedger(e)
      /\ e.in = [l.in EXCEPT ![s.asset] = l.in[s.asset] + AmountOf(s.coin)]
      /\ \A f \in Fields \ {"in"} : e[f] = l[f]
  BY <1>1, EntersDoes DEF WellFormed
<1>3. PICK m : m = Leaves(e, s.asset, conds)
  OBVIOUS
<1>4. /\ IsLedger(m)
      /\ m.out = [e.out EXCEPT ![s.asset] = e.out[s.asset] + Paid(conds)]
      /\ m.outputs = e.outputs \o Ordinary(Named(conds, s.asset))
      /\ m.sinks = e.sinks \o Sunk(Named(conds, s.asset))
      /\ \A f \in Fields \ {"out", "outputs", "sinks"} : m[f] = e[f]
  <2>1. s.asset \in Assets \cup {XCH}
    BY DEF WellFormed
  <2>2. HasLeft(e, m, s.asset, conds)
    BY <1>2, <1>3, <2>1, LeavesDoes
  <2> QED BY <2>2 DEF HasLeft
<1>5. e.out = l.out /\ e.outputs = l.outputs /\ e.sinks = l.sinks
  BY <1>2 DEF Fields
<1>6. m.in = e.in /\ m.melts = l.melts /\ m.nfts = l.nfts /\ m.bindings = l.bindings
  BY <1>2, <1>4 DEF Fields
<1>7. Named(conds, s.asset) = Made(s) /\ Paid(conds) = Paid(Run(s))
  BY DEF Faithful
<1> QED BY <1>1, <1>2, <1>3, <1>4, <1>5, <1>6, <1>7 DEF Carried

(* n is m as far as value, outputs, melts, NFTs and bindings go.           *)
Alike(m, n) ==
    /\ IsLedger(n)
    /\ n.in = m.in /\ n.out = m.out /\ n.outputs = m.outputs /\ n.sinks = m.sinks
    /\ n.melts = m.melts /\ n.nfts = m.nfts /\ n.bindings = m.bindings

LEMMA AlikeCarries ==
    ASSUME NEW l, NEW m, NEW n, NEW s, NEW bs, Carried(l, m, s, bs), Alike(m, n)
    PROVE  Carried(l, n, s, bs)
BY DEF Carried, Alike

LEMMA CarriedLedger ==
    ASSUME NEW l, NEW m, NEW s, NEW bs, Carried(l, m, s, bs) PROVE IsLedger(m)
BY DEF Carried

LEMMA BindsDoes ==
    ASSUME NEW l, NEW m, NEW s, NEW conds, Carried(l, m, s, {})
    PROVE  Carried(l, Binds(m, s, conds), s, {Binding(s, conds)})
<1>1. PICK b : b = Binding(s, conds)
  OBVIOUS
<1>2. PICK x : x = m.bindings \cup {b}
  OBVIOUS
<1>3. PICK n : n = [m EXCEPT !.bindings = x]
  OBVIOUS
<1>4. n = Binds(m, s, conds)
  BY <1>1, <1>2, <1>3 DEF Binds
<1>5. /\ IsLedger(n) /\ n.bindings = x
      /\ n.in = m.in /\ n.out = m.out /\ n.outputs = m.outputs /\ n.sinks = m.sinks
      /\ n.melts = m.melts /\ n.nfts = m.nfts
  BY <1>3 DEF Carried, IsLedger, Fields
<1>6. n.bindings = l.bindings \cup {b}
  BY <1>2, <1>5 DEF Carried
<1>7. Carried(l, n, s, {b})
  BY <1>5, <1>6 DEF Carried
<1> QED BY <1>1, <1>4, <1>7

LEMMA AssertsAlike ==
    ASSUME NEW m, IsLedger(m), NEW conds
    PROVE  Alike(m, Asserts(m, conds))
<1>1. PICK x : x = m.asserted \cup
                   {<<c.coin, c.what>> : c \in {d \in ToSet(conds) : d.op = "assert_coin_ann"}}
  OBVIOUS
<1>2. PICK n : n = [m EXCEPT !.asserted = x]
  OBVIOUS
<1>3. n = Asserts(m, conds)
  BY <1>1, <1>2 DEF Asserts
<1>4. Alike(m, n)
  BY <1>2 DEF Alike, IsLedger, Fields
<1> QED BY <1>3, <1>4

LEMMA ReservesFeeAlike ==
    ASSUME NEW m, IsLedger(m), NEW conds, Priced(conds)
    PROVE  Alike(m, ReservesFee(m, conds))
<1>1. PICK x \in Nat : x = m.fee + Reserved(conds)
  BY AmountsAdd DEF IsLedger
<1>2. PICK n : n = [m EXCEPT !.fee = x]
  OBVIOUS
<1>3. n = ReservesFee(m, conds)
  BY <1>1, <1>2 DEF ReservesFee
<1>4. Alike(m, n)
  BY <1>2 DEF Alike, IsLedger, Fields
<1> QED BY <1>3, <1>4

LEMMA CarriedAdds ==
    ASSUME NEW l, NEW m, NEW s, Carried(l, m, s, Bound(s)), Melted(s) = <<>>, Moved(s) = <<>>
    PROVE  IsLedger(m) /\ Adds(l, m, s)
BY DEF Carried, Adds, Grown

(* The accounted ledger of a spend that melts and moves nothing.           *)
Accountable(s) == IsLedger(ledger) /\ WellFormed(s)
Accounted(m, s) == IsLedger(m) /\ Adds(ledger, m, s) /\ Accounts(m)

LEMMA PlainMade ==
    ASSUME NEW s, ~AsksSignature(s), ~Wraps(s)
    PROVE  Run(s) = s.conds
BY RunIs DEF InnerRun

LEMMA CatClaimAdds ==
    ASSUME Accountable(Spend), AccountCatClaim
    PROVE  \E m : Accounted(m, Spend)
<1>1. PICK s : s = Spend
  OBVIOUS
<1>2. WellFormed(s) /\ IsLedger(ledger) /\ IsCatClaim(s)
  BY <1>1 DEF Accountable, AccountCatClaim
<1>3. s.kind = "cat" /\ Run(s) = InnerRun(s) /\ Priced(InnerRun(s))
  BY <1>2, RunIs, InnerRunPriced DEF IsCatClaim, Wraps, WellFormed
<1>4. Faithful(s, InnerRun(s)) /\ Melted(s) = <<>> /\ Moved(s) = <<>> /\ Bound(s) = {}
  BY <1>2, <1>3, PlainFaithful DEF Melted, Moved, Bound, Bindable, IsCatClaim
<1>5. PICK m : m = Leaves(Enters(ledger, s.asset, AmountOf(s.coin)), s.asset, InnerRun(s))
  OBVIOUS
<1>6. IsLedger(m) /\ Adds(ledger, m, s)
  BY <1>2, <1>3, <1>4, <1>5, EnterAndLeave, CarriedAdds
<1>7. Accounts(m)
  BY <1>1, <1>5 DEF AccountCatClaim, CatIn
<1> QED BY <1>1, <1>6, <1>7 DEF Accounted

LEMMA CatSendAdds ==
    ASSUME Accountable(Spend), AccountCatSend
    PROVE  \E m : Accounted(m, Spend)
<1>1. PICK s : s = Spend
  OBVIOUS
<1>2. WellFormed(s) /\ IsLedger(ledger) /\ IsCatSend(s)
  BY <1>1 DEF Accountable, AccountCatSend
<1>3. s.kind = "cat" /\ Run(s) = InnerRun(s) /\ Priced(InnerRun(s))
  BY <1>2, RunIs, InnerRunPriced DEF IsCatSend, Wraps, WellFormed
<1>4. /\ Faithful(s, InnerRun(s)) /\ Melted(s) = <<>> /\ Moved(s) = <<>>
      /\ Bound(s) = {Binding(s, InnerRun(s))}
  BY <1>2, <1>3, PlainFaithful DEF Melted, Moved, Bound, Bindable, IsCatSend
<1>5. PICK m : m = Leaves(Enters(ledger, s.asset, AmountOf(s.coin)), s.asset, InnerRun(s))
  OBVIOUS
<1>6. Carried(ledger, m, s, {}) /\ IsLedger(m)
  BY <1>2, <1>3, <1>4, <1>5, EnterAndLeave, CarriedLedger
<1>7. Carried(ledger, Binds(m, s, InnerRun(s)), s, Bound(s))
  BY <1>4, <1>6, BindsDoes
<1>8. Accounts(Binds(m, s, InnerRun(s)))
  BY <1>1, <1>5 DEF AccountCatSend, CatIn
<1> QED BY <1>1, <1>4, <1>7, <1>8, CarriedAdds DEF Accounted

LEMMA OptionTransferAdds ==
    ASSUME Accountable(Spend), AccountOptionTransfer
    PROVE  \E m : Accounted(m, Spend)
<1>1. PICK s : s = Spend
  OBVIOUS
<1>2. WellFormed(s) /\ IsLedger(ledger) /\ IsOptionTransfer(s)
  BY <1>1 DEF Accountable, AccountOptionTransfer
<1>3. s.asset = XCH /\ s.kind = "option" /\ Priced(InnerRun(s))
  BY <1>2, InnerRunPriced DEF IsOptionTransfer, WellFormed
<1>4. Faithful(s, InnerRun(s)) /\ Melted(s) = <<>> /\ Moved(s) = <<>> /\ Bound(s) = {}
  BY <1>2, <1>3, OptionFaithful DEF Melted, Moved, Bound, Bindable
<1>5. PICK m : m = Leaves(Enters(ledger, s.asset, AmountOf(s.coin)), s.asset, InnerRun(s))
  OBVIOUS
<1>6. IsLedger(m) /\ Adds(ledger, m, s)
  BY <1>2, <1>3, <1>4, <1>5, EnterAndLeave, CarriedAdds
<1>7. Accounts(m)
  BY <1>1, <1>3, <1>5 DEF AccountOptionTransfer, XchIn
<1> QED BY <1>1, <1>6, <1>7 DEF Accounted

LEMMA StandardSendAdds ==
    ASSUME Accountable(Spend), AccountStandardSend
    PROVE  \E m : Accounted(m, Spend)
<1>1. PICK s : s = Spend
  OBVIOUS
<1>2. WellFormed(s) /\ IsLedger(ledger) /\ IsStandardSend(s)
  BY <1>1 DEF Accountable, AccountStandardSend
<1>3. s.kind = "standard" /\ s.asset = XCH /\ Run(s) = InnerRun(s) /\ Priced(InnerRun(s))
  BY <1>2, RunIs, InnerRunPriced DEF IsStandardSend, Wraps, WellFormed
<1>4. /\ Faithful(s, InnerRun(s)) /\ Melted(s) = <<>> /\ Moved(s) = <<>>
      /\ Bound(s) = {Binding(s, InnerRun(s))}
  BY <1>3, PlainFaithful DEF Melted, Moved, Bound, Bindable
<1>5. PICK conds : conds = InnerRun(s)
  OBVIOUS
<1>6. PICK m : m = Leaves(Enters(ledger, s.asset, AmountOf(s.coin)), s.asset, conds)
  OBVIOUS
<1>7. Carried(ledger, m, s, {}) /\ IsLedger(m)
  BY <1>2, <1>3, <1>4, <1>5, <1>6, EnterAndLeave, CarriedLedger
<1>8. PICK b : b = Binds(m, s, conds)
  OBVIOUS
<1>9. Carried(ledger, b, s, Bound(s)) /\ IsLedger(b)
  BY <1>4, <1>5, <1>7, <1>8, BindsDoes, CarriedLedger
<1>10. PICK a : a = Asserts(b, conds)
  OBVIOUS
<1>11. Carried(ledger, a, s, Bound(s)) /\ IsLedger(a)
  BY <1>9, <1>10, AssertsAlike, AlikeCarries, CarriedLedger
<1>12. Carried(ledger, ReservesFee(a, conds), s, Bound(s))
  BY <1>3, <1>5, <1>11, ReservesFeeAlike, AlikeCarries
<1>13. Accounts(ReservesFee(a, conds))
  BY <1>1, <1>3, <1>5, <1>6, <1>8, <1>10 DEF AccountStandardSend, XchIn
<1> QED BY <1>1, <1>4, <1>12, <1>13, CarriedAdds DEF Accounted

LEMMA SettlementClaimAdds ==
    ASSUME Accountable(Spend), AccountSettlementClaim
    PROVE  \E m : Accounted(m, Spend)
<1>1. PICK s : s = Spend
  OBVIOUS
<1>2. WellFormed(s) /\ IsLedger(ledger) /\ IsSettlementClaim(s)
  BY <1>1 DEF Accountable, AccountSettlementClaim
<1>3. s.asset = XCH /\ s.kind = "settlement" /\ Priced(s.conds)
  BY <1>2 DEF IsSettlementClaim, WellFormed
<1>4. Faithful(s, s.conds) /\ Melted(s) = <<>> /\ Moved(s) = <<>> /\ Bound(s) = {}
  BY <1>3, PlainMade, PlainFaithful DEF Melted, Moved, Bound, Bindable, AsksSignature, Wraps
<1>5. PICK m : m = Leaves(Enters(ledger, s.asset, AmountOf(s.coin)), s.asset, s.conds)
  OBVIOUS
<1>6. IsLedger(m) /\ Adds(ledger, m, s)
  BY <1>2, <1>3, <1>4, <1>5, EnterAndLeave, CarriedAdds
<1>7. Accounts(m)
  BY <1>1, <1>3, <1>5 DEF AccountSettlementClaim, XchIn
<1> QED BY <1>1, <1>6, <1>7 DEF Accounted

LEMMA LaunchAdds ==
    ASSUME Accountable(Spend), AccountSingletonLaunch
    PROVE  \E m : Accounted(m, Spend)
<1>1. PICK s : s = Spend
  OBVIOUS
<1>2. WellFormed(s) /\ IsLedger(ledger) /\ IsLaunch(s)
  BY <1>1 DEF Accountable, AccountSingletonLaunch
<1>3. s.asset = XCH /\ s.kind = "launcher" /\ Priced(s.conds)
  BY <1>2 DEF IsLaunch, WellFormed
<1>4. Faithful(s, s.conds) /\ Melted(s) = <<>> /\ Moved(s) = <<>> /\ Bound(s) = {}
  BY <1>3, PlainMade, PlainFaithful DEF Melted, Moved, Bound, Bindable, AsksSignature, Wraps
<1>5. PICK m : m = Leaves(Enters(ledger, s.asset, AmountOf(s.coin)), s.asset, s.conds)
  OBVIOUS
<1>6. Carried(ledger, m, s, Bound(s)) /\ IsLedger(m)
  BY <1>2, <1>3, <1>4, <1>5, EnterAndLeave, CarriedLedger
<1>7. PICK x : x = m.launches \cup
          {[coin |-> s.coin,
            announced |-> {c.what : c \in {d \in ToSet(s.conds) : d.op = "create_coin_ann"}}]}
  OBVIOUS
<1>8. PICK n : n = [m EXCEPT !.launches = x]
  OBVIOUS
<1>9. Alike(m, n)
  BY <1>6, <1>8 DEF Alike, IsLedger, Fields
<1>10. Carried(ledger, n, s, Bound(s))
  BY <1>6, <1>9, AlikeCarries
<1>11. Accounts(n)
  BY <1>1, <1>3, <1>5, <1>7, <1>8 DEF AccountSingletonLaunch, XchIn
<1> QED BY <1>1, <1>4, <1>10, <1>11, CarriedAdds DEF Accounted

(* An NFT is handed on once, to where its quoted conditions say.           *)
LEMMA MovesOnce ==
    ASSUME NEW s, WellFormed(s), s.kind = "nft", Rehomes(s)
    PROVE  Moved(s) = <<NftOperation(IF s.eve THEN "mint" ELSE "transfer", s)>>
<1>1. IsSeq(Creates(s.conds)) /\ Len(Creates(s.conds)) = 1
  BY CreatesAre DEF WellFormed, Priced, Rehomes, OneOdd
<1>2. DOMAIN Creates(s.conds) = 1..1
  BY <1>1, SeqIs
<1>3. Moved(s) = [i \in 1..1 |-> <<IF s.eve THEN "mint" ELSE "transfer", s.launcher,
                                  Creates(s.conds)[i].ph>>]
  BY <1>2 DEF Moved
<1>4. Moved(s) = <<<<IF s.eve THEN "mint" ELSE "transfer", s.launcher,
                     Creates(s.conds)[1].ph>>>>
  BY <1>3
<1> QED BY <1>4 DEF NftOperation, Destination

LEMMA CarriedMoves ==
    ASSUME NEW l, NEW m, NEW n, NEW s, NEW x, Carried(l, m, s, Bound(s)), Melted(s) = <<>>,
           Moved(s) = <<x>>, n = [m EXCEPT !.nfts = Append(m.nfts, x)]
    PROVE  IsLedger(n) /\ Adds(l, n, s)
<1>1. PICK y : y = Append(m.nfts, x)
  OBVIOUS
<1>2. n = [m EXCEPT !.nfts = y] /\ IsLedger(m)
  BY <1>1 DEF Carried
<1>3. /\ IsLedger(n) /\ n.nfts = y /\ n.bindings = m.bindings
      /\ n.in = m.in /\ n.out = m.out /\ n.outputs = m.outputs /\ n.sinks = m.sinks
      /\ n.melts = m.melts
  BY <1>2 DEF IsLedger, Fields
<1>4. Grown(n.nfts, l.nfts, Moved(s))
  BY <1>1, <1>3 DEF Grown, Carried
<1> QED BY <1>3, <1>4 DEF Carried, Adds, Grown

LEMMA NftTransferAdds ==
    ASSUME Accountable(Spend), AccountNftTransfer
    PROVE  \E m : Accounted(m, Spend)
<1>1. PICK s : s = Spend
  OBVIOUS
<1>2. WellFormed(s) /\ IsLedger(ledger) /\ IsNftTransfer(s)
  BY <1>1 DEF Accountable, AccountNftTransfer
<1>3. s.asset = XCH /\ s.kind = "nft" /\ ~s.eve /\ Rehomes(s) /\ Priced(Run(s))
  BY <1>2, RunPriced DEF IsNftTransfer, WellFormed
<1>4. /\ Faithful(s, Run(s)) /\ Melted(s) = <<>> /\ Bound(s) = {}
      /\ Moved(s) = <<NftOperation("transfer", s)>>
  BY <1>2, <1>3, PlainFaithful, MovesOnce DEF Melted, Bound, Bindable
<1>5. PICK m : m = Leaves(Enters(ledger, s.asset, AmountOf(s.coin)), s.asset, Run(s))
  OBVIOUS
<1>6. Carried(ledger, m, s, Bound(s))
  BY <1>2, <1>3, <1>4, <1>5, EnterAndLeave
<1>7. PICK n : n = [m EXCEPT !.nfts = Append(m.nfts, NftOperation("transfer", s))]
  OBVIOUS
<1>8. Accounts(n)
  BY <1>1, <1>3, <1>5, <1>7 DEF AccountNftTransfer, XchIn
<1> QED BY <1>1, <1>4, <1>6, <1>7, <1>8, CarriedMoves DEF Accounted

LEMMA NftEveMintAdds ==
    ASSUME Accountable(Spend), AccountNftEveMint
    PROVE  \E m : Accounted(m, Spend)
<1>1. PICK s : s = Spend
  OBVIOUS
<1>2. WellFormed(s) /\ IsLedger(ledger) /\ IsNftEveMint(s)
  BY <1>1 DEF Accountable, AccountNftEveMint
<1>3. s.asset = XCH /\ s.kind = "nft" /\ s.eve /\ Rehomes(s) /\ Priced(Run(s))
  BY <1>2, RunPriced DEF IsNftEveMint, WellFormed
<1>4. /\ Faithful(s, Run(s)) /\ Melted(s) = <<>> /\ Bound(s) = {}
      /\ Moved(s) = <<NftOperation("mint", s)>>
  BY <1>2, <1>3, PlainFaithful, MovesOnce DEF Melted, Bound, Bindable
<1>5. PICK m : m = Leaves(Enters(ledger, s.asset, AmountOf(s.coin)), s.asset, Run(s))
  OBVIOUS
<1>6. Carried(ledger, m, s, Bound(s)) /\ IsLedger(m)
  BY <1>2, <1>3, <1>4, <1>5, EnterAndLeave, CarriedLedger
<1>7. PICK e : e = [m EXCEPT !.eveParents = m.eveParents \cup {ParentOf(s.coin)}]
  OBVIOUS
<1>8. Alike(m, e)
  <2>1. PICK x : x = m.eveParents \cup {ParentOf(s.coin)}
    OBVIOUS
  <2> QED BY <1>6, <1>7, <2>1 DEF Alike, IsLedger, Fields
<1>9. Carried(ledger, e, s, Bound(s)) /\ e.nfts = m.nfts
  BY <1>6, <1>8, AlikeCarries DEF Alike
<1>10. PICK n : n = [e EXCEPT !.nfts = Append(e.nfts, NftOperation("mint", s))]
  OBVIOUS
<1>11. Accounts(n)
  <2>1. n = [m EXCEPT !.eveParents = m.eveParents \cup {ParentOf(s.coin)},
                      !.nfts = Append(m.nfts, NftOperation("mint", s))]
    BY <1>7, <1>9, <1>10
  <2>2. n = [m EXCEPT !.eveParents = @ \cup {ParentOf(s.coin)},
                      !.nfts = Append(@, NftOperation("mint", s))]
    BY <1>6, <1>9, <1>10, <1>7, <2>1 DEF IsLedger, Fields
  <2> QED BY <1>1, <1>3, <1>5, <2>2 DEF AccountNftEveMint, XchIn
<1> QED BY <1>1, <1>4, <1>9, <1>10, <1>11, CarriedMoves DEF Accounted

LEMMA MeltAdds ==
    ASSUME Accountable(Spend), AccountSingletonMelt
    PROVE  \E m : Accounted(m, Spend)
<1>1. PICK s : s = Spend
  OBVIOUS
<1>2. WellFormed(s) /\ IsLedger(ledger) /\ IsMelt(s)
  BY <1>1 DEF Accountable, AccountSingletonMelt
<1>3. s.asset = XCH /\ s.kind = "singleton" /\ AmountOf(s.coin) \in Nat
  BY <1>2 DEF IsMelt, WellFormed
<1>4. Made(s) = <<>> /\ Paid(Run(s)) = 0
  BY <1>2, MeltMakesNothing
<1>5. Moved(s) = <<>> /\ Melted(s) = <<s.coin>> /\ Bound(s) = {}
  <2>1. \E c \in ToSet(s.conds) : c.op = "melt_singleton"
    <3>1. Cardinality({i \in DOMAIN s.conds : s.conds[i].op = "melt_singleton"}) = 1
      BY <1>2 DEF IsMelt
    <3>2. {i \in DOMAIN s.conds : s.conds[i].op = "melt_singleton"} # {}
      BY <3>1, FS_EmptySet
    <3> QED BY <3>2 DEF ToSet
  <2> QED BY <1>3, <2>1 DEF Moved, Melted, Bound, Bindable
<1>6. PICK e : e = Enters(ledger, XCH, AmountOf(s.coin))
  OBVIOUS
<1>7. /\ IsLedger(e) /\ e.in = [ledger.in EXCEPT ![XCH] = ledger.in[XCH] + AmountOf(s.coin)]
      /\ \A f \in Fields \ {"in"} : e[f] = ledger[f]
  BY <1>2, <1>3, <1>6, EntersDoes
<1>8. /\ e.out = ledger.out /\ e.outputs = ledger.outputs /\ e.sinks = ledger.sinks
      /\ e.melts = ledger.melts /\ e.nfts = ledger.nfts /\ e.bindings = ledger.bindings
  BY <1>7 DEF Fields
<1>9. PICK k \in Nat : k = e.melted + AmountOf(s.coin)
  BY <1>3, <1>7 DEF IsLedger
<1>10. PICK v : v = Append(e.melts, s.coin)
  OBVIOUS
<1>11. PICK m : m = [e EXCEPT !.melted = k, !.melts = v]
  OBVIOUS
<1>12. /\ IsLedger(m) /\ m.melts = v
       /\ m.in = e.in /\ m.out = e.out /\ m.outputs = e.outputs /\ m.sinks = e.sinks
       /\ m.nfts = e.nfts /\ m.bindings = e.bindings
  BY <1>7, <1>11 DEF IsLedger, Fields
<1>13. Grown(m.melts, ledger.melts, Melted(s))
  BY <1>5, <1>8, <1>10, <1>12 DEF Grown
<1>14. Ordinary(<<>>) = <<>> /\ Sunk(<<>>) = <<>>
  BY NothingRouted
<1>15. m.out = [ledger.out EXCEPT ![XCH] = ledger.out[XCH] + 0]
  <2>1. PICK g \in [Assets \cup {XCH} -> Nat] : g = ledger.out
    BY <1>2 DEF IsLedger
  <2>2. g[XCH] + 0 = g[XCH] /\ [g EXCEPT ![XCH] = g[XCH]] = g
    OBVIOUS
  <2> QED BY <1>8, <1>12, <2>1, <2>2
<1>16. Adds(ledger, m, s)
  BY <1>3, <1>4, <1>5, <1>7, <1>8, <1>12, <1>13, <1>14, <1>15 DEF Adds, Grown
<1>17. Accounts(m)
  BY <1>1, <1>6, <1>9, <1>10, <1>11 DEF AccountSingletonMelt, XchIn
<1> QED BY <1>1, <1>12, <1>16, <1>17 DEF Accounted

LEMMA HandlersAdd ==
    ASSUME Accountable(Spend),
           \/ AccountCatClaim \/ AccountCatSend \/ AccountOptionTransfer
           \/ AccountSingletonLaunch \/ AccountNft
           \/ AccountSingletonMelt \/ AccountStandardSend \/ AccountSettlementClaim
    PROVE  \E m : Accounted(m, Spend)
BY CatClaimAdds, CatSendAdds, OptionTransferAdds, LaunchAdds, NftTransferAdds,
   NftEveMintAdds, MeltAdds, StandardSendAdds, SettlementClaimAdds DEF AccountNft

-----------------------------------------------------------------------------
(* The ledger after the first n spends, as the properties count them.      *)

InUpTo(spends, a, n)  == Total([i \in 1..n |-> IF spends[i].asset = a
                                       THEN AmountOf(spends[i].coin) ELSE 0])
OutUpTo(spends, a, n) == Total([i \in 1..n |-> IF spends[i].asset = a
                                       THEN Paid(Run(spends[i])) ELSE 0])
MadeUpTo(spends, n)   == FlattenSeq([i \in 1..n |-> Made(spends[i])])
MeltsUpTo(spends, n)  == FlattenSeq([i \in 1..n |-> Melted(spends[i])])
MovesUpTo(spends, n)  == FlattenSeq([i \in 1..n |-> Moved(spends[i])])

Balances(spends, l, n) ==
    /\ IsLedger(l)
    /\ \A a \in Assets \cup {XCH} : l.in[a] = InUpTo(spends, a, n) /\ l.out[a] = OutUpTo(spends, a, n)
Records(spends, l, n) ==
    /\ l.outputs = Ordinary(MadeUpTo(spends, n)) /\ l.sinks = Sunk(MadeUpTo(spends, n))
    /\ l.melts = MeltsUpTo(spends, n) /\ l.nfts = MovesUpTo(spends, n)

SoundBundle(spends) == IsSeq(spends) /\ \A i \in DOMAIN spends : WellFormed(spends[i])

LEMMA UpToStep ==
    ASSUME NEW spends, SoundBundle(spends), NEW n \in 1..Len(spends),
           NEW a \in Assets \cup {XCH}
    PROVE  LET s == spends[n]
           IN  /\ InUpTo(spends, a, n) = InUpTo(spends, a, n - 1) + (IF s.asset = a THEN AmountOf(s.coin) ELSE 0)
               /\ OutUpTo(spends, a, n) = OutUpTo(spends, a, n - 1) + (IF s.asset = a THEN Paid(Run(s)) ELSE 0)
<1> DEFINE ins  == [i \in 1..Len(spends) |-> IF spends[i].asset = a
                                       THEN AmountOf(spends[i].coin) ELSE 0]
           outs == [i \in 1..Len(spends) |-> IF spends[i].asset = a
                                       THEN Paid(Run(spends[i])) ELSE 0]
<1>1. PICK L \in Nat : L = Len(spends) /\ DOMAIN spends = 1..L
  BY SeqIs DEF SoundBundle
<1>2. \A i \in 1..L : /\ AmountOf(spends[i].coin) \in Nat
                      /\ Paid(Run(spends[i])) \in Nat
  BY <1>1, RunPriced, AmountsAdd DEF SoundBundle, WellFormed
<1>3. ins \in Seq(Nat) /\ outs \in Seq(Nat) /\ Len(ins) = L /\ Len(outs) = L
  <2>1. ins \in [1..L -> Nat] /\ outs \in [1..L -> Nat]
    BY <1>1, <1>2
  <2> HIDE DEF ins, outs
  <2> QED BY <2>1
<1>4. /\ \A m \in 0..n : [i \in 1..m |-> ins[i]] = [i \in 1..m |->
            IF spends[i].asset = a THEN AmountOf(spends[i].coin) ELSE 0]
      /\ \A m \in 0..n : [i \in 1..m |-> outs[i]] = [i \in 1..m |->
            IF spends[i].asset = a THEN Paid(Run(spends[i])) ELSE 0]
  BY <1>1
<1>5. n \in 0..n /\ n - 1 \in 0..n
  BY <1>1
<1>6. /\ ins[n] = IF spends[n].asset = a THEN AmountOf(spends[n].coin) ELSE 0
      /\ outs[n] = IF spends[n].asset = a THEN Paid(Run(spends[n])) ELSE 0
  OBVIOUS
<1> HIDE DEF ins, outs
<1>7. /\ InUpTo(spends, a, n) = Total([i \in 1..n |-> ins[i]])
      /\ InUpTo(spends, a, n - 1) = Total([i \in 1..(n - 1) |-> ins[i]])
      /\ OutUpTo(spends, a, n) = Total([i \in 1..n |-> outs[i]])
      /\ OutUpTo(spends, a, n - 1) = Total([i \in 1..(n - 1) |-> outs[i]])
  BY <1>4, <1>5 DEF InUpTo, OutUpTo
<1>8. /\ Total([i \in 1..n |-> ins[i]]) = Total([i \in 1..(n - 1) |-> ins[i]]) + ins[n]
      /\ Total([i \in 1..n |-> outs[i]]) = Total([i \in 1..(n - 1) |-> outs[i]]) + outs[n]
  BY <1>1, <1>3, TotalStep
<1> QED BY <1>6, <1>7, <1>8

LEMMA BalancesStep ==
    ASSUME NEW spends, SoundBundle(spends), NEW n \in 1..Len(spends),
           NEW l, NEW m, Balances(spends, l, n - 1), IsLedger(m), Adds(l, m, spends[n])
    PROVE  Balances(spends, m, n)
<1>1. PICK s : s = spends[n]
  OBVIOUS
<1>2. WellFormed(s)
  BY <1>1, SeqIs DEF SoundBundle
<1>3. s.asset \in Assets \cup {XCH} /\ AmountOf(s.coin) \in Nat /\ Paid(Run(s)) \in Nat
  BY <1>2, RunPriced, AmountsAdd DEF WellFormed
<1>4. ASSUME NEW a \in Assets \cup {XCH}
      PROVE  m.in[a] = InUpTo(spends, a, n) /\ m.out[a] = OutUpTo(spends, a, n)
  <2>1. /\ InUpTo(spends, a, n) = InUpTo(spends, a, n - 1) + (IF s.asset = a THEN AmountOf(s.coin) ELSE 0)
        /\ OutUpTo(spends, a, n) = OutUpTo(spends, a, n - 1) + (IF s.asset = a THEN Paid(Run(s)) ELSE 0)
    BY <1>1, UpToStep
  <2>2. l.in[a] = InUpTo(spends, a, n - 1) /\ l.out[a] = OutUpTo(spends, a, n - 1)
    BY DEF Balances
  <2>3. /\ m.in = [l.in EXCEPT ![s.asset] = l.in[s.asset] + AmountOf(s.coin)]
        /\ m.out = [l.out EXCEPT ![s.asset] = l.out[s.asset] + Paid(Run(s))]
    BY <1>1 DEF Adds
  <2>4. l.in \in [Assets \cup {XCH} -> Nat] /\ l.out \in [Assets \cup {XCH} -> Nat]
    BY DEF Balances, IsLedger
  <2> QED BY <1>3, <2>1, <2>2, <2>3, <2>4
<1> QED BY <1>4 DEF Balances

LEMMA EmptyBalances == \A spends : Balances(spends, EmptyLedger, 0)
<1> SUFFICES ASSUME NEW spends
             PROVE  Balances(spends, EmptyLedger, 0)
  OBVIOUS
<1>1. ASSUME NEW a \in Assets \cup {XCH}
      PROVE  InUpTo(spends, a, 0) = 0 /\ OutUpTo(spends, a, 0) = 0
  <2>1. /\ [i \in 1..0 |-> IF spends[i].asset = a THEN AmountOf(spends[i].coin) ELSE 0]
           \in Seq({0})
        /\ [i \in 1..0 |-> IF spends[i].asset = a THEN Paid(Run(spends[i])) ELSE 0]
           \in Seq({0})
    OBVIOUS
  <2> QED BY <2>1, TotalZero DEF InUpTo, OutUpTo
<1>2. \A a \in Assets \cup {XCH} : EmptyLedger.in[a] = 0 /\ EmptyLedger.out[a] = 0
  BY DEF EmptyLedger
<1> QED BY <1>1, <1>2, EmptyIsLedger DEF Balances

LEMMA FlattenUpTo ==
    ASSUME NEW ss, IsSeq(ss), \A i \in DOMAIN ss : IsSeq(ss[i]), NEW n \in 1..Len(ss)
    PROVE  /\ IsSeq(FlattenSeq([i \in 1..(n - 1) |-> ss[i]]))
           /\ FlattenSeq([i \in 1..n |-> ss[i]])
              = FlattenSeq([i \in 1..(n - 1) |-> ss[i]]) \o ss[n]
<1>1. PICK L \in Nat : L = Len(ss) /\ DOMAIN ss = 1..L
  BY SeqIs
<1> DEFINE X == UNION {ToSet(ss[i]) : i \in 1..L}
<1>2. ASSUME NEW i \in 1..L PROVE ss[i] \in Seq(X)
  <2>1. ss[i] \in Seq(ToSet(ss[i]))
    BY <1>1 DEF IsSeq
  <2>2. ToSet(ss[i]) \subseteq X
    OBVIOUS
  <2> HIDE DEF X
  <2> QED BY <2>1, <2>2, SeqMonotonic
<1> HIDE DEF X
<1>3. ss \in Seq(Seq(X))
  <2>1. ss = [i \in 1..L |-> ss[i]]
    BY <1>1, SeqIs
  <2>2. ss \in [1..L -> Seq(X)]
    BY <1>2, <2>1
  <2> QED BY <2>2
<1>4. [i \in 1..(n - 1) |-> ss[i]] \in Seq(Seq(X))
  <2>1. PICK m \in Nat : m = n - 1 /\ 1..m \subseteq 1..L
    BY <1>1
  <2>2. [i \in 1..m |-> ss[i]] \in [1..m -> Seq(X)]
    BY <1>2, <2>1
  <2> QED BY <2>1, <2>2
<1>5. FlattenSeq([i \in 1..(n - 1) |-> ss[i]]) \in Seq(X)
  BY <1>4, FlattenType
<1>6. IsSeq(FlattenSeq([i \in 1..(n - 1) |-> ss[i]]))
  BY <1>5, SeqIsSeq
<1>7. FlattenSeq([i \in 1..n |-> ss[i]])
      = FlattenSeq([i \in 1..(n - 1) |-> ss[i]]) \o ss[n]
  BY <1>3, FlattenStep
<1> QED BY <1>6, <1>7

Joined(new, old, more) == new = old \o more

LEMMA GrownJoined ==
    ASSUME NEW new, NEW old, NEW more, IsSeq(old), Grown(new, old, more)
    PROVE  Joined(new, old, more)
<1>1. old \in Seq(ToSet(old))
  BY DEF IsSeq
<1>2. CASE more = <<>> /\ new = old
  BY <1>1, <1>2 DEF Joined
<1>3. CASE \E x : more = <<x>> /\ new = Append(old, x)
  <2>1. PICK x : more = <<x>> /\ new = Append(old, x)
    BY <1>3
  <2>2. old \in Seq(ToSet(old) \cup {x})
    BY <1>1, SeqMonotonic
  <2>3. Append(old, x) = old \o <<x>>
    BY <2>2, AppendIsConcat
  <2> QED BY <2>1, <2>3 DEF Joined
<1> QED BY <1>2, <1>3 DEF Grown, Joined

Routes(s, t) ==
    /\ Ordinary(s \o t) = Ordinary(s) \o Ordinary(t)
    /\ Sunk(s \o t) = Sunk(s) \o Sunk(t)

LEMMA RoutedConcat == ASSUME NEW s, NEW t, IsSeq(s), IsSeq(t) PROVE Routes(s, t)
<1> DEFINE X == ToSet(s) \cup ToSet(t)
           ord(v) == {i \in DOMAIN v : ~IsProtocolSink(v[i].ph)}
           snk(v) == {i \in DOMAIN v : IsProtocolSink(v[i].ph)}
<1>1. s \in Seq(X) /\ t \in Seq(X)
  BY SeqMonotonic DEF IsSeq
<1> HIDE DEF X
<1>2. PICK u : u = s \o t
  OBVIOUS
<1>3. /\ DOMAIN s = 1..Len(s) /\ DOMAIN t = 1..Len(t) /\ Len(s) \in Nat /\ Len(t) \in Nat
      /\ DOMAIN u = 1..(Len(s) + Len(t))
      /\ \A i \in 1..Len(s) : u[i] = s[i]
      /\ \A i \in 1..Len(t) : u[Len(s) + i] = t[i]
  BY <1>1, <1>2
<1>4. /\ \A i \in 1..Len(s) : i \in ord(u) <=> i \in ord(s)
      /\ \A i \in 1..Len(t) : Len(s) + i \in ord(u) <=> i \in ord(t)
  BY <1>3
<1>5. /\ \A i \in 1..Len(s) : i \in snk(u) <=> i \in snk(s)
      /\ \A i \in 1..Len(t) : Len(s) + i \in snk(u) <=> i \in snk(t)
  BY <1>3
<1> HIDE DEF ord, snk
<1>6. Picked(s \o t, ord(u)) = Picked(s, ord(s)) \o Picked(t, ord(t))
  BY <1>1, <1>4, PickedConcat
<1>7. Picked(s \o t, snk(u)) = Picked(s, snk(s)) \o Picked(t, snk(t))
  BY <1>1, <1>5, PickedConcat
<1> QED BY <1>2, <1>6, <1>7 DEF Ordinary, Sunk, Where, Routes, ord, snk

LEMMA ActsAreSeqs ==
    ASSUME NEW s, WellFormed(s)
    PROVE  IsSeq(Made(s)) /\ IsSeq(Melted(s)) /\ IsSeq(Moved(s))
<1>1. IsSeq(Creates(Run(s))) /\ IsSeq(Creates(s.conds))
  BY RunPriced, CreatesAre DEF WellFormed, Priced
<1>2. IsSeq(<<>>) /\ IsSeq(<<s.coin>>)
  <2>1. <<>> \in Seq({s.coin}) /\ <<s.coin>> \in Seq({s.coin})
    OBVIOUS
  <2> QED BY <2>1, SeqIsSeq
<1>3. IsSeq(Made(s))
  <2>1. PICK n \in Nat : DOMAIN Creates(Run(s)) = 1..n
    BY <1>1, SeqIs
  <2>2. Made(s) = [i \in 1..n |-> Made(s)[i]]
    BY <2>1 DEF Made
  <2> QED BY <2>2, MadeSeq
<1>4. IsSeq(Melted(s))
  BY <1>2 DEF Melted
<1>5. IsSeq(Moved(s))
  <2>1. CASE s.kind # "nft"
    BY <1>2, <2>1 DEF Moved
  <2>2. CASE s.kind = "nft"
    <3>1. PICK n \in Nat : DOMAIN Creates(s.conds) = 1..n
      BY <1>1, SeqIs
    <3>2. Moved(s) = [i \in 1..n |-> Moved(s)[i]]
      BY <2>2, <3>1 DEF Moved
    <3> QED BY <3>2, MadeSeq
  <2> QED BY <2>1, <2>2
<1> QED BY <1>3, <1>4, <1>5

LEMMA ActsUpTo ==
    ASSUME NEW spends, SoundBundle(spends), NEW n \in 1..Len(spends)
    PROVE  /\ IsSeq(MadeUpTo(spends, n - 1)) /\ IsSeq(MeltsUpTo(spends, n - 1))
           /\ IsSeq(MovesUpTo(spends, n - 1))
           /\ MadeUpTo(spends, n) = MadeUpTo(spends, n - 1) \o Made(spends[n])
           /\ MeltsUpTo(spends, n) = MeltsUpTo(spends, n - 1) \o Melted(spends[n])
           /\ MovesUpTo(spends, n) = MovesUpTo(spends, n - 1) \o Moved(spends[n])
<1>1. PICK L \in Nat : L = Len(spends) /\ DOMAIN spends = 1..L
  BY SeqIs DEF SoundBundle
<1> DEFINE made  == [i \in 1..L |-> Made(spends[i])]
           melts == [i \in 1..L |-> Melted(spends[i])]
           moves == [i \in 1..L |-> Moved(spends[i])]
<1>2. \A i \in 1..L : IsSeq(Made(spends[i])) /\ IsSeq(Melted(spends[i])) /\ IsSeq(Moved(spends[i]))
  BY <1>1, ActsAreSeqs DEF SoundBundle
<1>3. /\ IsSeq(made)  /\ Len(made) = L  /\ DOMAIN made = 1..L
      /\ IsSeq(melts) /\ Len(melts) = L /\ DOMAIN melts = 1..L
      /\ IsSeq(moves) /\ Len(moves) = L /\ DOMAIN moves = 1..L
  <2>1. /\ made = [i \in 1..L |-> made[i]] /\ melts = [i \in 1..L |-> melts[i]]
        /\ moves = [i \in 1..L |-> moves[i]]
    OBVIOUS
  <2> HIDE DEF made, melts, moves
  <2> QED BY <2>1, MadeSeq
<1>4. \A i \in 1..L : made[i] = Made(spends[i]) /\ melts[i] = Melted(spends[i])
                      /\ moves[i] = Moved(spends[i])
  OBVIOUS
<1>5. \A m \in 0..n : /\ [i \in 1..m |-> made[i]] = [i \in 1..m |-> Made(spends[i])]
                      /\ [i \in 1..m |-> melts[i]] = [i \in 1..m |-> Melted(spends[i])]
                      /\ [i \in 1..m |-> moves[i]] = [i \in 1..m |-> Moved(spends[i])]
  BY <1>1
<1> HIDE DEF made, melts, moves
<1>6. n \in 0..n /\ n - 1 \in 0..n /\ n \in 1..L
  BY <1>1
<1>7. /\ IsSeq(FlattenSeq([i \in 1..(n - 1) |-> made[i]]))
      /\ FlattenSeq([i \in 1..n |-> made[i]])
         = FlattenSeq([i \in 1..(n - 1) |-> made[i]]) \o made[n]
  BY <1>2, <1>3, <1>4, <1>6, FlattenUpTo
<1>8. /\ IsSeq(FlattenSeq([i \in 1..(n - 1) |-> melts[i]]))
      /\ FlattenSeq([i \in 1..n |-> melts[i]])
         = FlattenSeq([i \in 1..(n - 1) |-> melts[i]]) \o melts[n]
  BY <1>2, <1>3, <1>4, <1>6, FlattenUpTo
<1>9. /\ IsSeq(FlattenSeq([i \in 1..(n - 1) |-> moves[i]]))
      /\ FlattenSeq([i \in 1..n |-> moves[i]])
         = FlattenSeq([i \in 1..(n - 1) |-> moves[i]]) \o moves[n]
  BY <1>2, <1>3, <1>4, <1>6, FlattenUpTo
<1> QED BY <1>4, <1>5, <1>6, <1>7, <1>8, <1>9 DEF MadeUpTo, MeltsUpTo, MovesUpTo

LEMMA RoutedSeqs == ASSUME NEW s, IsSeq(s) PROVE IsSeq(Ordinary(s)) /\ IsSeq(Sunk(s))
BY PickedSeq DEF Ordinary, Sunk, Where

LEMMA RecordsStep ==
    ASSUME NEW spends, SoundBundle(spends), NEW n \in 1..Len(spends),
           NEW l, NEW m, Records(spends, l, n - 1), Adds(l, m, spends[n])
    PROVE  Records(spends, m, n)
<1>1. PICK s : s = spends[n]
  OBVIOUS
<1>2. WellFormed(s)
  BY <1>1, SeqIs DEF SoundBundle
<1>3. IsSeq(Made(s)) /\ IsSeq(Melted(s)) /\ IsSeq(Moved(s))
  BY <1>2, ActsAreSeqs
<1>4. /\ IsSeq(MadeUpTo(spends, n - 1)) /\ IsSeq(MeltsUpTo(spends, n - 1))
      /\ IsSeq(MovesUpTo(spends, n - 1))
      /\ MadeUpTo(spends, n) = MadeUpTo(spends, n - 1) \o Made(s)
      /\ MeltsUpTo(spends, n) = MeltsUpTo(spends, n - 1) \o Melted(s)
      /\ MovesUpTo(spends, n) = MovesUpTo(spends, n - 1) \o Moved(s)
  BY <1>1, ActsUpTo
<1>5. /\ Ordinary(MadeUpTo(spends, n)) = l.outputs \o Ordinary(Made(s))
      /\ Sunk(MadeUpTo(spends, n)) = l.sinks \o Sunk(Made(s))
  <2>1. Routes(MadeUpTo(spends, n - 1), Made(s))
    BY <1>3, <1>4, RoutedConcat
  <2> QED BY <1>4, <2>1 DEF Records, Routes
<1>6. IsSeq(l.outputs) /\ IsSeq(l.sinks) /\ IsSeq(l.melts) /\ IsSeq(l.nfts)
  BY <1>4, RoutedSeqs DEF Records
<1>7. /\ Grown(m.outputs, l.outputs, Ordinary(Made(s))) /\ Grown(m.sinks, l.sinks, Sunk(Made(s)))
      /\ Grown(m.melts, l.melts, Melted(s)) /\ Grown(m.nfts, l.nfts, Moved(s))
  BY <1>1 DEF Adds
<1>8. m.outputs = l.outputs \o Ordinary(Made(s)) /\ m.sinks = l.sinks \o Sunk(Made(s))
  <2>1. /\ Joined(m.outputs, l.outputs, Ordinary(Made(s)))
        /\ Joined(m.sinks, l.sinks, Sunk(Made(s)))
    BY <1>6, <1>7, GrownJoined
  <2> QED BY <2>1 DEF Joined
<1>9. m.melts = l.melts \o Melted(s) /\ m.nfts = l.nfts \o Moved(s)
  <2>1. Joined(m.melts, l.melts, Melted(s)) /\ Joined(m.nfts, l.nfts, Moved(s))
    BY <1>6, <1>7, GrownJoined
  <2> QED BY <2>1 DEF Joined
<1> QED BY <1>4, <1>5, <1>8, <1>9 DEF Records

LEMMA EmptyRecords == \A spends : Records(spends, EmptyLedger, 0)
<1> SUFFICES ASSUME NEW spends
             PROVE  Records(spends, EmptyLedger, 0)
  OBVIOUS
<1>1. /\ [i \in 1..0 |-> Made(spends[i])] = <<>> /\ [i \in 1..0 |-> Melted(spends[i])] = <<>>
      /\ [i \in 1..0 |-> Moved(spends[i])] = <<>>
  OBVIOUS
<1>2. FlattenSeq(<<>>) = <<>>
  BY DEF FlattenSeq
<1>3. Ordinary(<<>>) = <<>> /\ Sunk(<<>>) = <<>>
  BY NothingRouted
<1> QED BY <1>1, <1>2, <1>3 DEF Records, MadeUpTo, MeltsUpTo, MovesUpTo, EmptyLedger

-----------------------------------------------------------------------------
(* The summary of a whole ledger against what the bundle makes, counted.   *)

SameCounts(s, t) == IsSeq(s) /\ IsSeq(t) /\ \A Y : Count(Y, s) = Count(Y, t)

LEMMA SameCountsBag ==
    ASSUME NEW s, NEW t, NEW u, SameCounts(s, t), SameBag(t, u)
    PROVE  SameBag(s, u)
<1> DEFINE W == ToSet(s) \cup ToSet(t)
<1>1. s \in Seq(W) /\ t \in Seq(W)
  BY SeqMonotonic DEF SameCounts, IsSeq
<1>2. Len(s) = Len(t)
  <2> HIDE DEF W
  <2>1. Count(W, s) = Len(s) /\ Count(W, t) = Len(t)
    BY <1>1, CountAll
  <2> QED BY <2>1 DEF SameCounts
<1>3. ASSUME NEW x \in ToSet(s)
      PROVE  Occurrences(x, s) = Occurrences(x, u)
  <2>1. Occurrences(x, s) = Occurrences(x, t)
    BY OccurrencesCounted DEF SameCounts
  <2>2. Occurrences(x, s) # 0
    <3>1. \E i \in DOMAIN s : s[i] = x
      BY DEF ToSet
    <3>2. {i \in DOMAIN s : s[i] \in {x}} # {}
      BY <3>1
    <3>3. IsFiniteSet({i \in DOMAIN s : s[i] \in {x}})
      BY <1>1, CountNat
    <3>4. Count({x}, s) # 0
      BY <3>2, <3>3, FS_EmptySet DEF Count
    <3> QED BY <3>4, OccurrencesCounted
  <2>3. x \in ToSet(t)
    <3>1. {i \in DOMAIN t : t[i] = x} # {}
      BY <2>1, <2>2, FS_EmptySet DEF Occurrences
    <3> QED BY <3>1 DEF ToSet
  <2> QED BY <2>1, <2>3 DEF SameBag
<1> QED BY <1>2, <1>3 DEF SameBag

LEMMA SameBagItself == ASSUME NEW s PROVE SameBag(s, s)
BY DEF SameBag

LEMMA CountWhere ==
    ASSUME NEW s, IsSeq(s), NEW at, NEW Y, NEW Z,
           \A i \in DOMAIN s : s[i] \in Z <=> i \in at /\ s[i] \in Y
    PROVE  Count(Y, Picked(s, at)) = Count(Z, s)
<1>1. s \in Seq(ToSet(s)) /\ DOMAIN s = 1..Len(s)
  BY SeqIs DEF IsSeq
<1> QED BY <1>1, CountPicked

PaidSinks(sinks) ==
    LET paid == Where(sinks, LAMBDA o : o.amount > 0)
    IN  [i \in DOMAIN paid |-> Output(NoAddress, paid[i].amount, paid[i].asset)]

IsOutput(o) == o = Output(o.ph, o.amount, o.asset)

(* What the verified summary lists, what the other one lists, and what     *)
(* leaves: counted on the outputs M that the bundle makes.                 *)
LEMMA CountVerified ==
    ASSUME NEW M, IsSeq(M), NEW Y
    PROVE  /\ IsSeq(Recipients(Ordinary(M)))
           /\ Count(Y, Recipients(Ordinary(M)))
              = Count({o \in ToSet(M) : ~IsProtocolSink(o.ph) /\ ~Owned(o.ph) /\ o \in Y}, M)
           /\ Count(Y, Recipients(Ordinary(M))) <= Count(Y, Ordinary(M))
<1> DEFINE O   == Ordinary(M)
           ord == {i \in DOMAIN M : ~IsProtocolSink(M[i].ph)}
           own == {j \in DOMAIN O : ~Owned(O[j].ph)}
           Y1  == {o \in ToSet(M) : ~Owned(o.ph) /\ o \in Y}
           Y2  == {o \in ToSet(M) : ~IsProtocolSink(o.ph) /\ ~Owned(o.ph) /\ o \in Y}
<1>1. O = Picked(M, ord) /\ Recipients(O) = Picked(O, own)
  BY DEF Ordinary, Recipients, Where
<1>2. IsSeq(O) /\ O \in Seq(ToSet(M))
  BY <1>1, PickedSeq
<1>3. IsSeq(Recipients(O))
  BY <1>1, <1>2, PickedSeq
<1>4. \A j \in DOMAIN O : O[j] \in Y1 <=> j \in own /\ O[j] \in Y
  BY <1>2
<1>5. \A i \in DOMAIN M : M[i] \in Y2 <=> i \in ord /\ M[i] \in Y1
  BY DEF ToSet
<1>6. Y1 \subseteq Y
  OBVIOUS
<1> HIDE DEF O, ord, own, Y1, Y2
<1>7. Count(Y, Recipients(O)) = Count(Y1, O)
  BY <1>1, <1>2, <1>4, CountWhere
<1>8. Count(Y1, O) = Count(Y2, M)
  BY <1>1, <1>5, CountWhere
<1>9. Count(Y1, O) <= Count(Y, O)
  BY <1>2, <1>6, CountMonotonic
<1> QED BY <1>3, <1>7, <1>8, <1>9 DEF O, Y2

LEMMA CountPaidSinks ==
    ASSUME NEW M, IsSeq(M), NEW Y
    PROVE  /\ IsSeq(PaidSinks(Sunk(M)))
           /\ Count(Y, PaidSinks(Sunk(M)))
              = Count({o \in ToSet(M) : /\ IsProtocolSink(o.ph) /\ o.amount > 0
                                        /\ Output(NoAddress, o.amount, o.asset) \in Y}, M)
<1> DEFINE K   == Sunk(M)
           snk == {i \in DOMAIN M : IsProtocolSink(M[i].ph)}
           pos_ == {j \in DOMAIN K : K[j].amount > 0}
           P   == Picked(K, pos_)
           Y1  == {o \in ToSet(M) : Output(NoAddress, o.amount, o.asset) \in Y}
           Y2  == {o \in ToSet(M) : o.amount > 0 /\ Output(NoAddress, o.amount, o.asset) \in Y}
           Y3  == {o \in ToSet(M) : /\ IsProtocolSink(o.ph) /\ o.amount > 0
                                    /\ Output(NoAddress, o.amount, o.asset) \in Y}
<1>1. K = Picked(M, snk)
  BY DEF Sunk, Where
<1>2. PaidSinks(K) = [i \in DOMAIN P |-> Output(NoAddress, P[i].amount, P[i].asset)]
  BY DEF PaidSinks, Where
<1>3. IsSeq(K) /\ K \in Seq(ToSet(M))
  BY <1>1, PickedSeq
<1>4. IsSeq(P) /\ P \in Seq(ToSet(M))
  <2>1. IsSeq(P) /\ P \in Seq(ToSet(K))
    BY <1>3, PickedSeq
  <2>2. ToSet(K) \subseteq ToSet(M)
    BY <1>3 DEF ToSet
  <2> HIDE DEF P
  <2> QED BY <2>1, <2>2, SeqMonotonic
<1>5. \A i \in DOMAIN P : PaidSinks(K)[i] \in Y <=> P[i] \in Y1
  <2>1. \A i \in DOMAIN P : P[i] \in ToSet(M)
    <3> HIDE DEF P
    <3> QED BY <1>4
  <2> HIDE DEF P
  <2> QED BY <1>2, <2>1
<1>6. \A j \in DOMAIN K : K[j] \in Y2 <=> j \in pos_ /\ K[j] \in Y1
  <2> HIDE DEF K
  <2> QED BY <1>3
<1>7. \A i \in DOMAIN M : M[i] \in Y3 <=> i \in snk /\ M[i] \in Y2
  BY DEF ToSet
<1>8. IsSeq(PaidSinks(K))
  <2>1. PICK n \in Nat : DOMAIN P = 1..n
    BY <1>4, SeqIs
  <2>2. PaidSinks(K) = [i \in 1..n |-> PaidSinks(K)[i]]
    BY <1>2, <2>1
  <2> QED BY <2>2, MadeSeq
<1> HIDE DEF K, snk, pos_, P, Y1, Y2, Y3
<1>9. Count(Y, PaidSinks(K)) = Count(Y1, P)
  <2>1. DOMAIN PaidSinks(K) = DOMAIN P
    BY <1>2
  <2> QED BY <1>5, <2>1, CountMapped
<1>10. Count(Y1, P) = Count(Y2, K)
  BY <1>3, <1>6, CountWhere DEF P
<1>11. Count(Y2, K) = Count(Y3, M)
  BY <1>1, <1>7, CountWhere
<1> QED BY <1>8, <1>9, <1>10, <1>11 DEF K, Y3

LeftOf(M) == LET left == Where(M, Leaving) IN [i \in DOMAIN left |-> Masked(left[i])]

LEMMA CountLeaving ==
    ASSUME NEW M, IsSeq(M), NEW Y
    PROVE  /\ IsSeq(LeftOf(M))
           /\ Count(Y, LeftOf(M)) = Count({o \in ToSet(M) : Leaving(o) /\ Masked(o) \in Y}, M)
<1> DEFINE lv == {i \in DOMAIN M : Leaving(M[i])}
           P  == Picked(M, lv)
           Y1 == {o \in ToSet(M) : Masked(o) \in Y}
           Y2 == {o \in ToSet(M) : Leaving(o) /\ Masked(o) \in Y}
<1>1. LeftOf(M) = [i \in DOMAIN P |-> Masked(P[i])]
  BY DEF LeftOf, Where
<1>2. IsSeq(P) /\ P \in Seq(ToSet(M))
  BY PickedSeq
<1>3. \A i \in DOMAIN P : LeftOf(M)[i] \in Y <=> P[i] \in Y1
  <2>1. \A i \in DOMAIN P : P[i] \in ToSet(M)
    <3> HIDE DEF P
    <3> QED BY <1>2
  <2> HIDE DEF P
  <2> QED BY <1>1, <2>1
<1>4. \A i \in DOMAIN M : M[i] \in Y2 <=> i \in lv /\ M[i] \in Y1
  BY DEF ToSet
<1>5. IsSeq(LeftOf(M))
  <2>1. PICK n \in Nat : DOMAIN P = 1..n
    BY <1>2, SeqIs
  <2>2. LeftOf(M) = [i \in 1..n |-> LeftOf(M)[i]]
    BY <1>1, <2>1
  <2> QED BY <2>2, MadeSeq
<1> HIDE DEF lv, P, Y1, Y2
<1>6. Count(Y, LeftOf(M)) = Count(Y1, P)
  <2>1. DOMAIN LeftOf(M) = DOMAIN P
    BY <1>1
  <2> QED BY <1>3, <2>1, CountMapped
<1>7. Count(Y1, P) = Count(Y2, M)
  BY <1>4, CountWhere DEF P
<1> QED BY <1>5, <1>6, <1>7 DEF Y2

(* The signer's own addresses are no protocol sinks.                       *)
LEMMA SinksAreNotOwned == \A ph : IsProtocolSink(ph) => ~Owned(ph)
BY DEF IsProtocolSink, Owned, P2, SettlementPayment, SingletonLauncher

LEMMA LeavingApart ==
    ASSUME NEW M, \A o \in ToSet(M) : IsOutput(o), NEW Y, NEW o \in ToSet(M)
    PROVE  /\ (Leaving(o) /\ Masked(o) \in Y)
              <=> \/ ~IsProtocolSink(o.ph) /\ ~Owned(o.ph) /\ o \in Y
                  \/ /\ IsProtocolSink(o.ph) /\ o.amount > 0
                     /\ Output(NoAddress, o.amount, o.asset) \in Y
<1>1. CASE ~IsProtocolSink(o.ph)
  BY <1>1 DEF Leaving, Masked
<1>2. CASE IsProtocolSink(o.ph)
  <2>1. o = [ph |-> o.ph, amount |-> o.amount, asset |-> o.asset]
    BY DEF IsOutput, Output
  <2>2. [o EXCEPT !.ph = NoAddress] = Output(NoAddress, o.amount, o.asset)
    BY <2>1 DEF Output
  <2> QED BY <1>2, <2>2, SinksAreNotOwned DEF Leaving, Masked
<1> QED BY <1>1, <1>2

(* What is shown for consent, with the owned outputs and without them.     *)
Verified(M) == Recipients(Ordinary(M)) \o PaidSinks(Sunk(M))
Unverified(M) == Ordinary(M) \o PaidSinks(Sunk(M))

LEMMA VerifiedTellsAll ==
    ASSUME NEW M, IsSeq(M), \A o \in ToSet(M) : IsOutput(o)
    PROVE  SameCounts(LeftOf(M), Verified(M))
<1> DEFINE R == Recipients(Ordinary(M))
           K == PaidSinks(Sunk(M))
<1>1. IsSeq(LeftOf(M)) /\ IsSeq(R) /\ IsSeq(K)
  BY CountLeaving, CountVerified, CountPaidSinks
<1> DEFINE W == ToSet(R) \cup ToSet(K)
<1>2. R \in Seq(W) /\ K \in Seq(W)
  <2>1. R \in Seq(ToSet(R)) /\ K \in Seq(ToSet(K))
    BY <1>1 DEF IsSeq
  <2>2. ToSet(R) \subseteq W /\ ToSet(K) \subseteq W
    OBVIOUS
  <2> HIDE DEF R, K, W
  <2> QED BY <2>1, <2>2, SeqMonotonic
<1>3. IsSeq(Verified(M))
  <2>1. R \o K \in Seq(W)
    <3> HIDE DEF R, K, W
    <3> QED BY <1>2, ConcatProperties
  <2> HIDE DEF W
  <2> QED BY <2>1, SeqIsSeq DEF Verified
<1>4. ASSUME NEW Y
      PROVE  Count(Y, LeftOf(M)) = Count(Y, Verified(M))
  <2> DEFINE A == {o \in ToSet(M) : Leaving(o) /\ Masked(o) \in Y}
             B == {o \in ToSet(M) : ~IsProtocolSink(o.ph) /\ ~Owned(o.ph) /\ o \in Y}
             C == {o \in ToSet(M) : /\ IsProtocolSink(o.ph) /\ o.amount > 0
                                    /\ Output(NoAddress, o.amount, o.asset) \in Y}
  <2>1. \A i \in DOMAIN M : /\ M[i] \in A <=> M[i] \in B \/ M[i] \in C
                            /\ ~(M[i] \in B /\ M[i] \in C)
    <3>1. \A o \in ToSet(M) : /\ o \in A <=> o \in B \/ o \in C
                              /\ ~(o \in B /\ o \in C)
      BY LeavingApart
    <3>2. \A i \in DOMAIN M : M[i] \in ToSet(M)
      BY DEF ToSet
    <3> HIDE DEF A, B, C
    <3> QED BY <3>1, <3>2
  <2>2. Count(Y, LeftOf(M)) = Count(A, M)
    BY CountLeaving
  <2>3. Count(Y, R) = Count(B, M)
    BY CountVerified
  <2>4. Count(Y, K) = Count(C, M)
    BY CountPaidSinks
  <2>5. Count(A, M) = Count(B, M) + Count(C, M)
    <3>1. M \in Seq(ToSet(M))
      BY DEF IsSeq
    <3> HIDE DEF A, B, C
    <3> QED BY <2>1, <3>1, CountApart
  <2>6. Count(Y, R \o K) = Count(Y, R) + Count(Y, K)
    <3> HIDE DEF R, K, W
    <3> QED BY <1>2, CountConcat
  <2>7. Verified(M) = R \o K
    BY DEF Verified
  <2> HIDE DEF A, B, C, R, K
  <2> QED BY <2>2, <2>3, <2>4, <2>5, <2>6, <2>7
<1> QED BY <1>1, <1>3, <1>4 DEF SameCounts

(* The key-free summary lists no less.                                     *)
LEMMA UnverifiedHidesNothing ==
    ASSUME NEW M, IsSeq(M), \A o \in ToSet(M) : IsOutput(o), NEW x
    PROVE  Occurrences(x, LeftOf(M)) <= Occurrences(x, Unverified(M))
<1> DEFINE O == Ordinary(M)
           R == Recipients(Ordinary(M))
           K == PaidSinks(Sunk(M))
           W == ToSet(O) \cup ToSet(R) \cup ToSet(K)
<1>1. IsSeq(O) /\ IsSeq(R) /\ IsSeq(K)
  BY RoutedSeqs, CountVerified, CountPaidSinks
<1>2. O \in Seq(W) /\ R \in Seq(W) /\ K \in Seq(W)
  <2>1. O \in Seq(ToSet(O)) /\ R \in Seq(ToSet(R)) /\ K \in Seq(ToSet(K))
    BY <1>1 DEF IsSeq
  <2>2. ToSet(O) \subseteq W /\ ToSet(R) \subseteq W /\ ToSet(K) \subseteq W
    OBVIOUS
  <2> HIDE DEF O, R, K, W
  <2> QED BY <2>1, <2>2, SeqMonotonic
<1>3. Count({x}, R) <= Count({x}, O)
  BY CountVerified
<1>4. Count({x}, LeftOf(M)) = Count({x}, Verified(M))
  BY VerifiedTellsAll DEF SameCounts
<1>5. Verified(M) = R \o K /\ Unverified(M) = O \o K
  BY DEF Verified, Unverified
<1> HIDE DEF O, R, K, W
<1>6. /\ Count({x}, R \o K) = Count({x}, R) + Count({x}, K)
      /\ Count({x}, O \o K) = Count({x}, O) + Count({x}, K)
      /\ Count({x}, O) \in Nat /\ Count({x}, R) \in Nat /\ Count({x}, K) \in Nat
  BY <1>2, CountConcat, CountNat
<1>7. Count({x}, LeftOf(M)) <= Count({x}, Unverified(M))
  BY <1>3, <1>4, <1>5, <1>6
<1> QED BY <1>7, OccurrencesCounted

LEMMA MadeOutputs ==
    ASSUME NEW spends, SoundBundle(spends)
    PROVE  /\ IsSeq(MadeUpTo(spends, Len(spends)))
           /\ \A o \in ToSet(MadeUpTo(spends, Len(spends))) : IsOutput(o)
<1>1. PICK L \in Nat : L = Len(spends) /\ DOMAIN spends = 1..L
  BY SeqIs DEF SoundBundle
<1> DEFINE Z  == {o \in UNION {ToSet(Made(spends[i])) : i \in 1..L} : IsOutput(o)}
           ss == [i \in 1..L |-> Made(spends[i])]
<1>2. ASSUME NEW i \in 1..L PROVE Made(spends[i]) \in Seq(Z)
  <2>1. PICK s : s = spends[i] /\ WellFormed(s)
    BY <1>1 DEF SoundBundle
  <2>2. IsSeq(Made(s))
    BY <2>1, ActsAreSeqs
  <2>3. \A o \in ToSet(Made(s)) : IsOutput(o)
    BY DEF ToSet, Made, IsOutput, Output
  <2>4. ToSet(Made(s)) \subseteq Z
    BY <2>1, <2>3
  <2>5. Made(s) \in Seq(ToSet(Made(s)))
    BY <2>2 DEF IsSeq
  <2> HIDE DEF Z
  <2>6. Made(s) \in Seq(Z)
    BY <2>4, <2>5, SeqMonotonic
  <2> QED BY <2>1, <2>6
<1>3. ss \in Seq(Seq(Z))
  <2> HIDE DEF Z
  <2>1. ss \in [1..L -> Seq(Z)]
    BY <1>2
  <2> HIDE DEF ss
  <2> QED BY <2>1
<1>4. MadeUpTo(spends, L) = FlattenSeq(ss)
  BY DEF MadeUpTo
<1>5. MadeUpTo(spends, L) \in Seq(Z)
  <2> HIDE DEF Z, ss
  <2> QED BY <1>3, <1>4, FlattenType
<1>6. ToSet(MadeUpTo(spends, L)) \subseteq Z
  <2> HIDE DEF Z
  <2> QED BY <1>5 DEF ToSet
<1>7. IsSeq(MadeUpTo(spends, L))
  <2> HIDE DEF Z
  <2> QED BY <1>5, SeqIsSeq
<1> QED BY <1>1, <1>6, <1>7

(* The properties' own counts are those of the last prefix.                *)
LEMMA WholeBundle ==
    ASSUME NEW spends, SoundBundle(spends)
    PROVE  LET L == Len(spends)
           IN  /\ Left(spends) = LeftOf(MadeUpTo(spends, L))
               /\ Melts(spends) = MeltsUpTo(spends, L)
               /\ NftActs(spends) = MovesUpTo(spends, L)
               /\ \A a : /\ TotalIn(a, spends) = InUpTo(spends, a, L)
                         /\ TotalOut(a, spends) = OutUpTo(spends, a, L)
<1>1. DOMAIN spends = 1..Len(spends)
  BY SeqIs DEF SoundBundle
<1>2. Left(spends) = LeftOf(MadeUpTo(spends, Len(spends)))
  BY <1>1 DEF Left, LeftOf, Each, MadeUpTo
<1>3. Melts(spends) = MeltsUpTo(spends, Len(spends))
  BY <1>1 DEF Melts, Each, MeltsUpTo
<1>4. NftActs(spends) = MovesUpTo(spends, Len(spends))
  BY <1>1 DEF NftActs, Each, MovesUpTo
<1>5. \A a : /\ TotalIn(a, spends) = InUpTo(spends, a, Len(spends))
             /\ TotalOut(a, spends) = OutUpTo(spends, a, Len(spends))
  BY <1>1 DEF TotalIn, TotalOut, SumOver, InUpTo, OutUpTo
<1> QED BY <1>2, <1>3, <1>4, <1>5

(* The fee the ledger comes to, once the bundle balances.                  *)
LEMMA FeeIsTheRest ==
    ASSUME NEW spends, SoundBundle(spends), NEW l, Balances(spends, l, Len(spends)),
           Conserved(l, spends)
    PROVE  /\ TotalIn(XCH, spends) \in Nat /\ TotalOut(XCH, spends) \in Nat
           /\ EffectiveFee(l, spends) \in Int
           /\ TotalIn(XCH, spends) = TotalOut(XCH, spends) + EffectiveFee(l, spends)
           /\ \A a \in Assets : TotalIn(a, spends) = TotalOut(a, spends)
<1>1. \A a \in Assets \cup {XCH} :
         l.in[a] = TotalIn(a, spends) /\ l.out[a] = TotalOut(a, spends)
  BY WholeBundle DEF Balances
<1>2. /\ l.in[XCH] \in Nat /\ l.out[XCH] \in Nat /\ l.fee \in Nat /\ l.melted \in Nat
  BY DEF Balances, IsLedger
<1>3. CASE OptionMode(spends)
  <2>1. EffectiveFee(l, spends) = l.in[XCH] - l.out[XCH]
    BY <1>3 DEF EffectiveFee
  <2> QED BY <1>1, <1>2, <2>1 DEF Conserved
<1>4. CASE ~OptionMode(spends)
  <2>1. EffectiveFee(l, spends) = l.fee + l.melted
    BY <1>4 DEF EffectiveFee
  <2>2. l.in[XCH] = l.out[XCH] + l.fee + l.melted
    BY <1>4 DEF Conserved
  <2> QED BY <1>1, <1>2, <2>1, <2>2 DEF Conserved
<1> QED BY <1>3, <1>4

LEMMA SummariesTell ==
    ASSUME NEW spends, SoundBundle(spends), NEW l, Records(spends, l, Len(spends))
    PROVE  /\ SameCounts(Left(spends), Egress(l, spends).outputs)
           /\ Egress(l, spends).melted = Melts(spends)
           /\ Egress(l, spends).nfts = NftActs(spends)
           /\ \A o : Occurrences(o, Left(spends)) <= Occurrences(o, KeyFree(l, spends).outputs)
           /\ KeyFree(l, spends).melted = Melts(spends)
           /\ KeyFree(l, spends).nfts = NftActs(spends)
<1>1. PICK M : M = MadeUpTo(spends, Len(spends))
  OBVIOUS
<1>2. IsSeq(M) /\ \A o \in ToSet(M) : IsOutput(o)
  BY <1>1, MadeOutputs
<1>3. l.outputs = Ordinary(M) /\ l.sinks = Sunk(M)
  BY <1>1 DEF Records
<1>4. /\ Egress(l, spends).outputs = Verified(M)
      /\ KeyFree(l, spends).outputs = Unverified(M)
  BY <1>3 DEF Egress, KeyFree, Summarized, Verified, Unverified, PaidSinks
<1>5. Left(spends) = LeftOf(M)
  BY <1>1, WholeBundle
<1>6. /\ Egress(l, spends).melted = l.melts /\ Egress(l, spends).nfts = l.nfts
      /\ KeyFree(l, spends).melted = l.melts /\ KeyFree(l, spends).nfts = l.nfts
  BY DEF Egress, KeyFree, Summarized
<1>7. l.melts = Melts(spends) /\ l.nfts = NftActs(spends)
  BY WholeBundle DEF Records
<1>8. SameCounts(Left(spends), Egress(l, spends).outputs)
  BY <1>2, <1>4, <1>5, VerifiedTellsAll
<1>9. \A o : Occurrences(o, Left(spends)) <= Occurrences(o, KeyFree(l, spends).outputs)
  BY <1>2, <1>4, <1>5, UnverifiedHidesNothing
<1> QED BY <1>6, <1>7, <1>8, <1>9

-----------------------------------------------------------------------------
(* The concurrency ring: following it from a binding stays in any set that *)
(* has the binding and everything the ring leads to from its members.      *)
Steps(f, b, all) ==
    /\ f[0] = {b}
    /\ \A n \in 1..Cardinality(all) :
          f[n] = f[n - 1] \cup UNION {CoSpent(c, all) : c \in f[n - 1]}

LEMMA ReachedIs ==
    ASSUME NEW all, IsFiniteSet(all), NEW b \in all
    PROVE  \E f : Steps(f, b, all) /\ Reached(b, all) = f[Cardinality(all)]
<1>1. PICK L \in Nat : L = Cardinality(all)
  BY FS_CardinalityType
<1> DEFINE V == SUBSET all
           base == {b}
           G == [n \in 1..L |-> [v \in V |-> v \cup UNION {CoSpent(c, all) : c \in v}]]
           Spread(f) == f = [n \in 0..L |->
                IF n = 0 THEN {b} ELSE f[n - 1] \cup UNION {CoSpent(c, all) : c \in f[n - 1]}]
<1>2. PICK f \in [0..L -> V] : Follows(f, base, G, L)
  <2>1. \A v \in V : (v \cup UNION {CoSpent(c, all) : c \in v}) \in V
    BY DEF CoSpent
  <2>2. G \in [1..L -> [V -> V]] /\ base \in V
    BY <2>1
  <2> HIDE DEF G, V, base
  <2> QED BY <2>2, StepByStep
<1>3. f[0] = {b}
  BY <1>2 DEF Follows
<1>4. \A n \in 1..L : f[n] = f[n - 1] \cup UNION {CoSpent(c, all) : c \in f[n - 1]}
  <2> SUFFICES ASSUME NEW n \in 1..L
               PROVE  f[n] = f[n - 1] \cup UNION {CoSpent(c, all) : c \in f[n - 1]}
    OBVIOUS
  <2>1. n - 1 \in 0..L
    OBVIOUS
  <2>2. f[n - 1] \in V /\ f[n] = G[n][f[n - 1]]
    BY <1>2, <2>1 DEF Follows
  <2> QED BY <2>2
<1>5. Spread(f)
  BY <1>2, <1>3, <1>4
<1> DEFINE g == CHOOSE h : Spread(h)
<1>6. Spread(g)
  BY <1>5
<1>7. Reached(b, all) = g[L]
  BY <1>1 DEF Reached
<1> HIDE DEF g
<1>8. g[0] = {b} /\ \A n \in 1..L : g[n] = g[n - 1] \cup UNION {CoSpent(c, all) : c \in g[n - 1]}
  BY <1>6
<1> QED BY <1>1, <1>7, <1>8 DEF Steps

LEMMA ReachedWithin ==
    ASSUME NEW all, IsFiniteSet(all), NEW b \in all, NEW Y, b \in Y,
           \A c \in Y : CoSpent(c, all) \subseteq Y
    PROVE  Reached(b, all) \subseteq Y
<1>1. PICK L \in Nat : L = Cardinality(all)
  BY FS_CardinalityType
<1>2. PICK f : Steps(f, b, all) /\ Reached(b, all) = f[L]
  BY <1>1, ReachedIs
<1> DEFINE T == {n \in 0..L : f[n] \subseteq Y}
<1>3. 0 \in T
  BY <1>2 DEF Steps
<1>4. ASSUME NEW n \in 1..L, n - 1 \in T
      PROVE  n \in T
  <2>1. f[n] = f[n - 1] \cup UNION {CoSpent(c, all) : c \in f[n - 1]}
    BY <1>1, <1>2 DEF Steps
  <2>2. f[n - 1] \subseteq Y
    BY <1>4
  <2> QED BY <2>1, <2>2
<1> HIDE DEF T
<1>5. L \in T
  BY <1>3, <1>4, InductionUpTo
<1> QED BY <1>2, <1>5 DEF T

(* The bindings of the first n spends.                                     *)
BoundUpTo(spends, n) == UNION {Bound(spends[i]) : i \in 1..n}
Ties(spends, l, n) == IsFiniteSet(l.bindings) /\ l.bindings = BoundUpTo(spends, n)

LEMMA EmptyTies == \A spends : Ties(spends, EmptyLedger, 0)
BY FS_EmptySet DEF Ties, BoundUpTo, EmptyLedger

LEMMA TiesStep ==
    ASSUME NEW spends, NEW n \in Nat \ {0}, NEW l, NEW m,
           Ties(spends, l, n - 1), Adds(l, m, spends[n])
    PROVE  Ties(spends, m, n)
<1>1. PICK new : new = Bound(spends[n])
  OBVIOUS
<1>2. 1..n = 1..(n - 1) \cup {n}
  OBVIOUS
<1>3. BoundUpTo(spends, n) = BoundUpTo(spends, n - 1) \cup new
  BY <1>1, <1>2 DEF BoundUpTo
<1>4. m.bindings = l.bindings \cup new
  BY <1>1 DEF Adds
<1>5. IsFiniteSet(new)
  BY <1>1, FS_EmptySet, FS_Singleton DEF Bound
<1>6. IsFiniteSet(l.bindings \cup new)
  BY <1>5, FS_Union DEF Ties
<1> QED BY <1>3, <1>4, <1>6 DEF Ties

(* An InnerRun says of itself what the conditions of the spend say.        *)
LEMMA InnerRunSays ==
    ASSUME NEW s, IsSeq(s.conds), NEW c, c.op # "agg_sig_me"
    PROVE  c \in ToSet(InnerRun(s)) <=> c \in ToSet(s.conds)
<1>1. CASE ~AsksSignature(s)
  BY <1>1 DEF InnerRun
<1>2. CASE AsksSignature(s)
  <2>1. PICK x : InnerRun(s) = <<x>> \o s.conds /\ x.op = "agg_sig_me"
    BY <1>2 DEF InnerRun, AggSigMe
  <2>2. ToSet(<<x>> \o s.conds) = {x} \cup ToSet(s.conds)
    <3>1. PICK X : s.conds \in Seq(X) /\ X = ToSet(s.conds)
      BY DEF IsSeq
    <3>2. PICK n \in Nat : n = Len(s.conds)
      BY <3>1
    <3>3. PICK t : t = s.conds
      OBVIOUS
    <3>4. /\ Len(<<x>> \o t) = n + 1 /\ DOMAIN (<<x>> \o t) = 1..(n + 1)
          /\ (<<x>> \o t)[1] = x /\ \A i \in 1..n : (<<x>> \o t)[i + 1] = t[i]
          /\ DOMAIN t = 1..n
      BY <3>1, <3>2, <3>3
    <3>5. \A i \in 1..(n + 1) : i = 1 \/ (i - 1 \in 1..n /\ i = (i - 1) + 1)
      OBVIOUS
    <3>6. ToSet(<<x>> \o t) \subseteq {x} \cup ToSet(t)
      BY <3>4, <3>5 DEF ToSet
    <3>7. {x} \cup ToSet(t) \subseteq ToSet(<<x>> \o t)
      <4>1. 1 \in 1..(n + 1) /\ \A i \in 1..n : i + 1 \in 1..(n + 1)
        OBVIOUS
      <4>2. PICK w : w = <<x>> \o t
        OBVIOUS
      <4>3. x \in ToSet(w) /\ \A i \in 1..n : t[i] \in ToSet(w)
        BY <3>4, <4>1, <4>2 DEF ToSet
      <4>4. \A y \in ToSet(t) : \E i \in 1..n : y = t[i]
        BY <3>4 DEF ToSet
      <4> QED BY <4>2, <4>3, <4>4
    <3> QED BY <3>3, <3>6, <3>7
  <2> QED BY <2>1, <2>2
<1> QED BY <1>1, <1>2

(* A signed leg that pays a sink is one whose binding the ledger keeps.    *)
LEMMA PayingIsBound ==
    ASSUME NEW s, WellFormed(s), Admissible(s), AsksSignature(s), s.kind # "option", PaysSink(s)
    PROVE  Bindable(s) /\ Binding(s, InnerRun(s)).sink
<1>1. IsSeq(s.conds)
  BY DEF WellFormed, Priced
<1>2. Creates(s.conds) \in Seq({c \in ToSet(s.conds) : c.op = "create_coin"})
  BY <1>1, CreatesAre
<1>3. PICK c \in ToSet(Creates(s.conds)) : IsProtocolSink(c.ph)
  BY DEF PaysSink
<1>4. c \in ToSet(s.conds) /\ c.op = "create_coin"
  <2>1. PICK v : v = Creates(s.conds)
    OBVIOUS
  <2>2. PICK Z : Z = {x \in ToSet(s.conds) : x.op = "create_coin"}
    OBVIOUS
  <2>3. c \in Z
    BY <1>2, <1>3, <2>1, <2>2 DEF ToSet
  <2> QED BY <2>2, <2>3
<1>5. Binding(s, InnerRun(s)).sink
  BY <1>1, <1>3, <1>4, InnerRunSays DEF Binding
<1>6. Bindable(s)
  <2>1. CASE IsCatSend(s) \/ IsStandardSend(s)
    BY <2>1 DEF IsCatSend, IsStandardSend, Bindable
  <2>2. ~(IsCatClaim(s) \/ IsOptionTransfer(s) \/ IsLaunch(s) \/ IsNftEveMint(s) \/ IsSettlementClaim(s))
    BY DEF IsCatClaim, IsOptionTransfer, IsLaunch, IsNftEveMint, IsSettlementClaim, AsksSignature
  <2>3. ~IsMelt(s)
    <3>1. ASSUME IsMelt(s)
          PROVE  \A i \in DOMAIN s.conds : s.conds[i].op # "create_coin"
      BY <3>1 DEF IsMelt, Only, MeltOps, Benign
    <3> QED BY <1>4, <3>1 DEF ToSet
  <2>4. ~IsNftTransfer(s)
    <3>1. ASSUME Rehomes(s) PROVE FALSE
      <4>1. PICK v : v = Creates(s.conds) /\ IsSeq(v)
        BY <1>1, CreatesAre
      <4>2. Len(v) = 1 /\ ~IsProtocolSink(v[1].ph)
        BY <3>1, <4>1 DEF Rehomes, OneOdd
      <4>3. DOMAIN v = 1..1
        BY <4>1, <4>2, SeqIs
      <4>4. c = v[1]
        BY <1>3, <4>1, <4>3 DEF ToSet
      <4> QED BY <1>3, <4>2, <4>4
    <3> QED BY <3>1 DEF IsNftTransfer
  <2> QED BY <2>1, <2>2, <2>3, <2>4 DEF Admissible
<1> QED BY <1>5, <1>6

LEMMA SinksAreTied ==
    ASSUME NEW spends, SoundBundle(spends), NEW l, Ties(spends, l, Len(spends)), SinksBound(l),
           \A i \in DOMAIN spends : Admissible(spends[i]),
           Unambiguous(SignedLegs(spends))
    PROVE  Tied(SignedLegs(spends))
<1>1. PICK legs : legs = SignedLegs(spends)
  OBVIOUS
<1>2. SUFFICES ASSUME NEW part \in SUBSET legs, \A s \in part : Concurs(s, part),
                      NEW s0 \in part, PaysSink(s0)
               PROVE  \E s \in part : Announces(s)
  BY <1>1 DEF Tied
<1>3. PICK L \in Nat : L = Len(spends) /\ DOMAIN spends = 1..L
  BY SeqIs DEF SoundBundle
<1>4. \A s \in legs : /\ s.kind # "option" /\ AsksSignature(s)
                      /\ \E i \in 1..L : s = spends[i]
  BY <1>1, <1>3 DEF SignedLegs, ToSet
<1>5. \A s \in legs : WellFormed(s) /\ Admissible(s) /\ IsSeq(s.conds)
  BY <1>3, <1>4 DEF SoundBundle, WellFormed, Priced
<1>6. \A i \in 1..L : Bindable(spends[i]) => spends[i] \in legs
  BY <1>1, <1>3 DEF Bindable, SignedLegs, AsksSignature, ToSet
<1>7. PICK bs : bs = l.bindings /\ IsFiniteSet(bs)
  BY DEF Ties
<1>8. bs = UNION {Bound(spends[i]) : i \in 1..L}
  BY <1>3, <1>7 DEF Ties, BoundUpTo
<1>9. \A b \in bs : \E r \in legs : Bindable(r) /\ b = Binding(r, InnerRun(r))
  BY <1>6, <1>8 DEF Bound
<1>10. \A s \in legs : Bindable(s) => Binding(s, InnerRun(s)) \in bs
  BY <1>4, <1>8 DEF Bound
<1> DEFINE Y == {Binding(s, InnerRun(s)) : s \in {t \in part : Bindable(t)}}
           b0 == Binding(s0, InnerRun(s0))
<1>11. s0 \in legs /\ Bindable(s0) /\ b0.sink
  <2>1. s0 \in legs
    BY <1>2
  <2> QED BY <1>2, <1>4, <1>5, <2>1, PayingIsBound
<1>12. b0 \in bs /\ b0 \in Y
  BY <1>2, <1>10, <1>11
<1>13. ASSUME NEW c \in Y, NEW d \in CoSpent(c, bs)
       PROVE  d \in Y
  <2>1. PICK t \in part : c = Binding(t, InnerRun(t)) /\ t \in legs
    BY <1>2
  <2>2. PICK r \in legs : Bindable(r) /\ d = Binding(r, InnerRun(r))
    BY <1>9 DEF CoSpent
  <2>3. d.coin = r.coin /\ d.ph = PuzzleHashOf(r.coin)
    BY <2>2 DEF Binding
  <2>4. CASE d.coin \in c.coins
    <3>1. PICK x \in ToSet(InnerRun(t)) : x.op = "concurrent_spend" /\ x.coin = r.coin
      BY <2>1, <2>3, <2>4 DEF Binding
    <3>2. x \in ToSet(t.conds)
      BY <1>5, <2>1, <3>1, InnerRunSays
    <3>3. PICK u \in part : u.coin = r.coin
      BY <1>2, <2>1, <3>1, <3>2 DEF Concurs
    <3>4. u \in legs /\ u = r
      BY <1>1, <1>2, <2>2, <3>3 DEF Unambiguous
    <3> QED BY <2>2, <3>3, <3>4
  <2>5. CASE d.ph \in c.phs
    <3>1. PICK x \in ToSet(InnerRun(t)) : x.op = "concurrent_puzzle" /\ x.ph = PuzzleHashOf(r.coin)
      BY <2>1, <2>3, <2>5 DEF Binding
    <3>2. x \in ToSet(t.conds)
      BY <1>5, <2>1, <3>1, InnerRunSays
    <3>3. PICK u \in part : PuzzleHashOf(u.coin) = PuzzleHashOf(r.coin)
      BY <1>2, <2>1, <3>1, <3>2 DEF Concurs
    <3>4. u \in legs /\ u = r
      BY <1>1, <1>2, <2>1, <2>2, <3>1, <3>2, <3>3 DEF Unambiguous
    <3> QED BY <2>2, <3>3, <3>4
  <2> QED BY <2>4, <2>5 DEF CoSpent
<1>14. PICK c \in Reached(b0, bs) : c.announce
  BY <1>7, <1>11, <1>12 DEF SinksBound
<1>15. c \in Y
  <2> HIDE DEF Y, b0
  <2>1. \A y \in Y : CoSpent(y, bs) \subseteq Y
    BY <1>13
  <2>2. Reached(b0, bs) \subseteq Y
    BY <1>7, <1>12, <2>1, ReachedWithin
  <2> QED BY <1>14, <2>2
<1>16. PICK t \in part : c = Binding(t, InnerRun(t)) /\ t \in legs
  BY <1>2, <1>15
<1>17. PICK x \in ToSet(InnerRun(t)) : x.op \in {"assert_coin_ann", "assert_puzzle_ann"}
  BY <1>14, <1>16 DEF Binding, AssertsAnnouncement
<1>18. x \in ToSet(t.conds)
  BY <1>5, <1>16, <1>17, InnerRunSays
<1> QED BY <1>16, <1>17, <1>18 DEF Announces
-----------------------------------------------------------------------------
(* The spends the gate is handed are sequences.                            *)
Bundles(Inputs, S) == \A u \in Inputs : u.spends \in Seq(S)

(* No signature is put on conditions a solution could still replace: each  *)
(* coin whose puzzle asks for one has them quoted in the signed puzzle,    *)
(* its puzzle is the one the coin commits to, no condition asks for a      *)
(* signature of another kind, and every key asked for is the signer's.     *)
SignsOnlyCommitted ==
    Signed =>
      /\ \A i \in DOMAIN unsigned.spends :
            /\ unsigned.spends[i].genuine
            /\ AsksSignature(unsigned.spends[i]) => unsigned.spends[i].quote
            /\ NoForeignSig(Run(unsigned.spends[i]))
      /\ \A j \in DOMAIN Authoritative(unsigned.spends) :
            Authoritative(unsigned.spends)[j].key \in SignerKeys

-----------------------------------------------------------------------------
(* The strengthening: what analyze has passed was admitted by a handler,   *)
(* and a signed bundle is one it has passed to the end.                    *)
Passed(n)   == \A i \in 1..n : Admissible(unsigned.spends[i])
SoFar       == phase \in Working => Passed(pos - 1)
SignedWhole == Signed => Passed(Len(unsigned.spends)) /\ Signable(unsigned)
GateInv(S)  == unsigned.spends \in Seq(S) /\ GateTypeOK /\ SoFar /\ SignedWhole

LEMMA EmptyFits == Representable(EmptyLedger)
BY Max64Assumption DEF Representable, EmptyLedger

(* An admitted spend that asks for a signature is quoted.                  *)
LEMMA AdmittedIsCommitted ==
    ASSUME NEW s, Admissible(s)
    PROVE  s.genuine /\ (AsksSignature(s) => s.quote)
<1>1. CASE IsCatClaim(s)
  BY <1>1 DEF IsCatClaim, AsksSignature, Admissible
<1>2. CASE IsCatSend(s) \/ IsStandardSend(s) \/ IsOptionTransfer(s)
  BY <1>2 DEF IsCatSend, IsStandardSend, IsOptionTransfer, Committed, Quoted, Admissible
<1>3. CASE IsLaunch(s) \/ IsSettlementClaim(s)
  BY <1>3 DEF IsLaunch, IsSettlementClaim, AsksSignature, Admissible
<1>4. CASE IsNftTransfer(s) \/ IsNftEveMint(s)
  BY <1>4 DEF IsNftTransfer, IsNftEveMint, Rehomes, Quoted, Admissible
<1>5. CASE IsMelt(s)
  BY <1>5 DEF IsMelt, MeltCommitted, Quoted, Admissible
<1> QED BY <1>1, <1>2, <1>3, <1>4, <1>5 DEF Admissible

-----------------------------------------------------------------------------
LEMMA StartKeeps ==
    ASSUME NEW S, GateInv(S), NEW p \in {"shown", "refused"} \cup Working,
           Start(p), UNCHANGED unsigned
    PROVE  GateInv(S)'
<1>1. GateTypeOK'
  BY EmptyFits DEF GateInv, GateTypeOK, Start, Working
<1>2. SoFar' /\ SignedWhole'
  BY DEF Start, SoFar, SignedWhole, Signed, Passed, Working
<1> QED BY <1>1, <1>2 DEF GateInv

LEMMA RefusedKeeps ==
    ASSUME NEW S, GateInv(S), Refused
    PROVE  GateInv(S)'
BY StartKeeps DEF Refused

(* One more spend accounted.                                               *)
LEMMA AccountsKeeps ==
    ASSUME NEW S, GateInv(S), Looking, Admissible(Spend), NEW l, Accounts(l)
    PROVE  GateInv(S)'
<1>1. CASE ~Representable(l)
  BY <1>1, RefusedKeeps DEF Accounts
<1>2. CASE Representable(l)
  <2>1. ledger' = l /\ pos' = pos + 1 /\ UNCHANGED <<unsigned, phase, shown>>
    BY <1>2 DEF Accounts
  <2>2. pos \in Nat /\ Len(unsigned.spends) \in Nat /\ phase \in Working
    BY DEF GateInv, GateTypeOK, Looking
  <2>3. GateTypeOK'
    BY <1>2, <2>1, <2>2 DEF GateInv, GateTypeOK, Looking, Working, Representable
  <2>4. SoFar'
    BY <2>1, <2>2 DEF GateInv, SoFar, Passed, Spend
  <2>5. SignedWhole'
    BY <2>1, <2>2 DEF SignedWhole, Signed, Working
  <2> QED BY <2>1, <2>3, <2>4, <2>5 DEF GateInv
<1> QED BY <1>1, <1>2

LEMMA AccountingKeeps ==
    ASSUME NEW S, GateInv(S),
           \/ AccountCatClaim \/ AccountCatSend \/ AccountOptionTransfer
           \/ AccountSingletonLaunch \/ AccountNft
           \/ AccountSingletonMelt \/ AccountStandardSend \/ AccountSettlementClaim
    PROVE  GateInv(S)'
<1>1. CASE AccountCatClaim
  BY <1>1, AccountsKeeps DEF AccountCatClaim, Admissible
<1>2. CASE AccountCatSend
  BY <1>2, AccountsKeeps DEF AccountCatSend, Admissible
<1>3. CASE AccountOptionTransfer
  BY <1>3, AccountsKeeps DEF AccountOptionTransfer, Admissible
<1>4. CASE AccountSingletonLaunch
  BY <1>4, AccountsKeeps DEF AccountSingletonLaunch, Admissible
<1>5. CASE AccountNftTransfer
  BY <1>5, AccountsKeeps DEF AccountNftTransfer, Admissible
<1>6. CASE AccountNftEveMint
  BY <1>6, AccountsKeeps DEF AccountNftEveMint, Admissible
<1>7. CASE AccountSingletonMelt
  BY <1>7, AccountsKeeps DEF AccountSingletonMelt, Admissible
<1>8. CASE AccountStandardSend
  BY <1>8, AccountsKeeps DEF AccountStandardSend, Admissible
<1>9. CASE AccountSettlementClaim
  BY <1>9, AccountsKeeps DEF AccountSettlementClaim, Admissible
<1> QED BY <1>1, <1>2, <1>3, <1>4, <1>5, <1>6, <1>7, <1>8, <1>9 DEF AccountNft

LEMMA GateInvStep ==
    ASSUME NEW Inputs, NEW S, Bundles(Inputs, S), GateInv(S), [GateNext(Inputs)]_gateVars
    PROVE  GateInv(S)'
<1>1. CASE Review \/ Display \/ Sign
  BY <1>1, StartKeeps DEF Review, Display, Sign, Working
<1>2. CASE \/ AccountCatClaim \/ AccountCatSend \/ AccountOptionTransfer
           \/ AccountSingletonLaunch \/ AccountNft
           \/ AccountSingletonMelt \/ AccountStandardSend \/ AccountSettlementClaim
  BY <1>2, AccountingKeeps
<1>3. CASE RefuseSpend \/ RefuseBundle
  BY <1>3, RefusedKeeps DEF RefuseSpend, RefuseBundle
<1>4. CASE Show \/ ShowKeyFree
  BY <1>4, StartKeeps DEF Show, ShowKeyFree
<1>5. CASE SignBundle
  <2>1. Start("signed") /\ UNCHANGED <<unsigned, shown>> /\ Signable(unsigned)
    BY <1>5 DEF SignBundle
  <2>2. phase \in Working /\ pos > Len(unsigned.spends)
    BY <1>5 DEF SignBundle, Analyzed
  <2>3. pos - 1 = Len(unsigned.spends)
    BY <2>2 DEF GateInv, GateTypeOK
  <2>4. Passed(Len(unsigned.spends))
    BY <2>2, <2>3 DEF GateInv, SoFar
  <2>5. GateTypeOK'
    BY <2>1, EmptyFits DEF GateInv, GateTypeOK, Start, Working
  <2>6. SoFar' /\ SignedWhole'
    BY <2>1, <2>4 DEF Start, SoFar, SignedWhole, Passed, Signable, Working
  <2> QED BY <2>1, <2>5, <2>6 DEF GateInv
<1>6. CASE Done
  <2>1. unsigned' = Nothing /\ shown' = Unseen /\ Start("idle")
    BY <1>6 DEF Done
  <2>2. unsigned'.spends = <<>> /\ Len(<<>>) = 0
    BY <2>1 DEF Nothing
  <2>3. GateTypeOK'
    BY <2>1, <2>2, EmptyFits DEF GateTypeOK, Start, Working
  <2>4. SoFar' /\ SignedWhole'
    BY <2>1 DEF Start, SoFar, SignedWhole, Signed, Working
  <2> QED BY <2>2, <2>3, <2>4 DEF GateInv
<1>7. CASE \E u \in Inputs : Receive(u)
  <2>1. PICK u \in Inputs : Receive(u)
    BY <1>7
  <2>2. unsigned' = u /\ u.spends \in Seq(S) /\ Len(u.spends) \in Nat
    BY <2>1 DEF Receive, Bundles
  <2>3. phase = "idle" /\ phase' = "received" /\ UNCHANGED <<pos, ledger, shown>>
    BY <2>1 DEF Receive
  <2>4. pos = 1 /\ ledger = EmptyLedger
    BY <2>3 DEF GateInv, GateTypeOK, Working
  <2>5. GateTypeOK'
    BY <2>2, <2>3, <2>4, EmptyFits DEF GateTypeOK, Working
  <2>6. SoFar' /\ SignedWhole'
    BY <2>3 DEF SoFar, SignedWhole, Signed, Working
  <2> QED BY <2>2, <2>5, <2>6 DEF GateInv
<1>8. CASE UNCHANGED gateVars
  BY <1>8 DEF gateVars, GateInv, GateTypeOK, SoFar, SignedWhole, Signed, Passed
<1> QED BY <1>1, <1>2, <1>3, <1>4, <1>5, <1>6, <1>7, <1>8 DEF GateNext, GateStep

LEMMA GateInvInit == ASSUME NEW S PROVE GateInit => GateInv(S)
<1> SUFFICES ASSUME GateInit
             PROVE  GateInv(S)
  OBVIOUS
<1>1. unsigned.spends = <<>> /\ Len(<<>>) = 0
  BY DEF GateInit, Nothing
<1>2. GateTypeOK
  BY <1>1, EmptyFits DEF GateInit, GateTypeOK, Working
<1>3. SoFar /\ SignedWhole
  BY DEF GateInit, SoFar, SignedWhole, Signed, Working
<1> QED BY <1>1, <1>2, <1>3 DEF GateInv

LEMMA GateInvSuffices == ASSUME NEW S, GateInv(S) PROVE SignsOnlyCommitted
<1> SUFFICES ASSUME Signed
             PROVE  SignsOnlyCommitted
  BY DEF SignsOnlyCommitted
<1>1. Passed(Len(unsigned.spends)) /\ Signable(unsigned)
  BY DEF GateInv, SignedWhole
<1>2. DOMAIN unsigned.spends = 1..Len(unsigned.spends)
  BY DEF GateInv
<1>3. ASSUME NEW i \in DOMAIN unsigned.spends
      PROVE  /\ unsigned.spends[i].genuine
             /\ AsksSignature(unsigned.spends[i]) => unsigned.spends[i].quote
             /\ NoForeignSig(Run(unsigned.spends[i]))
  <2>1. Admissible(unsigned.spends[i])
    BY <1>1, <1>2 DEF Passed
  <2>2. NoForeignSig(Run(unsigned.spends[i]))
    BY <1>1 DEF Signable, Extractable
  <2> QED BY <2>1, <2>2, AdmittedIsCommitted
<1>4. \A j \in DOMAIN Authoritative(unsigned.spends) :
         Authoritative(unsigned.spends)[j].key \in SignerKeys
  BY <1>1 DEF Signable, Producible, HoldsKey
<1> QED BY <1>3, <1>4 DEF SignsOnlyCommitted

-----------------------------------------------------------------------------
(* The strengthening for what a signature promises: the ledger is what the *)
(* spends before pos come to, and the screen lists what they make.         *)
Rest(spends) == TotalIn(XCH, spends) - TotalOut(XCH, spends)
Screens(w, u) ==
    /\ w # Unseen => \/ w = Rendered(u, FALSE)
                     \/ Lists(w, u.spends) /\ w.fee = Rest(u.spends)
    /\ w.verified => Tells(w, u.spends)
Conserves(u) ==
    /\ TotalIn(XCH, u.spends) = TotalOut(XCH, u.spends) + u.fee
    /\ \A a \in Assets : TotalIn(a, u.spends) = TotalOut(a, u.spends)

Tallies(spends, l, n) == Balances(spends, l, n) /\ Records(spends, l, n) /\ Ties(spends, l, n)
Tallied     == phase \in Working => Tallies(unsigned.spends, ledger, pos - 1)
Screened    == Screens(shown, unsigned)
SignedTells ==
    Signed => /\ Tells(unsigned, unsigned.spends) /\ Conserves(unsigned)
              /\ Rest(unsigned.spends) = unsigned.fee
BooksInv == Tallied /\ Screened /\ SignedTells /\ SettlementTied

(* The hypothesis of the theorems: amounts are numbers, and exactly the    *)
(* CAT coins have an asset id.                                             *)
Sound(S) == \A s \in S : WellFormed(s)

LEMMA GateBundle ==
    ASSUME NEW S, Sound(S), GateInv(S)
    PROVE  SoundBundle(unsigned.spends)
<1>1. PICK spends : spends = unsigned.spends
  OBVIOUS
<1>2. spends \in Seq(S)
  BY <1>1 DEF GateInv
<1>3. IsSeq(spends)
  BY <1>2, SeqIsSeq
<1>4. \A i \in DOMAIN spends : WellFormed(spends[i])
  BY <1>2 DEF Sound
<1> QED BY <1>1, <1>3, <1>4 DEF SoundBundle

LEMMA EmptyTallies == \A spends : Tallies(spends, EmptyLedger, 0)
BY EmptyBalances, EmptyRecords, EmptyTies DEF Tallies

(* A call begins, or answers without a signature: the ledger is empty.     *)
LEMMA StartBooks ==
    ASSUME BooksInv, NEW p \in {"idle", "shown", "refused"} \cup Working, Start(p),
           Screens(shown', unsigned'), UNCHANGED unsigned
    PROVE  BooksInv'
<1>1. phase' = p /\ pos' = 1 /\ ledger' = EmptyLedger /\ unsigned' = unsigned
  BY DEF Start
<1>2. Tallied'
  <2>1. Tallies(unsigned.spends, EmptyLedger, 0)
    BY EmptyTallies
  <2>2. pos' - 1 = 0
    BY <1>1
  <2> QED BY <1>1, <2>1, <2>2 DEF Tallied
<1>3. SignedTells'
  BY <1>1 DEF SignedTells, Signed, Working
<1>4. Screened'
  BY DEF Screened
<1>5. SettlementTied'
  BY <1>1 DEF SettlementTied, Signed, Working
<1> QED BY <1>2, <1>3, <1>4, <1>5 DEF BooksInv

(* What the engine claims may be shown unverified.                         *)
LEMMA ClaimScreens == \A u : Screens(Rendered(u, FALSE), u)
BY DEF Screens, Rendered

LEMMA RefusedBooks ==
    ASSUME BooksInv, Refused
    PROVE  BooksInv'
<1>1. CASE Start("shown") /\ shown' = Rendered(unsigned, FALSE)
  <2>1. Screens(shown', unsigned') /\ UNCHANGED unsigned
    BY <1>1, ClaimScreens DEF Refused
  <2> QED BY <1>1, <2>1, StartBooks
<1>2. CASE Start("refused") /\ UNCHANGED shown
  <2>1. Screens(shown', unsigned') /\ UNCHANGED unsigned
    BY <1>2 DEF Refused, BooksInv, Screened
  <2> QED BY <1>2, <2>1, StartBooks
<1> QED BY <1>1, <1>2 DEF Refused

LEMMA AccountingBooks ==
    ASSUME NEW S, Sound(S), GateInv(S), BooksInv,
           \/ AccountCatClaim \/ AccountCatSend \/ AccountOptionTransfer
           \/ AccountSingletonLaunch \/ AccountNft
           \/ AccountSingletonMelt \/ AccountStandardSend \/ AccountSettlementClaim
    PROVE  BooksInv'
<1>1. Looking
  BY DEF AccountCatClaim, AccountCatSend, AccountOptionTransfer, AccountSingletonLaunch,
         AccountNft, AccountNftTransfer, AccountNftEveMint, AccountSingletonMelt,
         AccountStandardSend, AccountSettlementClaim
<1>2. PICK spends : spends = unsigned.spends
  OBVIOUS
<1>3. SoundBundle(spends)
  BY <1>2, GateBundle
<1>4. PICK n \in Nat : n = pos
  BY DEF GateInv, GateTypeOK
<1>5. n \in 1..Len(spends) /\ phase \in Working
  BY <1>1, <1>2, <1>4 DEF Looking, GateInv, GateTypeOK
<1>6. Tallies(spends, ledger, n - 1)
  BY <1>2, <1>4, <1>5 DEF BooksInv, Tallied
<1>7. Spend = spends[n]
  BY <1>2, <1>4 DEF Spend
<1>8. Accountable(Spend)
  <2>1. WellFormed(spends[n])
    BY <1>3, <1>5, SeqIs DEF SoundBundle
  <2> QED BY <1>6, <1>7, <2>1 DEF Accountable, Tallies, Balances
<1>9. PICK m : Accounted(m, Spend)
  BY <1>8, HandlersAdd
<1>10. IsLedger(m) /\ Adds(ledger, m, spends[n]) /\ Accounts(m)
  BY <1>7, <1>9 DEF Accounted
<1>11. CASE ~Representable(m)
  BY <1>10, <1>11, RefusedBooks DEF Accounts
<1>12. CASE Representable(m)
  <2>1. ledger' = m /\ pos' = pos + 1 /\ UNCHANGED <<unsigned, phase, shown>>
    BY <1>10, <1>12 DEF Accounts
  <2>2. Tallies(spends, m, n)
    <3>1. PICK l : l = ledger
      OBVIOUS
    <3>2. Balances(spends, m, n)
      BY <1>3, <1>5, <1>6, <1>10, <3>1, BalancesStep DEF Tallies
    <3>3. Records(spends, m, n)
      BY <1>3, <1>5, <1>6, <1>10, <3>1, RecordsStep DEF Tallies
    <3>4. Ties(spends, m, n)
      <4>1. n \in Nat \ {0}
        BY <1>5
      <4> QED BY <1>6, <1>10, <3>1, <4>1, TiesStep DEF Tallies
    <3> QED BY <3>2, <3>3, <3>4 DEF Tallies
  <2>3. pos' - 1 = n
    BY <1>4, <2>1
  <2>4. Tallied'
    BY <1>2, <2>1, <2>2, <2>3 DEF Tallied
  <2>5. Screened' /\ SignedTells' /\ SettlementTied'
    BY <1>5, <2>1 DEF BooksInv, Screened, SignedTells, SettlementTied, Signed, Working
  <2> QED BY <2>4, <2>5 DEF BooksInv
<1> QED BY <1>11, <1>12

(* At the end of the bundle the ledger speaks for all of it.               *)
LEMMA AnalyzedWhole ==
    ASSUME NEW S, Sound(S), GateInv(S), BooksInv, Analyzed
    PROVE  /\ SoundBundle(unsigned.spends)
           /\ Tallies(unsigned.spends, ledger, Len(unsigned.spends))
<1>1. PICK n \in Nat : n = pos
  BY DEF GateInv, GateTypeOK
<1>2. PICK L \in Nat : L = Len(unsigned.spends)
  BY DEF GateInv
<1>3. n - 1 = L /\ phase \in Working
  BY <1>1, <1>2 DEF Analyzed, GateInv, GateTypeOK
<1>4. Tallies(unsigned.spends, ledger, L)
  BY <1>1, <1>3 DEF BooksInv, Tallied
<1> QED BY <1>2, <1>4, GateBundle

(* Its summary of a bundle that passes, with its own fee.                  *)
LEMMA WholeSummary ==
    ASSUME NEW spends, SoundBundle(spends), NEW l, Tallies(spends, l, Len(spends)),
           Conserved(l, spends)
    PROVE  /\ Tells(Egress(l, spends), spends) /\ Egress(l, spends).fee = Rest(spends)
           /\ Lists(KeyFree(l, spends), spends) /\ KeyFree(l, spends).fee = Rest(spends)
<1>1. SameCounts(Left(spends), Egress(l, spends).outputs)
  BY SummariesTell DEF Tallies
<1>2. /\ Egress(l, spends).melted = Melts(spends) /\ Egress(l, spends).nfts = NftActs(spends)
      /\ KeyFree(l, spends).melted = Melts(spends) /\ KeyFree(l, spends).nfts = NftActs(spends)
      /\ \A o : Occurrences(o, Left(spends)) <= Occurrences(o, KeyFree(l, spends).outputs)
  BY SummariesTell DEF Tallies
<1>3. SameBag(Left(spends), Egress(l, spends).outputs)
  BY <1>1, SameBagItself, SameCountsBag
<1>4. Tells(Egress(l, spends), spends) /\ Lists(KeyFree(l, spends), spends)
  BY <1>2, <1>3, SameBagItself DEF Tells, Lists
<1>5. /\ TotalIn(XCH, spends) \in Nat /\ TotalOut(XCH, spends) \in Nat
      /\ EffectiveFee(l, spends) \in Int
      /\ TotalIn(XCH, spends) = TotalOut(XCH, spends) + EffectiveFee(l, spends)
  BY FeeIsTheRest DEF Tallies
<1>6. EffectiveFee(l, spends) = Rest(spends)
  BY <1>5 DEF Rest
<1>7. /\ Egress(l, spends).fee = EffectiveFee(l, spends)
      /\ KeyFree(l, spends).fee = EffectiveFee(l, spends)
  BY DEF Egress, KeyFree, Summarized
<1> QED BY <1>4, <1>6, <1>7

(* A summary that tells all hides nothing.                                 *)
LEMMA TellingLists ==
    ASSUME NEW spends, SoundBundle(spends), NEW w, Tells(w, spends)
    PROVE  Lists(w, spends)
<1>1. IsSeq(Left(spends))
  <2>1. PICK M : M = MadeUpTo(spends, Len(spends))
    OBVIOUS
  <2>2. IsSeq(M) /\ \A o \in ToSet(M) : IsOutput(o)
    BY <2>1, MadeOutputs
  <2>3. Left(spends) = LeftOf(M)
    BY <2>1, WholeBundle
  <2> QED BY <2>2, <2>3, VerifiedTellsAll DEF SameCounts
<1>2. ASSUME NEW o \in ToSet(Left(spends))
      PROVE  Occurrences(o, Left(spends)) <= Occurrences(o, w.outputs)
  <2>1. Occurrences(o, Left(spends)) \in Nat
    BY <1>1, OccurrencesCounted, CountNat DEF IsSeq
  <2>2. Occurrences(o, Left(spends)) = Occurrences(o, w.outputs)
    BY DEF Tells, SameBag
  <2> QED BY <2>1, <2>2
<1> QED BY <1>2 DEF Tells, Lists

LEMMA ShowBooks ==
    ASSUME NEW S, Sound(S), GateInv(S), BooksInv, Show \/ ShowKeyFree
    PROVE  BooksInv'
<1>1. PICK spends : spends = unsigned.spends
  OBVIOUS
<1>2. Analyzed /\ Conserved(ledger, spends) /\ Start("shown") /\ UNCHANGED unsigned
  BY <1>1 DEF Show, ShowKeyFree, Passes, Judged
<1>3. /\ Tells(Egress(ledger, spends), spends) /\ Egress(ledger, spends).fee = Rest(spends)
      /\ Lists(KeyFree(ledger, spends), spends) /\ KeyFree(ledger, spends).fee = Rest(spends)
  BY <1>1, <1>2, AnalyzedWhole, WholeSummary
<1>4. \/ shown' = Rendered(Egress(ledger, spends), TRUE)
      \/ shown' = Rendered(KeyFree(ledger, spends), FALSE)
  BY <1>1 DEF Show, ShowKeyFree
<1>5. Screens(shown', unsigned)
  <2>1. PICK w : w = shown'
    OBVIOUS
  <2>2. CASE w = Rendered(Egress(ledger, spends), TRUE)
    <3>1. Tells(w, spends) /\ w.fee = Rest(spends)
      BY <1>3, <2>2 DEF Tells, Rendered
    <3>2. Lists(w, spends)
      BY <1>1, <1>2, <3>1, AnalyzedWhole, TellingLists
    <3> QED BY <1>1, <2>1, <3>1, <3>2 DEF Screens
  <2>3. CASE w = Rendered(KeyFree(ledger, spends), FALSE)
    <3>1. Lists(w, spends) /\ w.fee = Rest(spends) /\ w.verified = FALSE
      BY <1>3, <2>3 DEF Lists, Rendered
    <3> QED BY <1>1, <2>1, <3>1 DEF Screens
  <2> QED BY <1>4, <2>1, <2>2, <2>3
<1> QED BY <1>2, <1>5, StartBooks

LEMMA SignBooks ==
    ASSUME NEW S, Sound(S), GateInv(S), BooksInv, SignBundle
    PROVE  BooksInv'
<1>1. PICK spends : spends = unsigned.spends
  OBVIOUS
<1>2. /\ Analyzed /\ Conserved(ledger, spends) /\ Start("signed") /\ UNCHANGED <<unsigned, shown>>
      /\ MatchesClaim(Egress(ledger, spends), unsigned)
  BY <1>1 DEF SignBundle, Passes, Judged
<1>3. SoundBundle(spends) /\ Tallies(spends, ledger, Len(spends))
  BY <1>1, <1>2, AnalyzedWhole
<1>4. /\ SameCounts(Left(spends), Egress(ledger, spends).outputs)
      /\ Egress(ledger, spends).melted = Melts(spends)
      /\ Egress(ledger, spends).nfts = NftActs(spends)
  BY <1>3, SummariesTell DEF Tallies
<1>5. /\ unsigned.fee = Egress(ledger, spends).fee
      /\ SameBag(Egress(ledger, spends).outputs, unsigned.outputs)
      /\ SameBag(Egress(ledger, spends).melted, unsigned.melted)
      /\ SameBag(Egress(ledger, spends).nfts, unsigned.nfts)
  BY <1>2 DEF MatchesClaim
<1>6. SameBag(Left(spends), unsigned.outputs)
  BY <1>4, <1>5, SameCountsBag
<1>7. Tells(unsigned, spends)
  BY <1>4, <1>5, <1>6 DEF Tells
<1>8. unsigned.fee = EffectiveFee(ledger, spends)
  BY <1>5 DEF Egress, Summarized
<1>9. /\ TotalIn(XCH, spends) \in Nat /\ TotalOut(XCH, spends) \in Nat
      /\ EffectiveFee(ledger, spends) \in Int
      /\ TotalIn(XCH, spends) = TotalOut(XCH, spends) + EffectiveFee(ledger, spends)
      /\ \A a \in Assets : TotalIn(a, spends) = TotalOut(a, spends)
  BY <1>2, <1>3, FeeIsTheRest DEF Tallies
<1>10. Conserves(unsigned) /\ Rest(spends) = unsigned.fee
  BY <1>1, <1>8, <1>9 DEF Conserves, Rest
<1>11. SignedTells'
  BY <1>1, <1>2, <1>7, <1>10 DEF SignedTells
<1>12. Tallied'
  BY <1>2 DEF Tallied, Start, Working
<1>13. Screened'
  BY <1>2 DEF BooksInv, Screened
<1>14. SettlementTied'
  <2>1. SinksBound(ledger)
    BY DEF SignBundle, Passes, Judged
  <2>2. \A i \in DOMAIN spends : Admissible(spends[i])
    <3>1. phase \in Working /\ pos - 1 = Len(spends)
      BY <1>1, <1>2 DEF Analyzed, GateInv, GateTypeOK
    <3>2. Passed(Len(spends))
      BY <3>1 DEF GateInv, SoFar
    <3>3. DOMAIN spends = 1..Len(spends)
      BY <1>3, SeqIs DEF SoundBundle
    <3> QED BY <1>1, <3>2, <3>3 DEF Passed
  <2>3. Unambiguous(SignedLegs(spends)) => Tied(SignedLegs(spends))
    BY <1>3, <2>1, <2>2, SinksAreTied DEF Tallies
  <2> QED BY <1>1, <1>2, <2>3 DEF SettlementTied
<1> QED BY <1>11, <1>12, <1>13, <1>14 DEF BooksInv

LEMMA UnseenScreens == \A u : Screens(Unseen, u)
BY DEF Screens, Unseen

LEMMA BooksInvStep ==
    ASSUME NEW Inputs, NEW S, Sound(S), GateInv(S), BooksInv,
           [GateNext(Inputs)]_gateVars
    PROVE  BooksInv'
<1>1. CASE Review \/ Display \/ Sign
  <2>1. UNCHANGED unsigned /\ Screens(shown', unsigned')
    BY <1>1 DEF Review, Display, Sign, BooksInv, Screened
  <2> QED BY <1>1, <2>1, StartBooks DEF Review, Display, Sign, Working
<1>2. CASE \/ AccountCatClaim \/ AccountCatSend \/ AccountOptionTransfer
           \/ AccountSingletonLaunch \/ AccountNft
           \/ AccountSingletonMelt \/ AccountStandardSend \/ AccountSettlementClaim
  BY <1>2, AccountingBooks
<1>3. CASE RefuseSpend \/ RefuseBundle
  BY <1>3, RefusedBooks DEF RefuseSpend, RefuseBundle
<1>4. CASE Show \/ ShowKeyFree
  BY <1>4, ShowBooks
<1>5. CASE SignBundle
  BY <1>5, SignBooks
<1>6. CASE Done
  <2>1. phase' = "idle" /\ shown' = Unseen
    BY <1>6 DEF Done, Start
  <2> QED BY <2>1, UnseenScreens DEF BooksInv, Tallied, Screened, SignedTells, SettlementTied,
                                      Signed, Working
<1>7. CASE \E u \in Inputs : Receive(u)
  <2>1. phase' = "received" /\ shown' = Unseen
    BY <1>7 DEF Receive, GateInv, GateTypeOK
  <2> QED BY <2>1, UnseenScreens DEF BooksInv, Tallied, Screened, SignedTells, SettlementTied,
                                      Signed, Working
<1>8. CASE UNCHANGED gateVars
  BY <1>8 DEF gateVars, BooksInv, Tallied, Screened, SignedTells, SettlementTied, Signed
<1> QED BY <1>1, <1>2, <1>3, <1>4, <1>5, <1>6, <1>7, <1>8 DEF GateNext, GateStep

LEMMA BooksInvInit == GateInit => BooksInv
BY UnseenScreens DEF GateInit, BooksInv, Tallied, Screened, SignedTells, SettlementTied,
                     Signed, Working

LEMMA BooksSuffice ==
    ASSUME NEW S, Sound(S), GateInv(S), BooksInv
    PROVE  ConservesValue /\ NothingUnseen
<1>1. ConservesValue
  BY DEF BooksInv, SignedTells, Conserves, ConservesValue
<1>2. ASSUME Signed, shown # Unseen
      PROVE  Lists(shown, unsigned.spends) /\ shown.fee = unsigned.fee
  <2>1. CASE shown = Rendered(unsigned, FALSE)
    <3>1. Tells(shown, unsigned.spends)
      BY <1>2, <2>1 DEF BooksInv, SignedTells, Tells, Rendered
    <3>2. Lists(shown, unsigned.spends)
      BY <3>1, GateBundle, TellingLists
    <3> QED BY <2>1, <3>2 DEF Rendered
  <2>2. CASE Lists(shown, unsigned.spends) /\ shown.fee = Rest(unsigned.spends)
    BY <1>2, <2>2 DEF BooksInv, SignedTells
  <2> QED BY <1>2, <2>1, <2>2 DEF BooksInv, Screened, Screens
<1>3. NothingUnseen
  BY <1>2 DEF BooksInv, SignedTells, Screened, Screens, NothingUnseen
<1> QED BY <1>1, <1>3

-----------------------------------------------------------------------------
(* Every total of the ledger stays a u64 and analyze never looks past the  *)
(* bundle, whatever the gate is handed.                                    *)
THEOREM GateTypeCorrect ==
    ASSUME NEW CONSTANT Inputs, NEW CONSTANT S, Bundles(Inputs, S)
    PROVE  GateSpec(Inputs) => []GateTypeOK
<1>1. GateInit => GateInv(S)
  BY GateInvInit
<1>2. GateInv(S) /\ [GateNext(Inputs)]_gateVars => GateInv(S)'
  BY GateInvStep
<1>3. GateInv(S) => GateTypeOK
  BY DEF GateInv
<1> QED BY <1>1, <1>2, <1>3, PTL DEF GateSpec

(* Whatever the gate is handed, it signs only what SignsOnlyCommitted      *)
(* allows (account_coin, sign_unsigned).                                   *)
THEOREM GateSignsCommitted ==
    ASSUME NEW CONSTANT Inputs, NEW CONSTANT S, Bundles(Inputs, S)
    PROVE  GateSpec(Inputs) => []SignsOnlyCommitted
<1>1. GateInit => GateInv(S)
  BY GateInvInit
<1>2. GateInv(S) /\ [GateNext(Inputs)]_gateVars => GateInv(S)'
  BY GateInvStep
<1>3. GateInv(S) => SignsOnlyCommitted
  BY GateInvSuffices
<1> QED BY <1>1, <1>2, <1>3, PTL DEF GateSpec

(* Whatever bundle the gate signs, the coins it spends are worth the coins *)
(* it creates and the fee its summary names, asset by asset, whatever the  *)
(* number of spends and of conditions (analyze, enforce_bundle_conservation).*)
THEOREM GateConservesValue ==
    ASSUME NEW CONSTANT Inputs, NEW CONSTANT S, Bundles(Inputs, S), Sound(S)
    PROVE  GateSpec(Inputs) => []ConservesValue
<1>1. GateInit => GateInv(S) /\ BooksInv
  BY GateInvInit, BooksInvInit
<1>2. GateInv(S) /\ BooksInv /\ [GateNext(Inputs)]_gateVars => (GateInv(S) /\ BooksInv)'
  BY GateInvStep, BooksInvStep
<1>3. GateInv(S) /\ BooksInv => ConservesValue
  BY BooksSuffice
<1> QED BY <1>1, <1>2, <1>3, PTL DEF GateSpec

(* Whatever the gate signs was claimed in full by the summary it came with *)
(* and shown in full by the screen (decode_verified, decode, sign_unsigned).*)
THEOREM GateNothingUnseen ==
    ASSUME NEW CONSTANT Inputs, NEW CONSTANT S, Bundles(Inputs, S), Sound(S)
    PROVE  GateSpec(Inputs) => []NothingUnseen
<1>1. GateInit => GateInv(S) /\ BooksInv
  BY GateInvInit, BooksInvInit
<1>2. GateInv(S) /\ BooksInv /\ [GateNext(Inputs)]_gateVars => (GateInv(S) /\ BooksInv)'
  BY GateInvStep, BooksInvStep
<1>3. GateInv(S) /\ BooksInv => NothingUnseen
  BY BooksSuffice
<1> QED BY <1>1, <1>2, <1>3, PTL DEF GateSpec

(* In whatever the gate signs, what is committed to a settlement is tied   *)
(* to an announcement through the concurrency ring, however long the ring  *)
(* and however the announcement is reached (tied_to_announcement).         *)
THEOREM GateSettlementTied ==
    ASSUME NEW CONSTANT Inputs, NEW CONSTANT S, Bundles(Inputs, S), Sound(S)
    PROVE  GateSpec(Inputs) => []SettlementTied
<1>1. GateInit => GateInv(S) /\ BooksInv
  BY GateInvInit, BooksInvInit
<1>2. GateInv(S) /\ BooksInv /\ [GateNext(Inputs)]_gateVars => (GateInv(S) /\ BooksInv)'
  BY GateInvStep, BooksInvStep
<1>3. BooksInv => SettlementTied
  BY DEF BooksInv
<1> QED BY <1>1, <1>2, <1>3, PTL DEF GateSpec
=============================================================================
