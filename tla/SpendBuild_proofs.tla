--------------------------- MODULE SpendBuild_proofs ---------------------------
(***************************************************************************)
(* What the builders hand out, for any wallet and any request: what the    *)
(* selection of coins comes to, and that every coin spend built is one the *)
(* gate's theorems are about.                                              *)
(***************************************************************************)
EXTENDS SpendPipeline, SpendGate_proofs

-----------------------------------------------------------------------------
(***************************************************************************)
(* Coins in order.                                                         *)
(***************************************************************************)

(* A sequence of all the elements of S, each once.                         *)
Enumerates(s, S) ==
    /\ s \in Seq(S) /\ ToSet(s) = S
    /\ Len(s) = Cardinality(S) /\ DOMAIN s = 1..Cardinality(S)
    /\ \A i, j \in DOMAIN s : s[i] = s[j] => i = j

LEMMA EnumerationIs ==
    ASSUME NEW S, IsFiniteSet(S), NEW s \in SetToSeqs(S)
    PROVE  Enumerates(s, S)
<1>1. PICK n \in Nat : n = Cardinality(S)
  BY FS_CardinalityType
<1>2. s \in [1..n -> S] /\ \A i, j \in 1..n : s[i] = s[j] => i = j
  BY <1>1 DEF SetToSeqs
<1>3. s \in Injection(1..n, S)
  BY <1>2 DEF Injection, IsInjective
<1>4. Cardinality(1..n) = n
  BY FS_Interval
<1>5. s \in Surjection(1..n, S)
  BY <1>1, <1>3, <1>4, FS_Injection
<1>6. s \in Seq(S) /\ Len(s) = n /\ DOMAIN s = 1..n
  BY <1>2
<1>7. ToSet(s) = S
  BY <1>5, <1>6 DEF Surjection, ToSet
<1> QED BY <1>1, <1>2, <1>6, <1>7 DEF Enumerates

LEMMA EnumerationIn ==
    ASSUME NEW S, NEW s, Enumerates(s, S)
    PROVE  s \in SetToSeqs(S)
<1>1. Len(s) \in Nat /\ s \in [1..Len(s) -> S]
  BY DEF Enumerates
<1> QED BY <1>1 DEF Enumerates, SetToSeqs

Descending(s) == \A i, j \in DOMAIN s : i < j => AmountOf(s[i]) >= AmountOf(s[j])

(* The coins of a wallet, a finite set of them.                            *)
Purse(S) == IsFiniteSet(S) /\ \A c \in S : IsCoin(c)

(* Adding the smallest coin at the end.                                    *)
LEMMA EnumerationGrows ==
    ASSUME NEW S, IsFiniteSet(S), NEW x \in S, NEW s, Enumerates(s, S \ {x})
    PROVE  Enumerates(Append(s, x), S)
<1>1. PICK n \in Nat : n = Cardinality(S \ {x}) /\ Cardinality(S) = n + 1
  BY FS_RemoveElement, FS_CardinalityType, FS_EmptySet
<1>2. s \in Seq(S \ {x}) /\ Len(s) = n /\ DOMAIN s = 1..n /\ ToSet(s) = S \ {x}
  BY <1>1 DEF Enumerates
<1>3. PICK t : t = Append(s, x)
  OBVIOUS
<1>4. /\ t \in Seq(S) /\ Len(t) = n + 1 /\ DOMAIN t = 1..(n + 1)
      /\ \A i \in 1..n : t[i] = s[i]
      /\ t[n + 1] = x
  BY <1>2, <1>3
<1>5. ToSet(t) = S
  <2>1. \A y \in S \ {x} : \E i \in 1..n : s[i] = y
    BY <1>2 DEF ToSet
  <2>2. \A y \in S : \E i \in 1..(n + 1) : t[i] = y
    BY <2>1, <1>4
  <2>3. \A i \in 1..(n + 1) : t[i] \in S
    BY <1>4
  <2> QED BY <2>2, <2>3, <1>4 DEF ToSet
<1>6. ASSUME NEW i \in 1..(n + 1), NEW j \in 1..(n + 1), t[i] = t[j]
      PROVE  i = j
  <2>1. \A k \in 1..n : s[k] # x
    BY <1>2
  <2>2. \A k, l \in 1..n : s[k] = s[l] => k = l
    BY <1>2 DEF Enumerates
  <2> QED BY <1>4, <1>6, <2>1, <2>2
<1> QED BY <1>1, <1>3, <1>4, <1>5, <1>6 DEF Enumerates

LEMMA LeastCoin ==
    ASSUME NEW S, Purse(S), S # {}
    PROVE  \E x \in S : \A y \in S : AmountOf(x) <= AmountOf(y)
<1> DEFINE T == {AmountOf(c) : c \in S}
<1>1. T \subseteq Nat /\ T # {}
  BY DEF Purse, IsCoin
<1>2. PICK n \in T : \A m \in T : n <= m
  <2> HIDE DEF T
  <2> QED BY <1>1, LeastNatural
<1> QED BY <1>2

LEMMA OrderExists ==
    ASSUME NEW S, Purse(S)
    PROVE  \E s \in SetToSeqs(S) : Descending(s)
<1>1. PICK N \in Nat : N = Cardinality(S)
  BY FS_CardinalityType DEF Purse
<1> DEFINE T == {n \in 0..N : \A U \in SUBSET S : Cardinality(U) = n =>
                                 \E s : Enumerates(s, U) /\ Descending(s)}
<1>2. 0 \in T
  <2> SUFFICES ASSUME NEW U \in SUBSET S, Cardinality(U) = 0
               PROVE  Enumerates(<<>>, U) /\ Descending(<<>>)
    OBVIOUS
  <2>1. U = {}
    BY FS_Subset, FS_EmptySet DEF Purse
  <2> QED BY <2>1 DEF Enumerates, Descending, ToSet
<1>3. ASSUME NEW n \in 1..N, n - 1 \in T
      PROVE  n \in T
  <2> SUFFICES ASSUME NEW U \in SUBSET S, Cardinality(U) = n
               PROVE  \E s : Enumerates(s, U) /\ Descending(s)
    OBVIOUS
  <2>1. Purse(U) /\ U # {}
    BY FS_Subset, FS_EmptySet DEF Purse
  <2>2. PICK x \in U : \A y \in U : AmountOf(x) <= AmountOf(y)
    BY <2>1, LeastCoin
  <2>3. U \ {x} \in SUBSET S /\ Cardinality(U \ {x}) = n - 1
    BY <2>1, FS_RemoveElement DEF Purse
  <2>4. PICK s : Enumerates(s, U \ {x}) /\ Descending(s)
    BY <1>3, <2>3
  <2>5. PICK t : t = Append(s, x) /\ Enumerates(t, U)
    BY <2>1, <2>4, EnumerationGrows DEF Purse
  <2>6. /\ Len(s) = n - 1 /\ DOMAIN s = 1..(n - 1)
        /\ \A i \in 1..(n - 1) : s[i] \in U /\ t[i] = s[i]
        /\ t[n] = x /\ DOMAIN t = 1..n
    <3>1. s \in Seq(U) /\ Len(s) = n - 1 /\ DOMAIN s = 1..(n - 1)
      BY <2>3, <2>4 DEF Enumerates
    <3> QED BY <2>5, <3>1
  <2>7. \A y \in U : AmountOf(y) \in Nat
    BY <2>1 DEF Purse, IsCoin
  <2>8. Descending(t)
    <3> SUFFICES ASSUME NEW i \in 1..n, NEW j \in 1..n, i < j
                 PROVE  AmountOf(t[i]) >= AmountOf(t[j])
      BY <2>6 DEF Descending
    <3>1. CASE j = n
      BY <3>1, <2>2, <2>6, <2>7
    <3>2. CASE j # n
      <4>1. i \in 1..(n - 1) /\ j \in 1..(n - 1)
        BY <3>2
      <4> QED BY <4>1, <2>4, <2>6 DEF Descending
    <3> QED BY <3>1, <3>2
  <2> QED BY <2>5, <2>8
<1>4. \A n \in 0..N : n \in T
  <2> HIDE DEF T
  <2> QED BY <1>2, <1>3, InductionUpTo
<1>5. N \in T
  BY <1>4
<1> QED BY <1>1, <1>5, EnumerationIn

(* What ordered_high_value_first returns.                                  *)
Ordered(s, S) == Enumerates(s, S) /\ Descending(s)

LEMMA HighValueFirstIs == ASSUME NEW S, Purse(S) PROVE Ordered(HighValueFirst(S), S)
<1>1. \E s \in SetToSeqs(S) : Descending(s)
  BY OrderExists
<1>2. HighValueFirst(S) \in SetToSeqs(S) /\ Descending(HighValueFirst(S))
  BY <1>1 DEF HighValueFirst, Descending
<1> QED BY <1>2, EnumerationIs DEF Ordered, Purse

(* Some of them, each once.                                                *)
Takes(s, S) == s \in Seq(S) /\ \A i, j \in DOMAIN s : s[i] = s[j] => i = j
(* The first k elements of s.                                              *)
IsFirst(p, s, k) ==
    /\ p = SubSeq(s, 1, k) /\ Len(p) = k /\ DOMAIN p = 1..k
    /\ \A i \in 1..k : p[i] = s[i]

LEMMA FirstTakes ==
    ASSUME NEW S, NEW s, Takes(s, S), NEW k \in 0..Len(s)
    PROVE  IsFirst(SubSeq(s, 1, k), s, k) /\ Takes(SubSeq(s, 1, k), S)
<1>1. s \in Seq(S) /\ Len(s) \in Nat /\ DOMAIN s = 1..Len(s)
  BY DEF Takes
<1>2. PICK p : p = SubSeq(s, 1, k)
  OBVIOUS
<1>3. p \in Seq(S) /\ Len(p) = k /\ DOMAIN p = 1..k /\ \A i \in 1..k : p[i] = s[i]
  BY <1>1, <1>2
<1>4. \A i, j \in 1..k : p[i] = p[j] => i = j
  BY <1>1, <1>3 DEF Takes
<1> QED BY <1>2, <1>3, <1>4 DEF IsFirst, Takes

LEMMA OrderTakes == ASSUME NEW S, NEW s, Ordered(s, S) PROVE Takes(s, S)
BY DEF Ordered, Enumerates, Takes

LEMMA LargestIs ==
    ASSUME NEW S, Purse(S), NEW n \in Nat
    PROVE  \E k \in 0..Cardinality(S) :
              /\ k = Smaller(n, Cardinality(S))
              /\ IsFirst(Largest(S, n), HighValueFirst(S), k) /\ Takes(Largest(S, n), S)
<1>1. PICK s : s = HighValueFirst(S) /\ Ordered(s, S) /\ Takes(s, S)
  BY HighValueFirstIs, OrderTakes
<1>2. Cardinality(S) \in Nat /\ Len(s) = Cardinality(S)
  BY <1>1, FS_CardinalityType DEF Purse, Ordered, Enumerates
<1>3. PICK k \in 0..Len(s) : k = Smaller(n, Len(s))
  BY <1>2 DEF Smaller
<1>4. Largest(S, n) = SubSeq(s, 1, k)
  BY <1>1, <1>3 DEF Largest
<1> QED BY <1>1, <1>2, <1>3, <1>4, FirstTakes

LEMMA ReachingIs ==
    ASSUME NEW S, NEW s, Takes(s, S), NEW target
    PROVE  \E k \in 0..Len(s) :
              /\ IsFirst(Reaching(s, target), s, k) /\ Takes(Reaching(s, target), S)
              /\ \A n \in 0..Len(s) : U64Sum(SubSeq(s, 1, n)) >= target => k <= n
              /\ (\E n \in 0..Len(s) : U64Sum(SubSeq(s, 1, n)) >= target)
                    => U64Sum(Reaching(s, target)) >= target
<1>1. PICK L \in Nat : L = Len(s)
  BY DEF Takes
<1>2. PICK enough : enough = {n \in 0..L : U64Sum(SubSeq(s, 1, n)) >= target}
  OBVIOUS
<1>3. enough \subseteq Nat /\ enough \subseteq 0..L
  BY <1>2
<1>4. CASE enough = {}
  <2>1. Reaching(s, target) = SubSeq(s, 1, L)
    BY <1>1, <1>2, <1>4 DEF Reaching
  <2>2. L \in 0..Len(s)
    BY <1>1
  <2>3. IsFirst(SubSeq(s, 1, L), s, L) /\ Takes(SubSeq(s, 1, L), S)
    BY <2>2, FirstTakes
  <2> QED BY <1>1, <1>2, <1>4, <2>1, <2>2, <2>3
<1>5. CASE enough # {}
  <2>1. \E k \in enough : \A n \in enough : k <= n
    BY <1>3, <1>5, LeastNatural
  <2>2. PICK k : k = Min(enough)
    OBVIOUS
  <2>3. k \in enough /\ \A n \in enough : k <= n
    BY <2>1, <2>2 DEF Min
  <2>4. Reaching(s, target) = SubSeq(s, 1, k)
    BY <1>1, <1>2, <1>5, <2>2 DEF Reaching
  <2>5. k \in 0..Len(s)
    BY <1>1, <1>3, <2>3
  <2>6. IsFirst(SubSeq(s, 1, k), s, k) /\ Takes(SubSeq(s, 1, k), S)
    BY <2>5, FirstTakes
  <2>7. U64Sum(SubSeq(s, 1, k)) >= target
    BY <1>2, <2>3
  <2>8. \A n \in 0..L : U64Sum(SubSeq(s, 1, n)) >= target => k <= n
    BY <1>2, <2>3
  <2> QED BY <1>1, <2>4, <2>5, <2>6, <2>7, <2>8
<1> QED BY <1>4, <1>5

(* A selection is a choice among the coins, and the same every time.       *)
LEMMA SelectionTakes ==
    ASSUME NEW S, Purse(S), NEW target, NEW cap, NEW t \in SelectOrFail(S, target, cap)
    PROVE  Takes(t, S) /\ t = Reaching(HighValueFirst(S), target)
<1>1. t = Reaching(HighValueFirst(S), target)
  BY DEF SelectOrFail, SelectForSpend
<1>2. Takes(HighValueFirst(S), S)
  BY HighValueFirstIs, OrderTakes
<1> QED BY <1>1, <1>2, ReachingIs

(* Sums of amounts.                                                        *)
Coins(s) == IsSeq(s) /\ \A i \in DOMAIN s : IsCoin(s[i])

LEMMA TakenCoins == ASSUME NEW S, Purse(S), NEW s, Takes(s, S) PROVE Coins(s)
BY SeqIsSeq DEF Coins, Takes, Purse

LEMMA SumNat ==
    ASSUME NEW s, Coins(s)
    PROVE  /\ SumOver(AmountOf, s) \in Nat
           /\ U64Sum(s) \in Nat /\ U64Sum(s) <= Max64 /\ U64Sum(s) <= SumOver(AmountOf, s)
<1>1. PICK ns : ns = [i \in DOMAIN s |-> AmountOf(s[i])]
  OBVIOUS
<1>2. DOMAIN s = 1..Len(s) /\ Len(s) \in Nat /\ \A i \in DOMAIN s : AmountOf(s[i]) \in Nat
  BY SeqIs DEF Coins, IsCoin
<1>3. ns \in Seq(Nat)
  BY <1>1, <1>2
<1>4. PICK m \in Nat : m = Total(ns)
  BY <1>3, TotalNat
<1>5. SumOver(AmountOf, s) = m
  BY <1>1, <1>4 DEF SumOver
<1>6. m % (Max64 + 1) \in 0..Max64 /\ m % (Max64 + 1) <= m
  BY Max64Assumption
<1> QED BY <1>5, <1>6, Max64Assumption DEF U64Sum, U64

-----------------------------------------------------------------------------
(***************************************************************************)
(* Conditions and coin spends.                                             *)
(***************************************************************************)

PricedOne(c) == c.op \in {"create_coin", "reserve_fee"} => c.amount \in Nat

LEMMA PricedIs ==
    ASSUME NEW conds, IsSeq(conds)
    PROVE  Priced(conds) <=> \A i \in DOMAIN conds : PricedOne(conds[i])
BY SeqIs DEF Priced, PricedOne, ToSet

LEMMA NothingPriced == Priced(<<>>)
BY DEF Priced, IsSeq, ToSet

LEMMA OnePriced == ASSUME NEW c, PricedOne(c) PROVE Priced(<<c>>)
<1>1. <<c>> \in Seq({c}) /\ DOMAIN <<c>> = 1..1 /\ <<c>>[1] = c
  OBVIOUS
<1>2. IsSeq(<<c>>)
  BY <1>1, SeqIsSeq
<1> QED BY <1>1, <1>2, PricedIs

LEMMA TwoPriced ==
    ASSUME NEW c, NEW d, PricedOne(c), PricedOne(d)
    PROVE  Priced(<<c, d>>)
<1>1. <<c, d>> \in Seq({c, d}) /\ DOMAIN <<c, d>> = 1..2 /\ <<c, d>>[1] = c /\ <<c, d>>[2] = d
  OBVIOUS
<1>2. IsSeq(<<c, d>>)
  BY <1>1, SeqIsSeq
<1> QED BY <1>1, <1>2, PricedIs

(* Two sequences, one behind the other.                                    *)
Behind(v, s, t) ==
    /\ IsSeq(v) /\ Len(v) = Len(s) + Len(t) /\ DOMAIN v = 1..(Len(s) + Len(t))
    /\ \A i \in DOMAIN s : v[i] = s[i]
    /\ \A i \in DOMAIN t : v[Len(s) + i] = t[i]
    /\ \A i \in DOMAIN v : \/ i \in DOMAIN s /\ v[i] = s[i]
                           \/ i - Len(s) \in DOMAIN t /\ v[i] = t[i - Len(s)]

LEMMA ConcatIs == ASSUME NEW s, NEW t, IsSeq(s), IsSeq(t) PROVE Behind(s \o t, s, t)
<1>1. PICK X : X = ToSet(s) \cup ToSet(t)
  OBVIOUS
<1>2. s \in Seq(X) /\ t \in Seq(X)
  <2>1. s \in Seq(ToSet(s)) /\ t \in Seq(ToSet(t))
    BY DEF IsSeq
  <2> QED BY <1>1, <2>1
<1>3. PICK K \in Nat : K = Len(s) /\ DOMAIN s = 1..K
  BY <1>2
<1>4. PICK L \in Nat : L = Len(t) /\ DOMAIN t = 1..L
  BY <1>2
<1>5. PICK v : v = s \o t
  OBVIOUS
<1>6. /\ v \in Seq(X) /\ Len(v) = K + L /\ DOMAIN v = 1..(K + L)
      /\ \A i \in 1..(K + L) : v[i] = IF i <= K THEN s[i] ELSE t[i - K]
  BY <1>2, <1>3, <1>4, <1>5
<1>7. IsSeq(v)
  BY <1>6, SeqIsSeq
<1>8. \A i \in 1..L : K + i \in 1..(K + L) /\ ~(K + i <= K) /\ (K + i) - K = i
  OBVIOUS
<1>9. \A i \in 1..L : v[K + i] = t[i]
  BY <1>6, <1>8
<1>10. \A i \in 1..K : v[i] = s[i]
  BY <1>6
<1>11. \A i \in 1..(K + L) : \/ i \in 1..K /\ v[i] = s[i]
                             \/ i - K \in 1..L /\ v[i] = t[i - K]
  BY <1>6
<1> QED BY <1>3, <1>4, <1>5, <1>6, <1>7, <1>9, <1>10, <1>11 DEF Behind

LEMMA PricedConcat ==
    ASSUME NEW s, NEW t, Priced(s), Priced(t)
    PROVE  Priced(s \o t)
<1>1. IsSeq(s) /\ IsSeq(t)
  BY DEF Priced
<1>2. PICK v : v = s \o t /\ Behind(v, s, t)
  BY <1>1, ConcatIs
<1>3. /\ \A i \in DOMAIN s : PricedOne(s[i])
      /\ \A i \in DOMAIN t : PricedOne(t[i])
  BY <1>1, PricedIs
<1>4. \A i \in DOMAIN v : PricedOne(v[i])
  BY <1>2, <1>3 DEF Behind
<1> QED BY <1>2, <1>4, PricedIs DEF Behind

LEMMA PayLegsPriced ==
    ASSUME NEW legs, LegsOK(legs)
    PROVE  /\ Priced(PayLegs(legs)) /\ Len(PayLegs(legs)) = Len(legs)
           /\ DOMAIN PayLegs(legs) = DOMAIN legs
           /\ \A i \in DOMAIN legs : PayLegs(legs)[i] = CreateCoin(legs[i].to, legs[i].amount)
<1>1. Len(legs) \in Nat /\ DOMAIN legs = 1..Len(legs)
  BY SeqIs DEF LegsOK
<1>2. PICK p : p = PayLegs(legs) /\ p = [i \in 1..Len(legs) |-> CreateCoin(legs[i].to, legs[i].amount)]
  BY <1>1 DEF PayLegs
<1>3. p = [i \in 1..Len(legs) |-> p[i]]
  BY <1>2
<1>4. IsSeq(p) /\ Len(p) = Len(legs) /\ DOMAIN p = 1..Len(legs)
  BY <1>1, <1>3, MadeSeq
<1>5. \A i \in DOMAIN p : PricedOne(p[i])
  BY <1>1, <1>2, <1>4 DEF LegsOK, PricedOne, CreateCoin
<1> QED BY <1>1, <1>2, <1>4, <1>5, PricedIs

LEMMA OneLeg == ASSUME NEW leg, leg.amount \in Nat PROVE LegsOK(<<leg>>)
<1>1. <<leg>> \in Seq({leg}) /\ DOMAIN <<leg>> = 1..1 /\ <<leg>>[1] = leg
  OBVIOUS
<1>2. IsSeq(<<leg>>)
  BY <1>1, SeqIsSeq
<1> QED BY <1>1, <1>2 DEF LegsOK

LEMMA ChangePriced ==
    ASSUME NEW ph, NEW n \in Int
    PROVE  Priced(Change(ph, n))
<1>1. CASE n > 0
  <2>1. PricedOne(CreateCoin(ph, n))
    BY <1>1 DEF PricedOne, CreateCoin
  <2> QED BY <1>1, <2>1, OnePriced DEF Change
<1>2. CASE ~(n > 0)
  BY <1>2, NothingPriced DEF Change
<1> QED BY <1>1, <1>2

LEMMA FeePriced ==
    ASSUME NEW fee \in Nat
    PROVE  Priced(Fee(fee))
<1>1. PricedOne(ReserveFee(fee))
  BY DEF PricedOne, ReserveFee
<1> QED BY <1>1, OnePriced, NothingPriced DEF Fee

LEMMA PayoutNat ==
    ASSUME NEW legs, LegsOK(legs)
    PROVE  Payout(legs) \in Nat
<1>1. PICK ns : ns = [i \in DOMAIN legs |-> legs[i].amount]
  OBVIOUS
<1>2. ns \in Seq(Nat)
  BY <1>1, SeqIs DEF LegsOK
<1>3. Payout(legs) = Total(ns)
  BY <1>1 DEF Payout, SumOver
<1> QED BY <1>2, <1>3, TotalNat

LEMMA PaidFromPriced ==
    ASSUME NEW w, NEW coins, NEW legs, Coins(coins), LegsOK(legs)
    PROVE  Priced(PaidFrom(w, coins, legs))
<1>1. PICK n \in Int : n = U64Sum(coins) - Payout(legs)
  BY SumNat, PayoutNat
<1>2. Priced(Change(w.change, n))
  BY <1>1, ChangePriced
<1> QED BY <1>1, <1>2, PayLegsPriced, PricedConcat DEF PaidFrom

(* A coin spend the gate's theorems are about.                             *)
Proper(s)     == WellFormed(s) /\ IsCoin(s.coin)
Proposed(ss)  == IsSeq(ss) /\ \A i \in DOMAIN ss : Proper(ss[i])

LEMMA NothingProposed == Proposed(<<>>)
BY DEF Proposed, IsSeq, ToSet

LEMMA OneProposed == ASSUME NEW s, Proper(s) PROVE Proposed(<<s>>)
<1>1. <<s>> \in Seq({s}) /\ DOMAIN <<s>> = 1..1 /\ <<s>>[1] = s
  OBVIOUS
<1>2. IsSeq(<<s>>)
  BY <1>1, SeqIsSeq
<1> QED BY <1>1, <1>2 DEF Proposed

LEMMA ProposedConcat ==
    ASSUME NEW s, NEW t, Proposed(s), Proposed(t)
    PROVE  Proposed(s \o t)
<1>1. PICK v : v = s \o t /\ Behind(v, s, t)
  BY ConcatIs DEF Proposed
<1> QED BY <1>1 DEF Behind, Proposed

LEMMA ProposedFlat ==
    ASSUME NEW ss, IsSeq(ss), \A i \in DOMAIN ss : Proposed(ss[i])
    PROVE  Proposed(FlattenSeq(ss))
<1>1. Len(ss) \in Nat /\ DOMAIN ss = 1..Len(ss) /\ ss = [i \in 1..Len(ss) |-> ss[i]]
  BY SeqIs
<1>2. PICK X : X = UNION {ToSet(ss[i]) : i \in 1..Len(ss)}
  OBVIOUS
<1>3. \A x \in X : Proper(x)
  <2> SUFFICES ASSUME NEW i \in 1..Len(ss), NEW x \in ToSet(ss[i])
               PROVE  Proper(x)
    BY <1>2
  <2>1. Proposed(ss[i])
    BY <1>1
  <2> QED BY <2>1 DEF Proposed, ToSet
<1>4. \A i \in 1..Len(ss) : ss[i] \in Seq(X)
  <2> SUFFICES ASSUME NEW i \in 1..Len(ss)
               PROVE  ss[i] \in Seq(X)
    OBVIOUS
  <2>1. ss[i] \in Seq(ToSet(ss[i])) /\ ToSet(ss[i]) \subseteq X
    BY <1>1, <1>2 DEF Proposed, IsSeq
  <2> QED BY <2>1
<1>5. ss \in Seq(Seq(X))
  BY <1>1, <1>4
<1>6. PICK v : v = FlattenSeq(ss) /\ v \in Seq(X)
  BY <1>5, FlattenType
<1>7. \A i \in DOMAIN v : Proper(v[i])
  BY <1>3, <1>6
<1> QED BY <1>6, <1>7, SeqIsSeq DEF Proposed

LEMMA StandardProper ==
    ASSUME NEW c, IsCoin(c), NEW conds, Priced(conds)
    PROVE  Proper(StandardSpend(c, conds))
BY DEF Proper, WellFormed, StandardSpend, CoinSpend, IsCoin, XCH

LEMMA CatProper ==
    ASSUME NEW c, IsCoin(c), NEW conds, Priced(conds), NEW asset \in Assets
    PROVE  Proper(CatSpend(asset, c, conds))
BY AssetsAssumption DEF Proper, WellFormed, CatSpend, CoinSpend, IsCoin

LEMMA LinkedProposed ==
    ASSUME NEW coins, Coins(coins), NEW conds, Priced(conds)
    PROVE  Proposed(Linked(coins, conds))
<1>1. Len(coins) \in Nat /\ DOMAIN coins = 1..Len(coins)
  BY SeqIs DEF Coins
<1>2. PICK p : p = Linked(coins, conds) /\ p = [i \in 1..Len(coins) |->
        StandardSpend(coins[i], IF i = 1 THEN conds ELSE <<ConcurrentSpend(coins[1])>>)]
  BY <1>1 DEF Linked
<1>3. IsSeq(p) /\ DOMAIN p = 1..Len(coins)
  <2>1. p = [i \in 1..Len(coins) |-> p[i]]
    BY <1>2
  <2> QED BY <1>1, <2>1, MadeSeq
<1>4. Priced(<<ConcurrentSpend(coins[1])>>)
  <2>1. PricedOne(ConcurrentSpend(coins[1]))
    BY DEF PricedOne, ConcurrentSpend
  <2> QED BY <2>1, OnePriced
<1>5. ASSUME NEW i \in 1..Len(coins) PROVE Proper(p[i])
  <2>1. IsCoin(coins[i])
    BY <1>1 DEF Coins
  <2>2. Priced(IF i = 1 THEN conds ELSE <<ConcurrentSpend(coins[1])>>)
    BY <1>4
  <2> QED BY <1>2, <2>1, <2>2, StandardProper
<1> QED BY <1>2, <1>3, <1>5 DEF Proposed

LEMMA CatRingProposed ==
    ASSUME NEW asset \in Assets, NEW coins, Coins(coins), NEW conds, Priced(conds)
    PROVE  Proposed(CatRing(asset, coins, conds))
<1>1. Len(coins) \in Nat /\ DOMAIN coins = 1..Len(coins)
  BY SeqIs DEF Coins
<1>2. PICK p : p = CatRing(asset, coins, conds) /\ p = [i \in 1..Len(coins) |->
        CatSpend(asset, coins[i], IF i = 1 THEN conds ELSE <<>>)]
  BY <1>1 DEF CatRing
<1>3. IsSeq(p) /\ DOMAIN p = 1..Len(coins)
  <2>1. p = [i \in 1..Len(coins) |-> p[i]]
    BY <1>2
  <2> QED BY <1>1, <2>1, MadeSeq
<1>5. ASSUME NEW i \in 1..Len(coins) PROVE Proper(p[i])
  <2>1. IsCoin(coins[i])
    BY <1>1 DEF Coins
  <2>2. Priced(IF i = 1 THEN conds ELSE <<>>)
    BY NothingPriced
  <2> QED BY <1>2, <2>1, <2>2, CatProper
<1> QED BY <1>2, <1>3, <1>5 DEF Proposed

-----------------------------------------------------------------------------
(***************************************************************************)
(* What the builders hand out.                                             *)
(***************************************************************************)

WalletOK(w) ==
    /\ Purse(w.xch)
    /\ IsSeq(w.cats)
    /\ \A i \in DOMAIN w.cats : w.cats[i].asset \in Assets /\ IsCoin(w.cats[i].coin)

LEMMA RangeFinite == ASSUME NEW s, IsSeq(s) PROVE IsFiniteSet(ToSet(s))
<1>1. PICK n \in Nat : n = Len(s) /\ DOMAIN s = 1..n /\ s = [i \in 1..n |-> s[i]]
  BY SeqIs
<1>2. s \in Surjection(1..n, ToSet(s))
  <2>1. \A i \in 1..n : s[i] \in ToSet(s)
    BY <1>1 DEF ToSet
  <2>2. s \in [1..n -> ToSet(s)]
    BY <1>1, <2>1
  <2>3. \A x \in ToSet(s) : \E i \in 1..n : s[i] = x
    BY <1>1 DEF ToSet
  <2> QED BY <2>2, <2>3 DEF Surjection
<1>3. IsFiniteSet(1..n)
  BY FS_Interval
<1> QED BY <1>2, <1>3, FS_Surjection

LEMMA CoinsOfCats ==
    ASSUME NEW w, WalletOK(w), NEW asset
    PROVE  Coins(CatsOf(w, asset))
<1>1. PICK at : at = {i \in DOMAIN w.cats : w.cats[i].asset = asset}
  OBVIOUS
<1>2. PICK cs : cs = Picked(w.cats, at)
  OBVIOUS
<1>3. IsSeq(cs) /\ cs \in Seq(ToSet(w.cats))
  BY <1>2, PickedSeq DEF WalletOK
<1>4. Len(cs) \in Nat /\ DOMAIN cs = 1..Len(cs)
  BY <1>3, SeqIs
<1>5. \A i \in DOMAIN cs : IsCoin(cs[i].coin)
  BY <1>3, <1>4 DEF WalletOK, ToSet
<1>6. PICK p : p = CatsOf(w, asset) /\ p = [i \in DOMAIN cs |-> cs[i].coin]
  BY <1>1, <1>2 DEF CatsOf, Where
<1>7. p = [i \in 1..Len(cs) |-> p[i]]
  BY <1>4, <1>6
<1>8. IsSeq(p) /\ DOMAIN p = 1..Len(cs)
  BY <1>4, <1>7, MadeSeq
<1> QED BY <1>4, <1>5, <1>6, <1>8 DEF Coins

LEMMA PurseOf == ASSUME NEW s, Coins(s) PROVE Purse(ToSet(s))
BY RangeFinite DEF Coins, Purse, ToSet

LEMMA FeeSpendsProposed ==
    ASSUME NEW w, WalletOK(w), NEW fee \in Nat, NEW lead, NEW f \in FeeSpends(w, fee, lead)
    PROVE  Proposed(f)
<1>1. CASE fee = 0
  BY <1>1, NothingProposed DEF FeeSpends
<1>2. CASE fee # 0
  <2>1. PICK s \in SelectOrFail(w.xch, fee, CoinCap) :
            f = Linked(s, <<ReserveFee(fee), ConcurrentSpend(lead)>>
                          \o Change(w.change, U64Sum(s) - fee))
    BY <1>2 DEF FeeSpends
  <2>2. Coins(s)
    BY <2>1, SelectionTakes, TakenCoins DEF WalletOK
  <2>3. PICK n \in Int : n = U64Sum(s) - fee
    BY <2>2, SumNat
  <2>5. Priced(<<ReserveFee(fee), ConcurrentSpend(lead)>>)
    <3>1. PricedOne(ReserveFee(fee)) /\ PricedOne(ConcurrentSpend(lead))
      BY DEF PricedOne, ReserveFee, ConcurrentSpend
    <3> QED BY <3>1, TwoPriced
  <2>6. PICK conds : conds = <<ReserveFee(fee), ConcurrentSpend(lead)>>
                             \o Change(w.change, U64Sum(s) - fee)
    OBVIOUS
  <2>7. Priced(conds)
    BY <2>3, <2>5, <2>6, ChangePriced, PricedConcat
  <2> QED BY <2>1, <2>2, <2>6, <2>7, LinkedProposed
<1> QED BY <1>1, <1>2

LEMMA UnsignedIs ==
    ASSUME NEW spends, NEW outputs, NEW fee
    PROVE  UnsignedSpend(spends, outputs, fee).spends = spends
BY DEF UnsignedSpend

LEMMA SendXchProposed ==
    ASSUME NEW w, WalletOK(w), NEW leg, leg.amount \in Nat, NEW fee \in Nat,
           NEW u \in BuildSendXch(w, leg, fee)
    PROVE  Proposed(u.spends)
<1>1. PICK target \in Nat : target = leg.amount + fee
  OBVIOUS
<1>2. PICK s \in SelectOrFail(w.xch, target, CoinCap) :
          u.spends = Linked(s, PayLegs(<<leg>>)
                               \o Change(w.change, U64(U64Sum(s) - target)) \o Fee(fee))
  BY <1>1, UnsignedIs DEF BuildSendXch
<1>3. Coins(s)
  BY <1>2, SelectionTakes, TakenCoins DEF WalletOK
<1>4. PICK n \in Int : n = U64(U64Sum(s) - target)
  BY <1>3, SumNat, Max64Assumption DEF U64
<1>5. Priced(PayLegs(<<leg>>)) /\ Priced(Change(w.change, n)) /\ Priced(Fee(fee))
  BY OneLeg, PayLegsPriced, ChangePriced, FeePriced
<1>6. Priced(PayLegs(<<leg>>) \o Change(w.change, U64(U64Sum(s) - target)) \o Fee(fee))
  BY <1>4, <1>5, PricedConcat
<1> QED BY <1>2, <1>3, <1>6, LinkedProposed

LEMMA SendCatProposed ==
    ASSUME NEW w, WalletOK(w), NEW asset \in Assets, NEW leg, leg.amount \in Nat,
           NEW fee \in Nat, NEW u \in BuildSendCat(w, asset, leg, fee)
    PROVE  Proposed(u.spends)
<1>1. PICK cats : cats = CatsOf(w, asset) /\ Coins(cats)
  BY CoinsOfCats
<1>2. PICK fees \in FeeSpends(w, fee, cats[1]) :
          u.spends = CatInnerSpends(w, asset, cats, leg) \o fees
  <2>1. cats # <<>>
    BY <1>1 DEF BuildSendCat
  <2>2. \E fees \in FeeSpends(w, fee, cats[1]) :
           u = UnsignedSpend(CatInnerSpends(w, asset, cats, leg) \o fees, LegOutputs(<<leg>>, asset), fee)
    BY <1>1, <2>1 DEF BuildSendCat
  <2> QED BY <2>2 DEF UnsignedSpend
<1>3. Priced(PaidFrom(w, cats, <<leg>>))
  BY <1>1, OneLeg, PaidFromPriced
<1>4. Proposed(CatInnerSpends(w, asset, cats, leg))
  BY <1>1, <1>3, CatRingProposed DEF CatInnerSpends
<1>5. Proposed(fees)
  BY <1>2, FeeSpendsProposed
<1> QED BY <1>2, <1>4, <1>5, ProposedConcat

LEMMA MultiSendXchProposed ==
    ASSUME NEW w, WalletOK(w), NEW legs, LegsOK(legs), NEW fee \in Nat,
           NEW u \in BuildMultiSendXch(w, legs, fee)
    PROVE  Proposed(u.spends)
<1>1. PICK target \in Nat : target = Payout(legs) + fee
  BY PayoutNat
<1>2. PICK s \in SelectOrFail(w.xch, target, CoinCap) :
          u.spends = Linked(s, (PayLegs(legs) \o Change(w.change, U64(U64Sum(s) - target)))
                               \o Fee(fee))
  BY <1>1, UnsignedIs DEF BuildMultiSendXch
<1>3. Coins(s)
  BY <1>2, SelectionTakes, TakenCoins DEF WalletOK
<1>4. PICK n \in Int : n = U64(U64Sum(s) - target)
  BY <1>3, SumNat, Max64Assumption DEF U64
<1>5. Priced(PayLegs(legs)) /\ Priced(Change(w.change, n)) /\ Priced(Fee(fee))
  BY PayLegsPriced, ChangePriced, FeePriced
<1>6. Priced((PayLegs(legs) \o Change(w.change, U64(U64Sum(s) - target))) \o Fee(fee))
  BY <1>4, <1>5, PricedConcat
<1> QED BY <1>2, <1>3, <1>6, LinkedProposed

LEMMA MultiSendCatProposed ==
    ASSUME NEW w, WalletOK(w), NEW asset \in Assets, NEW legs, LegsOK(legs),
           NEW fee \in Nat, NEW u \in BuildMultiSendCat(w, asset, legs, fee)
    PROVE  Proposed(u.spends)
<1>1. PICK cats : cats = CatsOf(w, asset) /\ Coins(cats)
  BY CoinsOfCats
<1>2. PICK fees \in FeeSpends(w, fee, cats[1]) :
          u.spends = CatRingPaying(w, asset, cats, legs) \o fees
  <2>1. cats # <<>>
    BY <1>1 DEF BuildMultiSendCat
  <2>2. \E fees \in FeeSpends(w, fee, cats[1]) :
           u = UnsignedSpend(CatRingPaying(w, asset, cats, legs) \o fees, LegOutputs(legs, asset), fee)
    BY <1>1, <2>1 DEF BuildMultiSendCat
  <2>3. PICK fees \in FeeSpends(w, fee, cats[1]) :
           u = UnsignedSpend(CatRingPaying(w, asset, cats, legs) \o fees, LegOutputs(legs, asset), fee)
    BY <2>2
  <2>4. PICK ss : ss = CatRingPaying(w, asset, cats, legs) \o fees
    OBVIOUS
  <2>5. u.spends = ss
    BY <2>3, <2>4 DEF UnsignedSpend
  <2> QED BY <2>3, <2>4, <2>5
<1>3. Priced(PaidFrom(w, cats, legs))
  BY <1>1, PaidFromPriced
<1>4. Proposed(CatRingPaying(w, asset, cats, legs))
  BY <1>1, <1>3, CatRingProposed DEF CatRingPaying
<1>5. Proposed(fees)
  BY <1>2, FeeSpendsProposed
<1> QED BY <1>2, <1>4, <1>5, ProposedConcat

LEMMA CombineProposed ==
    ASSUME NEW w, WalletOK(w), NEW fee \in Nat, NEW u \in BuildCombineXch(w, fee)
    PROVE  Proposed(u.spends)
<1>1. PICK s \in SelectForConsolidation(w.xch, CoinCap) :
          u.spends = Linked(s, Change(w.change, U64Sum(s) - fee) \o Fee(fee))
  BY UnsignedIs DEF BuildCombineXch, SelfDirected
<1>2. PICK k \in Nat : k = IF CoinCap < 2 THEN 2 ELSE CoinCap
  BY CapAssumption
<1>3. s = Largest(w.xch, k)
  BY <1>1, <1>2 DEF SelectForConsolidation
<1>4. Coins(s)
  BY <1>3, LargestIs, TakenCoins DEF WalletOK
<1>5. PICK n \in Int : n = U64Sum(s) - fee
  BY <1>4, SumNat
<1>6. Priced(Change(w.change, U64Sum(s) - fee) \o Fee(fee))
  BY <1>5, ChangePriced, FeePriced, PricedConcat
<1> QED BY <1>1, <1>4, <1>6, LinkedProposed

(* Cutting a coin: every share is a number.                                *)
LEMMA SharesNat ==
    ASSUME NEW n \in Nat, NEW parts \in Nat, parts >= 2, NEW a \in StaggeredAmounts(n, parts)
    PROVE  a \in Seq(Nat) /\ Len(a) = parts /\ DOMAIN a = 1..parts
<1>1. PICK stagger \in Int : stagger = (parts * (parts - 1)) \div 2
  <2>1. PICK k \in Int : k = parts * (parts - 1)
    OBVIOUS
  <2> QED BY <2>1
<1>2. PICK m \in Int : m = n - stagger
  OBVIOUS
<1>3. PICK base, rest : base = m \div parts /\ rest = m % parts
  OBVIOUS
<1>4. m >= parts /\ a = [i \in 1..parts |-> base + (i - 1) + (IF i = parts THEN rest ELSE 0)]
  BY <1>1, <1>2, <1>3 DEF StaggeredAmounts
<1>5. base \in Int /\ rest \in 0..(parts - 1) /\ m = parts * base + rest
  BY <1>2, <1>3
<1>6. base >= 0
  <2> SUFFICES ASSUME base <= -1
               PROVE  FALSE
    BY <1>5
  <2>1. PICK q : q = parts * base
    OBVIOUS
  <2>2. q \in Int /\ q <= 0
    <3>1. parts * base <= parts * 0
      BY <1>5
    <3> QED BY <1>5, <2>1, <3>1
  <2>3. m = q + rest /\ rest \in 0..(parts - 1)
    BY <1>5, <2>1
  <2>4. m >= parts
    BY <1>4
  <2> QED BY <2>2, <2>3, <2>4
<1>7. \A i \in 1..parts : base + (i - 1) + (IF i = parts THEN rest ELSE 0) \in Nat
  BY <1>5, <1>6
<1> QED BY <1>4, <1>7

LEMMA SplitProposed ==
    ASSUME NEW w, WalletOK(w), NEW parts \in Nat, NEW fee \in Nat,
           NEW u \in BuildSplitXch(w, parts, fee)
    PROVE  Proposed(u.spends)
<1>1. PICK coins : coins = LargestSpendable(w.xch)
  OBVIOUS
<1>2. Coins(coins)
  BY <1>1, LargestIs, TakenCoins DEF LargestSpendable, WalletOK
<1>3. parts >= 2 /\ coins # <<>> /\ ~(AmountOf(coins[1]) < fee)
  BY <1>1 DEF BuildSplitXch
<1>4. \E a \in StaggeredAmounts(AmountOf(coins[1]) - fee, parts) :
         u = SelfDirected(<<StandardSpend(coins[1], [i \in DOMAIN a |-> CreateCoin(w.change, a[i])]
                                                    \o Fee(fee))>>, fee)
  BY <1>1, <1>3 DEF BuildSplitXch
<1>5. PICK a \in StaggeredAmounts(AmountOf(coins[1]) - fee, parts) :
         u.spends = <<StandardSpend(coins[1], [i \in DOMAIN a |-> CreateCoin(w.change, a[i])]
                                              \o Fee(fee))>>
  <2>1. PICK a \in StaggeredAmounts(AmountOf(coins[1]) - fee, parts) :
         u = SelfDirected(<<StandardSpend(coins[1], [i \in DOMAIN a |-> CreateCoin(w.change, a[i])]
                                                    \o Fee(fee))>>, fee)
    BY <1>4
  <2>2. PICK ss : ss = <<StandardSpend(coins[1], [i \in DOMAIN a |-> CreateCoin(w.change, a[i])]
                                                 \o Fee(fee))>>
    OBVIOUS
  <2>3. u.spends = ss
    BY <2>1, <2>2, UnsignedIs DEF SelfDirected
  <2> QED BY <2>2, <2>3
<1>6. IsCoin(coins[1])
  <2>1. 1 \in DOMAIN coins
    BY <1>2, <1>3, SeqIs DEF Coins
  <2> QED BY <1>2, <2>1 DEF Coins
<1>7. PICK n \in Nat : n = AmountOf(coins[1]) - fee
  BY <1>3, <1>6 DEF IsCoin
<1>8. a \in Seq(Nat) /\ Len(a) = parts /\ DOMAIN a = 1..parts
  BY <1>3, <1>5, <1>7, SharesNat
<1>9. PICK p : p = [i \in DOMAIN a |-> CreateCoin(w.change, a[i])]
  OBVIOUS
<1>10. Priced(p)
  <2>1. p = [i \in 1..parts |-> p[i]]
    BY <1>8, <1>9
  <2>2. IsSeq(p) /\ DOMAIN p = 1..parts
    BY <2>1, MadeSeq
  <2>3. \A i \in DOMAIN p : PricedOne(p[i])
    BY <1>8, <1>9, <2>2 DEF PricedOne, CreateCoin
  <2> QED BY <2>2, <2>3, PricedIs
<1>11. Priced(p \o Fee(fee))
  BY <1>10, FeePriced, PricedConcat
<1> QED BY <1>5, <1>6, <1>9, <1>11, StandardProper, OneProposed

LEMMA TipProposed ==
    ASSUME NEW w, WalletOK(w), NEW asset \in Assets, NEW leg, leg.amount \in Nat,
           NEW u \in BuildTip(w, asset, leg)
    PROVE  Proposed(u.spends)
<1>1. PICK cats : cats = CatsOf(w, asset) /\ Coins(cats)
  BY CoinsOfCats
<1>2. PICK g \in LargestSingleKeyGroup(cats) : \E s \in SelectOrFail(g, leg.amount, CoinCap) :
         u = FinishTip(asset, CatRing(asset, s, PaidFrom(w, s, <<leg>>)), leg)
  BY <1>1 DEF BuildTip, TipInputs
<1>3. PICK s \in SelectOrFail(g, leg.amount, CoinCap) :
         u.spends = CatRing(asset, s, PaidFrom(w, s, <<leg>>))
  BY <1>2 DEF FinishTip, UnsignedSpend
<1>5. PICK at : g = ToSet(Picked(cats, at))
  <2>1. PICK known : known = {i \in DOMAIN cats : KeyKnown(PuzzleHashOf(cats[i]))}
    OBVIOUS
  <2>2. PICK best : best = {i \in known : \A j \in known : TotalAt(cats, PuzzleHashOf(cats[i]))
                                                         >= TotalAt(cats, PuzzleHashOf(cats[j]))}
    OBVIOUS
  <2>3. PICK ph : ph = PuzzleHashOf(cats[Min(best)])
    OBVIOUS
  <2>4. g \in {ToSet(Where(cats, LAMBDA c : PuzzleHashOf(c) = ph))}
    BY <1>2, <2>1, <2>2, <2>3 DEF LargestSingleKeyGroup
  <2> QED BY <2>4 DEF Where
<1>6. IsSeq(Picked(cats, at)) /\ Picked(cats, at) \in Seq(ToSet(cats))
  BY <1>1, PickedSeq DEF Coins
<1>7. Purse(g)
  <2>1. PICK p : p = Picked(cats, at) /\ IsSeq(p) /\ p \in Seq(ToSet(cats))
    BY <1>6
  <2>2. \A i \in DOMAIN p : p[i] \in ToSet(cats)
    BY <2>1
  <2>3. \A x \in ToSet(cats) : IsCoin(x)
    BY <1>1, PurseOf DEF Purse
  <2>4. Coins(p)
    BY <2>1, <2>2, <2>3 DEF Coins
  <2> QED BY <1>5, <2>1, <2>4, PurseOf
<1>8. Coins(s)
  BY <1>3, <1>7, SelectionTakes, TakenCoins
<1>9. Priced(PaidFrom(w, s, <<leg>>))
  BY <1>8, OneLeg, PaidFromPriced
<1> QED BY <1>3, <1>8, <1>9, CatRingProposed

LEMMA AutoTipProposed ==
    ASSUME NEW w, WalletOK(w), NEW policy, policy.asset \in Assets, policy.leg.amount \in Nat,
           NEW sent, NEW today, NEW u \in BuildAutoTip(w, policy, sent, today)
    PROVE  Proposed(u.spends)
<1>1. u \in BuildTip(w, policy.asset, policy.leg)
  BY DEF BuildAutoTip
<1> QED BY <1>1, TipProposed

(* What ties the legs of an offer together.                                *)
LEMMA TiePriced ==
    ASSUME NEW p \in BOOLEAN, NEW q \in BOOLEAN, NEW c
    PROVE  Priced((IF p THEN <<AssertPuzzleAnn>> ELSE <<>>)
                  \o (IF q THEN <<>> ELSE <<ConcurrentSpend(c)>>))
<1>1. PricedOne(AssertPuzzleAnn) /\ PricedOne(ConcurrentSpend(c))
  BY DEF PricedOne, AssertPuzzleAnn, ConcurrentSpend
<1>2. Priced(<<AssertPuzzleAnn>>) /\ Priced(<<ConcurrentSpend(c)>>)
  BY <1>1, OnePriced
<1>3. Priced(IF p THEN <<AssertPuzzleAnn>> ELSE <<>>)
  BY <1>2, NothingPriced
<1>4. Priced(IF q THEN <<>> ELSE <<ConcurrentSpend(c)>>)
  BY <1>2, NothingPriced
<1> QED BY <1>3, <1>4, PricedConcat

LEMMA CreatePriced == ASSUME NEW ph, NEW n \in Nat PROVE Priced(<<CreateCoin(ph, n)>>)
<1>1. PricedOne(CreateCoin(ph, n))
  BY DEF PricedOne, CreateCoin
<1> QED BY <1>1, OnePriced

LEMMA MakeSpendsProposed ==
    ASSUME NEW w, NEW offered, SideOK(offered), NEW fee \in Nat,
           NEW xchCoins, Coins(xchCoins),
           NEW catCoins, DOMAIN catCoins = DOMAIN offered.cats,
           \A i \in DOMAIN catCoins : Coins(catCoins[i])
    PROVE  Proposed(MakeSpends(w, offered, fee, xchCoins, catCoins))
<1> DEFINE leads == (IF xchCoins = <<>> THEN <<>> ELSE <<xchCoins[1]>>)
                    \o [i \in DOMAIN catCoins |-> catCoins[i][1]]
           tie(i) == (IF i = 1 THEN <<AssertPuzzleAnn>> ELSE <<>>)
                     \o (IF Len(leads) = 1 THEN <<>>
                         ELSE <<ConcurrentSpend(leads[1 + (i % Len(leads))])>>)
           first  == IF xchCoins = <<>> THEN 0 ELSE 1
           pay    == IF offered.xch > 0 THEN <<CreateCoin(SettlementPayment, offered.xch)>>
                     ELSE <<>>
           xch    == IF xchCoins = <<>> THEN <<>>
                     ELSE Linked(xchCoins, pay \o Change(w.change, U64Sum(xchCoins) - offered.xch - fee)
                                           \o Fee(fee) \o tie(1))
           cat(i) == CatRing(offered.cats[i].asset, catCoins[i],
                             <<CreateCoin(SettlementPayment, offered.cats[i].amount)>>
                             \o Change(w.change, U64Sum(catCoins[i]) - offered.cats[i].amount)
                             \o tie(first + i))
<1>1. \A i : Priced(tie(i))
  <2> SUFFICES ASSUME NEW i
               PROVE  Priced(tie(i))
    OBVIOUS
  <2>1. PICK c : c = leads[1 + (i % Len(leads))]
    OBVIOUS
  <2>2. PICK p \in BOOLEAN : p = (i = 1)
    OBVIOUS
  <2>3. PICK q \in BOOLEAN : q = (Len(leads) = 1)
    OBVIOUS
  <2>4. tie(i) = (IF p THEN <<AssertPuzzleAnn>> ELSE <<>>)
                 \o (IF q THEN <<>> ELSE <<ConcurrentSpend(c)>>)
    <3> HIDE DEF leads
    <3> QED BY <2>1, <2>2, <2>3
  <2> HIDE DEF tie
  <2> QED BY <2>4, TiePriced
<1>2. MakeSpends(w, offered, fee, xchCoins, catCoins)
        = xch \o FlattenSeq([i \in DOMAIN catCoins |-> cat(i)])
  BY DEF MakeSpends
<1> HIDE DEF tie, leads, first
<1>3. Proposed(xch)
  <2>1. CASE xchCoins = <<>>
    BY <2>1, NothingProposed
  <2>2. CASE xchCoins # <<>>
    <3>1. PICK n \in Int : n = U64Sum(xchCoins) - offered.xch - fee
      BY SumNat DEF SideOK
    <3>2. Priced(Change(w.change, n)) /\ Priced(Fee(fee)) /\ Priced(tie(1))
      BY <1>1, ChangePriced, FeePriced
    <3>3. Priced(pay)
      BY CreatePriced, NothingPriced DEF SideOK
    <3> HIDE DEF pay
    <3>4. Priced(pay \o Change(w.change, n))
      BY <3>2, <3>3, PricedConcat
    <3>5. Priced(pay \o Change(w.change, n) \o Fee(fee))
      BY <3>2, <3>4, PricedConcat
    <3>6. Priced(pay \o Change(w.change, n) \o Fee(fee) \o tie(1))
      BY <3>2, <3>5, PricedConcat
    <3> QED BY <2>2, <3>1, <3>6, LinkedProposed
  <2> QED BY <2>1, <2>2
<1>4. ASSUME NEW i \in DOMAIN catCoins PROVE Proposed(cat(i))
  <2>1. offered.cats[i].asset \in Assets /\ offered.cats[i].amount \in Nat /\ Coins(catCoins[i])
    BY DEF SideOK
  <2>2. PICK n \in Int : n = U64Sum(catCoins[i]) - offered.cats[i].amount
    BY <2>1, SumNat
  <2>3. PICK c : c = <<CreateCoin(SettlementPayment, offered.cats[i].amount)>>
    OBVIOUS
  <2>4. PICK j : j = first + i
    OBVIOUS
  <2>5. Priced(c) /\ Priced(Change(w.change, n)) /\ Priced(tie(j))
    BY <1>1, <2>1, <2>3, ChangePriced, CreatePriced
  <2>6. Priced(c \o Change(w.change, n) \o tie(j))
    BY <2>5, PricedConcat
  <2> QED BY <2>1, <2>2, <2>3, <2>4, <2>6, CatRingProposed
<1>5. PICK ss : ss = [i \in DOMAIN catCoins |-> cat(i)]
  OBVIOUS
<1>6. Proposed(FlattenSeq(ss))
  <2>1. PICK n \in Nat : DOMAIN catCoins = 1..n
    BY SeqIs DEF SideOK
  <2>2. \A i \in 1..n : Proposed(ss[i])
    <3> HIDE DEF cat
    <3> QED BY <1>4, <1>5, <2>1
  <2>3. ss = [i \in 1..n |-> ss[i]]
    <3> HIDE DEF cat
    <3> QED BY <1>5, <2>1
  <2>4. IsSeq(ss) /\ DOMAIN ss = 1..n
    BY <2>3, MadeSeq
  <2> QED BY <2>2, <2>4, ProposedFlat
<1> HIDE DEF xch, cat
<1> QED BY <1>2, <1>3, <1>5, <1>6, ProposedConcat

LEMMA MakeProposed ==
    ASSUME NEW w, WalletOK(w), NEW offered, SideOK(offered), NEW requested, NEW fee \in Nat,
           NEW u \in BuildMake(w, offered, requested, fee)
    PROVE  Proposed(u.spends)
<1> DEFINE cats(i) == CatsOf(w, offered.cats[i].asset)
           need    == offered.xch + fee
           fund(coins, n) == {c \in {Reaching(HighValueFirst(coins), n)} : U64Sum(c) >= n}
           xchs    == IF need = 0 THEN {<<>>} ELSE fund(w.xch, need)
           funds   == {f \in [DOMAIN offered.cats ->
                                UNION {fund(ToSet(cats(i)), offered.cats[i].amount)
                                         : i \in DOMAIN offered.cats}] :
                         \A i \in DOMAIN f : f[i] \in fund(ToSet(cats(i)), offered.cats[i].amount)}
<1>1. \E x \in xchs \X funds :
         u = UnsignedSpend(MakeSpends(w, offered, fee, x[1], x[2]), MakeOutputs(offered), fee)
  BY DEF BuildMake
<1>2. PICK xchCoins \in xchs, catCoins \in funds :
         u = UnsignedSpend(MakeSpends(w, offered, fee, xchCoins, catCoins), MakeOutputs(offered), fee)
  <2> HIDE DEF xchs, funds
  <2> QED BY <1>1
<1>3. \A S, n : Purse(S) => \A c \in fund(S, n) : Coins(c)
  <2> SUFFICES ASSUME NEW S, NEW n, Purse(S)
               PROVE  Coins(Reaching(HighValueFirst(S), n))
    OBVIOUS
  <2>1. Takes(HighValueFirst(S), S)
    BY HighValueFirstIs, OrderTakes
  <2> QED BY <2>1, ReachingIs, TakenCoins
<1>4. Coins(xchCoins)
  <2>1. Coins(<<>>)
    BY DEF Coins, IsSeq, ToSet
  <2> HIDE DEF fund
  <2> QED BY <1>2, <1>3, <2>1 DEF WalletOK
<1>5. DOMAIN catCoins = DOMAIN offered.cats
  <2> HIDE DEF fund, cats
  <2> QED BY <1>2
<1>6. ASSUME NEW i \in DOMAIN catCoins PROVE Coins(catCoins[i])
  <2>1. catCoins[i] \in fund(ToSet(cats(i)), offered.cats[i].amount)
    <3> HIDE DEF fund, cats
    <3> QED BY <1>2
  <2>2. Purse(ToSet(cats(i)))
    BY CoinsOfCats, PurseOf
  <2> HIDE DEF fund, cats
  <2> QED BY <2>1, <2>2, <1>3
<1>7. Proposed(MakeSpends(w, offered, fee, xchCoins, catCoins))
  BY <1>4, <1>5, <1>6, MakeSpendsProposed
<1> QED BY <1>2, <1>7, UnsignedIs

(* A coin that descends from another.                                      *)
LEMMA CoinIs ==
    ASSUME NEW p, IsSeq(p), NEW ph, NEW n \in Nat
    PROVE  /\ IsCoin(Coin(p, ph, n)) /\ PuzzleHashOf(Coin(p, ph, n)) = ph
           /\ AmountOf(Coin(p, ph, n)) = n
<1>1. PICK e : e = [ph |-> ph, amount |-> n]
  OBVIOUS
<1>2. PICK X : X = ToSet(p) \cup {e}
  OBVIOUS
<1>3. p \in Seq(X)
  <2>1. p \in Seq(ToSet(p))
    BY DEF IsSeq
  <2> QED BY <1>2, <2>1
<1>4. PICK c : c = Append(p, e) /\ c = Coin(p, ph, n)
  BY <1>1 DEF Coin
<1>5. c \in Seq(X) /\ Len(c) = Len(p) + 1 /\ Len(p) \in Nat /\ c[Len(c)] = e
  <2>1. e \in X
    BY <1>2
  <2>2. \A s \in Seq(X), x \in X : /\ Append(s, x) \in Seq(X) /\ Len(s) \in Nat
                                   /\ Len(Append(s, x)) = Len(s) + 1
                                   /\ Append(s, x)[Len(s) + 1] = x
    OBVIOUS
  <2> QED BY <1>3, <1>4, <2>1, <2>2
<1>6. IsSeq(c)
  BY <1>5, SeqIsSeq
<1>7. Last(c) = e
  BY <1>5 DEF Last
<1> QED BY <1>1, <1>4, <1>5, <1>6, <1>7 DEF IsCoin, AmountOf, PuzzleHashOf

LEMMA SettlementProper ==
    ASSUME NEW asset \in Assets \cup {XCH}, NEW c, IsCoin(c), NEW conds, Priced(conds)
    PROVE  Proper(SettlementSpend(asset, c, conds))
BY AssetsAssumption DEF Proper, WellFormed, SettlementSpend, CoinSpend, IsCoin, XCH

LEMMA PaidViaProposed ==
    ASSUME NEW asset \in Assets \cup {XCH}, NEW lead, IsSeq(lead), NEW leg, leg.amount \in Nat
    PROVE  Proposed(<<PaidVia(asset, lead, <<leg>>)>>)
<1>1. PICK c : c = Coin(lead, SettlementPayment, 0) /\ IsCoin(c)
  BY CoinIs
<1>2. Priced(PayLegs(<<leg>>))
  BY OneLeg, PayLegsPriced
<1>3. Proper(PaidVia(asset, lead, <<leg>>))
  BY <1>1, <1>2, SettlementProper DEF PaidVia
<1> QED BY <1>3, OneProposed

LEMMA CarrierPriced == Priced(Carrier)
<1>1. PricedOne(CreateCoin(SettlementPayment, 0)) /\ PricedOne(AssertPuzzleAnn)
  BY DEF PricedOne, CreateCoin, AssertPuzzleAnn
<1> QED BY <1>1, TwoPriced DEF Carrier

(* The first of some coins.                                                *)
LEMMA LeadCoin == ASSUME NEW s, Coins(s), s # <<>> PROVE IsCoin(s[1]) /\ IsSeq(s[1])
<1>1. 1 \in DOMAIN s
  BY SeqIs DEF Coins
<1> QED BY <1>1 DEF Coins, IsCoin

LEMMA ClaimsProposed ==
    ASSUME NEW o, OfferOK(o), NEW ph
    PROVE  Proposed([i \in DOMAIN o.coins |->
                       SettlementSpend(o.coins[i].asset, o.coins[i].coin,
                                       <<CreateCoin(ph, AmountOf(o.coins[i].coin))>>)])
<1>1. PICK n \in Nat : DOMAIN o.coins = 1..n
  BY SeqIs DEF OfferOK
<1>2. PICK v : v = [i \in DOMAIN o.coins |->
                       SettlementSpend(o.coins[i].asset, o.coins[i].coin,
                                       <<CreateCoin(ph, AmountOf(o.coins[i].coin))>>)]
  OBVIOUS
<1>3. v = [i \in 1..n |-> v[i]]
  BY <1>1, <1>2
<1>4. IsSeq(v) /\ DOMAIN v = 1..n
  BY <1>3, MadeSeq
<1>5. ASSUME NEW i \in 1..n PROVE Proper(v[i])
  <2>1. PICK c : c = o.coins[i].coin /\ IsCoin(c)
    BY <1>1 DEF OfferOK
  <2>2. PICK a \in Assets \cup {XCH} : a = o.coins[i].asset
    BY <1>1 DEF OfferOK
  <2>3. Priced(<<CreateCoin(ph, AmountOf(c))>>)
    BY <2>1, CreatePriced DEF IsCoin
  <2>4. v[i] = SettlementSpend(a, c, <<CreateCoin(ph, AmountOf(c))>>)
    BY <1>1, <1>2, <2>1, <2>2
  <2> QED BY <2>1, <2>3, <2>4, SettlementProper
<1> QED BY <1>2, <1>4, <1>5 DEF Proposed

LEMMA TakeSpendsProposed ==
    ASSUME NEW w, NEW o, OfferOK(o), NEW fee \in Nat, NEW xchCoins, Coins(xchCoins),
           NEW catCoins, DOMAIN catCoins = DOMAIN o.requested.cats,
           \A i \in DOMAIN catCoins : Coins(catCoins[i]) /\ catCoins[i] # <<>>
    PROVE  Proposed(TakeSpends(w, o, fee, xchCoins, catCoins))
<1> DEFINE pays  == o.requested.xch > 0
           carry == IF pays THEN Carrier ELSE <<>>
           via   == IF pays THEN <<PaidVia(XCH, xchCoins[1],
                                     <<[to |-> o.payee, amount |-> o.requested.xch]>>)>>
                    ELSE <<>>
           lead  == Linked(xchCoins, carry \o Change(w.change, U64Sum(xchCoins) - o.requested.xch - fee)
                                     \o Fee(fee))
           xch   == IF xchCoins = <<>> THEN <<>> ELSE lead \o via
           ring(i) == CatRing(o.requested.cats[i].asset, catCoins[i],
                        Carrier \o Change(w.change, U64Sum(catCoins[i]) - o.requested.cats[i].amount))
           paid(i) == <<PaidVia(o.requested.cats[i].asset, catCoins[i][1],
                          <<[to |-> o.payee, amount |-> o.requested.cats[i].amount]>>)>>
           cat(i) == ring(i) \o paid(i)
           claim  == [i \in DOMAIN o.coins |->
                       SettlementSpend(o.coins[i].asset, o.coins[i].coin,
                                       <<CreateCoin(w.change, AmountOf(o.coins[i].coin))>>)]
<1>1. TakeSpends(w, o, fee, xchCoins, catCoins)
        = xch \o FlattenSeq([i \in DOMAIN catCoins |-> cat(i)]) \o claim
  BY DEF TakeSpends
<1>2. Proposed(claim)
  BY ClaimsProposed
<1>3. Proposed(xch)
  <2>1. CASE xchCoins = <<>>
    BY <2>1, NothingProposed
  <2>2. CASE xchCoins # <<>>
    <3>1. PICK n \in Int : n = U64Sum(xchCoins) - o.requested.xch - fee
      BY SumNat DEF OfferOK, SideOK
    <3>2. Priced(Change(w.change, n)) /\ Priced(Fee(fee))
      BY ChangePriced, FeePriced
    <3>3. Priced(carry)
      BY CarrierPriced, NothingPriced
    <3> HIDE DEF carry
    <3>4. Priced(carry \o Change(w.change, n))
      BY <3>2, <3>3, PricedConcat
    <3>5. Priced(carry \o Change(w.change, n) \o Fee(fee))
      BY <3>2, <3>4, PricedConcat
    <3>6. Proposed(lead)
      BY <3>1, <3>5, LinkedProposed
    <3>7. Proposed(via)
      <4>1. IsSeq(xchCoins[1])
        BY <2>2, LeadCoin
      <4>2. PICK leg : leg = [to |-> o.payee, amount |-> o.requested.xch] /\ leg.amount \in Nat
        <5>1. o.requested.xch \in Nat
          BY DEF OfferOK, SideOK
        <5>2. [to |-> o.payee, amount |-> o.requested.xch].amount = o.requested.xch
          OBVIOUS
        <5> QED BY <5>1, <5>2
      <4>3. Proposed(<<PaidVia(XCH, xchCoins[1], <<leg>>)>>)
        BY <4>1, <4>2, PaidViaProposed
      <4> QED BY <4>2, <4>3, NothingProposed
    <3> HIDE DEF lead, via
    <3> QED BY <2>2, <3>6, <3>7, ProposedConcat
  <2> QED BY <2>1, <2>2
<1>4. ASSUME NEW i \in DOMAIN catCoins PROVE Proposed(cat(i))
  <2>1. PICK n \in Nat : n = o.requested.cats[i].amount
    BY DEF OfferOK, SideOK
  <2>2. PICK a \in Assets : a = o.requested.cats[i].asset
    BY DEF OfferOK, SideOK
  <2>3. PICK c : c = catCoins[i] /\ Coins(c) /\ c # <<>>
    OBVIOUS
  <2>4. Proposed(ring(i))
    <3>1. PICK m \in Int : m = U64Sum(c) - n
      BY <2>3, SumNat
    <3>2. Priced(Carrier \o Change(w.change, m))
      BY CarrierPriced, ChangePriced, PricedConcat
    <3> QED BY <2>1, <2>2, <2>3, <3>1, <3>2, CatRingProposed
  <2>5. Proposed(paid(i))
    <3>1. IsSeq(c[1])
      BY <2>3, LeadCoin
    <3>2. PICK leg : leg = [to |-> o.payee, amount |-> n] /\ leg.amount \in Nat
      <4>1. [to |-> o.payee, amount |-> n].amount = n
        OBVIOUS
      <4> QED BY <4>1
    <3>3. Proposed(<<PaidVia(a, c[1], <<leg>>)>>)
      BY <3>1, <3>2, PaidViaProposed
    <3> QED BY <2>1, <2>2, <2>3, <3>2, <3>3
  <2> HIDE DEF ring, paid
  <2> QED BY <2>4, <2>5, ProposedConcat
<1>5. PICK ss : ss = [i \in DOMAIN catCoins |-> cat(i)]
  OBVIOUS
<1>6. Proposed(FlattenSeq(ss))
  <2>1. PICK n \in Nat : DOMAIN catCoins = 1..n
    BY SeqIs DEF OfferOK, SideOK
  <2>2. \A i \in 1..n : Proposed(ss[i])
    <3> HIDE DEF cat
    <3> QED BY <1>4, <1>5, <2>1
  <2>3. ss = [i \in 1..n |-> ss[i]]
    <3> HIDE DEF cat
    <3> QED BY <1>5, <2>1
  <2>4. IsSeq(ss) /\ DOMAIN ss = 1..n
    BY <2>3, MadeSeq
  <2> QED BY <2>2, <2>4, ProposedFlat
<1> HIDE DEF xch, cat, claim
<1>7. Proposed(xch \o FlattenSeq(ss))
  BY <1>3, <1>6, ProposedConcat
<1> QED BY <1>1, <1>2, <1>5, <1>7, ProposedConcat

(* What a target above 0 selects is not nothing.                           *)
LEMMA SelectionLeads ==
    ASSUME NEW S, Purse(S), NEW target \in Nat, target > 0, NEW cap \in Nat,
           NEW t \in SelectOrFail(S, target, cap)
    PROVE  t # <<>>
<1>1. PICK s : s = HighValueFirst(S) /\ Ordered(s, S) /\ Takes(s, S)
  BY HighValueFirstIs, OrderTakes
<1>2. t = Reaching(s, target)
  BY <1>1, SelectionTakes
<1>3. PICK L \in Nat : L = Len(s) /\ L = Cardinality(S)
  BY <1>1, FS_CardinalityType DEF Purse, Ordered, Enumerates
<1>4. U64Sum(Largest(S, cap)) >= target
  <2>1. ~(U64Sum(Largest(S, cap)) < target)
    BY DEF SelectOrFail, SelectForSpend
  <2>2. PICK n \in Nat : n = U64Sum(Largest(S, cap))
    BY LargestIs, TakenCoins, SumNat
  <2> QED BY <2>1, <2>2
<1>5. PICK k \in 0..L : Largest(S, cap) = SubSeq(s, 1, k)
  BY <1>1, <1>3, LargestIs DEF IsFirst
<1>6. U64Sum(t) >= target
  BY <1>1, <1>2, <1>3, <1>4, <1>5, ReachingIs
<1>7. U64Sum(<<>>) = 0
  <2>1. PICK ns : ns = [i \in DOMAIN <<>> |-> AmountOf(<<>>[i])]
    OBVIOUS
  <2>2. ns = <<>>
    BY <2>1
  <2>3. Total(ns) = 0
    <3>1. ns \in Seq({0})
      BY <2>2
    <3> QED BY <3>1, TotalZero
  <2>4. 0 % (Max64 + 1) = 0
    BY Max64Assumption
  <2> QED BY <2>1, <2>3, <2>4 DEF U64Sum, U64, SumOver
<1> QED BY <1>6, <1>7

LEMMA TakeProposed ==
    ASSUME NEW w, WalletOK(w), NEW o, OfferOK(o), NEW fee \in Nat, NEW u \in BuildTake(w, o, fee)
    PROVE  Proposed(u.spends)
<1> DEFINE funds == {f \in [DOMAIN o.requested.cats ->
                              UNION {TakerCats(w, o.requested.cats[i]) : i \in DOMAIN o.requested.cats}] :
                       \A i \in DOMAIN f : f[i] \in TakerCats(w, o.requested.cats[i])}
<1>1. \E x \in TakerXch(w, o, fee) \X funds :
         u = UnsignedSpend(TakeSpends(w, o, fee, x[1], x[2]), TakerOutputs(o), fee)
  BY DEF BuildTake, TakerFunds
<1>2. PICK xchCoins \in TakerXch(w, o, fee), catCoins \in funds :
         u = UnsignedSpend(TakeSpends(w, o, fee, xchCoins, catCoins), TakerOutputs(o), fee)
  <2> HIDE DEF funds
  <2> QED BY <1>1
<1>3. Coins(xchCoins)
  <2>1. Coins(<<>>)
    BY DEF Coins, IsSeq, ToSet
  <2>2. \A n : \A t \in SelectOrFail(w.xch, n, CoinCap) : Coins(t)
    BY SelectionTakes, TakenCoins DEF WalletOK
  <2> QED BY <1>2, <2>1, <2>2 DEF TakerXch
<1>4. DOMAIN catCoins = DOMAIN o.requested.cats
  BY <1>2
<1>5. ASSUME NEW i \in DOMAIN catCoins PROVE Coins(catCoins[i]) /\ catCoins[i] # <<>>
  <2>1. PICK c : c = o.requested.cats[i] /\ c.amount \in Nat /\ c.amount > 0
    BY <1>4 DEF OfferOK, SideOK, NonZero
  <2>2. catCoins[i] \in TakerCats(w, c)
    BY <1>2, <2>1
  <2>3. PICK S : S = ToSet(CatsOf(w, c.asset)) /\ Purse(S)
    BY CoinsOfCats, PurseOf
  <2>4. catCoins[i] \in SelectOrFail(S, c.amount, CoinCap)
    BY <2>2, <2>3 DEF TakerCats
  <2> QED BY <2>1, <2>3, <2>4, SelectionTakes, TakenCoins, SelectionLeads, CapAssumption
<1>6. Proposed(TakeSpends(w, o, fee, xchCoins, catCoins))
  BY <1>3, <1>4, <1>5, TakeSpendsProposed
<1> QED BY <1>2, <1>6, UnsignedIs

LEMMA CancelProposed ==
    ASSUME NEW w, NEW o, OfferOK(o), NEW fee \in Nat, NEW u \in BuildCancel(w, o, fee)
    PROVE  Proposed(u.spends)
<1>1. PICK coins : coins = Reclaimable(o)
  OBVIOUS
<1>2. Coins(coins)
  <2>1. PICK at : at = {i \in DOMAIN o.spends : o.spends[i].kind = "standard"
                                               /\ KeyKnown(PuzzleHashOf(o.spends[i].coin))}
    OBVIOUS
  <2>2. PICK mine : mine = Picked(o.spends, at)
    OBVIOUS
  <2>3. IsSeq(mine) /\ mine \in Seq(ToSet(o.spends))
    BY <2>2, PickedSeq DEF OfferOK
  <2>4. Len(mine) \in Nat /\ DOMAIN mine = 1..Len(mine)
    BY <2>3, SeqIs
  <2>5. \A i \in DOMAIN mine : IsCoin(mine[i].coin)
    BY <2>3, <2>4 DEF OfferOK, ToSet
  <2>6. coins = [i \in DOMAIN mine |-> mine[i].coin]
    BY <1>1, <2>1, <2>2 DEF Reclaimable, Where
  <2>7. coins = [i \in 1..Len(mine) |-> coins[i]]
    BY <2>4, <2>6
  <2>8. IsSeq(coins) /\ DOMAIN coins = 1..Len(mine)
    BY <2>4, <2>7, MadeSeq
  <2> QED BY <2>4, <2>5, <2>6, <2>8 DEF Coins
<1>3. u.spends = Linked(coins, Change(w.change, U64Sum(coins) - fee) \o Fee(fee))
  BY <1>1, UnsignedIs DEF BuildCancel
<1>4. PICK n \in Int : n = U64Sum(coins) - fee
  BY <1>2, SumNat
<1>5. Priced(Change(w.change, U64Sum(coins) - fee) \o Fee(fee))
  BY <1>4, ChangePriced, FeePriced, PricedConcat
<1> QED BY <1>2, <1>3, <1>5, LinkedProposed

LEMMA LaunchProper ==
    ASSUME NEW c, IsSeq(c), NEW ph
    PROVE  /\ Proper(LauncherSpend(c, ph))
           /\ IsCoin(EveCoin(c, ph)) /\ IsSeq(LauncherCoin(c))
           /\ Priced(Funds(c, ph))
<1>1. IsCoin(LauncherCoin(c))
  BY CoinIs DEF LauncherCoin
<1>2. IsSeq(LauncherCoin(c))
  BY <1>1 DEF IsCoin
<1>3. IsCoin(EveCoin(c, ph))
  BY <1>2, CoinIs DEF EveCoin
<1>4. \A q : PricedOne(CreateCoin(q, 1)) /\ PricedOne(CreateCoinAnn(q))
  BY DEF PricedOne, CreateCoin, CreateCoinAnn
<1>5. \A x, q : PricedOne(AssertCoinAnn(x, q))
  BY DEF PricedOne, AssertCoinAnn
<1>6. Priced(Funds(c, ph))
  BY <1>4, <1>5, TwoPriced DEF Funds
<1>7. PICK conds : conds = <<CreateCoin(EvePuzzle(ph), 1), CreateCoinAnn(EvePuzzle(ph))>>
                   /\ Priced(conds)
  BY <1>4, TwoPriced
<1>8. PICK l : l = LauncherCoin(c) /\ IsCoin(l)
  BY <1>1
<1>9. Proper(CoinSpend("launcher", l, "nobody", conds))
  BY <1>7, <1>8 DEF Proper, WellFormed, CoinSpend, IsCoin, XCH
<1> QED BY <1>2, <1>3, <1>6, <1>7, <1>8, <1>9 DEF LauncherSpend

LEMMA SingletonProper ==
    ASSUME NEW c, IsCoin(c), NEW conds, Priced(conds), NEW kind, kind # "cat", NEW l, NEW key
    PROVE  /\ Proper(SingletonSpend(kind, c, l, key, conds))
           /\ Proper([SingletonSpend(kind, c, l, key, conds) EXCEPT !.inner = "eve"])
BY DEF Proper, WellFormed, SingletonSpend, CoinSpend, IsCoin, XCH

LEMMA ThreeProposed ==
    ASSUME NEW a, NEW b, NEW c, Proper(a), Proper(b), Proper(c)
    PROVE  Proposed(<<a, b, c>>)
<1>1. <<a, b, c>> \in Seq({a, b, c})
  OBVIOUS
<1>2. /\ DOMAIN <<a, b, c>> = 1..3
      /\ <<a, b, c>>[1] = a /\ <<a, b, c>>[2] = b /\ <<a, b, c>>[3] = c
  OBVIOUS
<1>3. IsSeq(<<a, b, c>>)
  BY <1>1, SeqIsSeq
<1> QED BY <1>2, <1>3 DEF Proposed

(* The smallest coin that covers is a coin of the wallet.                  *)
LEMMA CoveringIs ==
    ASSUME NEW S, Purse(S), NEW need \in Nat, NEW fee, NEW c \in PickCoin(S, need, fee)
    PROVE  c \in S /\ IsCoin(c) /\ AmountOf(c) >= need
<1>1. PICK covering : covering = {d \in S : AmountOf(d) >= need}
  OBVIOUS
<1>2. covering # {} /\ c = CHOOSE d \in covering : \A e \in covering : AmountOf(d) <= AmountOf(e)
  BY <1>1 DEF PickCoin, SmallestCovering
<1>3. Purse(covering)
  BY <1>1, FS_Subset DEF Purse
<1>4. \E d \in covering : \A e \in covering : AmountOf(d) <= AmountOf(e)
  BY <1>2, <1>3, LeastCoin
<1>5. c \in covering
  BY <1>2, <1>4
<1> QED BY <1>1, <1>3, <1>5 DEF Purse

LEMMA MintOptionProposed ==
    ASSUME NEW w, WalletOK(w), NEW underlying \in Nat, NEW owner, NEW fee \in Nat,
           NEW u \in BuildMintOption(w, underlying, owner, fee)
    PROVE  Proposed(u.spends)
<1> DEFINE ss(c) == <<StandardSpend(c, <<CreateCoin(OptionLock, underlying)>> \o Funds(c, owner)),
                      LauncherSpend(c, owner),
                      [SingletonSpend("option", EveCoin(c, owner), LauncherCoin(c), "nobody",
                                      <<CreateCoin(owner, 1)>>) EXCEPT !.inner = "eve"]>>
<1>1. PICK c \in PickCoin(w.xch, underlying + 1, fee) : u.spends = ss(c)
  <2>1. \E c \in PickCoin(w.xch, underlying + 1, fee) :
           u = UnsignedSpend(ss(c), <<SpendOutput(owner, underlying, XCH)>>,
                             AmountOf(c) - (underlying + 1))
    BY DEF BuildMintOption, PickFundingCoin
  <2> HIDE DEF ss
  <2> QED BY <2>1, UnsignedIs
<1>2. IsCoin(c) /\ IsSeq(c)
  BY CoveringIs DEF WalletOK, IsCoin
<1>3. Proper(LauncherSpend(c, owner)) /\ IsCoin(EveCoin(c, owner)) /\ Priced(Funds(c, owner))
  BY <1>2, LaunchProper
<1>4. Priced(<<CreateCoin(OptionLock, underlying)>> \o Funds(c, owner))
  BY <1>3, CreatePriced, PricedConcat
<1>5. Proper(StandardSpend(c, <<CreateCoin(OptionLock, underlying)>> \o Funds(c, owner)))
  BY <1>2, <1>4, StandardProper
<1>6. Priced(<<CreateCoin(owner, 1)>>)
  BY CreatePriced
<1>7. Proper([SingletonSpend("option", EveCoin(c, owner), LauncherCoin(c), "nobody",
                             <<CreateCoin(owner, 1)>>) EXCEPT !.inner = "eve"])
  BY <1>3, <1>6, SingletonProper
<1> QED BY <1>1, <1>3, <1>5, <1>7, ThreeProposed

LEMMA TransferOptionProposed ==
    ASSUME NEW w, WalletOK(w), NEW h, NEW on, IsCoin(on.coin), NEW to, NEW fee \in Nat,
           NEW u \in BuildTransferOption(w, h, on, to, fee)
    PROVE  Proposed(u.spends)
<1>1. PICK s : s = SingletonSpend("option", on.coin, on.launcher, on.owner[2],
                                  <<CreateCoin(to, AmountOf(on.coin))>>)
  OBVIOUS
<1>2. PICK fees \in FeeSpends(w, fee, on.coin) : u.spends = <<s>> \o fees
  <2>1. \E fees \in FeeSpends(w, fee, on.coin) :
           u = UnsignedSpend(<<s>> \o fees, <<SpendOutput(to, AmountOf(on.coin), XCH)>>, fee)
    BY <1>1 DEF BuildTransferOption
  <2> QED BY <2>1 DEF UnsignedSpend
<1>3. Priced(<<CreateCoin(to, AmountOf(on.coin))>>)
  BY CreatePriced DEF IsCoin
<1>4. Proper(s)
  BY <1>1, <1>3, SingletonProper
<1>5. Proposed(<<s>>) /\ Proposed(fees)
  BY <1>2, <1>4, OneProposed, FeeSpendsProposed
<1> QED BY <1>2, <1>5, ProposedConcat

LEMMA ExerciseOptionProposed ==
    ASSUME NEW w, WalletOK(w), NEW h, h.strike \in Nat, NEW on, IsCoin(on.coin), IsSeq(on.launcher),
           NEW fee \in Nat, NEW u \in BuildExerciseOption(w, h, on, fee)
    PROVE  Proposed(u.spends)
<1>1. PICK s : s = SingletonSpend("option", on.coin, on.launcher, on.owner[2],
                                  <<OtherCondition, MeltSingleton>>)
  OBVIOUS
<1>2. PICK l : l = SingletonSpend("one_of_many", Coin(on.launcher, OptionLock, 2),
                                  on.launcher, "nobody", <<CreateCoin(SettlementPayment, 2)>>)
  OBVIOUS
<1> DEFINE ss(c) == <<s, l, StandardSpend(c, <<CreateCoin(SettlementPayment, h.strike)>>)>>
<1>3. PICK c \in PickStrikeCoin(w, on.owner, h.strike, fee) : u.spends = ss(c)
  <2>1. \E c \in PickStrikeCoin(w, on.owner, h.strike, fee) :
           u = UnsignedSpend(ss(c), <<SpendOutput(h.creator, h.strike, XCH)>>,
                             AmountOf(c) - h.strike)
    BY <1>1, <1>2 DEF BuildExerciseOption
  <2> HIDE DEF ss
  <2> QED BY <2>1, UnsignedIs
<1>4. IsCoin(c)
  <2>1. PICK S : S = {d \in w.xch : PuzzleHashOf(d) = on.owner}
    OBVIOUS
  <2>2. Purse(S)
    BY <2>1, FS_Subset DEF Purse, WalletOK
  <2>3. c \in PickCoin(S, h.strike, fee)
    BY <1>3, <2>1 DEF PickStrikeCoin
  <2> QED BY <2>2, <2>3, CoveringIs
<1>5. Priced(<<OtherCondition, MeltSingleton>>)
  <2>1. PricedOne(OtherCondition) /\ PricedOne(MeltSingleton)
    BY DEF PricedOne, OtherCondition, MeltSingleton
  <2> QED BY <2>1, TwoPriced
<1>6. Priced(<<CreateCoin(SettlementPayment, 2)>>) /\ Priced(<<CreateCoin(SettlementPayment, h.strike)>>)
  BY CreatePriced
<1>7. IsCoin(Coin(on.launcher, OptionLock, 2))
  BY CoinIs
<1>8. Proper(s) /\ Proper(l)
  BY <1>1, <1>2, <1>5, <1>6, <1>7, SingletonProper
<1>9. Proper(StandardSpend(c, <<CreateCoin(SettlementPayment, h.strike)>>))
  BY <1>4, <1>6, StandardProper
<1> QED BY <1>3, <1>8, <1>9, ThreeProposed

(* Whatever is asked of the engine, over whatever coins it holds, it hands  *)
(* out well-formed coin spends.                                            *)
LEMMA BuiltProposed ==
    ASSUME NEW w, WalletOK(w), NEW r, RequestOK(r), NEW u \in Built(r, w)
    PROVE  Proposed(u.spends)
<1>1. r.kind \notin {"tip", "auto_tip"} => r.fee \in Nat
  BY DEF RequestOK
<1>2. CASE r.kind = "send_xch"
  BY <1>1, <1>2, SendXchProposed DEF Built, RequestOK, SendOK
<1>3. CASE r.kind = "send_cat"
  BY <1>1, <1>3, SendCatProposed DEF Built, RequestOK, SendOK
<1>4. CASE r.kind = "multi_send_xch"
  BY <1>1, <1>4, MultiSendXchProposed DEF Built, RequestOK, SendOK
<1>5. CASE r.kind = "multi_send_cat"
  BY <1>1, <1>5, MultiSendCatProposed DEF Built, RequestOK, SendOK
<1>6. CASE r.kind = "combine"
  BY <1>1, <1>6, CombineProposed DEF Built
<1>7. CASE r.kind = "split"
  BY <1>1, <1>7, SplitProposed DEF Built, RequestOK, SendOK
<1>8. CASE r.kind = "tip"
  BY <1>8, TipProposed DEF Built, RequestOK, TipOK
<1>9. CASE r.kind = "auto_tip"
  BY <1>9, AutoTipProposed DEF Built, RequestOK, TipOK
<1>10. CASE r.kind = "make"
  BY <1>1, <1>10, MakeProposed DEF Built, RequestOK
<1>11. CASE r.kind = "take"
  BY <1>1, <1>11, TakeProposed DEF Built, RequestOK
<1>12. CASE r.kind = "cancel"
  BY <1>1, <1>12, CancelProposed DEF Built, RequestOK
<1>13. CASE r.kind = "mint_option"
  BY <1>1, <1>13, MintOptionProposed DEF Built, RequestOK, OptionOK
<1>14. CASE r.kind = "transfer_option"
  BY <1>1, <1>14, TransferOptionProposed DEF Built, RequestOK, OptionOK
<1>15. CASE r.kind = "exercise_option"
  BY <1>1, <1>15, ExerciseOptionProposed DEF Built, RequestOK, OptionOK
<1> QED BY <1>2, <1>3, <1>4, <1>5, <1>6, <1>7, <1>8, <1>9, <1>10, <1>11, <1>12, <1>13, <1>14, <1>15
        DEF RequestOK, Kinds

-----------------------------------------------------------------------------
(***************************************************************************)
(* The engine hands out the same bundle each time it is asked over the     *)
(* same coins.                                                             *)
(***************************************************************************)

OnlyOne(S) == \A a, b \in S : a = b

LEMMA SelectionOnlyOne ==
    ASSUME NEW S, NEW target, NEW cap
    PROVE  /\ OnlyOne(SelectOrFail(S, target, cap)) /\ OnlyOne(SelectForConsolidation(S, cap))
           /\ OnlyOne(PickCoin(S, target, cap))
<1>1. OnlyOne(SelectOrFail(S, target, cap))
  <2>1. PICK s : s = SelectForSpend(S, target, cap)
    OBVIOUS
  <2>2. SelectOrFail(S, target, cap) = IF s.kind = "selected" THEN {s.coins} ELSE {}
    BY <2>1 DEF SelectOrFail
  <2> QED BY <2>2 DEF OnlyOne
<1>2. OnlyOne(SelectForConsolidation(S, cap))
  BY DEF OnlyOne, SelectForConsolidation
<1>3. OnlyOne(PickCoin(S, target, cap))
  <2>1. PICK covering : covering = {c \in S : AmountOf(c) >= target}
    OBVIOUS
  <2>2. PICK c : c = CHOOSE d \in covering : \A e \in covering : AmountOf(d) <= AmountOf(e)
    OBVIOUS
  <2>3. SmallestCovering(S, target) = IF covering = {} THEN {} ELSE {c}
    BY <2>1, <2>2 DEF SmallestCovering
  <2> QED BY <2>3 DEF OnlyOne, PickCoin
<1> QED BY <1>1, <1>2, <1>3

LEMMA FeeOnlyOne == ASSUME NEW w, NEW fee, NEW lead PROVE OnlyOne(FeeSpends(w, fee, lead))
<1>1. CASE fee = 0
  BY <1>1 DEF FeeSpends, OnlyOne
<1>2. CASE fee # 0
  <2>1. OnlyOne(SelectOrFail(w.xch, fee, CoinCap))
    BY SelectionOnlyOne
  <2>2. \A f \in FeeSpends(w, fee, lead) : \E s \in SelectOrFail(w.xch, fee, CoinCap) :
           f = Linked(s, <<ReserveFee(fee), ConcurrentSpend(lead)>>
                         \o Change(w.change, U64Sum(s) - fee))
    BY <1>2 DEF FeeSpends
  <2> QED BY <2>1, <2>2 DEF OnlyOne
<1> QED BY <1>1, <1>2

LEMMA SendsOnlyOne ==
    ASSUME NEW w, NEW asset, NEW leg, NEW legs, NEW fee
    PROVE  /\ OnlyOne(BuildSendXch(w, leg, fee)) /\ OnlyOne(BuildSendCat(w, asset, leg, fee))
           /\ OnlyOne(BuildMultiSendXch(w, legs, fee))
           /\ OnlyOne(BuildMultiSendCat(w, asset, legs, fee))
<1>1. OnlyOne(BuildSendXch(w, leg, fee))
  <2> DEFINE built(s) == UnsignedSpend(Linked(s, PayLegs(<<leg>>)
                                 \o Change(w.change, U64(U64Sum(s) - (leg.amount + fee))) \o Fee(fee)),
                                       LegOutputs(<<leg>>, XCH), fee)
  <2>1. OnlyOne(SelectOrFail(w.xch, leg.amount + fee, CoinCap))
    BY SelectionOnlyOne
  <2>2. \A u \in BuildSendXch(w, leg, fee) :
           \E s \in SelectOrFail(w.xch, leg.amount + fee, CoinCap) : u = built(s)
    BY DEF BuildSendXch
  <2> HIDE DEF built
  <2> QED BY <2>1, <2>2 DEF OnlyOne
<1>2. OnlyOne(BuildMultiSendXch(w, legs, fee))
  <2> DEFINE target == Payout(legs) + fee
             built(s) == UnsignedSpend(Linked(s, (PayLegs(legs)
                                 \o Change(w.change, U64(U64Sum(s) - target))) \o Fee(fee)),
                                       LegOutputs(legs, XCH), fee)
  <2>1. OnlyOne(SelectOrFail(w.xch, target, CoinCap))
    BY SelectionOnlyOne
  <2>2. \A u \in BuildMultiSendXch(w, legs, fee) :
           \E s \in SelectOrFail(w.xch, target, CoinCap) : u = built(s)
    BY DEF BuildMultiSendXch
  <2> HIDE DEF built, target
  <2> QED BY <2>1, <2>2 DEF OnlyOne
<1>3. PICK cats : cats = CatsOf(w, asset)
  OBVIOUS
<1>4. OnlyOne(FeeSpends(w, fee, cats[1]))
  BY FeeOnlyOne
<1>5. OnlyOne(BuildSendCat(w, asset, leg, fee))
  <2> DEFINE built(f) == UnsignedSpend(CatInnerSpends(w, asset, cats, leg) \o f,
                                       LegOutputs(<<leg>>, asset), fee)
  <2>1. \A u \in BuildSendCat(w, asset, leg, fee) : \E f \in FeeSpends(w, fee, cats[1]) : u = built(f)
    <3> SUFFICES ASSUME NEW u \in BuildSendCat(w, asset, leg, fee)
                 PROVE  \E f \in FeeSpends(w, fee, cats[1]) : u = built(f)
      OBVIOUS
    <3>1. cats # <<>>
      BY <1>3 DEF BuildSendCat
    <3> QED BY <1>3, <3>1 DEF BuildSendCat
  <2> HIDE DEF built
  <2> QED BY <1>4, <2>1 DEF OnlyOne
<1>6. OnlyOne(BuildMultiSendCat(w, asset, legs, fee))
  <2> DEFINE built(f) == UnsignedSpend(CatRingPaying(w, asset, cats, legs) \o f,
                                       LegOutputs(legs, asset), fee)
  <2>1. \A u \in BuildMultiSendCat(w, asset, legs, fee) :
           \E f \in FeeSpends(w, fee, cats[1]) : u = built(f)
    <3> SUFFICES ASSUME NEW u \in BuildMultiSendCat(w, asset, legs, fee)
                 PROVE  \E f \in FeeSpends(w, fee, cats[1]) : u = built(f)
      OBVIOUS
    <3>1. cats # <<>>
      BY <1>3 DEF BuildMultiSendCat
    <3> QED BY <1>3, <3>1 DEF BuildMultiSendCat
  <2> HIDE DEF built
  <2> QED BY <1>4, <2>1 DEF OnlyOne
<1> QED BY <1>1, <1>2, <1>5, <1>6

LEMMA SelfOnlyOne ==
    ASSUME NEW w, NEW parts, NEW fee, NEW o
    PROVE  /\ OnlyOne(BuildCombineXch(w, fee)) /\ OnlyOne(BuildSplitXch(w, parts, fee))
           /\ OnlyOne(BuildCancel(w, o, fee))
<1>1. OnlyOne(BuildCombineXch(w, fee))
  <2> DEFINE built(s) == SelfDirected(Linked(s, Change(w.change, U64Sum(s) - fee) \o Fee(fee)), fee)
  <2>1. OnlyOne(SelectForConsolidation(w.xch, CoinCap))
    BY SelectionOnlyOne
  <2>2. \A u \in BuildCombineXch(w, fee) :
           \E s \in SelectForConsolidation(w.xch, CoinCap) : u = built(s)
    BY DEF BuildCombineXch
  <2> HIDE DEF built
  <2> QED BY <2>1, <2>2 DEF OnlyOne
<1>2. OnlyOne(BuildSplitXch(w, parts, fee))
  <2>1. PICK c : c = LargestSpendable(w.xch)[1]
    OBVIOUS
  <2> DEFINE built(a) == SelfDirected(<<StandardSpend(c, [i \in DOMAIN a |->
                                          CreateCoin(w.change, a[i])] \o Fee(fee))>>, fee)
  <2>2. \A n : OnlyOne(StaggeredAmounts(n, parts))
    BY DEF OnlyOne, StaggeredAmounts
  <2>3. \A u \in BuildSplitXch(w, parts, fee) :
           \E a \in StaggeredAmounts(AmountOf(c) - fee, parts) : u = built(a)
    BY <2>1 DEF BuildSplitXch
  <2> HIDE DEF built
  <2> QED BY <2>2, <2>3 DEF OnlyOne
<1>3. OnlyOne(BuildCancel(w, o, fee))
  BY DEF OnlyOne, BuildCancel
<1> QED BY <1>1, <1>2, <1>3

LEMMA TipOnlyOne ==
    ASSUME NEW w, NEW asset, NEW leg
    PROVE  OnlyOne(BuildTip(w, asset, leg))
<1>1. PICK cats : cats = CatsOf(w, asset)
  OBVIOUS
<1>2. OnlyOne(LargestSingleKeyGroup(cats))
  <2>1. PICK known : known = {i \in DOMAIN cats : KeyKnown(PuzzleHashOf(cats[i]))}
    OBVIOUS
  <2>2. PICK best : best = {i \in known : \A j \in known : TotalAt(cats, PuzzleHashOf(cats[i]))
                                                         >= TotalAt(cats, PuzzleHashOf(cats[j]))}
    OBVIOUS
  <2>3. PICK g : g = ToSet(Where(cats, LAMBDA c : PuzzleHashOf(c) = PuzzleHashOf(cats[Min(best)])))
    OBVIOUS
  <2>4. LargestSingleKeyGroup(cats) = IF known = {} THEN {} ELSE {g}
    BY <2>1, <2>2, <2>3 DEF LargestSingleKeyGroup
  <2> QED BY <2>4 DEF OnlyOne
<1> DEFINE built(s) == FinishTip(asset, CatRing(asset, s, PaidFrom(w, s, <<leg>>)), leg)
<1>3. \A u \in BuildTip(w, asset, leg) : \E g \in LargestSingleKeyGroup(cats) :
         \E s \in SelectOrFail(g, leg.amount, CoinCap) : u = built(s)
  BY <1>1 DEF BuildTip, TipInputs
<1> HIDE DEF built
<1>4. \A g : OnlyOne(SelectOrFail(g, leg.amount, CoinCap))
  BY SelectionOnlyOne
<1> QED BY <1>2, <1>3, <1>4 DEF OnlyOne

(* A choice for each of some needs, where each leaves no choice.           *)
Selections(D, R, pick) == {f \in [D -> R] : \A i \in DOMAIN f : f[i] \in pick[i]}

LEMMA ChoicesOnlyOne ==
    ASSUME NEW D, NEW R, NEW pick, \A i \in D : OnlyOne(pick[i])
    PROVE  OnlyOne(Selections(D, R, pick))
<1> DEFINE F == {f \in [D -> R] : \A i \in DOMAIN f : f[i] \in pick[i]}
<1>1. ASSUME NEW f \in F, NEW g \in F
      PROVE  f = g
  <2>1. f \in [D -> R] /\ g \in [D -> R] /\ \A i \in D : f[i] \in pick[i] /\ g[i] \in pick[i]
    OBVIOUS
  <2>2. \A i \in D : f[i] = g[i]
    BY <2>1 DEF OnlyOne
  <2> QED BY <2>1, <2>2
<1> QED BY <1>1 DEF OnlyOne, Selections

LEMMA MakeOnlyOne ==
    ASSUME NEW w, NEW offered, NEW requested, NEW fee
    PROVE  OnlyOne(BuildMake(w, offered, requested, fee))
<1> DEFINE cats(i) == CatsOf(w, offered.cats[i].asset)
           need    == offered.xch + fee
           fund(coins, n) == {c \in {Reaching(HighValueFirst(coins), n)} : U64Sum(c) >= n}
           xchs    == IF need = 0 THEN {<<>>} ELSE fund(w.xch, need)
           R       == UNION {fund(ToSet(cats(i)), offered.cats[i].amount) : i \in DOMAIN offered.cats}
           funds   == {f \in [DOMAIN offered.cats -> R] :
                         \A i \in DOMAIN f : f[i] \in fund(ToSet(cats(i)), offered.cats[i].amount)}
           built(x, f) == UnsignedSpend(MakeSpends(w, offered, fee, x, f), MakeOutputs(offered), fee)
<1>1. \A u \in BuildMake(w, offered, requested, fee) : \E x \in xchs \X funds : u = built(x[1], x[2])
  BY DEF BuildMake
<1>2. \A u \in BuildMake(w, offered, requested, fee) : \E x \in xchs, f \in funds : u = built(x, f)
  <2> HIDE DEF xchs, funds, built
  <2> QED BY <1>1
<1>3. OnlyOne(xchs)
  BY DEF OnlyOne
<1>4. OnlyOne(funds)
  <2>1. PICK pick : pick = [i \in DOMAIN offered.cats |-> fund(ToSet(cats(i)), offered.cats[i].amount)]
    OBVIOUS
  <2>2. \A i \in DOMAIN offered.cats : OnlyOne(pick[i])
    BY <2>1 DEF OnlyOne
  <2>3. \A i \in DOMAIN offered.cats : pick[i] = fund(ToSet(cats(i)), offered.cats[i].amount)
    BY <2>1
  <2> HIDE DEF fund, cats, R
  <2>4. PICK D, Q : D = DOMAIN offered.cats /\ Q = R
    OBVIOUS
  <2>5. funds = Selections(D, Q, pick)
    BY <2>3, <2>4 DEF Selections
  <2>6. OnlyOne(Selections(D, Q, pick))
    <3>1. \A i \in D : OnlyOne(pick[i])
      BY <2>2, <2>4
    <3> QED BY <3>1, ChoicesOnlyOne
  <2> QED BY <2>5, <2>6
<1> HIDE DEF xchs, funds, built
<1> QED BY <1>2, <1>3, <1>4 DEF OnlyOne

LEMMA TakeOnlyOne ==
    ASSUME NEW w, NEW o, NEW fee
    PROVE  OnlyOne(BuildTake(w, o, fee))
<1> DEFINE R     == UNION {TakerCats(w, o.requested.cats[i]) : i \in DOMAIN o.requested.cats}
           funds == {f \in [DOMAIN o.requested.cats -> R] :
                       \A i \in DOMAIN f : f[i] \in TakerCats(w, o.requested.cats[i])}
           built(x, f) == UnsignedSpend(TakeSpends(w, o, fee, x, f), TakerOutputs(o), fee)
<1>1. \A u \in BuildTake(w, o, fee) :
         \E x \in TakerXch(w, o, fee) \X funds : u = built(x[1], x[2])
  BY DEF BuildTake, TakerFunds
<1>2. \A u \in BuildTake(w, o, fee) : \E x \in TakerXch(w, o, fee), f \in funds : u = built(x, f)
  <2> HIDE DEF funds, built
  <2> QED BY <1>1
<1>3. OnlyOne(TakerXch(w, o, fee))
  <2>1. PICK n : n = Smaller(Max64, o.requested.xch + fee)
    OBVIOUS
  <2>2. OnlyOne(SelectOrFail(w.xch, n, CoinCap))
    BY SelectionOnlyOne
  <2> QED BY <2>1, <2>2 DEF TakerXch, OnlyOne
<1>4. OnlyOne(funds)
  <2>1. PICK pick : pick = [i \in DOMAIN o.requested.cats |-> TakerCats(w, o.requested.cats[i])]
    OBVIOUS
  <2>2. \A i \in DOMAIN o.requested.cats : OnlyOne(pick[i])
    BY <2>1, SelectionOnlyOne DEF TakerCats
  <2>3. \A i \in DOMAIN o.requested.cats : pick[i] = TakerCats(w, o.requested.cats[i])
    BY <2>1
  <2> HIDE DEF R
  <2>4. PICK D, Q : D = DOMAIN o.requested.cats /\ Q = R
    OBVIOUS
  <2>5. funds = Selections(D, Q, pick)
    BY <2>3, <2>4 DEF Selections
  <2>6. OnlyOne(Selections(D, Q, pick))
    <3>1. \A i \in D : OnlyOne(pick[i])
      BY <2>2, <2>4
    <3> QED BY <3>1, ChoicesOnlyOne
  <2> QED BY <2>5, <2>6
<1> HIDE DEF funds, built
<1> QED BY <1>2, <1>3, <1>4 DEF OnlyOne

LEMMA OptionsOnlyOne ==
    ASSUME NEW w, NEW n, NEW ph, NEW h, NEW on, NEW fee
    PROVE  /\ OnlyOne(BuildMintOption(w, n, ph, fee))
           /\ OnlyOne(BuildTransferOption(w, h, on, ph, fee))
           /\ OnlyOne(BuildExerciseOption(w, h, on, fee))
<1>1. OnlyOne(BuildMintOption(w, n, ph, fee))
  <2> DEFINE built(c) ==
        UnsignedSpend(<<StandardSpend(c, <<CreateCoin(OptionLock, n)>> \o Funds(c, ph)),
                        LauncherSpend(c, ph),
                        [SingletonSpend("option", EveCoin(c, ph), LauncherCoin(c), "nobody",
                                        <<CreateCoin(ph, 1)>>) EXCEPT !.inner = "eve"]>>,
                      <<SpendOutput(ph, n, XCH)>>, AmountOf(c) - (n + 1))
  <2>1. \A u \in BuildMintOption(w, n, ph, fee) : \E c \in PickCoin(w.xch, n + 1, fee) : u = built(c)
    BY DEF BuildMintOption, PickFundingCoin
  <2>2. OnlyOne(PickCoin(w.xch, n + 1, fee))
    BY SelectionOnlyOne
  <2> HIDE DEF built
  <2> QED BY <2>1, <2>2 DEF OnlyOne
<1>2. OnlyOne(BuildTransferOption(w, h, on, ph, fee))
  <2> DEFINE built(f) ==
        UnsignedSpend(<<SingletonSpend("option", on.coin, on.launcher, on.owner[2],
                                       <<CreateCoin(ph, AmountOf(on.coin))>>)>> \o f,
                      <<SpendOutput(ph, AmountOf(on.coin), XCH)>>, fee)
  <2>1. \A u \in BuildTransferOption(w, h, on, ph, fee) :
           \E f \in FeeSpends(w, fee, on.coin) : u = built(f)
    BY DEF BuildTransferOption
  <2>2. OnlyOne(FeeSpends(w, fee, on.coin))
    BY FeeOnlyOne
  <2> HIDE DEF built
  <2> QED BY <2>1, <2>2 DEF OnlyOne
<1>3. OnlyOne(BuildExerciseOption(w, h, on, fee))
  <2> DEFINE built(c) ==
        UnsignedSpend(<<SingletonSpend("option", on.coin, on.launcher, on.owner[2],
                                       <<OtherCondition, MeltSingleton>>),
                        SingletonSpend("one_of_many", Coin(on.launcher, OptionLock, 2),
                                       on.launcher, "nobody", <<CreateCoin(SettlementPayment, 2)>>),
                        StandardSpend(c, <<CreateCoin(SettlementPayment, h.strike)>>)>>,
                      <<SpendOutput(h.creator, h.strike, XCH)>>, AmountOf(c) - h.strike)
  <2>1. \A u \in BuildExerciseOption(w, h, on, fee) :
           \E c \in PickStrikeCoin(w, on.owner, h.strike, fee) : u = built(c)
    BY DEF BuildExerciseOption
  <2>2. OnlyOne(PickStrikeCoin(w, on.owner, h.strike, fee))
    BY SelectionOnlyOne DEF PickStrikeCoin
  <2> HIDE DEF built
  <2> QED BY <2>1, <2>2 DEF OnlyOne
<1> QED BY <1>1, <1>2, <1>3

LEMMA BuiltOnlyOne == ASSUME NEW w, NEW r, RequestOK(r) PROVE OnlyOne(Built(r, w))
<1>1. CASE r.kind = "send_xch"
  BY <1>1, SendsOnlyOne DEF Built
<1>2. CASE r.kind = "send_cat"
  BY <1>2, SendsOnlyOne DEF Built
<1>3. CASE r.kind = "multi_send_xch"
  BY <1>3, SendsOnlyOne DEF Built
<1>4. CASE r.kind = "multi_send_cat"
  BY <1>4, SendsOnlyOne DEF Built
<1>5. CASE r.kind = "combine"
  BY <1>5, SelfOnlyOne DEF Built
<1>6. CASE r.kind = "split"
  BY <1>6, SelfOnlyOne DEF Built
<1>7. CASE r.kind = "tip"
  BY <1>7, TipOnlyOne DEF Built
<1>8. CASE r.kind = "auto_tip"
  BY <1>8, TipOnlyOne DEF Built, BuildAutoTip, OnlyOne
<1>9. CASE r.kind = "make"
  BY <1>9, MakeOnlyOne DEF Built
<1>10. CASE r.kind = "take"
  BY <1>10, TakeOnlyOne DEF Built
<1>11. CASE r.kind = "cancel"
  BY <1>11, SelfOnlyOne DEF Built
<1>12. CASE r.kind = "mint_option"
  BY <1>12, OptionsOnlyOne DEF Built
<1>13. CASE r.kind = "transfer_option"
  BY <1>13, OptionsOnlyOne DEF Built
<1>14. CASE r.kind = "exercise_option"
  BY <1>14, OptionsOnlyOne DEF Built
<1> QED BY <1>1, <1>2, <1>3, <1>4, <1>5, <1>6, <1>7, <1>8, <1>9, <1>10, <1>11, <1>12, <1>13, <1>14
        DEF RequestOK, Kinds

-----------------------------------------------------------------------------
(***************************************************************************)
(* Selection.  What a set of coins comes to is compared with what comes    *)
(* first in an order of all of them: every element of the order weighs     *)
(* what it is worth, or nothing if it is not in the set.                   *)
(***************************************************************************)

FirstOf(ns, n) == [i \in 1..n |-> ns[i]]
(* The totals of the beginnings of ns.                                     *)
Totals(f, ns) ==
    /\ f \in [0..Len(ns) -> Nat] /\ f[0] = 0
    /\ \A n \in 1..Len(ns) : n - 1 \in 0..Len(ns) /\ f[n] = f[n - 1] + ns[n]
    /\ \A n \in 0..Len(ns) : f[n] = Total(FirstOf(ns, n))
    /\ f[Len(ns)] = Total(ns)

LEMMA TotalsAre == ASSUME NEW ns \in Seq(Nat) PROVE \E f : Totals(f, ns)
<1>1. PICK L \in Nat : L = Len(ns) /\ DOMAIN ns = 1..L
  OBVIOUS
<1>2. PICK f : f = [n \in 0..L |-> Total(FirstOf(ns, n))]
  OBVIOUS
<1>3. ASSUME NEW n \in 0..L PROVE FirstOf(ns, n) \in Seq(Nat)
  <2>1. \A i \in 1..n : ns[i] \in Nat
    BY <1>1
  <2> QED BY <2>1 DEF FirstOf
<1>4. f \in [0..L -> Nat]
  BY <1>2, <1>3, TotalNat
<1>5. f[0] = 0
  <2>1. FirstOf(ns, 0) \in Seq({0}) /\ 0 \in 0..L
    BY <1>1 DEF FirstOf
  <2> QED BY <1>2, <2>1, TotalZero
<1>6. ASSUME NEW n \in 1..L PROVE n - 1 \in 0..L /\ f[n] = f[n - 1] + ns[n]
  <2>1. n - 1 \in 0..L /\ n \in 0..L
    OBVIOUS
  <2>2. Total(FirstOf(ns, n)) = Total(FirstOf(ns, n - 1)) + ns[n]
    BY <1>1, TotalStep DEF FirstOf
  <2> QED BY <1>2, <2>1, <2>2
<1>7. f[L] = Total(ns)
  <2>1. FirstOf(ns, L) = ns
    BY <1>1 DEF FirstOf
  <2> QED BY <1>2, <2>1
<1>8. \A n \in 0..L : f[n] = Total(FirstOf(ns, n))
  BY <1>2
<1> QED BY <1>1, <1>4, <1>5, <1>6, <1>7, <1>8 DEF Totals

Climbs(f, ns, n) == \E x, b \in Nat : f[n - 1] = x /\ ns[n] = b /\ f[n] = x + b

LEMMA TotalsStep ==
    ASSUME NEW ns \in Seq(Nat), NEW f, Totals(f, ns), NEW n \in 1..Len(ns)
    PROVE  Climbs(f, ns, n)
<1>1. f[n] = f[n - 1] + ns[n] /\ n - 1 \in 0..Len(ns) /\ f \in [0..Len(ns) -> Nat]
  BY DEF Totals
<1>2. f[n - 1] \in Nat
  BY <1>1
<1>3. ns[n] \in Nat
  OBVIOUS
<1> QED BY <1>1, <1>2, <1>3 DEF Climbs

(* Totals of sequences of which one is nowhere above the other, and of     *)
(* sequences that differ in one place.                                     *)
LEMMA TotalBelow ==
    ASSUME NEW ns \in Seq(Nat), NEW ms \in Seq(Nat), Len(ns) = Len(ms),
           \A i \in 1..Len(ns) : ns[i] <= ms[i]
    PROVE  Total(ns) <= Total(ms)
<1>1. PICK L \in Nat : L = Len(ns) /\ L = Len(ms)
  OBVIOUS
<1>2. PICK f : Totals(f, ns)
  BY TotalsAre
<1>3. PICK g : Totals(g, ms)
  BY TotalsAre
<1> DEFINE T == {n \in 0..L : f[n] <= g[n]}
<1>4. 0 \in T
  BY <1>1, <1>2, <1>3 DEF Totals
<1>5. ASSUME NEW n \in 1..L, n - 1 \in T PROVE n \in T
  <2>1. n \in 1..Len(ns) /\ n \in 1..Len(ms) /\ n \in 0..L
    BY <1>1
  <2>2. PICK x, b \in Nat : f[n - 1] = x /\ ns[n] = b /\ f[n] = x + b
    <3> HIDE DEF T
    <3>1. Climbs(f, ns, n)
      BY <1>2, <2>1, TotalsStep
    <3> QED BY <3>1 DEF Climbs
  <2>3. PICK y, c \in Nat : g[n - 1] = y /\ ms[n] = c /\ g[n] = y + c
    <3> HIDE DEF T
    <3>1. Climbs(g, ms, n)
      BY <1>3, <2>1, TotalsStep
    <3> QED BY <3>1 DEF Climbs
  <2>7. f[n - 1] <= g[n - 1]
    BY <1>5
  <2>8. ns[n] <= ms[n]
    BY <2>1
  <2>9. f[n] <= g[n]
    <3> HIDE DEF T
    <3>1. x <= y
      BY <2>2, <2>3, <2>7, Zenon
    <3>2. b <= c
      BY <2>2, <2>3, <2>8, Zenon
    <3>3. x + b <= y + c
      BY <3>1, <3>2
    <3> QED BY <2>2, <2>3, <3>3, Zenon
  <2> QED BY <2>1, <2>9
<1>6. \A n \in 0..L : n \in T
  <2> HIDE DEF T
  <2> QED BY <1>4, <1>5, InductionUpTo
<1> QED BY <1>1, <1>2, <1>3, <1>6 DEF Totals

LEMMA OneMoreStep ==
    ASSUME NEW n \in Nat, NEW j \in Nat, NEW a \in Nat, NEW b \in Nat, NEW c \in Nat,
           NEW x \in Nat, NEW y \in Nat, x = y + (IF n - 1 < j THEN 0 ELSE a),
           n # j => b = c, n = j => b = c + a
    PROVE  x + b = y + c + (IF n < j THEN 0 ELSE a)
<1>1. CASE n < j
  <2>1. x = y + 0 /\ b = c
    BY <1>1
  <2> QED BY <1>1, <2>1
<1>2. CASE n = j
  <2>1. x = y + 0 /\ b = c + a
    BY <1>2
  <2> QED BY <1>2, <2>1
<1>3. CASE n > j
  <2>1. x = y + a /\ b = c
    BY <1>3
  <2> QED BY <1>3, <2>1
<1> QED BY <1>1, <1>2, <1>3

LEMMA TotalOneMore ==
    ASSUME NEW ns \in Seq(Nat), NEW ms \in Seq(Nat), Len(ns) = Len(ms), NEW a \in Nat,
           NEW j \in 1..Len(ns), ns[j] = ms[j] + a, \A i \in 1..Len(ns) : i # j => ns[i] = ms[i]
    PROVE  Total(ns) = Total(ms) + a
<1>1. PICK L \in Nat : L = Len(ns) /\ L = Len(ms)
  OBVIOUS
<1>2. PICK f : Totals(f, ns)
  BY TotalsAre
<1>3. PICK g : Totals(g, ms)
  BY TotalsAre
<1> DEFINE T == {n \in 0..L : f[n] = g[n] + (IF n < j THEN 0 ELSE a)}
<1>4. 0 \in T
  <2>1. f[0] = 0 /\ g[0] = 0 /\ 0 < j
    BY <1>1, <1>2, <1>3 DEF Totals
  <2>2. 0 \in 0..L /\ f[0] = g[0] + (IF 0 < j THEN 0 ELSE a)
    BY <1>1, <2>1
  <2> QED BY <2>2
<1>5. ASSUME NEW n \in 1..L, n - 1 \in T PROVE n \in T
  <2>1. n \in 1..Len(ns) /\ n \in 1..Len(ms) /\ n \in 0..L /\ n \in Nat /\ j \in Nat
    BY <1>1
  <2>2. PICK x, b \in Nat : f[n - 1] = x /\ ns[n] = b /\ f[n] = x + b
    <3> HIDE DEF T
    <3>1. Climbs(f, ns, n)
      BY <1>2, <2>1, TotalsStep
    <3> QED BY <3>1 DEF Climbs
  <2>3. PICK y, c \in Nat : g[n - 1] = y /\ ms[n] = c /\ g[n] = y + c
    <3> HIDE DEF T
    <3>1. Climbs(g, ms, n)
      BY <1>3, <2>1, TotalsStep
    <3> QED BY <3>1 DEF Climbs
  <2>4. f[n - 1] = g[n - 1] + (IF n - 1 < j THEN 0 ELSE a)
    BY <1>5
  <2>5. (n # j => ns[n] = ms[n]) /\ (n = j => ns[n] = ms[n] + a)
    BY <2>1
  <2>8. f[n] = g[n] + (IF n < j THEN 0 ELSE a)
    <3> HIDE DEF T
    <3>1. x = y + (IF n - 1 < j THEN 0 ELSE a)
      BY <2>2, <2>3, <2>4, Zenon
    <3>2. (n # j => b = c) /\ (n = j => b = c + a)
      BY <2>2, <2>3, <2>5, Zenon
    <3>3. x + b = y + c + (IF n < j THEN 0 ELSE a)
      BY <2>1, <3>1, <3>2, OneMoreStep
    <3> QED BY <2>2, <2>3, <3>3, Zenon
  <2> QED BY <2>1, <2>8
<1>6. \A n \in 0..L : n \in T
  <2> HIDE DEF T
  <2> QED BY <1>4, <1>5, InductionUpTo
<1> QED BY <1>1, <1>2, <1>3, <1>6 DEF Totals

Weigh(s, T, w)   == [i \in DOMAIN s |-> IF s[i] \in T THEN w[s[i]] ELSE 0]
Weighed(s, T, w) == Total(Weigh(s, T, w))

LEMMA WeighIs ==
    ASSUME NEW S, NEW s, Enumerates(s, S), NEW w \in [S -> Nat], NEW T
    PROVE  /\ Weigh(s, T, w) \in Seq(Nat) /\ Len(Weigh(s, T, w)) = Len(s)
           /\ Weighed(s, T, w) \in Nat
<1>1. PICK n \in Nat : n = Len(s) /\ DOMAIN s = 1..n /\ \A i \in 1..n : s[i] \in S
  BY DEF Enumerates
<1>2. PICK v : v = Weigh(s, T, w)
  OBVIOUS
<1>3. v = [i \in 1..n |-> IF s[i] \in T THEN w[s[i]] ELSE 0]
  BY <1>1, <1>2 DEF Weigh
<1>4. \A i \in 1..n : w[s[i]] \in Nat
  BY <1>1
<1>5. v \in [1..n -> Nat]
  BY <1>3, <1>4
<1>6. v \in Seq(Nat) /\ Len(v) = n
  BY <1>5
<1> QED BY <1>1, <1>2, <1>6, TotalNat DEF Weighed

LEMMA WeighedNothing ==
    ASSUME NEW S, NEW s, Enumerates(s, S), NEW w \in [S -> Nat]
    PROVE  Weighed(s, {}, w) = 0
<1>1. PICK v : v = Weigh(s, {}, w) /\ v \in Seq(Nat)
  BY WeighIs
<1>2. \A i \in DOMAIN v : v[i] = 0
  BY <1>1 DEF Weigh
<1>3. v \in Seq({0})
  BY <1>1, <1>2
<1> QED BY <1>1, <1>3, TotalZero DEF Weighed

LEMMA WeighedStep ==
    ASSUME NEW S, NEW s, Enumerates(s, S), NEW w \in [S -> Nat], NEW T \in SUBSET S, NEW x \in T
    PROVE  Weighed(s, T, w) = Weighed(s, T \ {x}, w) + w[x]
<1>1. PICK n \in Nat : n = Len(s) /\ DOMAIN s = 1..n
  BY DEF Enumerates
<1>2. PICK j \in 1..n : s[j] = x
  BY <1>1 DEF Enumerates, ToSet
<1>3. \A i \in 1..n : s[i] = x => i = j
  BY <1>1, <1>2 DEF Enumerates
<1>4. PICK v : v = Weigh(s, T, w) /\ v \in Seq(Nat) /\ Len(v) = n
  BY <1>1, WeighIs
<1>5. PICK u : u = Weigh(s, T \ {x}, w) /\ u \in Seq(Nat) /\ Len(u) = n
  BY <1>1, WeighIs
<1>6. w[x] \in Nat /\ v[j] = w[x] /\ u[j] = 0
  BY <1>1, <1>2, <1>4, <1>5 DEF Weigh
<1>7. \A i \in 1..n : i # j => v[i] = u[i]
  BY <1>1, <1>3, <1>4, <1>5 DEF Weigh
<1>8. v[j] = u[j] + w[x]
  BY <1>6
<1>9. Total(v) = Total(u) + w[x]
  <2>1. Len(v) = Len(u) /\ j \in 1..Len(v) /\ \A i \in 1..Len(v) : i # j => v[i] = u[i]
    BY <1>4, <1>5, <1>7
  <2>2. \A a \in Nat : v[j] = u[j] + a => Total(v) = Total(u) + a
    BY <1>4, <1>5, <2>1, TotalOneMore
  <2> QED BY <1>6, <1>8, <2>2
<1> QED BY <1>4, <1>5, <1>9 DEF Weighed

LEMMA WeighedBelow ==
    ASSUME NEW S, NEW s, Enumerates(s, S), NEW w \in [S -> Nat], NEW T \in SUBSET S
    PROVE  Weighed(s, T, w) <= Weighed(s, S, w)
<1>1. PICK n \in Nat : n = Len(s) /\ DOMAIN s = 1..n /\ \A i \in 1..n : s[i] \in S
  BY DEF Enumerates
<1>2. PICK v : v = Weigh(s, T, w) /\ v \in Seq(Nat) /\ Len(v) = n
  BY <1>1, WeighIs
<1>3. PICK u : u = Weigh(s, S, w) /\ u \in Seq(Nat) /\ Len(u) = n
  BY <1>1, WeighIs
<1>4. \A i \in 1..n : v[i] <= u[i]
  BY <1>1, <1>2, <1>3 DEF Weigh
<1>5. Total(v) <= Total(u)
  BY <1>2, <1>3, <1>4, TotalBelow
<1> QED BY <1>2, <1>3, <1>5 DEF Weighed

(* How many there are weighs what counting them does.                      *)
LEMMA WeighedOnes ==
    ASSUME NEW S, IsFiniteSet(S), NEW s, Enumerates(s, S), NEW w \in [S -> Nat],
           \A x \in S : w[x] = 1, NEW T, T \subseteq S
    PROVE  Weighed(s, T, w) = Cardinality(T)
<1>1. w \in [S -> Nat] /\ \A x \in S : w[x] = 1
  OBVIOUS
<1>2. PICK N \in Nat : N = Cardinality(T)
  BY FS_Subset, FS_CardinalityType
<1> DEFINE P == {n \in 0..N : \A U \in SUBSET T : Cardinality(U) = n => Weighed(s, U, w) = n}
<1>3. 0 \in P
  <2> SUFFICES ASSUME NEW U \in SUBSET T, Cardinality(U) = 0
               PROVE  Weighed(s, U, w) = 0
    OBVIOUS
  <2>1. U = {}
    BY FS_Subset, FS_EmptySet
  <2> QED BY <1>1, <2>1, WeighedNothing
<1>4. ASSUME NEW n \in 1..N, n - 1 \in P PROVE n \in P
  <2> SUFFICES ASSUME NEW U \in SUBSET T, Cardinality(U) = n
               PROVE  Weighed(s, U, w) = n
    OBVIOUS
  <2>1. IsFiniteSet(U) /\ U # {}
    BY FS_Subset, FS_EmptySet
  <2>2. PICK x \in U : TRUE
    BY <2>1
  <2>3. U \ {x} \in SUBSET T /\ Cardinality(U \ {x}) = n - 1
    BY <2>1, FS_RemoveElement
  <2>4. Weighed(s, U \ {x}, w) = n - 1
    BY <1>4, <2>3
  <2>5. U \in SUBSET S /\ w[x] = 1
    BY <1>1
  <2>6. Weighed(s, U, w) = Weighed(s, U \ {x}, w) + w[x]
    BY <1>1, <2>5, WeighedStep
  <2> QED BY <2>4, <2>5, <2>6
<1>5. \A n \in 0..N : n \in P
  <2> HIDE DEF P
  <2> QED BY <1>3, <1>4, InductionUpTo
<1>6. N \in P /\ T \in SUBSET T
  BY <1>5
<1> QED BY <1>2, <1>6

(* How many elements of T the beginnings of s hold.                        *)
Tally(cnt, s, T) ==
    /\ cnt \in [0..Len(s) -> Nat] /\ cnt[0] = 0
    /\ \A m \in 1..Len(s) : cnt[m] = cnt[m - 1] + (IF s[m] \in T THEN 1 ELSE 0)
    /\ cnt[Len(s)] = Cardinality(T)

LEMMA TallyExists ==
    ASSUME NEW S, IsFiniteSet(S), NEW s, Enumerates(s, S), NEW T, T \subseteq S
    PROVE  \E cnt : Tally(cnt, s, T)
<1>1. PICK n \in Nat : n = Len(s) /\ DOMAIN s = 1..n /\ \A i \in 1..n : s[i] \in S
  BY DEF Enumerates
<1>2. PICK one \in [S -> Nat] : one = [x \in S |-> 1]
  OBVIOUS
<1>3. PICK c : c = Weigh(s, T, one) /\ c \in Seq(Nat) /\ Len(c) = n
  BY <1>1, WeighIs
<1>4. PICK cnt : Totals(cnt, c)
  BY <1>3, TotalsAre
<1>5. \A m \in 1..n : c[m] = IF s[m] \in T THEN 1 ELSE 0
  BY <1>1, <1>2, <1>3 DEF Weigh
<1>6. \A m \in 1..n : cnt[m] = cnt[m - 1] + (IF s[m] \in T THEN 1 ELSE 0)
  BY <1>3, <1>4, <1>5 DEF Totals
<1>7. cnt[n] = Cardinality(T)
  <2>1. Weighed(s, T, one) = Cardinality(T)
    BY <1>2, WeighedOnes
  <2> QED BY <1>3, <1>4, <2>1 DEF Totals, Weighed
<1>8. cnt \in [0..n -> Nat] /\ cnt[0] = 0
  BY <1>3, <1>4 DEF Totals
<1> QED BY <1>1, <1>6, <1>7, <1>8 DEF Tally

(* What a fold over a set comes to, whichever element it takes first.      *)
Chosen(U) == CHOOSE x \in U : TRUE
Folds(f, T, w) ==
    f = [U \in SUBSET T |-> IF U = {} THEN 0 ELSE w[Chosen(U)] + f[U \ {Chosen(U)}]]

LEMMA FoldStep ==
    ASSUME NEW S, NEW s, Enumerates(s, S), NEW w \in [S -> Nat], NEW T \in SUBSET S,
           NEW U \in SUBSET T, U # {}, NEW x, x = Chosen(U)
    PROVE  /\ x \in U /\ U \ {x} \in SUBSET T
           /\ Weighed(s, U, w) = w[x] + Weighed(s, U \ {x}, w)
<1>1. x \in U /\ U \in SUBSET S
  BY DEF Chosen
<1>2. Weighed(s, U, w) = Weighed(s, U \ {x}, w) + w[x]
  BY <1>1, WeighedStep
<1>3. w[x] \in Nat /\ Weighed(s, U \ {x}, w) \in Nat
  BY <1>1, WeighIs
<1> QED BY <1>1, <1>2, <1>3

LEMMA FoldExists ==
    ASSUME NEW S, NEW s, Enumerates(s, S), NEW w \in [S -> Nat], NEW T \in SUBSET S
    PROVE  \E f : Folds(f, T, w)
<1>1. PICK h : h = [U \in SUBSET T |-> Weighed(s, U, w)]
  OBVIOUS
<1>2. ASSUME NEW U \in SUBSET T
      PROVE  h[U] = IF U = {} THEN 0 ELSE w[Chosen(U)] + h[U \ {Chosen(U)}]
  <2>1. CASE U = {}
    BY <1>1, <2>1, WeighedNothing
  <2>2. CASE U # {}
    <3>1. PICK x : x = Chosen(U)
      OBVIOUS
    <3>2. U \ {x} \in SUBSET T /\ Weighed(s, U, w) = w[x] + Weighed(s, U \ {x}, w)
      BY <2>2, <3>1, FoldStep
    <3>3. h[U] = w[x] + h[U \ {x}]
      BY <1>1, <3>2
    <3> QED BY <2>2, <3>1, <3>3
  <2> QED BY <2>1, <2>2
<1>3. h = [U \in SUBSET T |-> h[U]]
  BY <1>1
<1>4. Folds(h, T, w)
  BY <1>2, <1>3 DEF Folds
<1> QED BY <1>4

LEMMA FoldIs ==
    ASSUME NEW S, IsFiniteSet(S), NEW s, Enumerates(s, S), NEW w \in [S -> Nat],
           NEW T \in SUBSET S, NEW f, Folds(f, T, w)
    PROVE  f[T] = Weighed(s, T, w)
<1>1. PICK N \in Nat : N = Cardinality(T)
  BY FS_Subset, FS_CardinalityType
<1> DEFINE P == {n \in 0..N : \A U \in SUBSET T : Cardinality(U) = n => f[U] = Weighed(s, U, w)}
<1>2. 0 \in P
  <2> SUFFICES ASSUME NEW U \in SUBSET T, Cardinality(U) = 0
               PROVE  f[U] = Weighed(s, U, w)
    OBVIOUS
  <2>1. U = {}
    BY FS_Subset, FS_EmptySet
  <2>2. f[{}] = 0
    BY DEF Folds
  <2> QED BY <2>1, <2>2, WeighedNothing
<1>3. ASSUME NEW n \in 1..N, n - 1 \in P PROVE n \in P
  <2> SUFFICES ASSUME NEW U \in SUBSET T, Cardinality(U) = n
               PROVE  f[U] = Weighed(s, U, w)
    OBVIOUS
  <2>1. IsFiniteSet(U) /\ U # {}
    BY FS_Subset, FS_EmptySet
  <2>2. PICK x : x = Chosen(U)
    OBVIOUS
  <2>3. x \in U /\ U \ {x} \in SUBSET T /\ Weighed(s, U, w) = w[x] + Weighed(s, U \ {x}, w)
    BY <2>1, <2>2, FoldStep
  <2>4. Cardinality(U \ {x}) = n - 1
    BY <2>1, <2>3, FS_RemoveElement
  <2>5. f[U \ {x}] = Weighed(s, U \ {x}, w)
    BY <1>3, <2>3, <2>4
  <2>6. f[U] = w[x] + f[U \ {x}]
    BY <2>1, <2>2 DEF Folds
  <2> QED BY <2>3, <2>5, <2>6
<1>4. \A n \in 0..N : n \in P
  <2> HIDE DEF P
  <2> QED BY <1>2, <1>3, InductionUpTo
<1>5. N \in P /\ T \in SUBSET T
  BY <1>4
<1> QED BY <1>1, <1>5

(* The amounts of coins.                                                   *)
Worth(S) == [c \in S |-> AmountOf(c)]

LEMMA WorthNat == ASSUME NEW S, Purse(S) PROVE Worth(S) \in [S -> Nat]
BY DEF Purse, IsCoin, Worth

(* A sum over a set, as the library folds it.                              *)
LEMMA TotalOfIs ==
    ASSUME NEW S, Purse(S), NEW s, Enumerates(s, S), NEW T \in SUBSET S
    PROVE  TotalOf(T) = Weighed(s, T, Worth(S))
<1>1. PICK w \in [S -> Nat] : w = Worth(S)
  BY WorthNat
<1> DEFINE Iter(f) == f = [U \in SUBSET T |-> IF U = {} THEN 0
                             ELSE AmountOf(Chosen(U)) + f[U \ {Chosen(U)}]]
<1>2. TotalOf(T) = (CHOOSE f : Iter(f))[T]
  BY DEF TotalOf, MapThenSumSet, MapThenFoldSet, Chosen
<1>3. \A f : Iter(f) <=> Folds(f, T, w)
  <2> SUFFICES ASSUME NEW f
               PROVE  Iter(f) <=> Folds(f, T, w)
    OBVIOUS
  <2>1. \A U \in SUBSET T : U # {} => w[Chosen(U)] = AmountOf(Chosen(U))
    <3> SUFFICES ASSUME NEW U \in SUBSET T, U # {}
                 PROVE  w[Chosen(U)] = AmountOf(Chosen(U))
      OBVIOUS
    <3>1. Chosen(U) \in S
      BY DEF Chosen
    <3> QED BY <1>1, <3>1 DEF Worth
  <2> QED BY <2>1 DEF Folds
<1>4. \E f : Iter(f)
  BY <1>1, <1>3, FoldExists
<1> HIDE DEF Iter
<1>5. PICK f : f = (CHOOSE g : Iter(g)) /\ Iter(f)
  BY <1>4
<1>6. f[T] = Weighed(s, T, w)
  <2>1. Folds(f, T, w)
    BY <1>3, <1>5
  <2>2. IsFiniteSet(S)
    BY DEF Purse
  <2> QED BY <2>1, <2>2, FoldIs
<1> QED BY <1>1, <1>2, <1>5, <1>6

Amounts(s) == [i \in DOMAIN s |-> AmountOf(s[i])]

LEMMA AmountsAre ==
    ASSUME NEW S, Purse(S), NEW s, Ordered(s, S)
    PROVE  /\ Amounts(s) \in Seq(Nat) /\ Len(Amounts(s)) = Len(s)
           /\ Amounts(s) = Weigh(s, S, Worth(S))
<1>1. PICK n \in Nat : n = Len(s) /\ DOMAIN s = 1..n /\ \A i \in 1..n : s[i] \in S
  BY DEF Ordered, Enumerates
<1>2. \A i \in 1..n : AmountOf(s[i]) \in Nat
  BY <1>1 DEF Purse, IsCoin
<1>3. PICK v : v = Amounts(s)
  OBVIOUS
<1>4. v = [i \in 1..n |-> AmountOf(s[i])]
  BY <1>1, <1>3 DEF Amounts
<1>5. v \in [1..n -> Nat]
  BY <1>2, <1>4
<1>6. v \in Seq(Nat) /\ Len(v) = n
  BY <1>5
<1>7. v = Weigh(s, S, Worth(S))
  BY <1>1, <1>4 DEF Weigh, Worth
<1> QED BY <1>1, <1>3, <1>6, <1>7

(* The first k coins of an order.                                          *)
LEMMA FirstSum ==
    ASSUME NEW S, Purse(S), NEW s, Ordered(s, S), NEW g, Totals(g, Amounts(s)),
           NEW k \in 0..Len(s), NEW p, IsFirst(p, s, k)
    PROVE  SumOver(AmountOf, p) = g[k] /\ g[k] \in Nat
<1>1. Len(s) = Len(Amounts(s)) /\ DOMAIN s = 1..Len(s) /\ Len(s) \in Nat
  BY AmountsAre DEF Ordered, Enumerates
<1>2. SumOver(AmountOf, p) = Total([i \in 1..k |-> AmountOf(p[i])])
  BY DEF SumOver, IsFirst
<1>3. [i \in 1..k |-> AmountOf(p[i])] = FirstOf(Amounts(s), k)
  BY <1>1 DEF IsFirst, FirstOf, Amounts
<1>4. g[k] = Total(FirstOf(Amounts(s), k)) /\ g[k] \in Nat
  BY <1>1 DEF Totals
<1> QED BY <1>2, <1>3, <1>4

LEMMA FirstSet ==
    ASSUME NEW S, Purse(S), NEW s, Ordered(s, S), NEW k \in 0..Len(s), NEW p, IsFirst(p, s, k)
    PROVE  /\ ToSet(p) \in SUBSET S /\ Cardinality(ToSet(p)) = k /\ IsFiniteSet(ToSet(p))
           /\ SumOver(AmountOf, p) = TotalOf(ToSet(p))
<1>1. Takes(p, S) /\ Len(p) = k /\ DOMAIN p = 1..k
  BY FirstTakes, OrderTakes DEF IsFirst
<1>2. PICK T : T = ToSet(p)
  OBVIOUS
<1>3. T \in SUBSET S /\ \A i \in 1..k : p[i] \in T
  BY <1>1, <1>2 DEF Takes, ToSet
<1>4. IsFiniteSet(T) /\ Cardinality(T) = k
  <2>1. p \in [1..k -> T] /\ \A i, j \in 1..k : p[i] = p[j] => i = j
    <3>1. p = [i \in 1..k |-> p[i]]
      BY <1>1 DEF Takes
    <3> QED BY <1>1, <1>3, <3>1 DEF Takes
  <2>2. \A x \in T : \E i \in 1..k : p[i] = x
    BY <1>1, <1>2 DEF ToSet
  <2>3. p \in Surjection(1..k, T) /\ p \in Injection(1..k, T)
    BY <2>1, <2>2 DEF Injection, Surjection, IsInjective
  <2>4. IsFiniteSet(1..k) /\ Cardinality(1..k) = k
    BY FS_Interval
  <2> QED BY <2>3, <2>4, FS_Surjection
<1>5. p \in Seq(T)
  <2>1. p = [i \in 1..k |-> p[i]]
    BY <1>1 DEF Takes
  <2> QED BY <1>3, <2>1
<1>6. Enumerates(p, T)
  BY <1>1, <1>2, <1>4, <1>5 DEF Enumerates, Takes
<1>7. Purse(T) /\ Ordered(p, T)
  <2>1. Descending(p)
    BY <1>1 DEF Ordered, Enumerates, Descending, IsFirst
  <2> QED BY <1>3, <1>4, <1>6, <2>1 DEF Purse, Ordered
<1>8. SumOver(AmountOf, p) = Weighed(p, T, Worth(T))
  <2>1. Amounts(p) = Weigh(p, T, Worth(T))
    BY <1>7, AmountsAre
  <2> QED BY <2>1 DEF SumOver, Weighed, Amounts
<1>9. TotalOf(T) = Weighed(p, T, Worth(T))
  BY <1>6, <1>7, TotalOfIs
<1> QED BY <1>2, <1>3, <1>4, <1>8, <1>9

(* No choice of k coins is worth more than the first k of the order.       *)
LEMMA FirstBest ==
    ASSUME NEW S, Purse(S), NEW s, Ordered(s, S), NEW g, Totals(g, Amounts(s)),
           NEW T \in SUBSET S
    PROVE  /\ Cardinality(T) \in 0..Len(s) /\ TotalOf(T) \in Nat
           /\ TotalOf(T) <= g[Cardinality(T)]
<1>1. PICK n \in Nat : n = Len(s) /\ DOMAIN s = 1..n
  BY DEF Ordered, Enumerates
<1>2. Enumerates(s, S) /\ IsFiniteSet(S) /\ \A i \in 1..n : s[i] \in S /\ AmountOf(s[i]) \in Nat
  BY <1>1 DEF Ordered, Enumerates, Purse, IsCoin
<1>3. PICK w \in [S -> Nat] : w = Worth(S)
  BY WorthNat
<1>4. PICK v : v = Weigh(s, T, w) /\ v \in Seq(Nat) /\ Len(v) = n
  BY <1>1, <1>2, WeighIs
<1>5. PICK f : Totals(f, v)
  BY <1>4, TotalsAre
<1>8. PICK cnt : Tally(cnt, s, T)
  BY <1>2, TallyExists
<1>9. Totals(g, Amounts(s)) /\ Len(Amounts(s)) = n
  BY <1>1, AmountsAre
<1> DEFINE P == {m \in 0..n : cnt[m] <= m /\ f[m] <= g[cnt[m]]}
<1>10. 0 \in P
  BY <1>1, <1>4, <1>5, <1>8, <1>9 DEF Totals, Tally
<1>11. ASSUME NEW m \in 1..n, m - 1 \in P PROVE m \in P
  <2>1. PICK k \in Nat : k = cnt[m - 1] /\ k <= m - 1 /\ f[m - 1] <= g[k]
    BY <1>1, <1>8, <1>11 DEF Tally
  <2>2. /\ f[m] = f[m - 1] + v[m] /\ f[m - 1] \in Nat
        /\ cnt[m] = k + (IF s[m] \in T THEN 1 ELSE 0)
    BY <1>1, <1>4, <1>5, <1>8, <2>1 DEF Totals, Tally
  <2>3. CASE s[m] \notin T
    <3>1. v[m] = 0 /\ cnt[m] = k
      BY <1>1, <1>4, <2>2, <2>3 DEF Weigh
    <3> QED BY <2>1, <2>2, <3>1
  <2>4. CASE s[m] \in T
    <3>1. v[m] = AmountOf(s[m]) /\ cnt[m] = k + 1
      BY <1>1, <1>2, <1>3, <1>4, <2>2, <2>4 DEF Weigh, Worth
    <3>2. k + 1 \in 1..n /\ k + 1 <= m
      BY <2>1
    <3>3. AmountOf(s[k + 1]) >= AmountOf(s[m])
      <4>1. CASE k + 1 = m
        BY <1>2, <4>1
      <4>2. CASE k + 1 # m
        BY <1>1, <3>2, <4>2 DEF Ordered, Descending
      <4> QED BY <4>1, <4>2
    <3>4. g[k + 1] = g[k] + AmountOf(s[k + 1]) /\ g[k] \in Nat
      <4>1. (k + 1) - 1 = k /\ k \in 0..n
        BY <2>1, <3>2
      <4>2. g[k + 1] = g[(k + 1) - 1] + Amounts(s)[k + 1] /\ g[k] \in Nat
        BY <1>9, <3>2, <4>1 DEF Totals
      <4> QED BY <1>1, <3>2, <4>1, <4>2 DEF Amounts
    <3>5. AmountOf(s[m]) \in Nat /\ AmountOf(s[k + 1]) \in Nat
      BY <1>2, <3>2
    <3>6. f[m] <= g[k + 1] /\ cnt[m] = k + 1
      BY <2>1, <2>2, <3>1, <3>3, <3>4, <3>5
    <3> QED BY <3>2, <3>6
  <2> QED BY <2>3, <2>4
<1>12. \A m \in 0..n : m \in P
  <2> HIDE DEF P
  <2> QED BY <1>10, <1>11, InductionUpTo
<1>13. n \in P
  BY <1>12
<1>14. cnt[n] = Cardinality(T)
  BY <1>1, <1>8 DEF Tally
<1>15. f[n] = TotalOf(T) /\ f[n] \in Nat
  <2>1. TotalOf(T) = Weighed(s, T, w)
    BY <1>2, <1>3, TotalOfIs
  <2> QED BY <1>4, <1>5, <2>1 DEF Totals, Weighed
<1>16. cnt[n] \in Nat
  BY <1>1, <1>8 DEF Tally
<1> QED BY <1>1, <1>13, <1>14, <1>15, <1>16

LEMMA TotalsGrow ==
    ASSUME NEW ns \in Seq(Nat), NEW f, Totals(f, ns), NEW a \in 0..Len(ns), NEW b \in 0..Len(ns), a <= b
    PROVE  f[a] \in Nat /\ f[b] \in Nat /\ f[a] <= f[b]
<1>1. PICK L \in Nat : L = Len(ns)
  OBVIOUS
<1>2. \A n \in 0..L : f[n] \in Nat
  BY <1>1 DEF Totals
<1> DEFINE T == {n \in 0..L : a <= n => f[a] <= f[n]}
<1>3. 0 \in T
  BY <1>1, <1>2
<1>4. ASSUME NEW n \in 1..L, n - 1 \in T PROVE n \in T
  <2>1. f[n] = f[n - 1] + ns[n] /\ ns[n] \in Nat /\ n - 1 \in 0..L
    BY <1>1 DEF Totals
  <2>2. CASE a = n
    BY <1>1, <1>2, <2>2
  <2>3. CASE a # n
    <3> SUFFICES ASSUME a <= n PROVE f[a] <= f[n]
      OBVIOUS
    <3>1. a <= n - 1
      BY <1>1, <2>3
    <3>2. f[a] <= f[n - 1] /\ f[a] \in Nat /\ f[n - 1] \in Nat
      BY <1>1, <1>2, <1>4, <2>1, <3>1
    <3> QED BY <2>1, <3>2
  <2> QED BY <2>2, <2>3
<1>5. \A n \in 0..L : n \in T
  <2> HIDE DEF T
  <2> QED BY <1>3, <1>4, InductionUpTo
<1> QED BY <1>1, <1>2, <1>5

(* An order of coins whose total is a u64, with the totals of its          *)
(* beginnings, none of which wraps.                                        *)
Fits64(s, S, g) ==
    /\ Ordered(s, S) /\ Totals(g, Amounts(s))
    /\ Len(s) = Cardinality(S) /\ Len(s) \in Nat
    /\ TotalOf(S) = g[Len(s)] /\ U64(TotalOf(S)) = TotalOf(S)
    /\ \A k \in 0..Len(s) : \A p : IsFirst(p, s, k) => U64Sum(p) = g[k] /\ SumOver(AmountOf, p) = g[k]
    /\ \A k, m \in 0..Len(s) : k <= m => g[k] \in Nat /\ g[m] \in Nat /\ g[k] <= g[m]

LEMMA OrderFits ==
    ASSUME NEW S, Purse(S), TotalOf(S) <= Max64
    PROVE  \E g : Fits64(HighValueFirst(S), S, g)
<1>1. PICK s : s = HighValueFirst(S) /\ Ordered(s, S)
  BY HighValueFirstIs
<1>2. PICK n \in Nat : n = Len(s) /\ n = Cardinality(S)
  BY <1>1, FS_CardinalityType DEF Ordered, Enumerates, Purse
<1>3. PICK g : Totals(g, Amounts(s))
  BY <1>1, AmountsAre, TotalsAre
<1>4. Amounts(s) \in Seq(Nat) /\ Len(Amounts(s)) = n
  BY <1>1, <1>2, AmountsAre
<1>5. TotalOf(S) = g[n]
  <2>1. TotalOf(S) = Weighed(s, S, Worth(S))
    BY <1>1, TotalOfIs DEF Ordered
  <2>2. Weighed(s, S, Worth(S)) = Total(Amounts(s))
    BY <1>1, AmountsAre DEF Weighed
  <2> QED BY <1>3, <1>4, <2>1, <2>2 DEF Totals
<1>6. \A k, m \in 0..n : k <= m => g[k] \in Nat /\ g[m] \in Nat /\ g[k] <= g[m]
  BY <1>3, <1>4, TotalsGrow
<1>7. \A x \in Nat : x <= Max64 => U64(x) = x
  BY Max64Assumption DEF U64
<1>8. U64(TotalOf(S)) = TotalOf(S)
  BY <1>2, <1>5, <1>6, <1>7
<1>9. ASSUME NEW k \in 0..n, NEW p, IsFirst(p, s, k)
      PROVE  U64Sum(p) = g[k] /\ SumOver(AmountOf, p) = g[k]
  <2>1. SumOver(AmountOf, p) = g[k] /\ g[k] \in Nat
    BY <1>1, <1>2, <1>3, <1>9, FirstSum
  <2>2. g[k] <= g[n] /\ g[n] \in Nat
    BY <1>2, <1>6
  <2>3. U64(g[k]) = g[k]
    BY <1>5, <1>7, <2>1, <2>2, Max64Assumption
  <2> QED BY <2>1, <2>3 DEF U64Sum
<1> QED BY <1>1, <1>2, <1>3, <1>5, <1>6, <1>8, <1>9 DEF Fits64

(* A choice of coins is worth no more than as many of the largest.         *)
LEMMA ChoiceBelow ==
    ASSUME NEW S, Purse(S), NEW s, NEW g, Fits64(s, S, g), NEW T \in SUBSET S
    PROVE  /\ Cardinality(T) \in 0..Len(s) /\ TotalOf(T) \in Nat
           /\ \A k \in 0..Len(s) : Cardinality(T) <= k => TotalOf(T) <= g[k]
<1>1. Cardinality(T) \in 0..Len(s) /\ TotalOf(T) \in Nat /\ TotalOf(T) <= g[Cardinality(T)]
  BY FirstBest DEF Fits64
<1>2. \A k \in 0..Len(s) : Cardinality(T) <= k => g[Cardinality(T)] <= g[k] /\ g[k] \in Nat
                                                  /\ g[Cardinality(T)] \in Nat
  BY <1>1 DEF Fits64
<1> QED BY <1>1, <1>2

LEMMA SelectionCovers ==
    ASSUME NEW S, Purse(S), TotalOf(S) <= Max64, NEW target \in Nat, NEW cap \in Nat
    PROVE  Covers(S, target, cap)
<1>1. PICK s : s = HighValueFirst(S)
  OBVIOUS
<1>2. PICK g : Fits64(s, S, g)
  BY <1>1, OrderFits
<1>3. PICK n \in Nat : n = Len(s) /\ n = Cardinality(S)
  BY <1>2 DEF Fits64
<1>4. \A k, m \in 0..n : k <= m => g[k] \in Nat /\ g[m] \in Nat /\ g[k] <= g[m]
  BY <1>2, <1>3 DEF Fits64
<1>5. PICK K \in 0..n : K = Smaller(cap, n) /\ U64Sum(Largest(S, cap)) = g[K]
  <2>1. PICK k \in 0..n : k = Smaller(cap, n) /\ IsFirst(Largest(S, cap), s, k)
    BY <1>1, <1>3, LargestIs
  <2>2. U64Sum(Largest(S, cap)) = g[k]
    BY <1>2, <1>3, <2>1 DEF Fits64
  <2> QED BY <2>1, <2>2
<1>6. PICK fits : fits = {part \in SUBSET S : Cardinality(part) <= cap /\ TotalOf(part) >= target}
  OBVIOUS
<1>7. PICK answer : answer = SelectForSpend(S, target, cap)
  OBVIOUS
<1>8. TotalOf(S) = g[n] /\ U64(TotalOf(S)) = g[n] /\ g[n] \in Nat
  BY <1>2, <1>3, <1>4 DEF Fits64
<1>9. ASSUME NEW part \in fits
      PROVE  /\ Cardinality(part) \in 0..n /\ Cardinality(part) <= K
             /\ g[Cardinality(part)] >= target /\ g[K] >= target /\ g[n] >= target
  <2>1. /\ part \in SUBSET S /\ Cardinality(part) <= cap
        /\ TotalOf(part) >= target
    BY <1>6
  <2>2. /\ Cardinality(part) \in 0..n /\ TotalOf(part) \in Nat
        /\ \A k \in 0..n : Cardinality(part) <= k => TotalOf(part) <= g[k]
    BY <1>2, <1>3, <2>1, ChoiceBelow
  <2>3. Cardinality(part) <= K
    BY <1>5, <2>1, <2>2 DEF Smaller
  <2>4. \A k \in 0..n : Cardinality(part) <= k => g[k] >= target
    BY <1>4, <2>1, <2>2
  <2> QED BY <2>2, <2>3, <2>4
<1>10. CASE g[n] < target
  <2>1. answer = [kind |-> "insufficient_funds"]
    BY <1>7, <1>8, <1>10 DEF SelectForSpend
  <2>2. fits = {}
    BY <1>8, <1>9, <1>10
  <2> QED BY <1>6, <1>7, <1>8, <1>10, <2>1, <2>2 DEF Covers
<1>11. CASE ~(g[n] < target) /\ g[K] < target
  <2>1. answer = [kind |-> "needs_consolidation"]
    BY <1>5, <1>7, <1>8, <1>11 DEF SelectForSpend
  <2>2. fits = {}
    BY <1>4, <1>9, <1>11
  <2> QED BY <1>6, <1>7, <1>8, <1>11, <2>1, <2>2 DEF Covers
<1>12. CASE ~(g[n] < target) /\ ~(g[K] < target)
  <2>1. PICK p : p = Reaching(s, target)
    OBVIOUS
  <2>2. answer = [kind |-> "selected", coins |-> p]
    BY <1>1, <1>5, <1>7, <1>8, <1>12, <2>1 DEF SelectForSpend
  <2>3. Takes(s, S) /\ Ordered(s, S)
    BY <1>2, OrderTakes DEF Fits64
  <2>4. PICK k \in 0..n :
            /\ IsFirst(p, s, k)
            /\ \A m \in 0..n : U64Sum(SubSeq(s, 1, m)) >= target => k <= m
            /\ (\E m \in 0..n : U64Sum(SubSeq(s, 1, m)) >= target) => U64Sum(p) >= target
    BY <1>3, <2>1, <2>3, ReachingIs
  <2>5. \A m \in 0..n : U64Sum(SubSeq(s, 1, m)) = g[m]
    BY <1>2, <1>3, <2>3, FirstTakes DEF Fits64
  <2>6. g[K] >= target
    BY <1>4, <1>12
  <2>7. k <= K /\ U64Sum(p) >= target
    BY <2>4, <2>5, <2>6
  <2>8. /\ ToSet(p) \in SUBSET S /\ Cardinality(ToSet(p)) = k
        /\ TotalOf(ToSet(p)) = g[k] /\ U64Sum(p) = g[k] /\ Len(p) = k
    <3>1. SumOver(AmountOf, p) = g[k] /\ U64Sum(p) = g[k]
      BY <1>2, <1>3, <2>4 DEF Fits64
    <3>2. IsFirst(p, s, k) /\ k \in 0..Len(s) /\ Len(p) = k
      BY <1>3, <2>4 DEF IsFirst
    <3> QED BY <2>3, <3>1, <3>2, FirstSet
  <2>9. ToSet(p) \in fits
    <3>1. K <= cap
      BY <1>5 DEF Smaller
    <3> QED BY <1>6, <2>7, <2>8, <3>1
  <2>10. \A part \in fits : Len(p) <= Cardinality(part)
    <3> SUFFICES ASSUME NEW part \in fits PROVE k <= Cardinality(part)
      BY <2>8
    <3>1. Cardinality(part) \in 0..n /\ g[Cardinality(part)] >= target
      BY <1>9
    <3> QED BY <2>4, <2>5, <3>1
  <2> QED BY <1>6, <1>7, <1>8, <1>12, <2>2, <2>9, <2>10 DEF Covers
<1> QED BY <1>10, <1>11, <1>12

LEMMA ConsolidationMerges ==
    ASSUME NEW S, Purse(S), NEW cap \in Nat
    PROVE  Merges(S, cap)
<1> SUFFICES ASSUME NEW p \in SelectForConsolidation(S, cap)
             PROVE  /\ 2 <= Cardinality(ToSet(p)) /\ Cardinality(ToSet(p)) = Len(p)
                    /\ \A c \in ToSet(p), d \in S \ ToSet(p) : AmountOf(c) >= AmountOf(d)
  BY DEF Merges
<1>1. PICK most \in Nat : most = (IF cap < 2 THEN 2 ELSE cap) /\ most >= 2
  OBVIOUS
<1>2. Cardinality(S) \in Nat /\ Cardinality(S) >= 2 /\ p = Largest(S, most)
  BY <1>1, FS_CardinalityType DEF SelectForConsolidation, Purse
<1>3. PICK s : s = HighValueFirst(S) /\ Ordered(s, S)
  BY HighValueFirstIs
<1>4. PICK n \in Nat : n = Len(s) /\ n = Cardinality(S) /\ DOMAIN s = 1..n
  BY <1>2, <1>3 DEF Ordered, Enumerates
<1>5. PICK k \in 0..n : k = Smaller(most, n) /\ IsFirst(p, s, k)
  BY <1>2, <1>3, <1>4, LargestIs
<1>6. Cardinality(ToSet(p)) = k /\ Len(p) = k
  <2>1. k \in 0..Len(s) /\ Len(p) = k
    BY <1>4, <1>5 DEF IsFirst
  <2> QED BY <1>3, <1>5, <2>1, FirstSet
<1>7. 2 <= k
  BY <1>1, <1>2, <1>4, <1>5 DEF Smaller
<1>8. ASSUME NEW c \in ToSet(p), NEW d \in S \ ToSet(p) PROVE AmountOf(c) >= AmountOf(d)
  <2>1. PICK i \in 1..k : c = s[i]
    BY <1>5 DEF IsFirst, ToSet
  <2>2. PICK j \in 1..n : d = s[j]
    BY <1>3, <1>4 DEF Ordered, Enumerates, ToSet
  <2>3. ~(j <= k)
    BY <1>5, <2>2 DEF IsFirst, ToSet
  <2>4. i < j /\ i \in 1..n
    BY <1>5, <2>1, <2>2, <2>3
  <2> QED BY <1>3, <1>4, <2>1, <2>2, <2>4 DEF Ordered, Descending
<1> QED BY <1>6, <1>7, <1>8

-----------------------------------------------------------------------------
(* Splitting a coin.                                                       *)

(* parts * (parts - 1) is even: staggered_amounts loses nothing.           *)
LEMMA Stagger == \A m \in Nat : \E t \in Nat : m * (m - 1) = 2 * t /\ (m * (m - 1)) \div 2 = t
<1> SUFFICES ASSUME NEW N \in Nat
             PROVE  \E t \in Nat : N * (N - 1) = 2 * t /\ (N * (N - 1)) \div 2 = t
  OBVIOUS
<1> DEFINE T == {m \in 0..N : \E t \in Nat : m * (m - 1) = 2 * t}
<1>1. 0 \in T
  <2>1. 0 * (0 - 1) = 2 * 0
    OBVIOUS
  <2> QED BY <2>1
<1>2. ASSUME NEW m \in 1..N, m - 1 \in T PROVE m \in T
  <2>1. PICK t \in Nat : (m - 1) * ((m - 1) - 1) = 2 * t
    BY <1>2
  <2>2. m * (m - 1) = (m - 1) * ((m - 1) - 1) + 2 * (m - 1)
    OBVIOUS
  <2>3. PICK u \in Nat : u = t + (m - 1)
    OBVIOUS
  <2>4. 2 * u = 2 * t + 2 * (m - 1)
    BY <2>3
  <2>5. m * (m - 1) = 2 * u
    BY <2>1, <2>2, <2>4
  <2> QED BY <2>5
<1>3. \A m \in 0..N : m \in T
  <2> HIDE DEF T
  <2> QED BY <1>1, <1>2, InductionUpTo
<1>4. PICK t \in Nat : N * (N - 1) = 2 * t
  <2>1. N \in T
    BY <1>3
  <2> QED BY <2>1
<1>5. (2 * t) \div 2 = t
  OBVIOUS
<1> QED BY <1>4, <1>5

(* A sum of numbers, as the library folds it.                              *)
Same(S) == [x \in S |-> x]

LEMMA NumbersSum ==
    ASSUME NEW S \in SUBSET Nat, IsFiniteSet(S), NEW s, Enumerates(s, S), NEW T \in SUBSET S
    PROVE  MapThenSumSet(LAMBDA x : x, T) = Weighed(s, T, Same(S))
<1>1. PICK w \in [S -> Nat] : w = Same(S)
  BY DEF Same
<1> DEFINE Iter(f) == f = [U \in SUBSET T |-> IF U = {} THEN 0
                             ELSE Chosen(U) + f[U \ {Chosen(U)}]]
<1>2. MapThenSumSet(LAMBDA x : x, T) = (CHOOSE f : Iter(f))[T]
  BY DEF MapThenSumSet, MapThenFoldSet, Chosen
<1>3. \A f : Iter(f) <=> Folds(f, T, w)
  <2> SUFFICES ASSUME NEW f
               PROVE  Iter(f) <=> Folds(f, T, w)
    OBVIOUS
  <2>1. \A U \in SUBSET T : U # {} => w[Chosen(U)] = Chosen(U)
    <3> SUFFICES ASSUME NEW U \in SUBSET T, U # {}
                 PROVE  w[Chosen(U)] = Chosen(U)
      OBVIOUS
    <3>1. Chosen(U) \in S
      BY DEF Chosen
    <3> QED BY <1>1, <3>1 DEF Same
  <2> QED BY <2>1 DEF Folds
<1>4. \E f : Iter(f)
  BY <1>1, <1>3, FoldExists
<1> HIDE DEF Iter
<1>5. PICK f : f = (CHOOSE g : Iter(g)) /\ Iter(f)
  BY <1>4
<1>6. f[T] = Weighed(s, T, w)
  <2>1. Folds(f, T, w)
    BY <1>3, <1>5
  <2> QED BY <2>1, FoldIs
<1> QED BY <1>1, <1>2, <1>5, <1>6

(* k different numbers from 1 on come to at least 1 + 2 + ... + k.         *)
LEMMA LeastSum ==
    ASSUME NEW n \in Nat, NEW T \in SUBSET (1..n)
    PROVE  /\ Cardinality(T) \in Nat /\ MapThenSumSet(LAMBDA x : x, T) \in Nat
           /\ 2 * MapThenSumSet(LAMBDA x : x, T) >= Cardinality(T) * (Cardinality(T) + 1)
<1>1. PICK S \in SUBSET Nat : S = 1..n
  OBVIOUS
<1>2. IsFiniteSet(S) /\ Cardinality(S) = n
  BY <1>1, FS_Interval
<1>3. PICK s : s = [i \in 1..n |-> i]
  OBVIOUS
<1>4. Enumerates(s, S)
  <2>1. s \in Seq(S) /\ Len(s) = n /\ DOMAIN s = 1..n /\ \A i \in 1..n : s[i] = i
    BY <1>1, <1>3
  <2>2. ToSet(s) = S
    BY <1>1, <2>1 DEF ToSet
  <2> QED BY <1>2, <2>1, <2>2 DEF Enumerates
<1>5. PICK w \in [S -> Nat] : w = Same(S)
  BY DEF Same
<1>6. PICK v : v = Weigh(s, T, w) /\ v \in Seq(Nat) /\ Len(v) = n
  <2>1. w \in [S -> Nat]
    BY <1>5
  <2>2. Len(s) = n
    BY <1>1, <1>3
  <2> QED BY <1>4, <2>1, <2>2, WeighIs
<1>7. PICK f : Totals(f, v)
  BY <1>6, TotalsAre
<1>8. PICK cnt : Tally(cnt, s, T)
  <2>1. IsFiniteSet(S) /\ T \subseteq S
    BY <1>1, <1>2
  <2> QED BY <1>4, <2>1, TallyExists
<1>9. Len(s) = n /\ \A m \in 1..n : s[m] = m
  BY <1>3
<1> DEFINE P == {m \in 0..n : cnt[m] <= m /\ 2 * f[m] >= cnt[m] * (cnt[m] + 1)}
<1>11. 0 \in P
  BY <1>6, <1>7, <1>8, <1>9 DEF Totals, Tally
<1>12. ASSUME NEW m \in 1..n, m - 1 \in P PROVE m \in P
  <2>1. PICK k \in Nat : k = cnt[m - 1] /\ k <= m - 1 /\ 2 * f[m - 1] >= k * (k + 1)
    BY <1>8, <1>9, <1>12 DEF Tally
  <2>2. /\ f[m] = f[m - 1] + v[m] /\ f[m - 1] \in Nat
        /\ cnt[m] = k + (IF m \in T THEN 1 ELSE 0)
    <3>1. f[m] = f[m - 1] + v[m] /\ f[m - 1] \in Nat
      BY <1>6, <1>7 DEF Totals
    <3>2. cnt[m] = cnt[m - 1] + (IF m \in T THEN 1 ELSE 0)
      BY <1>8, <1>9 DEF Tally
    <3> QED BY <2>1, <3>1, <3>2
  <2>3. CASE m \notin T
    <3>1. v[m] = 0 /\ cnt[m] = k
      BY <1>3, <1>6, <2>2, <2>3 DEF Weigh
    <3> QED BY <2>1, <2>2, <3>1
  <2>4. CASE m \in T
    <3>1. v[m] = m /\ cnt[m] = k + 1
      BY <1>1, <1>3, <1>5, <1>6, <2>2, <2>4 DEF Weigh, Same
    <3>2. k + 1 <= m /\ cnt[m] = k + 1 /\ f[m] = f[m - 1] + m
      BY <2>1, <2>2, <3>1
    <3>3. (k + 1) * ((k + 1) + 1) = k * (k + 1) + 2 * (k + 1) /\ k * (k + 1) \in Nat
      OBVIOUS
    <3>4. 2 * f[m] = 2 * f[m - 1] + 2 * m
      BY <2>2, <3>2
    <3>5. 2 * f[m] >= k * (k + 1) + 2 * (k + 1)
      BY <2>1, <2>2, <3>2, <3>3, <3>4
    <3> QED BY <3>2, <3>3, <3>5
  <2> QED BY <2>3, <2>4
<1>13. \A m \in 0..n : m \in P
  <2> HIDE DEF P
  <2> QED BY <1>11, <1>12, InductionUpTo
<1>14. n \in P
  BY <1>13
<1>15. cnt[n] = Cardinality(T) /\ cnt[n] \in Nat
  BY <1>8, <1>9 DEF Tally
<1>16. f[n] = MapThenSumSet(LAMBDA x : x, T) /\ f[n] \in Nat
  <2>1. MapThenSumSet(LAMBDA x : x, T) = Weighed(s, T, w)
    BY <1>1, <1>2, <1>4, <1>5, NumbersSum
  <2> QED BY <1>6, <1>7, <2>1 DEF Totals, Weighed
<1> QED BY <1>14, <1>15, <1>16

(* The shares of a coin that can be cut.                                   *)
Cut(a, n, parts, t, base, rest) ==
    /\ t \in Nat /\ base \in Nat /\ rest \in Nat /\ base >= 1
    /\ parts * (parts - 1) = 2 * t /\ n = parts * base + rest + t
    /\ a \in Seq(Nat) /\ Len(a) = parts /\ DOMAIN a = 1..parts
    /\ \A i \in 1..parts : a[i] = base + (i - 1) + (IF i = parts THEN rest ELSE 0)

LEMMA CutIs ==
    ASSUME NEW n \in Nat, NEW parts \in Nat, parts >= 2, NEW a \in StaggeredAmounts(n, parts)
    PROVE  \E t, base, rest \in Nat : Cut(a, n, parts, t, base, rest)
<1>1. PICK t \in Nat : parts * (parts - 1) = 2 * t /\ (parts * (parts - 1)) \div 2 = t
  BY Stagger
<1>2. PICK stagger \in Int : stagger = (parts * (parts - 1)) \div 2
  BY <1>1
<1>12. PICK m \in Int : m = n - stagger
  OBVIOUS
<1>3. PICK base, rest : base = m \div parts /\ rest = m % parts
  OBVIOUS
<1>4. m >= parts /\ a = [i \in 1..parts |-> base + (i - 1) + (IF i = parts THEN rest ELSE 0)]
  BY <1>2, <1>12, <1>3 DEF StaggeredAmounts
<1>5. base \in Int /\ rest \in 0..(parts - 1) /\ m = parts * base + rest
  BY <1>12, <1>3
<1>13. m = n - t
  BY <1>1, <1>2, <1>12
<1>6. base >= 1
  <2> SUFFICES ASSUME base <= 0
               PROVE  FALSE
    BY <1>5
  <2>1. PICK q : q = parts * base
    OBVIOUS
  <2>2. q \in Int /\ q <= 0
    <3>1. parts * base <= parts * 0
      BY <1>5
    <3> QED BY <1>5, <2>1, <3>1
  <2>3. m = q + rest /\ rest \in 0..(parts - 1)
    BY <1>5, <2>1
  <2>4. m >= parts
    BY <1>4
  <2> QED BY <2>2, <2>3, <2>4
<1>7. a \in Seq(Nat) /\ Len(a) = parts /\ DOMAIN a = 1..parts
  BY SharesNat
<1>8. n = parts * base + rest + t
  <2>1. parts * base \in Int
    BY <1>5
  <2> QED BY <1>1, <1>13, <1>5, <2>1
<1>9. \A i \in 1..parts : a[i] = base + (i - 1) + (IF i = parts THEN rest ELSE 0)
  BY <1>4
<1>10. base \in Nat /\ rest \in Nat
  BY <1>5, <1>6
<1>11. Cut(a, n, parts, t, base, rest)
  BY <1>1, <1>6, <1>7, <1>8, <1>9, <1>10 DEF Cut
<1> QED BY <1>1, <1>10, <1>11

LEMMA CutTotal ==
    ASSUME NEW n \in Nat, NEW parts \in Nat, parts >= 2, NEW a, NEW t, NEW base, NEW rest,
           Cut(a, n, parts, t, base, rest)
    PROVE  Total(a) = n
<1>1. /\ t \in Nat /\ base \in Nat /\ rest \in Nat /\ a \in Seq(Nat) /\ Len(a) = parts
      /\ parts * (parts - 1) = 2 * t /\ n = parts * base + rest + t
      /\ \A i \in 1..parts : a[i] = base + (i - 1) + (IF i = parts THEN rest ELSE 0)
  BY DEF Cut
<1>2. PICK f : Totals(f, a)
  BY <1>1, TotalsAre
<1>3. PICK last \in Nat : last = parts - 1
  OBVIOUS
<1> DEFINE P == {m \in 0..last : 2 * f[m] = 2 * (m * base) + m * (m - 1)}
<1>4. 0 \in P
  <2>1. 0 * base = 0 /\ 0 * (0 - 1) = 0
    BY <1>1
  <2> QED BY <1>1, <1>2, <2>1 DEF Totals
<1>5. ASSUME NEW m \in 1..last, m - 1 \in P PROVE m \in P
  <2>9. m \in 1..parts /\ m - 1 \in 0..parts /\ m # parts
    BY <1>3
  <2>1. f[m] = f[m - 1] + a[m] /\ f[m - 1] \in Nat
    BY <1>1, <1>2, <2>9 DEF Totals
  <2>2. a[m] = base + (m - 1)
    <3>1. a[m] = base + (m - 1) + (IF m = parts THEN rest ELSE 0)
      BY <1>1, <2>9
    <3>2. a[m] = base + (m - 1) + 0
      BY <2>9, <3>1
    <3>3. base \in Nat /\ m \in Int
      BY <1>1
    <3> QED BY <3>2, <3>3
  <2>3. 2 * f[m - 1] = 2 * ((m - 1) * base) + (m - 1) * ((m - 1) - 1)
    BY <1>5
  <2>4. PICK x \in Int : x = (m - 1) * base
    BY <1>1
  <2>5. PICK y \in Int : y = (m - 1) * ((m - 1) - 1)
    OBVIOUS
  <2>10. m * base = x + base /\ m * (m - 1) = y + 2 * (m - 1)
    BY <1>1, <2>4, <2>5
  <2>6. 2 * f[m] = 2 * f[m - 1] + 2 * base + 2 * (m - 1)
    <3>1. PICK g \in Nat : g = f[m - 1]
      BY <2>1
    <3>2. base \in Nat /\ m \in Int
      BY <1>1
    <3>3. f[m] = g + (base + (m - 1))
      BY <2>1, <2>2, <3>1
    <3> QED BY <3>1, <3>2, <3>3
  <2>11. 2 * f[m - 1] = 2 * x + y
    BY <2>3, <2>4, <2>5
  <2>7. 2 * f[m] = 2 * (m * base) + m * (m - 1)
    <3>1. 2 * f[m] = 2 * x + y + 2 * base + 2 * (m - 1)
      BY <2>6, <2>11
    <3>2. 2 * (x + base) + (y + 2 * (m - 1)) = 2 * x + y + 2 * base + 2 * (m - 1)
      BY <1>1
    <3> QED BY <2>10, <3>1, <3>2
  <2> QED BY <2>7
<1>6. \A m \in 0..last : m \in P
  <2> HIDE DEF P
  <2> QED BY <1>3, <1>4, <1>5, InductionUpTo
<1>7. 2 * f[last] = 2 * (last * base) + last * (last - 1)
  BY <1>3, <1>6
<1>8. f[parts] = f[last] + a[parts] /\ f[last] \in Nat
  BY <1>1, <1>2, <1>3 DEF Totals
<1>9. a[parts] = base + last + rest
  BY <1>1, <1>3
<1>10. PICK x \in Nat : x = last * base
  BY <1>1
<1>11. PICK y \in Int : y = last * (last - 1)
  OBVIOUS
<1>14. parts = last + 1
  BY <1>3
<1>15. parts * base = x + base
  BY <1>1, <1>10, <1>14
<1>16. parts * (parts - 1) = y + 2 * last
  BY <1>11, <1>14
<1>17. 2 * f[last] = 2 * x + y
  BY <1>7, <1>10, <1>11
<1>18. 2 * t = y + 2 * last /\ n = x + base + rest + t
  BY <1>1, <1>15, <1>16
<1>19. f[parts] \in Nat /\ f[parts] = f[last] + base + last + rest
  <2>1. PICK g \in Nat : g = f[last]
    BY <1>8
  <2>2. f[parts] = g + (base + last + rest)
    BY <1>8, <1>9, <2>1
  <2>3. base \in Nat /\ rest \in Nat
    BY <1>1
  <2> QED BY <2>1, <2>2, <2>3
<1>12. f[parts] = n
  <2>1. PICK g \in Nat : g = f[last]
    BY <1>8
  <2>2. 2 * g = 2 * x + y
    BY <1>17, <2>1
  <2>3. f[parts] = g + base + last + rest
    BY <1>19, <2>1
  <2>4. g + last = x + t
    BY <1>1, <1>18, <2>2
  <2> QED BY <1>1, <1>18, <2>3, <2>4
<1>13. f[parts] = Total(a)
  BY <1>1, <1>2 DEF Totals
<1> QED BY <1>12, <1>13

LEMMA SharesApart ==
    ASSUME NEW base \in Nat, NEW rest \in Nat, NEW parts \in Nat, NEW i \in Nat, NEW j \in Nat,
           i <= parts, j <= parts,
           base + (i - 1) + (IF i = parts THEN rest ELSE 0) = base + (j - 1) + (IF j = parts THEN rest ELSE 0)
    PROVE  i = j
<1>1. CASE i = parts /\ j # parts
  <2>1. base + (i - 1) + rest = base + (j - 1) + 0
    BY <1>1
  <2> QED BY <1>1, <2>1
<1>2. CASE i # parts /\ j = parts
  <2>1. base + (i - 1) + 0 = base + (j - 1) + rest
    BY <1>2
  <2> QED BY <1>2, <2>1
<1>3. CASE i # parts /\ j # parts
  <2>1. base + (i - 1) + 0 = base + (j - 1) + 0
    BY <1>3
  <2> QED BY <2>1
<1> QED BY <1>1, <1>2, <1>3

LEMMA CutSet ==
    ASSUME NEW n \in Nat, NEW parts \in Nat, parts >= 2, NEW a, NEW t, NEW base, NEW rest,
           Cut(a, n, parts, t, base, rest)
    PROVE  /\ ToSet(a) \subseteq 1..n /\ Cardinality(ToSet(a)) = parts /\ 0 \notin ToSet(a)
           /\ MapThenSumSet(LAMBDA x : x, ToSet(a)) = n
<1>1. /\ t \in Nat /\ base \in Nat /\ rest \in Nat /\ base >= 1
      /\ a \in Seq(Nat) /\ Len(a) = parts /\ DOMAIN a = 1..parts
      /\ parts * (parts - 1) = 2 * t /\ n = parts * base + rest + t
      /\ \A i \in 1..parts : a[i] = base + (i - 1) + (IF i = parts THEN rest ELSE 0)
  BY DEF Cut
<1>2. \A i, j \in 1..parts : a[i] = a[j] => i = j
  <2> SUFFICES ASSUME NEW i \in 1..parts, NEW j \in 1..parts, a[i] = a[j]
               PROVE  i = j
    OBVIOUS
  <2>1. /\ a[i] = base + (i - 1) + (IF i = parts THEN rest ELSE 0)
        /\ a[j] = base + (j - 1) + (IF j = parts THEN rest ELSE 0)
    BY <1>1
  <2>2. base + (i - 1) + (IF i = parts THEN rest ELSE 0) = base + (j - 1) + (IF j = parts THEN rest ELSE 0)
    BY <2>1
  <2>3. base \in Nat /\ rest \in Nat /\ i \in Nat /\ j \in Nat /\ i <= parts /\ j <= parts
    BY <1>1
  <2> QED BY <2>2, <2>3, SharesApart
<1>3. \A i \in 1..parts : a[i] \in 1..n
  <2> SUFFICES ASSUME NEW i \in 1..parts
               PROVE  a[i] >= 1 /\ a[i] <= n
    BY <1>1
  <2>1. a[i] <= base + (parts - 1) + rest /\ a[i] >= 1
    <3>1. a[i] = base + (i - 1) + (IF i = parts THEN rest ELSE 0)
      BY <1>1
    <3>2. base \in Nat /\ rest \in Nat /\ base >= 1
      BY <1>1
    <3>3. CASE i = parts
      BY <3>1, <3>2, <3>3
    <3>4. CASE i # parts
      BY <3>1, <3>2, <3>4
    <3> QED BY <3>3, <3>4
  <2>2. parts * base + t >= base + (parts - 1)
    <3>1. PICK x \in Nat : x = parts - 2
      OBVIOUS
    <3>7. base \in Nat /\ t \in Nat /\ parts = x + 2
      BY <1>1, <3>1
    <3>2. PICK z \in Nat : parts * base = 2 * base + z
      <4>1. parts * base = 2 * base + x * base
        BY <3>7
      <4>2. x * base \in Nat
        BY <3>7
      <4> QED BY <4>1, <4>2
    <3>3. PICK y \in Nat : y = x * (parts - 1)
      BY <3>1
    <3>4. parts * (parts - 1) = 2 * (parts - 1) + y
      BY <3>1, <3>3
    <3>6. 2 * t = 2 * (parts - 1) + y
      BY <1>1, <3>4
    <3>5. t >= parts - 1
      BY <3>3, <3>6, <3>7
    <3>8. PICK q \in Nat : q = parts * base
      BY <3>7
    <3>9. q = 2 * base + z
      BY <3>2, <3>8
    <3>10. q + t >= base + (parts - 1)
      BY <3>2, <3>5, <3>7, <3>9
    <3> QED BY <3>8, <3>10
  <2>3. parts * base \in Nat
    BY <1>1
  <2> QED BY <1>1, <2>1, <2>2, <2>3
<1>4. PICK S : S = ToSet(a)
  OBVIOUS
<1>5. S \subseteq 1..n /\ S \in SUBSET Nat /\ \A x \in S : \E i \in 1..parts : a[i] = x
  BY <1>1, <1>3, <1>4 DEF ToSet
<1>6. \A i \in 1..parts : a[i] \in S
  BY <1>1, <1>4 DEF ToSet
<1>7. a \in [1..parts -> S]
  <2>1. a = [i \in 1..parts |-> a[i]]
    BY <1>1
  <2> QED BY <1>6, <2>1
<1>8. IsFiniteSet(S) /\ Cardinality(S) = parts
  <2>1. a \in Surjection(1..parts, S) /\ a \in Injection(1..parts, S)
    BY <1>2, <1>5, <1>7 DEF Surjection, Injection, IsInjective
  <2>2. IsFiniteSet(1..parts) /\ Cardinality(1..parts) = parts
    BY FS_Interval
  <2> QED BY <2>1, <2>2, FS_Surjection
<1>9. Enumerates(a, S)
  <2>1. a \in Seq(S)
    BY <1>7
  <2> QED BY <1>1, <1>2, <1>4, <1>8, <2>1 DEF Enumerates
<1>10. MapThenSumSet(LAMBDA x : x, S) = Weighed(a, S, Same(S))
  BY <1>5, <1>8, <1>9, NumbersSum
<1>11. Weigh(a, S, Same(S)) = a
  <2>1. Weigh(a, S, Same(S)) = [i \in 1..parts |-> a[i]]
    BY <1>1, <1>6 DEF Weigh, Same
  <2>2. a = [i \in 1..parts |-> a[i]]
    BY <1>1
  <2> QED BY <2>1, <2>2
<1>12. Total(a) = n
  BY CutTotal
<1> QED BY <1>4, <1>5, <1>8, <1>10, <1>11, <1>12 DEF Weighed

LEMMA SplitShares ==
    ASSUME NEW n \in Nat, NEW parts \in Nat, parts >= 2
    PROVE  Shares(n, parts)
<1>1. PICK shares : shares = StaggeredAmounts(n, parts)
  OBVIOUS
<1>2. ASSUME NEW a \in shares
      PROVE  /\ SumOver(LAMBDA x : x, a) = n /\ Cardinality(ToSet(a)) = parts /\ 0 \notin ToSet(a)
             /\ ToSet(a) \subseteq 1..n /\ MapThenSumSet(LAMBDA x : x, ToSet(a)) = n
  <2>1. PICK t, base, rest \in Nat : Cut(a, n, parts, t, base, rest)
    BY <1>1, CutIs
  <2>2. Total(a) = n
    BY <2>1, CutTotal
  <2>3. SumOver(LAMBDA x : x, a) = n
    <3>1. a = [i \in DOMAIN a |-> a[i]]
      BY <2>1 DEF Cut
    <3> QED BY <2>2, <3>1 DEF SumOver
  <2> QED BY <2>1, <2>3, CutSet
<1>3. ASSUME NEW T \in SUBSET (1..n), Cardinality(T) = parts, MapThenSumSet(LAMBDA x : x, T) = n
      PROVE  shares # {}
  <2>1. 2 * n >= parts * (parts + 1)
    BY <1>3, LeastSum
  <2>2. PICK t \in Nat : parts * (parts - 1) = 2 * t /\ (parts * (parts - 1)) \div 2 = t
    BY Stagger
  <2>3. parts * (parts + 1) = parts * (parts - 1) + 2 * parts
    OBVIOUS
  <2>4. ~(n < parts + t)
    BY <2>1, <2>2, <2>3
  <2> QED BY <1>1, <2>2, <2>4 DEF StaggeredAmounts
<1>4. shares # {} => \E T \in SUBSET (1..n) : Cardinality(T) = parts /\ MapThenSumSet(LAMBDA x : x, T) = n
  BY <1>2
<1> QED BY <1>1, <1>2, <1>3, <1>4 DEF Shares
=============================================================================
