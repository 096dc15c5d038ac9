----------------------- MODULE AShareExecution_proofs -----------------------
(***************************************************************************)
(* Theorems about AShareExecution, for every set of symbols, lot size,     *)
(* calendar, price and fee.                                                *)
(*                                                                         *)
(* Sums over the lots and their consumption are recursive functions of the *)
(* position in the list; UpTo is the induction over such a position, with  *)
(* a set in place of a predicate, and Recursion says that a function with  *)
(* that recursion exists.                                                  *)
(***************************************************************************)
EXTENDS AShareExecution, FiniteSetTheorems, SequenceTheorems, WellFoundedInduction, TLAPS

\* Induction over the positions of a list.
LEMMA UpTo ==
    ASSUME NEW n \in Nat, NEW S, 0 \in S, \A k \in 1 .. n : k - 1 \in S => k \in S
    PROVE  0 .. n \subseteq S
<1> DEFINE T == {k \in Nat : k \in 0 .. n /\ k \notin S}
<1>1. SUFFICES ASSUME T # {} PROVE FALSE
      OBVIOUS
<1>2. PICK x \in T : \A y \in T : ~(<<y, x>> \in OpToRel(<, Nat))
      BY <1>1, NatLessThanWellFounded, WFMin
<1>3. x \in 1 .. n
      OBVIOUS
<1>4. x - 1 \notin T
  <2>1. x - 1 \in Nat /\ x \in Nat /\ x - 1 < x
        BY <1>3
  <2>2. <<x - 1, x>> \in OpToRel(<, Nat)
        BY <2>1 DEF OpToRel
  <2> QED  BY <1>2, <2>2
<1>5. x - 1 \in S
      BY <1>3, <1>4
<1> QED  BY <1>3, <1>5

\* f starts with v0 and G gives each of its values from the one before.
Follows(f, n, V, v0, G) ==
    /\ f \in [0 .. n -> V]
    /\ f[0] = v0
    /\ \A k \in 1 .. n : f[k] = G[<<k, f[k - 1]>>]

StepsOn(G, n, V) == G \in [(1 .. n) \X V -> V]

\* A step function and a first value determine a function of the position.
LEMMA Recursion ==
    ASSUME NEW n \in Nat, NEW V, NEW v0 \in V, NEW G, StepsOn(G, n, V)
    PROVE  \E f : Follows(f, n, V, v0, G)
<1> USE DEF Follows, StepsOn
<1> DEFINE Good(f, m) == /\ f \in [0 .. m -> V]
                         /\ f[0] = v0
                         /\ \A k \in 1 .. m : f[k] = G[<<k, f[k - 1]>>]
           S == {m \in Nat : m <= n => \E f : Good(f, m)}
<1>1. 0 \in S
  <2>1. Good([k \in 0 .. 0 |-> v0], 0)
        OBVIOUS
  <2> QED  BY <2>1
<1>2. ASSUME NEW m \in 1 .. n, m - 1 \in S
      PROVE  m \in S
  <2>1. PICK f : Good(f, m - 1)
        BY <1>2
  <2> DEFINE g == [k \in 0 .. m |-> IF k <= m - 1 THEN f[k] ELSE G[<<m, f[m - 1]>>]]
  <2>2. f[m - 1] \in V /\ G[<<m, f[m - 1]>>] \in V
        BY <2>1
  <2>3. g \in [0 .. m -> V]
        BY <2>1, <2>2
  <2>4. g[0] = v0
        BY <2>1
  <2>5. ASSUME NEW k \in 1 .. m PROVE g[k] = G[<<k, g[k - 1]>>]
    <3>1. CASE k = m
      <4>1. g[m] = G[<<m, f[m - 1]>>] /\ g[m - 1] = f[m - 1]
            BY <2>1
      <4> QED  BY <3>1, <4>1
    <3>2. CASE k # m
          BY <3>2, <2>1
    <3> QED  BY <3>1, <3>2
  <2>6. Good(g, m)
        BY <2>3, <2>4, <2>5
  <2>7. \E h : Good(h, m)
        BY <2>6
  <2> HIDE DEF Good
  <2> QED  BY <2>7
<1> HIDE DEF S
<1>3. 0 .. n \subseteq S
      BY <1>1, <1>2, UpTo
<1>4. n \in S
      BY <1>3
<1>5. \E f : Good(f, n)
      BY <1>4 DEF S
<1> QED  BY <1>5
-----------------------------------------------------------------------------
(***************************************************************************)
(* Sums over the lots.                                                     *)
(***************************************************************************)
Part(lot, s, dates) == IF lot.symbol = s /\ lot.date \in dates THEN lot.quantity ELSE 0

IsSum(f, lots, s, dates) ==
    /\ f \in [0 .. Len(lots) -> Nat]
    /\ f[0] = 0
    /\ \A k \in 1 .. Len(lots) : f[k] = f[k - 1] + Part(lots[k], s, dates)

LEMMA PartType ==
    ASSUME NEW lot \in SettlementLot, NEW s, NEW dates
    PROVE  Part(lot, s, dates) \in Nat
BY DEF Part, SettlementLot

LEMMA SumExists ==
    ASSUME NEW lots \in Seq(SettlementLot), NEW s, NEW dates
    PROVE  \E f : IsSum(f, lots, s, dates)
<1> DEFINE n == Len(lots)
           G == [p \in (1 .. n) \X Nat |-> p[2] + Part(lots[p[1]], s, dates)]
<1>1. n \in Nat
      OBVIOUS
<1>2. ASSUME NEW k \in 1 .. n PROVE Part(lots[k], s, dates) \in Nat
      BY PartType
<1>3. G \in [(1 .. n) \X Nat -> Nat]
      BY <1>2
<1>4. \A k \in 1 .. n, v \in Nat : G[<<k, v>>] = v + Part(lots[k], s, dates)
      OBVIOUS
<1> HIDE DEF n, G
<1>5. PICK f : Follows(f, n, Nat, 0, G)
  <2>1. StepsOn(G, n, Nat)
        BY <1>3 DEF StepsOn
  <2> QED  BY <1>1, <2>1, Recursion
<1>6. ASSUME NEW k \in 1 .. n PROVE f[k] = f[k - 1] + Part(lots[k], s, dates)
  <2>1. f[k - 1] \in Nat
        BY <1>1, <1>5 DEF Follows
  <2> QED  BY <1>4, <1>5, <2>1 DEF Follows
<1> QED  BY <1>5, <1>6 DEF IsSum, Follows, n

\* What Shares says is the last value of the running sum.
LEMMA SharesIsSum ==
    ASSUME NEW lots \in Seq(SettlementLot), NEW s, NEW dates, NEW f, IsSum(f, lots, s, dates)
    PROVE  Shares(lots, s, dates) = f[Len(lots)]
<1> DEFINE n == Len(lots)
           Eq(g) == g = [k \in 0 .. n |->
                          IF k = 0 THEN 0
                          ELSE g[k - 1] + (IF lots[k].symbol = s /\ lots[k].date \in dates
                                           THEN lots[k].quantity ELSE 0)]
           sum == CHOOSE g : Eq(g)
<1>1. n \in Nat
      OBVIOUS
<1>2. Shares(lots, s, dates) = sum[n]
      BY DEF Shares
<1>3. Eq(f)
      BY DEF IsSum, Part
<1>4. Eq(sum)
  <2> HIDE DEF Eq
  <2> QED  BY <1>3
<1> DEFINE S == {k \in 0 .. n : sum[k] = f[k]}
<1> HIDE DEF sum
<1>5. 0 \in S
      BY <1>3, <1>4
<1>6. ASSUME NEW k \in 1 .. n, k - 1 \in S PROVE k \in S
      BY <1>3, <1>4, <1>6
<1> HIDE DEF S
<1>7. 0 .. n \subseteq S
      BY <1>1, <1>5, <1>6, UpTo
<1>8. n \in S
      BY <1>1, <1>7
<1> QED  BY <1>2, <1>8 DEF S

LEMMA SharesType ==
    ASSUME NEW lots \in Seq(SettlementLot), NEW s, NEW dates
    PROVE  Shares(lots, s, dates) \in Nat
<1>1. PICK f : IsSum(f, lots, s, dates)
      BY SumExists
<1>2. Shares(lots, s, dates) = f[Len(lots)]
      BY <1>1, SharesIsSum
<1>3. Len(lots) \in Nat
      OBVIOUS
<1> QED  BY <1>1, <1>2, <1>3 DEF IsSum

LEMMA SharesOfNone ==
    ASSUME NEW s, NEW dates
    PROVE  Shares(<<>>, s, dates) = 0
<1>1. <<>> \in Seq(SettlementLot) /\ Len(<<>>) = 0
      OBVIOUS
<1>2. PICK f : IsSum(f, <<>>, s, dates)
      BY <1>1, SumExists
<1>3. Shares(<<>>, s, dates) = f[0]
      BY <1>1, <1>2, SharesIsSum
<1> QED  BY <1>2, <1>3 DEF IsSum

\* One more lot adds its part.
LEMMA SharesAppend ==
    ASSUME NEW lots \in Seq(SettlementLot), NEW lot \in SettlementLot, NEW s, NEW dates
    PROVE  Shares(Append(lots, lot), s, dates) = Shares(lots, s, dates) + Part(lot, s, dates)
<1> DEFINE longer == Append(lots, lot)
           n == Len(lots)
<1>1. longer \in Seq(SettlementLot) /\ Len(longer) = n + 1 /\ n \in Nat
      OBVIOUS
<1>2. longer[n + 1] = lot /\ \A k \in 1 .. n : longer[k] = lots[k]
      OBVIOUS
<1> HIDE DEF longer
<1>3. PICK f : IsSum(f, longer, s, dates)
      BY <1>1, SumExists
<1>4. Shares(longer, s, dates) = f[n + 1]
      BY <1>1, <1>3, SharesIsSum
<1> DEFINE g == [k \in 0 .. n |-> f[k]]
<1>5. IsSum(g, lots, s, dates)
  <2>1. g \in [0 .. n -> Nat] /\ g[0] = 0
        BY <1>1, <1>3 DEF IsSum
  <2>2. ASSUME NEW k \in 1 .. n PROVE g[k] = g[k - 1] + Part(lots[k], s, dates)
        BY <1>1, <1>2, <1>3 DEF IsSum
  <2> QED  BY <2>1, <2>2 DEF IsSum
<1>6. Shares(lots, s, dates) = g[n]
      BY <1>5, SharesIsSum
<1>7. f[n + 1] = f[n] + Part(lot, s, dates)
      BY <1>1, <1>2, <1>3 DEF IsSum
<1> QED  BY <1>1, <1>4, <1>6, <1>7 DEF longer

Prefix(l, k) == SubSeq(l, 1, k)

\* Induction over lists, with a set in place of a predicate.
LEMMA ListInduction ==
    ASSUME NEW T, NEW X, <<>> \in X,
           \A l \in Seq(T), x \in T : l \in X => Append(l, x) \in X
    PROVE  Seq(T) \subseteq X
<1> SUFFICES ASSUME NEW l \in Seq(T) PROVE l \in X
    OBVIOUS
<1> DEFINE n == Len(l)
           S == {k \in 0 .. n : Prefix(l, k) \in X}
<1>1. n \in Nat
      OBVIOUS
<1>2. 0 \in S
  <2>1. Prefix(l, 0) = <<>>
        BY DEF Prefix
  <2> QED  BY <2>1
<1>3. ASSUME NEW k \in 1 .. n, k - 1 \in S PROVE k \in S
  <2> DEFINE shorter == Prefix(l, k - 1)
  <2>1. shorter \in Seq(T) /\ l[k] \in T
        BY DEF Prefix
  <2>2. Prefix(l, k) = Append(shorter, l[k])
        BY DEF Prefix
  <2>3. shorter \in X
        BY <1>3
  <2> HIDE DEF shorter, S
  <2>4. Append(shorter, l[k]) \in X
        BY <2>1, <2>3
  <2>5. Prefix(l, k) \in X
        BY <2>2, <2>4
  <2>6. k \in 0 .. n
        BY <1>1
  <2> HIDE DEF n
  <2> QED  BY <2>5, <2>6 DEF S
<1> HIDE DEF S
<1>4. n \in S
  <2>1. 0 .. n \subseteq S
        BY <1>1, <1>2, <1>3, UpTo
  <2> QED  BY <1>1, <2>1
<1>5. Prefix(l, n) = l
      BY DEF Prefix
<1> QED  BY <1>4, <1>5 DEF S

\* More dates, more shares.
LEMMA SharesMonotone ==
    ASSUME NEW lots \in Seq(SettlementLot), NEW s, NEW D, NEW E, D \subseteq E
    PROVE  Shares(lots, s, D) <= Shares(lots, s, E)
<1> DEFINE X == {l \in Seq(SettlementLot) : Shares(l, s, D) <= Shares(l, s, E)}
<1>1. <<>> \in X
      BY SharesOfNone
<1>2. ASSUME NEW l \in Seq(SettlementLot), NEW x \in SettlementLot, l \in X
      PROVE  Append(l, x) \in X
  <2>1. Part(x, s, D) <= Part(x, s, E) /\ Part(x, s, D) \in Nat /\ Part(x, s, E) \in Nat
        BY DEF Part, SettlementLot
  <2>2. Shares(l, s, D) \in Nat /\ Shares(l, s, E) \in Nat
        BY SharesType
  <2>3. /\ Shares(Append(l, x), s, D) = Shares(l, s, D) + Part(x, s, D)
        /\ Shares(Append(l, x), s, E) = Shares(l, s, E) + Part(x, s, E)
        BY SharesAppend
  <2>4. Append(l, x) \in Seq(SettlementLot)
        OBVIOUS
  <2> QED  BY <1>2, <2>1, <2>2, <2>3, <2>4
<1> HIDE DEF X
<1>3. Seq(SettlementLot) \subseteq X
      BY <1>1, <1>2, ListInduction
<1>4. lots \in X
      BY <1>3
<1> QED  BY <1>4 DEF X

\* No lot is later than t.
Until(lots, t) == \A k \in 1 .. Len(lots) : lots[k].date <= t

\* The lots are in date order.
Sorted(lots) == \A j, k \in 1 .. Len(lots) : j < k => lots[j].date <= lots[k].date

Positive(lots) == \A k \in 1 .. Len(lots) : lots[k].quantity > 0

LEMMA ListsAppend ==
    ASSUME NEW lots \in Seq(SettlementLot), NEW lot \in SettlementLot
    PROVE  /\ Append(lots, lot) \in Seq(SettlementLot)
           /\ \A t : Until(Append(lots, lot), t) <=> Until(lots, t) /\ lot.date <= t
           /\ Sorted(Append(lots, lot)) <=> Sorted(lots) /\ Until(lots, lot.date)
           /\ Positive(Append(lots, lot)) <=> Positive(lots) /\ lot.quantity > 0
<1> DEFINE longer == Append(lots, lot)
           n == Len(lots)
<1>1. longer \in Seq(SettlementLot) /\ Len(longer) = n + 1 /\ n \in Nat
      OBVIOUS
<1>2. longer[n + 1] = lot /\ \A k \in 1 .. n : longer[k] = lots[k]
      OBVIOUS
<1> HIDE DEF longer, n
<1>3. 1 .. n + 1 = (1 .. n) \cup {n + 1}
      BY <1>1
<1>4. \A t : Until(longer, t) <=> (\A k \in 1 .. n : lots[k].date <= t) /\ lot.date <= t
      BY <1>1, <1>2, <1>3 DEF Until
<1>5. Sorted(longer) <=> Sorted(lots) /\ Until(lots, lot.date)
  <2>1. ASSUME Sorted(longer) PROVE Sorted(lots) /\ Until(lots, lot.date)
        BY <1>1, <1>2, <1>3, <2>1 DEF Until, Sorted, n
  <2>2. ASSUME Sorted(lots), Until(lots, lot.date) PROVE Sorted(longer)
    <3> SUFFICES ASSUME NEW j \in 1 .. n + 1, NEW k \in 1 .. n + 1, j < k
                 PROVE  longer[j].date <= longer[k].date
        BY <1>1 DEF Sorted
    <3>1. j \in 1 .. n
          BY <1>1
    <3>2. CASE k \in 1 .. n
          BY <1>2, <2>2, <3>1, <3>2 DEF Sorted, n
    <3>3. CASE k = n + 1
          BY <1>2, <2>2, <3>1, <3>3 DEF Until, n
    <3> QED  BY <1>3, <3>2, <3>3
  <2> QED  BY <2>1, <2>2
<1>6. Positive(longer) <=> (\A k \in 1 .. n : lots[k].quantity > 0) /\ lot.quantity > 0
      BY <1>1, <1>2, <1>3 DEF Positive
<1> QED  BY <1>1, <1>4, <1>5, <1>6 DEF longer, n, Until, Positive
-----------------------------------------------------------------------------
(***************************************************************************)
(* The consumption of the lots by a sell.                                  *)
(***************************************************************************)
SaleState == [left : Nat, kept : Seq(SettlementLot)]

\* What a lot gives to a sell of s.
Give(r, lot, s) ==
    IF lot.symbol # s \/ r.left <= 0
    THEN [left |-> r.left, kept |-> Append(r.kept, lot)]
    ELSE [left |-> r.left - Smaller(r.left, lot.quantity),
          kept |-> IF lot.quantity > Smaller(r.left, lot.quantity)
                   THEN Append(r.kept, [lot EXCEPT !.quantity = @ - Smaller(r.left, lot.quantity)])
                   ELSE r.kept]

IsSale(f, lots, s, quantity) ==
    /\ f \in [0 .. Len(lots) -> SaleState]
    /\ f[0] = [left |-> quantity, kept |-> <<>>]
    /\ \A k \in 1 .. Len(lots) : f[k] = Give(f[k - 1], lots[k], s)

\* The three things a lot can do: stay as it is, give a part, give all.
LEMMA GiveCases ==
    ASSUME NEW r \in SaleState, NEW lot \in SettlementLot, NEW s
    PROVE  /\ lot.symbol # s \/ r.left = 0
                => Give(r, lot, s) = [left |-> r.left, kept |-> Append(r.kept, lot)]
           /\ lot.symbol = s /\ r.left > 0 /\ lot.quantity > r.left
                => Give(r, lot, s) =
                     [left |-> 0,
                      kept |-> Append(r.kept, [symbol |-> s, date |-> lot.date,
                                               quantity |-> lot.quantity - r.left])]
           /\ lot.symbol = s /\ r.left > 0 /\ lot.quantity <= r.left
                => Give(r, lot, s) = [left |-> r.left - lot.quantity, kept |-> r.kept]
<1>1. r.left \in Nat /\ lot.quantity \in Nat
      BY DEF SaleState, SettlementLot
<1>2. ASSUME lot.symbol # s \/ r.left = 0
      PROVE  Give(r, lot, s) = [left |-> r.left, kept |-> Append(r.kept, lot)]
      BY <1>1, <1>2 DEF Give
<1>3. ASSUME lot.symbol = s, r.left > 0, lot.quantity > r.left
      PROVE  Give(r, lot, s) =
                     [left |-> 0,
                      kept |-> Append(r.kept, [symbol |-> s, date |-> lot.date,
                                               quantity |-> lot.quantity - r.left])]
  <2>1. Smaller(r.left, lot.quantity) = r.left
        BY <1>1, <1>3 DEF Smaller
  <2>2. [lot EXCEPT !.quantity = @ - r.left]
            = [symbol |-> s, date |-> lot.date, quantity |-> lot.quantity - r.left]
        BY <1>3 DEF SettlementLot
  <2>3. r.left - r.left = 0 /\ ~ (r.left <= 0)
        BY <1>1, <1>3
  <2> QED  BY <1>3, <2>1, <2>2, <2>3 DEF Give
<1>4. ASSUME lot.symbol = s, r.left > 0, lot.quantity <= r.left
      PROVE  Give(r, lot, s) = [left |-> r.left - lot.quantity, kept |-> r.kept]
  <2>1. Smaller(r.left, lot.quantity) = lot.quantity
        BY <1>1, <1>4 DEF Smaller
  <2>2. ~ (r.left <= 0) /\ ~ (lot.quantity > lot.quantity)
        BY <1>1, <1>4
  <2> QED  BY <1>4, <2>1, <2>2 DEF Give
<1> QED  BY <1>2, <1>3, <1>4

LEMMA GiveType ==
    ASSUME NEW r \in SaleState, NEW lot \in SettlementLot, NEW s
    PROVE  Give(r, lot, s) \in SaleState
<1>1. r.left \in Nat /\ r.kept \in Seq(SettlementLot) /\ lot.quantity \in Nat
      BY DEF SaleState, SettlementLot
<1>2. CASE lot.symbol # s \/ r.left = 0
  <2>1. Append(r.kept, lot) \in Seq(SettlementLot)
        BY <1>1
  <2>2. Give(r, lot, s) = [left |-> r.left, kept |-> Append(r.kept, lot)]
        BY <1>2, GiveCases
  <2> QED  BY <1>1, <2>1, <2>2 DEF SaleState
<1>3. CASE lot.symbol = s /\ r.left > 0 /\ lot.quantity > r.left
  <2>1. [symbol |-> s, date |-> lot.date, quantity |-> lot.quantity - r.left] \in SettlementLot
        BY <1>1, <1>3 DEF SettlementLot
  <2> QED  BY <1>1, <1>3, <2>1, GiveCases DEF SaleState
<1>4. CASE lot.symbol = s /\ r.left > 0 /\ lot.quantity <= r.left
  <2>1. r.left - lot.quantity \in Nat
        BY <1>1, <1>4
  <2>2. Give(r, lot, s) = [left |-> r.left - lot.quantity, kept |-> r.kept]
        BY <1>4, GiveCases
  <2> QED  BY <1>1, <2>1, <2>2 DEF SaleState
<1> QED  BY <1>1, <1>2, <1>3, <1>4

LEMMA SaleExists ==
    ASSUME NEW lots \in Seq(SettlementLot), NEW s, NEW quantity \in Nat
    PROVE  \E f : IsSale(f, lots, s, quantity)
<1> DEFINE n == Len(lots)
           V == SaleState
           v0 == [left |-> quantity, kept |-> <<>>]
           G == [p \in (1 .. n) \X V |-> Give(p[2], lots[p[1]], s)]
<1>1. n \in Nat /\ v0 \in V
      BY DEF SaleState
<1>2. ASSUME NEW k \in 1 .. n, NEW r \in V PROVE Give(r, lots[k], s) \in V
      BY GiveType
<1>3. StepsOn(G, n, V)
  <2> HIDE DEF V
  <2> QED  BY <1>2 DEF StepsOn
<1>4. \A k \in 1 .. n, r \in V : G[<<k, r>>] = Give(r, lots[k], s)
  <2> HIDE DEF V
  <2> QED  OBVIOUS
<1> HIDE DEF n, G, V, v0
<1>5. PICK f : Follows(f, n, V, v0, G)
      BY <1>1, <1>3, Recursion
<1>6. ASSUME NEW k \in 1 .. n PROVE f[k] = Give(f[k - 1], lots[k], s)
  <2>1. f[k - 1] \in V
        BY <1>1, <1>5 DEF Follows
  <2> QED  BY <1>4, <1>5, <2>1 DEF Follows
<1> QED  BY <1>5, <1>6 DEF IsSale, Follows, n, V, v0

LEMMA AfterSellIsSale ==
    ASSUME NEW lots \in Seq(SettlementLot), NEW s, NEW quantity \in Nat,
           NEW f, IsSale(f, lots, s, quantity)
    PROVE  AfterSell(lots, s, quantity) = f[Len(lots)].kept
<1> DEFINE n == Len(lots)
           Eq(g) == g = [k \in 0 .. n |->
                          IF k = 0 THEN [left |-> quantity, kept |-> <<>>]
                          ELSE Give(g[k - 1], lots[k], s)]
           sell == CHOOSE g : Eq(g)
<1>1. n \in Nat
      OBVIOUS
<1>2. AfterSell(lots, s, quantity) = sell[n].kept
      BY DEF AfterSell, Give
<1>3. Eq(f)
      BY DEF IsSale
<1>4. Eq(sell)
  <2> HIDE DEF Eq
  <2> QED  BY <1>3
<1> DEFINE S == {k \in 0 .. n : sell[k] = f[k]}
<1> HIDE DEF sell
<1>5. 0 \in S
      BY <1>3, <1>4
<1>6. ASSUME NEW k \in 1 .. n, k - 1 \in S PROVE k \in S
  <2>1. sell[k] = Give(sell[k - 1], lots[k], s)
        BY <1>4
  <2>2. f[k] = Give(f[k - 1], lots[k], s)
        BY DEF IsSale
  <2> QED  BY <1>6, <2>1, <2>2
<1> HIDE DEF S
<1>7. 0 .. n \subseteq S
      BY <1>1, <1>5, <1>6, UpTo
<1>8. n \in S
      BY <1>1, <1>7
<1> QED  BY <1>2, <1>8 DEF S

Held(lot, s) == IF lot.symbol = s THEN lot.quantity ELSE 0

LEMMA SharesInAppend ==
    ASSUME NEW lots \in Seq(SettlementLot), NEW lot \in SettlementLot, NEW s
    PROVE  /\ SharesIn(lots, s) \in Nat
           /\ SharesIn(Append(lots, lot), s) = SharesIn(lots, s) + Held(lot, s)
           /\ Held(lot, s) \in Nat
<1>1. Part(lot, s, Nat) = Held(lot, s)
      BY DEF Part, Held, SettlementLot
<1> QED  BY <1>1, SharesType, SharesAppend, PartType DEF SharesIn

\* What holds of the lots l once a sell of quantity shares of s went over them and left r.
SellGoes(r, l, s, quantity) ==
    /\ SharesIn(r.kept, s) + quantity = SharesIn(l, s) + r.left
    /\ r.left = 0 \/ SharesIn(r.kept, s) = 0
    /\ \A other, D : other # s => Shares(r.kept, other, D) = Shares(l, other, D)
    /\ \A t : Until(l, t) => Until(r.kept, t)
    /\ Sorted(l) => Sorted(r.kept)
    /\ Positive(l) => Positive(r.kept)
    /\ \A t \in Nat : Sorted(l) /\ quantity <= Shares(l, s, 0 .. t - 1)
                        => Shares(r.kept, s, {t}) >= Shares(l, s, {t})

LEMMA NoSharesBefore ==
    ASSUME NEW lots \in Seq(SettlementLot), NEW s, NEW t \in Nat, NEW d \in Nat,
           Until(lots, d), d < t
    PROVE  Shares(lots, s, {t}) = 0
<1> DEFINE X == {l \in Seq(SettlementLot) : Until(l, d) => Shares(l, s, {t}) = 0}
<1>1. <<>> \in X
      BY SharesOfNone
<1>2. ASSUME NEW l \in Seq(SettlementLot), NEW x \in SettlementLot, l \in X
      PROVE  Append(l, x) \in X
  <2>1. Append(l, x) \in Seq(SettlementLot)
        OBVIOUS
  <2>2. ASSUME Until(Append(l, x), d) PROVE Shares(Append(l, x), s, {t}) = 0
    <3>1. Until(l, d) /\ x.date <= d
          BY <2>2, ListsAppend
    <3>2. Part(x, s, {t}) = 0
          BY <3>1 DEF Part, SettlementLot
    <3>3. Shares(l, s, {t}) = 0
          BY <1>2, <3>1
    <3> QED  BY <3>2, <3>3, SharesAppend
  <2> QED  BY <2>1, <2>2
<1> HIDE DEF X
<1>3. lots \in X
      BY <1>1, <1>2, ListInduction
<1> QED  BY <1>3 DEF X

LEMMA SellGoesOn ==
    ASSUME NEW r \in SaleState, NEW l \in Seq(SettlementLot), NEW x \in SettlementLot,
           NEW s, NEW quantity \in Nat, SellGoes(r, l, s, quantity)
    PROVE  SellGoes(Give(r, x, s), Append(l, x), s, quantity)
<1> DEFINE g == Give(r, x, s)
           l2 == Append(l, x)
<1>1. /\ r.left \in Nat /\ r.kept \in Seq(SettlementLot)
      /\ x.quantity \in Nat /\ x.date \in Nat
      BY DEF SaleState, SettlementLot
<1>2. g \in SaleState /\ g.left \in Nat /\ g.kept \in Seq(SettlementLot)
      BY GiveType DEF SaleState
<1>3. \A z, D : /\ Shares(l2, z, D) = Shares(l, z, D) + Part(x, z, D)
                /\ Shares(l, z, D) \in Nat
                /\ Shares(r.kept, z, D) \in Nat
                /\ Part(x, z, D) \in Nat
      BY <1>1, SharesAppend, SharesType, PartType
<1>3a. /\ SharesIn(l2, s) = SharesIn(l, s) + Held(x, s)
       /\ SharesIn(l, s) \in Nat
       /\ SharesIn(r.kept, s) \in Nat
       /\ Held(x, s) \in Nat
      BY <1>1, SharesInAppend
<1>4. /\ \A t : Until(l2, t) <=> Until(l, t) /\ x.date <= t
      /\ Sorted(l2) <=> Sorted(l) /\ Until(l, x.date)
      /\ Positive(l2) <=> Positive(l) /\ x.quantity > 0
      BY ListsAppend
<1>5. /\ Held(x, s) = IF x.symbol = s THEN x.quantity ELSE 0
      /\ \A z, D : z # x.symbol => Part(x, z, D) = 0
      BY <1>1 DEF Part, Held
<1> HIDE DEF g, l2
\* The settled shares cover the sell, so a lot that may not be sold meets a sell that is done.
<1>6. ASSUME NEW t \in Nat, Sorted(l2), quantity <= Shares(l2, s, 0 .. t - 1)
      PROVE  \/ Shares(l2, s, {t}) = 0
             \/ r.left = 0 /\ Shares(r.kept, s, {t}) >= Shares(l, s, {t})
  <2>1. Sorted(l) /\ Until(l, x.date)
        BY <1>4, <1>6
  <2>2. CASE x.date < t
    <3>1. Shares(l, s, {t}) = 0
          BY <1>1, <2>1, <2>2, NoSharesBefore
    <3>2. Part(x, s, {t}) = 0
          BY <2>2, <1>1 DEF Part
    <3> QED  BY <1>3, <3>1, <3>2
  <2>3. CASE x.date >= t
    <3>1. Part(x, s, 0 .. t - 1) = 0
          BY <2>3, <1>1 DEF Part
    <3>2. quantity <= Shares(l, s, 0 .. t - 1)
          BY <1>3, <1>6, <3>1
    <3>3. Shares(l, s, 0 .. t - 1) <= SharesIn(l, s)
      <4>1. 0 .. t - 1 \subseteq Nat
            OBVIOUS
      <4> QED  BY <4>1, SharesMonotone DEF SharesIn
    <3>4. r.left = 0
      <4>1. /\ SharesIn(r.kept, s) + quantity = SharesIn(l, s) + r.left
            /\ r.left = 0 \/ SharesIn(r.kept, s) = 0
            BY DEF SellGoes
      <4>2. /\ SharesIn(r.kept, s) \in Nat /\ SharesIn(l, s) \in Nat
            /\ Shares(l, s, 0 .. t - 1) \in Nat
            BY <1>3, <1>3a
      <4> QED  BY <1>1, <3>2, <3>3, <4>1, <4>2
    <3> QED  BY <2>1, <3>2, <3>4 DEF SellGoes
  <2> QED  BY <1>1, <2>2, <2>3
\* The lot stays as it is.
<1>7. CASE x.symbol # s \/ r.left = 0
  <2>1. g.left = r.left /\ g.kept = Append(r.kept, x)
    <3>1. g = [left |-> r.left, kept |-> Append(r.kept, x)]
          BY <1>7, GiveCases DEF g
    <3> QED  BY <3>1
  <2>1a. SharesIn(g.kept, s) = SharesIn(r.kept, s) + Held(x, s)
        BY <1>1, <2>1, SharesInAppend
  <2>2. \A z, D : Shares(g.kept, z, D) = Shares(r.kept, z, D) + Part(x, z, D)
        BY <1>1, <2>1, SharesAppend
  <2>3. /\ \A t : Until(g.kept, t) <=> Until(r.kept, t) /\ x.date <= t
        /\ Sorted(g.kept) <=> Sorted(r.kept) /\ Until(r.kept, x.date)
        /\ Positive(g.kept) <=> Positive(r.kept) /\ x.quantity > 0
        BY <1>1, <2>1, ListsAppend
  <2>4. SharesIn(g.kept, s) + quantity = SharesIn(l2, s) + g.left
    <3>1. SharesIn(r.kept, s) + quantity = SharesIn(l, s) + r.left
          BY DEF SellGoes
    <3>2. SharesIn(g.kept, s) \in Nat /\ SharesIn(l2, s) \in Nat /\ quantity \in Nat
          BY <1>1, <1>3a, <2>1a
    <3>3. g.left = r.left /\ r.left \in Nat
          BY <1>1, <2>1
    <3> DEFINE a == SharesIn(g.kept, s)
               b == SharesIn(l2, s)
               c == SharesIn(r.kept, s)
               d == SharesIn(l, s)
               h == Held(x, s)
               m == g.left
    <3>4. a = c + h /\ b = d + h /\ c + quantity = d + m
          BY <1>3a, <2>1a, <3>1, <3>3
    <3>5. a \in Nat /\ b \in Nat /\ c \in Nat /\ d \in Nat /\ h \in Nat /\ m \in Nat
          BY <1>1, <1>3a, <2>1a, <3>2, <3>3
    <3> HIDE DEF a, b, c, d, h, m
    <3>6. quantity \in Nat
          OBVIOUS
    <3>7. a + quantity = b + m
          BY <3>4, <3>5, <3>6
    <3> QED  BY <3>7 DEF a, b, m
  <2>5. g.left = 0 \/ SharesIn(g.kept, s) = 0
    <3>1. CASE r.left = 0
          BY <2>1, <3>1
    <3>2. CASE r.left # 0
      <4>1. SharesIn(r.kept, s) = 0
            BY <3>2 DEF SellGoes
      <4>2. Held(x, s) = 0
            BY <1>5, <1>7, <3>2
      <4> QED  BY <2>1a, <4>1, <4>2
    <3> QED  BY <3>1, <3>2
  <2>6. \A other, D : other # s => Shares(g.kept, other, D) = Shares(l2, other, D)
        BY <1>3, <2>2 DEF SellGoes
  <2>7. \A t : Until(l2, t) => Until(g.kept, t)
        BY <1>4, <2>3 DEF SellGoes
  <2>8. /\ Sorted(l2) => Sorted(g.kept)
        /\ Positive(l2) => Positive(g.kept)
        BY <1>4, <2>3 DEF SellGoes
  <2>9. ASSUME NEW t \in Nat, Sorted(l2), quantity <= Shares(l2, s, 0 .. t - 1)
        PROVE  Shares(g.kept, s, {t}) >= Shares(l2, s, {t})
    <3>1. g.kept \in Seq(SettlementLot) => Shares(g.kept, s, {t}) \in Nat
          BY SharesType
    <3>2. CASE Shares(l2, s, {t}) = 0
          BY <1>2, <3>1, <3>2
    <3>3. CASE Shares(r.kept, s, {t}) >= Shares(l, s, {t})
          BY <1>3, <2>2, <3>3
    <3> QED  BY <1>6, <2>9, <3>2, <3>3
  <2> HIDE DEF SellGoes
  <2> QED  BY <2>4, <2>5, <2>6, <2>7, <2>8, <2>9 DEF SellGoes, g, l2
\* The lot gives the rest of the sell and keeps some shares.
<1>8. CASE x.symbol = s /\ r.left > 0 /\ x.quantity > r.left
  <2> DEFINE y == [symbol |-> s, date |-> x.date, quantity |-> x.quantity - r.left]
  <2>1. g.left = 0 /\ g.kept = Append(r.kept, y)
        BY <1>8, GiveCases DEF g
  <2>2. y \in SettlementLot /\ y.date = x.date /\ y.quantity = x.quantity - r.left /\ y.symbol = s
        BY <1>1, <1>8 DEF SettlementLot
  <2> HIDE DEF y
  <2>3. \A z, D : /\ Shares(g.kept, z, D) = Shares(r.kept, z, D) + Part(y, z, D)
                  /\ Part(y, z, D) \in Nat
        BY <1>1, <2>1, <2>2, SharesAppend, PartType
  <2>3a. SharesIn(g.kept, s) = SharesIn(r.kept, s) + Held(y, s)
        BY <1>1, <2>1, <2>2, SharesInAppend
  <2>4. /\ \A t : Until(g.kept, t) <=> Until(r.kept, t) /\ x.date <= t
        /\ Sorted(g.kept) <=> Sorted(r.kept) /\ Until(r.kept, x.date)
        /\ Positive(g.kept) <=> Positive(r.kept) /\ y.quantity > 0
        BY <1>1, <2>1, <2>2, ListsAppend
  <2>5. Held(y, s) = x.quantity - r.left /\ \A z, D : z # s => Part(y, z, D) = 0
        BY <1>1, <2>2 DEF Part, Held
  <2>6. SharesIn(g.kept, s) + quantity = SharesIn(l2, s) + g.left
    <3>1. SharesIn(r.kept, s) + quantity = SharesIn(l, s) + r.left
          BY DEF SellGoes
    <3>2. Held(x, s) = x.quantity
          BY <1>5, <1>8
    <3>3. /\ SharesIn(g.kept, s) = SharesIn(r.kept, s) + (x.quantity - r.left)
          /\ SharesIn(l2, s) = SharesIn(l, s) + x.quantity
          /\ SharesIn(r.kept, s) \in Nat /\ SharesIn(l, s) \in Nat
          BY <1>3a, <2>3a, <2>5, <3>2
    <3>4. SharesIn(g.kept, s) \in Nat /\ SharesIn(l2, s) \in Nat /\ quantity \in Nat
          BY <1>1, <1>8, <3>3
    <3>5. g.left = 0 /\ r.left \in Nat /\ x.quantity \in Nat /\ x.quantity > r.left
          BY <1>1, <1>8, <2>1
    <3> DEFINE a == SharesIn(g.kept, s)
               b == SharesIn(l2, s)
               c == SharesIn(r.kept, s)
               d == SharesIn(l, s)
               h == x.quantity
               m == r.left
    <3>6. /\ a = c + (h - m) /\ b = d + h /\ c + quantity = d + m /\ g.left = 0
          /\ \A n \in {a, b, c, d, h, m, quantity} : n \in Nat
          BY <3>1, <3>3, <3>4, <3>5
    <3> HIDE DEF a, b, c, d, h, m
    <3>7. a + quantity = b + g.left
          BY <3>6
    <3> QED  BY <3>7 DEF a, b
  <2>7. ASSUME NEW other, NEW D, other # s
        PROVE  Shares(g.kept, other, D) = Shares(l2, other, D)
    <3>1. Shares(r.kept, other, D) = Shares(l, other, D)
          BY <2>7 DEF SellGoes
    <3>2. Part(y, other, D) = 0 /\ Part(x, other, D) = 0
          BY <1>5, <1>8, <2>5, <2>7
    <3> QED  BY <1>3, <2>3, <3>1, <3>2
  <2>8. \A t : Until(l2, t) => Until(g.kept, t)
        BY <1>4, <2>4 DEF SellGoes
  <2>9. Sorted(l2) => Sorted(g.kept)
        BY <1>4, <2>4 DEF SellGoes
  <2>10. Positive(l2) => Positive(g.kept)
        BY <1>1, <1>4, <1>8, <2>2, <2>4 DEF SellGoes
  <2>11. ASSUME NEW t \in Nat, Sorted(l2), quantity <= Shares(l2, s, 0 .. t - 1)
         PROVE  Shares(g.kept, s, {t}) >= Shares(l2, s, {t})
    <3>1. Shares(l2, s, {t}) = 0
          BY <1>1, <1>6, <1>8, <2>11
    <3>2. Shares(g.kept, s, {t}) \in Nat
          BY <1>2, SharesType
    <3> QED  BY <3>1, <3>2
  <2> QED  BY <2>1, <2>6, <2>7, <2>8, <2>9, <2>10, <2>11 DEF SellGoes, g, l2
\* The lot gives all it has.
<1>9. CASE x.symbol = s /\ r.left > 0 /\ x.quantity <= r.left
  <2>1. g.left = r.left - x.quantity /\ g.kept = r.kept
    <3>1. g = [left |-> r.left - x.quantity, kept |-> r.kept]
          BY <1>9, GiveCases DEF g
    <3> QED  BY <3>1
  <2>2. SharesIn(r.kept, s) = 0
        BY <1>1, <1>9 DEF SellGoes
  <2>3. SharesIn(g.kept, s) + quantity = SharesIn(l2, s) + g.left
    <3>1. SharesIn(r.kept, s) + quantity = SharesIn(l, s) + r.left
          BY DEF SellGoes
    <3>2. Held(x, s) = x.quantity
          BY <1>5, <1>9
    <3>3. SharesIn(l2, s) = SharesIn(l, s) + x.quantity /\ SharesIn(l, s) \in Nat
          BY <1>3a, <3>2
    <3> QED  BY <1>1, <2>1, <2>2, <3>1, <3>3
  <2>4. ASSUME NEW other, NEW D, other # s
        PROVE  Shares(g.kept, other, D) = Shares(l2, other, D)
    <3>1. Shares(r.kept, other, D) = Shares(l, other, D)
          BY <2>4 DEF SellGoes
    <3>2. Part(x, other, D) = 0
          BY <1>5, <1>9, <2>4
    <3> QED  BY <1>3, <2>1, <3>1, <3>2
  <2>5. \A t : Until(l2, t) => Until(g.kept, t)
        BY <1>4, <2>1 DEF SellGoes
  <2>6. /\ Sorted(l2) => Sorted(g.kept)
        /\ Positive(l2) => Positive(g.kept)
        BY <1>4, <2>1 DEF SellGoes
  <2>7. ASSUME NEW t \in Nat, Sorted(l2), quantity <= Shares(l2, s, 0 .. t - 1)
         PROVE  Shares(g.kept, s, {t}) >= Shares(l2, s, {t})
    <3>1. Shares(l2, s, {t}) = 0
          BY <1>1, <1>6, <1>9, <2>7
    <3>2. Shares(g.kept, s, {t}) \in Nat
          BY <1>2, SharesType
    <3> QED  BY <3>1, <3>2
  <2> QED  BY <2>1, <2>2, <2>3, <2>4, <2>5, <2>6, <2>7 DEF SellGoes, g, l2
<1> QED  BY <1>1, <1>7, <1>8, <1>9

\* What a whole sell leaves.
LEMMA SellLeaves ==
    ASSUME NEW lots \in Seq(SettlementLot), NEW s, NEW quantity \in Nat
    PROVE  \E r \in SaleState : /\ r.kept = AfterSell(lots, s, quantity)
                                /\ SellGoes(r, lots, s, quantity)
<1> DEFINE n == Len(lots)
<1>1. n \in Nat
      OBVIOUS
<1>2. PICK f : IsSale(f, lots, s, quantity)
      BY SaleExists
<1>3. AfterSell(lots, s, quantity) = f[n].kept
      BY <1>2, AfterSellIsSale
<1> DEFINE S == {k \in 0 .. n : SellGoes(f[k], Prefix(lots, k), s, quantity)}
<1>4. \A k \in 0 .. n : f[k] \in SaleState
      BY <1>2 DEF IsSale
<1>5. 0 \in S
  <2>1. f[0].left = quantity /\ f[0].kept = <<>>
        BY <1>2 DEF IsSale
  <2>2. Prefix(lots, 0) = <<>>
        BY DEF Prefix
  <2>3. SharesIn(<<>>, s) = 0 /\ \A z, D : Shares(<<>>, z, D) = 0
        BY SharesOfNone DEF SharesIn
  <2>4. SellGoes(f[0], Prefix(lots, 0), s, quantity)
        BY <2>1, <2>2, <2>3 DEF SellGoes
  <2> QED  BY <1>1, <2>4
<1>6. ASSUME NEW k \in 1 .. n, k - 1 \in S PROVE k \in S
  <2> DEFINE shorter == Prefix(lots, k - 1)
  <2>1. shorter \in Seq(SettlementLot) /\ lots[k] \in SettlementLot
        BY DEF Prefix
  <2>2. Prefix(lots, k) = Append(shorter, lots[k])
        BY DEF Prefix
  <2>3. f[k - 1] \in SaleState /\ f[k] = Give(f[k - 1], lots[k], s)
        BY <1>2, <1>4 DEF IsSale
  <2>4. SellGoes(f[k - 1], shorter, s, quantity)
        BY <1>6
  <2> HIDE DEF shorter, S
  <2>5. SellGoes(f[k], Prefix(lots, k), s, quantity)
        BY <2>1, <2>2, <2>3, <2>4, SellGoesOn
  <2>6. k \in 0 .. n
        BY <1>1
  <2> HIDE DEF n
  <2> QED  BY <2>5, <2>6 DEF S
<1> HIDE DEF S
<1>7. n \in S
  <2>1. 0 .. n \subseteq S
        BY <1>1, <1>5, <1>6, UpTo
  <2> QED  BY <1>1, <2>1
<1>8. Prefix(lots, n) = lots
      BY DEF Prefix
<1>9. SellGoes(f[n], lots, s, quantity)
      BY <1>7, <1>8 DEF S
<1>10. f[n] \in SaleState
      BY <1>1, <1>4
<1> HIDE DEF n
<1> QED  BY <1>3, <1>9, <1>10
-----------------------------------------------------------------------------
(***************************************************************************)
(* Accounts.                                                               *)
(***************************************************************************)
\* Lots and positions agree, and the lots are in date order up to t.
GoodAccount(a, t) ==
    /\ a \in Account
    /\ LotsMatch(a)
    /\ Sorted(a.lots)
    /\ Until(a.lots, t)

LEMMA MoneyTypes ==
    ASSUME NEW quantity \in Nat, NEW price \in Nat
    PROVE  /\ BuyCost(quantity, price) \in Nat
           /\ SellProceeds(quantity, price) \in Int
<1>1. FeeDivisor \in Nat \ {0} /\ TaxDivisor \in Nat \ {0} /\ MinFee \in Nat
      BY ExecutionAssumption DEF ExecutionAssumption
<1> DEFINE gross == quantity * price
<1>2. gross \in Nat
      OBVIOUS
<1> HIDE DEF gross
<1>3. gross \div FeeDivisor \in Nat /\ gross \div TaxDivisor \in Nat
      BY <1>1, <1>2
<1>4. Commission(gross) \in Nat
      BY <1>1, <1>3 DEF Commission, Larger
<1>5. BuyCost(quantity, price) = gross + Commission(gross)
      BY DEF BuyCost, gross
<1>6. SellProceeds(quantity, price) = gross - Commission(gross) - gross \div TaxDivisor
      BY DEF SellProceeds, gross
<1> QED  BY <1>2, <1>3, <1>4, <1>5, <1>6

LEMMA LaterIsGood ==
    ASSUME NEW a, NEW t \in Nat, NEW u \in Nat, GoodAccount(a, t), t <= u
    PROVE  GoodAccount(a, u)
<1>1. a.lots \in Seq(SettlementLot)
      BY DEF GoodAccount, Account
<1>2. ASSUME NEW k \in 1 .. Len(a.lots) PROVE a.lots[k].date \in Nat
  <2>1. a.lots[k] \in SettlementLot
        BY <1>1
  <2> QED  BY <2>1 DEF SettlementLot
<1> QED  BY <1>2 DEF GoodAccount, Until

LEMMA PositionsAreShares ==
    ASSUME NEW a \in Account, LotsMatch(a), NEW s \in Symbols
    PROVE  a.position[s] = SharesIn(a.lots, s) /\ a.position[s] \in Nat
BY SharesType DEF LotsMatch, SharesIn, Account

LEMMA AccountFields ==
    ASSUME NEW a \in Account
    PROVE  a.cash \in Int /\ a.position \in [Symbols -> Int] /\ a.lots \in Seq(SettlementLot)
BY DEF Account

\* b is a good account that has all the shares of day t that a has.
Keeps(a, b, t) ==
    /\ GoodAccount(b, t)
    /\ b.last = a.last
    /\ \A z : BoughtOn(a, z, t) <= BoughtOn(b, z, t)

\* A buy adds a lot of its day, behind the others.
LEMMA BuyKeeps ==
    ASSUME NEW t \in Nat, NEW a, GoodAccount(a, t), NEW s \in Symbols,
           NEW quantity \in Nat \ {0}, NEW price \in Nat
    PROVE  /\ Keeps(a, Bought(a, s, quantity, price, t), t)
           /\ Bought(a, s, quantity, price, t).cash = a.cash - BuyCost(quantity, price)
<1> DEFINE b == Bought(a, s, quantity, price, t)
           lot == [symbol |-> s, quantity |-> quantity, date |-> t]
<1>1. a \in Account /\ LotsMatch(a) /\ Sorted(a.lots) /\ Until(a.lots, t)
      BY DEF GoodAccount
<1>2. a.cash \in Int /\ a.position \in [Symbols -> Int] /\ a.lots \in Seq(SettlementLot)
      BY <1>1, AccountFields
<1>3. lot \in SettlementLot /\ lot.date = t /\ lot.quantity = quantity /\ lot.symbol = s
      BY DEF SettlementLot
<1>4. BuyCost(quantity, price) \in Nat
      BY MoneyTypes
<1> HIDE DEF lot
<1>5. /\ b.cash = a.cash - BuyCost(quantity, price)
      /\ b.position = [a.position EXCEPT ![s] = @ + quantity]
      /\ b.lots = Append(a.lots, lot)
      /\ b.last = a.last
      BY <1>1 DEF Bought, Account, lot
<1>6. b \in Account
  <2>1. a.cash - BuyCost(quantity, price) \in Int
        BY <1>2, <1>4
  <2>2. [a.position EXCEPT ![s] = @ + quantity] \in [Symbols -> Int]
        BY <1>2
  <2>3. Append(a.lots, lot) \in Seq(SettlementLot)
        BY <1>2, <1>3
  <2> QED  BY <1>1, <2>1, <2>2, <2>3 DEF Bought, Account, lot
<1> HIDE DEF b
<1>7. Sorted(b.lots) /\ Until(b.lots, t)
  <2>1. t <= t
        OBVIOUS
  <2> QED  BY <1>1, <1>2, <1>3, <1>5, <2>1, ListsAppend
<1>8. LotsMatch(b)
  <2>1. Positive(a.lots)
        BY <1>1 DEF LotsMatch, Positive
  <2>2. Positive(b.lots)
        BY <1>2, <1>3, <1>5, <2>1, ListsAppend
  <2>3. ASSUME NEW z \in Symbols PROVE SharesIn(b.lots, z) = b.position[z]
    <3>1. SharesIn(b.lots, z) = SharesIn(a.lots, z) + Held(lot, z) /\ SharesIn(a.lots, z) \in Nat
          BY <1>2, <1>3, <1>5, SharesInAppend
    <3>2. SharesIn(a.lots, z) = a.position[z]
          BY <1>1, PositionsAreShares
    <3>3. CASE z = s
      <4>1. b.position[z] = a.position[z] + quantity
            BY <1>2, <1>5, <3>3
      <4>2. Held(lot, z) = quantity
            BY <1>3, <3>3 DEF Held
      <4> QED  BY <3>1, <3>2, <4>1, <4>2
    <3>4. CASE z # s
      <4>1. b.position[z] = a.position[z]
            BY <1>2, <1>5, <3>4
      <4>2. Held(lot, z) = 0
            BY <1>3, <3>4 DEF Held
      <4> QED  BY <3>1, <3>2, <4>1, <4>2
    <3> QED  BY <3>3, <3>4
  <2> QED  BY <2>2, <2>3 DEF LotsMatch, Positive
<1>9. ASSUME NEW z PROVE BoughtOn(a, z, t) <= BoughtOn(b, z, t)
  <2>1. /\ Shares(b.lots, z, {t}) = Shares(a.lots, z, {t}) + Part(lot, z, {t})
        /\ Shares(a.lots, z, {t}) \in Nat
        /\ Part(lot, z, {t}) \in Nat
        BY <1>2, <1>3, <1>5, SharesAppend, SharesType, PartType
  <2> QED  BY <2>1 DEF BoughtOn
<1>10. GoodAccount(b, t)
      BY <1>6, <1>7, <1>8 DEF GoodAccount
<1> QED  BY <1>5, <1>9, <1>10 DEF b, Keeps

\* A sell that the settled shares cover takes what it sells and leaves the day's lots.
LEMMA SellKeeps ==
    ASSUME NEW t \in Nat, NEW a, GoodAccount(a, t), NEW s \in Symbols,
           NEW quantity \in Nat \ {0}, NEW price \in Nat,
           quantity <= Sellable(a.lots, s, t)
    PROVE  /\ Keeps(a, Sold(a, s, quantity, price, t), t)
           /\ Sold(a, s, quantity, price, t).cash = a.cash + SellProceeds(quantity, price)
<1> DEFINE b == Sold(a, s, quantity, price, t)
<1>1. a \in Account /\ LotsMatch(a) /\ Sorted(a.lots) /\ Until(a.lots, t)
      BY DEF GoodAccount
<1>2. a.cash \in Int /\ a.position \in [Symbols -> Int] /\ a.lots \in Seq(SettlementLot)
      BY <1>1, AccountFields
<1>3. quantity \in Nat
      OBVIOUS
<1>4. SellProceeds(quantity, price) \in Int
      BY MoneyTypes
<1>5. PICK r \in SaleState : /\ r.kept = AfterSell(a.lots, s, quantity)
                             /\ SellGoes(r, a.lots, s, quantity)
      BY <1>2, <1>3, SellLeaves
<1>6. /\ b.cash = a.cash + SellProceeds(quantity, price)
      /\ b.position = [a.position EXCEPT ![s] = @ - quantity]
      /\ b.lots = r.kept
      /\ b.last = a.last
      BY <1>1, <1>5 DEF Sold, Account
<1>7. r.left \in Nat /\ r.kept \in Seq(SettlementLot)
      BY DEF SaleState
<1>8. b \in Account
  <2>1. a.cash + SellProceeds(quantity, price) \in Int
        BY <1>2, <1>4
  <2>2. [a.position EXCEPT ![s] = @ - quantity] \in [Symbols -> Int]
        BY <1>2
  <2> QED  BY <1>1, <1>5, <1>7, <2>1, <2>2 DEF Sold, Account
<1> HIDE DEF b
<1>9. Sorted(b.lots) /\ Until(b.lots, t)
      BY <1>1, <1>5, <1>6 DEF SellGoes
<1>10. Shares(a.lots, s, 0 .. t - 1) <= SharesIn(a.lots, s)
  <2>1. 0 .. t - 1 \subseteq Nat
        OBVIOUS
  <2> QED  BY <1>2, <2>1, SharesMonotone DEF SharesIn
<1>11. SharesIn(b.lots, s) = SharesIn(a.lots, s) - quantity
  <2> DEFINE c == SharesIn(b.lots, s)
             d == SharesIn(a.lots, s)
             e == Shares(a.lots, s, 0 .. t - 1)
             m == r.left
  <2>1. c + quantity = d + m /\ (m = 0 \/ c = 0)
        BY <1>5, <1>6 DEF SellGoes
  <2>2. c \in Nat /\ d \in Nat /\ e \in Nat /\ m \in Nat
        BY <1>2, <1>6, <1>7, SharesType DEF SharesIn
  <2>3. quantity <= e /\ e <= d
        BY <1>10 DEF Sellable
  <2> HIDE DEF c, d, e, m
  <2>4. c = d - quantity
        BY <1>3, <2>1, <2>2, <2>3
  <2> QED  BY <2>4 DEF c, d
<1>12. LotsMatch(b)
  <2>1. Positive(a.lots)
        BY <1>1 DEF LotsMatch, Positive
  <2>2. Positive(b.lots)
        BY <1>5, <1>6, <2>1 DEF SellGoes
  <2>3. ASSUME NEW z \in Symbols PROVE SharesIn(b.lots, z) = b.position[z]
    <3>1. SharesIn(a.lots, z) = a.position[z]
          BY <1>1, PositionsAreShares
    <3>2. CASE z = s
      <4>1. b.position[z] = a.position[z] - quantity
            BY <1>2, <1>6, <3>2
      <4> QED  BY <1>11, <3>1, <3>2, <4>1
    <3>3. CASE z # s
      <4>1. b.position[z] = a.position[z]
            BY <1>2, <1>6, <3>3
      <4>2. SharesIn(b.lots, z) = SharesIn(a.lots, z)
            BY <1>5, <1>6, <3>3 DEF SellGoes, SharesIn
      <4> QED  BY <3>1, <4>1, <4>2
    <3> QED  BY <3>2, <3>3
  <2> QED  BY <2>2, <2>3 DEF LotsMatch, Positive
<1>13. ASSUME NEW z PROVE BoughtOn(a, z, t) <= BoughtOn(b, z, t)
  <2>1. CASE z = s
        BY <1>1, <1>5, <1>6, <2>1 DEF SellGoes, BoughtOn, Sellable
  <2>2. CASE z # s
    <3>1. Shares(b.lots, z, {t}) = Shares(a.lots, z, {t})
          BY <1>5, <1>6, <2>2 DEF SellGoes
    <3>2. Shares(a.lots, z, {t}) \in Nat
          BY <1>2, SharesType
    <3> QED  BY <3>1, <3>2 DEF BoughtOn
  <2> QED  BY <2>1, <2>2
<1>14. GoodAccount(b, t)
      BY <1>8, <1>9, <1>12 DEF GoodAccount
<1> QED  BY <1>6, <1>13, <1>14 DEF b, Keeps
-----------------------------------------------------------------------------
(***************************************************************************)
(* The inductive invariant.                                                *)
(***************************************************************************)
\* The day up to which the working copy may hold lots.
WorkDay == IF running THEN today ELSE book.last

IInv ==
    /\ TypeOK
    /\ GoodAccount(book, book.last)
    /\ GoodAccount(work, WorkDay)
    /\ book.cash >= 0
    /\ work.cash >= 0
    /\ running => today > book.last

LEMMA InitIInv == Init => IInv
<1> SUFFICES ASSUME Init PROVE IInv
    OBVIOUS
<1> USE ExecutionAssumption DEF ExecutionAssumption
<1>1. book \in Account
  <2>1. <<>> \in Seq(SettlementLot) /\ InitialCash \in Int
        OBVIOUS
  <2>2. [s \in Symbols |-> 0] \in [Symbols -> Int]
        OBVIOUS
  <2>3. {} \in SUBSET (Nat \X Symbols \X {"buy", "sell"} \X Nat)
        OBVIOUS
  <2> QED  BY <2>1, <2>2, <2>3 DEF Init, Account
<1>2. /\ book.lots = <<>> /\ book.last = 0 /\ book.cash = InitialCash
      /\ \A s \in Symbols : book.position[s] = 0
      BY DEF Init
<1>3. GoodAccount(book, 0)
  <2>1. LotsMatch(book)
        BY <1>2, SharesOfNone DEF LotsMatch, SharesIn
  <2>2. Sorted(book.lots) /\ Until(book.lots, 0)
        BY <1>2 DEF Sorted, Until
  <2> QED  BY <1>1, <2>1, <2>2 DEF GoodAccount
<1>4. TypeOK
  <2>1. <<>> \in Seq(Order) /\ 0 \in 0 .. LastDay /\ 0 \in 0 .. MaxFills
        OBVIOUS
  <2>2. /\ today \in 0 .. LastDay /\ orders \in Seq(Order) /\ fills \in 0 .. MaxFills
        /\ work = book /\ ~ running /\ orders = <<>>
        BY <2>1 DEF Init
  <2>3. running \in BOOLEAN
        BY DEF Init
  <2> QED  BY <1>1, <2>2, <2>3 DEF TypeOK
<1> QED  BY <1>2, <1>3, <1>4 DEF Init, IInv, WorkDay

LEMMA WholeLots ==
    ASSUME NEW n \in Nat, n >= Lot
    PROVE  (n \div Lot) * Lot \in Nat \ {0}
<1>1. Lot \in Nat \ {0}
      BY ExecutionAssumption DEF ExecutionAssumption
<1> DEFINE m == n \div Lot
<1>2. m \in Nat /\ m >= 1
      BY <1>1
<1> HIDE DEF m
<1>3. m * Lot \in Nat /\ m * Lot >= Lot
      BY <1>1, <1>2
<1> QED  BY <1>1, <1>3 DEF m

LEMMA BoardLotsType == BoardLots \subseteq Nat \ {0}
<1>1. Lot \in Nat \ {0} /\ MaxLots \in Nat
      BY ExecutionAssumption DEF ExecutionAssumption
<1>2. ASSUME NEW n \in 1 .. MaxLots PROVE n * Lot \in Nat \ {0}
  <2>1. n \in Nat /\ n >= 1
        BY <1>1
  <2>2. n * Lot \in Nat /\ n * Lot >= Lot
        BY <1>1, <2>1
  <2> QED  BY <1>1, <2>2
<1> QED  BY <1>2 DEF BoardLots

\* The orderings of a finite set are lists of its members.
LEMMA OrderingsType ==
    ASSUME NEW T, NEW S, S \subseteq T, IsFiniteSet(S), NEW l \in SetToSeqs(S)
    PROVE  l \in Seq(T)
<1>1. Cardinality(S) \in Nat
      BY FS_CardinalityType
<1>2. l \in [1 .. Cardinality(S) -> S]
      BY DEF SetToSeqs
<1>3. l \in Seq(S)
      BY <1>1, <1>2
<1> QED  BY <1>3

LEMMA FiniteImage ==
    ASSUME NEW S, IsFiniteSet(S), NEW f, NEW T, f \in [S -> T]
    PROVE  IsFiniteSet({f[x] : x \in S})
<1> DEFINE I == {f[x] : x \in S}
<1>1. f \in Surjection(S, I)
      BY DEF Surjection
<1> HIDE DEF I
<1>2. IsFiniteSet(I)
      BY <1>1, FS_Surjection
<1> QED  BY <1>2 DEF I

LEMMA FiniteOrders ==
    /\ IsFiniteSet(BuyOrders)
    /\ \A exits \in SUBSET Symbols : IsFiniteSet({SellOrder(s) : s \in exits})
<1>1. IsFiniteSet(Symbols) /\ MaxLots \in Nat
      BY ExecutionAssumption DEF ExecutionAssumption
<1>2. IsFiniteSet(BuyOrders)
  <2> DEFINE P == Symbols \X (1 .. MaxLots)
             f == [p \in P |-> [symbol |-> p[1], side |-> "buy", quantity |-> p[2] * Lot]]
             T == {f[p] : p \in P}
  <2>1. IsFiniteSet(1 .. MaxLots)
        BY <1>1, FS_Interval
  <2>2. IsFiniteSet(P)
        BY <1>1, <2>1, FS_Product
  <2>3. f \in [P -> T]
        OBVIOUS
  <2>4. ASSUME NEW o \in BuyOrders PROVE o \in T
    <3>1. PICK s \in Symbols, n \in 1 .. MaxLots :
             o = [symbol |-> s, side |-> "buy", quantity |-> n * Lot]
          BY DEF BuyOrders
    <3>2. <<s, n>> \in P /\ f[<<s, n>>] = o
          BY <3>1
    <3> HIDE DEF P, f
    <3> QED  BY <3>2
  <2>5. IsFiniteSet(T)
    <3> HIDE DEF P, f, T
    <3>1. IsFiniteSet({f[p] : p \in P})
          BY <2>2, <2>3, FiniteImage
    <3> QED  BY <3>1 DEF T
  <2>6. BuyOrders \in SUBSET T
        BY <2>4
  <2> HIDE DEF T
  <2> QED  BY <2>5, <2>6, FS_Subset
<1>3. ASSUME NEW exits \in SUBSET Symbols
      PROVE  IsFiniteSet({SellOrder(s) : s \in exits})
  <2> DEFINE f == [s \in exits |-> SellOrder(s)]
             T == {f[s] : s \in exits}
  <2>1. IsFiniteSet(exits)
        BY <1>1, FS_Subset
  <2>2. f \in [exits -> T]
        OBVIOUS
  <2>3. {SellOrder(s) : s \in exits} = T
        OBVIOUS
  <2>4. IsFiniteSet(T)
    <3> HIDE DEF f, T
    <3>1. IsFiniteSet({f[s] : s \in exits})
          BY <2>1, <2>2, FiniteImage
    <3> QED  BY <3>1 DEF T
  <2> QED  BY <2>3, <2>4
<1> QED  BY <1>2, <1>3
-----------------------------------------------------------------------------
(***************************************************************************)
(* Every step keeps the inductive invariant.                               *)
(***************************************************************************)
LEMMA IInvFacts ==
    ASSUME IInv
    PROVE  /\ today \in Nat /\ today <= LastDay /\ fills \in 0 .. MaxFills
           /\ LastDay \in Nat
           /\ running \in BOOLEAN /\ orders \in Seq(Order)
           /\ ~ running => orders = <<>> /\ work = book
           /\ book \in Account /\ work \in Account
           /\ book.last \in Nat /\ book.cash \in Int
           /\ work.last \in Nat /\ work.cash \in Int
           /\ GoodAccount(book, book.last)
           /\ running => GoodAccount(work, today) /\ today > book.last
<1>1. LastDay \in Nat
      BY ExecutionAssumption DEF ExecutionAssumption
<1>2. TypeOK
      BY DEF IInv
<1>3. /\ today \in Nat /\ today <= LastDay /\ fills \in 0 .. MaxFills
      /\ running \in BOOLEAN /\ orders \in Seq(Order)
      /\ book \in Account /\ work \in Account
      /\ ~ running => orders = <<>> /\ work = book
      BY <1>1, <1>2 DEF TypeOK
<1>4. /\ book.last \in Nat /\ book.cash \in Int
      /\ work.last \in Nat /\ work.cash \in Int
      BY <1>3 DEF Account
<1>5. /\ GoodAccount(book, book.last)
      /\ running => GoodAccount(work, today) /\ today > book.last
      BY DEF IInv, WorkDay
<1> QED  BY <1>1, <1>3, <1>4, <1>5

LEMMA Proposed ==
    ASSUME IInv, NEW buys \in SUBSET BuyOrders, NEW exits \in SUBSET Symbols,
           Proposable(buys, exits),
           NEW b \in SetToSeqs(buys), NEW x \in SetToSeqs({SellOrder(s) : s \in exits})
    PROVE  b \o x \in Seq(Order)
<1> DEFINE sells == {SellOrder(s) : s \in exits}
<1>1. buys \subseteq Order
  <2> SUFFICES ASSUME NEW s \in Symbols, NEW n \in 1 .. MaxLots
               PROVE  [symbol |-> s, side |-> "buy", quantity |-> n * Lot] \in Order
      BY DEF BuyOrders
  <2>1. n * Lot \in Nat \ {0}
        BY BoardLotsType DEF BoardLots
  <2> QED  BY <2>1 DEF Order
<1>2. sells \subseteq Order
  <2> SUFFICES ASSUME NEW s \in exits PROVE SellOrder(s) \in Order
      OBVIOUS
  <2>1. book \in Account /\ LotsMatch(book)
        BY IInvFacts DEF GoodAccount
  <2>2. book.position[s] \in Nat /\ book.position[s] >= Lot
        BY <2>1, PositionsAreShares DEF Proposable
  <2>3. (book.position[s] \div Lot) * Lot \in Nat \ {0}
        BY <2>2, WholeLots
  <2> QED  BY <2>3 DEF SellOrder, Order
<1>3. IsFiniteSet(buys) /\ IsFiniteSet(sells)
      BY FiniteOrders, FS_Subset
<1> HIDE DEF sells
<1>4. b \in Seq(Order)
      BY <1>1, <1>3, OrderingsType
<1>5. x \in SetToSeqs(sells)
      BY DEF sells
<1>6. x \in Seq(Order)
      BY <1>2, <1>3, <1>5, OrderingsType
<1> QED  BY <1>4, <1>6

LEMMA StartSessionKeeps ==
    ASSUME IInv, NEW t \in 1 .. LastDay, StartSession(t)
    PROVE  IInv'
<1>1. /\ today' = t /\ running' = TRUE /\ book' = book /\ work' = work /\ fills' = fills
      /\ ~ running /\ t > book.last
      BY DEF StartSession
<1>2. orders' \in Seq(Order)
      BY Proposed DEF StartSession
<1>3. t \in Nat /\ t \in 0 .. LastDay
      BY IInvFacts
<1>4. work = book /\ GoodAccount(book, book.last)
      BY <1>1, IInvFacts
<1>5. GoodAccount(work, t)
      BY <1>1, <1>3, <1>4, IInvFacts, LaterIsGood
<1>6. TypeOK'
      BY <1>1, <1>2, <1>3, IInvFacts DEF TypeOK
<1>7. /\ GoodAccount(book, book.last)' /\ GoodAccount(work, WorkDay)'
      BY <1>1, <1>4, <1>5 DEF WorkDay, GoodAccount, LotsMatch
<1> QED  BY <1>1, <1>6, <1>7 DEF IInv

\* An exception leaves the saved account, and nothing of the session.
LEMMA ThrowAwayKeeps ==
    ASSUME IInv, ThrowAway
    PROVE  IInv'
<1>1. /\ today' = today /\ running' = FALSE /\ book' = book /\ work' = book /\ fills' = fills
      /\ orders' = <<>>
      BY DEF ThrowAway
<1>2. TypeOK'
  <2>1. <<>> \in Seq(Order) /\ today \in 0 .. LastDay
        BY IInvFacts
  <2> QED  BY <1>1, <2>1, IInvFacts DEF TypeOK
<1>3. GoodAccount(book, book.last)
      BY IInvFacts
<1>4. /\ GoodAccount(book, book.last)' /\ GoodAccount(work, WorkDay)'
      BY <1>1, <1>3 DEF WorkDay, GoodAccount, LotsMatch
<1> QED  BY <1>1, <1>2, <1>4 DEF IInv

\* What the head order does to the working copy.
LEMMA AfterOrderKeeps ==
    ASSUME IInv, running, orders # <<>>, NEW price \in Prices, NEW cap \in Caps
    PROVE  Keeps(work, AfterOrder(Head(orders), price, cap), today)
<1> DEFINE o == Head(orders)
           quantity == Smaller(o.quantity, cap)
           a == AfterOrder(o, price, cap)
<1>1. o \in Order /\ price \in Nat /\ cap \in Nat
      BY IInvFacts, ExecutionAssumption DEF ExecutionAssumption
<1>2. GoodAccount(work, today) /\ today \in Nat /\ work \in Account
      BY IInvFacts
<1>3. o.symbol \in Symbols /\ o.side \in {"buy", "sell"} /\ o.quantity \in Nat \ {0}
      BY <1>1 DEF Order
<1> HIDE DEF o
<1>4. CASE Unfillable(o, price, cap)
  <2>1. a = work
        BY <1>4 DEF AfterOrder
  <2>2. ASSUME NEW z PROVE BoughtOn(work, z, today) <= BoughtOn(work, z, today)
    <3>1. work.lots \in Seq(SettlementLot)
          BY <1>2, AccountFields
    <3>2. BoughtOn(work, z, today) \in Nat
          BY <3>1, SharesType DEF BoughtOn
    <3> QED  BY <3>2
  <2> HIDE DEF a
  <2> QED  BY <1>2, <2>1, <2>2 DEF a, o, Keeps
<1>5. CASE ~ Unfillable(o, price, cap)
  <2>1. quantity \in Nat \ {0} /\ quantity <= o.quantity
        BY <1>1, <1>3, <1>5 DEF Unfillable, Untradable, Smaller
  <2>2. CASE o.side = "buy"
    <3>1. a = Bought(work, o.symbol, quantity, price, today)
          BY <1>5, <2>2 DEF AfterOrder
    <3> HIDE DEF a, quantity
    <3>2. Keeps(work, a, today)
          BY <1>1, <1>2, <1>3, <2>1, <3>1, BuyKeeps
    <3> QED  BY <3>2 DEF a, o
  <2>3. CASE o.side = "sell"
    <3>1. a = Sold(work, o.symbol, quantity, price, today)
          BY <1>5, <2>3 DEF AfterOrder
    <3>2. o.quantity <= Sellable(work.lots, o.symbol, today)
      <4>1. work.lots \in Seq(SettlementLot)
            BY <1>2, AccountFields
      <4>2. Sellable(work.lots, o.symbol, today) \in Nat
            BY <4>1, SharesType DEF Sellable
      <4> QED  BY <1>3, <1>5, <2>3, <4>2 DEF Unfillable
    <3>3. quantity <= Sellable(work.lots, o.symbol, today)
      <4>1. work.lots \in Seq(SettlementLot)
            BY <1>2, AccountFields
      <4>2. Sellable(work.lots, o.symbol, today) \in Nat
            BY <4>1, SharesType DEF Sellable
      <4> HIDE DEF quantity
      <4> QED  BY <1>3, <2>1, <3>2, <4>2
    <3> HIDE DEF a, quantity
    <3>4. Keeps(work, a, today)
          BY <1>1, <1>2, <1>3, <2>1, <3>1, <3>3, SellKeeps
    <3> QED  BY <3>4 DEF a, o
  <2> QED  BY <1>3, <2>2, <2>3
<1> QED  BY <1>4, <1>5

\* Noting the id of an order changes neither the cash nor the lots.
LEMMA SeenKeeps ==
    ASSUME NEW a, NEW t, GoodAccount(a, t), NEW id \in Nat \X Symbols \X {"buy", "sell"} \X Nat
    PROVE  /\ GoodAccount([a EXCEPT !.seen = @ \cup {id}], t)
           /\ [a EXCEPT !.seen = @ \cup {id}].cash = a.cash
           /\ [a EXCEPT !.seen = @ \cup {id}].lots = a.lots
<1> DEFINE b == [a EXCEPT !.seen = @ \cup {id}]
<1>1. a \in Account
      BY DEF GoodAccount
<1>2. b.cash = a.cash /\ b.lots = a.lots /\ b.position = a.position
      BY <1>1 DEF Account
<1>3. b \in Account
      BY <1>1 DEF Account
<1> HIDE DEF b
<1>4. GoodAccount(b, t)
      BY <1>2, <1>3 DEF GoodAccount, LotsMatch
<1> QED  BY <1>2, <1>4 DEF b

\* A date, like an id, is noted without touching the rest.
LEMMA DatedKeeps ==
    ASSUME NEW a, NEW t, GoodAccount(a, t), NEW d \in Nat
    PROVE  /\ GoodAccount([a EXCEPT !.last = d], t)
           /\ [a EXCEPT !.last = d].cash = a.cash
           /\ [a EXCEPT !.last = d].lots = a.lots
           /\ [a EXCEPT !.last = d].last = d
<1> DEFINE b == [a EXCEPT !.last = d]
<1>1. a \in Account
      BY DEF GoodAccount
<1>2. b.cash = a.cash /\ b.lots = a.lots /\ b.position = a.position /\ b.last = d
      BY <1>1 DEF Account
<1>3. b \in Account
      BY <1>1 DEF Account
<1> HIDE DEF b
<1>4. GoodAccount(b, t)
      BY <1>2, <1>3 DEF GoodAccount, LotsMatch
<1> QED  BY <1>2, <1>4 DEF b

LEMMA ExecuteOrderKeeps ==
    ASSUME IInv, NEW price \in Prices, NEW cap \in Caps, ExecuteOrder(price, cap)
    PROVE  IInv'
<1> DEFINE a == AfterOrder(Head(orders), price, cap)
           id == OrderId(Head(orders))
           b == [a EXCEPT !.seen = @ \cup {id}]
<1>1. CASE ~ Consistent(a)
  <2>1. ThrowAway
        BY <1>1 DEF ExecuteOrder
  <2> QED  BY <2>1, ThrowAwayKeeps
<1>2. CASE Consistent(a)
  <2>1. /\ running /\ orders # <<>>
        /\ work' = b /\ orders' = Tail(orders)
        /\ UNCHANGED <<today, book, running, fills>>
        BY <1>2 DEF ExecuteOrder
  <2>2. GoodAccount(a, today)
        BY <2>1, AfterOrderKeeps DEF Keeps
  <2>3. id \in Nat \X Symbols \X {"buy", "sell"} \X Nat
    <3>1. Head(orders) \in Order
          BY <2>1, IInvFacts
    <3> QED  BY <3>1, IInvFacts DEF OrderId, Order
  <2> HIDE DEF a, id
  <2>4. GoodAccount(b, today) /\ b.cash = a.cash
        BY <2>2, <2>3, SeenKeeps
  <2> HIDE DEF b
  <2>5. b.cash >= 0
        BY <1>2, <2>4 DEF Consistent
  <2>6. TypeOK'
    <3>1. b \in Account
          BY <2>4 DEF GoodAccount
    <3>2. Tail(orders) \in Seq(Order)
          BY <2>1, IInvFacts
    <3> QED  BY <2>1, <3>1, <3>2, IInvFacts DEF TypeOK
  <2>7. GoodAccount(book, book.last)' /\ GoodAccount(work, WorkDay)'
        BY <2>1, <2>4, IInvFacts DEF WorkDay, GoodAccount, LotsMatch
  <2>8. book.cash >= 0 /\ today > book.last
        BY <2>1 DEF IInv
  <2> QED  BY <2>1, <2>5, <2>6, <2>7, <2>8 DEF IInv
<1> QED  BY <1>1, <1>2

LEMMA EndSessionKeeps ==
    ASSUME IInv, EndSession
    PROVE  IInv'
<1> DEFINE b == [work EXCEPT !.last = today]
<1>1. CASE ~ (LotsMatch(work) /\ Consistent(work))
  <2>1. ThrowAway
        BY <1>1 DEF EndSession
  <2> QED  BY <2>1, ThrowAwayKeeps
<1>2. CASE LotsMatch(work) /\ Consistent(work)
  <2>1. /\ running /\ orders = <<>>
        /\ book' = b /\ work' = b /\ running' = FALSE
        /\ UNCHANGED <<today, orders, fills>>
        BY <1>2 DEF EndSession
  <2>2. GoodAccount(b, today) /\ b.cash = work.cash /\ b.last = today
        BY <2>1, IInvFacts, DatedKeeps
  <2> HIDE DEF b
  <2>3. b.cash >= 0
        BY <1>2, <2>2 DEF Consistent
  <2>4. TypeOK'
    <3>1. b \in Account
          BY <2>2 DEF GoodAccount
    <3>2. <<>> \in Seq(Order) /\ today \in 0 .. LastDay
          BY IInvFacts
    <3> QED  BY <2>1, <3>1, <3>2, IInvFacts DEF TypeOK
  <2>5. GoodAccount(book, book.last)' /\ GoodAccount(work, WorkDay)'
        BY <2>1, <2>2 DEF WorkDay, GoodAccount, LotsMatch
  <2> QED  BY <2>1, <2>3, <2>4, <2>5 DEF IInv
<1> QED  BY <1>1, <1>2

\* A fill that leaves a good account, dated t, and pays for itself is saved.
LEMMA SaveKeeps ==
    ASSUME IInv, NEW t \in Nat, FillPossible(t), NEW a, GoodAccount(a, t), a.cash >= 0, Save(a, t)
    PROVE  IInv'
<1> DEFINE b == [a EXCEPT !.last = t]
<1>1. /\ ~ running /\ fills < MaxFills
      /\ book' = b /\ work' = b /\ fills' = fills + 1
      /\ UNCHANGED <<today, orders, running>>
      BY DEF FillPossible, Save
<1>2. GoodAccount(b, t) /\ b.cash = a.cash /\ b.last = t
      BY DatedKeeps
<1> HIDE DEF b
<1>3. TypeOK'
  <2>1. b \in Account
        BY <1>2 DEF GoodAccount
  <2>2. fills + 1 \in 0 .. MaxFills
        BY <1>1, IInvFacts, ExecutionAssumption DEF ExecutionAssumption
  <2> QED  BY <1>1, <2>1, <2>2, IInvFacts DEF TypeOK
<1>4. GoodAccount(book, book.last)' /\ GoodAccount(work, WorkDay)'
      BY <1>1, <1>2 DEF WorkDay, GoodAccount, LotsMatch
<1> QED  BY <1>1, <1>2, <1>3, <1>4 DEF IInv

LEMMA ManualFills ==
    ASSUME IInv, NEW t \in 1 .. LastDay, NEW s \in Symbols, NEW quantity \in BoardLots,
           NEW price \in Prices
    PROVE  /\ t \in Nat /\ quantity \in Nat \ {0} /\ price \in Nat
           /\ FillPossible(t) => GoodAccount(book, t) /\ work = book
<1>1. t \in Nat /\ quantity \in Nat \ {0} /\ price \in Nat
      BY BoardLotsType, IInvFacts, ExecutionAssumption DEF ExecutionAssumption
<1>2. ASSUME FillPossible(t) PROVE GoodAccount(book, t) /\ work = book
  <2>1. ~ running /\ t >= book.last
        BY <1>2 DEF FillPossible
  <2> QED  BY <1>1, <2>1, IInvFacts, LaterIsGood
<1> QED  BY <1>1, <1>2

LEMMA ManualBuyKeeps ==
    ASSUME IInv, NEW t \in 1 .. LastDay, NEW s \in Symbols, NEW quantity \in BoardLots,
           NEW price \in Prices, ManualBuy(t, s, quantity, price)
    PROVE  IInv'
<1> DEFINE a == Bought(book, s, quantity, price, t)
<1>1. /\ FillPossible(t) /\ BuyCost(quantity, price) <= book.cash
      /\ Save(a, t)
      BY DEF ManualBuy
<1>2. t \in Nat /\ quantity \in Nat \ {0} /\ price \in Nat /\ GoodAccount(book, t)
      BY <1>1, ManualFills
<1>3. Keeps(book, a, t) /\ a.cash = book.cash - BuyCost(quantity, price)
      BY <1>2, BuyKeeps
<1> HIDE DEF a
<1>4. a.cash >= 0
  <2>1. BuyCost(quantity, price) \in Nat
        BY <1>2, MoneyTypes
  <2>2. book.cash \in Int
        BY IInvFacts
  <2> QED  BY <1>1, <1>3, <2>1, <2>2
<1> QED  BY <1>1, <1>2, <1>3, <1>4, SaveKeeps DEF Keeps

LEMMA ManualSellKeeps ==
    ASSUME IInv, NEW t \in 1 .. LastDay, NEW s \in Symbols, NEW quantity \in BoardLots,
           NEW price \in Prices, ManualSell(t, s, quantity, price)
    PROVE  IInv'
<1> DEFINE a == Sold(book, s, quantity, price, t)
<1>1. /\ FillPossible(t) /\ quantity <= Sellable(book.lots, s, t)
      /\ Save(a, t)
      BY DEF ManualSell
<1>2. t \in Nat /\ quantity \in Nat \ {0} /\ price \in Nat /\ GoodAccount(book, t)
      BY <1>1, ManualFills
<1>3. Keeps(book, a, t) /\ a.cash = book.cash + SellProceeds(quantity, price)
      BY <1>1, <1>2, SellKeeps
<1> HIDE DEF a
<1>4. a.cash >= 0
  <2>1. SellProceeds(quantity, price) >= 0 /\ SellProceeds(quantity, price) \in Int
        BY <1>2, LotsPayTheirFees, MoneyTypes DEF LotsPayTheirFees
  <2>2. book.cash >= 0 /\ book.cash \in Int
        BY IInvFacts DEF IInv
  <2> QED  BY <1>3, <2>1, <2>2
<1> QED  BY <1>1, <1>2, <1>3, <1>4, SaveKeeps DEF Keeps

LEMMA NextIInv == IInv /\ [Next]_vars => IInv'
<1> SUFFICES ASSUME IInv, [Next]_vars PROVE IInv'
    OBVIOUS
<1>1. ASSUME NEW t \in 1 .. LastDay, StartSession(t) PROVE IInv'
      BY <1>1, StartSessionKeeps
<1>2. ASSUME NEW price \in Prices, NEW cap \in Caps, ExecuteOrder(price, cap) PROVE IInv'
      BY <1>2, ExecuteOrderKeeps
<1>3. CASE EndSession
      BY <1>3, EndSessionKeeps
<1>4. ASSUME NEW t \in 1 .. LastDay, NEW s \in Symbols, NEW q \in BoardLots,
             NEW price \in Prices, ManualBuy(t, s, q, price)
      PROVE  IInv'
      BY <1>4, ManualBuyKeeps
<1>5. ASSUME NEW t \in 1 .. LastDay, NEW s \in Symbols, NEW q \in BoardLots,
             NEW price \in Prices, ManualSell(t, s, q, price)
      PROVE  IInv'
      BY <1>5, ManualSellKeeps
<1>6. CASE UNCHANGED vars
      BY <1>6 DEF vars, IInv, TypeOK, WorkDay, GoodAccount, LotsMatch
<1> QED  BY <1>1, <1>2, <1>3, <1>4, <1>5, <1>6 DEF Next

THEOREM Invariance == Spec => []IInv
<1>1. Init => IInv
      BY InitIInv
<1>2. IInv /\ [Next]_vars => IInv'
      BY NextIInv
<1> QED  BY <1>1, <1>2, PTL DEF Spec

-----------------------------------------------------------------------------
(***************************************************************************)
(* Theorems.                                                               *)
(***************************************************************************)
\* The types of the account and of a session's orders (TypeOK).
THEOREM TypeCorrect == Spec => []TypeOK
<1>1. IInv => TypeOK
      BY DEF IInv
<1> QED  BY <1>1, Invariance, PTL

\* Lots and positions are two books of the same shares, whatever the partial fills, the
\* lots a sell consumes and the sessions that are thrown away: the reconciliation of
\* run_daily_paper_loop never meets a difference.
THEOREM BooksAlwaysAgree == Spec => []BooksAgree
<1>1. IInv => BooksAgree
      BY DEF IInv, GoodAccount, BooksAgree
<1> QED  BY <1>1, Invariance, PTL

\* The saved cash is never negative.
THEOREM CashIsNeverNegative == Spec => []CashNeverNegative
<1>1. IInv => CashNeverNegative
      BY DEF IInv, CashNeverNegative
<1> QED  BY <1>1, Invariance, PTL

\* Lots stay in date order, so a sell from the front sells settled shares.
THEOREM OldestAreFirst == Spec => []OldestFirst
<1>1. IInv => OldestFirst
      BY DEF IInv, GoodAccount, OldestFirst, Sorted
<1> QED  BY <1>1, Invariance, PTL

LEMMA SessionSellsSettled ==
    ASSUME IInv, [Next]_vars, running, running', NEW s \in Symbols
    PROVE  BoughtOn(work, s, today) <= BoughtOn(work', s, today)
<1>1. \A z : BoughtOn(work, z, today) <= BoughtOn(work, z, today)
  <2> SUFFICES ASSUME NEW z PROVE BoughtOn(work, z, today) <= BoughtOn(work, z, today)
      OBVIOUS
  <2>1. work.lots \in Seq(SettlementLot)
        BY IInvFacts, AccountFields
  <2>2. BoughtOn(work, z, today) \in Nat
        BY <2>1, SharesType DEF BoughtOn
  <2> QED  BY <2>2
<1>2. ASSUME NEW price \in Prices, NEW cap \in Caps, ExecuteOrder(price, cap)
      PROVE  BoughtOn(work, s, today) <= BoughtOn(work', s, today)
  <2> DEFINE a == AfterOrder(Head(orders), price, cap)
             id == OrderId(Head(orders))
             b == [a EXCEPT !.seen = @ \cup {id}]
  <2>1. orders # <<>> /\ (ThrowAway \/ work' = b)
        BY <1>2 DEF ExecuteOrder
  <2>2. ~ ThrowAway
        BY DEF ThrowAway
  <2>3. Keeps(work, a, today)
        BY <2>1, AfterOrderKeeps
  <2>4. a \in Account
        BY <2>3 DEF Keeps, GoodAccount
  <2> HIDE DEF a
  <2>5. b.lots = a.lots
        BY <2>4 DEF Account
  <2> HIDE DEF b
  <2>6. BoughtOn(work', s, today) = BoughtOn(a, s, today)
        BY <2>1, <2>2, <2>5 DEF BoughtOn
  <2> QED  BY <2>3, <2>6 DEF Keeps
<1>3. CASE UNCHANGED vars
      BY <1>1, <1>3 DEF vars
<1>4. ASSUME NEW t \in 1 .. LastDay PROVE ~ StartSession(t)
      BY DEF StartSession
<1>5. CASE EndSession
  <2>1. running' = FALSE
        BY <1>5 DEF EndSession, ThrowAway
  <2> QED  BY <2>1
<1>6. ASSUME NEW t \in 1 .. LastDay, NEW z \in Symbols, NEW q \in BoardLots,
             NEW price \in Prices
      PROVE  ~ ManualBuy(t, z, q, price) /\ ~ ManualSell(t, z, q, price)
      BY DEF ManualBuy, ManualSell, FillPossible
<1> QED  BY <1>2, <1>3, <1>4, <1>5, <1>6 DEF Next

LEMMA FillSellsSettled ==
    ASSUME IInv, [Next]_vars, fills' > fills, NEW s \in Symbols
    PROVE  BoughtOn(book, s, book'.last) <= BoughtOn(book', s, book'.last)
<1>1. fills' # fills
      BY IInvFacts
<1>2. ASSUME NEW t \in Nat, NEW a, Keeps(book, a, t), Save(a, t)
      PROVE  BoughtOn(book, s, book'.last) <= BoughtOn(book', s, book'.last)
  <2> DEFINE b == [a EXCEPT !.last = t]
  <2>1. book' = b
        BY <1>2 DEF Save
  <2>2. b.last = t /\ b.lots = a.lots
        BY <1>2, DatedKeeps DEF Keeps
  <2> HIDE DEF b
  <2>3. BoughtOn(book', s, t) = BoughtOn(a, s, t)
        BY <2>1, <2>2 DEF BoughtOn
  <2> QED  BY <1>2, <2>1, <2>2, <2>3 DEF Keeps
<1>3. ASSUME NEW t \in 1 .. LastDay, NEW z \in Symbols, NEW q \in BoardLots,
             NEW price \in Prices, ManualBuy(t, z, q, price)
      PROVE  BoughtOn(book, s, book'.last) <= BoughtOn(book', s, book'.last)
  <2> DEFINE a == Bought(book, z, q, price, t)
  <2>1. FillPossible(t) /\ Save(a, t)
        BY <1>3 DEF ManualBuy
  <2>2. t \in Nat /\ q \in Nat \ {0} /\ price \in Nat /\ GoodAccount(book, t)
        BY <2>1, ManualFills
  <2>3. Keeps(book, a, t)
        BY <2>2, BuyKeeps
  <2> HIDE DEF a
  <2> QED  BY <1>2, <2>1, <2>2, <2>3
<1>4. ASSUME NEW t \in 1 .. LastDay, NEW z \in Symbols, NEW q \in BoardLots,
             NEW price \in Prices, ManualSell(t, z, q, price)
      PROVE  BoughtOn(book, s, book'.last) <= BoughtOn(book', s, book'.last)
  <2> DEFINE a == Sold(book, z, q, price, t)
  <2>1. FillPossible(t) /\ Save(a, t) /\ q <= Sellable(book.lots, z, t)
        BY <1>4 DEF ManualSell
  <2>2. t \in Nat /\ q \in Nat \ {0} /\ price \in Nat /\ GoodAccount(book, t)
        BY <2>1, ManualFills
  <2>3. Keeps(book, a, t)
        BY <2>1, <2>2, SellKeeps
  <2> HIDE DEF a
  <2> QED  BY <1>2, <2>1, <2>2, <2>3
<1>5. CASE UNCHANGED vars
      BY <1>1, <1>5 DEF vars
<1>6. ASSUME NEW t \in 1 .. LastDay PROVE ~ StartSession(t)
      BY <1>1 DEF StartSession
<1>7. ~ ThrowAway
      BY <1>1 DEF ThrowAway
<1>8. ~ EndSession
      BY <1>1, <1>7 DEF EndSession
<1>9. ASSUME NEW price \in Prices, NEW cap \in Caps PROVE ~ ExecuteOrder(price, cap)
      BY <1>1, <1>7 DEF ExecuteOrder
<1> QED  BY <1>3, <1>4, <1>5, <1>6, <1>8, <1>9 DEF Next

\* T+1: no step sells shares of its own trade date, in a session or through a fill.
THEOREM NothingIsSoldSameDay == Spec => NoSameDaySale
<1>1. ASSUME IInv, [Next]_vars
      PROVE  [/\ running /\ running' =>
                    \A s \in Symbols : BoughtOn(work, s, today) <= BoughtOn(work', s, today)
              /\ fills' > fills =>
                    \A s \in Symbols :
                       BoughtOn(book, s, book'.last) <= BoughtOn(book', s, book'.last)]_vars
      BY <1>1, SessionSellsSettled, FillSellsSettled
<1> QED  BY <1>1, Invariance, PTL DEF Spec, NoSameDaySale

LEMMA QuotientsGrow ==
    ASSUME NEW m \in Nat, NEW n \in Nat, m <= n, NEW d \in Nat \ {0}
    PROVE  m \div d <= n \div d
OBVIOUS

LEMMA ProductsGrow ==
    ASSUME NEW m \in Nat, NEW n \in Nat, m <= n, NEW d \in Nat
    PROVE  m * d <= n * d
<1>1. PICK k \in Nat : n = m + k
  <2>1. n - m \in Nat /\ n = m + (n - m)
        OBVIOUS
  <2> QED  BY <2>1
<1>2. n * d = m * d + k * d
      BY <1>1
<1>3. k * d >= 0 /\ m * d \in Int /\ k * d \in Int
      BY <1>1
<1> QED  BY <1>2, <1>3

\* What is held back for a whole order covers a part of it.
LEMMA ReserveCovers ==
    ASSUME NEW m \in Nat, NEW n \in Nat, m <= n, NEW price \in Nat
    PROVE  BuyCost(m, price) <= Reserve(n, price)
<1> DEFINE g == m * price
           h == n * price
<1>1. g \in Nat /\ h \in Nat
      OBVIOUS
<1>2. g <= h
      BY ProductsGrow
<1>3. FeeDivisor \in Nat \ {0} /\ MinFee \in Nat
      BY ExecutionAssumption DEF ExecutionAssumption
<1> HIDE DEF g, h
<1>4. g \div FeeDivisor <= h \div FeeDivisor
      BY <1>1, <1>2, <1>3, QuotientsGrow
<1>5. g \div FeeDivisor \in Nat /\ h \div FeeDivisor \in Nat
      BY <1>1, <1>3
<1>6. Commission(g) <= Commission(h) /\ Commission(g) \in Nat /\ Commission(h) \in Nat
      BY <1>3, <1>4, <1>5 DEF Commission, Larger
<1>7. g + Commission(g) <= h + Commission(h)
      BY <1>1, <1>2, <1>6
<1> QED  BY <1>7 DEF BuyCost, Reserve, g, h

\* A session that is thrown away meets a sell whose fees are more than it brings and the
\* cash holds: the reserve checked before a buy covers what a part of the buy takes, and the
\* reconciliation at the end finds no difference.
THEOREM OnlySellsThrowSessionsAway == Spec => OnlySellsAbort
<1>1. ASSUME IInv, [Next]_vars, running, ~ running', book' = book
      PROVE  orders # <<>> /\ Head(orders).side = "sell"
  <2>1. ASSUME NEW price \in Prices, NEW cap \in Caps, ExecuteOrder(price, cap)
        PROVE  orders # <<>> /\ Head(orders).side = "sell"
    <3> DEFINE o == Head(orders)
               quantity == Smaller(o.quantity, cap)
               a == AfterOrder(o, price, cap)
    <3>1. orders # <<>> /\ ~ Consistent(a)
          BY <1>1, <2>1 DEF ExecuteOrder
    <3>2. /\ o.symbol \in Symbols /\ o.side \in {"buy", "sell"} /\ o.quantity \in Nat \ {0}
          /\ price \in Nat /\ cap \in Nat
      <4>1. orders \in Seq(Order)
            BY <1>1, IInvFacts
      <4>2. o \in Order
            BY <3>1, <4>1
      <4> QED  BY <4>2, ExecutionAssumption DEF Order, ExecutionAssumption
    <3>3. Keeps(work, a, today)
          BY <1>1, <3>1, AfterOrderKeeps
    <3>4. \A s \in Symbols : a.position[s] >= 0
          BY <3>3, PositionsAreShares DEF Keeps, GoodAccount
    <3>5. ~ (a.cash >= 0)
          BY <3>1, <3>4 DEF Consistent
    <3>6. work.cash >= 0 /\ work.cash \in Int
          BY <1>1, IInvFacts DEF IInv
    <3>7. ASSUME o.side = "buy" PROVE FALSE
      <4>1. CASE Unfillable(o, price, cap)
        <5>1. a = work
              BY <4>1 DEF AfterOrder
        <5> HIDE DEF a
        <5> QED  BY <3>5, <3>6, <5>1
      <4>2. CASE ~ Unfillable(o, price, cap)
        <5>1. quantity \in Nat \ {0} /\ quantity <= o.quantity
              BY <3>2, <4>2 DEF Unfillable, Untradable, Smaller
        <5>2. a = Bought(work, o.symbol, quantity, price, today)
              BY <3>7, <4>2 DEF AfterOrder
        <5>3. Reserve(o.quantity, price) \in Int /\ Reserve(o.quantity, price) <= work.cash
          <6>1. ~ (Reserve(o.quantity, price) > work.cash)
                BY <3>7, <4>2 DEF Unfillable
          <6>2. Reserve(o.quantity, price) = BuyCost(o.quantity, price)
                BY DEF Reserve, BuyCost
          <6>3. Reserve(o.quantity, price) \in Int
            <7>1. o.quantity \in Nat /\ price \in Nat
                  BY <3>2
            <7> HIDE DEF o
            <7>2. BuyCost(o.quantity, price) \in Nat
                  BY <7>1, MoneyTypes
            <7> QED  BY <6>2, <7>2
          <6> QED  BY <3>6, <6>1, <6>3
        <5>4. GoodAccount(work, today) /\ today \in Nat
              BY <1>1, IInvFacts
        <5> HIDE DEF a, quantity
        <5>5. a.cash = work.cash - BuyCost(quantity, price)
              BY <3>2, <5>1, <5>2, <5>4, BuyKeeps
        <5>6. BuyCost(quantity, price) <= Reserve(o.quantity, price)
              BY <3>2, <5>1, ReserveCovers
        <5>7. BuyCost(quantity, price) \in Int
              BY <3>2, <5>1, MoneyTypes
        <5> QED  BY <3>5, <3>6, <5>3, <5>5, <5>6, <5>7
      <4> QED  BY <4>1, <4>2
    <3> QED  BY <3>1, <3>2, <3>7
  <2>2. ASSUME EndSession PROVE FALSE
    <3>1. LotsMatch(work) /\ work.cash >= 0 /\ work \in Account
          BY <1>1, IInvFacts DEF IInv, GoodAccount
    <3>2. Consistent(work)
          BY <3>1, PositionsAreShares DEF Consistent
    <3>3. book' = [work EXCEPT !.last = today]
          BY <2>2, <3>1, <3>2 DEF EndSession
    <3>4. book'.last = today
          BY <3>1, <3>3 DEF Account
    <3>5. today > book.last /\ today \in Nat /\ book.last \in Nat
          BY <1>1, IInvFacts
    <3> QED  BY <1>1, <3>4, <3>5
  <2>3. ASSUME NEW t \in 1 .. LastDay PROVE ~ StartSession(t)
        BY <1>1 DEF StartSession
  <2>4. ASSUME NEW t \in 1 .. LastDay, NEW z \in Symbols, NEW q \in BoardLots,
               NEW price \in Prices
        PROVE  ~ ManualBuy(t, z, q, price) /\ ~ ManualSell(t, z, q, price)
        BY <1>1 DEF ManualBuy, ManualSell, FillPossible
  <2>5. ~ UNCHANGED vars
        BY <1>1 DEF vars
  <2> QED  BY <1>1, <2>1, <2>2, <2>3, <2>4, <2>5 DEF Next
<1>2. IInv /\ [Next]_vars
        => [running /\ ~ running' /\ book' = book
              => orders # <<>> /\ Head(orders).side = "sell"]_vars
      BY <1>1
<1> QED  BY <1>2, Invariance, PTL DEF Spec, OnlySellsAbort
=============================================================================
