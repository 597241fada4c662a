--------------------------- MODULE MatchingProofs ----------------------------
(***************************************************************************)
(* Machine-checked facts about the matching engine, for every set of       *)
(* orders and every list of reveals.                                       *)
(***************************************************************************)
EXTENDS MatchingNodes, Sums, SequenceTheorems, FiniteSetTheorems, TLAPS

\* The books list buys and sells of one symbol that has a market.
BooksOK ==
  /\ \A i \in DOMAIN buys : /\ Fields[buys[i]].side = "Buy"
                            /\ Fields[buys[i]].symbol \in DOMAIN MinQuantity
  /\ \A j \in DOMAIN sells : /\ Fields[sells[j]].side = "Sell"
                             /\ Fields[sells[j]].symbol \in DOMAIN MinQuantity
  /\ \A i \in DOMAIN buys, j \in DOMAIN sells :
       Fields[buys[i]].symbol = Fields[sells[j]].symbol

\* The sum of two prices does not wrap around.
PricesFit == \A o \in Order : 2 * Price(o) < Modulus

MatchingInv == MatchingTypeOK /\ BooksOK

\* The fields of a revealed order.
LEMMA OrderTypes ==
  ASSUME NEW o \in Order
  PROVE  /\ Price(o) \in Nat /\ Quantity(o) \in Nat /\ Owner(o) \in Nat
         /\ Fields[o].symbol \in Symbol
BY MatchingAssumption DEF OrderFields, Price, Quantity, Owner

\* What an order of a book still offers is a quantity.
LEMMA RemainingType ==
  ASSUME NEW book \in Seq(Order), NEW i PROVE remaining(book, i) \in Nat
<1>1. CASE i \in DOMAIN book
  <2>1. book[i] \in Order
    BY <1>1, ElementOfSeq
  <2> QED BY <1>1, <2>1, OrderTypes DEF remaining
<1>2. CASE i \notin DOMAIN book
  BY <1>2 DEF remaining
<1> QED BY <1>1, <1>2

\* No order that is revealed once occurs twice in a book.
OnceIn(book) ==
  \A i, j \in DOMAIN book : book[i] = book[j] /\ RevealedOnce(book[i]) => i = j

\* Without duplicates every order is revealed once.
LEMMA AllOnce == ASSUME DistinctReveals PROVE \A o : RevealedOnce(o)
BY DEF DistinctReveals, RevealedOnce

\* A sorted book lists exactly the orders found at the given positions, each
\* once if it was revealed once, none before an order that goes first.
LEMMA SortedBook ==
  ASSUME arrival \in Seq(Order), NEW sym, NEW side,
         NEW b \in sort_orders(sym, side)
  PROVE  /\ b \in Seq(Order)
         /\ \A i \in DOMAIN b : /\ Fields[b[i]].symbol = sym
                                /\ Fields[b[i]].side = side
         /\ \A i \in DOMAIN b : \E p \in DOMAIN arrival : b[i] = arrival[p]
         /\ \A p \in Positions(sym, side) : \E i \in DOMAIN b : b[i] = arrival[p]
         /\ OnceIn(b)
         /\ \A k, l \in DOMAIN b : k < l => ~ Before(side, b[l], b[k])
<1> DEFINE P == Positions(sym, side)
           n == Cardinality(P)
<1>1. P \subseteq DOMAIN arrival
      /\ \A i \in P : Fields[arrival[i]].symbol = sym /\ Fields[arrival[i]].side = side
  BY DEF Positions
<1>2. n \in Nat
  <2>1. DOMAIN arrival = 1..Len(arrival) /\ Len(arrival) \in Nat
    BY LenProperties
  <2>2. IsFiniteSet(1..Len(arrival))
    BY <2>1, FS_Interval
  <2>3. IsFiniteSet(P)
    BY <1>1, <2>1, <2>2, FS_Subset
  <2> QED BY <2>3, FS_CardinalityType
<1>3. PICK f \in Bijection(1..n, P) :
        /\ b = [k \in 1..n |-> arrival[f[k]]]
        /\ \A k, l \in 1..n : k < l => ~ Before(side, arrival[f[l]], arrival[f[k]])
  BY DEF sort_orders
<1> HIDE DEF P, n
<1>4. f \in [1..n -> P] /\ \A k, l \in 1..n : f[k] = f[l] => k = l
  BY <1>3 DEF Bijection, Injection, IsInjective
<1>5. \A p \in P : \E k \in 1..n : f[k] = p
  BY <1>3 DEF Bijection, Surjection
<1>6. \A k \in 1..n : f[k] \in DOMAIN arrival /\ f[k] \in P
  BY <1>1, <1>4
<1>7. \A i \in DOMAIN arrival : arrival[i] \in Order
  BY ElementOfSeq, LenProperties
<1>8. b \in [1..n -> Order]
  BY <1>3, <1>6, <1>7
<1>9. \A p \in P : \E k \in DOMAIN b : b[k] = arrival[p]
  BY <1>3, <1>5
<1>10. OnceIn(b)
  BY <1>3, <1>4, <1>6 DEF RevealedOnce, OnceIn
<1>11. \A k, l \in DOMAIN b : k < l => ~ Before(side, b[l], b[k])
  BY <1>3
<1>12. b \in Seq(Order)
  BY <1>2, <1>8, SeqDef
<1>13. \A i \in DOMAIN b : /\ Fields[b[i]].symbol = sym /\ Fields[b[i]].side = side
                           /\ \E p \in DOMAIN arrival : b[i] = arrival[p]
  BY <1>1, <1>3, <1>6
<1> QED BY <1>9, <1>10, <1>11, <1>12, <1>13 DEF P

-----------------------------------------------------------------------------
\* The call starts without books.
LEMMA MatchingInitInv == Init => MatchingInv
<1> SUFFICES ASSUME Init PROVE MatchingInv
  OBVIOUS
<1>1. arrival \in Seq(Order)
  BY MatchingAssumption DEF Init
<1>2. todo \subseteq Symbol
  <2>1. \A i \in DOMAIN arrival : arrival[i] \in Order
    BY <1>1, ElementOfSeq, LenProperties
  <2> QED BY <2>1, OrderTypes DEF Init
<1>3. MatchingTypeOK
  BY <1>1, <1>2, EmptySeq DEF Init, MatchingTypeOK
<1>4. BooksOK
  BY DEF Init, BooksOK
<1> QED BY <1>3, <1>4 DEF MatchingInv

\* The orders at the two pointers of a crossing.
LEMMA CrossingOrders ==
  ASSUME MatchingInv, Crossing
  PROVE  /\ Buy \in Order /\ Sell \in Order
         /\ Fields[Buy].side = "Buy" /\ Fields[Sell].side = "Sell"
         /\ Fields[Buy].symbol = Fields[Sell].symbol
         /\ Fields[Buy].symbol \in DOMAIN MinQuantity
         /\ fill_qty \in Nat /\ fill_qty <= buy_remaining /\ fill_qty <= sell_remaining
<1>1. Buy \in Order /\ Sell \in Order
  BY ElementOfSeq, LenProperties DEF MatchingInv, MatchingTypeOK, Crossing, Buy, Sell
<1>2. fill_qty \in Nat /\ fill_qty <= buy_remaining /\ fill_qty <= sell_remaining
  BY DEF MatchingInv, MatchingTypeOK, fill_qty
<1> QED BY <1>1, <1>2 DEF MatchingInv, BooksOK, Crossing, Buy, Sell

\* The books of the next symbol.
LEMMA NextSymbolInv == MatchingInv /\ NextSymbol => MatchingInv'
<1> SUFFICES ASSUME MatchingInv, NextSymbol PROVE MatchingInv'
  OBVIOUS
<1>1. arrival \in Seq(Order) /\ todo \subseteq Symbol
  BY DEF MatchingInv, MatchingTypeOK
<1>2. PICK sym \in todo :
        /\ todo' = todo \ {sym}
        /\ IF sym \in DOMAIN MinQuantity
           THEN /\ buys' \in sort_orders(sym, "Buy")
                /\ sells' \in sort_orders(sym, "Sell")
           ELSE buys' = <<>> /\ sells' = <<>>
  BY DEF NextSymbol
<1>3. buys' \in Seq(Order) /\ sells' \in Seq(Order) /\ BooksOK'
  <2>1. CASE sym \in DOMAIN MinQuantity
    <3>1. /\ buys' \in Seq(Order)
          /\ \A i \in DOMAIN buys' : /\ Fields[buys'[i]].symbol = sym
                                     /\ Fields[buys'[i]].side = "Buy"
      BY <1>1, <1>2, <2>1, SortedBook
    <3>2. /\ sells' \in Seq(Order)
          /\ \A i \in DOMAIN sells' : /\ Fields[sells'[i]].symbol = sym
                                      /\ Fields[sells'[i]].side = "Sell"
      BY <1>1, <1>2, <2>1, SortedBook
    <3> QED BY <2>1, <3>1, <3>2 DEF BooksOK
  <2>2. CASE sym \notin DOMAIN MinQuantity
    BY <1>2, <2>2, EmptySeq DEF BooksOK
  <2> QED BY <2>1, <2>2
<1>4. buy_remaining' \in Nat /\ sell_remaining' \in Nat
  BY <1>3, RemainingType DEF NextSymbol
<1>5. MatchingTypeOK'
  BY <1>1, <1>2, <1>3, <1>4 DEF MatchingInv, MatchingTypeOK, NextSymbol
<1> QED BY <1>3, <1>5 DEF MatchingInv

\* An order is passed over.
LEMMA SkipInv == MatchingInv /\ (SkipSelf \/ SkipDust) => MatchingInv'
<1> SUFFICES ASSUME MatchingInv, SkipSelf \/ SkipDust PROVE MatchingInv'
  OBVIOUS
<1>1. UNCHANGED <<arrival, todo, buys, sells, matches>> /\ (advance_buy \/ advance_sell)
  BY DEF SkipSelf, SkipDust
<1>2. /\ remaining(buys, buy_idx + 1) \in Nat
      /\ remaining(sells, sell_idx + 1) \in Nat
  BY RemainingType DEF MatchingInv, MatchingTypeOK
<1>3. MatchingTypeOK'
  BY <1>1, <1>2 DEF MatchingInv, MatchingTypeOK, advance_buy, advance_sell
<1>4. BooksOK'
  BY <1>1 DEF MatchingInv, BooksOK
<1> QED BY <1>3, <1>4 DEF MatchingInv

\* A fill appends one match of the two orders at the pointers.
LEMMA FillAppends ==
  ASSUME MatchingInv, Fill
  PROVE  /\ matches' \in Seq(MatchRecord)
         /\ Len(matches) \in Nat /\ DOMAIN matches = 1..Len(matches)
         /\ DOMAIN matches' = DOMAIN matches \union {Len(matches) + 1}
         /\ \A i \in DOMAIN matches : matches'[i] = matches[i]
         /\ matches'[Len(matches) + 1] =
              [buyer |-> Buy, seller |-> Sell, fill |-> fill_qty,
               price |-> settlement_price, gas_payer |-> determine_gas_payer(Buy, Sell)]
<1> DEFINE m == [buyer |-> Buy, seller |-> Sell, fill |-> fill_qty,
                 price |-> settlement_price, gas_payer |-> determine_gas_payer(Buy, Sell)]
<1>1. Crossing /\ matches' = Append(matches, m)
  BY DEF Fill
<1>2. Buy \in Order /\ Sell \in Order /\ fill_qty \in Nat
  BY <1>1, CrossingOrders
<1>3. /\ Price(Buy) \in Nat /\ Price(Sell) \in Nat
      /\ Owner(Buy) \in Nat /\ Owner(Sell) \in Nat
  BY <1>2, OrderTypes
<1>4. settlement_price \in Nat
  <2>1. (Price(Buy) + Price(Sell)) % Modulus \in Nat
    BY <1>3, MatchingAssumption
  <2> QED BY <2>1 DEF settlement_price
<1>5. determine_gas_payer(Buy, Sell) \in Nat
  BY <1>3 DEF determine_gas_payer
<1>6. m \in MatchRecord
  BY <1>2, <1>4, <1>5 DEF MatchRecord
<1>7. matches \in Seq(MatchRecord)
  BY DEF MatchingInv, MatchingTypeOK
<1> HIDE DEF m
<1>8. /\ Append(matches, m) \in Seq(MatchRecord)
      /\ Len(Append(matches, m)) = Len(matches) + 1
      /\ \A i \in 1..Len(matches) : Append(matches, m)[i] = matches[i]
      /\ Append(matches, m)[Len(matches) + 1] = m
  BY <1>6, <1>7, AppendProperties
<1>9. DOMAIN matches = 1..Len(matches) /\ Len(matches) \in Nat
  BY <1>7, LenProperties
<1>10. DOMAIN Append(matches, m) = 1..(Len(matches) + 1)
  BY <1>8, LenProperties
<1>11. matches'[Len(matches) + 1] = m
  BY <1>1, <1>8, Zenon
<1> QED BY <1>1, <1>8, <1>9, <1>10, <1>11 DEF m

\* A fill leaves quantities on both sides.
LEMMA FillInv == MatchingInv /\ Fill => MatchingInv'
<1> SUFFICES ASSUME MatchingInv, Fill PROVE MatchingInv'
  OBVIOUS
<1>1. Crossing /\ AfterFill /\ UNCHANGED <<arrival, todo, buys, sells>>
  BY DEF Fill
<1>2. fill_qty \in Nat /\ fill_qty <= buy_remaining /\ fill_qty <= sell_remaining
  BY <1>1, CrossingOrders
<1>3. /\ remaining(buys, buy_idx + 1) \in Nat
      /\ remaining(sells, sell_idx + 1) \in Nat
  BY RemainingType DEF MatchingInv, MatchingTypeOK
<1>4. /\ buy_remaining - fill_qty \in Nat /\ sell_remaining - fill_qty \in Nat
  BY <1>2 DEF MatchingInv, MatchingTypeOK
<1>5. matches' \in Seq(MatchRecord)
  BY FillAppends
<1>6. MatchingTypeOK'
  BY <1>1, <1>3, <1>4, <1>5 DEF MatchingInv, MatchingTypeOK, AfterFill
<1>7. BooksOK'
  BY <1>1 DEF MatchingInv, BooksOK
<1> QED BY <1>6, <1>7 DEF MatchingInv

\* Every turn of the loop keeps the books and the counters well formed.
LEMMA MatchingNextInv == MatchingInv /\ [Next]_matchVars => MatchingInv'
<1> SUFFICES ASSUME MatchingInv, [Next]_matchVars PROVE MatchingInv'
  OBVIOUS
<1>1. CASE UNCHANGED matchVars
  BY <1>1 DEF MatchingInv, MatchingTypeOK, BooksOK, matchVars
<1> QED BY <1>1, NextSymbolInv, SkipInv, FillInv DEF Next

\* The invariant holds in every reachable state.
LEMMA MatchingInvariant == Spec => []MatchingInv
BY MatchingInitInv, MatchingNextInv, PTL DEF Spec

\* Every reachable state of run_matching is well typed: no remaining quantity
\* ever becomes negative, whatever the reveals, also when prices wrap around.
THEOREM MatchingTypeCorrect == Spec => []MatchingTypeOK
<1>1. MatchingInv => MatchingTypeOK
  BY DEF MatchingInv
<1> QED BY <1>1, MatchingInvariant, PTL

-----------------------------------------------------------------------------
(* Every match is legal.                                                   *)

\* The midpoint of two crossing prices lies between them.
LEMMA Midpoint ==
  ASSUME NEW b \in Nat, NEW s \in Nat, b >= s, 2 * b < Modulus
  PROVE  ((b + s) % Modulus) \div 2 \in s..b
<1>1. b + s \in Nat /\ b + s < Modulus
  BY MatchingAssumption
<1>2. (b + s) % Modulus = b + s
  BY <1>1, MatchingAssumption
<1>3. (b + s) \div 2 \in s..b
  OBVIOUS
<1> QED BY <1>2, <1>3

\* The match a fill emits is legal.
LEMMA FillLegal ==
  ASSUME PricesFit, MatchingInv, FillsLegal, Fill PROVE FillsLegal'
<1>1. Crossing /\ ~ SelfTrade /\ fill_qty >= min_quantity
  BY DEF Fill
<1>2. /\ Buy \in Order /\ Sell \in Order
      /\ Fields[Buy].side = "Buy" /\ Fields[Sell].side = "Sell"
      /\ Fields[Buy].symbol = Fields[Sell].symbol
      /\ Fields[Buy].symbol \in DOMAIN MinQuantity
  BY <1>1, CrossingOrders
<1>3. Price(Buy) \in Nat /\ Price(Sell) \in Nat
  BY <1>2, OrderTypes
<1>4. settlement_price \in Price(Sell)..Price(Buy)
  <2>1. Price(Buy) >= Price(Sell) /\ 2 * Price(Buy) < Modulus
    BY <1>1, <1>2 DEF Crossing, PricesFit
  <2> QED BY <1>3, <2>1, Midpoint DEF settlement_price
<1>5. determine_gas_payer(Buy, Sell) \in {Owner(Buy), Owner(Sell)}
  BY DEF determine_gas_payer
<1>6. ASSUME NEW i \in DOMAIN matches'
      PROVE  LET r == matches'[i] IN
             /\ Fields[r.buyer].side = "Buy" /\ Fields[r.seller].side = "Sell"
             /\ Fields[r.buyer].symbol = Fields[r.seller].symbol
             /\ Fields[r.buyer].symbol \in DOMAIN MinQuantity
             /\ r.fill >= MinQuantity[Fields[r.buyer].symbol]
             /\ Owner(r.buyer) # Owner(r.seller)
             /\ r.price \in Price(r.seller)..Price(r.buyer)
             /\ r.gas_payer \in {Owner(r.buyer), Owner(r.seller)}
  <2>1. CASE i \in DOMAIN matches
    BY <2>1, FillAppends DEF FillsLegal
  <2>2. CASE i = Len(matches) + 1
    BY <1>1, <1>2, <1>4, <1>5, <2>2, FillAppends DEF SelfTrade, min_quantity
  <2> QED BY <1>6, <2>1, <2>2, FillAppends
<1> QED BY <1>6 DEF FillsLegal, Price, Owner

\* As long as prices stay below half of the 64-bit range, every match the
\* engine emits is legal: distinct owners, crossing, at least the market's
\* minimum and at a price between the two limits.
THEOREM MatchesAreLegal == PricesFit /\ Spec => []FillsLegal
<1> SUFFICES ASSUME PricesFit PROVE Spec => []FillsLegal
  OBVIOUS
<1>1. Init => FillsLegal
  BY DEF Init, FillsLegal
<1>2. MatchingInv /\ FillsLegal /\ [Next]_matchVars => FillsLegal'
  BY FillLegal DEF Next, NextSymbol, SkipSelf, SkipDust, matchVars, FillsLegal
<1> QED BY <1>1, <1>2, MatchingInvariant, PTL DEF Spec
-----------------------------------------------------------------------------
(* What a list of matches fills of an order.                               *)

\* The matches of a list that an order takes part in.
Mine(ms, o) == {i \in DOMAIN ms : o \in {ms[i].buyer, ms[i].seller}}

\* Filled(o) for a given list of matches, and what it leaves of the order.
FilledIn(ms, o) == MapThenSumSet(LAMBDA i : ms[i].fill, Mine(ms, o))
Left(ms, o) == Quantity(o) - FilledIn(ms, o)

\* The fill quantities of a list of matches, as a function to sum over.
FillsOf(ms) == [i \in DOMAIN ms |-> ms[i].fill]

\* Finitely many matches with a quantity each.
LEMMA MineFinite ==
  ASSUME NEW ms \in Seq(MatchRecord), NEW o
  PROVE  /\ IsFiniteSet(Mine(ms, o)) /\ Mine(ms, o) \in SUBSET DOMAIN ms
         /\ FillsOf(ms) \in [DOMAIN ms -> Nat]
<1>1. DOMAIN ms = 1..Len(ms) /\ Len(ms) \in Nat
  BY LenProperties
<1>2. IsFiniteSet(1..Len(ms))
  BY <1>1, FS_Interval
<1>3. Mine(ms, o) \in SUBSET DOMAIN ms
  BY DEF Mine
<1>4. IsFiniteSet(Mine(ms, o))
  BY <1>1, <1>2, <1>3, FS_Subset
<1>5. \A i \in DOMAIN ms : ms[i] \in MatchRecord
  BY <1>1, ElementOfSeq
<1>6. FillsOf(ms) \in [DOMAIN ms -> Nat]
  BY <1>5 DEF FillsOf, MatchRecord
<1> QED BY <1>3, <1>4, <1>6

\* The fold adds up the fills.
LEMMA FilledIsSum ==
  ASSUME NEW ms \in Seq(MatchRecord), NEW o
  PROVE  FilledIn(ms, o) = SumOver(FillsOf(ms), Mine(ms, o))
<1> DEFINE S == Mine(ms, o)
           I(f) == f = [s \in SUBSET S |->
                         IF s = {} THEN 0
                         ELSE ms[FirstOf(s)].fill + f[s \ {FirstOf(s)}]]
           F == CHOOSE f : I(f)
<1>1. IsFiniteSet(S) /\ S \in SUBSET DOMAIN ms
  BY MineFinite
<1>2. FilledIn(ms, o) = F[S]
  BY DEF FilledIn, MapThenSumSet, MapThenFoldSet, FirstOf
<1> HIDE DEF S
<1>3. \A s \in SUBSET S : s # {} => FillsOf(ms)[FirstOf(s)] = ms[FirstOf(s)].fill
  BY <1>1 DEF FillsOf, FirstOf
<1>4. \A f : I(f) <=> IsSum(f, FillsOf(ms), S)
  BY <1>3 DEF IsSum
<1>5. \E f : I(f)
  BY <1>1, <1>4, SumExists
<1>6. IsSum(F, FillsOf(ms), S)
  BY <1>4, <1>5
<1> HIDE DEF F
<1>7. F[S] = SumOver(FillsOf(ms), S)
  BY <1>1, <1>6, SumIs
<1> QED BY <1>2, <1>7 DEF S

\* Nothing is filled at first, and a quantity is filled ever after.
LEMMA FilledNat ==
  /\ \A o : FilledIn(<<>>, o) = 0
  /\ \A ms \in Seq(MatchRecord) : \A o : FilledIn(ms, o) \in Nat
<1>1. ASSUME NEW o PROVE FilledIn(<<>>, o) = 0
  <2>1. <<>> \in Seq(MatchRecord) /\ Mine(<<>>, o) = {}
    BY EmptySeq DEF Mine
  <2>2. SumOver(FillsOf(<<>>), {}) = 0
    BY FS_EmptySet, SumStep
  <2>3. FilledIn(<<>>, o) = SumOver(FillsOf(<<>>), Mine(<<>>, o))
    BY <2>1, FilledIsSum
  <2> QED BY <2>1, <2>2, <2>3, Zenon
<1>2. ASSUME NEW ms \in Seq(MatchRecord), NEW o PROVE FilledIn(ms, o) \in Nat
  BY FilledIsSum, MineFinite, SumNat
<1> QED BY <1>1, <1>2

\* One match more fills its two orders and no other.
LEMMA FilledAppend ==
  ASSUME NEW ms \in Seq(MatchRecord), NEW new \in Seq(MatchRecord),
         NEW k, k \notin DOMAIN ms,
         DOMAIN new = DOMAIN ms \union {k},
         \A i \in DOMAIN ms : new[i] = ms[i], NEW o
  PROVE  FilledIn(new, o) = IF o \in {new[k].buyer, new[k].seller}
                            THEN FilledIn(ms, o) + new[k].fill ELSE FilledIn(ms, o)
<1>1. /\ FilledIn(ms, o) = SumOver(FillsOf(ms), Mine(ms, o))
      /\ FilledIn(new, o) = SumOver(FillsOf(new), Mine(new, o))
  BY FilledIsSum
<1>2. /\ IsFiniteSet(Mine(ms, o)) /\ Mine(ms, o) \in SUBSET DOMAIN ms
      /\ FillsOf(new) \in [DOMAIN new -> Nat]
  BY MineFinite
<1>3. SumOver(FillsOf(ms), Mine(ms, o)) = SumOver(FillsOf(new), Mine(ms, o))
  <2>1. \A i \in Mine(ms, o) : FillsOf(ms)[i] = FillsOf(new)[i]
    BY <1>2 DEF FillsOf
  <2> QED BY <1>2, <2>1, SumCongruence
<1>4. CASE o \in {new[k].buyer, new[k].seller}
  <2>1. Mine(new, o) = Mine(ms, o) \union {k} /\ k \notin Mine(ms, o)
    BY <1>4 DEF Mine
  <2>2. FillsOf(new)[k] = new[k].fill
    BY DEF FillsOf
  <2>3. SumOver(FillsOf(new), Mine(ms, o) \union {k}) =
          SumOver(FillsOf(new), Mine(ms, o)) + FillsOf(new)[k]
    <3>1. Mine(ms, o) \in SUBSET DOMAIN new /\ k \in DOMAIN new
      BY <1>2
    <3> QED BY <1>2, <2>1, <3>1, SumAdd
  <2>4. FilledIn(new, o) = SumOver(FillsOf(new), Mine(ms, o) \union {k})
    BY <1>1, <2>1, Zenon
  <2>5. FilledIn(new, o) = FilledIn(ms, o) + new[k].fill
    BY <1>1, <1>3, <2>2, <2>3, <2>4, Zenon
  <2> QED BY <1>4, <2>5
<1>5. CASE o \notin {new[k].buyer, new[k].seller}
  <2>1. Mine(new, o) = Mine(ms, o)
    BY <1>5 DEF Mine
  <2> QED BY <1>1, <1>3, <1>5, <2>1
<1> QED BY <1>4, <1>5

\* A fill adds its quantity to the two orders at the pointers.
LEMMA FillFills ==
  ASSUME MatchingInv, Fill
  PROVE  \A o : /\ FilledIn(matches, o) \in Nat
                /\ FilledIn(matches', o) =
                     IF o \in {Buy, Sell} THEN FilledIn(matches, o) + fill_qty
                     ELSE FilledIn(matches, o)
<1> DEFINE k == Len(matches) + 1
<1>1. /\ matches \in Seq(MatchRecord) /\ matches' \in Seq(MatchRecord)
      /\ DOMAIN matches' = DOMAIN matches \union {k} /\ k \notin DOMAIN matches
      /\ \A i \in DOMAIN matches : matches'[i] = matches[i]
  BY FillAppends DEF MatchingInv, MatchingTypeOK
<1>2. /\ matches'[k].buyer = Buy /\ matches'[k].seller = Sell
      /\ matches'[k].fill = fill_qty
  BY FillAppends
<1> HIDE DEF k
<1>3. \A o : FilledIn(matches, o) \in Nat
  BY <1>1, FilledNat
<1>4. ASSUME NEW o
      PROVE  FilledIn(matches', o) =
               IF o \in {matches'[k].buyer, matches'[k].seller}
               THEN FilledIn(matches, o) + matches'[k].fill ELSE FilledIn(matches, o)
  BY <1>1, FilledAppend
<1> QED BY <1>2, <1>3, <1>4

-----------------------------------------------------------------------------
(* The books, seen from the reveals.                                       *)

\* A book of the current symbol lists orders of the batch, all of its side, each
\* once, and its symbol is not to be matched again.
BookFrom(book, side) ==
  /\ \A i \in DOMAIN book : /\ Fields[book[i]].symbol \notin todo
                            /\ \E p \in DOMAIN arrival : book[i] = arrival[p]
  /\ OnceIn(book)
  /\ \A p \in DOMAIN arrival, k \in DOMAIN book :
       /\ Fields[arrival[p]].symbol = Fields[book[k]].symbol
       /\ Fields[arrival[p]].side = side
       => \E l \in DOMAIN book : book[l] = arrival[p]

\* The best prices come first.
BestFirst ==
  /\ \A k, l \in DOMAIN buys : k < l => Price(buys[k]) >= Price(buys[l])
  /\ \A k, l \in DOMAIN sells : k < l => Price(sells[k]) <= Price(sells[l])

BookInv == BookFrom(buys, "Buy") /\ BookFrom(sells, "Sell") /\ BestFirst

\* The books NextSymbol sorts are those of one symbol that was still to do, and
\* list all of its orders if the symbol has a market.
BookOf(book, sym, side) ==
  /\ book \in Seq(Order)
  /\ \A i \in DOMAIN book : /\ Fields[book[i]].symbol = sym /\ Fields[book[i]].side = side
                            /\ \E p \in DOMAIN arrival : book[i] = arrival[p]
  /\ \A p \in DOMAIN arrival :
       /\ sym \in DOMAIN MinQuantity
       /\ Fields[arrival[p]].symbol = sym /\ Fields[arrival[p]].side = side
       => \E i \in DOMAIN book : book[i] = arrival[p]
  /\ OnceIn(book)
  /\ \A k, l \in DOMAIN book : k < l => ~ Before(side, book[l], book[k])
  /\ sym \notin DOMAIN MinQuantity => book = <<>>

\* NextSymbol takes the books of one symbol from the reveals.
LEMMA NextBooks ==
  ASSUME MatchingInv, NextSymbol
  PROVE  \E sym \in todo : /\ todo' = todo \ {sym}
                           /\ BookOf(buys', sym, "Buy") /\ BookOf(sells', sym, "Sell")
<1>1. arrival \in Seq(Order)
  BY DEF MatchingInv, MatchingTypeOK
<1>2. PICK sym \in todo :
        /\ todo' = todo \ {sym}
        /\ IF sym \in DOMAIN MinQuantity
           THEN /\ buys' \in sort_orders(sym, "Buy")
                /\ sells' \in sort_orders(sym, "Sell")
           ELSE buys' = <<>> /\ sells' = <<>>
  BY DEF NextSymbol
<1>3. \A side, book : book \in sort_orders(sym, side) /\ sym \in DOMAIN MinQuantity
                         => BookOf(book, sym, side)
  BY <1>1, SortedBook DEF BookOf, Positions
<1>4. \A side : sym \notin DOMAIN MinQuantity => BookOf(<<>>, sym, side)
  BY EmptySeq DEF BookOf, OnceIn
<1> QED BY <1>2, <1>3, <1>4

\* The books keep their relation to the reveals.
LEMMA BookNext == ASSUME MatchingInv, BookInv, [Next]_matchVars PROVE BookInv'
<1>1. CASE UNCHANGED <<arrival, todo, buys, sells>>
  BY <1>1 DEF BookInv, BookFrom, BestFirst, RevealedOnce, OnceIn
<1>2. CASE NextSymbol
  <2>1. PICK sym \in todo : /\ todo' = todo \ {sym}
                            /\ BookOf(buys', sym, "Buy") /\ BookOf(sells', sym, "Sell")
    BY <1>2, NextBooks
  <2>2. arrival' = arrival
    BY <1>2 DEF NextSymbol
  <2>3. \A k, l \in DOMAIN buys' : k < l => Price(buys'[k]) >= Price(buys'[l])
    <3>1. \A k \in DOMAIN buys' : Price(buys'[k]) \in Nat
      BY <2>1, OrderTypes, ElementOfSeq, LenProperties DEF BookOf
    <3> QED BY <2>1, <3>1 DEF BookOf, Before, BuyBefore
  <2>4. \A k, l \in DOMAIN sells' : k < l => Price(sells'[k]) <= Price(sells'[l])
    <3>1. \A k \in DOMAIN sells' : Price(sells'[k]) \in Nat
      BY <2>1, OrderTypes, ElementOfSeq, LenProperties DEF BookOf
    <3> QED BY <2>1, <3>1 DEF BookOf, Before, SellBefore
  <2>5. ASSUME NEW book, NEW side, BookOf(book, sym, side)
        PROVE  /\ \A i \in DOMAIN book : /\ Fields[book[i]].symbol \notin todo'
                                         /\ \E p \in DOMAIN arrival : book[i] = arrival[p]
               /\ OnceIn(book)
               /\ \A p \in DOMAIN arrival, k \in DOMAIN book :
                    /\ Fields[arrival[p]].symbol = Fields[book[k]].symbol
                    /\ Fields[arrival[p]].side = side
                    => \E l \in DOMAIN book : book[l] = arrival[p]
    BY <2>1, <2>5, EmptySeq DEF BookOf
  <2>6. BookFrom(buys, "Buy")'
    BY <2>1, <2>2, <2>5 DEF BookFrom, RevealedOnce, OnceIn
  <2>7. BookFrom(sells, "Sell")'
    BY <2>1, <2>2, <2>5 DEF BookFrom, RevealedOnce, OnceIn
  <2> QED BY <2>3, <2>4, <2>6, <2>7 DEF BookInv, BestFirst, Price
<1> QED BY <1>1, <1>2 DEF Next, SkipSelf, SkipDust, Fill, matchVars

-----------------------------------------------------------------------------
(* No order is filled beyond its quantity.                                 *)

\* Of the orders that are revealed once: what the one at the pointer still offers
\* is what was not filled of it, and those behind the pointer are untouched.
Accounted(ms, book, idx, left) ==
  \A i \in DOMAIN book :
    RevealedOnce(book[i]) =>
      /\ i = idx => FilledIn(ms, book[i]) + left = Quantity(book[i])
      /\ i > idx => FilledIn(ms, book[i]) = 0

CountInv ==
  /\ \A o \in Order : /\ RevealedOnce(o) => FilledIn(matches, o) <= Quantity(o)
                      /\ Fields[o].symbol \in todo => FilledIn(matches, o) = 0
  /\ Accounted(matches, buys, buy_idx, buy_remaining)
  /\ Accounted(matches, sells, sell_idx, sell_remaining)

\* The facts about the two pointers of a crossing that the steps below share.
LEMMA AtPointers ==
  ASSUME MatchingInv, BookInv, Crossing
  PROVE  /\ Buy \in Order /\ Sell \in Order /\ Buy # Sell
         /\ Fields[Buy].symbol \notin todo /\ Fields[Sell].symbol \notin todo
         /\ buy_idx \in DOMAIN buys /\ sell_idx \in DOMAIN sells
         /\ \A i \in DOMAIN buys : buys[i] \in Order /\ buys[i] # Sell
         /\ \A j \in DOMAIN sells : sells[j] \in Order /\ sells[j] # Buy
         /\ \A i \in DOMAIN buys : i # buy_idx /\ RevealedOnce(buys[i]) => buys[i] # Buy
         /\ \A j \in DOMAIN sells : j # sell_idx /\ RevealedOnce(sells[j]) => sells[j] # Sell
<1>1. /\ Buy \in Order /\ Sell \in Order
      /\ Fields[Buy].side = "Buy" /\ Fields[Sell].side = "Sell"
  BY CrossingOrders
<1>2. buy_idx \in DOMAIN buys /\ sell_idx \in DOMAIN sells
  BY DEF Crossing
<1>3. /\ \A i \in DOMAIN buys : buys[i] \in Order /\ Fields[buys[i]].side = "Buy"
      /\ \A j \in DOMAIN sells : sells[j] \in Order /\ Fields[sells[j]].side = "Sell"
  BY ElementOfSeq, LenProperties DEF MatchingInv, MatchingTypeOK, BooksOK
<1>4. Fields[Buy].symbol \notin todo /\ Fields[Sell].symbol \notin todo
  BY <1>2 DEF BookInv, BookFrom, Buy, Sell
<1>5. /\ \A i \in DOMAIN buys : i # buy_idx /\ RevealedOnce(buys[i]) => buys[i] # Buy
      /\ \A j \in DOMAIN sells : j # sell_idx /\ RevealedOnce(sells[j]) => sells[j] # Sell
  BY <1>2 DEF BookInv, BookFrom, OnceIn, Buy, Sell
<1> QED BY <1>1, <1>2, <1>3, <1>4, <1>5

\* A fill of q is booked on the order at the pointer of a book.
LEMMA AccountedFill ==
  ASSUME NEW ms, NEW new, NEW book \in Seq(Order), NEW idx \in Nat, NEW left \in Nat,
         NEW q \in Nat, q <= left, idx \in DOMAIN book,
         FilledIn(ms, book[idx]) \in Nat,
         Accounted(ms, book, idx, left),
         FilledIn(new, book[idx]) = FilledIn(ms, book[idx]) + q,
         \A i \in DOMAIN book : i # idx /\ RevealedOnce(book[i])
                                   => FilledIn(new, book[i]) = FilledIn(ms, book[i])
  PROVE  /\ left - q = 0 => Accounted(new, book, idx + 1, remaining(book, idx + 1))
         /\ left - q # 0 => Accounted(new, book, idx, left - q)
<1>1. DOMAIN book = 1..Len(book) /\ Len(book) \in Nat
  BY LenProperties
<1>2. \A i \in DOMAIN book : i > idx /\ RevealedOnce(book[i]) => FilledIn(new, book[i]) = 0
  BY <1>1 DEF Accounted
<1>3. \A i \in DOMAIN book : Quantity(book[i]) \in Nat
  BY ElementOfSeq, <1>1, OrderTypes
<1>4. RevealedOnce(book[idx]) => FilledIn(ms, book[idx]) + left = Quantity(book[idx])
  BY DEF Accounted
<1>5. RevealedOnce(book[idx]) => FilledIn(new, book[idx]) + (left - q) = Quantity(book[idx])
  BY <1>3, <1>4
<1>6. left - q # 0 => Accounted(new, book, idx, left - q)
  BY <1>2, <1>5 DEF Accounted
<1>7. Accounted(new, book, idx + 1, remaining(book, idx + 1))
  <2>1. ASSUME NEW i \in DOMAIN book, i = idx + 1, RevealedOnce(book[i])
        PROVE  FilledIn(new, book[i]) + remaining(book, idx + 1) = Quantity(book[i])
    <3>1. FilledIn(new, book[i]) = 0 /\ remaining(book, idx + 1) = Quantity(book[i])
      BY <1>1, <1>2, <2>1 DEF remaining
    <3> QED BY <1>3, <3>1
  <2>2. \A i \in DOMAIN book : i > idx + 1 /\ RevealedOnce(book[i]) => FilledIn(new, book[i]) = 0
    BY <1>1, <1>2
  <2> QED BY <2>1, <2>2 DEF Accounted
<1> QED BY <1>6, <1>7

\* An order is passed over: the next one is untouched.
LEMMA AccountedAdvance ==
  ASSUME NEW ms, NEW book \in Seq(Order), NEW idx \in Nat, NEW left,
         Accounted(ms, book, idx, left)
  PROVE  Accounted(ms, book, idx + 1, remaining(book, idx + 1))
<1>1. DOMAIN book = 1..Len(book) /\ Len(book) \in Nat
  BY LenProperties
<1>2. \A i \in DOMAIN book : Quantity(book[i]) \in Nat
  BY ElementOfSeq, <1>1, OrderTypes
<1>3. \A i \in DOMAIN book : i > idx /\ RevealedOnce(book[i]) => FilledIn(ms, book[i]) = 0
  BY DEF Accounted
<1>4. \A i \in DOMAIN book :
        i = idx + 1 /\ RevealedOnce(book[i]) =>
          FilledIn(ms, book[i]) + remaining(book, idx + 1) = Quantity(book[i])
  BY <1>1, <1>2, <1>3 DEF remaining
<1>5. \A i \in DOMAIN book : i > idx + 1 /\ RevealedOnce(book[i]) => FilledIn(ms, book[i]) = 0
  BY <1>1, <1>3
<1> QED BY <1>4, <1>5 DEF Accounted

\* The books of a new symbol are untouched.
LEMMA CountNextSymbol ==
  ASSUME MatchingInv, CountInv, NextSymbol PROVE CountInv'
<1>1. /\ arrival' = arrival /\ matches' = matches /\ buy_idx' = 1 /\ sell_idx' = 1
      /\ buy_remaining' = remaining(buys', 1) /\ sell_remaining' = remaining(sells', 1)
  BY DEF NextSymbol
<1>2. SUFFICES /\ \A o \in Order : /\ RevealedOnce(o) => FilledIn(matches', o) <= Quantity(o)
                                  /\ Fields[o].symbol \in todo' => FilledIn(matches', o) = 0
               /\ Accounted(matches', buys', buy_idx', buy_remaining')
               /\ Accounted(matches', sells', sell_idx', sell_remaining')
  BY <1>1 DEF CountInv, Accounted, Quantity, RevealedOnce
<1>3. PICK sym \in todo : /\ todo' = todo \ {sym}
                          /\ BookOf(buys', sym, "Buy") /\ BookOf(sells', sym, "Sell")
  BY NextBooks
<1>4. \A o \in Order : /\ RevealedOnce(o) => FilledIn(matches, o) <= Quantity(o)
                       /\ Fields[o].symbol \in todo => FilledIn(matches, o) = 0
  BY DEF CountInv
<1>5. ASSUME NEW book, NEW side, BookOf(book, sym, side)
      PROVE  Accounted(matches, book, 1, remaining(book, 1))
  <2>1. \A i \in DOMAIN book : /\ book[i] \in Order /\ Fields[book[i]].symbol = sym
                               /\ Quantity(book[i]) \in Nat
    BY <1>5, ElementOfSeq, LenProperties, OrderTypes DEF BookOf
  <2>2. \A i \in DOMAIN book : FilledIn(matches, book[i]) = 0
    BY <1>4, <2>1
  <2>3. 1 \in DOMAIN book => remaining(book, 1) = Quantity(book[1])
    BY DEF remaining
  <2> QED BY <2>1, <2>2, <2>3 DEF Accounted
<1>6. Accounted(matches', buys', buy_idx', buy_remaining')
  BY <1>1, <1>3, <1>5, Zenon
<1>7. Accounted(matches', sells', sell_idx', sell_remaining')
  BY <1>1, <1>3, <1>5, Zenon
<1> QED BY <1>1, <1>3, <1>4, <1>6, <1>7

\* An order is passed over: nothing is filled.
LEMMA CountSkip ==
  ASSUME MatchingInv, CountInv, SkipSelf \/ SkipDust PROVE CountInv'
<1>1. UNCHANGED <<arrival, todo, buys, sells, matches>> /\ (advance_buy \/ advance_sell)
  BY DEF SkipSelf, SkipDust
<1> SUFFICES /\ Accounted(matches, buys, buy_idx', buy_remaining')
             /\ Accounted(matches, sells, sell_idx', sell_remaining')
  BY <1>1 DEF CountInv, Accounted, Quantity, RevealedOnce
<1>2. /\ Accounted(matches, buys, buy_idx, buy_remaining)
      /\ Accounted(matches, sells, sell_idx, sell_remaining)
  BY DEF CountInv
<1>3. /\ buys \in Seq(Order) /\ sells \in Seq(Order)
      /\ buy_idx \in Nat /\ sell_idx \in Nat
  BY DEF MatchingInv, MatchingTypeOK
<1>4. /\ Accounted(matches, buys, buy_idx + 1, remaining(buys, buy_idx + 1))
      /\ Accounted(matches, sells, sell_idx + 1, remaining(sells, sell_idx + 1))
  BY <1>2, <1>3, AccountedAdvance
<1> QED BY <1>1, <1>2, <1>4, Zenon DEF advance_buy, advance_sell

\* A fill is deducted from both orders.
LEMMA CountFill ==
  ASSUME MatchingInv, BookInv, CountInv, Fill PROVE CountInv'
<1>1. /\ Crossing /\ AfterFill /\ UNCHANGED <<arrival, todo, buys, sells>>
  BY DEF Fill
<1> SUFFICES /\ \A o \in Order : /\ RevealedOnce(o) => FilledIn(matches', o) <= Quantity(o)
                                 /\ Fields[o].symbol \in todo => FilledIn(matches', o) = 0
             /\ Accounted(matches', buys, buy_idx', buy_remaining')
             /\ Accounted(matches', sells, sell_idx', sell_remaining')
  BY <1>1 DEF CountInv, Accounted, Quantity, RevealedOnce
<1>2. /\ Accounted(matches, buys, buy_idx, buy_remaining)
      /\ Accounted(matches, sells, sell_idx, sell_remaining)
      /\ \A o \in Order : /\ RevealedOnce(o) => FilledIn(matches, o) <= Quantity(o)
                          /\ Fields[o].symbol \in todo => FilledIn(matches, o) = 0
  BY DEF CountInv
<1>3. /\ buys \in Seq(Order) /\ sells \in Seq(Order)
      /\ buy_idx \in Nat /\ sell_idx \in Nat
      /\ buy_remaining \in Nat /\ sell_remaining \in Nat
      /\ fill_qty \in Nat /\ fill_qty <= buy_remaining /\ fill_qty <= sell_remaining
  BY <1>1, CrossingOrders DEF MatchingInv, MatchingTypeOK
<1>4. /\ Buy \in Order /\ Sell \in Order /\ Buy # Sell
      /\ Fields[Buy].symbol \notin todo /\ Fields[Sell].symbol \notin todo
      /\ buy_idx \in DOMAIN buys /\ sell_idx \in DOMAIN sells
      /\ \A i \in DOMAIN buys : i # buy_idx /\ RevealedOnce(buys[i]) => buys[i] \notin {Buy, Sell}
      /\ \A j \in DOMAIN sells : j # sell_idx /\ RevealedOnce(sells[j]) => sells[j] \notin {Buy, Sell}
  BY <1>1, AtPointers
<1>5. \A o : /\ FilledIn(matches, o) \in Nat
             /\ FilledIn(matches', o) =
                  IF o \in {Buy, Sell} THEN FilledIn(matches, o) + fill_qty
                  ELSE FilledIn(matches, o)
  BY FillFills
<1>6. /\ RevealedOnce(Buy) => FilledIn(matches, Buy) + buy_remaining = Quantity(Buy)
      /\ RevealedOnce(Sell) => FilledIn(matches, Sell) + sell_remaining = Quantity(Sell)
  BY <1>2, <1>4 DEF Accounted, Buy, Sell
<1>7. ASSUME NEW o \in Order
      PROVE  /\ RevealedOnce(o) => FilledIn(matches', o) <= Quantity(o)
             /\ Fields[o].symbol \in todo => FilledIn(matches', o) = 0
  <2>1. FilledIn(matches, o) \in Nat /\ Quantity(o) \in Nat
    BY <1>5, OrderTypes
  <2>2. CASE o \in {Buy, Sell}
    <3>1. FilledIn(matches', o) = FilledIn(matches, o) + fill_qty
      BY <1>5, <2>2
    <3>2. CASE o = Buy
      BY <1>3, <1>4, <1>6, <2>1, <3>1, <3>2
    <3>3. CASE o = Sell
      BY <1>3, <1>4, <1>6, <2>1, <3>1, <3>3
    <3> QED BY <2>2, <3>2, <3>3
  <2>3. CASE o \notin {Buy, Sell}
    BY <1>2, <1>5, <2>3
  <2> QED BY <2>2, <2>3
<1>8. Accounted(matches', buys, buy_idx', buy_remaining')
  <2>1. /\ FilledIn(matches', buys[buy_idx]) = FilledIn(matches, buys[buy_idx]) + fill_qty
        /\ \A i \in DOMAIN buys :
             i # buy_idx /\ RevealedOnce(buys[i]) =>
               FilledIn(matches', buys[i]) = FilledIn(matches, buys[i])
    BY <1>4, <1>5 DEF Buy
  <2>2. /\ buy_remaining - fill_qty = 0
             => Accounted(matches', buys, buy_idx + 1, remaining(buys, buy_idx + 1))
        /\ buy_remaining - fill_qty # 0
             => Accounted(matches', buys, buy_idx, buy_remaining - fill_qty)
    BY <1>2, <1>3, <1>4, <1>5, <2>1, AccountedFill
  <2>3. CASE buy_remaining - fill_qty = 0
    <3>1. buy_idx' = buy_idx + 1 /\ buy_remaining' = remaining(buys, buy_idx + 1)
      BY <1>1, <2>3 DEF AfterFill
    <3> QED BY <2>2, <2>3, <3>1, Zenon
  <2>4. CASE buy_remaining - fill_qty # 0
    <3>1. buy_idx' = buy_idx /\ buy_remaining' = buy_remaining - fill_qty
      BY <1>1, <2>4 DEF AfterFill
    <3> QED BY <2>2, <2>4, <3>1, Zenon
  <2> QED BY <2>3, <2>4
<1>9. Accounted(matches', sells, sell_idx', sell_remaining')
  <2>1. /\ FilledIn(matches', sells[sell_idx]) = FilledIn(matches, sells[sell_idx]) + fill_qty
        /\ \A j \in DOMAIN sells :
             j # sell_idx /\ RevealedOnce(sells[j]) =>
               FilledIn(matches', sells[j]) = FilledIn(matches, sells[j])
    BY <1>4, <1>5 DEF Sell
  <2>2. /\ sell_remaining - fill_qty = 0
             => Accounted(matches', sells, sell_idx + 1, remaining(sells, sell_idx + 1))
        /\ sell_remaining - fill_qty # 0
             => Accounted(matches', sells, sell_idx, sell_remaining - fill_qty)
    BY <1>2, <1>3, <1>4, <1>5, <2>1, AccountedFill
  <2>3. CASE sell_remaining - fill_qty = 0
    <3>1. sell_idx' = sell_idx + 1 /\ sell_remaining' = remaining(sells, sell_idx + 1)
      BY <1>1, <2>3 DEF AfterFill
    <3> QED BY <2>2, <2>3, <3>1, Zenon
  <2>4. CASE sell_remaining - fill_qty # 0
    <3>1. sell_idx' = sell_idx /\ sell_remaining' = sell_remaining - fill_qty
      BY <1>1, <2>4 DEF AfterFill
    <3> QED BY <2>2, <2>4, <3>1, Zenon
  <2> QED BY <2>3, <2>4
<1> QED BY <1>7, <1>8, <1>9

\* The books and the counts together.
LedgerInv == MatchingInv /\ BookInv /\ CountInv

\* They hold in every reachable state.
LEMMA LedgerInvariant == Spec => []LedgerInv
<1>1. Init => LedgerInv
  <2> SUFFICES ASSUME Init PROVE LedgerInv
    OBVIOUS
  <2>1. buys = <<>> /\ sells = <<>> /\ matches = <<>>
    BY DEF Init
  <2>2. BookInv
    BY <2>1 DEF BookInv, BookFrom, BestFirst, OnceIn
  <2>3. \A o \in Order : FilledIn(matches, o) = 0 /\ Quantity(o) \in Nat
    BY <2>1, FilledNat, OrderTypes
  <2>4. /\ Accounted(matches, buys, buy_idx, buy_remaining)
        /\ Accounted(matches, sells, sell_idx, sell_remaining)
    BY <2>1 DEF Accounted
  <2>5. CountInv
    BY <2>3, <2>4 DEF CountInv
  <2> QED BY <2>2, <2>5, MatchingInitInv DEF LedgerInv
<1>2. LedgerInv /\ [Next]_matchVars => LedgerInv'
  <2> SUFFICES ASSUME LedgerInv, [Next]_matchVars PROVE LedgerInv'
    OBVIOUS
  <2> USE DEF LedgerInv
  <2>1. MatchingInv' /\ BookInv'
    BY MatchingNextInv, BookNext
  <2>2. CASE UNCHANGED matchVars
    BY <2>1, <2>2 DEF matchVars, CountInv, Accounted, RevealedOnce, Quantity
  <2> QED BY <2>1, <2>2, CountNextSymbol, CountSkip, CountFill DEF Next
<1> QED BY <1>1, <1>2, PTL DEF Spec

\* Filled names the list of matches found so far.
LEMMA FilledNow == \A o : Filled(o) = FilledIn(matches, o)
BY DEF Filled, FilledIn, Mine

\* An order that is revealed once is not filled beyond its quantity, however many
\* matches it takes part in, for every set of orders, market and order of arrival
\* and whatever other reveals run_matching is given twice.
THEOREM NeverOverfilled == Spec => []NoOverfill
<1>1. LedgerInv => NoOverfill
  <2> SUFFICES ASSUME LedgerInv, NEW i \in DOMAIN arrival, RevealedOnce(arrival[i])
               PROVE  Residual(arrival[i]) >= 0
    BY DEF NoOverfill
  <2>1. arrival[i] \in Order
    BY ElementOfSeq, LenProperties DEF LedgerInv, MatchingInv, MatchingTypeOK
  <2>2. /\ Quantity(arrival[i]) \in Nat /\ FilledIn(matches, arrival[i]) \in Nat
        /\ FilledIn(matches, arrival[i]) <= Quantity(arrival[i])
    BY <2>1, OrderTypes, FilledNat
    DEF LedgerInv, CountInv, MatchingInv, MatchingTypeOK
  <2> QED BY <2>2, FilledNow DEF Residual
<1> QED BY <1>1, LedgerInvariant, PTL
-----------------------------------------------------------------------------
(* No two matches have the same hash.                                      *)

\* The pointers have moved past every pair of orders, each revealed once, that was
\* matched.
PairInv ==
  /\ \A k \in DOMAIN matches : Fields[matches[k].buyer].symbol \notin todo
  /\ \A k \in DOMAIN matches, i \in DOMAIN buys, j \in DOMAIN sells :
       /\ RevealedOnce(buys[i]) /\ RevealedOnce(sells[j])
       /\ buys[i] = matches[k].buyer /\ sells[j] = matches[k].seller
       => i <= buy_idx /\ j <= sell_idx /\ (i < buy_idx \/ j < sell_idx)
  /\ \A k, l \in DOMAIN matches :
       /\ RevealedOnce(matches[k].buyer) /\ RevealedOnce(matches[k].seller)
       /\ matches[k].buyer = matches[l].buyer /\ matches[k].seller = matches[l].seller
       => k = l

\* The indices of the books are numbers.
LEMMA BookIndices ==
  ASSUME MatchingInv
  PROVE  DOMAIN buys \subseteq Nat /\ DOMAIN sells \subseteq Nat
         /\ buy_idx \in Nat /\ sell_idx \in Nat
BY LenProperties DEF MatchingInv, MatchingTypeOK

\* The orders of the next symbol were not matched before.
LEMMA PairNextSymbol == ASSUME MatchingInv, PairInv, NextSymbol PROVE PairInv'
<1>1. arrival' = arrival /\ matches' = matches
  BY DEF NextSymbol
<1> SUFFICES ASSUME NEW k \in DOMAIN matches
             PROVE  /\ Fields[matches[k].buyer].symbol \notin todo'
                    /\ \A i \in DOMAIN buys' : buys'[i] # matches[k].buyer
  BY <1>1 DEF PairInv, RevealedOnce
<1>2. PICK sym \in todo : /\ todo' = todo \ {sym}
                          /\ BookOf(buys', sym, "Buy") /\ BookOf(sells', sym, "Sell")
  BY NextBooks
<1>3. Fields[matches[k].buyer].symbol \notin todo
  BY DEF PairInv
<1> QED BY <1>2, <1>3 DEF BookOf

\* A fill exhausts one of its orders, so a pointer moves on.
LEMMA PairFill == ASSUME MatchingInv, BookInv, PairInv, Fill PROVE PairInv'
<1>1. Crossing /\ AfterFill /\ UNCHANGED <<arrival, todo, buys, sells>>
  BY DEF Fill
<1> SUFFICES /\ \A k \in DOMAIN matches' : Fields[matches'[k].buyer].symbol \notin todo
             /\ \A k \in DOMAIN matches', i \in DOMAIN buys, j \in DOMAIN sells :
                  /\ RevealedOnce(buys[i]) /\ RevealedOnce(sells[j])
                  /\ buys[i] = matches'[k].buyer /\ sells[j] = matches'[k].seller
                  => i <= buy_idx' /\ j <= sell_idx' /\ (i < buy_idx' \/ j < sell_idx')
             /\ \A k, l \in DOMAIN matches' :
                  /\ RevealedOnce(matches'[k].buyer) /\ RevealedOnce(matches'[k].seller)
                  /\ matches'[k].buyer = matches'[l].buyer
                  /\ matches'[k].seller = matches'[l].seller
                  => k = l
  BY <1>1 DEF PairInv, RevealedOnce
<1> DEFINE n == Len(matches) + 1
<1>2. /\ DOMAIN matches' = DOMAIN matches \union {n} /\ n \notin DOMAIN matches
      /\ \A k \in DOMAIN matches : matches'[k] = matches[k]
      /\ matches'[n].buyer = Buy /\ matches'[n].seller = Sell
  BY FillAppends
<1> HIDE DEF n
<1>3. /\ DOMAIN buys \subseteq Nat /\ DOMAIN sells \subseteq Nat
      /\ buy_idx \in Nat /\ sell_idx \in Nat
  BY BookIndices
<1>4. /\ buy_idx' \in {buy_idx, buy_idx + 1} /\ sell_idx' \in {sell_idx, sell_idx + 1}
      /\ buy_idx' = buy_idx + 1 \/ sell_idx' = sell_idx + 1
  <2>1. buy_remaining \in Nat /\ sell_remaining \in Nat
    BY DEF MatchingInv, MatchingTypeOK
  <2>2. buy_remaining - fill_qty = 0 \/ sell_remaining - fill_qty = 0
    BY <2>1 DEF fill_qty
  <2> QED BY <1>1, <2>2 DEF AfterFill
<1>5. /\ Fields[Buy].symbol \notin todo
      /\ buy_idx \in DOMAIN buys /\ sell_idx \in DOMAIN sells
      /\ \A i \in DOMAIN buys : buys[i] = Buy /\ RevealedOnce(buys[i]) => i = buy_idx
      /\ \A j \in DOMAIN sells : sells[j] = Sell /\ RevealedOnce(sells[j]) => j = sell_idx
  BY <1>1, AtPointers
<1>6. \A k \in DOMAIN matches :
        /\ Fields[matches[k].buyer].symbol \notin todo
        /\ \A i \in DOMAIN buys, j \in DOMAIN sells :
             /\ RevealedOnce(buys[i]) /\ RevealedOnce(sells[j])
             /\ buys[i] = matches[k].buyer /\ sells[j] = matches[k].seller
             => i <= buy_idx /\ j <= sell_idx /\ (i < buy_idx \/ j < sell_idx)
  BY DEF PairInv
<1>7. ASSUME NEW k \in DOMAIN matches'
      PROVE  /\ Fields[matches'[k].buyer].symbol \notin todo
             /\ \A i \in DOMAIN buys, j \in DOMAIN sells :
                  /\ RevealedOnce(buys[i]) /\ RevealedOnce(sells[j])
                  /\ buys[i] = matches'[k].buyer /\ sells[j] = matches'[k].seller
                  => i <= buy_idx' /\ j <= sell_idx' /\ (i < buy_idx' \/ j < sell_idx')
  <2>1. CASE k = n
    BY <1>2, <1>3, <1>4, <1>5, <2>1
  <2>2. CASE k \in DOMAIN matches
    BY <1>2, <1>3, <1>4, <1>6, <2>2
  <2> QED BY <1>2, <2>1, <2>2
<1>8. RevealedOnce(Buy) /\ RevealedOnce(Sell) =>
        \A k \in DOMAIN matches : ~ (matches[k].buyer = Buy /\ matches[k].seller = Sell)
  <2>1. buys[buy_idx] = Buy /\ sells[sell_idx] = Sell
    BY DEF Buy, Sell
  <2> QED BY <1>3, <1>5, <1>6, <2>1
<1>9. ASSUME NEW k \in DOMAIN matches', NEW l \in DOMAIN matches',
             RevealedOnce(matches'[k].buyer), RevealedOnce(matches'[k].seller),
             matches'[k].buyer = matches'[l].buyer, matches'[k].seller = matches'[l].seller
      PROVE  k = l
  <2>1. CASE k \in DOMAIN matches /\ l \in DOMAIN matches
    BY <1>2, <1>9, <2>1 DEF PairInv
  <2>2. CASE k = n \/ l = n
    BY <1>2, <1>8, <1>9, <2>2
  <2> QED BY <1>2, <2>1, <2>2
<1> QED BY <1>7, <1>9

\* No two matches of orders that are revealed once have the same match hash, the
\* key of the settlement pipeline's maps, whatever other reveals run_matching is
\* given twice: no two even have the same buy and sell order.
THEOREM MatchHashesUnique == Spec => []UniqueMatchHashes
<1>1. Init => PairInv
  BY DEF Init, PairInv
<1>2. LedgerInv /\ PairInv /\ [Next]_matchVars => PairInv'
  <2> SUFFICES ASSUME LedgerInv, PairInv, [Next]_matchVars PROVE PairInv'
    OBVIOUS
  <2> USE DEF LedgerInv
  <2>1. CASE UNCHANGED matchVars
    BY <2>1 DEF matchVars, PairInv, RevealedOnce
  <2>2. CASE SkipSelf \/ SkipDust
    <3>1. /\ UNCHANGED <<arrival, todo, buys, sells, matches>>
          /\ \/ buy_idx' = buy_idx + 1 /\ sell_idx' = sell_idx
             \/ sell_idx' = sell_idx + 1 /\ buy_idx' = buy_idx
      BY <2>2 DEF SkipSelf, SkipDust, advance_buy, advance_sell
    <3>2. /\ DOMAIN buys \subseteq Nat /\ DOMAIN sells \subseteq Nat
          /\ buy_idx \in Nat /\ sell_idx \in Nat
      BY BookIndices
    <3> QED BY <3>1, <3>2 DEF PairInv, RevealedOnce
  <2> QED BY <2>1, <2>2, PairNextSymbol, PairFill DEF Next
<1>3. PairInv => UniqueMatchHashes
  BY DEF PairInv, UniqueMatchHashes
<1> QED BY <1>1, <1>2, <1>3, LedgerInvariant, PTL DEF Spec

-----------------------------------------------------------------------------
(* Price priority, and nothing left on the table.                          *)

\* Less than the market's minimum is left of the order.
Drained(ms, o) == Left(ms, o) = 0 \/ Left(ms, o) < MinQuantity[Fields[o].symbol]

\* When nobody trades with himself the pointers pass over an order only once
\* it is drained; of a crossing pair of a symbol that is done one is drained.
DrainInv ==
  DistinctReveals /\ OneSided =>
    /\ \A i \in DOMAIN buys : i < buy_idx => Drained(matches, buys[i])
    /\ \A j \in DOMAIN sells : j < sell_idx => Drained(matches, sells[j])
    /\ \A p, q \in DOMAIN arrival :
         LET b == arrival[p]
             s == arrival[q]
         IN /\ Fields[b].side = "Buy" /\ Fields[s].side = "Sell"
            /\ Fields[b].symbol = Fields[s].symbol
            /\ Fields[b].symbol \in DOMAIN MinQuantity
            /\ Fields[b].symbol \notin todo
            /\ Price(b) >= Price(s)
            => \/ Drained(matches, b) \/ Drained(matches, s)
               \/ /\ \E i \in DOMAIN buys : buys[i] = b
                  /\ \E j \in DOMAIN sells : sells[j] = s

\* The orders at the pointers leave what the counters say.
LEMMA LeftAtPointers ==
  ASSUME LedgerInv, DistinctReveals, Crossing
  PROVE  /\ Left(matches, Buy) = buy_remaining /\ Left(matches, Sell) = sell_remaining
         /\ Fields[Buy].symbol = Fields[Sell].symbol
         /\ MinQuantity[Fields[Buy].symbol] \in Nat
<1>1. buy_idx \in DOMAIN buys /\ sell_idx \in DOMAIN sells
  BY DEF Crossing
<1>2. /\ FilledIn(matches, Buy) + buy_remaining = Quantity(Buy)
      /\ FilledIn(matches, Sell) + sell_remaining = Quantity(Sell)
  BY <1>1, AllOnce DEF LedgerInv, CountInv, Accounted, Buy, Sell
<1>3. /\ FilledIn(matches, Buy) \in Nat /\ FilledIn(matches, Sell) \in Nat
      /\ buy_remaining \in Nat /\ sell_remaining \in Nat
  BY FilledNat DEF LedgerInv, MatchingInv, MatchingTypeOK
<1>4. /\ Left(matches, Buy) = buy_remaining /\ Left(matches, Sell) = sell_remaining
  BY <1>2, <1>3 DEF Left
<1> QED BY <1>4, CrossingOrders, MatchingAssumption DEF LedgerInv

\* With one-sided owners the two orders of a crossing have two owners.
LEMMA NoSelfTrade == ASSUME LedgerInv, OneSided, Crossing PROVE ~ SelfTrade
<1>1. buy_idx \in DOMAIN buys /\ sell_idx \in DOMAIN sells
  BY DEF Crossing
<1>2. /\ \E p \in DOMAIN arrival : Buy = arrival[p]
      /\ \E q \in DOMAIN arrival : Sell = arrival[q]
  BY <1>1 DEF LedgerInv, BookInv, BookFrom, Buy, Sell
<1>3. Fields[Buy].side = "Buy" /\ Fields[Sell].side = "Sell"
  BY CrossingOrders DEF LedgerInv
<1> QED BY <1>2, <1>3 DEF OneSided, SelfTrade

\* When the loop over a symbol has ended, of each crossing pair of its books one
\* order is drained: otherwise the orders at the pointers would cross too.
LEMMA BooksDrained ==
  ASSUME LedgerInv, DrainInv, DistinctReveals, OneSided, ~ Crossing,
         NEW i \in DOMAIN buys, NEW j \in DOMAIN sells, Price(buys[i]) >= Price(sells[j])
  PROVE  Drained(matches, buys[i]) \/ Drained(matches, sells[j])
<1>1. /\ i < buy_idx => Drained(matches, buys[i])
      /\ j < sell_idx => Drained(matches, sells[j])
  BY DEF DrainInv
<1> SUFFICES ASSUME ~ (i < buy_idx), ~ (j < sell_idx) PROVE FALSE
  BY <1>1
<1>2. /\ DOMAIN buys = 1..Len(buys) /\ Len(buys) \in Nat
      /\ DOMAIN sells = 1..Len(sells) /\ Len(sells) \in Nat
      /\ buy_idx \in Nat \ {0} /\ sell_idx \in Nat \ {0}
  BY LenProperties DEF LedgerInv, MatchingInv, MatchingTypeOK
<1>3. buy_idx \in DOMAIN buys /\ sell_idx \in DOMAIN sells
  BY <1>2
<1>4. /\ \A k \in DOMAIN buys : Price(buys[k]) \in Nat
      /\ \A k \in DOMAIN sells : Price(sells[k]) \in Nat
  BY ElementOfSeq, <1>2, OrderTypes DEF LedgerInv, MatchingInv, MatchingTypeOK
<1>5. Price(buys[buy_idx]) >= Price(buys[i])
  <2>1. CASE i = buy_idx
    BY <1>4, <2>1
  <2>2. CASE buy_idx < i
    BY <1>3, <2>2 DEF LedgerInv, BookInv, BestFirst
  <2> QED BY <1>2, <2>1, <2>2
<1>6. Price(sells[sell_idx]) <= Price(sells[j])
  <2>1. CASE j = sell_idx
    BY <1>4, <2>1
  <2>2. CASE sell_idx < j
    BY <1>3, <2>2 DEF LedgerInv, BookInv, BestFirst
  <2> QED BY <1>2, <2>1, <2>2
<1>7. Price(buys[buy_idx]) >= Price(sells[sell_idx])
  BY <1>3, <1>4, <1>5, <1>6
<1> QED BY <1>3, <1>7 DEF Crossing, Buy, Sell

\* A symbol is done, the next one begins.
LEMMA DrainNextSymbol == ASSUME LedgerInv, DrainInv, NextSymbol PROVE DrainInv'
<1>1. /\ ~ Crossing /\ arrival' = arrival /\ matches' = matches
      /\ buy_idx' = 1 /\ sell_idx' = 1
  BY DEF NextSymbol
<1>2. PICK sym \in todo : /\ todo' = todo \ {sym}
                          /\ BookOf(buys', sym, "Buy") /\ BookOf(sells', sym, "Sell")
  BY NextBooks DEF LedgerInv
<1>3. \A i \in DOMAIN buys' : ~ (i < 1)
  BY <1>2, LenProperties DEF BookOf
<1>4. \A j \in DOMAIN sells' : ~ (j < 1)
  BY <1>2, LenProperties DEF BookOf
<1> SUFFICES ASSUME DistinctReveals, OneSided,
                    NEW p \in DOMAIN arrival, NEW q \in DOMAIN arrival,
                    Fields[arrival[p]].side = "Buy", Fields[arrival[q]].side = "Sell",
                    Fields[arrival[p]].symbol = Fields[arrival[q]].symbol,
                    Fields[arrival[p]].symbol \in DOMAIN MinQuantity,
                    Fields[arrival[p]].symbol \notin todo',
                    Price(arrival[p]) >= Price(arrival[q])
             PROVE  \/ Drained(matches, arrival[p]) \/ Drained(matches, arrival[q])
                    \/ /\ \E i \in DOMAIN buys' : buys'[i] = arrival[p]
                       /\ \E j \in DOMAIN sells' : sells'[j] = arrival[q]
  BY <1>1, <1>3, <1>4 DEF DrainInv, DistinctReveals, OneSided, Drained, Left, Quantity,
     Owner, Price
<1>5. CASE Fields[arrival[p]].symbol = sym
  BY <1>2, <1>5 DEF BookOf
<1>6. CASE Fields[arrival[p]].symbol # sym
  <2>1. Fields[arrival[p]].symbol \notin todo
    BY <1>2, <1>6
  <2>2. \/ Drained(matches, arrival[p]) \/ Drained(matches, arrival[q])
        \/ /\ \E i \in DOMAIN buys : buys[i] = arrival[p]
           /\ \E j \in DOMAIN sells : sells[j] = arrival[q]
    BY <2>1 DEF DrainInv
  <2>3. ASSUME NEW i \in DOMAIN buys, NEW j \in DOMAIN sells,
               buys[i] = arrival[p], sells[j] = arrival[q]
        PROVE  Drained(matches, arrival[p]) \/ Drained(matches, arrival[q])
    BY <1>1, <2>3, BooksDrained
  <2> QED BY <2>2, <2>3
<1> QED BY <1>5, <1>6

\* Without self-trades an order is passed over because it is dust.
LEMMA DrainSkip == ASSUME LedgerInv, DrainInv, SkipSelf \/ SkipDust PROVE DrainInv'
<1>1. /\ UNCHANGED <<arrival, todo, buys, sells, matches>> /\ Crossing
      /\ advance_buy \/ advance_sell
  BY DEF SkipSelf, SkipDust
<1>2. /\ DOMAIN buys \subseteq Nat /\ DOMAIN sells \subseteq Nat
      /\ buy_idx \in Nat /\ sell_idx \in Nat
      /\ buy_remaining \in Nat /\ sell_remaining \in Nat
  BY BookIndices DEF LedgerInv, MatchingInv, MatchingTypeOK
<1> SUFFICES ASSUME DistinctReveals, OneSided
             PROVE  /\ \A i \in DOMAIN buys : i < buy_idx' => Drained(matches, buys[i])
                    /\ \A j \in DOMAIN sells : j < sell_idx' => Drained(matches, sells[j])
  BY <1>1 DEF DrainInv, DistinctReveals, OneSided, Drained, Left, Quantity, Owner, Price
<1>3. SkipDust
  BY <1>1, NoSelfTrade DEF SkipSelf
<1>4. /\ Left(matches, Buy) = buy_remaining /\ Left(matches, Sell) = sell_remaining
      /\ Fields[Buy].symbol = Fields[Sell].symbol
      /\ MinQuantity[Fields[Buy].symbol] \in Nat
  BY <1>1, LeftAtPointers
<1>5. fill_qty < MinQuantity[Fields[Buy].symbol]
  BY <1>3 DEF SkipDust, min_quantity
<1>6. /\ \A i \in DOMAIN buys : i < buy_idx => Drained(matches, buys[i])
      /\ \A j \in DOMAIN sells : j < sell_idx => Drained(matches, sells[j])
  BY DEF DrainInv
<1>7. CASE buy_remaining <= sell_remaining
  <2>1. buy_idx' = buy_idx + 1 /\ sell_idx' = sell_idx
    BY <1>3, <1>7 DEF SkipDust, advance_buy
  <2>2. fill_qty = buy_remaining
    BY <1>2, <1>7 DEF fill_qty
  <2>3. Drained(matches, buys[buy_idx])
    BY <1>4, <1>5, <2>2 DEF Drained, Buy
  <2>4. \A i \in DOMAIN buys : i < buy_idx + 1 => i < buy_idx \/ i = buy_idx
    BY <1>2
  <2> QED BY <1>6, <2>1, <2>3, <2>4
<1>8. CASE ~ (buy_remaining <= sell_remaining)
  <2>1. sell_idx' = sell_idx + 1 /\ buy_idx' = buy_idx
    BY <1>3, <1>8 DEF SkipDust, advance_sell
  <2>2. fill_qty = sell_remaining
    BY <1>2, <1>8 DEF fill_qty
  <2>3. Drained(matches, sells[sell_idx])
    BY <1>4, <1>5, <2>2 DEF Drained, Sell
  <2>4. \A j \in DOMAIN sells : j < sell_idx + 1 => j < sell_idx \/ j = sell_idx
    BY <1>2
  <2> QED BY <1>6, <2>1, <2>3, <2>4
<1> QED BY <1>7, <1>8

\* What a fill does to what is left: it takes from the two orders at the pointers,
\* and a drained order stays drained.
LEMMA FillDrains ==
  ASSUME LedgerInv, DistinctReveals, Fill
  PROVE  /\ Left(matches', Buy) = buy_remaining - fill_qty
         /\ Left(matches', Sell) = sell_remaining - fill_qty
         /\ \A o : Drained(matches, o) => Drained(matches', o)
<1>1. Crossing
  BY DEF Fill
<1>2. /\ Left(matches, Buy) = buy_remaining /\ Left(matches, Sell) = sell_remaining
      /\ Fields[Buy].symbol = Fields[Sell].symbol
      /\ MinQuantity[Fields[Buy].symbol] \in Nat
  BY <1>1, LeftAtPointers
<1>3. \A o : /\ FilledIn(matches, o) \in Nat
             /\ FilledIn(matches', o) =
                  IF o \in {Buy, Sell} THEN FilledIn(matches, o) + fill_qty
                  ELSE FilledIn(matches, o)
  BY FillFills DEF LedgerInv
<1>4. /\ Buy \in Order /\ Sell \in Order
      /\ fill_qty \in Nat /\ fill_qty <= buy_remaining /\ fill_qty <= sell_remaining
      /\ buy_remaining \in Nat /\ sell_remaining \in Nat
  BY <1>1, CrossingOrders DEF LedgerInv, MatchingInv, MatchingTypeOK
<1>5. Quantity(Buy) \in Nat /\ Quantity(Sell) \in Nat
  BY <1>4, OrderTypes
<1>6. Left(matches', Buy) = buy_remaining - fill_qty
  <2>1. FilledIn(matches', Buy) = FilledIn(matches, Buy) + fill_qty
    BY <1>3
  <2> QED BY <1>2, <1>3, <1>4, <1>5, <2>1 DEF Left
<1>7. Left(matches', Sell) = sell_remaining - fill_qty
  <2>1. FilledIn(matches', Sell) = FilledIn(matches, Sell) + fill_qty
    BY <1>3
  <2> QED BY <1>2, <1>3, <1>4, <1>5, <2>1 DEF Left
<1>8. ASSUME NEW o, Drained(matches, o) PROVE Drained(matches', o)
  <2>1. CASE o = Buy
    BY <1>2, <1>4, <1>6, <1>8, <2>1 DEF Drained
  <2>2. CASE o = Sell
    BY <1>2, <1>4, <1>7, <1>8, <2>2 DEF Drained
  <2>3. CASE o \notin {Buy, Sell}
    <3>1. FilledIn(matches', o) = FilledIn(matches, o)
      BY <1>3, <2>3
    <3> QED BY <1>8, <3>1 DEF Drained, Left
  <2> QED BY <2>1, <2>2, <2>3
<1> QED BY <1>6, <1>7, <1>8

\* A fill moves a pointer only past an exhausted order.
LEMMA DrainFill == ASSUME LedgerInv, DrainInv, Fill PROVE DrainInv'
<1>1. /\ Crossing /\ AfterFill /\ UNCHANGED <<arrival, todo, buys, sells>>
  BY DEF Fill
<1>2. /\ DOMAIN buys \subseteq Nat /\ DOMAIN sells \subseteq Nat
      /\ buy_idx \in Nat /\ sell_idx \in Nat
  BY BookIndices DEF LedgerInv
<1>3. CASE ~ (DistinctReveals /\ OneSided)
  BY <1>1, <1>3 DEF DrainInv, DistinctReveals, OneSided, Owner
<1>4. CASE DistinctReveals /\ OneSided
  <2>1. /\ Left(matches', Buy) = buy_remaining - fill_qty
        /\ Left(matches', Sell) = sell_remaining - fill_qty
        /\ \A o : Drained(matches, o) => Drained(matches', o)
    BY <1>4, FillDrains
  <2>2. ASSUME NEW i \in DOMAIN buys, i < buy_idx' PROVE Drained(matches', buys[i])
    <3>1. CASE i < buy_idx
      BY <1>4, <2>1, <3>1 DEF DrainInv
    <3>2. CASE ~ (i < buy_idx)
      <4>1. i = buy_idx /\ buy_remaining - fill_qty = 0
        BY <1>1, <1>2, <2>2, <3>2 DEF AfterFill
      <4> QED BY <2>1, <4>1 DEF Drained, Buy
    <3> QED BY <3>1, <3>2
  <2>3. ASSUME NEW j \in DOMAIN sells, j < sell_idx' PROVE Drained(matches', sells[j])
    <3>1. CASE j < sell_idx
      BY <1>4, <2>1, <3>1 DEF DrainInv
    <3>2. CASE ~ (j < sell_idx)
      <4>1. j = sell_idx /\ sell_remaining - fill_qty = 0
        BY <1>1, <1>2, <2>3, <3>2 DEF AfterFill
      <4> QED BY <2>1, <4>1 DEF Drained, Sell
    <3> QED BY <3>1, <3>2
  <2>4. ASSUME NEW p \in DOMAIN arrival, NEW q \in DOMAIN arrival,
               Fields[arrival[p]].side = "Buy", Fields[arrival[q]].side = "Sell",
               Fields[arrival[p]].symbol = Fields[arrival[q]].symbol,
               Fields[arrival[p]].symbol \in DOMAIN MinQuantity,
               Fields[arrival[p]].symbol \notin todo,
               Price(arrival[p]) >= Price(arrival[q])
        PROVE  \/ Drained(matches', arrival[p]) \/ Drained(matches', arrival[q])
               \/ /\ \E i \in DOMAIN buys : buys[i] = arrival[p]
                  /\ \E j \in DOMAIN sells : sells[j] = arrival[q]
    BY <1>4, <2>1, <2>4 DEF DrainInv
  <2> QED BY <1>1, <2>2, <2>3, <2>4
          DEF DrainInv, Drained, Left, Quantity, Price
<1> QED BY <1>3, <1>4

\* Passed orders are drained in every reachable state.
LEMMA DrainInvariant == Spec => []DrainInv
<1>1. Init => DrainInv
  BY DEF Init, DrainInv
<1>2. LedgerInv /\ DrainInv /\ [Next]_matchVars => DrainInv'
  <2> SUFFICES ASSUME LedgerInv, DrainInv, [Next]_matchVars PROVE DrainInv'
    OBVIOUS
  <2>1. CASE UNCHANGED matchVars
    BY <2>1 DEF matchVars, DrainInv, DistinctReveals, OneSided, Drained, Left, Quantity,
       Owner, Price
  <2> QED BY <2>1, DrainNextSymbol, DrainSkip, DrainFill DEF Next
<1> QED BY <1>1, <1>2, LedgerInvariant, PTL DEF Spec

\* When nobody trades with himself the engine leaves no trade on the table: at
\* the end no crossing pair has the market's minimum left on both sides.
THEOREM NothingLeftOver == Spec => []NothingLeft
<1>1. LedgerInv /\ DrainInv => NothingLeft
  <2> SUFFICES ASSUME LedgerInv, DrainInv PROVE NothingLeft
    OBVIOUS
  <2>a. \A o : Residual(o) = Left(matches, o)
    BY FilledNow DEF Residual, Left
  <2>b. \A r \in DOMAIN arrival : arrival[r] \in Order
    BY ElementOfSeq, LenProperties DEF LedgerInv, MatchingInv, MatchingTypeOK
  <2>c. \A o \in Order : FilledIn(matches, o) \in Nat /\ Quantity(o) \in Nat
    BY FilledNat, OrderTypes DEF LedgerInv, MatchingInv, MatchingTypeOK
  <2>d. \A r \in DOMAIN arrival : Left(matches, arrival[r]) \in Int
    BY <2>b, <2>c DEF Left
  <2>e. \A s \in DOMAIN MinQuantity : MinQuantity[s] \in Nat
    BY MatchingAssumption
  <2>f. \A r \in DOMAIN arrival :
          /\ Drained(matches, arrival[r])
          /\ Fields[arrival[r]].symbol \in DOMAIN MinQuantity
          => ~ (/\ Residual(arrival[r]) > 0
                /\ Residual(arrival[r]) >= MinQuantity[Fields[arrival[r]].symbol])
    BY <2>a, <2>d, <2>e DEF Drained
  <2> SUFFICES ASSUME Done, DistinctReveals, OneSided,
                      NEW p \in DOMAIN arrival, NEW q \in DOMAIN arrival,
                      Fields[arrival[p]].side = "Buy", Fields[arrival[q]].side = "Sell",
                      Fields[arrival[p]].symbol = Fields[arrival[q]].symbol,
                      Fields[arrival[p]].symbol \in DOMAIN MinQuantity,
                      Price(arrival[p]) >= Price(arrival[q])
               PROVE  Drained(matches, arrival[p]) \/ Drained(matches, arrival[q])
    BY <2>f DEF NothingLeft
  <2>1. ~ Crossing /\ todo = {}
    BY DEF Done
  <2>2. \/ Drained(matches, arrival[p]) \/ Drained(matches, arrival[q])
        \/ /\ \E i \in DOMAIN buys : buys[i] = arrival[p]
           /\ \E j \in DOMAIN sells : sells[j] = arrival[q]
    BY <2>1 DEF DrainInv
  <2>3. ASSUME NEW i \in DOMAIN buys, NEW j \in DOMAIN sells,
               buys[i] = arrival[p], sells[j] = arrival[q]
        PROVE  Drained(matches, arrival[p]) \/ Drained(matches, arrival[q])
    BY <2>1, <2>3, BooksDrained
  <2> QED BY <2>2, <2>3
<1> QED BY <1>1, LedgerInvariant, DrainInvariant, PTL

\* PriorityKept in terms of the list of matches.
PriorityIn(ms) ==
  \A p, q \in DOMAIN arrival :
    /\ Fields[arrival[p]].side = "Buy" /\ Fields[arrival[q]].side = "Buy"
    /\ Fields[arrival[p]].symbol = Fields[arrival[q]].symbol
    /\ Price(arrival[p]) > Price(arrival[q])
    /\ FilledIn(ms, arrival[q]) > 0
    => Drained(ms, arrival[p])

\* A fill goes to a buy whose betters the pointer has passed.
LEMMA PriorityFill ==
  ASSUME LedgerInv, DrainInv, DistinctReveals, OneSided, PriorityIn(matches), Fill
  PROVE  PriorityIn(matches')
<1> SUFFICES ASSUME NEW p \in DOMAIN arrival, NEW q \in DOMAIN arrival,
                    Fields[arrival[p]].side = "Buy", Fields[arrival[q]].side = "Buy",
                    Fields[arrival[p]].symbol = Fields[arrival[q]].symbol,
                    Price(arrival[p]) > Price(arrival[q]),
                    FilledIn(matches', arrival[q]) > 0
             PROVE  Drained(matches', arrival[p])
  <2>1. arrival' = arrival
    BY DEF Fill
  <2> QED BY <2>1 DEF PriorityIn
<1>1. Crossing
  BY DEF Fill
<1> SUFFICES Drained(matches, arrival[p])
  BY FillDrains
<1>2. \A o : o \notin {Buy, Sell} => FilledIn(matches', o) = FilledIn(matches, o)
  BY FillFills DEF LedgerInv
<1>3. CASE \A w \in DOMAIN buys : buys[w] # arrival[q]
  <2>1. arrival[q] # Buy /\ arrival[q] # Sell
    BY <1>1, <1>3, CrossingOrders DEF LedgerInv, Crossing, Buy
  <2>2. FilledIn(matches, arrival[q]) > 0
    BY <1>2, <2>1
  <2> QED BY <2>2 DEF PriorityIn
<1>4. ASSUME NEW w \in DOMAIN buys, buys[w] = arrival[q]
      PROVE  Drained(matches, arrival[p])
  <2>1. PICK v \in DOMAIN buys : buys[v] = arrival[p]
    BY <1>4 DEF LedgerInv, BookInv, BookFrom
  <2>2. /\ DOMAIN buys \subseteq Nat /\ buy_idx \in Nat
    BY BookIndices DEF LedgerInv
  <2>3. Price(buys[v]) \in Nat /\ Price(buys[w]) \in Nat
    BY ElementOfSeq, LenProperties, OrderTypes DEF LedgerInv, MatchingInv, MatchingTypeOK
  <2>4. v < w
    <3>1. Price(buys[v]) > Price(buys[w])
      BY <1>4, <2>1
    <3>2. ~ (w < v)
      BY <2>3, <3>1 DEF LedgerInv, BookInv, BestFirst
    <3>3. w # v
      BY <2>3, <3>1
    <3> QED BY <2>2, <3>2, <3>3
  <2>5. w <= buy_idx
    <3> SUFFICES ASSUME w > buy_idx PROVE FALSE
      BY <2>2
    <3>1. buys[w] # Buy /\ buys[w] # Sell
      BY <1>1, <2>2, AtPointers, AllOnce DEF LedgerInv
    <3>2. FilledIn(matches, buys[w]) = 0
      BY AllOnce DEF LedgerInv, CountInv, Accounted
    <3>3. FilledIn(matches', arrival[q]) = 0
      BY <1>2, <1>4, <3>1, <3>2
    <3> QED BY <3>3
  <2>6. v < buy_idx
    BY <2>2, <2>4, <2>5
  <2> QED BY <2>1, <2>6 DEF DrainInv
<1> QED BY <1>3, <1>4

\* Price priority: a buy is filled only if every buy of the symbol with a better
\* price has less than the minimum left.
THEOREM PriorityAlwaysKept == Spec => []PriorityKept
<1> DEFINE P == DistinctReveals /\ OneSided => PriorityIn(matches)
<1>1. Init => P
  BY FilledNat DEF Init, PriorityIn
<1>2. LedgerInv /\ DrainInv /\ P /\ [Next]_matchVars => P'
  <2> SUFFICES ASSUME LedgerInv, DrainInv, P, [Next]_matchVars PROVE P'
    OBVIOUS
  <2>1. CASE UNCHANGED <<arrival, matches>>
    BY <2>1 DEF DistinctReveals, OneSided, PriorityIn, Price, Owner, Drained, Left,
       Quantity
  <2>2. CASE Fill
    <3>1. arrival' = arrival
      BY <2>2 DEF Fill
    <3>2. CASE ~ (DistinctReveals /\ OneSided)
      BY <3>1, <3>2 DEF DistinctReveals, OneSided, Owner
    <3>3. CASE DistinctReveals /\ OneSided
      <4>1. PriorityIn(matches')
        BY <2>2, <3>3, PriorityFill
      <4> QED BY <3>1, <4>1 DEF PriorityIn, Price, Drained, Left, Quantity
    <3> QED BY <3>2, <3>3
  <2> QED BY <2>1, <2>2 DEF Next, NextSymbol, SkipSelf, SkipDust, matchVars
<1>3. P => PriorityKept
  BY FilledNow DEF PriorityKept, PriorityIn, Drained, Left, Residual
<1> QED BY <1>1, <1>2, <1>3, LedgerInvariant, DrainInvariant, PTL DEF Spec
-----------------------------------------------------------------------------
(* Two nodes with the same reveals.                                        *)

\* sort_orders compares by price and hash, which leaves no two different orders
\* without one that goes first.
LEMMA BeforeTotal ==
  ASSUME NEW a \in Order, NEW b \in Order, NEW c \in Order, NEW side
  PROVE  /\ a # b => Before(side, a, b) \/ Before(side, b, a)
         /\ Before(side, a, b) => ~ Before(side, b, a)
         /\ Before(side, a, b) /\ ~ Before(side, c, b) => Before(side, a, c)
<1>1. /\ a \in Nat /\ b \in Nat /\ c \in Nat
      /\ Price(a) \in Nat /\ Price(b) \in Nat /\ Price(c) \in Nat
  BY OrderTypes, MatchingAssumption
<1> QED BY <1>1 DEF Before, BuyBefore, SellBefore

\* h lists the positions P of the list of orders a, none before one that goes
\* first.
Lists(h, n, P, a, side) ==
  /\ h \in Bijection(1..n, P)
  /\ \A k, l \in 1..n : k < l => ~ Before(side, a[h[l]], a[h[k]])

\* Of two sorted listings of the same positions, the second has no later order
\* where the first has an earlier one: it would have to list the k first of the
\* other in fewer than k places.
LEMMA ListsInOrder ==
  ASSUME NEW a \in Seq(Order), NEW P \in SUBSET DOMAIN a,
         NEW side, NEW n \in Nat, NEW f, NEW h,
         Lists(f, n, P, a, side), Lists(h, n, P, a, side), NEW k \in 1..n
  PROVE  ~ Before(side, a[f[k]], a[h[k]])
<1> SUFFICES ASSUME Before(side, a[f[k]], a[h[k]]) PROVE FALSE
  OBVIOUS
<1>0. \A i \in P : a[i] \in Order
  BY ElementOfSeq, LenProperties
<1>1. /\ f \in [1..n -> P] /\ \A i, j \in 1..n : f[i] = f[j] => i = j
      /\ h \in [1..n -> P] /\ \A q \in P : \E j \in 1..n : h[j] = q
      /\ \A i \in 1..n : a[f[i]] \in Order /\ a[h[i]] \in Order
  BY <1>0 DEF Lists, Bijection, Injection, Surjection, IsInjective
<1> DEFINE g == [i \in 1..k |-> CHOOSE j \in 1..n : h[j] = f[i]]
<1>2. \A i \in 1..k : g[i] \in 1..n /\ h[g[i]] = f[i]
  <2> SUFFICES ASSUME NEW i \in 1..k PROVE g[i] \in 1..n /\ h[g[i]] = f[i]
    OBVIOUS
  <2>1. \E j \in 1..n : h[j] = f[i]
    <3>1. i \in 1..n
      OBVIOUS
    <3> QED BY <3>1, <1>1
  <2>2. g[i] = CHOOSE j \in 1..n : h[j] = f[i]
    OBVIOUS
  <2> QED BY <2>1, <2>2
<1>3. \A i \in 1..k : g[i] < k
  <2> SUFFICES ASSUME NEW i \in 1..k, ~ (g[i] < k) PROVE FALSE
    OBVIOUS
  <2> DEFINE j == g[i]
  <2>1. j \in 1..n /\ h[j] = f[i] /\ k <= j /\ i \in 1..n
    BY <1>2
  <2> HIDE DEF g, j
  <2>2. ~ Before(side, a[h[j]], a[h[k]])
    <3>1. CASE j = k
      BY <3>1, <1>1, BeforeTotal
    <3>2. CASE k < j
      BY <3>2, <2>1 DEF Lists
    <3> QED BY <3>1, <3>2, <2>1
  <2>3. Before(side, a[f[k]], a[f[i]])
    <3>1. a[f[k]] \in Order /\ a[h[k]] \in Order /\ a[f[i]] \in Order
      BY <1>1, <2>1
    <3>2. ~ Before(side, a[f[i]], a[h[k]])
      BY <2>1, <2>2
    <3> QED BY <3>1, <3>2, BeforeTotal
  <2>4. CASE i = k
    BY <2>4, <2>3, <1>1, BeforeTotal
  <2>5. CASE i < k
    BY <2>5, <2>3, <2>1 DEF Lists
  <2> QED BY <2>4, <2>5
<1>4. g \in [1..k -> 1..(k - 1)]
  <2>1. \A i \in 1..k : g[i] \in 1..(k - 1)
    <3> HIDE DEF g
    <3> SUFFICES ASSUME NEW i \in 1..k PROVE g[i] \in 1..(k - 1)
      OBVIOUS
    <3>1. g[i] \in 1..n /\ g[i] < k
      BY <1>2, <1>3
    <3> QED BY <3>1
  <2> QED BY <2>1
<1>5. /\ IsFiniteSet(1..k) /\ IsFiniteSet(1..(k - 1))
      /\ Cardinality(1..(k - 1)) < Cardinality(1..k)
  <2>1. 1 \in Int /\ k \in Int /\ k - 1 \in Int /\ 1 <= k
    OBVIOUS
  <2>2. IsFiniteSet(1..k) /\ Cardinality(1..k) = k
    BY <2>1, FS_Interval
  <2>3. IsFiniteSet(1..(k - 1)) /\ Cardinality(1..(k - 1)) = k - 1
    BY <2>1, FS_Interval, Z3
  <2> QED BY <2>1, <2>2, <2>3
<1> HIDE DEF g
<1>6. PICK x \in 1..k, y \in 1..k : x # y /\ g[x] = g[y]
  BY <1>4, <1>5, FS_PigeonHole
<1>7. f[x] = f[y] /\ x \in 1..n /\ y \in 1..n
  BY <1>2, <1>6
<1> QED BY <1>1, <1>6, <1>7

\* So the sorted book of a side does not depend on how it was found.
LEMMA ListsAgree ==
  ASSUME NEW a \in Seq(Order), NEW P \in SUBSET DOMAIN a,
         NEW side, NEW n \in Nat, NEW f, NEW h,
         Lists(f, n, P, a, side), Lists(h, n, P, a, side)
  PROVE  \A k \in 1..n : a[f[k]] = a[h[k]]
<1> SUFFICES ASSUME NEW k \in 1..n PROVE a[f[k]] = a[h[k]]
  OBVIOUS
<1>0. \A i \in P : a[i] \in Order
  BY ElementOfSeq, LenProperties
<1>1. a[f[k]] \in Order /\ a[h[k]] \in Order
  BY <1>0 DEF Lists, Bijection, Injection
<1>2. ~ Before(side, a[f[k]], a[h[k]]) /\ ~ Before(side, a[h[k]], a[f[k]])
  BY ListsInOrder
<1> QED BY <1>1, <1>2, BeforeTotal

\* The second node compares as the first one does.
LEMMA PeerBefore ==
  ASSUME NEW side, NEW x, NEW y PROVE Peer!Before(side, x, y) <=> Before(side, x, y)
BY DEF Peer!Before, Peer!BuyBefore, Peer!SellBefore, Peer!Price, Before, BuyBefore,
       SellBefore, Price

\* and counts as it does.
LEMMA PeerCounts ==
  /\ \A S : Peer!Cardinality(S) = Cardinality(S)
  /\ \A S, T : Peer!Bijection(S, T) = Bijection(S, T)
<1>1. \A S : Peer!Cardinality(S) = Cardinality(S)
  BY DEF Peer!Cardinality, Cardinality
<1>2. \A S, T : Peer!Bijection(S, T) = Bijection(S, T)
  BY DEF Peer!Bijection, Peer!Injection, Peer!Surjection, Peer!IsInjective, Bijection, Injection,
         Surjection, IsInjective
<1> QED BY <1>1, <1>2

\* Both nodes sort the same book of a side.
LEMMA SameBook ==
  ASSUME arrival \in Seq(Order), SameReveals, NEW sym, NEW side,
         NEW b \in sort_orders(sym, side), NEW c \in Peer!sort_orders(sym, side)
  PROVE  b = c
<1> DEFINE P == Positions(sym, side)
           Q == Peer!Positions(sym, side)
           n == Cardinality(P)
           m == Cardinality(Q)
<1>1. PICK p \in Bijection(DOMAIN arrival, DOMAIN arrival) :
        peer_arrival = [i \in DOMAIN arrival |-> arrival[p[i]]]
  BY DEF SameReveals
<1>2. /\ p \in [DOMAIN arrival -> DOMAIN arrival]
      /\ \A i, j \in DOMAIN arrival : p[i] = p[j] => i = j
      /\ \A q \in DOMAIN arrival : \E i \in DOMAIN arrival : p[i] = q
  BY <1>1 DEF Bijection, Injection, Surjection, IsInjective
<1>3. /\ P \subseteq DOMAIN arrival /\ Q \subseteq DOMAIN arrival
      /\ \A i \in DOMAIN arrival : i \in Q <=> p[i] \in P
  BY <1>1, <1>2 DEF Positions, Peer!Positions
<1>4. P \in SUBSET DOMAIN arrival
  BY <1>3
<1>5. IsFiniteSet(P) /\ IsFiniteSet(Q) /\ n \in Nat
  <2>1. DOMAIN arrival = 1..Len(arrival) /\ Len(arrival) \in Nat
    BY LenProperties
  <2>2. IsFiniteSet(1..Len(arrival))
    BY <2>1, FS_Interval
  <2>3. IsFiniteSet(P) /\ IsFiniteSet(Q)
    BY <1>3, <2>1, <2>2, FS_Subset
  <2> QED BY <2>3, FS_CardinalityType
<1>6. PICK f \in Bijection(1..n, P) :
        /\ b = [k \in 1..n |-> arrival[f[k]]]
        /\ \A k, l \in 1..n : k < l => ~ Before(side, arrival[f[l]], arrival[f[k]])
  BY DEF sort_orders
<1>7. PICK g \in Bijection(1..m, Q) :
        /\ c = [k \in 1..m |-> peer_arrival[g[k]]]
        /\ \A k, l \in 1..m :
             k < l => ~ Peer!Before(side, peer_arrival[g[l]], peer_arrival[g[k]])
  BY PeerCounts DEF Peer!sort_orders
<1> HIDE DEF P, Q, n, m
<1>8. n = m
  <2> DEFINE r == [i \in Q |-> p[i]]
  <2>1. r \in [Q -> P] /\ \A i, j \in Q : r[i] = r[j] => i = j
    BY <1>2, <1>3
  <2>2. \A q \in P : \E i \in Q : r[i] = q
    BY <1>2, <1>3
  <2> HIDE DEF r
  <2>3. r \in Bijection(Q, P)
    BY <2>1, <2>2 DEF Bijection, Injection, Surjection, IsInjective
  <2> QED BY <1>5, <2>3, FS_Bijection DEF n, m, ExistsBijection
<1> DEFINE h == [k \in 1..n |-> p[g[k]]]
<1>9. /\ g \in [1..n -> Q] /\ \A i, j \in 1..n : g[i] = g[j] => i = j
      /\ \A q \in Q : \E i \in 1..n : g[i] = q
  BY <1>7, <1>8 DEF Bijection, Injection, Surjection, IsInjective
<1>10. \A k \in 1..n : h[k] \in P /\ c[k] = arrival[h[k]] /\ c[k] = peer_arrival[g[k]]
  BY <1>1, <1>3, <1>7, <1>8, <1>9
<1>11. h \in Bijection(1..n, P)
  <2>1. h \in [1..n -> P]
    BY <1>10
  <2>2. \A i, j \in 1..n : h[i] = h[j] => i = j
    BY <1>2, <1>3, <1>9
  <2>3. \A q \in P : \E i \in 1..n : h[i] = q
    <3> SUFFICES ASSUME NEW q \in P PROVE \E i \in 1..n : h[i] = q
      OBVIOUS
    <3>1. PICK i \in Q : p[i] = q
      BY <1>2, <1>3
    <3>2. PICK k \in 1..n : g[k] = i
      BY <1>9
    <3> QED BY <3>1, <3>2
  <2> HIDE DEF h
  <2> QED BY <2>1, <2>2, <2>3 DEF Bijection, Injection, Surjection, IsInjective
<1> HIDE DEF h
<1>12. Lists(f, n, P, arrival, side)
  BY <1>6 DEF Lists
<1>13. Lists(h, n, P, arrival, side)
  BY <1>7, <1>8, <1>10, <1>11, PeerBefore DEF Lists
<1>14. \A k \in 1..n : arrival[f[k]] = arrival[h[k]]
  BY <1>4, <1>5, <1>12, <1>13, ListsAgree
<1>15. c = [k \in 1..n |-> c[k]] /\ b = [k \in 1..n |-> b[k]]
  BY <1>6, <1>7, <1>8
<1>16. \A k \in 1..n : b[k] = c[k]
  BY <1>6, <1>10, <1>14
<1> QED BY <1>15, <1>16

\* Both calls are at the same place: they hold the same reveals, perhaps in
\* another order, and agree in everything else.
SameRun ==
  /\ SameReveals
  /\ peer_todo = todo /\ peer_buys = buys /\ peer_sells = sells
  /\ peer_buy_idx = buy_idx /\ peer_sell_idx = sell_idx
  /\ peer_buy_remaining = buy_remaining /\ peer_sell_remaining = sell_remaining
  /\ peer_matches = matches

\* What both nodes see of the books.
LEMMA SameView ==
  ASSUME SameRun
  PROVE  /\ Peer!Crossing <=> Crossing
         /\ Peer!Done <=> Done
         /\ Peer!SelfTrade <=> SelfTrade
         /\ Peer!Buy = Buy /\ Peer!Sell = Sell
         /\ Peer!fill_qty = fill_qty /\ Peer!min_quantity = min_quantity
         /\ Peer!buy_has_alt <=> buy_has_alt
         /\ Peer!sell_has_alt <=> sell_has_alt
         /\ Peer!settlement_price = settlement_price
         /\ \A book, i : Peer!remaining(book, i) = remaining(book, i)
BY DEF SameRun, Peer!Crossing, Crossing, Peer!Done, Done, Peer!SelfTrade, SelfTrade, Peer!Buy,
   Peer!Sell, Buy, Sell, Peer!fill_qty, fill_qty, Peer!min_quantity, min_quantity,
   Peer!buy_has_alt, buy_has_alt, Peer!sell_has_alt, sell_has_alt, Peer!settlement_price,
   settlement_price, Peer!remaining, remaining, Peer!Price, Price, Peer!Owner, Owner,
   Peer!Quantity, Quantity

\* The reveals are never rearranged.
LEMMA RevealsStay ==
  ASSUME SameReveals, UNCHANGED <<arrival, peer_arrival>> PROVE SameReveals'
BY DEF SameReveals

\* Both nodes go on to the same symbol and sort the same books.
LEMMA SameNextSymbol ==
  ASSUME MatchingInv, SameRun, NextSymbol, Peer!NextSymbol PROVE SameRun'
<1>1. PICK s \in todo :
        /\ \A other \in todo : s <= other
        /\ todo' = todo \ {s}
        /\ IF s \in DOMAIN MinQuantity
           THEN buys' \in sort_orders(s, "Buy") /\ sells' \in sort_orders(s, "Sell")
           ELSE buys' = <<>> /\ sells' = <<>>
  BY DEF NextSymbol
<1>2. PICK t \in todo :
        /\ \A other \in todo : t <= other
        /\ peer_todo' = todo \ {t}
        /\ IF t \in DOMAIN MinQuantity
           THEN /\ peer_buys' \in Peer!sort_orders(t, "Buy")
                /\ peer_sells' \in Peer!sort_orders(t, "Sell")
           ELSE peer_buys' = <<>> /\ peer_sells' = <<>>
  BY DEF Peer!NextSymbol, SameRun
<1>3. s = t
  <2>1. s \in Nat /\ t \in Nat /\ s <= t /\ t <= s
    BY <1>1, <1>2, MatchingAssumption DEF MatchingInv, MatchingTypeOK
  <2> QED BY <2>1
<1>4. peer_buys' = buys' /\ peer_sells' = sells'
  <2>1. CASE s \in DOMAIN MinQuantity
    BY <1>1, <1>2, <1>3, <2>1, SameBook DEF SameRun, MatchingInv, MatchingTypeOK
  <2>2. CASE s \notin DOMAIN MinQuantity
    BY <1>1, <1>2, <1>3, <2>2
  <2> QED BY <2>1, <2>2
<1>5. /\ arrival' = arrival /\ matches' = matches /\ buy_idx' = 1 /\ sell_idx' = 1
      /\ buy_remaining' = remaining(buys', 1) /\ sell_remaining' = remaining(sells', 1)
      /\ peer_arrival' = peer_arrival /\ peer_matches' = peer_matches
      /\ peer_buy_idx' = 1 /\ peer_sell_idx' = 1
      /\ peer_buy_remaining' = Peer!remaining(peer_buys', 1)
      /\ peer_sell_remaining' = Peer!remaining(peer_sells', 1)
  BY DEF NextSymbol, Peer!NextSymbol
<1> QED BY <1>1, <1>2, <1>3, <1>4, <1>5, SameView, RevealsStay DEF SameRun

\* Both pass over the same order.
LEMMA SameSkip ==
  ASSUME SameRun, \/ SkipSelf /\ Peer!SkipSelf
                  \/ SkipDust /\ Peer!SkipDust
  PROVE  SameRun'
<1>1. /\ UNCHANGED <<arrival, todo, buys, sells, matches>>
      /\ UNCHANGED <<peer_arrival, peer_todo, peer_buys, peer_sells, peer_matches>>
  BY DEF SkipSelf, Peer!SkipSelf, SkipDust, Peer!SkipDust
<1>2. \/ advance_buy /\ Peer!advance_buy
      \/ advance_sell /\ Peer!advance_sell
  BY SameView DEF SameRun, SkipSelf, Peer!SkipSelf, SkipDust, Peer!SkipDust
<1>3. /\ peer_buy_idx' = buy_idx' /\ peer_sell_idx' = sell_idx'
      /\ peer_buy_remaining' = buy_remaining' /\ peer_sell_remaining' = sell_remaining'
  BY <1>2, SameView
     DEF SameRun, advance_buy, advance_sell, Peer!advance_buy, Peer!advance_sell
<1> QED BY <1>1, <1>3, RevealsStay DEF SameRun

\* Both fill the same two orders.
LEMMA SameFill == ASSUME SameRun, Fill, Peer!Fill PROVE SameRun'
<1>1. /\ UNCHANGED <<arrival, todo, buys, sells>>
      /\ UNCHANGED <<peer_arrival, peer_todo, peer_buys, peer_sells>>
  BY DEF Fill, Peer!Fill
<1>2. Peer!determine_gas_payer(Buy, Sell) = determine_gas_payer(Buy, Sell)
  BY DEF Peer!determine_gas_payer, determine_gas_payer, Peer!Owner, Owner
<1>3. peer_matches' = matches'
  BY <1>2, SameView DEF SameRun, Fill, Peer!Fill
<1>4. /\ peer_buy_idx' = buy_idx' /\ peer_sell_idx' = sell_idx'
      /\ peer_buy_remaining' = buy_remaining' /\ peer_sell_remaining' = sell_remaining'
  BY SameView DEF SameRun, Fill, Peer!Fill, AfterFill, Peer!AfterFill
<1> QED BY <1>1, <1>3, <1>4, RevealsStay DEF SameRun

\* Two nodes with the same reveals make the same turn.
LEMMA SameTurn == ASSUME MatchingInv, SameRun, NodesNext PROVE SameRun'
<1>1. CASE Done
  <2>1. UNCHANGED matchVars /\ UNCHANGED peerVars
    BY <1>1, SameView DEF NodesNext, NodeStep, PeerStep, Next, Peer!Next, Done, NextSymbol,
       SkipSelf, SkipDust, Fill, Peer!NextSymbol, Peer!SkipSelf, Peer!SkipDust, Peer!Fill,
       Peer!Done
  <2> QED BY <2>1, RevealsStay DEF SameRun, matchVars, peerVars
<1>2. CASE ~ Done
  <2>1. Next /\ Peer!Next
    BY <1>2, SameView DEF NodesNext, NodeStep, PeerStep
  <2>2. Crossing => ~ (fill_qty < min_quantity /\ fill_qty >= min_quantity)
    BY CrossingOrders, MatchingAssumption
       DEF MatchingInv, MatchingTypeOK, BooksOK, Crossing, Buy, fill_qty, min_quantity
  <2>3. /\ NextSymbol => ~ Crossing
        /\ SkipSelf => Crossing /\ SelfTrade
        /\ SkipDust => Crossing /\ ~ SelfTrade /\ fill_qty < min_quantity
        /\ Fill => Crossing /\ ~ SelfTrade /\ fill_qty >= min_quantity
    BY DEF NextSymbol, SkipSelf, SkipDust, Fill
  <2>4. /\ Peer!NextSymbol => ~ Crossing
        /\ Peer!SkipSelf => Crossing /\ SelfTrade
        /\ Peer!SkipDust => Crossing /\ ~ SelfTrade /\ fill_qty < min_quantity
        /\ Peer!Fill => Crossing /\ ~ SelfTrade /\ fill_qty >= min_quantity
    BY SameView DEF Peer!NextSymbol, Peer!SkipSelf, Peer!SkipDust, Peer!Fill
  <2>5. \/ NextSymbol /\ Peer!NextSymbol
        \/ SkipSelf /\ Peer!SkipSelf
        \/ SkipDust /\ Peer!SkipDust
        \/ Fill /\ Peer!Fill
    BY <2>1, <2>2, <2>3, <2>4 DEF Next, Peer!Next
  <2> QED BY <2>5, SameNextSymbol, SameSkip, SameFill
<1> QED BY <1>1, <1>2

\* Nodes that hold the same reveals produce the same list of matches, in
\* whatever order the reveals reached them and also if one reached them twice:
\* this is all that agreement on the matches of a batch rests on.
THEOREM NodesAlwaysAgree == NodesSpec => []NodesAgree
<1>1. NodesInit => MatchingInv /\ SameRun
  BY MatchingInitInv DEF NodesInit, Init, SameRun
<1>2. /\ MatchingInv /\ SameRun /\ [NodesNext]_<<matchVars, peerVars>>
      => MatchingInv' /\ SameRun'
  <2> SUFFICES ASSUME MatchingInv, SameRun, [NodesNext]_<<matchVars, peerVars>>
               PROVE  MatchingInv' /\ SameRun'
    OBVIOUS
  <2>1. [Next]_matchVars
    BY DEF NodesNext, NodeStep, matchVars
  <2>2. ASSUME UNCHANGED <<matchVars, peerVars>> PROVE SameRun'
    BY <2>2, RevealsStay DEF SameRun, matchVars, peerVars
  <2> QED BY <2>1, <2>2, SameTurn, MatchingNextInv
<1>3. SameRun => NodesAgree
  BY DEF SameRun, NodesAgree
<1> QED BY <1>1, <1>2, <1>3, PTL DEF NodesSpec
=============================================================================
