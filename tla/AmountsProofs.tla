--------------------------- MODULE AmountsProofs ---------------------------
(* Proofs about the conversions, for every scale and every amount.          *)
EXTENDS CrateAmounts, FiniteSetTheorems, TLAPS

\* Arithmetic, as it is proved beside the curve's; the scale of a price is not in it.
Arithmetic == INSTANCE CurveMathProofs WITH Wad <- 1

LEMMA MulNat == ASSUME NEW a \in Nat, NEW b \in Nat PROVE a * b \in Nat
OBVIOUS

LEMMA MulMono ==
    ASSUME NEW a \in Nat, NEW b \in Nat, NEW d \in Nat, a <= b
    PROVE  a * d <= b * d
OBVIOUS

LEMMA Euclid ==
    \A k \in Nat, s \in Nat \ {0} :
        \E q \in Nat, r \in 0 .. s - 1 :
            q = k \div s /\ r = k % s /\ k = q * s + r
OBVIOUS

LEMMA EuclidUnique ==
    ASSUME NEW q \in Nat, NEW s \in Nat \ {0}, NEW r \in 0 .. s - 1
    PROVE  (q * s + r) \div s = q /\ (q * s + r) % s = r
BY Arithmetic!EuclidUnique, U256Assumption

LEMMA FeeRecovered ==
    ASSUME NEW gross \in Nat
    PROVE  /\ BuyFeeRaw(gross) \in 0 .. gross
           /\ SellFeeRaw(gross - BuyFeeRaw(gross)) \in {BuyFeeRaw(gross), BuyFeeRaw(gross) + 1}
           /\ SellOutRaw(BuyFeeRaw(gross))
                \in (gross - BuyFeeRaw(gross)) - 124 .. gross - BuyFeeRaw(gross)
BY Arithmetic!FeeRecovered, U256Assumption
   DEF BuyFeeRaw, SellFeeRaw, SellOutRaw, PoolTradeFeeBps, BpsDenominator,
       Arithmetic!BuyFeeRaw, Arithmetic!SellFeeRaw, Arithmetic!SellOutRaw,
       Arithmetic!PoolTradeFeeBps, Arithmetic!BpsDenominator

\* Every set of natural numbers has a least element: of the intervals below its
\* members one contains no smaller one.
LEMMA LeastExists ==
    ASSUME NEW S \in SUBSET Nat, S # {}
    PROVE  Min(S) \in S /\ \A n \in S : Min(S) <= n
<1> DEFINE T == {0 .. n : n \in S}
<1>1. T \subseteq FiniteSubsetsOf(Nat) /\ T # {}
  <2> SUFFICES ASSUME NEW n \in S PROVE 0 .. n \in FiniteSubsetsOf(Nat)
    OBVIOUS
  <2>1. IsFiniteSet(0 .. n)
    BY FS_Interval
  <2> QED
    BY <2>1 DEF FiniteSubsetsOf
<1>2. IsWellFoundedOn(StrictSubsetOrdering(Nat), FiniteSubsetsOf(Nat))
  BY FS_StrictSubsetOrderingWellFounded
<1>3. \E x \in T : \A y \in T : ~ (<<y, x>> \in StrictSubsetOrdering(Nat))
  <2> HIDE DEF T
  <2> QED
    BY <1>1, <1>2, WFMin, Zenon
<1>4. PICK m \in S : \A n \in S : ~ (<<0 .. n, 0 .. m>> \in StrictSubsetOrdering(Nat))
  BY <1>3, Zenon
<1>5. ASSUME NEW n \in S PROVE m <= n
  <2> SUFFICES ASSUME n < m PROVE FALSE
    OBVIOUS
  <2>1. 0 .. n \subseteq 0 .. m /\ m \in 0 .. m /\ ~(m \in 0 .. n)
    OBVIOUS
  <2>2. <<0 .. n, 0 .. m>> \in StrictSubsetOrdering(Nat)
    BY <2>1 DEF StrictSubsetOrdering
  <2> QED
    BY <1>4, <2>2
<1> QED
  BY <1>5 DEF Min

-----------------------------------------------------------------------------
LEMMA ScaleNat ==
    ASSUME NEW token, ValidQuoteToken(token)
    PROVE  /\ QuoteScaleOf(token) \in Nat \ {0}
           /\ Ten[token.decimals] \in Nat \ {0}
           /\ QuoteScaleOf(token) * Ten[token.decimals] = Ten[WadDecimals]
<1>0. WadDecimals \in Nat /\ token.decimals \in 0 .. WadDecimals
  BY AmountsAssumption DEF ValidQuoteToken
<1>1. /\ WadDecimals - token.decimals \in 0 .. WadDecimals
      /\ token.decimals \in 0 .. WadDecimals
      /\ (WadDecimals - token.decimals) + token.decimals = WadDecimals
  BY <1>0
<1>2. \A n \in 0 .. WadDecimals : Ten[n] \in Nat \ {0}
  BY AmountsAssumption
<1>3. WadDecimals \in 0 .. WadDecimals
  BY <1>0
<1>4. Ten[WadDecimals] = Ten[WadDecimals - token.decimals] * Ten[token.decimals]
  BY <1>0, <1>3, AmountsAssumption, Zenon
<1> QED
  BY <1>1, <1>2, <1>4, Zenon DEF QuoteScaleOf

-----------------------------------------------------------------------------
LEMMA HeldWad ==
    ASSUME NEW a \in [token : QuoteTokens, wad : Nat]
    PROVE  /\ a.wad \in Nat
           /\ a = QuoteAmount(a.token, a.wad)
           /\ ValidQuoteToken(a.token)
           /\ QuoteScaleOf(a.token) \in Nat \ {0}
           /\ \E k \in Nat, r \in 0 .. QuoteScaleOf(a.token) - 1 :
                 /\ a.wad = k * QuoteScaleOf(a.token) + r
                 /\ k = a.wad \div QuoteScaleOf(a.token)
                 /\ r = a.wad % QuoteScaleOf(a.token)
<1>1. a.wad \in Nat /\ a = QuoteAmount(a.token, a.wad) /\ a.token \in QuoteTokens
  BY DEF QuoteAmount
<1>2. ValidQuoteToken(a.token)
  BY <1>1, UseAssumption
<1>3. QuoteScaleOf(a.token) \in Nat \ {0}
  BY <1>2, ScaleNat
<1> QED
  BY <1>1, <1>2, <1>3, Euclid

\* The raw minimum of a floor: the least number of raw units that reaches it.
LEMMA SentLeast ==
    ASSUME NEW a \in [token : QuoteTokens, wad : Nat]
    PROVE  /\ ToRaw(CeilToRepresentable(a)) \in Nat
           /\ \A raw \in Nat :
                 raw >= ToRaw(CeilToRepresentable(a)) <=> FromRaw(a.token, raw).wad >= a.wad
<1> DEFINE s == QuoteScaleOf(a.token)
<1>0. a.wad \in Nat /\ a = QuoteAmount(a.token, a.wad) /\ s \in Nat \ {0}
  BY HeldWad
<1>1. PICK k \in Nat, r \in 0 .. s - 1 :
         a.wad = k * s + r /\ k = a.wad \div s /\ r = a.wad % s
  BY HeldWad
<1>2. \A raw \in Nat : FromRaw(a.token, raw).wad = raw * s
  BY DEF FromRaw, QuoteAmount
<1> HIDE DEF s
<1>3. CASE r = 0
  <2>1. CeilToRepresentable(a) = a /\ ToRaw(a) = k
    BY <1>1, <1>3 DEF CeilToRepresentable, IsRepresentable, ToRaw, s
  <2>2. ASSUME NEW raw \in Nat PROVE raw >= k <=> raw * s >= a.wad
    <3>1. ASSUME raw >= k PROVE raw * s >= k * s
      BY <3>1, <1>0, MulMono
    <3>2. ASSUME k >= raw + 1 PROVE k * s >= raw * s + s
      BY <3>2, <1>0, MulMono
    <3> QED
      BY <1>0, <1>1, <1>3, <3>1, <3>2, MulNat
  <2> QED
    BY <1>2, <2>1, <2>2
<1>4. CASE r # 0
  <2>1. CeilToRepresentable(a) = QuoteAmount(a.token, k * s + r + s - r)
    BY <1>1, <1>4 DEF CeilToRepresentable, IsRepresentable, s
  <2>2. k * s + r + s - r = (k + 1) * s + 0 /\ k * s \in Nat
    BY <1>0, MulNat
  <2>3. ((k + 1) * s + 0) \div s = k + 1 /\ ((k + 1) * s + 0) % s = 0
    BY <1>0, EuclidUnique
  <2>4. ToRaw(CeilToRepresentable(a)) = k + 1
    BY <2>1, <2>2, <2>3 DEF ToRaw, IsRepresentable, QuoteAmount, s
  <2>5. ASSUME NEW raw \in Nat PROVE raw >= k + 1 <=> raw * s >= a.wad
    <3>1. ASSUME raw >= k + 1 PROVE raw * s >= k * s + s
      BY <3>1, <1>0, MulMono
    <3>2. ASSUME k >= raw PROVE k * s >= raw * s
      BY <3>2, <1>0, MulMono
    <3> QED
      BY <1>0, <1>1, <1>4, <3>1, <3>2, MulNat
  <2> QED
    BY <1>2, <2>4, <2>5
<1> QED
  BY <1>3, <1>4

\* A floor at most 100% below a quote is between zero and the quote.
LEMMA FloorBelowQuote ==
    ASSUME NEW a \in [token : QuoteTokens, wad : Nat], NEW bps \in Nat, bps <= BpsDenominator
    PROVE  \E floor \in 0 .. a.wad : MinOutFromQuote(a, bps) = QuoteAmount(a.token, floor)
<1>0. PICK w \in Nat : w = a.wad
  BY HeldWad
<1>1. PICK part \in 0 .. 10000 : part = BpsDenominator - bps
  BY DEF BpsDenominator
<1>2. w * part \in Nat /\ w * part <= w * 10000
  <2>1. part * w <= 10000 * w
    BY MulMono
  <2> QED
    BY <2>1, MulNat
<1>3. PICK p \in Nat : p = w * part
  BY <1>2
<1>4. p \div 10000 \in 0 .. w
  <2>1. p <= 10000 * w
    BY <1>2, <1>3
  <2> QED
    BY <2>1
<1>5. Quotient(p, 10000) = p \div 10000
  BY <1>3 DEF Quotient
<1>6. MinOutFromQuote(a, bps) = NonNegative(a.token, p \div 10000)
  BY <1>0, <1>1, <1>3, <1>5 DEF MinOutFromQuote, BpsDenominator
<1> QED
  BY <1>0, <1>4, <1>6 DEF NonNegative

-----------------------------------------------------------------------------
\* What formatFixed makes of a number of units of 10^-d: its whole part, and its
\* fraction in as few digits as spell it.
LEMMA FormatIs ==
    ASSUME NEW raw \in Nat, NEW d \in 0 .. WadDecimals
    PROVE  \E whole \in Nat, fraction \in 0 .. Ten[d] - 1, length \in 0 .. d, part \in Nat :
              /\ raw = whole * Ten[d] + fraction
              /\ fraction = part * Ten[d - length]
              /\ FormatFixed(raw, d) = Text(whole, length, part)
              /\ \A n \in 0 .. d : fraction % Ten[d - n] = 0 => length <= n
<1>0. WadDecimals \in Nat /\ d \in Nat /\ d <= WadDecimals
  BY AmountsAssumption
<1>1. \A n \in 0 .. d : Ten[d - n] \in Nat \ {0}
  <2> SUFFICES ASSUME NEW n \in 0 .. d PROVE Ten[d - n] \in Nat \ {0}
    OBVIOUS
  <2>1. d - n \in 0 .. WadDecimals
    BY <1>0
  <2> QED
    BY <2>1, AmountsAssumption
<1>2. Ten[d] \in Nat \ {0}
  BY AmountsAssumption
<1>3. PICK whole \in Nat, fraction \in 0 .. Ten[d] - 1 :
         whole = raw \div Ten[d] /\ fraction = raw % Ten[d] /\ raw = whole * Ten[d] + fraction
  BY <1>2, Euclid
<1> DEFINE S == {n \in 0 .. d : fraction % Ten[d - n] = 0}
<1>4. d \in S
  <2>1. d - d = 0 /\ d \in 0 .. d /\ Ten[0] = 1
    BY <1>0, AmountsAssumption
  <2>2. fraction % 1 = 0
    BY <1>2
  <2> QED
    BY <2>1, <2>2
<1>5. Min(S) \in S /\ \A n \in S : Min(S) <= n
  <2>1. S \in SUBSET Nat /\ S # {}
    BY <1>0, <1>4
  <2> QED
    BY <2>1, LeastExists
<1>6. PICK length \in 0 .. d :
         /\ length = Min(S) /\ fraction % Ten[d - length] = 0
         /\ \A n \in 0 .. d : fraction % Ten[d - n] = 0 => length <= n
  BY <1>5
<1>7. PICK part \in Nat : part = fraction \div Ten[d - length] /\ fraction = part * Ten[d - length]
  <2>1. fraction \in Nat /\ Ten[d - length] \in Nat \ {0}
    BY <1>1, <1>2, <1>3
  <2>2. PICK m \in Nat \ {0}, u \in Nat : m = Ten[d - length] /\ u = fraction
    BY <2>1, Zenon
  <2>3. PICK part \in Nat, r \in 0 .. m - 1 :
           part = u \div m /\ r = u % m /\ u = part * m + r
    BY Euclid
  <2>4. part * m \in Nat
    BY MulNat
  <2>5. r = 0
    BY <1>6, <2>2, <2>3, Zenon
  <2>6. u = part * m
    BY <2>3, <2>4, <2>5
  <2> QED
    BY <2>2, <2>3, <2>6, Zenon
<1>8. FormatFixed(raw, d) = Text(whole, length, part)
  BY <1>3, <1>6, <1>7 DEF FormatFixed
<1>9. raw = whole * Ten[d] + fraction
  BY <1>3
<1>10. fraction = part * Ten[d - length]
  BY <1>7
<1>11. \A n \in 0 .. d : fraction % Ten[d - n] = 0 => length <= n
  BY <1>6
<1> HIDE DEF S
<1> QED
  BY <1>8, <1>9, <1>10, <1>11, Zenon

\* What formatFixed writes of a number of units of 10^-d, parseFixed reads back;
\* and the fraction it writes is as long as the number needs: no shorter one
\* spells it.
LEMMA FormatParses ==
    ASSUME NEW raw \in Nat, NEW d \in 0 .. WadDecimals
    PROVE  /\ FormatFixed(raw, d).decimal /\ ~FormatFixed(raw, d).negative
           /\ FormatFixed(raw, d).length \in 0 .. d
           /\ ParseFixed(FormatFixed(raw, d), d) = raw
           /\ \E whole, part \in Nat :
                 raw = whole * Ten[d] + part * Ten[d - FormatFixed(raw, d).length]
<1>0. WadDecimals \in Nat /\ d \in Nat /\ d <= WadDecimals
  BY AmountsAssumption
<1>8. PICK whole \in Nat, fraction \in 0 .. Ten[d] - 1, length \in 0 .. d, part \in Nat :
         /\ raw = whole * Ten[d] + fraction
         /\ fraction = part * Ten[d - length]
         /\ FormatFixed(raw, d) = Text(whole, length, part)
         /\ \A n \in 0 .. d : fraction % Ten[d - n] = 0 => length <= n
  BY FormatIs
<1>9. /\ Text(whole, length, part).decimal = TRUE
      /\ Text(whole, length, part).negative = FALSE
      /\ Text(whole, length, part).length = length
      /\ Text(whole, length, part).whole = whole
      /\ Text(whole, length, part).digits = part
  BY DEF Text
<1>10. ~(length > d)
  BY <1>0
<1>11. ParseFixed(Text(whole, length, part), d) = whole * Ten[d] + part * Ten[d - length]
  BY <1>9, <1>10 DEF ParseFixed
<1> QED
  BY <1>8, <1>9, <1>11

\* TextRoundTrip of one amount.
LEMMA AmountRoundTrips ==
    ASSUME NEW a \in [token : QuoteTokens, wad : Nat]
    PROVE  Parse(a.token, ToString(a)) = (IF IsRepresentable(a) THEN a ELSE Refused)
<1>d. PICK d \in 0 .. WadDecimals : d = a.token.decimals
  BY HeldWad DEF ValidQuoteToken
<1>s. PICK s \in Nat \ {0} : s = QuoteScaleOf(a.token) /\ s = Ten[WadDecimals - d]
  BY <1>d, HeldWad DEF QuoteScaleOf
<1>0. WadDecimals \in Nat
  BY AmountsAssumption
<1>1. PICK w \in Nat : w = a.wad /\ a = QuoteAmount(a.token, w)
  BY HeldWad
<1>2. PICK k \in Nat, r \in 0 .. s - 1 : w = k * s + r /\ k = w \div s /\ r = w % s
  BY Euclid
<1>3. CASE IsRepresentable(a)
  <2>1. r = 0 /\ k * s \in Nat
    BY <1>s, <1>1, <1>2, <1>3, MulNat DEF IsRepresentable
  <2>2. ToString(a) = FormatFixed(k, d)
    BY <1>d, <1>s, <1>1, <1>2, <1>3 DEF ToString
  <2>3. ParseFixed(ToString(a), d) = k
    BY <1>0, <2>2, FormatParses
  <2>4. k # Refused
    BY AmountsAssumption
  <2>5. Parse(a.token, ToString(a)) = QuoteAmount(a.token, k * s)
    BY <1>d, <1>s, <2>3, <2>4 DEF Parse, FromRaw
  <2>6. k * s = w
    <3>1. w = k * s + 0
      BY <1>2, <2>1, Zenon
    <3> QED
      BY <2>1, <3>1
  <2> QED
    BY <1>1, <1>3, <2>5, <2>6
<1>4. CASE ~IsRepresentable(a)
  <2>1. WadDecimals \in 0 .. WadDecimals /\ ToString(a) = FormatFixed(w, WadDecimals)
    BY <1>0, <1>1, <1>4 DEF ToString
  <2>2. PICK length \in 0 .. WadDecimals : length = FormatFixed(w, WadDecimals).length
    BY <2>1, FormatParses
  <2>3. PICK whole \in Nat, part \in Nat :
           w = whole * Ten[WadDecimals] + part * Ten[WadDecimals - length]
    <3>1. \E whole, part \in Nat :
             w = whole * Ten[WadDecimals]
                   + part * Ten[WadDecimals - FormatFixed(w, WadDecimals).length]
      BY <2>1, FormatParses, Zenon
    <3> QED
      BY <2>2, <3>1
  <2>4. ASSUME length <= d PROVE FALSE
    <3>1. PICK t \in Nat : Ten[WadDecimals] = s * t
      <4>1. Ten[d] \in Nat
        BY <1>0, AmountsAssumption
      <4> QED
        <5>1. Ten[WadDecimals] = Ten[WadDecimals - d] * Ten[d]
          BY <1>0, <2>1, AmountsAssumption, Zenon
        <5> QED
          BY <1>s, <4>1, <5>1
    <3>2. PICK u \in Nat : Ten[WadDecimals - length] = s * u
      <4> DEFINE n == WadDecimals - length
                 m == d - length
      <4>1. n \in 0 .. WadDecimals /\ m \in 0 .. n /\ n - m = WadDecimals - d
        BY <1>0, <2>2, <2>4
      <4> HIDE DEF n, m
      <4>2. Ten[m] \in Nat
        <5>1. m \in 0 .. WadDecimals
          BY <1>0, <4>1
        <5> QED
          BY <5>1, AmountsAssumption
      <4>3. Ten[n] = Ten[n - m] * Ten[m]
        BY <4>1, AmountsAssumption
      <4> QED
        BY <1>s, <4>1, <4>2, <4>3 DEF n
    <3>3. whole * (s * t) + part * (s * u) = (whole * t + part * u) * s + 0
      BY <1>1
    <3>4. whole * t + part * u \in Nat /\ 0 \in 0 .. s - 1
      BY <1>1, MulNat
    <3>5. ((whole * t + part * u) * s + 0) % s = 0
      BY <1>1, <3>4, EuclidUnique
    <3>6. w % s = 0
      BY <2>3, <3>1, <3>2, <3>3, <3>5
    <3> QED
      BY <1>s, <1>1, <1>4, <3>6 DEF IsRepresentable
  <2>5. length > d
    BY <1>0, <2>4
  <2>6. ParseFixed(ToString(a), d) = Refused
    BY <1>d, <2>1, <2>2, <2>5 DEF ParseFixed
  <2> QED
    BY <1>d, <1>4, <2>6 DEF Parse
<1> QED
  BY <1>3, <1>4

-----------------------------------------------------------------------------
Holdable == [token : QuoteTokens, wad : Nat]

\* A conversion gives an amount or throws; either keeps the types.
LEMMA HoldKeepsTypes ==
    ASSUME TypeOK, NEW a, a \in Holdable \/ a = Refused, Hold(a)
    PROVE  TypeOK'
BY DEF TypeOK, Hold, Holdable

LEMMA AmountHoldable ==
    ASSUME NEW token \in QuoteTokens, NEW wad \in Nat
    PROVE  QuoteAmount(token, wad) \in Holdable
BY DEF QuoteAmount, Holdable

LEMMA TypeStep == TypeOK /\ [Next]_vars => TypeOK'
<1> SUFFICES ASSUME TypeOK, [Next]_vars PROVE TypeOK'
  OBVIOUS
<1>1. /\ held.token \in QuoteTokens
      /\ held.wad \in Nat
      /\ held \in Holdable
  BY DEF TypeOK, Holdable
<1>2. \A token \in QuoteTokens : QuoteScaleOf(token) \in Nat \ {0}
  BY UseAssumption, ScaleNat
<1>3. \A n \in 0 .. WadDecimals : Ten[n] \in Nat \ {0}
  BY AmountsAssumption
<1>4. ASSUME NEW token \in QuoteTokens, NEW raw \in Nat
      PROVE  FromRaw(token, raw) \in Holdable
  <2>1. raw * QuoteScaleOf(token) \in Nat
    BY <1>2, MulNat
  <2> QED
    BY <2>1, AmountHoldable DEF FromRaw
<1>5. CASE Enter
  <2>1. PICK token \in QuoteTokens, text \in Texts : Hold(Parse(token, text))
    BY <1>5 DEF Enter
  <2>2. ParseFixed(text, token.decimals) \in Nat \cup {Refused}
    <3>1. token.decimals \in 0 .. WadDecimals /\ WadDecimals \in Nat
      BY UseAssumption, AmountsAssumption DEF ValidQuoteToken
    <3>2. text.whole \in Nat /\ text.length \in Nat /\ text.digits \in Nat
      BY UseAssumption
    <3>3. CASE text.length > token.decimals
      BY <3>3 DEF ParseFixed
    <3>4. CASE ~(text.length > token.decimals)
      <4>1. token.decimals - text.length \in 0 .. WadDecimals
        BY <3>1, <3>2, <3>4
      <4>2. Ten[token.decimals] \in Nat /\ Ten[token.decimals - text.length] \in Nat
        BY <1>3, <3>1, <4>1
      <4>3. /\ text.whole * Ten[token.decimals] \in Nat
            /\ text.digits * Ten[token.decimals - text.length] \in Nat
        BY <3>2, <4>2, MulNat
      <4> QED
        BY <4>3 DEF ParseFixed
    <3> QED
      BY <3>3, <3>4
  <2>3. Parse(token, text) \in Holdable \/ Parse(token, text) = Refused
    BY <1>4, <2>2 DEF Parse
  <2> QED
    BY <2>1, <2>3, HoldKeepsTypes
<1>6. CASE Receive
  <2>1. PICK token \in QuoteTokens, raw \in Balances : Hold(FromRaw(token, raw))
    BY <1>6 DEF Receive
  <2> QED
    BY <1>4, <2>1, UseAssumption, HoldKeepsTypes
<1>7. CASE Whole
  <2>1. PICK token \in QuoteTokens, whole \in Balances : Hold(FromWhole(token, whole))
    BY <1>7 DEF Whole
  <2>2. whole \in Nat /\ Ten[WadDecimals] \in Nat
    BY <1>3, UseAssumption, AmountsAssumption
  <2>3. whole * Ten[WadDecimals] \in Nat
    BY <2>2, MulNat
  <2>4. FromWhole(token, whole) \in Holdable
    BY <2>3, AmountHoldable DEF FromWhole
  <2> QED
    BY <2>1, <2>4, HoldKeepsTypes
<1>8. CASE Combine
  <2>1. PICK token \in QuoteTokens, raw \in {1, 2, 7} :
           LET b == FromRaw(token, raw) IN
           Hold(Add(held, b)) \/ Hold(Sub(held, b)) \/ Hold(SubSaturating(held, b))
    BY <1>8 DEF Combine
  <2>2. PICK b \in Holdable : b = FromRaw(token, raw)
    BY <1>4
  <2>3. PICK w \in Nat, v \in Nat : w = held.wad /\ v = b.wad
    BY <1>1 DEF Holdable
  <2>4. Add(held, b) \in Holdable \/ Add(held, b) = Refused
    BY <1>1, <2>3, AmountHoldable DEF Add
  <2>5. Sub(held, b) \in Holdable \/ Sub(held, b) = Refused
    BY <1>1, <2>3, AmountHoldable DEF Sub, NonNegative
  <2>6. SubSaturating(held, b) \in Holdable \/ SubSaturating(held, b) = Refused
    BY <1>1, <2>3, AmountHoldable DEF SubSaturating
  <2> QED
    BY <2>1, <2>2, <2>4, <2>5, <2>6, HoldKeepsTypes
<1>9. CASE TakeShare
  <2>1. PICK bps \in Shares : Hold(ApplyBps(bps, held))
    BY <1>9 DEF TakeShare
  <2>2. PICK p \in Nat : p = held.wad * bps
    BY <1>1, UseAssumption, MulNat
  <2>3. p \div BpsDenominator \in Nat
    BY DEF BpsDenominator
  <2>4. ApplyBps(bps, held) \in Holdable
    BY <1>1, <2>2, <2>3, AmountHoldable DEF ApplyBps
  <2> QED
    BY <2>1, <2>4, HoldKeepsTypes
<1>10. CASE SetFloor
  <2>1. PICK bps \in Shares : Hold(MinOutFromQuote(held, bps))
    BY <1>10 DEF SetFloor
  <2>2. PICK n \in Int : n = held.wad * (BpsDenominator - bps)
    BY <1>1, UseAssumption DEF BpsDenominator
  <2>3. Quotient(n, BpsDenominator) \in Int
    BY DEF Quotient, BpsDenominator
  <2>4. MinOutFromQuote(held, bps) \in Holdable \/ MinOutFromQuote(held, bps) = Refused
    BY <1>1, <2>2, <2>3, AmountHoldable DEF MinOutFromQuote, NonNegative
  <2> QED
    BY <2>1, <2>4, HoldKeepsTypes
<1>11. CASE Round
  <2>1. PICK s \in Nat \ {0} : s = QuoteScaleOf(held.token)
    BY <1>1, <1>2
  <2>2. PICK w \in Nat, k \in Nat, r \in 0 .. s - 1 :
           w = held.wad /\ w = k * s + r /\ r = w % s /\ k * s \in Nat
    BY <1>1, Euclid, MulNat
  <2>3. w - r \in Nat /\ w + s - r \in Nat
    BY <2>2
  <2>4. FloorToRepresentable(held) \in Holdable
    BY <1>1, <2>1, <2>2, <2>3, AmountHoldable DEF FloorToRepresentable
  <2>5. CeilToRepresentable(held) \in Holdable
    BY <1>1, <2>1, <2>2, <2>3, AmountHoldable DEF CeilToRepresentable
  <2> QED
    BY <1>11, <2>4, <2>5, HoldKeepsTypes DEF Round
<1>12. CASE Narrow
  <2>1. PICK s \in Nat \ {0} : s = Ten[WadDecimals - Erc20Decimals]
    BY <1>3, AmountsAssumption
  <2>2. PICK raw \in Nat : raw = held.wad \div s /\ raw * s \in Nat
    BY <1>1, Euclid, MulNat
  <2>3. ToNative(held.token, raw) \in Holdable
    BY <1>1, <2>1, <2>2, AmountHoldable DEF ToNative
  <2>4. \/ ToErc20(held) = Refused
        \/ ToErc20(held) = raw
    BY <2>1, <2>2 DEF ToErc20
  <2>5. \/ Hold(Refused)
        \/ Hold(ToNative(held.token, raw))
    BY <1>12, <2>4 DEF Narrow
  <2> QED
    BY <2>3, <2>5, HoldKeepsTypes
<1>13. CASE UNCHANGED vars
  BY <1>13 DEF vars, TypeOK
<1> QED
  BY <1>5, <1>6, <1>7, <1>8, <1>9, <1>10, <1>11, <1>12, <1>13 DEF Next

\* Whatever quotes, texts and balances there are, a program only comes to hold
\* amounts of a quote in whole wads, none negative (amounts.ts:119-127).
THEOREM AmountsTyped == Spec => []TypeOK
<1>1. Init => TypeOK
  BY AmountHoldable DEF Init, TypeOK, Holdable
<1> QED
  BY <1>1, TypeStep, PTL DEF Spec

\* For every scale and amount, what is shown is read back as the same amount or
\* refused.
THEOREM TextsRoundTrip == Spec => []TextRoundTrip
<1>1. TypeOK => TextRoundTrip
  BY AmountRoundTrips DEF TypeOK, TextRoundTrip
<1> QED
  BY <1>1, AmountsTyped, PTL

\* For every scale and amount, the raw minimum that is sent lets through exactly
\* the payouts that reach the floor, and the quoted payout is one of them.
THEOREM FloorsHeld == Spec => []FloorsHold
<1>1. ASSUME TypeOK PROVE FloorsHold
  <2>1. PICK a \in [token : QuoteTokens, wad : Nat] : a = held
    BY <1>1 DEF TypeOK
  <2>2. \A raw \in 0 .. a.wad + 1 :
           raw >= ToRaw(CeilToRepresentable(a)) <=> FromRaw(a.token, raw).wad >= a.wad
    BY SentLeast, HeldWad
  <2>3. ASSUME NEW bps \in Shares, bps <= BpsDenominator, IsRepresentable(a)
        PROVE  ToRaw(a) >= ToRaw(CeilToRepresentable(MinOutFromQuote(a, bps)))
    <3>1. PICK floor \in 0 .. a.wad : MinOutFromQuote(a, bps) = QuoteAmount(a.token, floor)
      BY <2>3, UseAssumption, FloorBelowQuote
    <3>2. PICK f \in [token : QuoteTokens, wad : Nat] :
             f = MinOutFromQuote(a, bps) /\ f.token = a.token /\ f.wad = floor
      BY <3>1, HeldWad DEF QuoteAmount
    <3>3. PICK s \in Nat \ {0} : s = QuoteScaleOf(a.token)
      BY HeldWad
    <3>4. PICK w \in Nat, k \in Nat, r \in 0 .. s - 1 :
             w = a.wad /\ w = k * s + r /\ k = w \div s /\ r = w % s /\ k * s \in Nat
      BY <3>3, HeldWad, Euclid, MulNat
    <3>5. r = 0 /\ ToRaw(a) = k
      BY <2>3, <3>3, <3>4 DEF ToRaw, IsRepresentable
    <3>6. w = k * s
      <4>1. w = k * s + 0
        BY <3>4, <3>5, Zenon
      <4> QED
        BY <3>4, <4>1
    <3>7. FromRaw(f.token, k).wad = w
      BY <3>2, <3>3, <3>6 DEF FromRaw, QuoteAmount
    <3>8. w >= f.wad
      BY <3>2, <3>4
    <3> QED
      BY <3>2, <3>4, <3>5, <3>7, <3>8, SentLeast
  <2> QED
    BY <2>1, <2>2, <2>3 DEF FloorsHold
<1> QED
  BY <1>1, AmountsTyped, PTL

\* For every payout of a pool, the derived fee is within one raw unit of the hook's (it
\* is the hook's or one unit more, by FeeRecovered), and the derived payout is less than
\* 125 raw units short.
THEOREM FeesAreRecovered == Spec => []FeesRecovered
<1>1. ASSUME TypeOK PROVE FeesRecovered
  <2>1. PICK s \in Nat \ {0} : s = QuoteScaleOf(held.token)
    BY <1>1, HeldWad DEF TypeOK
  <2>0. PICK w \in Nat : w = held.wad
    BY <1>1 DEF TypeOK
  <2>2. PICK k \in Nat, r \in 0 .. s - 1 : w = k * s + r /\ r = w % s /\ k * s \in Nat
    BY Euclid, MulNat
  <2>3. FloorToRepresentable(held) = QuoteAmount(held.token, k * s + 0)
    BY <2>0, <2>1, <2>2 DEF FloorToRepresentable
  <2>4. (k * s + 0) \div s = k /\ (k * s + 0) % s = 0
    BY EuclidUnique
  <2>5. ToRaw(FloorToRepresentable(held)) = k
    BY <2>1, <2>3, <2>4 DEF ToRaw, IsRepresentable, QuoteAmount
  <2>6. BuyFeeRaw(k) \in Nat
    BY FeeRecovered
  <2> QED
    BY <2>5, <2>6, FeeRecovered DEF FeesRecovered
<1> QED
  BY <1>1, AmountsTyped, PTL

-----------------------------------------------------------------------------
(* The Rust crate.                                                         *)

LEMMA TenNat ==
    \A n \in 0 .. WadDecimals : Ten[n] \in Nat \ {0} /\ Ten[n] <= Ten[WadDecimals]
<1> SUFFICES ASSUME NEW n \in 0 .. WadDecimals
             PROVE  Ten[n] \in Nat \ {0} /\ Ten[n] <= Ten[WadDecimals]
  OBVIOUS
<1>1. WadDecimals \in 0 .. WadDecimals /\ WadDecimals - n \in 0 .. WadDecimals
  BY AmountsAssumption
<1>2. /\ Ten[n] \in Nat \ {0} /\ Ten[WadDecimals - n] \in Nat \ {0}
      /\ Ten[WadDecimals] = Ten[WadDecimals - n] * Ten[n]
  BY <1>1, AmountsAssumption
<1>3. 1 * Ten[n] <= Ten[WadDecimals - n] * Ten[n]
  BY <1>2, MulMono
<1> QED
  BY <1>2, <1>3

\* The fraction of the crate, in WadDecimals digits without its trailing zeros,
\* is the fraction of the quote's own digits, in as few as spell it.
LEMMA FormatsAlike ==
    ASSUME NEW raw \in Nat, NEW d \in 0 .. WadDecimals
    PROVE  format_fixed(raw * Ten[WadDecimals - d], WadDecimals) = FormatFixed(raw, d)
<1>0. WadDecimals \in Nat /\ d \in Nat /\ d <= WadDecimals
  BY AmountsAssumption
<1>1. PICK whole \in Nat, fraction \in 0 .. Ten[d] - 1, length \in 0 .. d, part \in Nat :
         /\ raw = whole * Ten[d] + fraction
         /\ fraction = part * Ten[d - length]
         /\ FormatFixed(raw, d) = Text(whole, length, part)
         /\ \A n \in 0 .. d : fraction % Ten[d - n] = 0 => length <= n
  BY FormatIs
<1>2. PICK s \in Nat \ {0}, t \in Nat \ {0}, top \in Nat \ {0} :
         s = Ten[WadDecimals - d] /\ t = Ten[d] /\ top = Ten[WadDecimals] /\ top = s * t
  <2>1. WadDecimals - d \in 0 .. WadDecimals /\ WadDecimals \in 0 .. WadDecimals
    BY <1>0
  <2>2. Ten[WadDecimals] = Ten[WadDecimals - d] * Ten[d]
    BY <1>0, <2>1, AmountsAssumption
  <2> QED
    BY <2>1, <2>2, TenNat
<1> DEFINE big == fraction * s
<1>3. big \in 0 .. top - 1
  <2>0. fraction \in Nat /\ fraction <= t - 1 /\ t - 1 \in Nat
    BY <1>2
  <2>1. fraction * s <= (t - 1) * s
    BY <2>0, MulMono
  <2>2. (t - 1) * s = t * s - s /\ t * s = s * t
    OBVIOUS
  <2>3. fraction * s \in Nat
    BY <2>0, MulNat
  <2> QED
    BY <1>2, <2>1, <2>2, <2>3
<1>4. raw * s = whole * top + big
  <2>0. fraction \in Nat
    BY <1>2
  <2>1. \A a, b, c, e \in Nat : (a * b + c) * e = a * (e * b) + c * e
    OBVIOUS
  <2> QED
    BY <1>1, <1>2, <2>0, <2>1
<1>5. (raw * s) \div top = whole /\ (raw * s) % top = big
  <2>1. PICK b \in 0 .. top - 1 : b = big
    BY <1>3
  <2>2. (whole * top + b) \div top = whole /\ (whole * top + b) % top = b
    BY EuclidUnique
  <2> HIDE DEF big
  <2> QED
    BY <1>4, <2>1, <2>2
<1>6. CASE fraction = 0
  <2>1. big = 0
    BY <1>2, <1>6
  <2>2. length = 0
    <3>1. Ten[d - 0] = t /\ 0 % t = 0 /\ 0 \in 0 .. d
      BY <1>0, <1>2
    <3> QED
      BY <1>0, <1>1, <1>6, <3>1
  <2>3. part = 0
    <3>1. part * t = 0
      BY <1>0, <1>1, <1>2, <1>6, <2>2
    <3>2. part >= 1 => 1 * t <= part * t
      BY MulMono
    <3> QED
      BY <3>1, <3>2
  <2> QED
    BY <1>1, <1>2, <1>5, <2>1, <2>2, <2>3 DEF format_fixed
<1>7. CASE fraction # 0
  <2> DEFINE zeros == WadDecimals - length
             Zeros == {n \in 0 .. WadDecimals : big % Ten[n] = 0}
  <2>1. zeros \in 0 .. WadDecimals /\ WadDecimals - zeros = length /\ zeros \in Nat
    BY <1>0
  <2>2. big = part * Ten[zeros] /\ Ten[zeros] \in Nat \ {0}
    <3>1. PICK m \in 0 .. d : m = d - length
      BY <1>0
    <3>2. m \in 0 .. zeros /\ zeros - m = WadDecimals - d /\ m \in 0 .. WadDecimals
      BY <1>0, <3>1
    <3>3. Ten[zeros] = Ten[zeros - m] * Ten[m]
      BY <2>1, <3>2, AmountsAssumption
    <3>4. PICK u \in Nat : u = Ten[m]
      BY <3>2, TenNat
    <3>5. Ten[zeros] = s * u /\ fraction = part * u
      BY <1>1, <1>2, <3>1, <3>2, <3>3, <3>4
    <3>6. (part * u) * s = part * (s * u)
      OBVIOUS
    <3> QED
      BY <2>1, <3>5, <3>6, TenNat
  <2> HIDE DEF zeros
  <2>3. big % Ten[zeros] = 0 /\ big \div Ten[zeros] = part
    <3>1. PICK z \in Nat \ {0} : z = Ten[zeros]
      BY <2>2
    <3>2. (part * z + 0) \div z = part /\ (part * z + 0) % z = 0
      BY EuclidUnique
    <3>3. part * z + 0 = part * z
      BY MulNat
    <3> QED
      BY <2>2, <3>1, <3>2, <3>3
  <2>4. ASSUME NEW n \in 0 .. WadDecimals, big % Ten[n] = 0
        PROVE  zeros >= n
    <3> SUFFICES ASSUME ~(zeros >= n) PROVE FALSE
      OBVIOUS
    <3>1. PICK j \in 0 .. d :
             /\ j \in 0 .. n /\ n - j = WadDecimals - d
             /\ d - j = WadDecimals - n /\ d - j \in 0 .. d /\ d - j < length
      <4>1. n > WadDecimals - length
        BY <1>0 DEF zeros
      <4>2. n - (WadDecimals - d) \in 0 .. d
        BY <1>0, <4>1
      <4>3. PICK j \in 0 .. d : j = n - (WadDecimals - d)
        BY <4>2
      <4> QED
        BY <1>0, <4>1, <4>3
    <3>2. Ten[n] = Ten[n - j] * Ten[j]
      BY <3>1, AmountsAssumption
    <3>3. PICK u \in Nat \ {0}, v \in Nat \ {0} : u = Ten[j] /\ v = Ten[n] /\ v = s * u
      <4>1. j \in 0 .. WadDecimals
        BY <1>0
      <4> QED
        BY <1>2, <3>1, <3>2, <4>1, TenNat
    <3>4. PICK q \in Nat : big = q * v
      <4>1. big \in Nat
        BY <1>2, <1>3
      <4> HIDE DEF big
      <4>2. PICK q \in Nat, r \in 0 .. v - 1 :
               q = big \div v /\ r = big % v /\ big = q * v + r
        BY <4>1, Euclid
      <4>3. r = 0
        BY <2>4, <3>3, <4>2
      <4>4. q * v + 0 = q * v
        BY MulNat
      <4>5. big = q * v
        BY <4>2, <4>3, <4>4
      <4> QED
        BY <4>5
    <3>5. fraction = q * u
      <4>0. fraction \in Nat /\ q * u \in Nat /\ 0 \in 0 .. s - 1
        BY <1>2, MulNat
      <4>1. fraction * s = (q * u) * s
        <5>1. q * (s * u) = (q * u) * s
          OBVIOUS
        <5> QED
          BY <3>3, <3>4, <5>1
      <4>2. (fraction * s + 0) \div s = fraction
        BY <4>0, EuclidUnique
      <4>3. ((q * u) * s + 0) \div s = q * u
        BY <4>0, EuclidUnique
      <4> QED
        BY <4>1, <4>2, <4>3
    <3>6. fraction % Ten[d - (d - j)] = 0
      <4>1. d - (d - j) = j
        BY <1>0
      <4>2. (q * u + 0) % u = 0
        BY EuclidUnique
      <4>3. q * u + 0 = q * u
        BY MulNat
      <4> QED
        BY <3>3, <3>5, <4>1, <4>2, <4>3
    <3>7. length <= d - j
      BY <1>1, <3>1, <3>6
    <3> QED
      BY <1>0, <3>1, <3>7
  <2>5. Max(Zeros) = zeros
    <3>1. zeros \in Zeros /\ \A n \in Zeros : zeros >= n
      BY <2>1, <2>3, <2>4
    <3>2. \A n \in Zeros : n >= zeros => n = zeros
      BY <2>1, <3>1
    <3> HIDE DEF Zeros
    <3> QED
      BY <3>1, <3>2 DEF Max
  <2>6. big # 0
    <3>1. fraction \in Nat /\ fraction >= 1
      BY <1>2, <1>7
    <3>2. 1 * s <= fraction * s
      BY <3>1, MulMono
    <3> QED
      BY <3>2
  <2> HIDE DEF big
  <2>7. {n \in 0 .. WadDecimals : ((raw * s) % top) % Ten[n] = 0} = Zeros
    BY <1>5
  <2> HIDE DEF Zeros
  <2>8. format_fixed(raw * s, WadDecimals) =
          Text(whole, WadDecimals - Max(Zeros), big \div Ten[Max(Zeros)])
    BY <1>2, <1>5, <2>6, <2>7, Zenon DEF format_fixed
  <2> QED
    BY <1>1, <1>2, <2>1, <2>3, <2>5, <2>8
<1> QED
  BY <1>6, <1>7

TextRecords == [decimal : BOOLEAN, negative : BOOLEAN, whole : Nat, length : Nat, digits : Nat]

\* The clients agree on a conversion, or the crate refuses what leaves its integers.
Alike(mine, theirs, token) ==
    \/ mine = theirs
    \/ /\ mine = Refused
       /\ \E wad \in Nat : wad > U256Max /\ theirs = QuoteAmount(token, wad)

LEMMA Small ==
    ASSUME NEW n \in Nat
    PROVE  /\ n <= U256Max => checked(n) = n /\ wrapped(n) = n
           /\ n > U256Max => checked(n) = Refused
           /\ n # Refused
<1>0. U256Max \in Nat /\ Refused \notin Nat
  BY U256Assumption, UnitsAssumption, AmountsAssumption
<1>1. ASSUME n <= U256Max PROVE checked(n) = n /\ wrapped(n) = n
  <2>1. PICK top \in Nat \ {0} : top = U256Max + 1
    BY <1>0
  <2>2. n \in 0 .. top - 1 /\ n \in 0 .. U256Max
    BY <1>0, <1>1, <2>1
  <2>3. (0 * top + n) % top = n
    BY <2>2, EuclidUnique
  <2>4. 0 * top + n = n
    BY <2>1
  <2> QED
    BY <2>1, <2>2, <2>3, <2>4 DEF checked, wrapped, Fits
<1>2. ASSUME n > U256Max PROVE checked(n) = Refused
  BY <1>0, <1>2 DEF checked, Fits
<1> QED
  BY <1>0, <1>1, <1>2

\* An amount read in raw units.
LEMMA RawAlike ==
    ASSUME NEW token, ValidQuoteToken(token), NEW raw \in Nat
    PROVE  Alike(from_raw_in(token, raw), FromRaw(token, raw), token)
<1>1. PICK wad \in Nat : wad = raw * QuoteScaleOf(token) /\ wad = raw * scale(token)
  <2>1. PICK s \in Nat : s = QuoteScaleOf(token)
    BY ScaleNat
  <2> QED
    BY <2>1, MulNat DEF scale, QuoteScaleOf
<1>2. FromRaw(token, raw) = QuoteAmount(token, wad)
  BY <1>1 DEF FromRaw
<1>3. from_raw_in(token, raw) = from_wad_in(token, checked(wad))
  BY <1>1 DEF from_raw_in
<1>4. CASE wad <= U256Max
  BY <1>2, <1>3, <1>4, Small DEF from_wad_in, Alike
<1>5. CASE wad > U256Max
  BY <1>2, <1>3, <1>5, Small DEF from_wad_in, Alike
<1> QED
  BY <1>4, <1>5, U256Assumption, UnitsAssumption

\* A text read as an amount.
LEMMA ParsesAlike ==
    ASSUME NEW token, ValidQuoteToken(token), NEW text \in TextRecords
    PROVE  Alike(parse_in(token, text), Parse(token, text), token)
<1>0. WadDecimals \in Nat /\ U256Max \in Nat /\ Refused \notin Nat
  BY AmountsAssumption, U256Assumption, UnitsAssumption
<1>1. PICK d \in 0 .. WadDecimals : d = token.decimals
  BY DEF ValidQuoteToken
<1>2. Min({token.decimals, WadDecimals}) = d
  <2>1. {token.decimals, WadDecimals} \in SUBSET Nat /\ {token.decimals, WadDecimals} # {}
    BY <1>0, <1>1
  <2>2. /\ Min({token.decimals, WadDecimals}) \in {token.decimals, WadDecimals}
        /\ \A n \in {token.decimals, WadDecimals} :
              Min({token.decimals, WadDecimals}) <= n
    BY <2>1, LeastExists
  <2> QED
    BY <1>0, <1>1, <2>2
<1>3. parse_in(token, text) =
         IF parse_fixed(text, d) = Refused THEN Refused
         ELSE from_raw_in(token, parse_fixed(text, d))
  BY <1>2 DEF parse_in
<1>4. Parse(token, text) =
         IF ParseFixed(text, d) = Refused THEN Refused ELSE FromRaw(token, ParseFixed(text, d))
  BY <1>1 DEF Parse
<1>5. PICK length \in Nat, whole \in Nat, digits \in Nat, decimal \in BOOLEAN, negative \in BOOLEAN :
         /\ length = text.length /\ whole = text.whole /\ digits = text.digits
         /\ decimal = text.decimal /\ negative = text.negative
  BY DEF TextRecords
<1>6. CASE ~decimal \/ negative \/ length > d
  <2>1. ~(text.decimal /\ ~text.negative /\ text.length <= d)
    BY <1>0, <1>5, <1>6
  <2>2. ~text.decimal \/ text.negative \/ text.length > d
    BY <1>5, <1>6
  <2>3. parse_fixed(text, d) = Refused
    BY <2>1, Zenon DEF parse_fixed
  <2>4. ParseFixed(text, d) = Refused
    BY <2>2, Zenon DEF ParseFixed
  <2> QED
    BY <1>3, <1>4, <2>3, <2>4 DEF Alike
<1>7. CASE decimal /\ ~negative /\ length <= d
  <2>1. text.decimal /\ ~text.negative /\ text.length <= d
    BY <1>5, <1>7
  <2>2. ~(~text.decimal \/ text.negative \/ text.length > d)
    BY <1>0, <1>5, <1>7
  <2>3. PICK raw \in Nat : raw = text.whole * Ten[d] + text.digits * Ten[d - text.length]
    <3>1. d - length \in 0 .. WadDecimals
      BY <1>0, <1>7
    <3>2. Ten[d] \in Nat /\ Ten[d - length] \in Nat
      BY <3>1, TenNat
    <3>3. whole * Ten[d] \in Nat /\ digits * Ten[d - length] \in Nat
      BY <3>2, MulNat
    <3> QED
      BY <1>5, <3>3
  <2>4. parse_fixed(text, d) = checked(raw)
    BY <2>1, <2>3, Zenon DEF parse_fixed
  <2>5. ParseFixed(text, d) = raw
    BY <2>2, <2>3, Zenon DEF ParseFixed
  <2>6. Parse(token, text) = FromRaw(token, raw)
    BY <1>4, <2>5, Small
  <2>7. CASE raw <= U256Max
    BY <1>3, <2>4, <2>6, <2>7, Small, RawAlike
  <2>8. CASE raw > U256Max
    <3>1. parse_in(token, text) = Refused
      BY <1>3, <2>4, <2>8, Small
    <3>2. PICK s \in Nat \ {0} : s = QuoteScaleOf(token)
      BY ScaleNat
    <3>3. raw * s > U256Max /\ raw * s \in Nat
      <4>1. 1 * raw <= s * raw
        BY MulMono
      <4>2. s * raw = raw * s
        OBVIOUS
      <4> QED
        BY <1>0, <2>8, <4>1, <4>2, MulNat
    <3> QED
      BY <2>6, <3>1, <3>2, <3>3 DEF Alike, FromRaw
  <2> QED
    BY <1>0, <2>7, <2>8
<1> QED
  BY <1>0, <1>6, <1>7

-----------------------------------------------------------------------------
\* What the clients do with one amount of the program.
Amount == [token : QuoteTokens, wad : 0 .. MaxWad]

LEMMA AmountRoom ==
    ASSUME NEW a \in Amount
    PROVE  \E w \in Nat, s \in Nat \ {0}, k \in Nat, top \in Nat :
              \E r \in 0 .. s - 1 :
                 /\ w = a.wad /\ s = QuoteScaleOf(a.token) /\ s = scale(a.token)
                 /\ w = k * s + r /\ k = w \div s /\ r = w % s /\ k * s \in Nat
                 /\ top = U256Max /\ w <= MaxWad /\ w + s <= top /\ w <= top
                 /\ a = QuoteAmount(a.token, w) /\ ValidQuoteToken(a.token)
<1>0. a \in [token : QuoteTokens, wad : Nat] /\ a.wad \in Nat /\ a.wad <= MaxWad /\ MaxWad \in Nat
  BY UseAssumption DEF Amount
<1>1. /\ a = QuoteAmount(a.token, a.wad) /\ ValidQuoteToken(a.token)
      /\ QuoteScaleOf(a.token) \in Nat \ {0}
  BY <1>0, HeldWad
<1>2. QuoteScaleOf(a.token) <= Ten[WadDecimals]
  <2>0. WadDecimals \in Nat /\ a.token.decimals \in 0 .. WadDecimals
    BY <1>1, AmountsAssumption DEF ValidQuoteToken
  <2>1. WadDecimals - a.token.decimals \in 0 .. WadDecimals
    BY <2>0
  <2> QED
    BY <2>1, TenNat DEF QuoteScaleOf
<1>3. PICK w \in Nat, s \in Nat \ {0} :
         w = a.wad /\ s = QuoteScaleOf(a.token) /\ s = scale(a.token)
  BY <1>0, <1>1 DEF scale, QuoteScaleOf
<1>4. PICK k \in Nat, r \in 0 .. s - 1 : k = w \div s /\ r = w % s /\ w = k * s + r
  BY Euclid
<1>5. PICK top \in Nat, ten \in Nat : top = U256Max /\ ten = Ten[WadDecimals]
  <2>1. WadDecimals \in 0 .. WadDecimals
    BY AmountsAssumption
  <2> QED
    BY <2>1, TenNat, U256Assumption, UnitsAssumption
<1>6. MaxWad + ten <= top
  BY <1>5, U256Assumption, UnitsAssumption
<1>7. w <= MaxWad /\ w + s <= top /\ w <= top /\ k * s \in Nat
  BY <1>0, <1>2, <1>3, <1>5, <1>6, MulNat
<1> QED
  BY <1>1, <1>3, <1>4, <1>5, <1>7

\* What one shows, and what both read of it.
LEMMA ShownAlike ==
    ASSUME NEW a \in Amount
    PROVE  /\ format_fixed(a.wad, WadDecimals) = ToString(a)
           /\ ToString(a) \in TextRecords
           /\ parse_in(a.token, ToString(a)) = Parse(a.token, ToString(a))
<1>0. WadDecimals \in Nat /\ a \in [token : QuoteTokens, wad : Nat] /\ U256Max \in Nat
  BY AmountsAssumption, U256Assumption, UnitsAssumption DEF Amount
<1>1. PICK w \in Nat, s \in Nat \ {0}, k \in Nat, top \in Nat : \E r \in 0 .. s - 1 :
                 /\ w = a.wad /\ s = QuoteScaleOf(a.token) /\ s = scale(a.token)
                 /\ w = k * s + r /\ k = w \div s /\ r = w % s /\ k * s \in Nat
                 /\ top = U256Max /\ w <= MaxWad /\ w + s <= top /\ w <= top
                 /\ a = QuoteAmount(a.token, w) /\ ValidQuoteToken(a.token)
  BY AmountRoom
<1>2. PICK d \in 0 .. WadDecimals : d = a.token.decimals
  BY <1>1 DEF ValidQuoteToken
<1>3. \E raw \in Nat, n \in 0 .. WadDecimals :
         ToString(a) = FormatFixed(raw, n) /\ w = raw * Ten[WadDecimals - n]
  <2>1. CASE IsRepresentable(a)
    <3>1. ToString(a) = FormatFixed(k, d)
      BY <1>1, <1>2, <2>1 DEF ToString
    <3>2. w = k * s
      <4>1. w = k * s + 0
        BY <1>1, <2>1 DEF IsRepresentable
      <4> QED
        BY <1>1, <4>1
    <3>3. w = k * Ten[WadDecimals - d]
      BY <1>1, <1>2, <3>2 DEF QuoteScaleOf
    <3> QED
      BY <3>1, <3>3
  <2>2. CASE ~IsRepresentable(a)
    <3>1. ToString(a) = FormatFixed(w, WadDecimals)
      BY <1>1, <2>2 DEF ToString
    <3>2. WadDecimals \in 0 .. WadDecimals /\ WadDecimals - WadDecimals = 0 /\ Ten[0] = 1
      BY <1>0, AmountsAssumption
    <3>3. w = w * Ten[WadDecimals - WadDecimals]
      BY <3>2
    <3> QED
      BY <3>1, <3>2, <3>3
  <2> QED
    BY <2>1, <2>2
<1>4. PICK raw \in Nat, n \in 0 .. WadDecimals :
         ToString(a) = FormatFixed(raw, n) /\ w = raw * Ten[WadDecimals - n]
  BY <1>3
<1>5. format_fixed(a.wad, WadDecimals) = ToString(a)
  BY <1>1, <1>4, FormatsAlike
<1>6. ToString(a) \in TextRecords
  <2>1. PICK whole \in Nat, fraction \in 0 .. Ten[n] - 1, length \in 0 .. n, part \in Nat :
           /\ raw = whole * Ten[n] + fraction
           /\ fraction = part * Ten[n - length]
           /\ FormatFixed(raw, n) = Text(whole, length, part)
           /\ \A m \in 0 .. n : fraction % Ten[n - m] = 0 => length <= m
    BY FormatIs
  <2>2. length \in Nat
    BY <1>0
  <2>3. Text(whole, length, part) \in TextRecords
    BY <2>2 DEF Text, TextRecords
  <2> QED
    BY <1>4, <2>1, <2>3
<1>7. PICK shown \in TextRecords : shown = ToString(a)
  BY <1>6
<1>8. Alike(parse_in(a.token, shown), Parse(a.token, shown), a.token)
  BY <1>1, ParsesAlike
<1>9. parse_in(a.token, shown) = Parse(a.token, shown)
  <2> SUFFICES ASSUME NEW wad \in Nat, wad > U256Max, parse_in(a.token, shown) = Refused,
                      Parse(a.token, shown) = QuoteAmount(a.token, wad)
               PROVE  parse_in(a.token, shown) = Parse(a.token, shown)
    BY <1>8 DEF Alike
  <2>1. CASE IsRepresentable(a)
    <3>1. Parse(a.token, shown) = a
      BY <1>0, <1>7, <2>1, AmountRoundTrips
    <3>2. a.wad = wad
      BY <3>1 DEF QuoteAmount
    <3>3. a.wad = w /\ w <= U256Max
      BY <1>1
    <3> QED
      BY <1>0, <3>2, <3>3
  <2>2. CASE ~IsRepresentable(a)
    BY <1>0, <1>7, <2>2, AmountRoundTrips
  <2> QED
    BY <2>1, <2>2
<1> QED
  BY <1>5, <1>6, <1>7, <1>9

\* Raw units, roundings, and the ERC-20 view.
LEMMA UnitsAlike ==
    ASSUME NEW a \in Amount
    PROVE  /\ to_raw(a) = ToRaw(a)
           /\ floor_to_representable(a) = FloorToRepresentable(a)
           /\ ceil_to_representable(a) = CeilToRepresentable(a)
           /\ to_erc20(a) = ToErc20(a)
           /\ to_native(a.token, 7) = ToNative(a.token, 7)
<1>1. PICK w \in Nat, s \in Nat \ {0}, k \in Nat, top \in Nat : \E r \in 0 .. s - 1 :
                 /\ w = a.wad /\ s = QuoteScaleOf(a.token) /\ s = scale(a.token)
                 /\ w = k * s + r /\ k = w \div s /\ r = w % s /\ k * s \in Nat
                 /\ top = U256Max /\ w <= MaxWad /\ w + s <= top /\ w <= top
                 /\ a = QuoteAmount(a.token, w) /\ ValidQuoteToken(a.token)
  BY AmountRoom
<1>2. PICK r \in 0 .. s - 1 :
         w = k * s + r /\ k = w \div s /\ r = w % s /\ k * s \in Nat
  BY <1>1
<1>3. to_raw(a) = ToRaw(a)
  BY <1>1 DEF to_raw, ToRaw, is_representable, IsRepresentable
<1>4. floor_to_representable(a) = FloorToRepresentable(a)
  <2>1. w - r = k * s
    BY <1>2
  <2> QED
    BY <1>1, <1>2, <2>1 DEF floor_to_representable, FloorToRepresentable
<1>5. ceil_to_representable(a) = CeilToRepresentable(a)
  <2>1. CASE r = 0
    <3>1. is_representable(a) /\ IsRepresentable(a)
      BY <1>1, <1>2, <2>1 DEF is_representable, IsRepresentable
    <3> QED
      BY <1>1, <3>1, Small DEF ceil_to_representable, CeilToRepresentable
  <2>2. CASE r # 0
    <3>1. ~is_representable(a) /\ ~IsRepresentable(a)
      BY <1>1, <1>2, <2>2 DEF is_representable, IsRepresentable
    <3>2. PICK up \in Nat : up = (k + 1) * s
      BY MulNat
    <3>3. (k + 1) * s = k * s + s
      OBVIOUS
    <3>4. up = w + (s - r) /\ up <= U256Max
      <4>1. PICK p \in Nat : p = k * s
        BY <1>2
      <4>2. w + s <= U256Max
        BY <1>1
      <4>3. r \in Nat
        OBVIOUS
      <4>4. w = p + r /\ up = p + s
        BY <1>2, <3>2, <3>3, <4>1, Zenon
      <4>5. U256Max \in Nat
        BY U256Assumption, UnitsAssumption
      <4> QED
        BY <4>2, <4>3, <4>4, <4>5
    <3>5. checked((a.wad \div scale(a.token) + 1) * scale(a.token)) = up
      <4>1. checked(up) = up
        BY <3>4, Small
      <4>2. (a.wad \div scale(a.token) + 1) * scale(a.token) = up
        BY <1>1, <1>2, <3>2, Zenon
      <4> QED
        BY <4>1, <4>2, Zenon
    <3>6. ceil_to_representable(a) = QuoteAmount(a.token, up)
      BY <3>1, <3>5, Small DEF ceil_to_representable
    <3> QED
      BY <1>1, <1>2, <3>1, <3>4, <3>6 DEF CeilToRepresentable
  <2> QED
    BY <2>1, <2>2
<1>6. to_erc20(a) = ToErc20(a)
  BY DEF to_erc20, ToErc20
<1>7. to_native(a.token, 7) = ToNative(a.token, 7)
  <2>1. WadDecimals - Erc20Decimals \in 0 .. WadDecimals /\ WadDecimals \in 0 .. WadDecimals
    BY AmountsAssumption
  <2>2. PICK ten \in Nat, most \in Nat :
           ten = Ten[WadDecimals - Erc20Decimals] /\ most = Ten[WadDecimals] /\ ten <= most
    BY <2>1, TenNat
  <2>3. 7 * most <= U256Max
    BY <2>2, U256Assumption, UnitsAssumption
  <2>4. 7 * ten \in Nat /\ 7 * ten <= U256Max
    BY <2>2, <2>3, U256Assumption, UnitsAssumption
  <2> QED
    BY <2>2, <2>4, Small DEF to_native, ToNative, from_wad_in
<1> QED
  BY <1>3, <1>4, <1>5, <1>6, <1>7

\* Sums and differences with an amount of a few units.
LEMMA SumsAlike ==
    ASSUME NEW a \in Amount, NEW token \in QuoteTokens
    PROVE  LET b == FromRaw(token, 7) IN
           /\ from_raw_in(token, 7) = b
           /\ Alike(add(a, b), Add(a, b), a.token)
           /\ sub(a, b) = Sub(a, b)
           /\ sub_saturating(a, b) = SubSaturating(a, b)
           /\ from_whole(token, 7) = FromWhole(token, 7)
<1>0. /\ ValidQuoteToken(token) /\ WadDecimals \in Nat /\ U256Max \in Nat
      /\ WadDecimals \in 0 .. WadDecimals
  BY UseAssumption, U256Assumption, UnitsAssumption, AmountsAssumption
<1>1. PICK w \in Nat : w = a.wad /\ w <= U256Max
  BY AmountRoom
<1>2. PICK ten \in Nat : ten = Ten[WadDecimals] /\ 7 * ten <= U256Max /\ 7 * ten \in Nat
  BY <1>0, TenNat, U256Assumption, UnitsAssumption
<1>3. PICK s \in Nat : s = QuoteScaleOf(token) /\ s = scale(token) /\ s <= ten
  <2>1. token.decimals \in 0 .. WadDecimals
    BY <1>0 DEF ValidQuoteToken
  <2>2. WadDecimals - token.decimals \in 0 .. WadDecimals
    BY <1>0, <2>1
  <2> QED
    BY <1>2, <2>2, TenNat DEF QuoteScaleOf, scale
<1>4. PICK v \in Nat : v = 7 * s /\ v <= U256Max
  BY <1>0, <1>2, <1>3
<1> DEFINE b == FromRaw(token, 7)
<1>5. b = QuoteAmount(token, v) /\ b.token = token /\ b.wad = v
  BY <1>3, <1>4 DEF FromRaw, QuoteAmount
<1>6. from_raw_in(token, 7) = b
  BY <1>3, <1>4, <1>5, Small DEF from_raw_in, from_wad_in
<1>7. from_whole(token, 7) = FromWhole(token, 7)
  BY <1>2, Small DEF from_whole, FromWhole, whole_wads, from_wad_in
<1> HIDE DEF b
<1>8. ASSUME ~SameQuote(a, b)
      PROVE  /\ add(a, b) = Add(a, b) /\ sub(a, b) = Sub(a, b)
             /\ sub_saturating(a, b) = SubSaturating(a, b)
  BY <1>8, Zenon DEF add, Add, sub, Sub, sub_saturating, SubSaturating, same_quote, SameQuote
<1>9. ASSUME SameQuote(a, b)
      PROVE  /\ Alike(add(a, b), Add(a, b), a.token) /\ sub(a, b) = Sub(a, b)
             /\ sub_saturating(a, b) = SubSaturating(a, b)
  <2>1. /\ add(a, b) = from_wad_in(a.token, checked(w + v))
        /\ sub(a, b) = from_wad_in(a.token, checked(w - v))
        /\ sub_saturating(a, b) = QuoteAmount(a.token, saturating_sub(w, v))
        /\ Add(a, b) = QuoteAmount(a.token, w + v)
        /\ Sub(a, b) = NonNegative(a.token, w - v)
        /\ SubSaturating(a, b) = QuoteAmount(a.token, IF w > v THEN w - v ELSE 0)
    BY <1>1, <1>5, <1>9, Zenon DEF add, Add, sub, Sub, sub_saturating, SubSaturating,
       same_quote, SameQuote, checked_add, checked_sub
  <2>2. Alike(add(a, b), Add(a, b), a.token)
    <3>1. PICK sum \in Nat : sum = w + v
      OBVIOUS
    <3>2. CASE sum <= U256Max
      BY <2>1, <3>1, <3>2, Small DEF from_wad_in, Alike
    <3>3. CASE sum > U256Max
      BY <2>1, <3>1, <3>3, Small DEF from_wad_in, Alike
    <3> QED
      BY <1>0, <3>2, <3>3
  <2>3. sub(a, b) = Sub(a, b)
    <3>1. CASE w >= v
      <4>1. PICK less \in Nat : less = w - v /\ less <= U256Max
        BY <1>0, <1>1, <3>1
      <4> QED
        BY <2>1, <4>1, Small DEF from_wad_in, NonNegative
    <3>2. CASE ~(w >= v)
      <4>1. w - v < 0 /\ ~(w - v \in 0 .. U256Max)
        BY <1>0, <3>2
      <4> QED
        BY <2>1, <4>1 DEF from_wad_in, NonNegative, checked, Fits
    <3> QED
      BY <3>1, <3>2
  <2>4. sub_saturating(a, b) = SubSaturating(a, b)
    BY <2>1 DEF saturating_sub
  <2> QED
    BY <2>2, <2>3, <2>4
<1> QED
  <2>1. Alike(add(a, b), Add(a, b), a.token)
    BY <1>8, <1>9 DEF Alike
  <2> QED
    BY <1>6, <1>7, <1>8, <1>9, <2>1 DEF b

LEMMA QuotesValid ==
    ASSUME NEW token \in QuoteTokens PROVE validate(token) = ValidQuoteToken(token)
<1>1. /\ token.decimals \in 0 .. WadDecimals
      /\ token.isNative <=> token.address = NativeQuote
      /\ token.isNative => token.decimals = WadDecimals
      /\ token.isNative \in BOOLEAN /\ ValidQuoteToken(token)
  BY UseAssumption DEF ValidQuoteToken
<1>0. WadDecimals \in Nat
  BY AmountsAssumption
<1>2. token.decimals <= WadDecimals
  BY <1>0, <1>1
<1>3. token.isNative = (token.address = NativeQuote)
  BY <1>1, Zenon
<1> QED
  BY <1>1, <1>2, <1>3, Zenon DEF validate

\* Shares, and the floors under a quote.
LEMMA SharesAlike ==
    ASSUME NEW a \in Amount, NEW bps \in Shares
    PROVE  /\ apply_to_quote(bps, a) = ApplyBps(bps, a)
           /\ bps <= BpsDenominator
                => QuoteAmount(a.token, less_tolerance(a.wad, bps)) = MinOutFromQuote(a, bps)
           /\ bps > BpsDenominator =>
                 /\ less_tolerance(a.wad, bps) = 0
                 /\ a.wad * (bps - BpsDenominator) >= BpsDenominator
                      => MinOutFromQuote(a, bps) = Refused
<1>0. bps \in Nat /\ U256Max \in Nat /\ MaxWad \in Nat
  BY UseAssumption, U256Assumption, UnitsAssumption
<1>1. PICK w \in Nat : w = a.wad /\ w <= MaxWad
  BY AmountRoom
<1>2. \A c \in Nat : MaxWad * c <= U256Max => w * c \in Nat /\ w * c <= U256Max
  <2> SUFFICES ASSUME NEW c \in Nat, MaxWad * c <= U256Max
               PROVE  w * c \in Nat /\ w * c <= U256Max
    OBVIOUS
  <2>1. w * c <= MaxWad * c
    BY <1>0, <1>1, MulMono
  <2>2. w * c \in Nat /\ MaxWad * c \in Nat
    BY <1>0, MulNat
  <2> QED
    BY <1>0, <2>1, <2>2
<1>3. apply_to_quote(bps, a) = ApplyBps(bps, a)
  <2>1. w * bps \in Nat /\ w * bps <= U256Max
    BY <1>0, <1>2, U256Assumption, UnitsAssumption
  <2> QED
    BY <1>1, <2>1, Small DEF apply_to_quote, ApplyBps
<1>4. ASSUME bps <= BpsDenominator
      PROVE  QuoteAmount(a.token, less_tolerance(a.wad, bps)) = MinOutFromQuote(a, bps)
  <2>1. PICK part \in Nat :
           /\ part = BpsDenominator - bps /\ part = saturating_sub(BpsDenominator, bps)
           /\ part <= BpsDenominator
    BY <1>0, <1>4 DEF saturating_sub, BpsDenominator
  <2>2. PICK p \in Nat : p = w * part /\ p <= U256Max
    <3>1. MaxWad * part <= U256Max
      <4>1. part * MaxWad <= BpsDenominator * MaxWad
        BY <1>0, <2>1, MulMono DEF BpsDenominator
      <4>2. MaxWad * part = part * MaxWad /\ MaxWad * BpsDenominator = BpsDenominator * MaxWad
        BY <1>0 DEF BpsDenominator
      <4>3. MaxWad * part \in Nat /\ MaxWad * BpsDenominator \in Nat
        BY <1>0, MulNat DEF BpsDenominator
      <4> QED
        BY <1>0, <4>1, <4>2, <4>3, U256Assumption, UnitsAssumption
    <3> QED
      BY <1>2, <3>1
  <2>3. less_tolerance(a.wad, bps) = p \div BpsDenominator
    BY <1>1, <2>1, <2>2, Small DEF less_tolerance
  <2>4. Quotient(p, BpsDenominator) = p \div BpsDenominator
    BY <2>2 DEF Quotient
  <2>5. MinOutFromQuote(a, bps) = NonNegative(a.token, p \div BpsDenominator)
    BY <1>1, <2>1, <2>2, <2>4 DEF MinOutFromQuote
  <2>6. ~(p \div BpsDenominator < 0)
    BY <2>2 DEF BpsDenominator
  <2> QED
    BY <2>3, <2>5, <2>6 DEF NonNegative
<1>5. ASSUME bps > BpsDenominator
      PROVE  less_tolerance(a.wad, bps) = 0
  <2>1. saturating_sub(BpsDenominator, bps) = 0
    BY <1>0, <1>5 DEF saturating_sub, BpsDenominator
  <2>2. w * 0 = 0 /\ wrapped(0) = 0
    BY <1>0, Small
  <2> QED
    BY <1>1, <2>1, <2>2 DEF less_tolerance, BpsDenominator
<1>6. ASSUME bps > BpsDenominator, a.wad * (bps - BpsDenominator) >= BpsDenominator
      PROVE  MinOutFromQuote(a, bps) = Refused
  <2>1. PICK over \in Nat : over = bps - BpsDenominator
    BY <1>0, <1>6 DEF BpsDenominator
  <2>2. PICK p \in Nat : p = w * over /\ p >= 10000
    BY <1>1, <1>6, <2>1, MulNat DEF BpsDenominator
  <2>3. w * (BpsDenominator - bps) = -p
    <3>1. BpsDenominator - bps = -over
      BY <1>0, <2>1 DEF BpsDenominator
    <3>2. w * (-over) = -(w * over)
      OBVIOUS
    <3> QED
      BY <2>2, <3>1, <3>2
  <2>4. ~(-p >= 0) /\ -(-p) = p
    BY <2>2
  <2>5. -(p \div 10000) < 0
    BY <2>2
  <2>6. Quotient(-p, BpsDenominator) < 0
    BY <2>4, <2>5 DEF Quotient, BpsDenominator
  <2> QED
    BY <1>1, <2>3, <2>6 DEF MinOutFromQuote, NonNegative
<1> QED
  BY <1>3, <1>4, <1>5, <1>6

\* For every scale, every text and every amount that leaves room in 256 bits, the two
\* clients show, read and convert alike (ClientsAgree).  An amount in use is never
\* above MaxWad, which is what the room is for.
THEOREM ClientsConvertAlike == Spec => []ClientsAgree
<1> DEFINE InRoom == TypeOK /\ held \in Amount
<1>1. Init => InRoom
  <2>1. 0 \in 0 .. MaxWad
    BY UseAssumption
  <2> QED
    <3> SUFFICES ASSUME Init PROVE InRoom
      OBVIOUS
    <3>1. PICK token \in QuoteTokens : held = QuoteAmount(token, 0)
      BY DEF Init
    <3>2. held \in Amount /\ held \in [token : QuoteTokens, wad : Nat]
      BY <2>1, <3>1 DEF Amount, QuoteAmount
    <3> QED
      BY <3>2 DEF Init, TypeOK
<1>2. InRoom /\ [Next]_vars => InRoom'
  <2> SUFFICES ASSUME InRoom, [Next]_vars PROVE InRoom'
    OBVIOUS
  <2>1. TypeOK'
    BY TypeStep
  <2>2. CASE UNCHANGED vars
    BY <2>1, <2>2 DEF vars
  <2>3. CASE \E a : Hold(a)
    <3>1. PICK a : Hold(a)
      BY <2>3
    <3>2. CASE a = Refused
      BY <2>1, <3>1, <3>2 DEF Hold
    <3>3. CASE a # Refused
      <4>1. held' = a /\ a.wad <= MaxWad
        BY <3>1, <3>3 DEF Hold
      <4>2. held' \in [token : QuoteTokens, wad : Nat]
        BY <2>1 DEF TypeOK
      <4>3. held'.wad <= MaxWad /\ MaxWad \in Nat
        BY <4>1, UseAssumption
      <4>4. held' \in Amount
        BY <4>2, <4>3 DEF Amount
      <4> QED
        BY <2>1, <4>4
    <3> QED
      BY <3>2, <3>3
  <2>4. Next => \E a : Hold(a)
    BY Zenon DEF Next, Enter, Receive, Whole, Combine, TakeShare, SetFloor, Round, Narrow
  <2> QED
    BY <2>2, <2>3, <2>4
<1>3. InRoom => ClientsAgree
  <2> SUFFICES ASSUME InRoom PROVE ClientsAgree
    OBVIOUS
  <2>1. PICK a \in Amount : a = held
    OBVIOUS
  <2> DEFINE agree(mine, theirs) ==
               mine = theirs \/ (theirs # Refused /\ theirs.wad > U256Max /\ mine = Refused)
  <2>2. ASSUME NEW mine, NEW theirs, NEW token, Alike(mine, theirs, token)
        PROVE  agree(mine, theirs)
    BY <2>2 DEF Alike, QuoteAmount
  <2>3. ASSUME NEW token \in QuoteTokens
        PROVE  LET b == FromRaw(token, 7) IN
               /\ \A text \in Texts : agree(parse_in(token, text), Parse(token, text))
               /\ from_raw_in(token, 7) = b /\ validate(token) = ValidQuoteToken(token)
               /\ agree(add(held, b), Add(held, b))
               /\ sub(held, b) = Sub(held, b)
               /\ sub_saturating(held, b) = SubSaturating(held, b)
               /\ from_whole(token, 7) = FromWhole(token, 7)
    <3>1. ASSUME NEW text \in Texts PROVE agree(parse_in(token, text), Parse(token, text))
      <4>1. ValidQuoteToken(token) /\ text \in TextRecords
        BY UseAssumption DEF TextRecords
      <4> HIDE DEF agree
      <4> QED
        BY <2>2, <4>1, ParsesAlike
    <3>2. agree(add(a, FromRaw(token, 7)), Add(a, FromRaw(token, 7)))
      <4> HIDE DEF agree
      <4> QED
        BY <2>2, SumsAlike
    <3> HIDE DEF agree
    <3> QED
      BY <2>1, <3>1, <3>2, SumsAlike, QuotesValid
  <2>4. /\ format_fixed(held.wad, WadDecimals) = ToString(held)
        /\ parse_in(held.token, ToString(held)) = Parse(held.token, ToString(held))
        /\ to_raw(held) = ToRaw(held)
        /\ floor_to_representable(held) = FloorToRepresentable(held)
        /\ ceil_to_representable(held) = CeilToRepresentable(held)
        /\ to_erc20(held) = ToErc20(held)
        /\ to_native(held.token, 7) = ToNative(held.token, 7)
    BY <2>1, ShownAlike, UnitsAlike
  <2>5. ASSUME NEW bps \in Shares
        PROVE  /\ apply_to_quote(bps, held) = ApplyBps(bps, held)
               /\ LET floor == QuoteAmount(held.token, less_tolerance(held.wad, bps))
                  IN  IF bps <= BpsDenominator THEN floor = MinOutFromQuote(held, bps)
                      ELSE /\ floor.wad = 0
                           /\ held.wad * (bps - BpsDenominator) >= BpsDenominator
                                => MinOutFromQuote(held, bps) = Refused
    <3>1. bps <= BpsDenominator \/ bps > BpsDenominator
      BY UseAssumption DEF BpsDenominator
    <3>2. \A wad : QuoteAmount(held.token, wad).wad = wad
      BY DEF QuoteAmount
    <3> QED
      BY <2>1, <3>1, <3>2, SharesAlike
  <2> QED
    BY <2>3, <2>4, <2>5 DEF ClientsAgree
<1> QED
  BY <1>1, <1>2, <1>3, PTL DEF Spec
=============================================================================
