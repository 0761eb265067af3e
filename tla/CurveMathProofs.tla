-------------------------- MODULE CurveMathProofs --------------------------
(***************************************************************************)
(* Facts about curve-math.ts for every value: its roundings, the quotes at *)
(* any position a curve may be in, and that the crate's curve_math.rs,     *)
(* which checks each of its operations, comes to the same quotes.          *)
(***************************************************************************)
EXTENDS CrateMath, GasHeadroom, CrateGas, HookFees, Sequences, TLAPS

LEMMA MulNat == ASSUME NEW a \in Nat, NEW b \in Nat PROVE a * b \in Nat
OBVIOUS

LEMMA MulMono ==
    ASSUME NEW a \in Nat, NEW b \in Nat, NEW d \in Nat, a <= b
    PROVE  a * d <= b * d
OBVIOUS

\* Euclid's division, in the only form the proofs below use.
LEMMA DivDef ==
    ASSUME NEW k \in Nat, NEW d \in Nat \ {0}
    PROVE  /\ k \div d \in Nat
           /\ k % d \in 0 .. d - 1
           /\ k = (k \div d) * d + (k % d)
OBVIOUS

\* A fee rate is either below the whole or not.
LEMMA BpsCompared ==
    /\ BpsDenominator \in Nat \ {0}
    /\ \A n \in Nat : /\ n >= BpsDenominator <=> ~(n < BpsDenominator)
                      /\ n < BpsDenominator => /\ n \in 0 .. BpsDenominator - 1
                                               /\ n <= BpsDenominator
  BY DEF BpsDenominator

LEMMA MulDivUpCovers ==
    ASSUME NEW x \in Nat, NEW y \in Nat, NEW d \in Nat \ {0}
    PROVE  /\ MulDivUp(x, y, d) \in Nat
           /\ MulDivUp(x, y, d) * d >= x * y
<1> DEFINE k == x * y
<1>1. k \in Nat
  BY MulNat
<1> HIDE DEF k
<1>2. /\ k \div d \in Nat
      /\ k % d \in 0 .. d - 1
      /\ k = (k \div d) * d + (k % d)
  BY <1>1, DivDef
<1>3. MulDivUp(x, y, d) = k \div d + (IF k % d # 0 THEN 1 ELSE 0)
  BY DEF MulDivUp, MulDivDown, k
<1>4. CASE k % d = 0
  BY <1>2, <1>3, <1>4 DEF k
<1>5. CASE k % d # 0
  <2>1. (k \div d + 1) * d = (k \div d) * d + d
    BY <1>2
  <2>2. QED
    BY <1>2, <1>3, <1>5, <2>1 DEF k
<1>6. QED
  BY <1>4, <1>5

LEMMA MulDivUpLeast ==
    ASSUME NEW x \in Nat, NEW y \in Nat, NEW d \in Nat \ {0}, NEW n \in Nat,
           n * d >= x * y
    PROVE  MulDivUp(x, y, d) <= n
<1> DEFINE k == x * y
<1>1. k \in Nat
  BY MulNat
<1>0. n * d >= k
  OBVIOUS
<1>3. MulDivUp(x, y, d) = k \div d + (IF k % d # 0 THEN 1 ELSE 0)
  BY DEF MulDivUp, MulDivDown
<1> HIDE DEF k
<1>2. /\ k \div d \in Nat
      /\ k % d \in 0 .. d - 1
      /\ k = (k \div d) * d + (k % d)
  BY <1>1, DivDef
<1> SUFFICES ASSUME MulDivUp(x, y, d) >= n + 1
             PROVE  FALSE
  BY <1>2, <1>3
<1>4. CASE k % d = 0
  <2>0. n + 1 \in Nat /\ n + 1 <= k \div d
    BY <1>2, <1>3, <1>4
  <2>1. (n + 1) * d <= (k \div d) * d
    BY <1>2, <2>0, MulMono
  <2>2. (n + 1) * d = n * d + d
    OBVIOUS
  <2>3. QED
    BY <1>0, <1>1, <1>2, <1>4, <2>1, <2>2
<1>5. CASE k % d # 0
  <2>0. n <= k \div d
    BY <1>2, <1>3, <1>5
  <2>1. n * d <= (k \div d) * d
    BY <1>2, <2>0, MulMono
  <2>2. QED
    BY <1>0, <1>1, <1>2, <1>5, <2>1
<1>6. QED
  BY <1>4, <1>5
\* The reserve the curve holds falls as the tokens it holds grow.
LEMMA ReserveFalls ==
    ASSUME NEW x \in Nat, NEW y \in Nat, NEW d \in Nat \ {0}, NEW e \in Nat \ {0},
           d <= e
    PROVE  MulDivUp(x, y, e) <= MulDivUp(x, y, d)
<1> DEFINE q == MulDivUp(x, y, d)
<1>1. q \in Nat /\ q * d >= x * y
  BY MulDivUpCovers
<1> HIDE DEF q
<1>2. d * q <= e * q
  BY <1>1, MulMono
<1>3. d * q = q * d /\ e * q = q * e
  BY <1>1
<1>4. q * d \in Nat /\ q * e \in Nat /\ x * y \in Nat
  BY <1>1, MulNat
<1>5. q * e >= x * y
  BY <1>1, <1>2, <1>3, <1>4
<1>6. MulDivUp(x, y, e) <= q
  BY <1>1, <1>5, MulDivUpLeast
<1>7. QED
  BY <1>6 DEF q

\* A fee below all of the amount, never more than the amount.
LEMMA FeeWithinAmount ==
    ASSUME NEW a \in Nat, NEW bps \in Nat, bps <= BpsDenominator
    PROVE  FeeUp(a, bps) \in 0 .. a
<1>1. a * bps \in Nat
  BY MulNat
<1>2. bps * a <= BpsDenominator * a
  BY MulMono DEF BpsDenominator
<1>3. bps * a = a * bps
  OBVIOUS
<1>4. a * bps <= 10000 * a
  BY <1>2, <1>3 DEF BpsDenominator
<1>5. QED
  BY <1>1, <1>4 DEF FeeUp, BpsDenominator
\* The reserve at a token reserve and the token reserve at a reserve are
\* inverse to each other, rounding and all.
LEMMA ReserveInverse ==
    ASSUME NEW x \in Nat, NEW y \in Nat, NEW v \in Nat \ {0}, NEW m \in Nat \ {0}
    PROVE  MulDivUp(x, y, v) <= m <=> MulDivUp(x, y, m) <= v
<1> DEFINE p == MulDivUp(x, y, v)
           q == MulDivUp(x, y, m)
<1>1. p \in Nat /\ p * v >= x * y
  BY MulDivUpCovers
<1>2. q \in Nat /\ q * m >= x * y
  BY MulDivUpCovers
<1>3. m * v >= x * y => q <= v
  BY MulDivUpLeast
<1>4. m * v >= x * y => p <= m
  BY MulDivUpLeast
<1> HIDE DEF p, q
<1>5. /\ x * y \in Nat /\ m * v \in Nat /\ v * m = m * v
      /\ p * v \in Nat /\ q * m \in Nat
  BY <1>1, <1>2, MulNat
<1>6. ASSUME p <= m PROVE m * v >= x * y
  BY <1>1, <1>5, <1>6, MulMono
<1>7. ASSUME q <= v PROVE m * v >= x * y
  BY <1>2, <1>5, <1>7, MulMono
<1>8. QED
  BY <1>3, <1>4, <1>6, <1>7 DEF p, q

LEMMA ReservePositive ==
    ASSUME NEW x \in Nat \ {0}, NEW y \in Nat \ {0}, NEW d \in Nat \ {0}
    PROVE  MulDivUp(x, y, d) \in Nat \ {0}
<1>1. x * y >= 1
  BY MulNat
<1>2. MulDivUp(x, y, d) \in Nat /\ MulDivUp(x, y, d) * d >= x * y
  BY MulDivUpCovers
<1>3. MulDivUp(x, y, d) # 0
  BY <1>1, <1>2
<1>4. QED
  BY <1>2, <1>3

\* Rounding up by adding the divisor less one: the form the fees use.
LEMMA CeilAtMost ==
    ASSUME NEW a \in Nat, NEW b \in Nat \ {0}, NEW m \in Nat
    PROVE  (a + (b - 1)) \div b <= m <=> a <= m * b
<1> DEFINE n == a + (b - 1)
           q == n \div b
           r == n % b
<1>1. n \in Nat
  OBVIOUS
<1> HIDE DEF n
<1>2. q \in Nat /\ r \in 0 .. b - 1 /\ n = q * b + r
  BY <1>1, DivDef
<1> HIDE DEF q, r
<1>3. m * b \in Nat /\ q * b \in Nat
  BY <1>2, MulNat
<1>4. ASSUME q <= m PROVE a <= m * b
  <2>1. q * b <= m * b
    BY <1>2, <1>4, MulMono
  <2>2. QED
    BY <1>2, <1>3, <2>1 DEF n
<1>5. ASSUME m + 1 <= q PROVE a > m * b
  <2>1. (m + 1) * b <= q * b
    BY <1>2, <1>5, MulMono
  <2>2. (m + 1) * b = m * b + b
    OBVIOUS
  <2>3. QED
    BY <1>2, <1>3, <2>1, <2>2 DEF n
<1>6. q <= m <=> a <= m * b
  BY <1>2, <1>3, <1>4, <1>5
<1>7. QED
  BY <1>6 DEF q, n

LEMMA FeeAtMost ==
    ASSUME NEW g \in Nat, NEW bps \in Nat, NEW f \in Nat
    PROVE  FeeUp(g, bps) <= f <=> g * bps <= f * BpsDenominator
BY CeilAtMost, MulNat DEF FeeUp, BpsDenominator

LEMMA GrossAtMost ==
    ASSUME NEW n \in Nat, NEW bps \in 0 .. BpsDenominator - 1, NEW g \in Nat
    PROVE  GrossForNetUp(n, bps) <= g <=> n * BpsDenominator <= g * (BpsDenominator - bps)
<1>1. BpsDenominator - bps \in Nat \ {0} /\ n * BpsDenominator \in Nat
  BY MulNat DEF BpsDenominator
<1>2. QED
  BY <1>1, CeilAtMost DEF GrossForNetUp

LEMMA GrossNat ==
    ASSUME NEW n \in Nat, NEW bps \in 0 .. BpsDenominator - 1
    PROVE  GrossForNetUp(n, bps) \in Nat
<1>1. /\ BpsDenominator - bps \in Nat \ {0}
      /\ n * BpsDenominator \in Nat
  BY DEF BpsDenominator
<1>2. n * BpsDenominator + (BpsDenominator - bps - 1) \in Nat
  BY <1>1
<1>3. QED
  BY <1>1, <1>2, DivDef DEF GrossForNetUp

\* A gross leaves at least n after its fee exactly when it is at least the
\* gross grossForNetUp answers with.
LEMMA GrossCoversNet ==
    ASSUME NEW n \in Nat, NEW bps \in 0 .. BpsDenominator - 1, NEW g \in Nat
    PROVE  g - FeeUp(g, bps) >= n <=> GrossForNetUp(n, bps) <= g
<1>0. bps \in Nat /\ bps < BpsDenominator /\ BpsDenominator \in Nat
  BY DEF BpsDenominator
<1>1. FeeUp(g, bps) \in 0 .. g
  BY <1>0, FeeWithinAmount
<1>2. g * (BpsDenominator - bps) = g * BpsDenominator - g * bps
  BY DEF BpsDenominator
<1>3. CASE g >= n
  <2>1. g - n \in Nat /\ bps \in Nat
    BY <1>3 DEF BpsDenominator
  <2>2. FeeUp(g, bps) <= g - n <=> g * bps <= (g - n) * BpsDenominator
    BY <2>1, FeeAtMost
  <2>3. (g - n) * BpsDenominator = g * BpsDenominator - n * BpsDenominator
    BY DEF BpsDenominator
  <2>4. /\ g * bps \in Int /\ g * BpsDenominator \in Int
        /\ n * BpsDenominator \in Int
    BY <1>0, MulNat
  <2>5. g * bps <= (g - n) * BpsDenominator
          <=> n * BpsDenominator <= g * (BpsDenominator - bps)
    BY <1>2, <2>3, <2>4
  <2>6. g - FeeUp(g, bps) >= n <=> FeeUp(g, bps) <= g - n
    BY <1>1
  <2>7. QED
    BY <2>2, <2>5, <2>6, GrossAtMost
<1>4. CASE g < n
  <2>1. g * bps \in Nat
    BY <1>0, MulNat
  <2>2. g * (BpsDenominator - bps) < n * BpsDenominator
    <3>1. g * BpsDenominator < n * BpsDenominator
      BY <1>4 DEF BpsDenominator
    <3>2. g * BpsDenominator \in Int /\ n * BpsDenominator \in Int
      BY <1>0
    <3>3. QED
      BY <1>2, <2>1, <3>1, <3>2
  <2>3. g * (BpsDenominator - bps) \in Int /\ n * BpsDenominator \in Int
    BY <1>0
  <2>4. ~(GrossForNetUp(n, bps) <= g)
    BY <2>2, <2>3, GrossAtMost
  <2>5. QED
    BY <1>1, <1>4, <2>4
<1>5. QED
  BY <1>3, <1>4

\* The headroom is added to the estimate, and a caller's limit only raises it.
LEMMA HeadroomAdds ==
    ASSUME NEW n \in Nat, NEW l \in Nat
    PROVE  /\ WithQuoteTransferHeadroom(n) \in Nat
           /\ WithQuoteTransferHeadroom(n) >= n + QuoteTransferGasHeadroomMin
           /\ Erc20GasLimit(n, l) \in Nat
           /\ Erc20GasLimit(n, l) >= WithQuoteTransferHeadroom(n)
           /\ Erc20GasLimit(n, l) >= l
<1> DEFINE share == ShareOfEstimate(n)
           safe == WithQuoteTransferHeadroom(n)
<1>1. share \in Nat
  <2>1. BpsDenominator \div QuoteTransferGasHeadroomBps = 5
    BY DEF BpsDenominator, QuoteTransferGasHeadroomBps
  <2>2. QED
    BY <2>1 DEF ShareOfEstimate
<1>2. safe = n + (IF share > 150000 THEN share ELSE 150000)
  BY DEF WithQuoteTransferHeadroom, QuoteTransferGasHeadroomMin
<1>3. Erc20GasLimit(n, l) = IF l > safe THEN l ELSE safe
  BY DEF Erc20GasLimit
<1> HIDE DEF share, safe
<1>4. safe \in Nat /\ safe >= n + 150000
  BY <1>1, <1>2
<1>5. QED
  BY <1>3, <1>4 DEF QuoteTransferGasHeadroomMin, safe

\* The crate's headroom, by whole ten-thousandths and the rest.
LEMMA CrateHeadroomAdds ==
    ASSUME NEW estimate \in Nat, NEW limit \in Nat
    PROVE  LET settled == erc20_trade_gas(with_quote_transfer_headroom(estimate), limit)
           IN  settled \in Nat /\ settled >= estimate + QuoteTransferGasHeadroomMin
<1> DEFINE whole == (estimate \div BpsDenominator) * 2000
           rest == ((estimate % BpsDenominator) * 2000) \div BpsDenominator
<1>1. whole \in Nat /\ rest \in Nat
  BY DEF BpsDenominator
<1>2. with_quote_transfer_headroom(estimate)
        = estimate + (IF whole + rest > 150000 THEN whole + rest ELSE 150000)
  BY DEF with_quote_transfer_headroom, with_headroom, QUOTE_TRANSFER_GAS_HEADROOM_BPS,
         QUOTE_TRANSFER_GAS_HEADROOM_MIN
<1> HIDE DEF whole, rest
<1>3. QED
  BY <1>1, <1>2 DEF erc20_trade_gas, QuoteTransferGasHeadroomMin

\* On a fresh curve that is placed, headroom and inventory run out together: a buy
\* graduates exactly if what it brings, less the fee it reports, reaches the target.
LEMMA FreshGraduation ==
    ASSUME NEW c \in CurveRecord, Placed(c), NEW d \in Nat \ {0},
           ~BuyReverts(c, c.r0, 0, d)
    PROVE  LET q == QuoteBuy(c, c.r0, 0, d)
           IN  q.graduates <=> Monus(d, q.fee) >= c.target \/ q.tokensOut >= c.supply
<1> DEFINE q == QuoteBuy(c, c.r0, 0, d)
           asked == d - FeeUp(d, c.feeBps)
           cap == MaxNetIn(c, c.r0, 0)
           net == IF asked > cap THEN cap ELSE asked
           gross == IF asked > cap THEN GrossForNetUp(cap, c.feeBps) ELSE d
<1>1. /\ c.r0 \in Nat \ {0} /\ c.supply \in Nat \ {0} /\ c.target \in Nat \ {0}
      /\ c.y0 \in Nat /\ c.feeBps \in 0 .. BpsDenominator - 1 /\ c.feeBps \in Nat
  <2>1. /\ c.r0 \in Nat /\ c.supply \in Nat /\ c.target \in Nat
        /\ c.y0 \in Nat /\ c.feeBps \in Nat
    BY DEF CurveRecord
  <2>2. c.r0 > 0 /\ c.supply > 0 /\ c.target > 0 /\ c.feeBps < BpsDenominator
    BY DEF Placed
  <2>3. c.feeBps \in 0 .. BpsDenominator - 1
    BY <2>1, <2>2, BpsCompared, Zenon
  <2>4. QED
    BY <2>1, <2>2, <2>3
<1>2. cap = c.target
  <2>1. Remaining(c, 0) = c.supply /\ Headroom(c, c.r0) = c.target /\ c.y0 - 0 = c.y0
    BY <1>1 DEF Remaining, Headroom, Monus
  <2>2. UsdcInForTokensOut(c.r0, c.y0, c.y0, c.supply) = c.target
    BY DEF Placed
  <2>3. MaxNetIn(c, c.r0, 0) = Least(c.target, c.target)
    BY <1>1, <2>1, <2>2 DEF MaxNetIn
  <2>4. QED
    BY <2>3 DEF Least
<1>3. FeeUp(d, c.feeBps) \in 0 .. d
  <2>1. c.feeBps \in Nat /\ d \in Nat
    BY <1>1
  <2>2. \A b \in 0 .. BpsDenominator - 1 : b <= BpsDenominator
    BY DEF BpsDenominator
  <2>3. c.feeBps <= BpsDenominator
    BY <1>1, <2>2
  <2>4. QED
    BY <2>1, <2>3, FeeWithinAmount
<1>4. asked \in Nat
  BY <1>3
<1>5. /\ q.fee = gross - net
      /\ q.newReserve = c.r0 + net
      /\ q.newSold = 0 + q.tokensOut
      /\ q.graduates = Graduates(c, c.r0 + net, 0 + q.tokensOut)
  BY DEF QuoteBuy
<1>6. q.tokensOut \in Int
  BY U256Assumption DEF BuyReverts, BuyOverflows, Fits
<1> HIDE DEF q
<1>7. q.graduates <=> net >= c.target \/ q.tokensOut >= c.supply
  <2>1. net \in Int
    BY <1>1, <1>2, <1>4
  <2>2. (c.r0 + net) - c.r0 = net /\ 0 + q.tokensOut = q.tokensOut
    BY <1>1, <1>6, <2>1
  <2>3. QED
    BY <1>5, <2>2 DEF Graduates
<1>8. CASE asked <= cap
  <2>1. net = asked /\ gross = d
    BY <1>1, <1>2, <1>4, <1>8
  <2>2. Monus(d, q.fee) = net
    BY <1>3, <1>5, <2>1 DEF Monus
  <2>3. QED
    BY <1>7, <2>2 DEF q
<1>9. CASE asked > cap
  <2>1. net = c.target /\ gross = GrossForNetUp(c.target, c.feeBps)
    BY <1>2, <1>9
  <2>2. gross \in Nat
    BY <1>1, <2>1, GrossNat
  <2>3. gross <= d
    <3>1. asked >= c.target
      BY <1>1, <1>2, <1>4, <1>9
    <3>2. QED
      BY <1>1, <2>1, <3>1, GrossCoversNet
  <2>4. Monus(d, q.fee) >= c.target
    BY <1>1, <1>5, <2>1, <2>2, <2>3 DEF Monus
  <2>5. net >= c.target
    BY <1>1, <2>1
  <2>6. QED
    BY <1>7, <2>4, <2>5 DEF q
<1>10. QED
  BY <1>1, <1>2, <1>4, <1>8, <1>9

-----------------------------------------------------------------------------
(* Queues of transactions: what holds of all that are in a queue holds     *)
(* after one is added, or the first one removed.                           *)

LEMMA QueueAppended ==
    ASSUME NEW A, NEW T, NEW S, NEW queue \in [A -> Seq(T)],
           \A a \in A : \A i \in DOMAIN queue[a] : queue[a][i] \in S,
           NEW f \in A, NEW tx \in T, tx \in S
    PROVE  LET longer == [queue EXCEPT ![f] = Append(@, tx)]
           IN  longer \in [A -> Seq(T)] /\ \A a \in A : \A i \in DOMAIN longer[a] : longer[a][i] \in S
<1> DEFINE longer == [queue EXCEPT ![f] = Append(@, tx)]
<1>1. longer \in [A -> Seq(T)]
  OBVIOUS
<1>2. ASSUME NEW a \in A, NEW i \in DOMAIN longer[a] PROVE longer[a][i] \in S
  <2>1. CASE a # f
    BY <1>2, <2>1
  <2>2. CASE a = f
    <3>1. longer[a] = Append(queue[a], tx) /\ queue[a] \in Seq(T)
      BY <2>2
    <3>2. CASE i \in DOMAIN queue[a]
      <4>1. longer[a][i] = queue[a][i]
        BY <3>1, <3>2
      <4>2. QED
        BY <3>2, <4>1
    <3>3. CASE i \notin DOMAIN queue[a]
      <4>1. longer[a][i] = tx
        BY <1>2, <3>1, <3>3
      <4>2. QED
        BY <4>1
    <3>4. QED
      BY <3>2, <3>3
  <2>3. QED
    BY <2>1, <2>2
<1>3. QED
  BY <1>1, <1>2

LEMMA QueueRemoved ==
    ASSUME NEW A, NEW T, NEW S, NEW queue \in [A -> Seq(T)],
           \A a \in A : \A i \in DOMAIN queue[a] : queue[a][i] \in S,
           NEW f \in A, queue[f] # <<>>
    PROVE  LET shorter == [queue EXCEPT ![f] = Tail(@)]
           IN  shorter \in [A -> Seq(T)] /\ \A a \in A : \A i \in DOMAIN shorter[a] : shorter[a][i] \in S
<1> DEFINE shorter == [queue EXCEPT ![f] = Tail(@)]
<1>1. shorter \in [A -> Seq(T)]
  OBVIOUS
<1>2. ASSUME NEW a \in A, NEW i \in DOMAIN shorter[a] PROVE shorter[a][i] \in S
  <2>1. CASE a # f
    BY <1>2, <2>1
  <2>2. CASE a = f
    <3>1. shorter[a] = Tail(queue[a]) /\ queue[a] \in Seq(T) /\ queue[a] # <<>>
      BY <2>2
    <3>2. i + 1 \in DOMAIN queue[a] /\ shorter[a][i] = queue[a][i + 1]
      BY <1>2, <3>1
    <3>3. QED
      BY <3>2
  <2>3. QED
    BY <2>1, <2>2
<1>3. QED
  BY <1>1, <1>2

\* The places of a queue after a transaction is added, and after one is removed.
LEMMA PlaceAppended ==
    ASSUME NEW A, NEW T, NEW queue \in [A -> Seq(T)], NEW f \in A, NEW tx \in T,
           NEW a \in A
    PROVE  LET longer == [queue EXCEPT ![f] = Append(@, tx)]
           IN  \A i \in DOMAIN longer[a] :
                 \/ i \in DOMAIN queue[a] /\ longer[a][i] = queue[a][i]
                 \/ i \notin DOMAIN queue[a] /\ a = f /\ i = Len(queue[f]) + 1
                      /\ longer[a][i] = tx
<1> DEFINE longer == [queue EXCEPT ![f] = Append(@, tx)]
<1>1. CASE a # f
  BY <1>1
<1>2. CASE a = f
  <2>1. longer[a] = Append(queue[a], tx) /\ queue[a] \in Seq(T)
    BY <1>2
  <2>2. QED
    BY <1>2, <2>1
<1>3. QED
  BY <1>1, <1>2

LEMMA PlaceRemoved ==
    ASSUME NEW A, NEW T, NEW queue \in [A -> Seq(T)], NEW f \in A, queue[f] # <<>>,
           NEW a \in A
    PROVE  LET shorter == [queue EXCEPT ![f] = Tail(@)]
           IN  \A i \in DOMAIN shorter[a] :
                 LET j == IF a = f THEN i + 1 ELSE i
                 IN  i \in Nat \ {0} /\ j \in DOMAIN queue[a] /\ shorter[a][i] = queue[a][j]
<1> DEFINE shorter == [queue EXCEPT ![f] = Tail(@)]
<1>1. CASE a # f
  BY <1>1
<1>2. CASE a = f
  <2>1. shorter[a] = Tail(queue[a]) /\ queue[a] \in Seq(T) /\ queue[a] # <<>>
    BY <1>2
  <2>2. QED
    BY <1>2, <2>1
<1>3. QED
  BY <1>1, <1>2

\* No two transactions that are on their way are related by R.
Lone(queue, A, R) ==
    \A a \in A, b \in A : \A i \in DOMAIN queue[a], j \in DOMAIN queue[b] :
        <<queue[a][i], queue[b][j]>> \in R => a = b /\ i = j

LEMMA LoneAppended ==
    ASSUME NEW A, NEW T, NEW R, NEW queue \in [A -> Seq(T)], Lone(queue, A, R),
           NEW f \in A, NEW tx \in T,
           \A a \in A : \A i \in DOMAIN queue[a] :
               <<queue[a][i], tx>> \notin R /\ <<tx, queue[a][i]>> \notin R
    PROVE  Lone([queue EXCEPT ![f] = Append(@, tx)], A, R)
<1> DEFINE longer == [queue EXCEPT ![f] = Append(@, tx)]
<1>1. \A a \in A : \A i \in DOMAIN longer[a] :
         \/ i \in DOMAIN queue[a] /\ longer[a][i] = queue[a][i]
         \/ i \notin DOMAIN queue[a] /\ a = f /\ i = Len(queue[f]) + 1 /\ longer[a][i] = tx
  BY PlaceAppended
<1> HIDE DEF longer
<1>2. ASSUME NEW a \in A, NEW b \in A, NEW i \in DOMAIN longer[a], NEW j \in DOMAIN longer[b],
             <<longer[a][i], longer[b][j]>> \in R
      PROVE  a = b /\ i = j
  <2>1. CASE i \in DOMAIN queue[a] /\ j \in DOMAIN queue[b]
    BY <1>1, <1>2, <2>1 DEF Lone
  <2>2. CASE i \in DOMAIN queue[a] /\ j \notin DOMAIN queue[b]
    BY <1>1, <1>2, <2>2
  <2>3. CASE i \notin DOMAIN queue[a] /\ j \in DOMAIN queue[b]
    BY <1>1, <1>2, <2>3
  <2>4. CASE i \notin DOMAIN queue[a] /\ j \notin DOMAIN queue[b]
    BY <1>1, <2>4
  <2>5. QED
    BY <2>1, <2>2, <2>3, <2>4
<1>3. QED
  BY <1>2 DEF Lone, longer

LEMMA LoneRemoved ==
    ASSUME NEW A, NEW T, NEW R, NEW queue \in [A -> Seq(T)], Lone(queue, A, R),
           NEW f \in A, queue[f] # <<>>
    PROVE  LET shorter == [queue EXCEPT ![f] = Tail(@)]
           IN  /\ Lone(shorter, A, R)
               /\ \A b \in A : \A j \in DOMAIN shorter[b] : <<queue[f][1], shorter[b][j]>> \notin R
<1> DEFINE shorter == [queue EXCEPT ![f] = Tail(@)]
           was(a, i) == IF a = f THEN i + 1 ELSE i
<1>1. \A a \in A : \A i \in DOMAIN shorter[a] :
         i \in Nat \ {0} /\ was(a, i) \in DOMAIN queue[a]
           /\ shorter[a][i] = queue[a][was(a, i)]
  BY PlaceRemoved
<1>2. 1 \in DOMAIN queue[f]
  <2>1. queue[f] \in Seq(T)
    OBVIOUS
  <2>2. QED
    BY <2>1
<1> HIDE DEF shorter
<1>3. ASSUME NEW a \in A, NEW b \in A, NEW i \in DOMAIN shorter[a], NEW j \in DOMAIN shorter[b],
             <<shorter[a][i], shorter[b][j]>> \in R
      PROVE  a = b /\ i = j
  <2>1. a = b /\ was(a, i) = was(b, j)
    BY <1>1, <1>3 DEF Lone
  <2>2. QED
    BY <1>1, <2>1
<1>4. ASSUME NEW b \in A, NEW j \in DOMAIN shorter[b], <<queue[f][1], shorter[b][j]>> \in R
      PROVE  FALSE
  <2>1. f = b /\ was(b, j) = 1
    BY <1>1, <1>2, <1>4 DEF Lone
  <2>2. QED
    BY <1>1, <2>1
<1>5. QED
  BY <1>3, <1>4 DEF Lone, shorter

-----------------------------------------------------------------------------
(* Division, and the fee of a pool's hook.                                 *)

\* Euclid's division.
LEMMA Euclid ==
    \A k \in Nat, s \in Nat \ {0} :
        \E q \in Nat, r \in 0 .. s - 1 :
            q = k \div s /\ r = k % s /\ k = q * s + r
OBVIOUS

\* Quotient and remainder are the only ones there are.
LEMMA EuclidUnique ==
    ASSUME NEW q \in Nat, NEW s \in Nat \ {0}, NEW r \in 0 .. s - 1
    PROVE  (q * s + r) \div s = q /\ (q * s + r) % s = r
<1>1. q * s + r \in Nat
  BY MulNat
<1>2. PICK p \in Nat, t \in 0 .. s - 1 :
         /\ p = (q * s + r) \div s
         /\ t = (q * s + r) % s
         /\ q * s + r = p * s + t
  BY <1>1, Euclid
<1>3. ~(p >= q + 1)
  <2> SUFFICES ASSUME p >= q + 1 PROVE FALSE
    OBVIOUS
  <2>1. (q + 1) * s <= p * s
    BY MulMono
  <2>2. (q + 1) * s = q * s + s
    OBVIOUS
  <2> QED
    BY <1>2, <2>1, <2>2, MulNat
<1>4. ~(q >= p + 1)
  <2> SUFFICES ASSUME q >= p + 1 PROVE FALSE
    OBVIOUS
  <2>1. (p + 1) * s <= q * s
    BY MulMono
  <2>2. (p + 1) * s = p * s + s
    OBVIOUS
  <2> QED
    BY <1>2, <2>1, <2>2, MulNat
<1> QED
  BY <1>2, <1>3, <1>4, MulNat

\* The hook's fee is a unit for every 125 units.
LEMMA FeePerUnits ==
    ASSUME NEW raw \in Nat
    PROVE  \E q \in Nat, r \in 0 .. 124 : raw = 125 * q + r /\ BuyFeeRaw(raw) = q
<1>1. PICK q \in Nat, r \in 0 .. 124 : raw = 125 * q + r
  <2>1. PICK d \in Nat \ {0} : d = 125
    OBVIOUS
  <2>2. PICK q \in Nat, r \in 0 .. d - 1 : raw = q * d + r
    BY Euclid
  <2> QED
    BY <2>1, <2>2
<1>2. raw * 80 = 10000 * q + 80 * r
  BY <1>1
<1>3. (10000 * q + 80 * r) \div 10000 = q
  BY <1>1
<1> QED
  BY <1>1, <1>2, <1>3 DEF BuyFeeRaw, PoolTradeFeeBps, BpsDenominator

\* For every payout a pool makes, the fee derived from what the trader sees is
\* the hook's fee or one unit more, and the payout derived from the fee is
\* short of the true one by at most 124 units.
LEMMA FeeRecovered ==
    ASSUME NEW gross \in Nat
    PROVE  /\ BuyFeeRaw(gross) \in 0 .. gross
           /\ SellFeeRaw(gross - BuyFeeRaw(gross)) \in {BuyFeeRaw(gross), BuyFeeRaw(gross) + 1}
           /\ SellOutRaw(BuyFeeRaw(gross))
                \in (gross - BuyFeeRaw(gross)) - 124 .. gross - BuyFeeRaw(gross)
<1>1. PICK q \in Nat, r \in 0 .. 124 : gross = 125 * q + r /\ BuyFeeRaw(gross) = q
  BY FeePerUnits
<1>2. ((124 * q + r) * 10000) \div (10000 - 80) = 125 * q + (IF r = 124 THEN 125 ELSE r)
  <2>1. (124 * q + r) * 10000 = 9920 * (125 * q) + 10000 * r
    OBVIOUS
  <2>2. (9920 * (125 * q) + 10000 * r) \div 9920 = 125 * q + (10000 * r) \div 9920
    OBVIOUS
  <2>3. (10000 * r) \div 9920 = IF r = 124 THEN 125 ELSE r
    OBVIOUS
  <2> QED
    BY <2>1, <2>2, <2>3
<1>3. SellFeeRaw(124 * q + r) = BuyFeeRaw(125 * q + (IF r = 124 THEN 125 ELSE r))
  BY <1>2 DEF SellFeeRaw, BuyFeeRaw, PoolTradeFeeBps, BpsDenominator
<1>4. BuyFeeRaw(125 * q + (IF r = 124 THEN 125 ELSE r)) \in {q, q + 1}
  <2>1. CASE r = 124
    <3>1. PICK p \in Nat, t \in 0 .. 124 :
             125 * q + 125 = 125 * p + t /\ BuyFeeRaw(125 * q + 125) = p
      BY FeePerUnits
    <3> QED
      BY <2>1, <3>1
  <2>2. CASE r # 124
    <3>1. PICK p \in Nat, t \in 0 .. 124 :
             125 * q + r = 125 * p + t /\ BuyFeeRaw(125 * q + r) = p
      BY FeePerUnits
    <3> QED
      BY <2>2, <3>1
  <2> QED
    BY <2>1, <2>2
<1>5. SellOutRaw(q) = 124 * q
  BY DEF SellOutRaw, PoolTradeFeeBps, BpsDenominator
<1> QED
  BY <1>1, <1>3, <1>4, <1>5

-----------------------------------------------------------------------------
(* Quotes at any position a curve may be in.                                *)

\* The figures of a curve that is placed.  With nothing sold the price function gives
\* the virtual reserve itself, and with all of it sold the target on top.
LEMMA PlacedFigures ==
    ASSUME NEW c \in CurveRecord, Placed(c)
    PROVE  /\ c.r0 \in Nat \ {0} /\ c.r0 \in Nat /\ c.y0 \in Nat \ {0} /\ c.y0 \in Nat
           /\ c.supply \in Nat \ {0} /\ c.supply \in Nat
           /\ c.target \in Nat \ {0} /\ c.target \in Nat
           /\ c.y0 - c.supply \in Nat \ {0}
           /\ c.feeBps \in 0 .. BpsDenominator - 1 /\ c.feeBps \in Nat
           /\ c.feeBps <= BpsDenominator
           /\ MulDivUp(c.r0, c.y0, c.y0) = c.r0
           /\ MulDivUp(c.r0, c.y0, c.y0 - c.supply) = c.r0 + c.target
<1>1. /\ c.r0 \in Nat /\ c.supply \in Nat /\ c.target \in Nat
      /\ c.y0 \in Nat /\ c.feeBps \in Nat
  BY DEF CurveRecord
<1>2. /\ c.r0 > 0 /\ c.supply > 0 /\ c.y0 > c.supply /\ c.target > 0
      /\ c.feeBps < BpsDenominator
      /\ c.target = MulDivUp(c.r0, c.y0, c.y0 - c.supply) - MulDivUp(c.r0, c.y0, c.y0)
  BY DEF Placed, UsdcInForTokensOut, UsdcReserveAt
<1>3. c.feeBps \in 0 .. BpsDenominator - 1 /\ c.feeBps <= BpsDenominator
  <2>1. \A b \in Nat : b < BpsDenominator => b \in 0 .. BpsDenominator - 1 /\ b <= BpsDenominator
    BY DEF BpsDenominator
  <2>2. QED
    BY <1>1, <1>2, <2>1
<1>4. /\ c.r0 \in Nat \ {0} /\ c.y0 \in Nat \ {0} /\ c.supply \in Nat \ {0}
      /\ c.target \in Nat \ {0} /\ c.y0 - c.supply \in Nat \ {0}
  BY <1>1, <1>2
<1>5. MulDivUp(c.r0, c.y0, c.y0 - c.supply) \in Nat
  BY <1>1, <1>4, MulDivUpCovers
<1>6. MulDivUp(c.r0, c.y0, c.y0) = c.r0
  <2> DEFINE n == MulDivUp(c.r0, c.y0, c.y0)
  <2>1. n \in Nat /\ n * c.y0 >= c.r0 * c.y0
    BY <1>1, <1>4, MulDivUpCovers
  <2>2. n <= c.r0
    BY <1>1, <1>4, MulNat, MulDivUpLeast
  <2> HIDE DEF n
  <2>3. ASSUME n + 1 <= c.r0 PROVE FALSE
    <3>1. (n + 1) * c.y0 <= c.r0 * c.y0
      BY <1>1, <2>1, <2>3, MulMono
    <3>2. (n + 1) * c.y0 = n * c.y0 + c.y0
      <4>1. \A k, m \in Nat : (k + 1) * m = k * m + m
        OBVIOUS
      <4>2. QED
        BY <1>1, <2>1, <4>1
    <3>3. n * c.y0 \in Nat /\ c.r0 * c.y0 \in Nat
      BY <1>1, <2>1, MulNat
    <3>4. QED
      BY <1>1, <1>4, <2>1, <3>1, <3>2, <3>3
  <2>4. n = c.r0
    BY <1>1, <2>1, <2>2, <2>3
  <2>5. QED
    BY <2>4 DEF n
<1>7. MulDivUp(c.r0, c.y0, c.y0 - c.supply) = c.r0 + c.target
  BY <1>1, <1>2, <1>5, <1>6
<1>8. QED
  BY <1>1, <1>3, <1>4, <1>6, <1>7

OpenAt(c, r, s) ==
    /\ c \in CurveRecord /\ Placed(c)
    /\ s \in 0 .. c.supply - 1
    /\ r - c.r0 \in 0 .. c.target - 1
    /\ r \in Nat
    /\ r >= MulDivUp(c.r0, c.y0, c.y0 - s)

\* The figures of such a position.
LEMMA OpenFigures ==
    ASSUME NEW c, NEW r, NEW s, OpenAt(c, r, s)
    PROVE  /\ c.r0 \in Nat \ {0} /\ c.r0 \in Nat /\ c.y0 \in Nat \ {0} /\ c.y0 \in Nat
           /\ c.supply \in Nat /\ c.target \in Nat /\ s \in Nat /\ c.supply - s \in Nat \ {0}
           /\ c.feeBps \in 0 .. BpsDenominator - 1 /\ c.feeBps \in Nat
           /\ c.feeBps <= BpsDenominator
           /\ c.y0 - s \in Nat \ {0} /\ c.y0 - c.supply \in Nat \ {0}
           /\ MulDivUp(c.r0, c.y0, c.y0 - s) \in Nat \ {0}
           /\ MulDivUp(c.r0, c.y0, c.y0 - c.supply) = c.r0 + c.target
           /\ Headroom(c, r) = c.target - (r - c.r0)
           /\ Remaining(c, s) = c.supply - s
           /\ MaxNetIn(c, r, s)
                  = Least(c.target - (r - c.r0),
                          (c.r0 + c.target) - MulDivUp(c.r0, c.y0, c.y0 - s))
           /\ MaxNetIn(c, r, s) \in Nat \ {0}
<1>1. /\ c.r0 \in Nat \ {0} /\ c.r0 \in Nat /\ c.y0 \in Nat \ {0} /\ c.y0 \in Nat
      /\ c.supply \in Nat /\ c.target \in Nat /\ c.y0 - c.supply \in Nat \ {0}
      /\ c.feeBps \in 0 .. BpsDenominator - 1 /\ c.feeBps \in Nat
      /\ c.feeBps <= BpsDenominator
      /\ MulDivUp(c.r0, c.y0, c.y0 - c.supply) = c.r0 + c.target
  BY PlacedFigures DEF OpenAt
<1>2. /\ s \in 0 .. c.supply - 1 /\ r \in Nat /\ r - c.r0 \in 0 .. c.target - 1
      /\ r >= MulDivUp(c.r0, c.y0, c.y0 - s)
  BY DEF OpenAt
<1>3. /\ s \in Nat /\ c.supply - s \in Nat \ {0} /\ c.y0 - s \in Nat \ {0}
  BY <1>1, <1>2
<1>4. MulDivUp(c.r0, c.y0, c.y0 - s) \in Nat \ {0}
  BY <1>1, <1>3, ReservePositive
<1>5. /\ Headroom(c, r) = c.target - (r - c.r0) /\ c.target - (r - c.r0) \in Nat \ {0}
      /\ Remaining(c, s) = c.supply - s /\ Remaining(c, s) # 0
  BY <1>1, <1>2, <1>3 DEF Headroom, Remaining, Monus
<1>6. UsdcInForTokensOut(c.r0, c.y0, c.y0 - s, c.supply - s)
           = (c.r0 + c.target) - MulDivUp(c.r0, c.y0, c.y0 - s)
  <2>1. (c.y0 - s) - (c.supply - s) = c.y0 - c.supply
    BY <1>1, <1>3
  <2>2. QED
    BY <1>1, <2>1 DEF UsdcInForTokensOut, UsdcReserveAt
<1>7. (c.r0 + c.target) - MulDivUp(c.r0, c.y0, c.y0 - s) \in Nat \ {0}
  BY <1>1, <1>2, <1>4
<1>8. MaxNetIn(c, r, s)
           = Least(c.target - (r - c.r0),
                   (c.r0 + c.target) - MulDivUp(c.r0, c.y0, c.y0 - s))
  BY <1>5, <1>6 DEF MaxNetIn
<1>9. MaxNetIn(c, r, s) \in Nat \ {0}
  BY <1>5, <1>7, <1>8 DEF Least
<1>10. QED
  BY <1>1, <1>3, <1>4, <1>5, <1>8, <1>9

\* The quote of a buy, by what of it stays in the curve and what the buyer spends.
BuyOf(c, r, s, net, gross, refund) ==
    LET bought == IF net = 0 THEN 0 ELSE TokensOutForUsdcIn(c.r0, c.y0, c.y0 - s, net)
        tokensOut == Least(bought, c.supply - s)
    IN  [ tokensOut |-> tokensOut,
          fee |-> gross - net,
          spent |-> gross,
          refund |-> refund,
          newReserve |-> r + net,
          newSold |-> s + tokensOut,
          newPrice |-> SpotPriceAt(c, s + tokensOut),
          graduates |-> Graduates(c, r + net, s + tokensOut) ]

AskedNet(c, d) == d - FeeUp(d, c.feeBps)

NetKept(c, r, s, d) ==
    IF AskedNet(c, d) > MaxNetIn(c, r, s) THEN MaxNetIn(c, r, s) ELSE AskedNet(c, d)

GrossSpent(c, r, s, d) ==
    IF AskedNet(c, d) > MaxNetIn(c, r, s)
    THEN GrossForNetUp(MaxNetIn(c, r, s), c.feeBps) ELSE d

LEMMA BuyIsOf ==
    ASSUME NEW c, NEW r, NEW s, NEW d
    PROVE  QuoteBuy(c, r, s, d)
               = BuyOf(c, r, s, NetKept(c, r, s, d), GrossSpent(c, r, s, d),
                       d - GrossSpent(c, r, s, d))
BY DEF QuoteBuy, BuyOf, NetKept, GrossSpent, AskedNet

LEMMA NetKeptNat ==
    ASSUME NEW c, NEW r, NEW s, OpenAt(c, r, s), NEW d \in Nat
    PROVE  /\ AskedNet(c, d) \in Nat
           /\ NetKept(c, r, s, d) \in Nat
           /\ NetKept(c, r, s, d) <= AskedNet(c, d)
           /\ NetKept(c, r, s, d) <= MaxNetIn(c, r, s)
           /\ NetKept(c, r, s, d) \in {AskedNet(c, d), MaxNetIn(c, r, s)}
           /\ MaxNetIn(c, r, s) <= c.target - (r - c.r0)
           /\ MaxNetIn(c, r, s)
                <= (c.r0 + c.target) - MulDivUp(c.r0, c.y0, c.y0 - s)
<1>1. AskedNet(c, d) \in Nat
  BY OpenFigures, FeeWithinAmount DEF AskedNet
<1>2. MaxNetIn(c, r, s) \in Nat
  BY OpenFigures
<1>3. /\ MaxNetIn(c, r, s) <= c.target - (r - c.r0)
      /\ MaxNetIn(c, r, s)
            <= (c.r0 + c.target) - MulDivUp(c.r0, c.y0, c.y0 - s)
  <2> DEFINE a == c.target - (r - c.r0)
             b == (c.r0 + c.target) - MulDivUp(c.r0, c.y0, c.y0 - s)
  <2>1. MaxNetIn(c, r, s) = Least(a, b)
    BY OpenFigures
  <2>2. a \in Int /\ b \in Int
    <3>1. r \in Nat
      BY DEF OpenAt
    <3>2. c.r0 \in Nat /\ c.target \in Nat /\ MulDivUp(c.r0, c.y0, c.y0 - s) \in Nat \ {0}
      BY OpenFigures
    <3>3. QED
      BY <3>1, <3>2
  <2> HIDE DEF a, b
  <2>3. MaxNetIn(c, r, s) <= a /\ MaxNetIn(c, r, s) <= b
    BY <2>1, <2>2 DEF Least
  <2>4. QED
    BY <2>3 DEF a, b
<1>4. QED
  BY <1>1, <1>2, <1>3 DEF NetKept

\* What a buy takes of the inventory: never more than is left, never below the token
\* reserve its money pays for, and just that much when it does not sell the curve out.
LEMMA TokensTaken ==
    ASSUME NEW c, NEW r, NEW s, OpenAt(c, r, s), NEW net \in Nat, NEW gross, NEW refund
    PROVE  LET t == BuyOf(c, r, s, net, gross, refund).tokensOut
               y == c.y0 - s
               v == MulDivUp(c.r0, c.y0, y) + net
           IN  /\ t \in Nat /\ t <= c.supply - s
               /\ v \in Nat \ {0} /\ MulDivUp(c.r0, c.y0, v) \in Nat \ {0}
               /\ y - t \in Nat \ {0}
               /\ MulDivUp(c.r0, c.y0, v) <= y - t
               /\ MulDivUp(c.r0, c.y0, y - t) <= v
               /\ net = 0 => t = 0
               /\ net # 0 /\ t < c.supply - s => y - t = MulDivUp(c.r0, c.y0, v)
<1> DEFINE y == c.y0 - s
           w == MulDivUp(c.r0, c.y0, y)
           v == w + net
           left == MulDivUp(c.r0, c.y0, v)
           bought == IF net = 0 THEN 0 ELSE y - left
           rem == c.supply - s
           t == Least(bought, rem)
<1>1. /\ c.r0 \in Nat \ {0} /\ c.r0 \in Nat /\ c.y0 \in Nat \ {0} /\ c.y0 \in Nat
      /\ rem \in Nat /\ y \in Nat \ {0} /\ w \in Nat \ {0}
      /\ y - rem \in Nat \ {0}
  <2>1. /\ c.r0 \in Nat \ {0} /\ c.r0 \in Nat /\ c.y0 \in Nat \ {0} /\ c.y0 \in Nat
        /\ rem \in Nat \ {0} /\ y \in Nat \ {0} /\ w \in Nat \ {0}
        /\ c.y0 - c.supply \in Nat \ {0} /\ c.supply \in Nat /\ s \in Nat
    BY OpenFigures
  <2>2. y - rem = c.y0 - c.supply
    BY <2>1
  <2>3. QED
    BY <2>1, <2>2
<1>2. BuyOf(c, r, s, net, gross, refund).tokensOut = t
  BY DEF BuyOf, TokensOutForUsdcIn, UsdcReserveAt
<1>3. v \in Nat \ {0} /\ w <= v
  BY <1>1
<1>4. left \in Nat \ {0}
  BY <1>1, <1>3, ReservePositive
<1>5. left <= y
  BY <1>1, <1>3, ReserveInverse
<1> HIDE DEF y, left, rem, v, w
<1>6. /\ t \in Nat /\ t <= rem /\ left <= y - t
      /\ net = 0 => t = 0
      /\ net # 0 /\ t < rem => y - t = left
      /\ y - t \in Nat \ {0}
  BY <1>1, <1>4, <1>5 DEF Least
<1> HIDE DEF t
<1>7. MulDivUp(c.r0, c.y0, y - t) <= v
  BY <1>1, <1>3, <1>4, <1>6, ReserveInverse DEF left
<1>8. QED
  BY <1>2, <1>3, <1>4, <1>6, <1>7 DEF y, v, w, left, rem

\* A buy that does not graduate the curve leaves it at a position of its own.
LEMMA BuyLeavesOpen ==
    ASSUME NEW c, NEW r, NEW s, OpenAt(c, r, s), NEW net \in Nat, NEW gross, NEW refund,
           ~BuyOf(c, r, s, net, gross, refund).graduates
    PROVE  LET b == BuyOf(c, r, s, net, gross, refund)
           IN  /\ OpenAt(c, b.newReserve, b.newSold)
               /\ b.newReserve = r + net
               /\ b.newSold = s + b.tokensOut
<1> DEFINE b == BuyOf(c, r, s, net, gross, refund)
           t == b.tokensOut
           y == c.y0 - s
           w == MulDivUp(c.r0, c.y0, y)
<1>1. b.newReserve = r + net /\ b.newSold = s + t /\ b.graduates = Graduates(c, r + net, s + t)
  BY DEF BuyOf
<1>2. /\ c.r0 \in Nat /\ c.target \in Nat /\ c.supply \in Nat /\ c.y0 \in Nat /\ s \in Nat
      /\ r \in Nat /\ w \in Nat \ {0} /\ r >= w /\ r - c.r0 \in 0 .. c.target - 1
      /\ c \in CurveRecord /\ Placed(c)
  BY OpenFigures DEF OpenAt
<1>3. t \in Nat /\ t <= c.supply - s /\ MulDivUp(c.r0, c.y0, y - t) <= w + net
      /\ y - t \in Nat \ {0}
  BY TokensTaken
<1>4. MulDivUp(c.r0, c.y0, y - t) \in Nat
  BY <1>2, <1>3, MulDivUpCovers
<1>5. ~((r + net) - c.r0 >= c.target) /\ ~(s + t >= c.supply)
  <2>1. b.graduates = Graduates(c, r + net, s + t) /\ ~b.graduates
    BY <1>1
  <2> HIDE DEF b, t
  <2>2. ~Graduates(c, r + net, s + t)
    BY <2>1, Zenon
  <2>3. QED
    BY <2>2 DEF Graduates
<1>6. y - t = c.y0 - (s + t)
  BY <1>2, <1>3
<1> HIDE DEF b, t, y, w
<1>7. /\ r + net \in Nat /\ (r + net) - c.r0 \in 0 .. c.target - 1
      /\ s + t \in 0 .. c.supply - 1
      /\ r + net >= MulDivUp(c.r0, c.y0, y - t)
  BY <1>2, <1>3, <1>4, <1>5
<1>8. OpenAt(c, r + net, s + t)
  BY <1>2, <1>6, <1>7 DEF OpenAt
<1>9. QED
  BY <1>1, <1>8 DEF b, t

\* Nor does a sell of tokens the curve has sold: what it pays out is what they were
\* priced at, or less.
LEMMA SellLeavesOpen ==
    ASSUME NEW c, NEW r, NEW s, OpenAt(c, r, s), NEW t \in Nat, t <= s
    PROVE  OpenAt(c, QuoteSell(c, r, s, t).newReserve, QuoteSell(c, r, s, t).newSold)
<1> DEFINE y == c.y0 - s
           w == MulDivUp(c.r0, c.y0, y)
           left == MulDivUp(c.r0, c.y0, y + t)
<1>1. /\ QuoteSell(c, r, s, t).newReserve = r - (w - left)
      /\ QuoteSell(c, r, s, t).newSold = s - t
  BY DEF QuoteSell, UsdcOutForTokensIn, UsdcReserveAt
<1>2. /\ c.r0 \in Nat \ {0} /\ c.r0 \in Nat /\ c.target \in Nat /\ c.supply \in Nat
      /\ c.y0 \in Nat \ {0} /\ c.y0 \in Nat
      /\ s \in Nat /\ r \in Nat /\ y \in Nat \ {0} /\ w \in Nat \ {0}
      /\ MulDivUp(c.r0, c.y0, c.y0) = c.r0
  BY OpenFigures, PlacedFigures DEF OpenAt
<1>3. /\ c \in CurveRecord /\ Placed(c) /\ s \in 0 .. c.supply - 1
      /\ r - c.r0 \in 0 .. c.target - 1 /\ r >= w
  BY DEF OpenAt
<1>4. /\ y + t \in Nat \ {0} /\ y <= y + t /\ y + t <= c.y0
      /\ c.y0 - (s - t) = y + t
  BY <1>2
<1>5. /\ left \in Nat \ {0} /\ left <= w /\ left >= c.r0
  <2> HIDE DEF y
  <2>1. left \in Nat \ {0}
    BY <1>2, <1>4, ReservePositive
  <2>2. left <= w
    BY <1>2, <1>4, ReserveFalls
  <2>3. MulDivUp(c.r0, c.y0, c.y0) <= left
    BY <1>2, <1>4, ReserveFalls
  <2> HIDE DEF w, left
  <2>4. QED
    BY <1>2, <2>1, <2>2, <2>3
<1> HIDE DEF w, left
<1>6. /\ r - (w - left) \in Nat /\ r - (w - left) >= left
      /\ (r - (w - left)) - c.r0 \in 0 .. c.target - 1
      /\ s - t \in 0 .. c.supply - 1
  BY <1>2, <1>3, <1>5
<1>7. left = MulDivUp(c.r0, c.y0, c.y0 - (s - t))
  BY <1>4 DEF left
<1>8. OpenAt(c, r - (w - left), s - t)
  BY <1>3, <1>6, <1>7 DEF OpenAt
<1>9. QED
  BY <1>1, <1>8

-----------------------------------------------------------------------------
(* What 256 bits hold, and what each operation of the crate answers.        *)

LEMMA FitsBelow ==
    ASSUME NEW m \in Nat, Fits(m), NEW n \in Nat, n <= m PROVE Fits(n)
BY U256Assumption DEF Fits

LEMMA FitsScaled ==
    ASSUME NEW m \in Nat, NEW k \in Nat, NEW x \in Nat, Fits(m * k + x),
           NEW n \in Nat, n <= m, NEW j \in Nat, j <= k
    PROVE  Fits(n * j + x)
<1>1. n * j <= m * j
  BY MulMono
<1>2. m * j <= m * k
  <2>1. j * m <= k * m
    BY MulMono
  <2>2. j * m = m * j /\ k * m = m * k
    OBVIOUS
  <2>3. QED
    BY <2>1, <2>2
<1>3. n * j \in Nat /\ m * j \in Nat /\ m * k \in Nat
  BY MulNat
<1>4. n * j + x <= m * k + x /\ n * j + x \in Nat /\ m * k + x \in Nat
  BY <1>1, <1>2, <1>3
<1>5. QED
  BY <1>4, FitsBelow

LEMMA CheckedIs ==
    ASSUME NEW n \in Int
    PROVE  /\ Checked(n) = IF Fits(n) THEN n ELSE Refused
           /\ Fits(n) => n \in Nat /\ n # Refused
BY U256Assumption DEF Checked, Fits, Refused

LEMMA AddIs ==
    ASSUME NEW a \in Nat, NEW b \in Nat
    PROVE  add(a, b) = IF Fits(a + b) THEN a + b ELSE Refused
BY DEF add, Checked, Refused

LEMMA SubIs ==
    ASSUME NEW a \in Nat, NEW b \in Nat, Fits(a)
    PROVE  sub(a, b) = IF a >= b THEN a - b ELSE Refused
<1>1. sub(a, b) = Checked(a - b)
  BY DEF sub, Refused
<1>2. a \in 0 .. U256Max /\ a - b \in Int
  BY DEF Fits
<1>3. QED
  BY <1>1, <1>2, U256Assumption DEF Checked, Fits

LEMMA MulIs ==
    ASSUME NEW a \in Nat, NEW b \in Nat
    PROVE  mul(a, b) = IF Fits(a * b) THEN a * b ELSE Refused
BY DEF mul, Checked, Refused

\* A refused operand is refused.
LEMMA RefusedPasses ==
    ASSUME NEW a, NEW b
    PROVE  /\ add(Refused, b) = Refused /\ add(a, Refused) = Refused
           /\ sub(Refused, b) = Refused /\ sub(a, Refused) = Refused
           /\ mul(Refused, b) = Refused /\ div(Refused, b) = Refused
           /\ div(a, Refused) = Refused
           /\ mul_div_up(a, b, Refused) = Refused /\ mul_div_down(Refused, a, b) = Refused
BY DEF add, sub, mul, div, mul_div_up, mul_div_down

LEMMA MulDivUpIs ==
    ASSUME NEW x \in Nat, NEW y \in Nat, NEW d \in Nat \ {0}
    PROVE  mul_div_up(x, y, d)
               = IF Fits(MulDivUp(x, y, d)) THEN MulDivUp(x, y, d) ELSE Refused
<1> DEFINE k == x * y
           q == k \div d
<1>1. k \in Nat
  BY MulNat
<1>2. q \in Nat
  BY <1>1, DivDef
<1>3. MulDivUp(x, y, d) = q + (IF k % d # 0 THEN 1 ELSE 0)
  BY DEF MulDivUp, MulDivDown
<1>4. mul_div_down(x, y, d) = Checked(q)
  BY DEF mul_div_down, Refused
<1>5. mul_div_up(x, y, d)
          = IF Checked(q) = Refused \/ k % d = 0 THEN Checked(q) ELSE Checked(Checked(q) + 1)
  BY <1>4 DEF mul_div_up
<1> HIDE DEF k, q
<1>6. Checked(q) = (IF Fits(q) THEN q ELSE Refused) /\ (Fits(q) => q # Refused)
  BY <1>2, CheckedIs
<1>7. Checked(q + 1) = IF Fits(q + 1) THEN q + 1 ELSE Refused
  BY <1>2, CheckedIs
<1>8. Fits(q + 1) => Fits(q)
  BY <1>2, U256Assumption DEF Fits
<1>9. q + 0 = q
  BY <1>2
<1>10. QED
  BY <1>3, <1>5, <1>6, <1>7, <1>8, <1>9

LEMMA MulDivDownIs ==
    ASSUME NEW x \in Nat, NEW y \in Nat, NEW d \in Nat \ {0}
    PROVE  /\ mul_div_down(x, y, d)
                  = IF Fits(MulDivDown(x, y, d)) THEN MulDivDown(x, y, d) ELSE Refused
           /\ MulDivDown(x, y, d) \in Nat
<1>1. MulDivDown(x, y, d) \in Nat
  BY MulNat, DivDef DEF MulDivDown
<1>2. mul_div_down(x, y, d) = Checked(MulDivDown(x, y, d))
  BY DEF mul_div_down, MulDivDown, Refused
<1>3. QED
  BY <1>1, <1>2, CheckedIs

\* A fee is refused where the checked multiplication of curve-math.ts reverts.
LEMMA FeeUpIs ==
    ASSUME NEW a \in Nat, NEW bps \in Nat
    PROVE  /\ fee_up(a, bps) = IF Fits(a * bps + (BpsDenominator - 1)) THEN FeeUp(a, bps)
                               ELSE Refused
           /\ FeeUp(a, bps) \in Nat
<1> DEFINE k == a * bps
           n == k + (BpsDenominator - 1)
<1>1. k \in Nat /\ BpsDenominator - 1 \in Nat /\ BpsDenominator \in Nat \ {0}
  BY MulNat DEF BpsDenominator
<1>2. mul(a, bps) = IF Fits(k) THEN k ELSE Refused
  BY MulIs
<1>3. FeeUp(a, bps) = n \div BpsDenominator
  BY DEF FeeUp
<1>4. fee_up(a, bps) = div(add(mul(a, bps), BpsDenominator - 1), BpsDenominator)
  BY DEF fee_up
<1> HIDE DEF k
<1>5. n \in Nat
  BY <1>1
<1>6. FeeUp(a, bps) \in Nat
  BY <1>1, <1>3, <1>5, DivDef
<1>7. add(k, BpsDenominator - 1) = IF Fits(n) THEN n ELSE Refused
  BY <1>1, AddIs
<1>8. Fits(n) => Fits(k)
  BY <1>1, U256Assumption DEF Fits, BpsDenominator
<1>9. div(n, BpsDenominator) = n \div BpsDenominator
  BY <1>1, <1>5 DEF div, Refused, BpsDenominator
<1> HIDE DEF n
<1>10. ASSUME Fits(n) PROVE fee_up(a, bps) = FeeUp(a, bps)
  BY <1>2, <1>3, <1>4, <1>7, <1>8, <1>9, <1>10
<1>11. ASSUME ~Fits(n) PROVE fee_up(a, bps) = Refused
  BY <1>2, <1>4, <1>7, <1>11, RefusedPasses
<1>12. QED
  BY <1>6, <1>10, <1>11 DEF n, k

LEMMA GrossForNetUpIs ==
    ASSUME NEW n \in Nat, NEW bps \in 0 .. BpsDenominator, Fits(BpsDenominator)
    PROVE  gross_for_net_up(n, bps)
               = IF bps < BpsDenominator /\ Fits(n * BpsDenominator + (BpsDenominator - bps - 1))
                 THEN GrossForNetUp(n, bps) ELSE Refused
<1> DEFINE k == n * BpsDenominator
           d == BpsDenominator - bps
           m == k + (d - 1)
<1>1. /\ k \in Nat /\ d \in Nat /\ BpsDenominator \in Nat /\ bps \in Nat
      /\ BpsDenominator >= bps /\ d <= BpsDenominator
      /\ d # 0 <=> bps < BpsDenominator
  BY MulNat DEF BpsDenominator
<1>2. mul(n, BpsDenominator) = IF Fits(k) THEN k ELSE Refused
  BY <1>1, MulIs
<1>3. sub(BpsDenominator, bps) = d
  BY <1>1, SubIs
<1>4. gross_for_net_up(n, bps) = div(add(mul(n, BpsDenominator), sub(sub(BpsDenominator, bps), 1)),
                                     sub(BpsDenominator, bps))
  BY DEF gross_for_net_up
<1>5. GrossForNetUp(n, bps) = m \div d
  BY DEF GrossForNetUp
<1> HIDE DEF k, d
<1>6. Fits(d)
  BY <1>1, FitsBelow
<1>7. CASE d = 0
  <2>1. sub(d, 1) = Refused
    BY <1>1, <1>6, <1>7, SubIs
  <2>2. gross_for_net_up(n, bps) = Refused
    BY <1>3, <1>4, <2>1, RefusedPasses
  <2>3. QED
    BY <1>1, <1>7, <2>2
<1>8. CASE d # 0
  <2>1. sub(d, 1) = d - 1 /\ d - 1 \in Nat /\ m \in Nat
    BY <1>1, <1>6, <1>8, SubIs
  <2>2. add(k, d - 1) = IF Fits(m) THEN m ELSE Refused
    BY <1>1, <2>1, AddIs
  <2>3. Fits(m) => Fits(k)
    BY <1>1, <2>1, U256Assumption DEF Fits
  <2>4. div(m, d) = m \div d
    BY <1>1, <1>8, <2>1 DEF div, Refused
  <2> HIDE DEF m
  <2>5. ASSUME Fits(m) PROVE gross_for_net_up(n, bps) = m \div d
    BY <1>2, <1>3, <1>4, <2>1, <2>2, <2>3, <2>4, <2>5
  <2>6. ASSUME ~Fits(m) PROVE gross_for_net_up(n, bps) = Refused
    BY <1>2, <1>3, <1>4, <2>1, <2>2, <2>6, RefusedPasses
  <2>7. QED
    BY <1>1, <1>5, <1>8, <2>5, <2>6 DEF m, k, d
<1>9. QED
  BY <1>7, <1>8

-----------------------------------------------------------------------------
(* A position as a snapshot may give it: of a curve's reserves, whatever its *)
(* supply, its target and its fee.                                          *)

AskedAt(c, r, s) ==
    /\ c.r0 \in Nat \ {0} /\ c.y0 \in Nat \ {0} /\ Fits(c.y0)
    /\ c.supply \in Nat /\ Fits(c.supply) /\ c.target \in Nat
    /\ c.feeBps \in 0 .. BpsDenominator
    /\ r \in Nat /\ Fits(r) /\ r >= c.r0
    /\ s \in Nat /\ c.y0 - s \in Nat \ {0}
    /\ Fits(MulDivUp(c.r0, c.y0, c.y0 - s))
    /\ Fits(BpsDenominator) /\ Wad \in Nat

LEMMA PositionIs ==
    ASSUME NEW c, NEW r, NEW s, AskedAt(c, r, s)
    PROVE  /\ ~PositionReverts(c, r, s)
           /\ token_reserve(c, s) = c.y0 - s
           /\ sub(r, c.r0) = r - c.r0
           /\ r - c.r0 \in Nat
           /\ Fits(c.y0 - s)
           /\ usdc_reserve_at(c.r0, c.y0, c.y0 - s) = MulDivUp(c.r0, c.y0, c.y0 - s)
           /\ MulDivUp(c.r0, c.y0, c.y0 - s) \in Nat \ {0}
           /\ MulDivUp(c.r0, c.y0, c.y0 - s) # Refused
<1> DEFINE y == c.y0 - s
           w == MulDivUp(c.r0, c.y0, y)
<1>1. /\ c.r0 \in Nat \ {0} /\ c.r0 \in Nat /\ c.y0 \in Nat \ {0} /\ c.y0 \in Nat
      /\ Fits(c.y0) /\ r \in Nat /\ Fits(r) /\ r >= c.r0 /\ s \in Nat /\ y \in Nat \ {0}
      /\ Fits(w)
  BY DEF AskedAt
<1>2. w \in Nat \ {0}
  BY <1>1, ReservePositive
<1>3. usdc_reserve_at(c.r0, c.y0, y) = w
  <2>1. mul_div_up(c.r0, c.y0, y) = w
    BY <1>1, MulDivUpIs
  <2>2. 0 \notin {c.r0, c.y0, y}
    BY <1>1
  <2>3. QED
    BY <2>1, <2>2 DEF usdc_reserve_at
<1>4. c.y0 >= s /\ ~(s >= c.y0) /\ ~(r < c.r0) /\ c.r0 # 0 /\ c.y0 # 0 /\ y <= c.y0
  BY <1>1
<1>5. ~PositionReverts(c, r, s)
  BY <1>1, <1>4 DEF PositionReverts, UsdcReserveAt
<1>6. token_reserve(c, s) = y /\ sub(r, c.r0) = r - c.r0 /\ r - c.r0 \in Nat
  BY <1>1, <1>4, SubIs DEF token_reserve
<1>7. Fits(y)
  BY <1>1, <1>4, FitsBelow
<1> HIDE DEF w
<1>8. w # Refused
  BY <1>2 DEF Refused
<1>9. QED
  BY <1>2, <1>3, <1>5, <1>6, <1>7, <1>8 DEF w

\* Where neither client can say what the rest of the inventory costs.
NoCost(c, s) ==
    /\ Remaining(c, s) # 0
    /\ \/ Remaining(c, s) >= c.y0 - s
       \/ ~Fits(UsdcReserveAt(c.r0, c.y0, c.y0 - s - Remaining(c, s)))

\* The cost of tokens still there: the same, where it is not refused.
LEMMA TokensCostIs ==
    ASSUME NEW c, NEW r, NEW s, AskedAt(c, r, s), NEW n \in Nat
    PROVE  LET y == c.y0 - s
               crate == usdc_in_for_tokens_out(c.r0, c.y0, y, n)
           IN  /\ n < y /\ Fits(UsdcReserveAt(c.r0, c.y0, y - n))
                    => /\ crate = UsdcInForTokensOut(c.r0, c.y0, y, n)
                       /\ UsdcInForTokensOut(c.r0, c.y0, y, n) \in Nat
               /\ ~(n < y /\ Fits(UsdcReserveAt(c.r0, c.y0, y - n))) => crate = Refused
<1> DEFINE y == c.y0 - s
           w == MulDivUp(c.r0, c.y0, y)
           v == MulDivUp(c.r0, c.y0, y - n)
           crate == usdc_in_for_tokens_out(c.r0, c.y0, y, n)
<1>1. /\ c.r0 \in Nat \ {0} /\ c.r0 \in Nat /\ c.y0 \in Nat \ {0} /\ c.y0 \in Nat
      /\ y \in Nat \ {0} /\ Fits(w)
  BY DEF AskedAt
<1>2. w \in Nat \ {0} /\ usdc_reserve_at(c.r0, c.y0, y) = w
  BY PositionIs
<1>3. /\ UsdcReserveAt(c.r0, c.y0, y - n) = v
      /\ UsdcInForTokensOut(c.r0, c.y0, y, n) = v - w
  BY DEF UsdcReserveAt, UsdcInForTokensOut
<1>4. crate = IF n >= y THEN Refused ELSE sub(mul_div_up(c.r0, c.y0, y - n), w)
  BY <1>2 DEF usdc_in_for_tokens_out
<1> HIDE DEF crate, w
<1>5. ASSUME n < y PROVE (Fits(v) => crate = v - w /\ v - w \in Nat) /\ (~Fits(v) => crate = Refused)
  <2>1. y - n \in Nat \ {0} /\ y - n <= y /\ ~(n >= y)
    BY <1>1, <1>5
  <2>2. v \in Nat /\ w <= v
    BY <1>1, <2>1, ReserveFalls, MulDivUpCovers DEF w
  <2>3. mul_div_up(c.r0, c.y0, y - n) = IF Fits(v) THEN v ELSE Refused
    BY <1>1, <2>1, MulDivUpIs
  <2> HIDE DEF v, y
  <2>4. Fits(v) => sub(v, w) = v - w
    BY <1>2, <2>2, SubIs
  <2>5. crate = sub(IF Fits(v) THEN v ELSE Refused, w)
    BY <1>4, <2>1, <2>3
  <2>6. QED
    BY <1>2, <2>2, <2>4, <2>5, RefusedPasses
<1>6. ASSUME ~(n < y) PROVE crate = Refused
  <2>1. n >= y
    BY <1>1, <1>6
  <2>2. QED
    BY <1>4, <2>1
<1> HIDE DEF v, y
<1>7. QED
  BY <1>3, <1>5, <1>6 DEF y, v, crate

LEMMA MaxNetInIs ==
    ASSUME NEW c, NEW r, NEW s, AskedAt(c, r, s)
    PROVE  /\ NoCost(c, s) => max_net_in(c, r, s) = Refused
           /\ ~NoCost(c, s) => /\ max_net_in(c, r, s) = MaxNetIn(c, r, s)
                               /\ MaxNetIn(c, r, s) \in Nat
<1> DEFINE y == c.y0 - s
           n == Remaining(c, s)
           real == r - c.r0
           cost == usdc_in_for_tokens_out(c.r0, c.y0, y, n)
           open == Headroom(c, r)
           whole == UsdcInForTokensOut(c.r0, c.y0, y, n)
           fits == Fits(UsdcReserveAt(c.r0, c.y0, y - n))
<1>1. /\ c.supply \in Nat /\ c.target \in Nat /\ s \in Nat /\ real \in Nat
      /\ sub(r, c.r0) = real /\ token_reserve(c, s) = y /\ y \in Nat \ {0}
  BY PositionIs DEF AskedAt
<1>2. n \in Nat /\ open \in Nat
  BY <1>1 DEF Remaining, Headroom, Monus
<1>3. /\ n < y /\ fits => cost = whole /\ whole \in Nat
      /\ ~(n < y /\ fits) => cost = Refused
  <2> HIDE DEF n
  <2>1. QED
    BY <1>2, TokensCostIs
<1>4. real # Refused
  BY <1>1 DEF Refused
<1>5. max_net_in(c, r, s) = IF n = 0 THEN 0 ELSE Least(open, cost)
  BY <1>1, <1>4 DEF max_net_in, Remaining, Headroom
<1>6. MaxNetIn(c, r, s) = IF n = 0 THEN 0 ELSE Least(open, whole)
  BY DEF MaxNetIn
<1>7. NoCost(c, s) <=> n # 0 /\ (n >= y \/ ~fits)
  BY DEF NoCost
<1> HIDE DEF y, n, real, cost, open, whole, fits
<1>8. n >= y <=> ~(n < y)
  BY <1>1, <1>2
<1>9. Least(open, Refused) = Refused
  BY <1>2 DEF Least, Refused
<1>10. whole \in Nat => Least(open, whole) \in Nat
  BY <1>2 DEF Least
<1>11. QED
  BY <1>3, <1>5, <1>6, <1>7, <1>8, <1>9, <1>10

LEMMA SubAnswers == ASSUME NEW a, NEW b PROVE sub(a, b) \in Nat \cup {Refused}
BY U256Assumption DEF sub, Checked, Fits, Refused

\* The price of a position whose reserve has room.
LEMMA PriceIs ==
    ASSUME NEW c, NEW r, NEW s, AskedAt(c, r, s), NEW m \in Nat, c.y0 - m \in Nat \ {0},
           Fits(MulDivUp(c.r0, c.y0, c.y0 - m))
    PROVE  spot_price_at_reserve_wad(c.r0, c.y0, c.y0 - m)
               = IF Fits(SpotPriceAt(c, m)) THEN SpotPriceAt(c, m) ELSE Refused
<1> DEFINE y == c.y0 - m
           w == MulDivUp(c.r0, c.y0, y)
<1>1. /\ c.r0 \in Nat \ {0} /\ c.r0 \in Nat /\ c.y0 \in Nat \ {0} /\ c.y0 \in Nat
      /\ y \in Nat \ {0} /\ Fits(w) /\ Wad \in Nat
  BY DEF AskedAt
<1>2. usdc_reserve_at(c.r0, c.y0, y) = w
  <2>1. mul_div_up(c.r0, c.y0, y) = w
    BY <1>1, MulDivUpIs
  <2>2. 0 \notin {c.r0, c.y0, y}
    BY <1>1
  <2>3. QED
    BY <2>1, <2>2 DEF usdc_reserve_at
<1>3. w \in Nat
  BY <1>1, MulDivUpCovers
<1>4. SpotPriceAt(c, m) = MulDivDown(w, Wad, y)
  BY DEF SpotPriceAt, SpotPriceAtReserve, UsdcReserveAt
<1>5. spot_price_at_reserve_wad(c.r0, c.y0, y) = mul_div_down(w, Wad, y)
  BY <1>2 DEF spot_price_at_reserve_wad
<1> HIDE DEF w, y
<1>6. mul_div_down(w, Wad, y)
          = IF Fits(MulDivDown(w, Wad, y)) THEN MulDivDown(w, Wad, y) ELSE Refused
  BY <1>1, <1>3, MulDivDownIs
<1>7. QED
  BY <1>4, <1>5, <1>6 DEF y

\* What the money that stays buys: refused where the sum with the reserve leaves 256
\* bits, and otherwise the same.
LEMMA BoughtIs ==
    ASSUME NEW c, NEW r, NEW s, AskedAt(c, r, s), NEW net \in Nat
    PROVE  LET y == c.y0 - s
               w == MulDivUp(c.r0, c.y0, y)
               crate == IF net = 0 THEN 0 ELSE tokens_out_for_usdc_in(c.r0, c.y0, y, net)
               bought == IF net = 0 THEN 0 ELSE TokensOutForUsdcIn(c.r0, c.y0, y, net)
           IN  /\ ~Fits(w + net) => crate = Refused
               /\ Fits(w + net) => /\ crate = bought
                                   /\ bought \in Nat /\ y - bought \in Nat \ {0}
                                   /\ MulDivUp(c.r0, c.y0, y - bought) <= w + net
<1> DEFINE y == c.y0 - s
           w == MulDivUp(c.r0, c.y0, y)
           v == w + net
           left == MulDivUp(c.r0, c.y0, v)
           crate == IF net = 0 THEN 0 ELSE tokens_out_for_usdc_in(c.r0, c.y0, y, net)
           bought == IF net = 0 THEN 0 ELSE TokensOutForUsdcIn(c.r0, c.y0, y, net)
<1>1. /\ c.r0 \in Nat \ {0} /\ c.r0 \in Nat /\ c.y0 \in Nat \ {0} /\ c.y0 \in Nat
      /\ y \in Nat \ {0} /\ Fits(w) /\ Fits(y)
      /\ w \in Nat \ {0} /\ usdc_reserve_at(c.r0, c.y0, y) = w
  BY PositionIs DEF AskedAt
<1>2. tokens_out_for_usdc_in(c.r0, c.y0, y, net)
          = sub(y, mul_div_up(c.r0, c.y0, add(w, net)))
  BY <1>1 DEF tokens_out_for_usdc_in
<1>3. TokensOutForUsdcIn(c.r0, c.y0, y, net) = y - left
  BY DEF TokensOutForUsdcIn, UsdcReserveAt
<1>4. v \in Nat \ {0} /\ w <= v
  BY <1>1
<1>5. add(w, net) = IF Fits(v) THEN v ELSE Refused
  BY <1>1, AddIs
<1>6. left \in Nat \ {0} /\ left <= y
  <2>1. left \in Nat \ {0}
    BY <1>1, <1>4, ReservePositive
  <2>2. MulDivUp(c.r0, c.y0, y) <= v <=> MulDivUp(c.r0, c.y0, v) <= y
    <3> HIDE DEF v, y
    <3>1. QED
      BY <1>1, <1>4, ReserveInverse
  <2>3. QED
    BY <1>4, <2>1, <2>2
<1>7. MulDivUp(c.r0, c.y0, left) <= v
  BY <1>1, <1>4, <1>6, ReserveInverse
<1>8. mul_div_up(c.r0, c.y0, v) = left
  <2>1. Fits(left)
    BY <1>1, <1>6, FitsBelow
  <2>2. QED
    BY <1>1, <1>4, <2>1, MulDivUpIs
<1>9. sub(y, left) = y - left
  BY <1>1, <1>6, SubIs
<1> HIDE DEF left
<1>10. ASSUME ~Fits(v) PROVE crate = Refused
  <2>1. net # 0
    BY <1>1, <1>10
  <2>2. add(w, net) = Refused
    BY <1>5, <1>10
  <2>3. tokens_out_for_usdc_in(c.r0, c.y0, y, net) = Refused
    BY <1>2, <2>2, RefusedPasses
  <2>4. QED
    BY <2>1, <2>3
<1>11. ASSUME Fits(v)
       PROVE  /\ crate = bought /\ bought \in Nat /\ y - bought \in Nat \ {0}
              /\ MulDivUp(c.r0, c.y0, y - bought) <= v
  <2>1. CASE net = 0
    BY <1>1, <2>1
  <2>2. CASE net # 0
    <3>1. crate = y - left
      BY <1>2, <1>5, <1>8, <1>9, <1>11, <2>2
    <3>2. bought = y - left
      BY <1>3, <2>2
    <3>3. y - left \in Nat /\ y - (y - left) = left
      BY <1>1, <1>6
    <3> HIDE DEF crate, bought
    <3>4. QED
      BY <1>6, <1>7, <3>1, <3>2, <3>3
  <2>3. QED
    BY <2>1, <2>2
<1> HIDE DEF crate, bought
<1>12. QED
  BY <1>10, <1>11 DEF y, w, v, crate, bought

\* The least amount that covers a net is no more than any that does.
LEMMA GrossOfCap ==
    ASSUME NEW bps \in 0 .. BpsDenominator - 1, NEW cap \in Nat, NEW d \in Nat,
           cap <= d - FeeUp(d, bps)
    PROVE  LET gross == GrossForNetUp(cap, bps)
           IN  gross \in Nat /\ gross <= d /\ cap <= gross
<1> DEFINE gross == GrossForNetUp(cap, bps)
<1>1. gross \in Nat
  BY GrossNat
<1>2. bps \in Nat /\ bps <= BpsDenominator
  BY DEF BpsDenominator
<1>3. gross <= d
  <2>1. d - FeeUp(d, bps) >= cap
    <3>1. FeeUp(d, bps) \in 0 .. d
      BY <1>2, FeeWithinAmount
    <3>2. QED
      BY <3>1
  <2>2. QED
    BY <2>1, GrossCoversNet
<1>4. gross - FeeUp(gross, bps) >= cap
  <2>1. gross <= gross
    BY <1>1
  <2>2. QED
    BY <1>1, <2>1, GrossCoversNet
<1>5. FeeUp(gross, bps) \in 0 .. gross
  BY <1>1, <1>2, FeeWithinAmount
<1> HIDE DEF gross
<1>6. cap <= gross
  BY <1>1, <1>4, <1>5
<1>7. QED
  BY <1>1, <1>3, <1>6 DEF gross

\* A buy's other figures, once it is known what stays in the curve: the crate refuses
\* one of them exactly where curve-math.ts reverts on one.
LEMMA SettledIs ==
    ASSUME NEW c, NEW r, NEW s, AskedAt(c, r, s), c.supply >= s, NEW net \in Nat,
           NEW gross \in Nat, NEW d \in Nat, Fits(d), gross <= d, net <= gross
    PROVE  LET q == BuyOf(c, r, s, net, gross, d - gross)
               crate == IF net = 0 THEN 0
                        ELSE tokens_out_for_usdc_in(c.r0, c.y0, c.y0 - s, net)
               tokens_out == Least(crate, sub(c.supply, s))
               new_reserve == add(r, net)
               new_sold == add(s, tokens_out)
               new_price == spot_price_at_reserve_wad(c.r0, c.y0, sub(c.y0, new_sold))
           IN  /\ Refused \notin {tokens_out, new_reserve, new_sold, new_price}
                    <=> ~BuyOverflows(c, r, s, q)
               /\ Refused \notin {tokens_out, new_reserve, new_sold, new_price}
                    => /\ tokens_out = q.tokensOut
                       /\ new_reserve = q.newReserve
                       /\ new_sold = q.newSold
                       /\ new_price = q.newPrice
                       /\ (sub(new_reserve, c.r0) >= c.target \/ new_sold >= c.supply)
                             = q.graduates
<1> DEFINE q == BuyOf(c, r, s, net, gross, d - gross)
           y == c.y0 - s
           w == MulDivUp(c.r0, c.y0, y)
           crate == IF net = 0 THEN 0 ELSE tokens_out_for_usdc_in(c.r0, c.y0, y, net)
           bought == IF net = 0 THEN 0 ELSE TokensOutForUsdcIn(c.r0, c.y0, y, net)
           rem == c.supply - s
           t == Least(bought, rem)
           tokens_out == Least(crate, sub(c.supply, s))
           new_reserve == add(r, net)
           new_sold == add(s, tokens_out)
           new_price == spot_price_at_reserve_wad(c.r0, c.y0, sub(c.y0, new_sold))
           figures == {tokens_out, new_reserve, new_sold, new_price}
<1>1. /\ c.r0 \in Nat \ {0} /\ c.r0 \in Nat /\ c.y0 \in Nat \ {0} /\ c.y0 \in Nat
      /\ c.supply \in Nat /\ s \in Nat /\ y \in Nat \ {0} /\ w \in Nat \ {0}
      /\ Fits(w) /\ Fits(c.supply) /\ Fits(c.y0) /\ r \in Nat /\ Fits(r) /\ r >= c.r0
      /\ rem \in Nat /\ c.target \in Nat
  <2>1. /\ c.r0 \in Nat \ {0} /\ c.y0 \in Nat \ {0} /\ c.supply \in Nat /\ s \in Nat
        /\ y \in Nat \ {0} /\ Fits(w) /\ Fits(c.supply) /\ Fits(c.y0) /\ r \in Nat
        /\ Fits(r) /\ r >= c.r0 /\ c.target \in Nat
    BY DEF AskedAt
  <2>2. w \in Nat \ {0}
    BY PositionIs
  <2>3. rem \in Nat
    BY <2>1
  <2>4. QED
    BY <2>1, <2>2, <2>3
<1>2. sub(c.supply, s) = rem
  BY <1>1, SubIs
<1>3. /\ q.tokensOut = t /\ q.fee = gross - net /\ q.spent = gross /\ q.refund = d - gross
      /\ q.newReserve = r + net /\ q.newSold = s + t /\ q.newPrice = SpotPriceAt(c, s + t)
      /\ q.graduates = Graduates(c, r + net, s + t)
  BY DEF BuyOf
<1>4. /\ ~Fits(w + net) => crate = Refused
      /\ Fits(w + net) => /\ crate = bought
                          /\ bought \in Nat /\ y - bought \in Nat \ {0}
                          /\ MulDivUp(c.r0, c.y0, y - bought) <= w + net
  BY BoughtIs
<1>5. Fits(q.fee) /\ Fits(q.refund)
  <2>1. q.fee \in Nat /\ q.fee <= d /\ q.refund \in Nat /\ q.refund <= d
    <3> HIDE DEF q
    <3>1. QED
      BY <1>3
  <2>2. QED
    BY <2>1, FitsBelow
<1>6. (r + net) - r = net
  BY <1>1
<1>7. BuyOverflows(c, r, s, q) <=>
          \/ ~Fits(w + net) \/ ~Fits(t) \/ ~Fits(r + net)
          \/ s + t >= c.y0 \/ ~Fits(SpotPriceAt(c, s + t))
  <2> HIDE DEF q, t
  <2>1. QED
    BY <1>3, <1>5, <1>6 DEF BuyOverflows, UsdcReserveAt
<1> HIDE DEF q
<1>8. new_reserve = IF Fits(r + net) THEN r + net ELSE Refused
  BY <1>1, AddIs
<1>9. CASE ~Fits(w + net)
  <2>1. tokens_out = Refused
    <3> HIDE DEF crate, rem
    <3>1. Least(Refused, rem) = Refused
      BY <1>1 DEF Least, Refused
    <3>2. QED
      BY <1>2, <1>4, <1>9, <3>1
  <2>2. Refused \in figures
    BY <2>1
  <2>3. BuyOverflows(c, r, s, q)
    BY <1>7, <1>9
  <2>4. QED
    BY <2>2, <2>3 DEF q
<1>10. CASE Fits(w + net)
  <2>1. /\ tokens_out = t /\ t \in Nat /\ t <= bought /\ t <= rem
    <3> HIDE DEF crate, bought, rem
    <3>1. QED
      BY <1>1, <1>2, <1>4, <1>10 DEF Least
  <2>2. /\ bought \in Nat /\ y - bought \in Nat \ {0}
        /\ MulDivUp(c.r0, c.y0, y - bought) <= w + net
    BY <1>4, <1>10
  <2> HIDE DEF t, bought, tokens_out, crate
  <2>3. /\ s + t \in Nat /\ ~(s + t >= c.y0) /\ s + t <= c.y0
        /\ c.y0 - (s + t) \in Nat \ {0} /\ y - bought <= c.y0 - (s + t)
        /\ t <= c.supply /\ c.y0 >= s + t
    BY <1>1, <2>1, <2>2
  <2>4. Fits(t) /\ Fits(s + t)
    BY <1>1, <2>1, <2>3, FitsBelow
  <2>5. new_sold = s + t
    <3>1. add(s, t) = s + t
      BY <1>1, <2>1, <2>4, AddIs
    <3>2. QED
      BY <2>1, <3>1
  <2>6. sub(c.y0, s + t) = c.y0 - (s + t)
    BY <1>1, <2>3, SubIs
  <2>7. Fits(MulDivUp(c.r0, c.y0, c.y0 - (s + t)))
    <3> DEFINE w1 == MulDivUp(c.r0, c.y0, c.y0 - (s + t))
               w2 == MulDivUp(c.r0, c.y0, y - bought)
    <3>1. w1 <= w2
      BY <1>1, <2>2, <2>3, ReserveFalls
    <3>2. w1 \in Nat /\ w2 \in Nat
      BY <1>1, <2>2, <2>3, MulDivUpCovers
    <3>3. w2 <= w + net
      BY <2>2
    <3> HIDE DEF w1, w2, w
    <3>4. w1 <= w + net /\ w + net \in Nat
      BY <1>1, <3>1, <3>2, <3>3
    <3>5. Fits(w1)
      BY <1>10, <3>2, <3>4, FitsBelow
    <3>6. QED
      BY <3>5 DEF w1
  <2>8. new_price = IF Fits(SpotPriceAt(c, s + t)) THEN SpotPriceAt(c, s + t) ELSE Refused
    <3>1. spot_price_at_reserve_wad(c.r0, c.y0, c.y0 - (s + t))
              = IF Fits(SpotPriceAt(c, s + t)) THEN SpotPriceAt(c, s + t) ELSE Refused
      BY <2>3, <2>7, PriceIs
    <3> HIDE DEF new_sold
    <3>2. QED
      BY <2>5, <2>6, <3>1
  <2>9. Fits(SpotPriceAt(c, s + t)) => SpotPriceAt(c, s + t) # Refused
    BY U256Assumption DEF Fits, Refused
  <2>10. t # Refused /\ s + t # Refused /\ r + net # Refused
    BY <1>1, <2>1, <2>3 DEF Refused
  <2> HIDE DEF new_price, new_sold, new_reserve
  <2>11. Refused \notin figures <=> Fits(r + net) /\ Fits(SpotPriceAt(c, s + t))
    BY <1>8, <2>1, <2>5, <2>8, <2>9, <2>10
  <2>12. Refused \notin figures <=> ~BuyOverflows(c, r, s, q)
    BY <1>7, <1>10, <2>3, <2>4, <2>11
  <2>13. ASSUME Refused \notin figures
         PROVE  /\ tokens_out = q.tokensOut
                /\ new_reserve = q.newReserve
                /\ new_sold = q.newSold
                /\ new_price = q.newPrice
                /\ (sub(new_reserve, c.r0) >= c.target \/ new_sold >= c.supply) = q.graduates
    <3>1. Fits(r + net) /\ Fits(SpotPriceAt(c, s + t))
      BY <2>11, <2>13
    <3>2. new_reserve = r + net /\ new_price = SpotPriceAt(c, s + t)
      BY <1>8, <2>8, <3>1
    <3>3. sub(r + net, c.r0) = (r + net) - c.r0
      BY <1>1, <3>1, SubIs
    <3>4. ((r + net) - c.r0 >= c.target \/ s + t >= c.supply) = Graduates(c, r + net, s + t)
      BY DEF Graduates
    <3>5. QED
      BY <1>3, <2>1, <2>5, <3>2, <3>3, <3>4
  <2> HIDE DEF figures
  <2>14. QED
    BY <2>12, <2>13
       DEF figures, q, tokens_out, new_reserve, new_sold, new_price, crate, y
<1>11. QED
  BY <1>9, <1>10

\* One buy, priced by both.
LEMMA BuysAgreeAt ==
    ASSUME NEW c, NEW r, NEW s, AskedAt(c, r, s), NEW d \in Nat, Fits(d)
    PROVE  LET q == quote_buy(c, r, s, d)
           IN  /\ q.ok <=> ~BuyReverts(c, r, s, d)
               /\ q.ok => q.value = QuoteBuy(c, r, s, d)
<1> DEFINE fee_asked == fee_up(d, c.feeBps)
           net_asked == sub(d, fee_asked)
           cap == max_net_in(c, r, s)
           capped == net_asked > cap
           net == IF capped THEN cap ELSE net_asked
           gross_used == IF capped THEN gross_for_net_up(net, c.feeBps) ELSE d
           fee == IF capped THEN sub(gross_used, net) ELSE fee_asked
           refund == sub(d, gross_used)
           bought == IF net = 0 THEN 0
                     ELSE tokens_out_for_usdc_in(c.r0, c.y0, token_reserve(c, s), net)
           tokens_out == Least(bought, sub(c.supply, s))
           new_reserve == add(r, net)
           new_sold == add(s, tokens_out)
           new_price == spot_price_at_reserve_wad(c.r0, c.y0, sub(c.y0, new_sold))
           grows == sub(new_reserve, c.r0) >= c.target \/ new_sold >= c.supply
           figures == {net_asked, cap, fee, refund, tokens_out, new_reserve, new_sold, new_price}
           q == quote_buy(c, r, s, d)
           asked == AskedNet(c, d)
           most == MaxNetIn(c, r, s)
           kept == NetKept(c, r, s, d)
           spent == GrossSpent(c, r, s, d)
           b == QuoteBuy(c, r, s, d)
<1>1. /\ q.ok = (Refused \notin figures)
      /\ q.value = [ tokensOut |-> tokens_out, fee |-> fee, spent |-> gross_used,
                     refund |-> refund, newReserve |-> new_reserve, newSold |-> new_sold,
                     newPrice |-> new_price, graduates |-> grows ]
  BY DEF quote_buy, Quoted
<1>2. /\ c.feeBps \in 0 .. BpsDenominator /\ c.feeBps \in Nat /\ c.feeBps <= BpsDenominator
      /\ c.supply \in Nat /\ Fits(c.supply) /\ s \in Nat /\ r \in Nat
      /\ Fits(BpsDenominator) /\ token_reserve(c, s) = c.y0 - s
  <2>1. \A n \in 0 .. BpsDenominator : n \in Nat /\ n <= BpsDenominator
    BY DEF BpsDenominator
  <2>2. QED
    BY <2>1, PositionIs DEF AskedAt
<1>3. b = BuyOf(c, r, s, kept, spent, d - spent)
  BY BuyIsOf
<1>4. ~PositionReverts(c, r, s) /\ ~(r < c.r0)
  BY PositionIs DEF AskedAt
<1>5. /\ FeeUp(d, c.feeBps) \in 0 .. d
      /\ asked = d - FeeUp(d, c.feeBps) /\ asked \in Nat /\ asked <= d
      /\ ~(d < FeeUp(d, c.feeBps))
  <2>1. FeeUp(d, c.feeBps) \in 0 .. d
    BY <1>2, FeeWithinAmount
  <2>2. QED
    BY <2>1 DEF AskedNet
<1>6. /\ Fits(d * c.feeBps + (BpsDenominator - 1))
            => fee_asked = FeeUp(d, c.feeBps) /\ net_asked = asked
      /\ ~Fits(d * c.feeBps + (BpsDenominator - 1)) => net_asked = Refused
  <2>1. fee_asked = IF Fits(d * c.feeBps + (BpsDenominator - 1)) THEN FeeUp(d, c.feeBps)
                    ELSE Refused
    BY <1>2, FeeUpIs
  <2>2. sub(d, FeeUp(d, c.feeBps)) = asked
    BY <1>5, SubIs
  <2> HIDE DEF fee_asked, asked
  <2>3. QED
    BY <2>1, <2>2, RefusedPasses
<1>7. /\ NoCost(c, s) => cap = Refused
      /\ ~NoCost(c, s) => cap = most /\ most \in Nat
  BY MaxNetInIs
<1>8. BuyReverts(c, r, s, d) <=>
          \/ c.supply < s
          \/ NoCost(c, s)
          \/ ~Fits(d * c.feeBps + (BpsDenominator - 1))
          \/ /\ asked > most
             /\ \/ c.feeBps >= BpsDenominator
                \/ ~Fits(most * BpsDenominator + (BpsDenominator - c.feeBps - 1))
          \/ BuyOverflows(c, r, s, b)
  <2> HIDE DEF b, most
  <2>1. QED
    BY <1>4, <1>5 DEF BuyReverts, NoCost, b, most
<1>9. CASE ~Fits(d * c.feeBps + (BpsDenominator - 1)) \/ NoCost(c, s) \/ c.supply < s
  <2>1. c.supply < s => tokens_out = Refused
    <3>1. bought \in Nat \cup {Refused}
      <4>1. tokens_out_for_usdc_in(c.r0, c.y0, token_reserve(c, s), net) \in Nat \cup {Refused}
        BY SubAnswers DEF tokens_out_for_usdc_in
      <4>2. QED
        BY <4>1
    <3>2. c.supply < s => sub(c.supply, s) = Refused
      BY <1>2, SubIs
    <3> HIDE DEF bought
    <3>3. QED
      BY <3>1, <3>2 DEF Least, Refused
  <2>2. Refused \in figures
    <3> HIDE DEF net_asked, cap, fee, refund, tokens_out, new_reserve, new_sold, new_price
    <3>1. QED
      BY <1>6, <1>7, <1>9, <2>1
  <2>3. BuyReverts(c, r, s, d)
    BY <1>8, <1>9
  <2>4. QED
    BY <1>1, <2>2, <2>3
<1>10. CASE /\ Fits(d * c.feeBps + (BpsDenominator - 1)) /\ ~NoCost(c, s) /\ ~(c.supply < s)
  <2>1. /\ fee_asked = FeeUp(d, c.feeBps) /\ net_asked = asked /\ cap = most /\ most \in Nat
        /\ net_asked # Refused /\ cap # Refused
    BY <1>5, <1>6, <1>7, <1>10 DEF Refused
  <2>2. capped = (asked > most) /\ net = kept /\ kept \in Nat
    BY <1>5, <2>1 DEF NetKept
  <2> HIDE DEF fee_asked, net_asked, cap
  <2>3. CASE asked > most /\ ~(/\ c.feeBps < BpsDenominator
                               /\ Fits(most * BpsDenominator + (BpsDenominator - c.feeBps - 1)))
    <3>1. gross_used = Refused
      <4>1. net = most /\ capped
        BY <2>1, <2>2, <2>3 DEF NetKept
      <4>2. gross_for_net_up(most, c.feeBps) = Refused
        BY <1>2, <2>1, <2>3, GrossForNetUpIs
      <4>3. QED
        BY <4>1, <4>2
    <3>2. fee = Refused
      <4>1. capped
        BY <2>2, <2>3
      <4> HIDE DEF gross_used, capped, net
      <4>2. QED
        BY <3>1, <4>1, RefusedPasses
    <3>3. Refused \in figures
      BY <3>2
    <3>4. c.feeBps >= BpsDenominator <=> ~(c.feeBps < BpsDenominator)
      BY <1>2, BpsCompared, Zenon
    <3>5. BuyReverts(c, r, s, d)
      BY <1>8, <2>3, <3>4
    <3>6. QED
      BY <1>1, <3>3, <3>5
  <2>4. CASE ~(asked > most) \/ (/\ c.feeBps < BpsDenominator
                                 /\ Fits(most * BpsDenominator + (BpsDenominator - c.feeBps - 1)))
    <3>1. gross_used = spent /\ spent \in Nat /\ spent <= d /\ kept <= spent
      <4>1. CASE ~(asked > most)
        <5>1. gross_used = d /\ spent = d /\ kept = asked
          BY <2>2, <4>1 DEF GrossSpent, NetKept
        <5>2. QED
          BY <1>5, <5>1
      <4>2. CASE asked > most
        <5>1. kept = most /\ spent = GrossForNetUp(most, c.feeBps) /\ capped
          BY <2>2, <4>2 DEF GrossSpent, NetKept
        <5>2. gross_used = spent
          BY <1>2, <2>1, <2>2, <2>4, <4>2, <5>1, GrossForNetUpIs
        <5>3. c.feeBps \in 0 .. BpsDenominator - 1
          <6>1. \A n \in 0 .. BpsDenominator :
                    n < BpsDenominator => n \in 0 .. BpsDenominator - 1
            BY DEF BpsDenominator
          <6>2. QED
            BY <1>2, <2>4, <4>2, <6>1
        <5>4. most <= d - FeeUp(d, c.feeBps)
          BY <1>5, <2>1, <4>2
        <5>5. spent \in Nat /\ spent <= d /\ most <= spent
          BY <2>1, <5>1, <5>3, <5>4, GrossOfCap
        <5>6. QED
          BY <5>1, <5>2, <5>5
      <4>3. QED
        BY <4>1, <4>2
    <3>2. fee = spent - kept /\ fee # Refused
      <4>1. CASE asked > most
        <5>1. Fits(spent)
          BY <3>1, FitsBelow
        <5>2. sub(spent, kept) = spent - kept /\ spent - kept \in Nat
          BY <2>2, <3>1, <5>1, SubIs
        <5>3. fee = spent - kept
          BY <2>2, <3>1, <4>1, <5>2
        <5> HIDE DEF fee
        <5>4. QED
          BY <5>2, <5>3 DEF Refused
      <4>2. CASE ~(asked > most)
        <5>1. fee = FeeUp(d, c.feeBps)
          BY <2>1, <2>2, <4>2
        <5>2. spent = d /\ kept = asked
          BY <4>2 DEF GrossSpent, NetKept
        <5> HIDE DEF fee
        <5>3. QED
          BY <1>5, <5>1, <5>2 DEF Refused
      <4>3. QED
        BY <4>1, <4>2
    <3>3. refund = d - spent /\ refund # Refused
      <4>1. sub(d, spent) = d - spent /\ d - spent \in Nat
        BY <3>1, SubIs
      <4>2. refund = d - spent
        BY <3>1, <4>1
      <4> HIDE DEF refund
      <4>3. QED
        BY <4>1, <4>2 DEF Refused
    <3> DEFINE rest == {tokens_out, new_reserve, new_sold, new_price}
    <3>4. /\ Refused \notin rest <=> ~BuyOverflows(c, r, s, b)
          /\ Refused \notin rest => /\ tokens_out = b.tokensOut
                                    /\ new_reserve = b.newReserve
                                    /\ new_sold = b.newSold
                                    /\ new_price = b.newPrice
                                    /\ grows = b.graduates
      <4>1. c.supply >= s
        BY <1>2, <1>10
      <4> HIDE DEF net, kept, spent, b
      <4>2. QED
        BY <1>2, <1>3, <2>2, <3>1, <4>1, SettledIs
    <3>5. ~(c.feeBps >= BpsDenominator) <=> c.feeBps < BpsDenominator
      BY <1>2, BpsCompared, Zenon
    <3>6. BuyReverts(c, r, s, d) <=> BuyOverflows(c, r, s, b)
      BY <1>8, <1>10, <2>4, <3>5
    <3>7. b.fee = spent - kept /\ b.refund = d - spent /\ b.spent = spent
      BY <1>3 DEF BuyOf
    <3>8. b = [ tokensOut |-> b.tokensOut, fee |-> b.fee, spent |-> b.spent,
                refund |-> b.refund, newReserve |-> b.newReserve, newSold |-> b.newSold,
                newPrice |-> b.newPrice, graduates |-> b.graduates ]
      BY <1>3 DEF BuyOf
    <3> HIDE DEF b, q, kept, spent, fee, refund, gross_used, grows,
             tokens_out, new_reserve, new_sold, new_price
    <3>9. Refused \notin figures <=> Refused \notin rest
      BY <2>1, <3>2, <3>3
    <3> HIDE DEF figures, rest
    <3>10. q.ok <=> ~BuyReverts(c, r, s, d)
      BY <1>1, <3>4, <3>6, <3>9
    <3>11. q.ok => q.value = b
      BY <1>1, <3>1, <3>2, <3>3, <3>4, <3>7, <3>8, <3>9
    <3>12. QED
      BY <3>10, <3>11 DEF q, b
  <2>5. QED
    BY <2>3, <2>4
<1>11. QED
  BY <1>9, <1>10

\* One sell, priced by both.
LEMMA SellsAgreeAt ==
    ASSUME NEW c, NEW r, NEW s, AskedAt(c, r, s), NEW t \in Nat
    PROVE  LET q == quote_sell(c, r, s, t)
           IN  /\ q.ok <=> ~SellReverts(c, r, s, t)
               /\ q.ok => q.value = QuoteSell(c, r, s, t)
<1> DEFINE y == c.y0 - s
           w == MulDivUp(c.r0, c.y0, y)
           left == MulDivUp(c.r0, c.y0, y + t)
           ry == token_reserve(c, s)
           gross == usdc_out_for_tokens_in(c.r0, c.y0, ry, t)
           fee == fee_up(gross, c.feeBps)
           quote_out == sub(gross, fee)
           new_reserve == sub(r, gross)
           new_sold == sub(s, t)
           new_price == spot_price_at_reserve_wad(c.r0, c.y0, add(ry, t))
           figures == {quote_out, new_reserve, new_sold, new_price}
           q == quote_sell(c, r, s, t)
           b == QuoteSell(c, r, s, t)
           paid == w - left
           share == FeeUp(paid, c.feeBps)
<1>1. /\ q.ok = (Refused \notin figures)
      /\ q.value = [ gross |-> gross, fee |-> fee, quoteOut |-> quote_out,
                     newReserve |-> new_reserve, newSold |-> new_sold, newPrice |-> new_price ]
  BY DEF quote_sell, Quoted
<1>2. /\ c.r0 \in Nat \ {0} /\ c.r0 \in Nat /\ c.y0 \in Nat \ {0} /\ c.y0 \in Nat
      /\ y \in Nat \ {0} /\ s \in Nat /\ r \in Nat /\ Fits(r) /\ Fits(c.y0) /\ Fits(w)
      /\ c.feeBps \in 0 .. BpsDenominator
  BY DEF AskedAt
<1>3. /\ ~PositionReverts(c, r, s) /\ ry = y /\ w \in Nat \ {0}
      /\ usdc_reserve_at(c.r0, c.y0, y) = w
  BY PositionIs
<1>4. c.feeBps \in Nat /\ c.feeBps <= BpsDenominator
  <2>1. \A n \in 0 .. BpsDenominator : n \in Nat /\ n <= BpsDenominator
    BY DEF BpsDenominator
  <2>2. QED
    BY <1>2, <2>1
<1>5. b = [ gross |-> paid, fee |-> share, quoteOut |-> paid - share,
            newReserve |-> r - paid, newSold |-> s - t, newPrice |-> SpotPriceAt(c, s - t) ]
  BY DEF QuoteSell, UsdcOutForTokensIn, UsdcReserveAt
<1>6. y + t \in Nat \ {0} /\ y <= y + t /\ c.y0 - (s - t) = y + t
  BY <1>2
<1>7. left \in Nat \ {0} /\ left <= w /\ paid \in Nat /\ paid <= w
  <2>1. left \in Nat \ {0} /\ left <= w
    BY <1>2, <1>6, ReserveFalls, ReservePositive
  <2> HIDE DEF left, w
  <2>2. QED
    BY <1>3, <2>1
<1>8. add(ry, t) = IF Fits(y + t) THEN y + t ELSE Refused
  BY <1>2, <1>3, AddIs
<1>9. gross = sub(w, mul_div_up(c.r0, c.y0, add(ry, t)))
  BY <1>3 DEF usdc_out_for_tokens_in
<1>10. new_sold = IF s >= t THEN s - t ELSE Refused
  <2>1. s <= c.y0
    BY <1>2
  <2>2. Fits(s)
    BY <1>2, <2>1, FitsBelow
  <2>3. QED
    BY <1>2, <2>2, SubIs
<1>11. b.gross = paid /\ b.newReserve = r - paid /\ b.newPrice = SpotPriceAt(c, s - t)
  BY <1>5
<1>12. SellReverts(c, r, s, t) <=>
           \/ s < t \/ ~Fits(y + t) \/ ~Fits(paid)
           \/ ~Fits(paid * c.feeBps + (BpsDenominator - 1))
           \/ ~Fits(r - paid) \/ ~Fits(SpotPriceAt(c, s - t))
  <2> HIDE DEF b, paid
  <2>1. QED
    BY <1>3, <1>11 DEF SellReverts, SellOverflows, b
<1> HIDE DEF b, paid
<1>13. CASE ~Fits(y + t)
  <2>1. gross = Refused
    <3>1. add(ry, t) = Refused
      BY <1>8, <1>13
    <3>2. QED
      BY <1>9, <3>1, RefusedPasses
  <2>2. quote_out = Refused
    <3> HIDE DEF gross, fee
    <3>1. QED
      BY <2>1, RefusedPasses
  <2>3. Refused \in figures /\ SellReverts(c, r, s, t)
    BY <1>12, <1>13, <2>2
  <2> HIDE DEF figures
  <2>4. QED
    BY <1>1, <2>3
<1>14. CASE Fits(y + t)
  <2>1. gross = paid
    <3>1. Fits(left)
      BY <1>2, <1>3, <1>7, FitsBelow
    <3>2. mul_div_up(c.r0, c.y0, y + t) = left
      BY <1>2, <1>6, <3>1, MulDivUpIs
    <3>3. sub(w, left) = paid
      <4> HIDE DEF w, left
      <4>1. w >= left
        BY <1>3, <1>7
      <4>2. QED
        BY <1>2, <1>3, <1>7, <4>1, SubIs DEF paid
    <3>4. QED
      BY <1>8, <1>9, <1>14, <3>2, <3>3
  <2>2. Fits(paid)
    BY <1>2, <1>3, <1>7, FitsBelow
  <2>3. fee = IF Fits(paid * c.feeBps + (BpsDenominator - 1)) THEN share ELSE Refused
    BY <1>4, <1>7, <2>1, FeeUpIs
  <2>4. share \in 0 .. paid
    BY <1>4, <1>7, FeeWithinAmount
  <2> HIDE DEF share, fee, gross
  <2>5. quote_out = IF Fits(paid * c.feeBps + (BpsDenominator - 1)) THEN paid - share
                    ELSE Refused
    <3>1. sub(paid, share) = paid - share
      BY <1>7, <2>2, <2>4, SubIs
    <3>2. QED
      BY <2>1, <2>3, <3>1, RefusedPasses
  <2>6. new_reserve = IF Fits(r - paid) THEN r - paid ELSE Refused
    <3>1. sub(r, paid) = IF r >= paid THEN r - paid ELSE Refused
      BY <1>2, <1>7, SubIs
    <3>2. r - paid <= r /\ r - paid \in Int
      BY <1>2, <1>7
    <3>3. r >= paid <=> Fits(r - paid)
      BY <1>2, <1>7, <3>2, U256Assumption DEF Fits
    <3>4. QED
      BY <2>1, <3>1, <3>3
  <2>7. s >= t => new_price = IF Fits(SpotPriceAt(c, s - t)) THEN SpotPriceAt(c, s - t)
                              ELSE Refused
    <3> SUFFICES ASSUME s >= t
                 PROVE  new_price = IF Fits(SpotPriceAt(c, s - t)) THEN SpotPriceAt(c, s - t)
                                    ELSE Refused
      OBVIOUS
    <3>1. s - t \in Nat /\ c.y0 - (s - t) \in Nat \ {0}
      BY <1>2, <1>6
    <3>2. Fits(MulDivUp(c.r0, c.y0, c.y0 - (s - t)))
      BY <1>2, <1>3, <1>6, <1>7, FitsBelow
    <3>3. spot_price_at_reserve_wad(c.r0, c.y0, c.y0 - (s - t))
              = IF Fits(SpotPriceAt(c, s - t)) THEN SpotPriceAt(c, s - t) ELSE Refused
      BY <3>1, <3>2, PriceIs
    <3>4. QED
      BY <1>6, <1>8, <1>14, <3>3
  <2>8. s >= t <=> ~(s < t)
    BY <1>2
  <2>9. /\ paid - share # Refused
        /\ Fits(r - paid) => r - paid # Refused
        /\ Fits(SpotPriceAt(c, s - t)) => SpotPriceAt(c, s - t) # Refused
        /\ s >= t => s - t # Refused
    BY <1>2, <1>7, <2>4, U256Assumption DEF Fits, Refused
  <2> HIDE DEF quote_out, new_reserve, new_sold, new_price, q
  <2>10. Refused \notin figures <=> ~SellReverts(c, r, s, t)
    BY <1>10, <1>12, <1>14, <2>2, <2>5, <2>6, <2>7, <2>8, <2>9
  <2>11. ASSUME Refused \notin figures PROVE q.value = b
    <3>1. /\ fee = share /\ quote_out = paid - share /\ new_reserve = r - paid
          /\ new_sold = s - t /\ new_price = SpotPriceAt(c, s - t)
      BY <1>10, <1>12, <2>3, <2>5, <2>6, <2>7, <2>8, <2>10, <2>11
    <3>2. QED
      BY <1>1, <1>5, <2>1, <3>1
  <2> HIDE DEF figures
  <2>12. QED
    BY <1>1, <2>10, <2>11 DEF q, b
<1>15. QED
  BY <1>13, <1>14
=============================================================================
