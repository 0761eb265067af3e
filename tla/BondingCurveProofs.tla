------------------------- MODULE BondingCurveProofs -------------------------
(***************************************************************************)
(* What BondingCurve promises, proved for curves and trades of every size. *)
(*                                                                         *)
(* The inductive invariant says three things the properties do not: the    *)
(* quote held is the stored reserve less its virtual part, the stored      *)
(* reserve never falls below the reserve the price function gives for the  *)
(* tokens left (the roundings of every trade so far were in the curve's    *)
(* favour), and the real reserve never passes the target.                  *)
(*                                                                         *)
(* From it follow the figures of any quote at any such position, and that  *)
(* the Rust crate, which checks each of its operations, comes to the same. *)
(***************************************************************************)
EXTENDS CurveInverses, CratePricing, CurveMathProofs

Conserves == vault = Real
Solvent == reserve >= ReserveAt(TokenReserve)
Capped == Real <= curve.target
Open == ~graduated => Real < curve.target /\ sold < curve.supply

IInv ==
    /\ TypeOK
    /\ Conserves
    /\ Solvent
    /\ Capped
    /\ Open
    /\ CollectsTarget

\* The figures of a curve that may be launched, as the steps below use them.
LEMMA CurveFigures ==
    ASSUME curve \in Curves
    PROVE  /\ curve.r0 \in Nat \ {0} /\ curve.r0 \in Nat
           /\ curve.y0 \in Nat \ {0} /\ curve.y0 \in Nat
           /\ curve.supply \in Nat \ {0}
           /\ curve.y0 - curve.supply \in Nat \ {0}
           /\ curve.target \in Nat \ {0}
           /\ curve.target = ReserveAt(curve.y0 - curve.supply) - ReserveAt(curve.y0)
           /\ curve.feeBps \in Nat /\ curve.feeBps <= BpsDenominator
           /\ curve.feeBps \in 0 .. BpsDenominator - 1
<1>1. curve \in CurveRecord /\ Placed(curve)
  BY CurvesAssumption
<1>2. curve.target = ReserveAt(curve.y0 - curve.supply) - ReserveAt(curve.y0)
  BY <1>1 DEF Placed, UsdcInForTokensOut, UsdcReserveAt, ReserveAt
<1>3. QED
  BY <1>1, <1>2, PlacedFigures

LEMMA ReserveAtLaunch ==
    ASSUME curve \in Curves PROVE ReserveAt(curve.y0) = curve.r0
BY CurvesAssumption, PlacedFigures DEF ReserveAt, UsdcReserveAt

\* The reserve at a position, against the one at launch and the one at the end.
LEMMA ReserveBetween ==
    ASSUME curve \in Curves, NEW s \in 0 .. curve.supply
    PROVE  /\ curve.y0 - s \in Nat \ {0}
           /\ ReserveAt(curve.y0 - s) \in Nat \ {0}
           /\ ReserveAt(curve.y0 - s) >= curve.r0
           /\ ReserveAt(curve.y0 - s) <= curve.r0 + curve.target
           /\ ReserveAt(curve.y0 - curve.supply) = curve.r0 + curve.target
<1>1. /\ curve.y0 - s \in Nat \ {0}
      /\ curve.y0 - s <= curve.y0
      /\ curve.y0 - curve.supply <= curve.y0 - s
  BY CurveFigures
<1>2. ReserveAt(curve.y0 - s) \in Nat \ {0}
  BY <1>1, CurveFigures, ReservePositive DEF ReserveAt, UsdcReserveAt
<1>3. ReserveAt(curve.y0) <= ReserveAt(curve.y0 - s)
  BY <1>1, CurveFigures, ReserveFalls DEF ReserveAt, UsdcReserveAt
<1>4. ReserveAt(curve.y0 - s) <= ReserveAt(curve.y0 - curve.supply)
  BY <1>1, CurveFigures, ReserveFalls DEF ReserveAt, UsdcReserveAt
<1>5. ReserveAt(curve.y0 - curve.supply) \in Nat
  BY CurveFigures, MulDivUpCovers DEF ReserveAt, UsdcReserveAt
<1>6. QED
  BY <1>1, <1>2, <1>3, <1>4, <1>5, CurveFigures, ReserveAtLaunch

LEMMA InitIInv == Init => IInv
<1> SUFFICES ASSUME Init PROVE IInv
  OBVIOUS
<1>1. curve \in Curves /\ reserve = curve.r0 /\ sold = 0 /\ vault = 0 /\ graduated = FALSE
  BY DEF Init
<1>2. TokenReserve = curve.y0 /\ Real = 0
  BY <1>1, CurveFigures DEF TokenReserve, Real
<1>3. Solvent
  BY <1>1, <1>2, CurveFigures, ReserveAtLaunch DEF Solvent
<1>4. TypeOK
  <2>1. reserve \in Nat /\ 0 \in 0 .. curve.supply /\ vault \in Nat
    BY <1>1, CurveFigures
  <2>2. QED
    BY <1>1, <2>1, Zenon DEF TypeOK
<1>5. QED
  BY <1>1, <1>2, <1>3, <1>4, CurveFigures
     DEF IInv, Conserves, Capped, Open, CollectsTarget

\* The net amount a buy brings to the curve: within the headroom, and what it
\* is charged less its fee.
LEMMA BuyNet ==
    ASSUME IInv, NEW d \in Nat, ~graduated
    PROVE  \E net \in Nat :
               /\ net <= Headroom(curve, reserve)
               /\ BuyAt(d).newReserve = reserve + net
               /\ BuyAt(d).spent - BuyAt(d).fee = net
               /\ BuyAt(d).spent \in Int /\ BuyAt(d).fee \in Int
               /\ \E bought \in Nat :
                    /\ BuyAt(d).tokensOut =
                           Least(bought, curve.supply - sold)
                    /\ BuyAt(d).newSold = sold + BuyAt(d).tokensOut
                    /\ ReserveAt(TokenReserve - bought) <= ReserveAt(TokenReserve) + net
                    /\ TokenReserve - bought \in Nat \ {0}
               /\ BuyAt(d).graduates = Graduates(curve, BuyAt(d).newReserve, BuyAt(d).newSold)
<1> DEFINE asked == d - FeeUp(d, curve.feeBps)
           cap == MaxNetIn(curve, reserve, sold)
           net == IF asked > cap THEN cap ELSE asked
           gross == IF asked > cap THEN GrossForNetUp(cap, curve.feeBps) ELSE d
           bought == IF net = 0 THEN 0
                     ELSE TokensOutForUsdcIn(curve.r0, curve.y0, curve.y0 - sold, net)
<1>1. /\ curve \in Curves /\ sold \in 0 .. curve.supply /\ reserve \in Nat
      /\ Real < curve.target /\ sold < curve.supply
      /\ reserve >= ReserveAt(TokenReserve)
  BY DEF IInv, TypeOK, Open, Solvent
<1>2. asked \in Nat
  BY <1>1, CurveFigures, FeeWithinAmount
<1>3. /\ TokenReserve \in Nat \ {0} /\ ReserveAt(TokenReserve) \in Nat \ {0}
      /\ ReserveAt(TokenReserve) >= curve.r0
  BY <1>1, ReserveBetween DEF TokenReserve
<1>4. Headroom(curve, reserve) = curve.target - Real /\ Headroom(curve, reserve) \in Nat
  BY <1>1, <1>3, CurveFigures DEF Headroom, Monus, Real
<1>5. cap \in Nat /\ cap <= Headroom(curve, reserve)
  <2>1. Remaining(curve, sold) = curve.supply - sold /\ curve.supply - sold \in Nat \ {0}
    BY <1>1, CurveFigures DEF Remaining, Monus
  <2>2. TokenReserve - (curve.supply - sold) = curve.y0 - curve.supply
    BY <1>1, CurveFigures DEF TokenReserve
  <2>3. UsdcInForTokensOut(curve.r0, curve.y0, TokenReserve, curve.supply - sold)
            = ReserveAt(curve.y0 - curve.supply) - ReserveAt(TokenReserve)
    BY <2>2 DEF UsdcInForTokensOut, ReserveAt, UsdcReserveAt
  <2>4. ReserveAt(curve.y0 - curve.supply) - ReserveAt(TokenReserve) \in Nat
    <3>1. ReserveAt(TokenReserve) <= curve.r0 + curve.target
      BY <1>1, ReserveBetween DEF TokenReserve
    <3>2. ReserveAt(curve.y0 - curve.supply) = curve.r0 + curve.target
      BY <1>1, ReserveBetween
    <3>3. QED
      BY <1>1, <1>3, <3>1, <3>2, CurveFigures
  <2>5. cap = Least(Headroom(curve, reserve),
                    UsdcInForTokensOut(curve.r0, curve.y0, TokenReserve, curve.supply - sold))
    BY <2>1 DEF MaxNetIn, TokenReserve
  <2>6. QED
    BY <1>4, <2>3, <2>4, <2>5 DEF Least
<1> HIDE DEF asked, cap
<1>6. net \in Nat /\ net <= Headroom(curve, reserve)
  BY <1>2, <1>4, <1>5
<1>7. /\ bought \in Nat
      /\ ReserveAt(TokenReserve - bought) <= ReserveAt(TokenReserve) + net
      /\ TokenReserve - bought \in Nat \ {0}
  <2>1. CASE net = 0
    BY <1>3, <2>1
  <2>2. CASE net # 0
    <3> DEFINE v == ReserveAt(TokenReserve) + net
               left == MulDivUp(curve.r0, curve.y0, v)
    <3>1. v \in Nat \ {0}
      BY <1>3, <1>6
    <3>2. bought = TokenReserve - left
      BY <2>2 DEF TokensOutForUsdcIn, TokenReserve, ReserveAt
    <3>3. left \in Nat \ {0}
      BY <1>1, <3>1, CurveFigures, ReservePositive
    <3>4. left <= TokenReserve
      <4>1. MulDivUp(curve.r0, curve.y0, TokenReserve) <= v
        BY <1>3, <1>6 DEF ReserveAt, UsdcReserveAt
      <4>2. QED
        BY <1>1, <1>3, <3>1, <4>1, CurveFigures, ReserveInverse
    <3>5. ReserveAt(left) <= v
      BY <1>1, <3>1, <3>3, CurveFigures, ReserveInverse DEF ReserveAt, UsdcReserveAt
    <3> HIDE DEF left, bought
    <3>6. bought \in Nat /\ TokenReserve - bought = left
      BY <1>3, <3>2, <3>3, <3>4
    <3>7. QED
      BY <3>3, <3>5, <3>6
  <2>3. QED
    BY <2>1, <2>2
<1>8. /\ BuyAt(d).newReserve = reserve + net
      /\ BuyAt(d).spent = gross
      /\ BuyAt(d).fee = gross - net
      /\ BuyAt(d).tokensOut = Least(bought, curve.supply - sold)
      /\ BuyAt(d).newSold = sold + Least(bought, curve.supply - sold)
      /\ BuyAt(d).graduates =
             Graduates(curve, reserve + net, sold + Least(bought, curve.supply - sold))
  BY DEF BuyAt, QuoteBuy, asked, cap
<1>9. gross \in Int
  <2>1. curve.feeBps \in 0 .. BpsDenominator - 1
    BY <1>1, CurveFigures
  <2>2. GrossForNetUp(cap, curve.feeBps) \in Nat
    BY <1>5, <2>1, GrossNat
  <2>3. QED
    BY <2>2
<1> HIDE DEF net, gross, bought
<1>10. gross - (gross - net) = net /\ gross - net \in Int
  BY <1>6, <1>9
<1>11. QED
  BY <1>6, <1>7, <1>8, <1>9, <1>10

\* What a sell takes out of the curve.
LEMMA SellGross ==
    ASSUME IInv, NEW t \in Nat, t <= sold
    PROVE  LET q == SellAt(t)
           IN  /\ q.gross = ReserveAt(TokenReserve) - ReserveAt(TokenReserve + t)
               /\ q.gross \in Nat
               /\ q.newReserve = reserve - q.gross
               /\ q.newReserve >= ReserveAt(TokenReserve + t)
               /\ q.newReserve \in Nat
               /\ q.newSold = sold - t
               /\ q.quoteOut + q.fee = q.gross
               /\ q.quoteOut \in Int /\ q.fee \in Int
<1> DEFINE gross == UsdcOutForTokensIn(curve.r0, curve.y0, curve.y0 - sold, t)
           fee == FeeUp(gross, curve.feeBps)
<1>1. /\ curve \in Curves /\ sold \in 0 .. curve.supply /\ reserve \in Nat
      /\ reserve >= ReserveAt(TokenReserve)
  BY DEF IInv, TypeOK, Solvent
<1>2. /\ SellAt(t).gross = gross
      /\ SellAt(t).fee = fee
      /\ SellAt(t).quoteOut = gross - fee
      /\ SellAt(t).newReserve = reserve - gross
      /\ SellAt(t).newSold = sold - t
  BY DEF SellAt, QuoteSell
<1>3. /\ TokenReserve \in Nat \ {0} /\ ReserveAt(TokenReserve) \in Nat
      /\ TokenReserve + t \in Nat \ {0}
      /\ TokenReserve <= TokenReserve + t
  BY <1>1, ReserveBetween DEF TokenReserve
<1>4. /\ ReserveAt(TokenReserve + t) \in Nat
      /\ ReserveAt(TokenReserve + t) <= ReserveAt(TokenReserve)
  BY <1>1, <1>3, CurveFigures, ReserveFalls, MulDivUpCovers DEF ReserveAt, UsdcReserveAt
<1>5. gross = ReserveAt(TokenReserve) - ReserveAt(TokenReserve + t)
  BY DEF UsdcOutForTokensIn, ReserveAt, UsdcReserveAt, TokenReserve
<1>6. gross \in Nat
  BY <1>3, <1>4, <1>5
<1>7. fee \in 0 .. gross
  BY <1>1, <1>6, CurveFigures, FeeWithinAmount
<1> HIDE DEF gross, fee
<1>8. QED
  BY <1>1, <1>2, <1>3, <1>4, <1>5, <1>6, <1>7

LEMMA BuyIInv ==
    ASSUME IInv, NEW d \in BuySizes, Buy(d) PROVE IInv'
<1>1. /\ curve \in Curves /\ sold \in 0 .. curve.supply /\ reserve \in Nat
      /\ vault = Real /\ vault \in Nat
      /\ reserve >= ReserveAt(TokenReserve)
      /\ ~graduated /\ curve' = curve
  BY DEF IInv, TypeOK, Solvent, Conserves, Buy
<1>2. d \in Nat
  BY SizesAssumption
<1>3. PICK net \in Nat :
          /\ net <= Headroom(curve, reserve)
          /\ BuyAt(d).newReserve = reserve + net
          /\ BuyAt(d).spent - BuyAt(d).fee = net
          /\ BuyAt(d).spent \in Int /\ BuyAt(d).fee \in Int
          /\ \E bought \in Nat :
               /\ BuyAt(d).tokensOut = Least(bought, curve.supply - sold)
               /\ BuyAt(d).newSold = sold + BuyAt(d).tokensOut
               /\ ReserveAt(TokenReserve - bought) <= ReserveAt(TokenReserve) + net
               /\ TokenReserve - bought \in Nat \ {0}
          /\ BuyAt(d).graduates = Graduates(curve, BuyAt(d).newReserve, BuyAt(d).newSold)
  BY <1>1, <1>2, BuyNet
<1>4. PICK bought \in Nat :
          /\ BuyAt(d).tokensOut = Least(bought, curve.supply - sold)
          /\ BuyAt(d).newSold = sold + BuyAt(d).tokensOut
          /\ ReserveAt(TokenReserve - bought) <= ReserveAt(TokenReserve) + net
          /\ TokenReserve - bought \in Nat \ {0}
  BY <1>3
<1>5. /\ reserve' = reserve + net
      /\ sold' = sold + Least(bought, curve.supply - sold)
      /\ vault' = vault + BuyAt(d).spent - BuyAt(d).fee
      /\ graduated' = Graduates(curve, reserve', sold')
  BY <1>3, <1>4 DEF Buy
<1>6. sold' \in 0 .. curve.supply /\ sold' <= sold + bought /\ sold' >= sold
  BY <1>1, <1>5, CurveFigures DEF Least
<1>7. Headroom(curve, reserve) = curve.target - Real
  <2>1. Real < curve.target
    BY <1>1 DEF IInv, Open
  <2>2. Real \in Nat
    BY <1>1
  <2>3. QED
    BY <2>1, <2>2, CurveFigures, <1>1 DEF Headroom, Monus, Real
<1>8. reserve' \in Nat /\ reserve' - curve.r0 <= curve.target
  BY <1>1, <1>3, <1>5, <1>7, CurveFigures DEF Real
<1>9. vault' = reserve' - curve.r0 /\ vault' \in Nat
  <2>1. vault' = vault + net
    BY <1>1, <1>3, <1>5
  <2>2. QED
    BY <1>1, <1>3, <1>5, <2>1, CurveFigures DEF Real
<1>10. reserve' >= ReserveAt(curve.y0 - sold')
  <2>1. /\ curve.y0 - sold' \in Nat \ {0}
        /\ ReserveAt(TokenReserve - bought) \in Nat
        /\ ReserveAt(curve.y0 - sold') \in Nat
        /\ ReserveAt(TokenReserve) \in Nat
        /\ TokenReserve - bought <= curve.y0 - sold'
    <3>1. TokenReserve \in Nat \ {0} /\ ReserveAt(TokenReserve) \in Nat
      BY <1>1, ReserveBetween DEF TokenReserve
    <3>2. curve.y0 - sold' \in Nat \ {0} /\ ReserveAt(curve.y0 - sold') \in Nat
      BY <1>1, <1>6, ReserveBetween
    <3>3. ReserveAt(TokenReserve - bought) \in Nat
      BY <1>1, <1>4, CurveFigures, MulDivUpCovers DEF ReserveAt, UsdcReserveAt
    <3>4. QED
      BY <1>1, <1>4, <1>6, <3>1, <3>2, <3>3, CurveFigures DEF TokenReserve
  <2>2. ReserveAt(curve.y0 - sold') <= ReserveAt(TokenReserve - bought)
    BY <1>1, <1>4, <2>1, CurveFigures, ReserveFalls DEF ReserveAt, UsdcReserveAt
  <2>3. QED
    BY <1>1, <1>3, <1>4, <1>5, <2>1, <2>2
<1>0. graduated' <=> \/ reserve' - curve.r0 >= curve.target
                     \/ sold' >= curve.supply
  <2>1. graduated' = (\/ reserve' - curve.r0 >= curve.target
                      \/ sold' >= curve.supply)
    BY <1>1, <1>5 DEF Graduates
  <2>2. QED
    BY <2>1, Zenon
<1>11. ~graduated' => reserve' - curve.r0 < curve.target /\ sold' < curve.supply
  BY <1>0, <1>1, <1>6, <1>8, CurveFigures
<1>12. graduated' => reserve' - curve.r0 = curve.target
  <2>1. sold' >= curve.supply => reserve' >= curve.r0 + curve.target
    BY <1>1, <1>6, <1>10, CurveFigures, ReserveBetween
  <2>2. QED
    BY <1>0, <1>1, <1>6, <1>8, <2>1, CurveFigures
<1>13. graduated' \in BOOLEAN
  BY <1>5 DEF Graduates
<1>14. TypeOK'
  BY <1>1, <1>6, <1>8, <1>9, <1>13 DEF TypeOK
<1>15. Conserves' /\ Solvent' /\ Capped' /\ Open' /\ CollectsTarget'
  BY <1>1, <1>8, <1>9, <1>10, <1>11, <1>12
     DEF Conserves, Solvent, Capped, Open, CollectsTarget, Real, TokenReserve, ReserveAt
<1>16. QED
  BY <1>14, <1>15 DEF IInv

LEMMA SellIInv ==
    ASSUME IInv, NEW t \in SellSizes, Sell(t) PROVE IInv'
<1>1. /\ curve \in Curves /\ sold \in 0 .. curve.supply /\ reserve \in Nat
      /\ vault = Real /\ vault \in Nat /\ Real < curve.target /\ sold < curve.supply
      /\ ~graduated /\ curve' = curve /\ graduated' = graduated /\ t <= sold
  BY DEF IInv, TypeOK, Conserves, Open, Sell
<1>2. t \in Nat
  BY SizesAssumption
<1> DEFINE gross == SellAt(t).gross
<1>3. /\ gross \in Nat
      /\ reserve' = reserve - gross
      /\ reserve' >= ReserveAt(TokenReserve + t)
      /\ reserve' \in Nat
      /\ sold' = sold - t
  BY <1>1, <1>2, SellGross DEF Sell
<1>4. vault' = vault - gross
  <2>1. vault' = vault - SellAt(t).quoteOut - SellAt(t).fee
    BY DEF Sell
  <2>2. SellAt(t).quoteOut \in Int /\ SellAt(t).fee \in Int
    BY <1>1, <1>2, SellGross
  <2>3. SellAt(t).quoteOut + SellAt(t).fee = gross
    BY <1>1, <1>2, SellGross
  <2> HIDE DEF gross
  <2>4. QED
    BY <1>1, <1>3, <2>1, <2>2, <2>3
<1> HIDE DEF gross
<1>5. sold' \in 0 .. curve.supply /\ sold' < curve.supply
  BY <1>1, <1>2, <1>3, CurveFigures
<1>6. reserve' >= ReserveAt(curve.y0 - sold')
  <2>1. TokenReserve + t = curve.y0 - sold'
    BY <1>1, <1>2, <1>3, CurveFigures DEF TokenReserve
  <2>2. QED
    BY <1>3, <2>1
<1>7. reserve' - curve.r0 < curve.target /\ vault' = reserve' - curve.r0
  BY <1>1, <1>3, <1>4, CurveFigures DEF Real
<1>8. vault' \in Nat
  <2>1. ReserveAt(curve.y0 - sold') >= curve.r0 /\ ReserveAt(curve.y0 - sold') \in Nat
    BY <1>1, <1>5, ReserveBetween
  <2>2. QED
    BY <1>1, <1>3, <1>6, <1>7, <2>1, CurveFigures
<1>9. TypeOK'
  BY <1>1, <1>3, <1>5, <1>8 DEF IInv, TypeOK
<1>10. Conserves' /\ Solvent' /\ Open' /\ CollectsTarget'
  BY <1>1, <1>5, <1>6, <1>7
     DEF Conserves, Solvent, Open, CollectsTarget, Real, TokenReserve, ReserveAt
<1>11. Capped'
  BY <1>1, <1>3, <1>7, CurveFigures DEF Capped, Real
<1>12. QED
  BY <1>9, <1>10, <1>11 DEF IInv

LEMMA StepIInv == IInv /\ [Next]_vars => IInv'
<1> SUFFICES ASSUME IInv, [Next]_vars PROVE IInv'
  OBVIOUS
<1>1. ASSUME NEW d \in BuySizes, Buy(d) PROVE IInv'
  BY <1>1, BuyIInv
<1>2. ASSUME NEW t \in SellSizes, Sell(t) PROVE IInv'
  BY <1>2, SellIInv
<1>3. CASE UNCHANGED vars
  BY <1>3 DEF vars, IInv, TypeOK, Conserves, Solvent, Capped, Open, CollectsTarget,
              Real, TokenReserve, ReserveAt
<1>4. QED
  BY <1>1, <1>2, <1>3 DEF Next

LEMMA Invariant == Spec => []IInv
BY InitIInv, StepIInv, PTL DEF Spec

\* The reserve, the tokens sold and the vault stay in range, whatever is traded.
THEOREM TypeCorrect == Spec => []TypeOK
<1>1. IInv => TypeOK
  BY DEF IInv
<1>2. QED
  BY <1>1, Invariant, PTL

\* A curve that graduates has collected its target to the wei.
THEOREM TargetCollected == Spec => []CollectsTarget
<1>1. IInv => CollectsTarget
  BY DEF IInv
<1>2. QED
  BY <1>1, Invariant, PTL

\* Everyone who bought could sell back at once and be paid.
THEOREM ExitsCovered == Spec => []ExitCovered
<1>1. ASSUME IInv PROVE ExitCovered
  <2>1. /\ curve \in Curves /\ sold \in 0 .. curve.supply /\ reserve \in Nat
        /\ vault = reserve - curve.r0 /\ reserve >= ReserveAt(TokenReserve)
    BY <1>1 DEF IInv, TypeOK, Conserves, Solvent, Real
  <2>2. TokenReserve + sold = curve.y0
    BY <2>1, CurveFigures DEF TokenReserve
  <2>3. UsdcOutForTokensIn(curve.r0, curve.y0, TokenReserve, sold)
            = ReserveAt(TokenReserve) - curve.r0
    BY <2>1, <2>2, ReserveAtLaunch DEF UsdcOutForTokensIn, ReserveAt, UsdcReserveAt
  <2>4. ReserveAt(TokenReserve) \in Nat
    BY <2>1, ReserveBetween DEF TokenReserve
  <2>5. QED
    BY <2>1, <2>3, <2>4, CurveFigures DEF ExitCovered
<1>2. QED
  BY <1>1, Invariant, PTL

\* What a live curve will still take: a positive amount.
LEMMA MaxNetInNat ==
    ASSUME IInv, ~graduated PROVE MaxNetIn(curve, reserve, sold) \in Nat \ {0}
<1>1. /\ curve \in Curves /\ sold \in 0 .. curve.supply /\ reserve \in Nat
      /\ Real < curve.target /\ sold < curve.supply /\ Real \in Nat
      /\ reserve >= ReserveAt(TokenReserve)
  BY DEF IInv, TypeOK, Open, Conserves, Solvent
<1>2. Headroom(curve, reserve) \in Nat \ {0}
  BY <1>1, CurveFigures DEF Headroom, Monus, Real
<1>3. Remaining(curve, sold) = curve.supply - sold /\ Remaining(curve, sold) # 0
  BY <1>1, CurveFigures DEF Remaining, Monus
<1>4. TokenReserve - (curve.supply - sold) = curve.y0 - curve.supply
  BY <1>1, CurveFigures DEF TokenReserve
<1>5. UsdcInForTokensOut(curve.r0, curve.y0, TokenReserve, curve.supply - sold)
          = (curve.r0 + curve.target) - ReserveAt(TokenReserve)
  <2>1. ReserveAt(curve.y0 - curve.supply) = curve.r0 + curve.target
    BY <1>1, ReserveBetween
  <2>2. UsdcInForTokensOut(curve.r0, curve.y0, TokenReserve, curve.supply - sold)
            = ReserveAt(TokenReserve - (curve.supply - sold)) - ReserveAt(TokenReserve)
    BY DEF UsdcInForTokensOut, ReserveAt, UsdcReserveAt
  <2>3. QED
    BY <1>4, <2>1, <2>2
<1>6. ReserveAt(TokenReserve) \in Nat
  BY <1>1, ReserveBetween DEF TokenReserve
<1>7. (curve.r0 + curve.target) - ReserveAt(TokenReserve) \in Nat \ {0}
  BY <1>1, <1>6, CurveFigures DEF Real
<1>8. MaxNetIn(curve, reserve, sold)
          = Least(Headroom(curve, reserve),
                  (curve.r0 + curve.target) - ReserveAt(TokenReserve))
  BY <1>3, <1>5 DEF MaxNetIn, TokenReserve
<1>9. QED
  BY <1>2, <1>7, <1>8 DEF Least

\* A curve that has not graduated can still be bought.
THEOREM AlwaysBuyable == Spec => []NeverStuck
<1>1. IInv => NeverStuck
  BY MaxNetInNat DEF NeverStuck
<1>2. QED
  BY <1>1, Invariant, PTL

\* A buy on a curve with a fee pays one, capped or not.
LEMMA BuyPaysFee ==
    ASSUME IInv, NeverStuck, NEW d \in Nat \ {0}, ~graduated, curve.feeBps > 0
    PROVE  BuyAt(d).fee > 0
<1> DEFINE asked == d - FeeUp(d, curve.feeBps)
           cap == MaxNetIn(curve, reserve, sold)
           bps == curve.feeBps
<1>1. bps \in 0 .. BpsDenominator - 1 /\ bps \in Nat \ {0} /\ d \in Nat
  BY CurveFigures DEF IInv, TypeOK
<1>2. FeeUp(d, bps) \in 0 .. d
  BY <1>1, CurveFigures, FeeWithinAmount DEF IInv, TypeOK
<1>3. cap > 0
  BY DEF NeverStuck
<1>4. BuyAt(d).fee = IF asked > cap THEN GrossForNetUp(cap, bps) - cap ELSE d - asked
  BY DEF BuyAt, QuoteBuy
<1> HIDE DEF cap, bps
<1>5. CASE asked > cap
  <2>1. cap \in Nat \ {0}
    BY <1>3, MaxNetInNat DEF cap
  <2>2. GrossForNetUp(cap, bps) \in Nat
    BY <1>1, <2>1, GrossNat
  <2>3. cap * (BpsDenominator - bps) = cap * BpsDenominator - cap * bps
    BY <1>1, <2>1 DEF BpsDenominator
  <2>4. cap * BpsDenominator \in Nat /\ cap * bps \in Nat \ {0}
    BY <1>1, <2>1 DEF BpsDenominator
  <2>5. ~(GrossForNetUp(cap, bps) <= cap)
    BY <1>1, <2>1, <2>3, <2>4, GrossAtMost
  <2>6. QED
    BY <1>4, <1>5, <2>1, <2>2, <2>5
<1>6. CASE ~(asked > cap)
  <2>1. d * bps \in Nat \ {0} /\ 0 * BpsDenominator = 0
    BY <1>1 DEF BpsDenominator
  <2>2. ~(FeeUp(d, bps) <= 0)
    BY <1>1, <2>1, FeeAtMost
  <2>3. BuyAt(d).fee = FeeUp(d, bps)
    BY <1>2, <1>4, <1>6 DEF bps
  <2>4. QED
    BY <1>2, <2>2, <2>3
<1>7. QED
  BY <1>5, <1>6

\* Buying and selling back at once loses money, at every position a curve with a
\* fee reaches and for every amount.
THEOREM RoundTripsLose == Spec => []RoundTripLoses
<1>1. ASSUME IInv, NeverStuck, ~graduated, curve.feeBps > 0, NEW d \in BuySizes
      PROVE  LET b == BuyAt(d)
             IN  QuoteSell(curve, b.newReserve, b.newSold, b.tokensOut).quoteOut < b.spent
  <2> DEFINE b == BuyAt(d)
             gross == UsdcOutForTokensIn(curve.r0, curve.y0, curve.y0 - b.newSold, b.tokensOut)
  <2>1. /\ d \in Nat \ {0} /\ d \in Nat
        /\ curve \in Curves /\ sold \in 0 .. curve.supply
    BY <1>1, SizesAssumption DEF IInv, TypeOK
  <2>2. PICK net \in Nat :
            /\ b.spent - b.fee = net
            /\ b.spent \in Int /\ b.fee \in Int
            /\ \E bought \in Nat :
                 /\ b.tokensOut = Least(bought, curve.supply - sold)
                 /\ b.newSold = sold + b.tokensOut
                 /\ ReserveAt(TokenReserve - bought) <= ReserveAt(TokenReserve) + net
                 /\ TokenReserve - bought \in Nat \ {0}
    BY <1>1, <2>1, BuyNet
  <2>3. PICK bought \in Nat :
                 /\ b.tokensOut = Least(bought, curve.supply - sold)
                 /\ b.newSold = sold + b.tokensOut
                 /\ ReserveAt(TokenReserve - bought) <= ReserveAt(TokenReserve) + net
                 /\ TokenReserve - bought \in Nat \ {0}
    BY <2>2
  <2>4. b.fee > 0
    BY <1>1, <2>1, BuyPaysFee
  <2> HIDE DEF b
  <2>5. b.tokensOut \in Nat /\ b.tokensOut <= bought /\ b.newSold \in 0 .. curve.supply
    BY <2>1, <2>3, CurveFigures DEF Least
  <2> DEFINE y == curve.y0 - b.newSold
  <2>6. y + b.tokensOut = TokenReserve /\ TokenReserve - bought <= y
    BY <2>1, <2>3, <2>5, CurveFigures DEF TokenReserve
  <2>7. /\ y \in Nat \ {0} /\ ReserveAt(y) \in Nat
        /\ ReserveAt(TokenReserve) \in Nat
        /\ ReserveAt(TokenReserve - bought) \in Nat
    <3>1. y \in Nat \ {0} /\ ReserveAt(y) \in Nat
      BY <2>1, <2>5, ReserveBetween
    <3>2. ReserveAt(TokenReserve) \in Nat
      BY <2>1, ReserveBetween DEF TokenReserve
    <3>3. QED
      BY <2>1, <2>3, <3>1, <3>2, CurveFigures, MulDivUpCovers DEF ReserveAt, UsdcReserveAt
  <2>8. ReserveAt(y) <= ReserveAt(TokenReserve - bought)
    BY <2>1, <2>3, <2>6, <2>7, CurveFigures, ReserveFalls DEF ReserveAt, UsdcReserveAt
  <2>9. gross = ReserveAt(y) - ReserveAt(TokenReserve)
    <3>1. gross = ReserveAt(y) - ReserveAt(y + b.tokensOut)
      BY DEF UsdcOutForTokensIn, ReserveAt, UsdcReserveAt
    <3>2. QED
      BY <2>6, <3>1
  <2>10. ReserveAt(TokenReserve) <= ReserveAt(y)
    <3>1. TokenReserve \in Nat \ {0} /\ y <= TokenReserve
      BY <2>1, <2>5, <2>6, <2>7, ReserveBetween DEF TokenReserve
    <3>2. QED
      BY <2>1, <2>7, <3>1, CurveFigures, ReserveFalls DEF ReserveAt, UsdcReserveAt
  <2> HIDE DEF y
  <2>11. gross \in Nat /\ gross <= net
    BY <2>2, <2>3, <2>7, <2>8, <2>9, <2>10
  <2> HIDE DEF gross
  <2>12. FeeUp(gross, curve.feeBps) \in 0 .. gross
    BY <2>1, <2>11, CurveFigures, FeeWithinAmount
  <2>13. QuoteSell(curve, b.newReserve, b.newSold, b.tokensOut).quoteOut
             = gross - FeeUp(gross, curve.feeBps)
    BY DEF QuoteSell, gross
  <2>14. QuoteSell(curve, b.newReserve, b.newSold, b.tokensOut).quoteOut < b.spent
    BY <2>2, <2>4, <2>11, <2>12, <2>13
  <2>15. QED
    BY <2>14 DEF b
<1>2. IInv /\ NeverStuck => RoundTripLoses
  BY <1>1 DEF RoundTripLoses
<1>3. QED
  BY <1>2, Invariant, AlwaysBuyable, PTL

-----------------------------------------------------------------------------
(* The inverse pricing functions answer with the least amount that will do, *)
(* for positions, fees and amounts of every size.                           *)

LEMMA GrossLeast ==
    ASSUME NEW amount \in Nat, NEW bps \in 0 .. BpsDenominator - 1
    PROVE  GrossIsSmallest(amount, bps)
<1> DEFINE g == GrossForNetUp(amount, bps)
<1>1. bps \in 0 .. BpsDenominator - 1 /\ amount \in Nat
  OBVIOUS
<1>2. g \in Nat
  BY <1>1, GrossNat
<1>3. g - FeeUp(g, bps) >= amount
  BY <1>1, <1>2, GrossCoversNet
<1>4. ASSUME NEW m \in 0 .. g - 1 PROVE ~(m - FeeUp(m, bps) >= amount)
  BY <1>1, <1>2, GrossCoversNet
<1>5. QED
  BY <1>2, <1>3, <1>4 DEF GrossIsSmallest, IsLeast

LEMMA TokenReserveLeast ==
    ASSUME NEW r0 \in Nat \ {0}, NEW y0 \in Nat \ {0}, NEW amount \in Nat
    PROVE  TokenReserveIsSmallest(r0, y0, amount)
<1> SUFFICES ASSUME amount > 0 PROVE
        IsLeast(TokenReserveAt(r0, y0, amount),
                LAMBDA m : m > 0 /\ UsdcReserveAt(r0, y0, m) <= amount)
  BY DEF TokenReserveIsSmallest
<1> DEFINE n == TokenReserveAt(r0, y0, amount)
<1>1. /\ r0 \in Nat \ {0} /\ y0 \in Nat \ {0} /\ amount \in Nat \ {0}
      /\ r0 \in Nat /\ y0 \in Nat
  OBVIOUS
<1>2. n \in Nat \ {0}
  BY <1>1, ReservePositive DEF TokenReserveAt
<1>3. UsdcReserveAt(r0, y0, n) <= amount
  BY <1>1, <1>2, ReserveInverse DEF TokenReserveAt, UsdcReserveAt
<1>4. ASSUME NEW m \in 0 .. n - 1, m > 0 PROVE ~(UsdcReserveAt(r0, y0, m) <= amount)
  BY <1>1, <1>2, <1>4, ReserveInverse DEF TokenReserveAt, UsdcReserveAt
<1>5. QED
  BY <1>2, <1>3, <1>4 DEF IsLeast

LEMMA NetInLeast ==
    ASSUME NEW r0 \in Nat \ {0}, NEW y0 \in Nat \ {0}, NEW y \in Nat \ {0},
           NEW amount \in Nat
    PROVE  NetInIsLeast(r0, y0, y, amount)
<1> SUFFICES ASSUME amount < y PROVE
        IsLeast(UsdcInForTokensOut(r0, y0, y, amount),
                LAMBDA d : TokensOutForUsdcIn(r0, y0, y, d) >= amount)
  BY DEF NetInIsLeast
<1> DEFINE at(z) == MulDivUp(r0, y0, z)
           n == UsdcInForTokensOut(r0, y0, y, amount)
<1>1. /\ r0 \in Nat \ {0} /\ y0 \in Nat \ {0} /\ y \in Nat \ {0}
      /\ amount \in Nat /\ y - amount \in Nat \ {0}
      /\ r0 \in Nat /\ y0 \in Nat
  OBVIOUS
<1>2. at(y) \in Nat \ {0} /\ at(y - amount) \in Nat \ {0}
  BY <1>1, ReservePositive
<1>3. at(y) <= at(y - amount)
  BY <1>1, ReserveFalls
<1>4. ASSUME NEW d \in Nat
      PROVE  TokensOutForUsdcIn(r0, y0, y, d) >= amount <=> d >= n
  <2>1. at(y) + d \in Nat \ {0}
    BY <1>2
  <2>2. at(at(y) + d) \in Nat
    BY <1>1, <2>1, MulDivUpCovers
  <2>3. at(at(y) + d) <= y - amount <=> at(y - amount) <= at(y) + d
    BY <1>1, <2>1, ReserveInverse
  <2>4. TokensOutForUsdcIn(r0, y0, y, d) = y - at(at(y) + d)
    BY DEF TokensOutForUsdcIn, UsdcReserveAt
  <2>5. n = at(y - amount) - at(y)
    BY DEF UsdcInForTokensOut, UsdcReserveAt
  <2> HIDE DEF at, n
  <2>6. QED
    BY <1>1, <1>2, <2>2, <2>3, <2>4, <2>5
<1>5. n \in Nat
  BY <1>2, <1>3 DEF UsdcInForTokensOut, UsdcReserveAt
<1> HIDE DEF at, n
<1>6. n >= n /\ \A m \in 0 .. n - 1 : m \in Nat /\ ~(m >= n)
  BY <1>5
<1>7. QED
  BY <1>4, <1>5, <1>6 DEF IsLeast, n

LEMMA SellLeast ==
    ASSUME NEW r0 \in Nat \ {0}, NEW y0 \in Nat \ {0}, NEW y \in Nat \ {0},
           NEW amount \in Nat
    PROVE  SellIsLeast(r0, y0, y, amount)
<1> SUFFICES ASSUME amount < UsdcReserveAt(r0, y0, y) PROVE
        IsLeast(TokensInForUsdcOut(r0, y0, y, amount),
                LAMBDA t : UsdcOutForTokensIn(r0, y0, y, t) >= amount)
  BY DEF SellIsLeast
<1> DEFINE at(z) == MulDivUp(r0, y0, z)
           n == TokensInForUsdcOut(r0, y0, y, amount)
<1>1. /\ r0 \in Nat \ {0} /\ y0 \in Nat \ {0} /\ y \in Nat \ {0}
      /\ amount \in Nat /\ r0 \in Nat /\ y0 \in Nat
  OBVIOUS
<1>2. at(y) \in Nat \ {0} /\ at(y) - amount \in Nat \ {0}
  BY <1>1, ReservePositive DEF UsdcReserveAt
<1>3. ASSUME NEW t \in Nat
      PROVE  /\ UsdcOutForTokensIn(r0, y0, y, t) = at(y) - at(y + t)
             /\ at(y + t) \in Nat
             /\ at(y + t) <= at(y)
  <2>1. y + t \in Nat \ {0} /\ y <= y + t
    BY <1>1
  <2>2. QED
    BY <1>1, <2>1, ReserveFalls, MulDivUpCovers DEF UsdcOutForTokensIn, UsdcReserveAt
<1>4. CASE amount = 0
  <2>1. n = 0
    BY <1>4 DEF TokensInForUsdcOut
  <2>2. UsdcOutForTokensIn(r0, y0, y, 0) >= amount
    BY <1>2, <1>3, <1>4
  <2>3. QED
    BY <2>1, <2>2 DEF IsLeast
<1>5. CASE amount # 0
  <2> DEFINE v == at(y) - amount
  <2>1. n = at(v) - y
    BY <1>5 DEF TokensInForUsdcOut, UsdcReserveAt
  <2>2. v \in Nat \ {0} /\ v < at(y)
    BY <1>1, <1>2, <1>5
  <2>3. at(v) \in Nat
    BY <1>1, <2>2, MulDivUpCovers
  <2>4. ASSUME NEW z \in Nat \ {0} PROVE at(v) <= z <=> at(z) <= v
    BY <1>1, <2>2, ReserveInverse
  <2>5. n \in Nat
    <3>1. ~(at(y) <= v)
      BY <1>2, <2>2
    <3>2. ~(at(v) <= y)
      BY <1>1, <2>4, <3>1
    <3>3. QED
      BY <1>1, <2>1, <2>3, <3>2
  <2>6. ASSUME NEW t \in Nat
        PROVE  UsdcOutForTokensIn(r0, y0, y, t) >= amount <=> t >= n
    <3>1. y + t \in Nat \ {0}
      BY <1>1
    <3>2. at(v) <= y + t <=> at(y + t) <= v
      BY <2>4, <3>1
    <3>3. UsdcOutForTokensIn(r0, y0, y, t) = at(y) - at(y + t) /\ at(y + t) \in Nat
      BY <1>3
    <3> HIDE DEF at, n
    <3>4. QED
      BY <1>1, <1>2, <2>1, <2>3, <3>2, <3>3
  <2> HIDE DEF at, n, v
  <2>7. n >= n /\ \A m \in 0 .. n - 1 : m \in Nat /\ ~(m >= n)
    BY <2>5
  <2>8. QED
    BY <2>5, <2>6, <2>7 DEF IsLeast, n
<1>6. QED
  BY <1>4, <1>5

\* Whatever a curve has been through, all four answers are the least that do.
THEOREM InversesAreLeast == Spec => []InversesLeast
<1>1. TypeOK => InversesLeast
  <2> SUFFICES ASSUME TypeOK, NEW amount \in Asked
               PROVE  /\ GrossIsSmallest(amount, curve.feeBps)
                      /\ TokenReserveIsSmallest(curve.r0, curve.y0, amount)
                      /\ NetInIsLeast(curve.r0, curve.y0, TokenReserve, amount)
                      /\ SellIsLeast(curve.r0, curve.y0, TokenReserve, amount)
    BY DEF InversesLeast
  <2>1. /\ curve.r0 \in Nat \ {0} /\ curve.y0 \in Nat \ {0}
        /\ curve.feeBps \in 0 .. BpsDenominator - 1
        /\ amount \in Nat
    BY CurveFigures, AskedAssumption DEF TypeOK
  <2>2. TokenReserve \in Nat \ {0}
    BY CurveFigures DEF TypeOK, TokenReserve
  <2>3. QED
    BY <2>1, <2>2, GrossLeast, TokenReserveLeast, NetInLeast, SellLeast
<1>2. QED
  BY <1>1, TypeCorrect, PTL

-----------------------------------------------------------------------------
(* Quotes at any position a curve may be in, not only at the stored one: a  *)
(* quote is asked for at the position another quote would leave.            *)

\* The fee of a sum is no more than the fees of its parts.
LEMMA FeeOfSum ==
    ASSUME NEW d \in Nat, NEW e \in Nat, NEW bps \in Nat
    PROVE  FeeUp(d + e, bps) <= FeeUp(d, bps) + FeeUp(e, bps)
<1> DEFINE f == FeeUp(d, bps)
           g == FeeUp(e, bps)
<1>1. f \in Nat /\ g \in Nat
  BY MulNat, DivDef DEF FeeUp, BpsDenominator
<1>2. d * bps <= f * BpsDenominator /\ e * bps <= g * BpsDenominator
  <2>1. f <= f /\ g <= g
    BY <1>1
  <2>2. QED
    BY <1>1, <2>1, FeeAtMost
<1> HIDE DEF f, g
<1>3. /\ (d + e) * bps = d * bps + e * bps
      /\ (f + g) * BpsDenominator = f * BpsDenominator + g * BpsDenominator
  BY <1>1 DEF BpsDenominator
<1>4. /\ d * bps \in Nat /\ e * bps \in Nat
      /\ f * BpsDenominator \in Nat /\ g * BpsDenominator \in Nat
  BY <1>1, MulNat DEF BpsDenominator
<1>5. (d + e) * bps <= (f + g) * BpsDenominator
  BY <1>2, <1>3, <1>4
<1>6. f + g \in Nat /\ d + e \in Nat
  BY <1>1
<1>7. FeeUp(d + e, bps) <= f + g
  BY <1>5, <1>6, FeeAtMost
<1>8. QED
  BY <1>7 DEF f, g

\* One buy of the sum takes no fewer tokens than two, one after the other.
LEMMA SplitTakesNoMore ==
    ASSUME NEW c, NEW r, NEW s, OpenAt(c, r, s), NEW d \in Nat, NEW e \in Nat,
           ~QuoteBuy(c, r, s, d).graduates
    PROVE  LET b == QuoteBuy(c, r, s, d)
           IN  b.tokensOut + QuoteBuy(c, b.newReserve, b.newSold, e).tokensOut
                   <= QuoteBuy(c, r, s, d + e).tokensOut
<1> DEFINE b == QuoteBuy(c, r, s, d)
           r1 == b.newReserve
           s1 == b.newSold
           t1 == b.tokensOut
           n1 == NetKept(c, r, s, d)
           b2 == QuoteBuy(c, r1, s1, e)
           t2 == b2.tokensOut
           n2 == NetKept(c, r1, s1, e)
           whole == QuoteBuy(c, r, s, d + e)
           t == whole.tokensOut
           n == NetKept(c, r, s, d + e)
           y == c.y0 - s
           rem == c.supply - s
           w == MulDivUp(c.r0, c.y0, y)
           w1 == MulDivUp(c.r0, c.y0, y - t1)
<1>0. d + e \in Nat
  OBVIOUS
<1>1. n1 \in Nat /\ n \in Nat
  BY <1>0, NetKeptNat
<1>2. /\ b = BuyOf(c, r, s, n1, GrossSpent(c, r, s, d), d - GrossSpent(c, r, s, d))
      /\ b2 = BuyOf(c, r1, s1, n2, GrossSpent(c, r1, s1, e), e - GrossSpent(c, r1, s1, e))
      /\ whole = BuyOf(c, r, s, n, GrossSpent(c, r, s, d + e),
                       (d + e) - GrossSpent(c, r, s, d + e))
  BY BuyIsOf
<1>3. OpenAt(c, r1, s1) /\ r1 = r + n1 /\ s1 = s + t1
  BY <1>1, <1>2, BuyLeavesOpen
<1>4. /\ n1 <= AskedNet(c, d) /\ AskedNet(c, d) \in Nat /\ n1 <= MaxNetIn(c, r, s)
      /\ n \in {AskedNet(c, d + e), MaxNetIn(c, r, s)}
      /\ AskedNet(c, d + e) \in Nat
  BY <1>0, NetKeptNat
<1>5. /\ n2 \in Nat /\ n2 <= AskedNet(c, e) /\ AskedNet(c, e) \in Nat
      /\ n2 <= c.target - (r1 - c.r0)
  <2>1. /\ n2 \in Nat /\ n2 <= AskedNet(c, e) /\ AskedNet(c, e) \in Nat
        /\ n2 <= MaxNetIn(c, r1, s1) /\ MaxNetIn(c, r1, s1) <= c.target - (r1 - c.r0)
    BY <1>3, NetKeptNat
  <2>2. MaxNetIn(c, r1, s1) \in Nat
    BY <1>3, OpenFigures
  <2>3. r1 \in Nat /\ c.r0 \in Nat /\ c.target \in Nat
    BY <1>3, OpenFigures DEF OpenAt
  <2> HIDE DEF n2, r1, s1
  <2>4. QED
    BY <2>1, <2>2, <2>3
<1>6. AskedNet(c, d) + AskedNet(c, e) <= AskedNet(c, d + e)
  <2>1. c.feeBps \in Nat /\ c.feeBps <= BpsDenominator
    BY OpenFigures
  <2>2. FeeUp(d + e, c.feeBps) <= FeeUp(d, c.feeBps) + FeeUp(e, c.feeBps)
    BY <2>1, FeeOfSum
  <2>3. /\ FeeUp(d, c.feeBps) \in 0 .. d /\ FeeUp(e, c.feeBps) \in 0 .. e
        /\ FeeUp(d + e, c.feeBps) \in 0 .. d + e
    BY <1>0, <2>1, FeeWithinAmount
  <2>4. QED
    BY <2>2, <2>3 DEF AskedNet
<1>7. /\ c.r0 \in Nat \ {0} /\ c.r0 \in Nat /\ c.y0 \in Nat \ {0} /\ c.y0 \in Nat
      /\ c.target \in Nat /\ rem \in Nat /\ y \in Nat \ {0} /\ w \in Nat \ {0} /\ r \in Nat
      /\ c.supply \in Nat /\ s \in Nat /\ y - rem \in Nat \ {0}
      /\ MulDivUp(c.r0, c.y0, y - rem) = c.r0 + c.target
  <2>1. /\ c.r0 \in Nat \ {0} /\ c.r0 \in Nat /\ c.y0 \in Nat \ {0} /\ c.y0 \in Nat
        /\ c.target \in Nat /\ rem \in Nat /\ y \in Nat \ {0} /\ w \in Nat \ {0}
        /\ c.supply \in Nat /\ s \in Nat /\ c.y0 - c.supply \in Nat \ {0}
        /\ MulDivUp(c.r0, c.y0, c.y0 - c.supply) = c.r0 + c.target
    BY OpenFigures
  <2>2. r \in Nat
    BY DEF OpenAt
  <2>3. y - rem = c.y0 - c.supply
    BY <2>1
  <2>4. QED
    BY <2>1, <2>2, <2>3
<1>8. /\ t1 \in Nat /\ t1 <= rem /\ y - t1 \in Nat \ {0} /\ w1 <= w + n1
      /\ n1 = 0 => t1 = 0
  BY <1>1, <1>2, TokensTaken
<1>9. /\ t2 \in Nat /\ t2 <= rem - t1
      /\ w1 + n2 \in Nat \ {0}
      /\ MulDivUp(c.r0, c.y0, w1 + n2) <= y - t1 - t2
      /\ n2 = 0 => t2 = 0
  <2>1. c.y0 - s1 = y - t1 /\ c.supply - s1 = rem - t1
    BY <1>3, <1>7, <1>8
  <2>2. /\ t2 \in Nat /\ t2 <= c.supply - s1
        /\ MulDivUp(c.r0, c.y0, c.y0 - s1) + n2 \in Nat \ {0}
        /\ MulDivUp(c.r0, c.y0, MulDivUp(c.r0, c.y0, c.y0 - s1) + n2) <= (c.y0 - s1) - t2
        /\ n2 = 0 => t2 = 0
    BY <1>2, <1>3, <1>5, TokensTaken
  <2> HIDE DEF s1, y, rem, t1, t2, n2
  <2>3. QED
    BY <2>1, <2>2
<1>10. /\ t \in Nat /\ t <= rem /\ w + n \in Nat \ {0}
       /\ MulDivUp(c.r0, c.y0, w + n) <= y - t
       /\ n # 0 /\ t < rem => y - t = MulDivUp(c.r0, c.y0, w + n)
  BY <1>1, <1>2, TokensTaken
<1>11. w1 \in Nat
  BY <1>7, <1>8, MulDivUpCovers
<1>12. n1 + n2 <= n \/ t = rem
  <2>1. CASE n = AskedNet(c, d + e)
    <3>1. n1 + n2 <= n
      <4> HIDE DEF n1, n2, n
      <4>1. QED
        BY <1>1, <1>4, <1>5, <1>6, <2>1
    <3>2. QED
      BY <3>1
  <2>2. CASE n = MaxNetIn(c, r, s)
    <3> DEFINE cap == MaxNetIn(c, r, s)
               room == c.target - (r - c.r0)
               rest == (c.r0 + c.target) - w
    <3>1. cap = Least(room, rest) /\ n = cap
      BY <2>2, OpenFigures
    <3>2. room \in Int /\ rest \in Int
      BY <1>7
    <3> HIDE DEF cap
    <3>3. CASE n = room
      <4> HIDE DEF n1, n2, n, r1
      <4>1. n1 + n2 <= n
        BY <1>1, <1>3, <1>5, <1>7, <3>3
      <4>2. QED
        BY <4>1
    <3>4. CASE n = rest
      <4>1. w + n = c.r0 + c.target
        <5> HIDE DEF n, w
        <5>1. QED
          BY <1>7, <3>4
      <4>2. MulDivUp(c.r0, c.y0, w + n) <= y - rem
        <5>1. MulDivUp(c.r0, c.y0, y - rem) <= w + n
          <6> HIDE DEF w, n, y, rem
          <6>1. QED
            BY <1>7, <4>1
        <5> HIDE DEF w, n, y, rem
        <5>2. QED
          BY <1>7, <1>10, <5>1, ReserveInverse
      <4>3. n # 0
        BY <2>2, OpenFigures
      <4>4. ~(t < rem)
        <5> DEFINE left == MulDivUp(c.r0, c.y0, w + n)
        <5>1. left <= y - rem /\ (t < rem => y - t = left)
          BY <1>10, <4>2, <4>3
        <5> HIDE DEF left, t, rem, y
        <5>2. QED
          BY <1>7, <1>10, <5>1
      <4> HIDE DEF t, rem
      <4>5. QED
        BY <1>7, <1>10, <4>4
    <3>5. QED
      BY <3>1, <3>2, <3>3, <3>4 DEF Least
  <2>3. QED
    BY <1>4, <2>1, <2>2
<1>13. CASE t = rem
  <2> HIDE DEF t, rem, t1, t2
  <2>1. t1 + t2 <= t
    BY <1>7, <1>8, <1>9, <1>13
  <2>2. QED
    BY <2>1 DEF t, t1, t2
<1>14. CASE n1 + n2 <= n /\ t < rem
  <2>1. CASE n = 0
    <3>1. n1 = 0 /\ n2 = 0
      <4> HIDE DEF n1, n2, n
      <4>1. QED
        BY <1>1, <1>5, <1>14, <2>1
    <3> HIDE DEF t, t1, t2
    <3>2. t1 + t2 <= t
      BY <1>8, <1>9, <1>10, <3>1
    <3>3. QED
      BY <3>2 DEF t, t1, t2
  <2>2. CASE n # 0
    <3> DEFINE left == MulDivUp(c.r0, c.y0, w + n)
               left2 == MulDivUp(c.r0, c.y0, w1 + n2)
    <3>1. y - t = left
      BY <1>10, <1>14, <2>2
    <3>2. w1 + n2 <= w + n
      <4> HIDE DEF n1, n2, n, w, w1
      <4>1. QED
        BY <1>1, <1>5, <1>7, <1>8, <1>11, <1>14
    <3>3. left <= left2
      BY <1>7, <1>9, <1>10, <3>2, ReserveFalls
    <3>4. left \in Nat /\ left2 \in Nat
      BY <1>7, <1>9, <1>10, MulDivUpCovers
    <3>5. left2 <= y - t1 - t2
      BY <1>9
    <3> HIDE DEF left, left2, t, t1, t2, y
    <3>6. t1 + t2 <= t
      BY <1>7, <1>8, <1>9, <1>10, <3>1, <3>3, <3>4, <3>5
    <3>7. QED
      BY <3>6 DEF t, t1, t2
  <2>3. QED
    BY <2>1, <2>2
<1>15. QED
  <2>1. t = rem \/ t < rem
    <3> HIDE DEF t, rem
    <3>1. QED
      BY <1>7, <1>10
  <2>2. QED
    BY <1>12, <1>13, <1>14, <2>1

\* A buyer who comes back with just what the first answer would spend is told the
\* same, with nothing refunded.
LEMMA FillCostsItsPrice ==
    ASSUME NEW c, NEW r, NEW s, OpenAt(c, r, s), NEW d \in Nat
    PROVE  LET b == QuoteBuy(c, r, s, d)
           IN  QuoteBuy(c, r, s, b.spent) = [b EXCEPT !.refund = 0]
<1> DEFINE b == QuoteBuy(c, r, s, d)
           cap == MaxNetIn(c, r, s)
           net == NetKept(c, r, s, d)
           gross == GrossSpent(c, r, s, d)
<1>1. b = BuyOf(c, r, s, net, gross, d - gross)
  BY BuyIsOf
<1>2. cap \in Nat /\ c.feeBps \in 0 .. BpsDenominator - 1
  BY OpenFigures
<1>3. NetKept(c, r, s, gross) = net /\ GrossSpent(c, r, s, gross) = gross
  <2>1. CASE ~(AskedNet(c, d) > cap)
    <3>1. gross = d
      BY <2>1 DEF GrossSpent
    <3>2. QED
      BY <3>1
  <2>2. CASE AskedNet(c, d) > cap
    <3>1. gross = GrossForNetUp(cap, c.feeBps) /\ net = cap
      BY <2>2 DEF GrossSpent, NetKept
    <3>2. gross \in Nat
      BY <1>2, <3>1, GrossNat
    <3>3. AskedNet(c, gross) >= cap
      <4>1. gross <= gross
        BY <3>2
      <4>2. QED
        BY <1>2, <3>1, <3>2, <4>1, GrossCoversNet DEF AskedNet
    <3>4. AskedNet(c, gross) \in Nat
      BY <3>2, NetKeptNat
    <3> HIDE DEF cap, gross, net
    <3>5. AskedNet(c, gross) > cap \/ AskedNet(c, gross) = cap
      BY <1>2, <3>3, <3>4
    <3>6. CASE AskedNet(c, gross) > cap
      BY <3>1, <3>6 DEF NetKept, GrossSpent, cap
    <3>7. CASE AskedNet(c, gross) = cap
      <4>1. ~(AskedNet(c, gross) > cap)
        BY <1>2, <3>7
      <4>2. QED
        BY <3>1, <3>7, <4>1 DEF NetKept, GrossSpent, cap
    <3>8. QED
      BY <3>5, <3>6, <3>7
  <2>3. QED
    BY <2>1, <2>2
<1>4. gross - gross = 0
  <2>1. gross \in Nat
    BY <1>2, GrossNat DEF GrossSpent
  <2>2. QED
    BY <2>1
<1>5. b.spent = gross
  BY <1>1 DEF BuyOf
<1>6. QuoteBuy(c, r, s, gross) = BuyOf(c, r, s, net, gross, 0)
  <2>1. QuoteBuy(c, r, s, gross)
            = BuyOf(c, r, s, NetKept(c, r, s, gross), GrossSpent(c, r, s, gross),
                    gross - GrossSpent(c, r, s, gross))
    BY BuyIsOf
  <2> HIDE DEF gross, net
  <2>2. QED
    BY <1>3, <1>4, <2>1
<1> HIDE DEF b, gross, net
<1>7. BuyOf(c, r, s, net, gross, 0) = [b EXCEPT !.refund = 0]
  BY <1>1 DEF BuyOf
<1>8. QED
  BY <1>5, <1>6, <1>7 DEF b

\* A position of the curve itself is one of these.
LEMMA StoredIsOpen ==
    ASSUME IInv, ~graduated PROVE OpenAt(curve, reserve, sold)
<1>1. /\ curve \in Curves /\ sold \in 0 .. curve.supply /\ reserve \in Nat
      /\ Real < curve.target /\ sold < curve.supply /\ Real \in Nat
      /\ reserve >= ReserveAt(TokenReserve)
  BY DEF IInv, TypeOK, Open, Conserves, Solvent
<1>2. curve.supply \in Nat /\ curve.target \in Nat
  BY <1>1, CurveFigures
<1>3. curve \in CurveRecord /\ Placed(curve)
  BY <1>1, CurvesAssumption
<1>4. /\ sold \in 0 .. curve.supply - 1
      /\ reserve - curve.r0 \in 0 .. curve.target - 1
      /\ reserve >= MulDivUp(curve.r0, curve.y0, curve.y0 - sold)
  BY <1>1, <1>2 DEF Real, TokenReserve, ReserveAt, UsdcReserveAt
<1>5. QED
  BY <1>1, <1>3, <1>4 DEF OpenAt

\* No rounding is to be harvested by trading in pieces, at any position and size:
\* a buy in two parts takes no more tokens than the buy of the sum, and a buy capped
\* at the end of the curve is charged what a buy of its fill is charged.
THEOREM SplitsNeverHelp == Spec => []SplittingNeverHelps
<1>1. ASSUME IInv, ~graduated, NEW d \in BuySizes
      PROVE  BuyAt(BuyAt(d).spent) = [BuyAt(d) EXCEPT !.refund = 0]
  BY <1>1, StoredIsOpen, FillCostsItsPrice, SizesAssumption DEF BuyAt
<1>2. ASSUME IInv, ~graduated, NEW d \in BuySizes, ~BuyAt(d).graduates, NEW e \in BuySizes
      PROVE  BuyAt(d).tokensOut
               + QuoteBuy(curve, BuyAt(d).newReserve, BuyAt(d).newSold, e).tokensOut
                   <= BuyAt(d + e).tokensOut
  <2>1. d \in Nat /\ e \in Nat
    BY SizesAssumption
  <2>2. QED
    BY <1>2, <2>1, StoredIsOpen, SplitTakesNoMore DEF BuyAt
<1>3. IInv => SplittingNeverHelps
  BY <1>1, <1>2 DEF SplittingNeverHelps
<1>4. QED
  BY <1>3, Invariant, PTL

-----------------------------------------------------------------------------
(* No checked operation trips on a curve whose whole life has room in 256   *)
(* bits: everything a quote computes stays within the curve's own figures.  *)

\* What has room, at a position of a curve that may be launched.
LEMMA RoomAt ==
    ASSUME NEW c \in Curves
    PROVE  /\ \A n \in Nat : n <= c.y0 => Fits(n)
           /\ \A n \in Nat : n <= c.r0 + c.target => Fits(n)
           /\ \A n, y \in Nat : n <= c.r0 + c.target /\ y # 0 => Fits(MulDivDown(n, Wad, y))
           /\ \A n, j, x \in Nat :
                 n <= c.target /\ j <= BpsDenominator /\ x <= BpsDenominator - 1
                     => Fits(n * j + x)
<1>1. /\ c.y0 \in Nat /\ c.r0 \in Nat /\ c.target \in Nat
      /\ Fits(c.y0) /\ Fits((c.r0 + c.target) * Wad) /\ Wad \in Nat \ {0}
      /\ Fits(c.target * BpsDenominator + (BpsDenominator - 1))
  BY CurvesAssumption, RoomAssumption DEF CurveRecord
<1> DEFINE all == c.r0 + c.target
<1>2. all \in Nat
  BY <1>1
<1> HIDE DEF all
<1>3. all * Wad \in Nat /\ Fits(all * Wad)
  BY <1>1, <1>2, MulNat DEF all
<1>4. ASSUME NEW n \in Nat, n <= all PROVE Fits(n * Wad) /\ n <= n * Wad /\ n * Wad \in Nat
  <2>1. n * Wad <= all * Wad /\ n * Wad \in Nat
    BY <1>1, <1>2, <1>4, MulMono, MulNat
  <2>2. Fits(n * Wad)
    BY <1>3, <2>1, FitsBelow
  <2>3. n <= n * Wad
    BY <1>1
  <2>4. QED
    BY <2>1, <2>2, <2>3
<1>5. ASSUME NEW n \in Nat, n <= all PROVE Fits(n)
  BY <1>4, <1>5, FitsBelow
<1>6. ASSUME NEW n \in Nat, NEW y \in Nat, n <= all, y # 0 PROVE Fits(MulDivDown(n, Wad, y))
  <2> DEFINE k == n * Wad
             q == k \div y
  <2>1. k \in Nat /\ Fits(k)
    BY <1>4, <1>6
  <2> HIDE DEF k
  <2>2. q \in Nat /\ k % y \in Nat /\ k = q * y + (k % y)
    <3>1. y \in Nat \ {0}
      BY <1>6
    <3>2. k \div y \in Nat /\ k % y \in 0 .. y - 1 /\ k = (k \div y) * y + (k % y)
      BY <2>1, <3>1, DivDef
    <3>3. QED
      BY <3>1, <3>2
  <2> HIDE DEF q
  <2>3. q <= q * y /\ q * y \in Nat
    BY <1>6, <2>2
  <2>4. q <= k
    BY <2>1, <2>2, <2>3
  <2>5. Fits(q)
    BY <2>1, <2>2, <2>4, FitsBelow
  <2>6. QED
    BY <2>5 DEF MulDivDown, q, k
<1>7. ASSUME NEW n \in Nat, NEW j \in Nat, NEW x \in Nat,
             n <= c.target, j <= BpsDenominator, x <= BpsDenominator - 1
      PROVE  Fits(n * j + x)
  <2>1. BpsDenominator \in Nat /\ BpsDenominator - 1 \in Nat
    BY DEF BpsDenominator
  <2>2. Fits(n * j + (BpsDenominator - 1))
    BY <1>1, <1>7, <2>1, FitsScaled
  <2>3. n * j \in Nat
    BY MulNat
  <2>4. n * j + x <= n * j + (BpsDenominator - 1)
    BY <1>7, <2>1, <2>3
  <2>5. QED
    BY <2>1, <2>2, <2>3, <2>4, FitsBelow
<1>8. QED
  BY <1>1, <1>5, <1>6, <1>7, FitsBelow DEF all

\* The price asked for tokens still in the curve is one that has room.
LEMMA PriceFits ==
    ASSUME NEW c \in Curves, NEW n \in 0 .. c.supply
    PROVE  /\ c.y0 - n \in Nat \ {0}
           /\ MulDivUp(c.r0, c.y0, c.y0 - n) \in Nat \ {0}
           /\ MulDivUp(c.r0, c.y0, c.y0 - n) <= c.r0 + c.target
           /\ Fits(SpotPriceAt(c, n))
<1>1. /\ c.r0 \in Nat \ {0} /\ c.r0 \in Nat /\ c.y0 \in Nat \ {0} /\ c.y0 \in Nat
      /\ c.supply \in Nat /\ c.target \in Nat /\ c.y0 - c.supply \in Nat \ {0}
      /\ MulDivUp(c.r0, c.y0, c.y0 - c.supply) = c.r0 + c.target
  BY CurvesAssumption, PlacedFigures
<1>2. /\ c.y0 - n \in Nat \ {0} /\ c.y0 - c.supply <= c.y0 - n
  BY <1>1
<1>3. MulDivUp(c.r0, c.y0, c.y0 - n) <= MulDivUp(c.r0, c.y0, c.y0 - c.supply)
  BY <1>1, <1>2, ReserveFalls
<1>4. MulDivUp(c.r0, c.y0, c.y0 - n) \in Nat \ {0}
  BY <1>1, <1>2, ReservePositive
<1>5. Fits(SpotPriceAt(c, n))
  BY <1>1, <1>2, <1>3, <1>4, RoomAt DEF SpotPriceAt, SpotPriceAtReserve, UsdcReserveAt
<1>6. QED
  BY <1>1, <1>2, <1>3, <1>4, <1>5

\* A position of a curve that may be launched is not refused.
LEMMA PositionStands ==
    ASSUME NEW c \in Curves, NEW r \in Nat, NEW s \in 0 .. c.supply, r >= c.r0
    PROVE  ~PositionReverts(c, r, s)
<1>1. /\ c.r0 \in Nat \ {0} /\ c.y0 \in Nat \ {0} /\ c.supply \in Nat /\ c.target \in Nat
      /\ c.y0 - s \in Nat \ {0}
      /\ MulDivUp(c.r0, c.y0, c.y0 - s) \in Nat \ {0}
      /\ MulDivUp(c.r0, c.y0, c.y0 - s) <= c.r0 + c.target
  BY CurvesAssumption, PlacedFigures, PriceFits
<1>2. Fits(UsdcReserveAt(c.r0, c.y0, c.y0 - s))
  BY <1>1, RoomAt DEF UsdcReserveAt
<1>3. ~(s >= c.y0) /\ ~(r < c.r0) /\ c.r0 # 0 /\ c.y0 # 0
  BY <1>1
<1>4. QED
  BY <1>2, <1>3 DEF PositionReverts

\* What a buy spends is what it keeps and its fee, and no more than was brought.
LEMMA GrossWithin ==
    ASSUME NEW c, NEW r, NEW s, OpenAt(c, r, s), NEW d \in Nat
    PROVE  /\ GrossSpent(c, r, s, d) \in 0 .. d
           /\ NetKept(c, r, s, d) <= GrossSpent(c, r, s, d)
<1> DEFINE cap == MaxNetIn(c, r, s)
           gross == GrossSpent(c, r, s, d)
<1>1. /\ cap \in Nat /\ c.feeBps \in 0 .. BpsDenominator - 1
      /\ c.feeBps \in Nat /\ c.feeBps <= BpsDenominator
      /\ AskedNet(c, d) \in Nat
  BY OpenFigures, NetKeptNat
<1>2. FeeUp(d, c.feeBps) \in 0 .. d
  BY <1>1, FeeWithinAmount
<1>3. CASE ~(AskedNet(c, d) > cap)
  BY <1>2, <1>3 DEF GrossSpent, NetKept, AskedNet
<1>4. CASE AskedNet(c, d) > cap
  <2>1. gross = GrossForNetUp(cap, c.feeBps) /\ NetKept(c, r, s, d) = cap
    BY <1>4 DEF GrossSpent, NetKept
  <2>2. gross \in Nat
    BY <1>1, <2>1, GrossNat
  <2>3. gross <= d
    <3>1. AskedNet(c, d) >= cap
      BY <1>1, <1>4
    <3>2. QED
      BY <1>1, <2>1, <3>1, GrossCoversNet DEF AskedNet
  <2>4. gross - FeeUp(gross, c.feeBps) >= cap
    <3>1. gross <= gross
      BY <2>2
    <3>2. QED
      BY <1>1, <2>1, <2>2, <3>1, GrossCoversNet
  <2>5. FeeUp(gross, c.feeBps) \in 0 .. gross
    BY <1>1, <2>2, FeeWithinAmount
  <2> HIDE DEF gross, cap
  <2>6. cap <= gross
    BY <1>1, <2>2, <2>4, <2>5
  <2>7. QED
    BY <2>1, <2>2, <2>3, <2>6 DEF gross
<1>5. QED
  BY <1>3, <1>4

\* Nor is any figure of a buy.
LEMMA BuyFits ==
    ASSUME NEW c \in Curves, NEW r, NEW s, OpenAt(c, r, s), NEW d \in BuySizes
    PROVE  ~BuyOverflows(c, r, s, QuoteBuy(c, r, s, d))
<1> DEFINE net == NetKept(c, r, s, d)
           gross == GrossSpent(c, r, s, d)
           q == QuoteBuy(c, r, s, d)
           y == c.y0 - s
           w == MulDivUp(c.r0, c.y0, y)
           t == q.tokensOut
<1>1. d \in Nat /\ Fits(d * BpsDenominator + (BpsDenominator - 1))
  BY SizesAssumption, RoomAssumption
<1>2. net \in Nat /\ net <= c.target - (r - c.r0) /\ net <= (c.r0 + c.target) - w
  <2>1. /\ net \in Nat /\ net <= MaxNetIn(c, r, s)
        /\ MaxNetIn(c, r, s) <= c.target - (r - c.r0)
        /\ MaxNetIn(c, r, s) <= (c.r0 + c.target) - w
    BY <1>1, NetKeptNat
  <2>2. /\ MaxNetIn(c, r, s) \in Nat /\ r \in Nat /\ c.r0 \in Nat /\ c.target \in Nat
        /\ w \in Nat
    BY OpenFigures DEF OpenAt
  <2> HIDE DEF net, w
  <2>3. QED
    BY <2>1, <2>2
<1>3. gross \in 0 .. d /\ net <= gross
  BY <1>1, GrossWithin
<1>4. q = BuyOf(c, r, s, net, gross, d - gross)
  BY BuyIsOf
<1>5. t \in Nat /\ t <= c.supply - s
  BY <1>2, <1>4, TokensTaken
<1>6. /\ q.fee = gross - net /\ q.refund = d - gross /\ q.newReserve = r + net
      /\ q.newSold = s + t /\ q.newPrice = SpotPriceAt(c, s + t)
  BY <1>4 DEF BuyOf
<1>7. /\ c.r0 \in Nat /\ c.target \in Nat /\ c.supply \in Nat /\ c.y0 \in Nat /\ s \in Nat
      /\ w \in Nat /\ r \in Nat /\ c.y0 - c.supply \in Nat \ {0}
  BY OpenFigures DEF OpenAt
<1>8. Fits(d)
  <2>1. d <= d * BpsDenominator + (BpsDenominator - 1)
    BY <1>1 DEF BpsDenominator
  <2>2. d * BpsDenominator + (BpsDenominator - 1) \in Nat
    BY <1>1 DEF BpsDenominator
  <2>3. QED
    BY <1>1, <2>1, <2>2, FitsBelow
<1> HIDE DEF net, gross, q, w, t
<1>9. Fits(q.fee) /\ Fits(q.refund)
  <2>1. q.fee \in Nat /\ q.fee <= d /\ q.refund \in Nat /\ q.refund <= d
    BY <1>1, <1>2, <1>3, <1>6
  <2>2. QED
    BY <1>1, <1>8, <2>1, FitsBelow
<1>10. Fits(w + (q.newReserve - r))
  <2>1. q.newReserve - r = net /\ w + net \in Nat /\ w + net <= c.r0 + c.target
    BY <1>2, <1>6, <1>7
  <2>2. QED
    BY <2>1, RoomAt
<1>11. Fits(q.newReserve)
  <2>1. q.newReserve \in Nat /\ q.newReserve <= c.r0 + c.target
    BY <1>2, <1>6, <1>7
  <2>2. QED
    BY <2>1, RoomAt
<1>12. Fits(t)
  <2>1. t <= c.y0
    BY <1>5, <1>7
  <2>2. QED
    BY <1>5, <2>1, RoomAt
<1>13. s + t \in 0 .. c.supply /\ ~(s + t >= c.y0)
  BY <1>5, <1>7
<1>14. Fits(q.newPrice)
  BY <1>6, <1>13, PriceFits
<1>15. QED
  <2>1. ~(q.newSold >= c.y0) /\ Fits(q.tokensOut)
    BY <1>6, <1>12, <1>13 DEF t
  <2>2. Fits(UsdcReserveAt(c.r0, c.y0, c.y0 - s) + (q.newReserve - r))
    BY <1>10 DEF w, UsdcReserveAt
  <2>3. ~BuyOverflows(c, r, s, q)
    BY <1>9, <1>11, <1>14, <2>1, <2>2, Zenon DEF BuyOverflows
  <2>4. QED
    BY <2>3 DEF q

\* A live curve refuses no buy.
LEMMA BuyStands ==
    ASSUME NEW c \in Curves, NEW r, NEW s, OpenAt(c, r, s), NEW d \in BuySizes
    PROVE  ~BuyReverts(c, r, s, d)
<1>1. d \in Nat /\ Fits(d * BpsDenominator + (BpsDenominator - 1))
  BY SizesAssumption, RoomAssumption
<1>2. /\ c.r0 \in Nat /\ c.target \in Nat /\ c.supply \in Nat /\ c.y0 \in Nat /\ s \in Nat
      /\ c.y0 - c.supply \in Nat \ {0} /\ Remaining(c, s) = c.supply - s
      /\ c.supply - s \in Nat \ {0}
      /\ c.feeBps \in 0 .. BpsDenominator - 1 /\ c.feeBps \in Nat
      /\ c.feeBps <= BpsDenominator
      /\ MulDivUp(c.r0, c.y0, c.y0 - c.supply) = c.r0 + c.target
      /\ MaxNetIn(c, r, s) \in Nat
      /\ r \in Nat /\ r - c.r0 \in 0 .. c.target - 1
  BY OpenFigures DEF OpenAt
<1>3. ~PositionReverts(c, r, s) /\ ~(r < c.r0)
  <2>1. s \in 0 .. c.supply /\ r >= c.r0 /\ ~(r < c.r0)
    BY <1>2
  <2>2. QED
    BY <1>2, <2>1, PositionStands
<1>4. ~(c.supply < s)
  BY <1>2
<1>5. /\ ~(Remaining(c, s) >= c.y0 - s)
      /\ Fits(UsdcReserveAt(c.r0, c.y0, c.y0 - s - Remaining(c, s)))
  <2>1. c.y0 - s - Remaining(c, s) = c.y0 - c.supply /\ ~(Remaining(c, s) >= c.y0 - s)
    BY <1>2
  <2>2. Fits(c.r0 + c.target)
    BY <1>2, RoomAt
  <2>3. QED
    BY <1>2, <2>1, <2>2 DEF UsdcReserveAt
<1>6. Fits(d * c.feeBps + (BpsDenominator - 1))
  <2>1. BpsDenominator \in Nat /\ BpsDenominator - 1 \in Nat /\ d <= d
    BY <1>1 DEF BpsDenominator
  <2>2. QED
    BY <1>1, <1>2, <2>1, FitsScaled
<1>7. ~(d < FeeUp(d, c.feeBps))
  <2>1. FeeUp(d, c.feeBps) \in 0 .. d
    BY <1>1, <1>2, FeeWithinAmount
  <2>2. QED
    BY <1>1, <2>1
<1>8. /\ ~(c.feeBps >= BpsDenominator)
      /\ Fits(MaxNetIn(c, r, s) * BpsDenominator + (BpsDenominator - c.feeBps - 1))
  <2>1. MaxNetIn(c, r, s) <= c.target
    <3>1. MaxNetIn(c, r, s) <= c.target - (r - c.r0)
      BY <1>1, NetKeptNat
    <3>2. QED
      BY <1>2, <3>1
  <2>2. /\ BpsDenominator - c.feeBps - 1 \in Nat /\ ~(c.feeBps >= BpsDenominator)
        /\ BpsDenominator - c.feeBps - 1 <= BpsDenominator - 1
        /\ BpsDenominator \in Nat /\ BpsDenominator <= BpsDenominator
    <3>1. \A b \in 0 .. BpsDenominator - 1 :
              /\ BpsDenominator - b - 1 \in Nat /\ ~(b >= BpsDenominator)
              /\ BpsDenominator - b - 1 <= BpsDenominator - 1
              /\ BpsDenominator \in Nat /\ BpsDenominator <= BpsDenominator
      BY DEF BpsDenominator
    <3>2. QED
      BY <1>2, <3>1
  <2>3. QED
    BY <1>2, <2>1, <2>2, RoomAt
<1>9. ~BuyOverflows(c, r, s, QuoteBuy(c, r, s, d))
  BY BuyFits
<1>10. QED
  BY <1>3, <1>4, <1>5, <1>6, <1>7, <1>8, <1>9 DEF BuyReverts

\* A live curve refuses no sell of tokens that are outstanding.
LEMMA SellStands ==
    ASSUME NEW c \in Curves, NEW r, NEW s, OpenAt(c, r, s), NEW t \in Nat, t <= s
    PROVE  ~SellReverts(c, r, s, t)
<1> DEFINE y == c.y0 - s
           w == MulDivUp(c.r0, c.y0, y)
           w1 == MulDivUp(c.r0, c.y0, y + t)
           q == QuoteSell(c, r, s, t)
<1>1. /\ c.r0 \in Nat \ {0} /\ c.r0 \in Nat /\ c.y0 \in Nat \ {0} /\ c.y0 \in Nat
      /\ c.target \in Nat /\ c.supply \in Nat /\ s \in Nat
      /\ y \in Nat \ {0} /\ w \in Nat \ {0} /\ c.supply - s \in Nat \ {0}
      /\ c.feeBps \in Nat /\ c.feeBps <= BpsDenominator
      /\ r \in Nat /\ r - c.r0 \in 0 .. c.target - 1 /\ r >= w
  BY OpenFigures DEF OpenAt
<1>2. /\ y + t \in Nat \ {0} /\ y <= y + t /\ y + t = c.y0 - (s - t)
      /\ s - t \in 0 .. c.supply /\ s \in 0 .. c.supply /\ y + t <= c.y0
  BY <1>1
<1>3. w1 \in Nat /\ w1 <= w
  BY <1>1, <1>2, ReserveFalls, MulDivUpCovers
<1>4. w1 >= c.r0 /\ w <= c.r0 + c.target
  <2>1. MulDivUp(c.r0, c.y0, c.y0) <= w1
    BY <1>1, <1>2, ReserveFalls
  <2>2. MulDivUp(c.r0, c.y0, c.y0) = c.r0
    BY CurvesAssumption, PlacedFigures
  <2>3. w <= c.r0 + c.target
    BY <1>2, PriceFits
  <2>4. QED
    BY <1>1, <1>3, <2>1, <2>2, <2>3
<1>5. q.gross = w - w1 /\ q.newReserve = r - q.gross /\ q.newPrice = SpotPriceAt(c, s - t)
  BY DEF QuoteSell, UsdcOutForTokensIn, UsdcReserveAt
<1>6. ~PositionReverts(c, r, s)
  <2>1. r >= c.r0
    BY <1>1
  <2>2. QED
    BY <1>1, <1>2, <2>1, PositionStands
<1>7. Fits(c.y0 - s + t)
  BY <1>2, RoomAt
<1> HIDE DEF q, w, w1
<1>8. q.gross \in Nat /\ q.gross <= c.target
  BY <1>1, <1>3, <1>4, <1>5
<1>9. Fits(q.gross)
  <2>1. q.gross <= c.r0 + c.target
    BY <1>1, <1>8
  <2>2. QED
    BY <1>8, <2>1, RoomAt
<1>10. Fits(q.gross * c.feeBps + (BpsDenominator - 1))
  <2>1. BpsDenominator - 1 \in Nat /\ BpsDenominator - 1 <= BpsDenominator - 1
    BY DEF BpsDenominator
  <2>2. QED
    BY <1>1, <1>8, <2>1, RoomAt
<1>11. Fits(q.newReserve)
  <2>1. q.newReserve \in Nat /\ q.newReserve <= c.r0 + c.target
    BY <1>1, <1>3, <1>5, <1>8
  <2>2. QED
    BY <2>1, RoomAt
<1>12. Fits(q.newPrice)
  BY <1>2, <1>5, PriceFits
<1>13. ~(s < t)
  BY <1>1
<1>14. QED
  BY <1>6, <1>7, <1>9, <1>10, <1>11, <1>12, <1>13 DEF SellReverts, SellOverflows, q

\* On a live curve whose figures have room no quote and no settlement trips a checked
\* operation: every buyer can buy, every holder of outstanding tokens can sell.
THEOREM NoQuoteReverts == Spec => []QuotesNeverRevert
<1>1. ASSUME IInv, ~graduated PROVE
          /\ \A d \in BuySizes : ~BuyReverts(curve, reserve, sold, d)
          /\ \A t \in SellSizes : t <= sold => ~SellReverts(curve, reserve, sold, t)
  <2>1. curve \in Curves /\ OpenAt(curve, reserve, sold)
    BY <1>1, StoredIsOpen DEF IInv, TypeOK
  <2>2. SellSizes \subseteq Nat
    BY SizesAssumption
  <2>3. QED
    BY <2>1, <2>2, BuyStands, SellStands
<1>2. IInv => QuotesNeverRevert
  BY <1>1 DEF QuotesNeverRevert
<1>3. QED
  BY <1>2, Invariant, PTL

-----------------------------------------------------------------------------
(* The crate's prices, of any snapshot a caller may make.                   *)

\* A launch with a first buy, or with none, which the crate prices as a buy of nothing.
LEMMA LaunchesAgreeAt ==
    ASSUME NEW c, AskedAt(c, c.r0, 0), NEW d \in Nat, Fits(d), NEW launchFee \in Nat
    PROVE  LaunchesAgree(c, launchFee, d)
<1> DEFINE buy == quote_buy(c, c.r0, 0, d)
           b == QuoteBuy(c, c.r0, 0, d)
           q == quote_launch(c, launchFee, d)
<1>1. (buy.ok <=> ~BuyReverts(c, c.r0, 0, d)) /\ (buy.ok => buy.value = b)
  BY BuysAgreeAt
<1>2. /\ q.ok = (buy.ok /\ add(launchFee, d) # Refused)
      /\ q.value = [ totalCost |-> add(launchFee, d), tokensOut |-> buy.value.tokensOut,
                     tradeFee |-> buy.value.fee ]
  BY DEF quote_launch
<1>3. add(launchFee, d) # Refused => add(launchFee, d) = launchFee + d
  BY AddIs
<1>4. d = 0 /\ buy.ok => b.tokensOut = 0 /\ b.fee = 0
  <2> SUFFICES ASSUME d = 0, buy.ok PROVE b.tokensOut = 0 /\ b.fee = 0
    OBVIOUS
  <2>1. c.feeBps \in Nat /\ c.feeBps <= BpsDenominator /\ c.supply \in Nat
    <3>1. \A n \in 0 .. BpsDenominator : n \in Nat /\ n <= BpsDenominator
      BY DEF BpsDenominator
    <3>2. QED
      BY <3>1 DEF AskedAt
  <2>2. AskedNet(c, d) = 0
    <3>1. FeeUp(0, c.feeBps) \in 0 .. 0
      BY <2>1, FeeWithinAmount
    <3>2. QED
      BY <3>1 DEF AskedNet
  <2>3. MaxNetIn(c, c.r0, 0) \in Nat
    <3>1. ~NoCost(c, 0)
      <4>1. ~BuyReverts(c, c.r0, 0, d)
        BY <1>1
      <4> HIDE DEF buy
      <4>2. QED
        BY <4>1 DEF BuyReverts, NoCost
    <3>2. QED
      BY <3>1, MaxNetInIs
  <2>4. ~(AskedNet(c, d) > MaxNetIn(c, c.r0, 0))
    BY <2>2, <2>3
  <2>5. NetKept(c, c.r0, 0, d) = 0 /\ GrossSpent(c, c.r0, 0, d) = 0
    BY <2>2, <2>4 DEF NetKept, GrossSpent
  <2>6. b = BuyOf(c, c.r0, 0, 0, 0, d - 0)
    BY <2>5, BuyIsOf
  <2>7. Least(0, c.supply - 0) = 0 /\ 0 - 0 = 0
    BY <2>1 DEF Least
  <2>8. QED
    BY <2>6, <2>7 DEF BuyOf
<1>5. QuoteLaunch(c, d, launchFee)
          = [ totalCost |-> launchFee + d,
              tokensOut |-> IF d = 0 THEN 0 ELSE b.tokensOut,
              tradeFee |-> IF d = 0 THEN 0 ELSE b.fee ]
  BY DEF QuoteLaunch
<1> HIDE DEF buy, b, q
<1>6. ASSUME q.ok PROVE q.value = QuoteLaunch(c, d, launchFee)
  <2>1. buy.ok /\ add(launchFee, d) # Refused
    BY <1>2, <1>6
  <2>2. buy.value = b /\ add(launchFee, d) = launchFee + d
    BY <1>1, <1>3, <2>1
  <2>3. QED
    BY <1>2, <1>4, <1>5, <2>1, <2>2
<1>7. LaunchReverts(c, d, launchFee)
          <=> ~Fits(launchFee + d) \/ (d # 0 /\ ~buy.ok)
  BY <1>1 DEF LaunchReverts
<1>8. add(launchFee, d) = Refused <=> ~Fits(launchFee + d)
  <2>1. add(launchFee, d) = IF Fits(launchFee + d) THEN launchFee + d ELSE Refused
    BY AddIs
  <2>2. launchFee + d \in Nat
    OBVIOUS
  <2>3. launchFee + d # Refused
    BY <2>2 DEF Refused
  <2>4. QED
    BY <2>1, <2>3
<1>9. QED
  BY <1>2, <1>6, <1>7, <1>8 DEF LaunchesAgree, q

\* The inverses, where the crate answers.
LEMMA InversesAgreeAt ==
    ASSUME NEW c, AskedAt(c, reserve, sold), NEW n \in Nat
    PROVE  InversesAgree(c, n)
<1> DEFINE y == c.y0 - sold
           w == MulDivUp(c.r0, c.y0, y)
<1>1. /\ c.r0 \in Nat \ {0} /\ c.r0 \in Nat /\ c.y0 \in Nat \ {0} /\ c.y0 \in Nat
      /\ y \in Nat \ {0} /\ Fits(w)
  BY DEF AskedAt
<1>2. w \in Nat \ {0} /\ usdc_reserve_at(c.r0, c.y0, y) = w
  BY PositionIs
<1>3. Agrees(usdc_in_for_tokens_out(c.r0, c.y0, y, n), UsdcInForTokensOut(c.r0, c.y0, y, n))
  BY TokensCostIs DEF Agrees
<1>4. Agrees(token_reserve_at(c.r0, c.y0, n), TokenReserveAt(c.r0, c.y0, n))
  <2>1. CASE n = 0
    BY <2>1 DEF token_reserve_at, Agrees
  <2>2. CASE n # 0
    <3>1. token_reserve_at(c.r0, c.y0, n) = mul_div_up(c.r0, c.y0, n)
      BY <1>1, <2>2 DEF token_reserve_at
    <3>2. mul_div_up(c.r0, c.y0, n) \in {MulDivUp(c.r0, c.y0, n), Refused}
      BY <1>1, <2>2, MulDivUpIs
    <3>3. QED
      BY <3>1, <3>2 DEF Agrees, TokenReserveAt
  <2>3. QED
    BY <2>1, <2>2
<1>5. Agrees(tokens_in_for_usdc_out(c.r0, c.y0, y, n), TokensInForUsdcOut(c.r0, c.y0, y, n))
  <2>1. /\ UsdcReserveAt(c.r0, c.y0, y) = w
        /\ TokensInForUsdcOut(c.r0, c.y0, y, n)
             = IF n = 0 THEN 0 ELSE MulDivUp(c.r0, c.y0, w - n) - y
    BY DEF UsdcReserveAt, TokensInForUsdcOut
  <2>2. CASE n >= w
    <3>1. tokens_in_for_usdc_out(c.r0, c.y0, y, n) = Refused
      <4> HIDE DEF w
      <4>1. ~(n < w)
        BY <1>2, <2>2
      <4>2. QED
        BY <1>2, <2>2, <4>1 DEF tokens_in_for_usdc_out
    <3>2. QED
      BY <3>1 DEF Agrees
  <2>3. CASE n < w /\ n = 0
    <3>1. ~(n >= w)
      BY <1>2, <2>3
    <3>2. tokens_in_for_usdc_out(c.r0, c.y0, y, n) = 0
      <4> HIDE DEF w
      <4>1. QED
        BY <1>2, <2>3, <3>1 DEF tokens_in_for_usdc_out
    <3>3. QED
      BY <2>1, <2>3, <3>2 DEF Agrees
  <2>4. CASE n < w /\ n # 0
    <3> DEFINE v == MulDivUp(c.r0, c.y0, w - n)
    <3>1. w - n \in Nat \ {0} /\ ~(n >= w) /\ w - n <= w
      BY <1>2, <2>4
    <3>2. tokens_in_for_usdc_out(c.r0, c.y0, y, n) = sub(mul_div_up(c.r0, c.y0, w - n), y)
      <4> HIDE DEF w
      <4>1. QED
        BY <1>2, <2>4, <3>1 DEF tokens_in_for_usdc_out
    <3>3. mul_div_up(c.r0, c.y0, w - n) = IF Fits(v) THEN v ELSE Refused
      BY <1>1, <3>1, MulDivUpIs
    <3>4. v \in Nat
      BY <1>1, <3>1, MulDivUpCovers
    <3> HIDE DEF v, w
    <3>5. CASE Fits(v)
      <4>1. sub(v, y) \in {v - y, Refused}
        BY <1>1, <3>4, <3>5, SubIs
      <4>2. QED
        BY <2>1, <2>4, <3>2, <3>3, <3>5, <4>1 DEF Agrees, v
    <3>6. CASE ~Fits(v)
      BY <3>2, <3>3, <3>6, RefusedPasses DEF Agrees
    <3>7. QED
      BY <3>5, <3>6
  <2>5. QED
    BY <1>2, <2>2, <2>3, <2>4
<1>6. QED
  BY <1>3, <1>4, <1>5 DEF InversesAgree

\* The progress shown, where the crate shows any.
LEMMA ProgressAgreesAt ==
    ASSUME NEW c, NEW r, NEW s, AskedAt(c, r, s)
    PROVE  Agrees(progress_bps(c, r), ProgressBps(c, r))
<1> DEFINE real == r - c.r0
           k == real * BpsDenominator
           q == k \div c.target
<1>1. c.target \in Nat /\ real \in Nat /\ sub(r, c.r0) = real
  BY PositionIs DEF AskedAt
<1>2. progress_bps(c, r) = Least(div(mul(real, BpsDenominator), c.target), BpsDenominator)
  BY <1>1 DEF progress_bps
<1>3. ProgressBps(c, r) = IF c.target = 0 \/ real >= c.target THEN BpsDenominator ELSE q
  BY DEF ProgressBps
<1>4. k \in Nat /\ BpsDenominator \in Nat
  BY <1>1 DEF BpsDenominator
<1>5. mul(real, BpsDenominator) = IF Fits(k) THEN k ELSE Refused
  BY <1>1, <1>4, MulIs
<1> HIDE DEF real
<1>6. Least(Refused, BpsDenominator) = Refused
  BY DEF Least, Refused, BpsDenominator
<1>7. CASE c.target = 0 \/ ~Fits(k)
  <2>1. div(mul(real, BpsDenominator), c.target) = Refused
    BY <1>5, <1>7 DEF div
  <2>2. QED
    BY <1>2, <1>6, <2>1 DEF Agrees
<1>8. CASE c.target # 0 /\ Fits(k)
  <2> HIDE DEF k
  <2>1. k # Refused /\ c.target # Refused /\ c.target \in Nat \ {0}
    BY <1>1, <1>4, <1>8 DEF Refused
  <2>2. div(k, c.target) = q
    BY <1>8, <2>1 DEF div
  <2>3. q \in Nat /\ k % c.target \in 0 .. c.target - 1 /\ k = q * c.target + (k % c.target)
    BY <1>4, <2>1, DivDef
  <2>4. progress_bps(c, r) = Least(q, BpsDenominator)
    BY <1>2, <1>5, <1>8, <2>2
  <2> HIDE DEF q
  <2>5. CASE real >= c.target
    <3>1. c.target * BpsDenominator <= k
      BY <1>1, <1>4, <2>5, MulMono DEF k
    <3>2. ASSUME q + 1 <= BpsDenominator PROVE FALSE
      <4>1. (q + 1) * c.target <= BpsDenominator * c.target
        <5>1. q + 1 \in Nat
          BY <2>3
        <5>2. QED
          BY <1>1, <1>4, <3>2, <5>1, MulMono
      <4>2. (q + 1) * c.target = q * c.target + c.target
        <5>1. \A a, b \in Nat : (a + 1) * b = a * b + b
          OBVIOUS
        <5>2. QED
          BY <1>1, <2>3, <5>1
      <4>3. BpsDenominator * c.target = c.target * BpsDenominator
        BY <1>1, <1>4
      <4>4. q * c.target \in Nat /\ c.target * BpsDenominator \in Nat
        BY <1>1, <1>4, <2>3, MulNat
      <4>5. QED
        BY <1>1, <1>4, <2>1, <2>3, <3>1, <4>1, <4>2, <4>3, <4>4
    <3>3. BpsDenominator <= q
      BY <1>4, <2>3, <3>2
    <3>4. Least(q, BpsDenominator) = BpsDenominator
      BY <1>4, <2>3, <3>3 DEF Least
    <3>5. QED
      BY <1>3, <2>4, <2>5, <3>4 DEF Agrees
  <2>6. CASE ~(real >= c.target)
    <3>1. Least(q, BpsDenominator) = q
      <4>1. ASSUME BpsDenominator + 0 <= q PROVE FALSE
        <5>1. BpsDenominator * c.target <= q * c.target
          BY <1>1, <1>4, <2>3, <4>1, MulMono
        <5>2. real * BpsDenominator < c.target * BpsDenominator
          <6>1. real + 1 \in Nat /\ real + 1 <= c.target
            BY <1>1, <2>6
          <6>2. (real + 1) * BpsDenominator <= c.target * BpsDenominator
            BY <1>1, <1>4, <6>1, MulMono
          <6>3. (real + 1) * BpsDenominator = real * BpsDenominator + BpsDenominator
            <7>1. \A a, b \in Nat : (a + 1) * b = a * b + b
              OBVIOUS
            <7>2. QED
              BY <1>1, <1>4, <7>1
          <6>4. real * BpsDenominator \in Nat /\ c.target * BpsDenominator \in Nat
            BY <1>1, <1>4, MulNat
          <6>5. QED
            BY <6>2, <6>3, <6>4 DEF BpsDenominator
        <5>3. BpsDenominator * c.target = c.target * BpsDenominator
          BY <1>1, <1>4
        <5>4. q * c.target \in Nat /\ c.target * BpsDenominator \in Nat
          BY <1>1, <1>4, <2>3, MulNat
        <5>5. QED
          BY <1>4, <2>1, <2>3, <5>1, <5>2, <5>3, <5>4 DEF k
      <4>2. q < BpsDenominator
        BY <1>4, <2>3, <4>1
      <4>3. QED
        BY <4>2 DEF Least
    <3>2. QED
      BY <1>3, <1>8, <2>4, <2>6, <3>1 DEF Agrees
  <2>7. QED
    BY <2>5, <2>6
<1>9. QED
  BY <1>7, <1>8

\* Every snapshot of a position the curve comes to is a position that may be asked at.
LEMMA SnapshotIsAsked ==
    ASSUME IInv, NEW c \in Snapshots
    PROVE  AskedAt(c, reserve, sold) /\ AskedAt(c, c.r0, 0)
<1>1. /\ curve \in Curves /\ sold \in 0 .. curve.supply /\ reserve \in Nat
      /\ reserve >= ReserveAt(TokenReserve) /\ Real <= curve.target
  BY DEF IInv, TypeOK, Solvent, Capped
<1>2. /\ curve.r0 \in Nat \ {0} /\ curve.r0 \in Nat /\ curve.y0 \in Nat \ {0}
      /\ curve.y0 \in Nat /\ curve.supply \in Nat \ {0} /\ curve.target \in Nat \ {0}
      /\ curve.y0 - curve.supply \in Nat \ {0}
      /\ curve.feeBps \in 0 .. BpsDenominator - 1
  BY <1>1, CurveFigures
<1> DEFINE sup == c.supply
           tgt == c.target
           fee == c.feeBps
<1>3. /\ c.r0 = curve.r0 /\ c.y0 = curve.y0
      /\ sup \in {curve.supply} \cup OddSupplies
      /\ tgt \in {curve.target} \cup OddTargets
      /\ fee \in {curve.feeBps} \cup OddFees
  BY DEF Snapshots
<1>4. \A n \in 0 .. U256Max : n \in Nat /\ Fits(n)
  BY U256Assumption DEF Fits
<1>5. Fits(curve.y0) /\ Fits(curve.supply)
  <2>1. curve.y0 <= curve.y0 /\ curve.supply <= curve.y0
    BY <1>2
  <2>2. QED
    BY <1>1, <1>2, <2>1, RoomAt
<1>6. sup \in Nat /\ Fits(sup)
  BY <1>2, <1>3, <1>4, <1>5, OddAssumption
<1>7. tgt \in Nat
  BY <1>2, <1>3, <1>4, OddAssumption
<1>8. fee \in 0 .. BpsDenominator
  <2>1. \A n \in 0 .. BpsDenominator - 1 : n \in 0 .. BpsDenominator
    BY DEF BpsDenominator
  <2>2. QED
    BY <1>2, <1>3, <2>1, OddAssumption
<1>9. Fits(BpsDenominator) /\ Wad \in Nat
  <2>1. /\ Wad \in Nat /\ Fits(curve.target * BpsDenominator + (BpsDenominator - 1))
    BY <1>1, RoomAssumption
  <2>2. /\ BpsDenominator <= curve.target * BpsDenominator + (BpsDenominator - 1)
        /\ curve.target * BpsDenominator + (BpsDenominator - 1) \in Nat
        /\ BpsDenominator \in Nat
    <3>1. curve.target \in Nat \ {0}
      BY <1>2
    <3>2. \A t \in Nat \ {0} : /\ BpsDenominator <= t * BpsDenominator + (BpsDenominator - 1)
                               /\ t * BpsDenominator + (BpsDenominator - 1) \in Nat
      BY DEF BpsDenominator
    <3>3. QED
      BY <3>1, <3>2, BpsCompared, Zenon
  <2>3. QED
    BY <2>1, <2>2, FitsBelow
<1>10. /\ ReserveAt(TokenReserve) \in Nat \ {0} /\ ReserveAt(TokenReserve) >= curve.r0
       /\ ReserveAt(TokenReserve) <= curve.r0 + curve.target
       /\ curve.y0 - sold \in Nat \ {0}
  BY <1>1, ReserveBetween DEF TokenReserve
<1>11. reserve >= curve.r0 /\ Fits(reserve)
  <2>1. reserve >= curve.r0 /\ reserve <= curve.r0 + curve.target
    BY <1>1, <1>2, <1>10 DEF Real
  <2>2. QED
    BY <1>1, <2>1, RoomAt
<1>12. Fits(MulDivUp(c.r0, c.y0, c.y0 - sold))
  <2>1. Fits(ReserveAt(TokenReserve))
    BY <1>1, <1>10, RoomAt
  <2>2. QED
    BY <1>3, <2>1 DEF ReserveAt, UsdcReserveAt, TokenReserve
<1>13. Fits(curve.r0)
  <2>1. curve.r0 <= curve.r0 + curve.target
    BY <1>2
  <2>2. QED
    BY <1>1, <1>2, <2>1, RoomAt
<1>14. Fits(MulDivUp(c.r0, c.y0, c.y0 - 0))
  <2>1. MulDivUp(curve.r0, curve.y0, curve.y0) = curve.r0
    BY <1>1, CurvesAssumption, PlacedFigures
  <2>2. curve.y0 - 0 = curve.y0
    BY <1>2
  <2>3. QED
    BY <1>3, <1>13, <2>1, <2>2
<1>15. AskedAt(c, reserve, sold)
  <2>1. sold \in Nat
    BY <1>1
  <2>2. QED
    BY <1>1, <1>2, <1>3, <1>5, <1>6, <1>7, <1>8, <1>9, <1>10, <1>11, <1>12, <2>1
       DEF AskedAt
<1>16. AskedAt(c, c.r0, 0)
  <2>1. 0 \in Nat /\ curve.y0 - 0 \in Nat \ {0} /\ curve.r0 >= curve.r0
    BY <1>2
  <2>2. QED
    BY <1>2, <1>3, <1>5, <1>6, <1>7, <1>8, <1>9, <1>13, <1>14, <2>1 DEF AskedAt
<1>17. QED
  BY <1>15, <1>16

\* The Rust crate and the TypeScript SDK refuse the same trades and price every other
\* one alike, at every position of a curve and whatever snapshot of it a caller makes,
\* sizes and figures of 256 bits included.
THEOREM ClientsPriceAlike == Spec => []CrateAgrees
<1>1. ASSUME IInv PROVE CrateAgrees
  <2>1. ASSUME NEW c \in Snapshots PROVE
            /\ \A d \in BuySizes \cup OddSizes : BuysAgree(c, d)
            /\ \A t \in SellSizes \cup OddSizes : SellsAgree(c, t)
            /\ \A fee \in LaunchFees, d \in OddSizes : LaunchesAgree(c, fee, d)
            /\ \A n \in OddSizes : InversesAgree(c, n)
            /\ Agrees(progress_bps(c, reserve), ProgressBps(c, reserve))
    <3>1. AskedAt(c, reserve, sold) /\ AskedAt(c, c.r0, 0)
      BY <1>1, SnapshotIsAsked
    <3>2. \A n \in OddSizes \cup LaunchFees : n \in Nat /\ Fits(n)
      BY OddAssumption DEF Fits
    <3>3. ASSUME NEW d \in BuySizes PROVE d \in Nat /\ Fits(d)
      <4>1. d \in Nat /\ Fits(d * BpsDenominator + (BpsDenominator - 1))
        BY SizesAssumption, RoomAssumption
      <4>2. /\ d <= d * BpsDenominator + (BpsDenominator - 1)
            /\ d * BpsDenominator + (BpsDenominator - 1) \in Nat
        BY <4>1 DEF BpsDenominator
      <4>3. QED
        BY <4>1, <4>2, FitsBelow
    <3>4. \A d \in BuySizes \cup OddSizes : BuysAgree(c, d)
      BY <3>1, <3>2, <3>3, BuysAgreeAt DEF BuysAgree
    <3>5. \A t \in SellSizes \cup OddSizes : SellsAgree(c, t)
      BY <3>1, <3>2, SizesAssumption, SellsAgreeAt DEF SellsAgree
    <3>6. \A fee \in LaunchFees, d \in OddSizes : LaunchesAgree(c, fee, d)
      BY <3>1, <3>2, LaunchesAgreeAt
    <3>7. \A n \in OddSizes : InversesAgree(c, n)
      BY <3>1, <3>2, InversesAgreeAt
    <3>8. Agrees(progress_bps(c, reserve), ProgressBps(c, reserve))
      BY <3>1, ProgressAgreesAt
    <3>9. QED
      BY <3>4, <3>5, <3>6, <3>7, <3>8
  <2>2. QED
    BY <2>1 DEF CrateAgrees
<1>2. QED
  BY <1>1, Invariant, PTL
=============================================================================
