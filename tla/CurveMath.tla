----------------------------- MODULE CurveMath -----------------------------
(***************************************************************************)
(* The constant-product bonding curve as curve-math.ts prices it: a quote  *)
(* reserve C(Y) = ceil(r0 * y0 / Y) over the token reserve Y = y0 - sold.  *)
(*                                                                         *)
(* A curve's immutable figures are one record c with the fields r0 and y0  *)
(* (the virtual reserves at launch), supply (the tokens it may sell),      *)
(* target (the real reserve it graduates at) and feeBps.  Its position is  *)
(* the stored virtual reserve and the tokens sold.  Every amount is a wad, *)
(* that is a natural number of the smallest unit.                          *)
(*                                                                         *)
(* The value operators compute with mathematical integers, as the bigints  *)
(* of the source do.  What the source refuses (a checked operation that    *)
(* leaves 0..U256Max, a zero reserve) is in the ...Reverts predicates.     *)
(***************************************************************************)
EXTENDS BasisPoints, U256

CONSTANT Wad    \* 10^18 in the source: the scale of a spot price

CurveRecord == [r0 : Nat, y0 : Nat, supply : Nat, target : Nat, feeBps : Nat]

Least(a, b) == IF a < b THEN a ELSE b
Monus(a, b) == IF a > b THEN a - b ELSE 0

-----------------------------------------------------------------------------
(* Rounding.                                                               *)

MulDivDown(x, y, d) == (x * y) \div d

MulDivUp(x, y, d) ==
    MulDivDown(x, y, d) + (IF (x * y) % d # 0 THEN 1 ELSE 0)

FeeDown(amount, bps) == (amount * bps) \div BpsDenominator

FeeUp(amount, bps) == (amount * bps + (BpsDenominator - 1)) \div BpsDenominator

GrossForNetDown(net, bps) == (net * BpsDenominator) \div (BpsDenominator - bps)

GrossForNetOver(net, bps) == (net * BpsDenominator) \div (BpsDenominator - bps) + 1

GrossForNetUp(net, bps) ==
    (net * BpsDenominator + (BpsDenominator - bps - 1)) \div (BpsDenominator - bps)

-----------------------------------------------------------------------------
(* The curve's primitives, for a curve with virtual reserves r0 and y0.    *)

UsdcReserveAt(r0, y0, y) == MulDivUp(r0, y0, y)

TokenReserveDown(r0, y0, v) == MulDivDown(r0, y0, v)

TokenReserveAt(r0, y0, v) == MulDivUp(r0, y0, v)

SpotPriceAtReserve(r0, y0, y) == MulDivDown(UsdcReserveAt(r0, y0, y), Wad, y)

TokensOutRoundedUp(r0, y0, y, d) == y - MulDivDown(r0, y0, UsdcReserveAt(r0, y0, y) + d)

TokensOutForUsdcIn(r0, y0, y, d) == y - MulDivUp(r0, y0, UsdcReserveAt(r0, y0, y) + d)

UsdcOutForTokensIn(r0, y0, y, t) == UsdcReserveAt(r0, y0, y) - MulDivUp(r0, y0, y + t)

UsdcInFromFloor(r0, y0, y, t) == MulDivUp(r0, y0, y - t) - MulDivDown(r0, y0, y)

UsdcInForTokensOut(r0, y0, y, t) == MulDivUp(r0, y0, y - t) - UsdcReserveAt(r0, y0, y)

TokensInForAnyUsdcOut(r0, y0, y, u) == MulDivUp(r0, y0, UsdcReserveAt(r0, y0, y) - u) - y

TokensInForUsdcOut(r0, y0, y, u) ==
    IF u = 0 THEN 0 ELSE MulDivUp(r0, y0, UsdcReserveAt(r0, y0, y) - u) - y

-----------------------------------------------------------------------------
(* Quotes at a position (reserve, sold) of the curve c.                    *)

Remaining(c, sold) == Monus(c.supply, sold)

Headroom(c, reserve) == Monus(c.target, reserve - c.r0)

MaxNetInForInventory(c, reserve, sold) ==
    UsdcInForTokensOut(c.r0, c.y0, c.y0 - sold, Remaining(c, sold))

MaxNetIn(c, reserve, sold) ==
    IF Remaining(c, sold) = 0
    THEN 0
    ELSE Least(Headroom(c, reserve),
               UsdcInForTokensOut(c.r0, c.y0, c.y0 - sold, Remaining(c, sold)))

SpotPriceAt(c, sold) == SpotPriceAtReserve(c.r0, c.y0, c.y0 - sold)

GraduatesPastTarget(c, reserve, sold) == reserve - c.r0 > c.target

Graduates(c, reserve, sold) == reserve - c.r0 >= c.target \/ sold >= c.supply

QuoteBuy(c, reserve, sold, usdcIn) ==
    LET netAsked == usdcIn - FeeUp(usdcIn, c.feeBps)
        cap == MaxNetIn(c, reserve, sold)
        capped == netAsked > cap
        net == IF capped THEN cap ELSE netAsked
        gross == IF capped THEN GrossForNetUp(cap, c.feeBps) ELSE usdcIn
        bought == IF net = 0
                  THEN 0
                  ELSE TokensOutForUsdcIn(c.r0, c.y0, c.y0 - sold, net)
        tokensOut == Least(bought, c.supply - sold)
    IN  [ tokensOut |-> tokensOut,
          fee |-> gross - net,
          spent |-> gross,
          refund |-> usdcIn - gross,
          newReserve |-> reserve + net,
          newSold |-> sold + tokensOut,
          newPrice |-> SpotPriceAt(c, sold + tokensOut),
          graduates |-> Graduates(c, reserve + net, sold + tokensOut) ]

QuoteSell(c, reserve, sold, tokensIn) ==
    LET gross == UsdcOutForTokensIn(c.r0, c.y0, c.y0 - sold, tokensIn)
        fee == FeeUp(gross, c.feeBps)
    IN  [ gross |-> gross,
          fee |-> fee,
          quoteOut |-> gross - fee,
          newReserve |-> reserve - gross,
          newSold |-> sold - tokensIn,
          newPrice |-> SpotPriceAt(c, sold - tokensIn) ]

\* What curve-template.ts says of a template: y0 is larger than the supply, and
\* r0 and y0 are placed so that selling the whole supply collects the target.
Placed(c) ==
    /\ c.r0 > 0
    /\ c.supply > 0
    /\ c.y0 > c.supply
    /\ c.target > 0
    /\ c.target = UsdcInForTokensOut(c.r0, c.y0, c.y0, c.supply)
    /\ c.feeBps < BpsDenominator

ProgressBps(c, reserve) ==
    IF c.target = 0 \/ reserve - c.r0 >= c.target
    THEN BpsDenominator
    ELSE ((reserve - c.r0) * BpsDenominator) \div c.target

\* The launch fee plus an ordinary buy into a fresh curve.
QuoteLaunch(c, initialBuy, launchFee) ==
    [ totalCost |-> launchFee + initialBuy,
      tokensOut |-> IF initialBuy = 0
                    THEN 0 ELSE QuoteBuy(c, c.r0, 0, initialBuy).tokensOut,
      tradeFee |-> IF initialBuy = 0
                   THEN 0 ELSE QuoteBuy(c, c.r0, 0, initialBuy).fee ]

-----------------------------------------------------------------------------
(* What the source refuses.                                                *)

PositionReverts(c, reserve, sold) ==
    \/ c.r0 = 0
    \/ c.y0 = 0
    \/ sold >= c.y0                                 \* the token reserve is 0
    \/ ~Fits(UsdcReserveAt(c.r0, c.y0, c.y0 - sold))

\* What the source checks of a trade's figures once it has them.
BuyOverflows(c, reserve, sold, q) ==
    \/ ~Fits(UsdcReserveAt(c.r0, c.y0, c.y0 - sold) + (q.newReserve - reserve))
    \/ ~Fits(q.fee)
    \/ ~Fits(q.refund)
    \/ ~Fits(q.tokensOut)
    \/ ~Fits(q.newReserve)
    \/ q.newSold >= c.y0
    \/ ~Fits(q.newPrice)

SellOverflows(c, q) ==
    \/ ~Fits(q.gross)
    \/ ~Fits(q.gross * c.feeBps + (BpsDenominator - 1))
    \/ ~Fits(q.newReserve)
    \/ ~Fits(q.newPrice)

BuyReverts(c, reserve, sold, usdcIn) ==
    \/ PositionReverts(c, reserve, sold)
    \/ reserve < c.r0                               \* real reserve underflows
    \/ c.supply < sold
    \/ /\ Remaining(c, sold) # 0
       /\ \/ Remaining(c, sold) >= c.y0 - sold
          \/ ~Fits(UsdcReserveAt(c.r0, c.y0, c.y0 - sold - Remaining(c, sold)))
    \/ ~Fits(usdcIn * c.feeBps + (BpsDenominator - 1))
    \/ usdcIn < FeeUp(usdcIn, c.feeBps)
    \/ /\ usdcIn - FeeUp(usdcIn, c.feeBps) > MaxNetIn(c, reserve, sold)
       /\ \/ c.feeBps >= BpsDenominator
          \/ ~Fits(MaxNetIn(c, reserve, sold) * BpsDenominator
                     + (BpsDenominator - c.feeBps - 1))
    \/ BuyOverflows(c, reserve, sold, QuoteBuy(c, reserve, sold, usdcIn))

SellReverts(c, reserve, sold, tokensIn) ==
    \/ PositionReverts(c, reserve, sold)
    \/ sold < tokensIn
    \/ ~Fits(c.y0 - sold + tokensIn)
    \/ SellOverflows(c, QuoteSell(c, reserve, sold, tokensIn))

LaunchReverts(c, initialBuy, launchFee) ==
    \/ ~Fits(launchFee + initialBuy)
    \/ initialBuy # 0 /\ BuyReverts(c, c.r0, 0, initialBuy)
=============================================================================
