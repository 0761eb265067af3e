---------------------------- MODULE BondingCurve ----------------------------
(***************************************************************************)
(* One bonding curve traded over its life.  Every trade settles at the     *)
(* numbers curve-math.ts quotes for the curve's position at that moment    *)
(* ("the same code path settles the buy"), which become the position the   *)
(* next trade is priced from; the buy that graduates the curve is the last *)
(* trade there is.                                                         *)
(***************************************************************************)
EXTENDS CurveMath

CONSTANTS
    Curves,     \* the curves that may be launched
    BuySizes,   \* the amounts of quote a buyer may bring
    SellSizes   \* the amounts of tokens a holder may sell

ASSUME CurvesAssumption == Curves \subseteq {c \in CurveRecord : Placed(c)}

ASSUME SizesAssumption ==
    /\ BuySizes \subseteq Nat \ {0}
    /\ SellSizes \subseteq Nat \ {0}

\* What 256 bits have room for: the whole life of a curve, priced in wads and shared
\* out in basis points, and every buy there is.
ASSUME RoomAssumption ==
    /\ Wad \in Nat \ {0}
    /\ \A c \in Curves : /\ Fits(c.y0)
                        /\ Fits((c.r0 + c.target) * Wad)
                        /\ Fits(c.target * BpsDenominator + (BpsDenominator - 1))
    /\ \A d \in BuySizes : Fits(d * BpsDenominator + (BpsDenominator - 1))

VARIABLES
    curve,      \* the immutable figures of the curve, fixed at launch
    reserve,    \* virtualReserveWad
    sold,       \* tokensSoldWad
    graduated,
    vault       \* the quote that trades have put in and not taken out again

vars == <<curve, reserve, sold, graduated, vault>>

TokenReserve == curve.y0 - sold
Real == reserve - curve.r0
ReserveAt(y) == UsdcReserveAt(curve.r0, curve.y0, y)
BuyAt(d) == QuoteBuy(curve, reserve, sold, d)
SellAt(t) == QuoteSell(curve, reserve, sold, t)

Init ==
    /\ curve \in Curves
    /\ reserve = curve.r0
    /\ sold = 0
    /\ graduated = FALSE
    /\ vault = 0

\* The fee is taken off the input and leaves the curve; the rest stays.
Buy(d) ==
    /\ ~graduated
    /\ ~BuyReverts(curve, reserve, sold, d)
    /\ reserve' = BuyAt(d).newReserve
    /\ sold' = BuyAt(d).newSold
    /\ graduated' = BuyAt(d).graduates
    /\ vault' = vault + BuyAt(d).spent - BuyAt(d).fee
    /\ UNCHANGED curve

\* The payout and the fee both come out of the curve.
Sell(t) ==
    /\ ~graduated
    /\ t <= sold
    /\ ~SellReverts(curve, reserve, sold, t)
    /\ reserve' = SellAt(t).newReserve
    /\ sold' = SellAt(t).newSold
    /\ vault' = vault - SellAt(t).quoteOut - SellAt(t).fee
    /\ UNCHANGED <<curve, graduated>>

Next ==
    \/ \E d \in BuySizes : Buy(d)
    \/ \E t \in SellSizes : Sell(t)

Spec == Init /\ [][Next]_vars

-----------------------------------------------------------------------------
TypeOK ==
    /\ curve \in Curves
    /\ reserve \in Nat
    /\ sold \in 0 .. curve.supply
    /\ graduated \in BOOLEAN
    /\ vault \in Nat

\* Whatever trades came before, the curve can buy back every token it sold at
\* once and pay for all of them: no rounding along the way has eaten into what
\* the holders are owed (curve-math.ts, the directions of mulDivUp in a buy and
\* in a sell; types.ts, "a code path that takes tokens without paying does not
\* exist").
ExitCovered ==
    vault >= UsdcOutForTokensIn(curve.r0, curve.y0, TokenReserve, sold)

\* A curve graduates having collected its target to the wei, neither less
\* (selling out before the target) nor more (a last buy that overshoots).
CollectsTarget == graduated => Real = curve.target

\* A curve that still trades can still be bought: no sequence of trades leaves
\* dust of inventory that costs nothing, so that every buy is capped to nothing
\* and the curve can neither sell out nor reach its target.
NeverStuck == ~graduated => MaxNetIn(curve, reserve, sold) > 0

\* On a live curve no buy and no sell of tokens that are outstanding ever trips
\* a checked operation of curve-math.ts: every holder can sell and every buyer
\* can buy.
QuotesNeverRevert ==
    ~graduated =>
        /\ \A d \in BuySizes : ~BuyReverts(curve, reserve, sold, d)
        /\ \A t \in SellSizes : t <= sold => ~SellReverts(curve, reserve, sold, t)

\* On a curve that charges a fee, selling back at once what a buy just bought
\* returns less than the buy spent.
RoundTripLoses ==
    ~graduated /\ curve.feeBps > 0 =>
        \A d \in BuySizes :
            LET b == BuyAt(d)
            IN  b.spent > 0 =>
                    QuoteSell(curve, b.newReserve, b.newSold, b.tokensOut).quoteOut
                        < b.spent

\* Splitting a buy into two never buys more than one buy of the sum: there is no
\* rounding to be harvested by trading in small pieces.  Nor does a buy pay for more
\* than its fill: coming back with just what the first answer would spend gets the
\* same answer, without the refund, so that the buy that is capped at the end of the
\* curve pays the fee rate every buy pays.
SplittingNeverHelps ==
    ~graduated =>
        \A d \in BuySizes :
            LET b == BuyAt(d)
            IN  /\ b.spent > 0 => BuyAt(b.spent) = [b EXCEPT !.refund = 0]
                /\ ~b.graduates =>
                     \A e \in BuySizes :
                         b.tokensOut + QuoteBuy(curve, b.newReserve, b.newSold, e).tokensOut
                             <= BuyAt(d + e).tokensOut
=============================================================================
