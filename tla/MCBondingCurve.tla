--------------------------- MODULE MCBondingCurve ---------------------------
(* Small curves for TLC: a steep one, two flat ones whose tokens are        *)
(* cheaper than one unit of quote (on the shorter of them the last buy could *)
(* afford more tokens than there are), and one with a fee of a quarter.     *)
EXTENDS CurveInverses, CratePricing

MCCurve(r0, y0, supply, feeBps) ==
    [ r0 |-> r0, y0 |-> y0, supply |-> supply, feeBps |-> feeBps,
      target |-> UsdcInForTokensOut(r0, y0, y0, supply) ]

MCCurves ==
    { MCCurve(10, 20, 15, 100),
      MCCurve(3, 40, 33, 100),
      MCCurve(3, 40, 23, 100),
      MCCurve(7, 16, 12, 2500) }

MCBuySizes == 1 .. 45
MCSellSizes == 1 .. 33
MCAsked == 0 .. 8

\* A snapshot may be of a curve that has sold out or may sell everything, whose
\* target is nothing or out of reach, or that charges nothing or nearly all.
MCOddSupplies == {0, 40}
MCOddTargets == {0, 900}
MCOddFees == {0, 9999}
\* Of a size that the fee alone takes past 256 bits, here about a million.
MCOddSizes == {0, 60, 120, 30000}
MCLaunchFees == {0, 7, 1000000}
=============================================================================
