---------------------------- MODULE CratePricing ----------------------------
(***************************************************************************)
(* The Rust crate's prices against the TypeScript SDK's.  Both say they    *)
(* mirror the curve's contracts to the unit; here both are asked for the   *)
(* same snapshot.  A snapshot is what a caller makes it, so the positions  *)
(* a curve comes to are asked about with other supplies, targets and fees. *)
(***************************************************************************)
EXTENDS BondingCurve, CrateMath

CONSTANTS
    OddSupplies, OddTargets, OddFees,   \* other figures a snapshot may hold
    OddSizes,                           \* sizes beyond the curve's, or of 256 bits
    LaunchFees

\* Of 256 bits like every figure of a snapshot, and a fee that is a share of the trade:
\* over the whole of it the crate refuses a sell that curve-math.ts pays less than nothing.
ASSUME OddAssumption ==
    /\ OddSupplies \cup OddTargets \cup OddSizes \cup LaunchFees \subseteq 0 .. U256Max
    /\ OddFees \subseteq 0 .. BpsDenominator

Snapshots ==
    [ r0 : {curve.r0}, y0 : {curve.y0},
      supply : {curve.supply} \cup OddSupplies,
      target : {curve.target} \cup OddTargets,
      feeBps : {curve.feeBps} \cup OddFees ]

\* A primitive of the crate answers what the other answers, unless it is refused.
Agrees(crate, other) == crate = Refused \/ crate = other

BuysAgree(c, d) ==
    LET q == quote_buy(c, reserve, sold, d)
    IN  /\ q.ok <=> ~BuyReverts(c, reserve, sold, d)
        /\ q.ok => q.value = QuoteBuy(c, reserve, sold, d)

SellsAgree(c, t) ==
    LET q == quote_sell(c, reserve, sold, t)
    IN  /\ q.ok <=> ~SellReverts(c, reserve, sold, t)
        /\ q.ok => q.value = QuoteSell(c, reserve, sold, t)

LaunchesAgree(c, fee, d) ==
    LET q == quote_launch(c, fee, d)
    IN  /\ q.ok => q.value = QuoteLaunch(c, d, fee) /\ ~LaunchReverts(c, d, fee)
        /\ d # 0 => (q.ok <=> ~LaunchReverts(c, d, fee))

InversesAgree(c, n) ==
    LET y == c.y0 - sold
    IN  /\ Agrees(usdc_in_for_tokens_out(c.r0, c.y0, y, n),
                  UsdcInForTokensOut(c.r0, c.y0, y, n))
        /\ Agrees(tokens_in_for_usdc_out(c.r0, c.y0, y, n),
                  TokensInForUsdcOut(c.r0, c.y0, y, n))
        /\ Agrees(token_reserve_at(c.r0, c.y0, n), TokenReserveAt(c.r0, c.y0, n))

\* The crate and the TypeScript SDK refuse the same trades and price the others
\* alike, figure by figure, so that a floor set by one is kept by the other
\* (curve_math.rs quote_buy, quote_sell, quote_launch and the inverses); the
\* progress they show differs only where the crate refuses to show any.
CrateAgrees ==
    \A c \in Snapshots :
        /\ \A d \in BuySizes \cup OddSizes : BuysAgree(c, d)
        /\ \A t \in SellSizes \cup OddSizes : SellsAgree(c, t)
        /\ \A fee \in LaunchFees, d \in OddSizes : LaunchesAgree(c, fee, d)
        /\ \A n \in OddSizes : InversesAgree(c, n)
        /\ Agrees(progress_bps(c, reserve), ProgressBps(c, reserve))
=============================================================================
