--------------------------- MODULE CurveInverses ---------------------------
(***************************************************************************)
(* The pricing functions that answer "how much must I give to get ...",    *)
(* asked at every position a curve comes to.  Each answer is documented as *)
(* the least amount that will do; the definitions below say what "will do" *)
(* means with the forward functions.                                       *)
(***************************************************************************)
EXTENDS BondingCurve

CONSTANT Asked      \* the amounts asked about

ASSUME AskedAssumption == Asked \subseteq Nat

\* n is the least natural number with the property P.
IsLeast(n, P(_)) == n \in Nat /\ P(n) /\ \A m \in 0 .. n - 1 : ~P(m)

\* grossForNetUp is the smallest gross whose net after feeUp is at least the
\* net asked for (curve-math.ts:150-153), so a capped buy is charged no more
\* than its fill costs.
GrossIsSmallest(amount, bps) ==
    IsLeast(GrossForNetUp(amount, bps), LAMBDA g : g - FeeUp(g, bps) >= amount)

\* tokenReserveAt is the smallest token reserve whose quote reserve is at most
\* the amount (curve-math.ts:172).
TokenReserveIsSmallest(r0, y0, amount) ==
    amount > 0 =>
        IsLeast(TokenReserveAt(r0, y0, amount),
                LAMBDA m : m > 0 /\ UsdcReserveAt(r0, y0, m) <= amount)

\* usdcInForTokensOut is the least net quote that buys at least that many
\* tokens (curve-math.ts:206).
NetInIsLeast(r0, y0, y, amount) ==
    amount < y =>
        IsLeast(UsdcInForTokensOut(r0, y0, y, amount),
                LAMBDA d : TokensOutForUsdcIn(r0, y0, y, d) >= amount)

\* tokensInForUsdcOut is the least sell that pays at least that much gross
\* (curve-math.ts:220).
SellIsLeast(r0, y0, y, amount) ==
    amount < UsdcReserveAt(r0, y0, y) =>
        IsLeast(TokensInForUsdcOut(r0, y0, y, amount),
                LAMBDA t : UsdcOutForTokensIn(r0, y0, y, t) >= amount)

\* Wherever a curve has got to, whoever asks what an amount costs is told the
\* least that buys it: not a unit less, which would fail, nor a unit more.
InversesLeast ==
    \A amount \in Asked :
        /\ GrossIsSmallest(amount, curve.feeBps)
        /\ TokenReserveIsSmallest(curve.r0, curve.y0, amount)
        /\ NetInIsLeast(curve.r0, curve.y0, TokenReserve, amount)
        /\ SellIsLeast(curve.r0, curve.y0, TokenReserve, amount)
=============================================================================
