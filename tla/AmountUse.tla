----------------------------- MODULE AmountUse -----------------------------
(***************************************************************************)
(* A program that holds an amount of a quote and brings it through the      *)
(* SDK's conversions in any order: it reads it from a text, scales it,      *)
(* rounds it, takes shares of it and puts slippage floors under it, on the  *)
(* way from a form field to the argument of a transaction.                  *)
(***************************************************************************)
EXTENDS Amounts

CONSTANTS
    QuoteTokens,    \* the quotes in use
    Texts,          \* what may be typed
    Balances,       \* what may be read off the chain, in raw units
    Shares,         \* basis points taken of an amount
    MaxWad          \* the bound on amounts

ASSUME UseAssumption ==
    /\ \A token \in QuoteTokens : ValidQuoteToken(token) /\ token.isNative \in BOOLEAN
    /\ Texts \subseteq [decimal : BOOLEAN, negative : BOOLEAN,
                        whole : Nat, length : Nat, digits : Nat]
    /\ Balances \subseteq Nat
    /\ Shares \subseteq Nat
    /\ MaxWad \in Nat

VARIABLES
    held,   \* the amount
    error   \* whether the last conversion threw

vars == <<held, error>>

Held == { QuoteAmount(token, wad) : token \in QuoteTokens, wad \in 0 .. MaxWad }

Init ==
    /\ \E token \in QuoteTokens : held = QuoteAmount(token, 0)   \* QuoteAmount.zero
    /\ error = FALSE

\* A conversion that throws returns nothing, and the program keeps what it had.
Hold(a) ==
    /\ error' = (a = Refused)
    /\ IF a = Refused THEN held' = held ELSE a.wad <= MaxWad /\ held' = a

Enter == \E token \in QuoteTokens, text \in Texts : Hold(Parse(token, text))
Receive == \E token \in QuoteTokens, raw \in Balances : Hold(FromRaw(token, raw))
Whole == \E token \in QuoteTokens, whole \in Balances : Hold(FromWhole(token, whole))

Combine ==
    \E token \in QuoteTokens, raw \in {1, 2, 7} :
        LET b == FromRaw(token, raw) IN
        \/ Hold(Add(held, b))
        \/ Hold(Sub(held, b))
        \/ Hold(SubSaturating(held, b))

TakeShare == \E bps \in Shares : Hold(ApplyBps(bps, held))
SetFloor == \E bps \in Shares : Hold(MinOutFromQuote(held, bps))
Round == Hold(FloorToRepresentable(held)) \/ Hold(CeilToRepresentable(held))

\* Through the ERC-20 view of native USDC and back.
Narrow ==
    LET raw == ToErc20(held) IN
    Hold(IF raw = Refused THEN Refused ELSE ToNative(held.token, raw))

Next ==
    Enter \/ Receive \/ Whole \/ Combine \/ TakeShare \/ SetFloor \/ Round \/ Narrow

Spec == Init /\ [][Next]_vars

-----------------------------------------------------------------------------
\* Every amount in use is a number of wads of a quote that can be scaled.
TypeOK ==
    /\ held \in [token : QuoteTokens, wad : Nat]
    /\ error \in BOOLEAN

\* What toString shows of an amount, parse reads back as the same amount or
\* refuses: an amount with dust below a raw unit is shown with its dust
\* (amounts.ts:416-420), and typed again it is refused, never read as a
\* different amount (amounts.ts:94).
TextRoundTrip ==
    Parse(held.token, ToString(held)) = (IF IsRepresentable(held) THEN held ELSE Refused)

\* A floor is never loosened and never tightened on its way to the chain: the
\* raw minimum that pool.ts:1259 sends lets a payout through exactly when the
\* payout is at least the floor the caller set; and a floor that a tolerance
\* of at most 100% puts under a quote is one the quoted payout itself meets.
FloorsHold ==
    LET Sent(floor) == ToRaw(CeilToRepresentable(floor)) IN
    /\ \A raw \in 0 .. held.wad + 1 :
          raw >= Sent(held) <=> FromRaw(held.token, raw).wad >= held.wad
    /\ \A bps \in Shares :
          bps <= BpsDenominator /\ IsRepresentable(held)
            => ToRaw(held) >= Sent(MinOutFromQuote(held, bps))

\* The hook takes BuyFeeRaw of a sell's payout before the trader sees it.  The
\* fee a quote derives from what the trader sees (pool.ts:281-285) is within the
\* "one-unit tolerance" of that fee (pool.ts:279), and the payout derived from
\* the fee of a log (pool.ts:301-305) is "up to 124 raw units under the truth,
\* and no better" (pool.ts:298).
FeesRecovered ==
    LET gross == ToRaw(FloorToRepresentable(held))
        fee == BuyFeeRaw(gross)
    IN  /\ SellFeeRaw(gross - fee) \in fee - 1 .. fee + 1
        /\ SellOutRaw(fee) \in (gross - fee) - 124 .. gross - fee
=============================================================================
