----------------------------- MODULE CrateMath -----------------------------
(***************************************************************************)
(* The pricing functions of the Rust crate (curve_math.rs), under its own  *)
(* names.  Where the source returns a Result, these return the value or    *)
(* Refused; an operation on a refused operand is refused, as `?` has it.   *)
(* Unlike CurveMath, which gives the figures and the refusals apart, each  *)
(* step here checks its own result against 256 bits, as the crate does.    *)
(***************************************************************************)
EXTENDS CurveMath

Refused == -1

Checked(n) == IF Fits(n) THEN n ELSE Refused

add(a, b) == IF Refused \in {a, b} THEN Refused ELSE Checked(a + b)
sub(a, b) == IF Refused \in {a, b} THEN Refused ELSE Checked(a - b)
mul(a, b) == IF Refused \in {a, b} THEN Refused ELSE Checked(a * b)

\* U256's own division, which panics on a zero divisor.
div(a, d) == IF Refused \in {a, d} \/ d = 0 THEN Refused ELSE a \div d

\* The product is 512 bits wide, and only the quotient must fit.
mul_div_down(x, y, d) ==
    IF Refused \in {x, y, d} \/ d = 0 THEN Refused ELSE Checked((x * y) \div d)

mul_div_up(x, y, d) ==
    LET down == mul_div_down(x, y, d)
    IN  IF down = Refused \/ (x * y) % d = 0 THEN down ELSE Checked(down + 1)

fee_up(amount, bps) == div(add(mul(amount, bps), BpsDenominator - 1), BpsDenominator)

gross_for_net_up(net, bps) ==
    LET denominator == sub(BpsDenominator, bps)
    IN  div(add(mul(net, BpsDenominator), sub(denominator, 1)), denominator)

-----------------------------------------------------------------------------
(* The curve's primitives.                                                 *)

usdc_reserve_at(r0, y0, y) == IF 0 \in {r0, y0, y} THEN Refused ELSE mul_div_up(r0, y0, y)

token_reserve_at(r0, y0, v) == IF 0 \in {r0, y0, v} THEN Refused ELSE mul_div_up(r0, y0, v)

spot_price_at_reserve_wad(r0, y0, y) == mul_div_down(usdc_reserve_at(r0, y0, y), Wad, y)

tokens_out_for_usdc_in(r0, y0, y, d) ==
    sub(y, mul_div_up(r0, y0, add(usdc_reserve_at(r0, y0, y), d)))

usdc_out_for_tokens_in(r0, y0, y, t) ==
    sub(usdc_reserve_at(r0, y0, y), mul_div_up(r0, y0, add(y, t)))

usdc_in_for_tokens_out(r0, y0, y, t) ==
    IF t >= y THEN Refused
    ELSE sub(mul_div_up(r0, y0, y - t), usdc_reserve_at(r0, y0, y))

tokens_in_for_usdc_out(r0, y0, y, u) ==
    LET reserve == usdc_reserve_at(r0, y0, y)
    IN  CASE u >= reserve           -> Refused
          [] u < reserve /\ u = 0   -> 0
          [] OTHER                  -> sub(mul_div_up(r0, y0, reserve - u), y)

-----------------------------------------------------------------------------
(* Quotes of a snapshot: a curve's record c, with a position.              *)

token_reserve(c, sold) == sub(c.y0, sold)

progress_bps(c, reserve) ==
    Least(div(mul(sub(reserve, c.r0), BpsDenominator), c.target), BpsDenominator)

\* A mistake to check against: nothing saturates.
max_net_in_of_target(c, reserve, sold) == sub(c.target, sub(reserve, c.r0))

max_net_in(c, reserve, sold) ==
    LET real == sub(reserve, c.r0)
        remaining == Monus(c.supply, sold)
        inventory_cost ==
            usdc_in_for_tokens_out(c.r0, c.y0, token_reserve(c, sold), remaining)
    IN  CASE real = Refused                     -> Refused
          [] real # Refused /\ remaining = 0    -> 0
          [] OTHER                              -> Least(Monus(c.target, real), inventory_cost)

\* A quote is refused when any of its figures is.
Quoted(figures, quote) == [ok |-> Refused \notin figures, value |-> quote]

quote_buy(c, reserve, sold, usdc_in) ==
    LET fee_asked == fee_up(usdc_in, c.feeBps)
        net_asked == sub(usdc_in, fee_asked)
        cap == max_net_in(c, reserve, sold)
        capped == net_asked > cap
        net == IF capped THEN cap ELSE net_asked
        gross_used == IF capped THEN gross_for_net_up(net, c.feeBps) ELSE usdc_in
        fee == IF capped THEN sub(gross_used, net) ELSE fee_asked
        refund == sub(usdc_in, gross_used)
        bought == IF net = 0 THEN 0
                  ELSE tokens_out_for_usdc_in(c.r0, c.y0, token_reserve(c, sold), net)
        tokens_out == Least(bought, sub(c.supply, sold))
        new_reserve == add(reserve, net)
        new_sold == add(sold, tokens_out)
        new_price == spot_price_at_reserve_wad(c.r0, c.y0, sub(c.y0, new_sold))
    IN  Quoted({net_asked, cap, fee, refund, tokens_out, new_reserve, new_sold, new_price},
               [ tokensOut |-> tokens_out, fee |-> fee, spent |-> gross_used,
                 refund |-> refund, newReserve |-> new_reserve, newSold |-> new_sold,
                 newPrice |-> new_price,
                 graduates |-> sub(new_reserve, c.r0) >= c.target \/ new_sold >= c.supply ])

quote_sell(c, reserve, sold, tokens_in) ==
    LET y == token_reserve(c, sold)
        gross == usdc_out_for_tokens_in(c.r0, c.y0, y, tokens_in)
        fee == fee_up(gross, c.feeBps)
        quote_out == sub(gross, fee)
        new_reserve == sub(reserve, gross)
        new_sold == sub(sold, tokens_in)
        new_price == spot_price_at_reserve_wad(c.r0, c.y0, add(y, tokens_in))
    IN  Quoted({quote_out, new_reserve, new_sold, new_price},
               [ gross |-> gross, fee |-> fee, quoteOut |-> quote_out,
                 newReserve |-> new_reserve, newSold |-> new_sold, newPrice |-> new_price ])

\* Unlike quoteLaunch, this prices a launch without a first buy as a buy of nothing.
quote_launch(c, launch_fee, initial_buy) ==
    LET buy == quote_buy(c, c.r0, 0, initial_buy)
        total == add(launch_fee, initial_buy)
    IN  [ ok |-> buy.ok /\ total # Refused,
          value |-> [ totalCost |-> total, tokensOut |-> buy.value.tokensOut,
                      tradeFee |-> buy.value.fee ] ]
=============================================================================
