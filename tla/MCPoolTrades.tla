---------------------------- MODULE MCPoolTrades ----------------------------
(* Plans of up to three calls by two accounts, each around one thing that    *)
(* can happen: 124 raw units are too few for a fee, 125 and 250 pay 1 and 2. *)
EXTENDS PoolClients

Call(kind, from, amount) ==
    [ kind |-> kind, via |-> "pool", from |-> from, to |-> from, amount |-> amount,
      min |-> 1, deadline |-> 1, curveOnly |-> FALSE, ofQuote |-> TRUE, after |-> 0,
      retry |-> FALSE, client |-> "ts", gas_limit |-> 0 ]
Crate(call) == [call EXCEPT !.client = "crate"]
Through(call) == [call EXCEPT !.via = "trade"]
Retried(call) == [Through(call) EXCEPT !.retry = TRUE]
To(call, a) == [call EXCEPT !.to = a]
WithReferrer(call) == [call EXCEPT !.curveOnly = TRUE]
After(call, i) == [call EXCEPT !.after = i]

Plan(native, quoteIs0, phase, moving, calls) ==
    [ native |-> native, quoteIs0 |-> quoteIs0, slotKnown |-> TRUE, reachable |-> TRUE,
      phase |-> phase, depth |-> 1000, moving |-> moving, calls |-> calls ]

\* Callers who try again while the token moves, one with a referrer.
Moving ==
    Plan(TRUE, TRUE, "trading", {"phase"},
         <<Retried(Call("buy", "a", 125)), Through(WithReferrer(Call("buy", "b", 125)))>>)
\* A recipient is named, and a sell that needs an allowance in the pool alone.
Naming ==
    Plan(TRUE, FALSE, "trading", {"phase"},
         <<Through(To(Call("buy", "a", 125), "b")), Call("approveTokens", "a", 500),
           After(Through(Call("sell", "a", 125)), 2)>>)
\* A handle asked for the accrued fee and a quote before there is a pool.
Early ==
    Plan(TRUE, TRUE, "trading", {"phase"},
         <<Call("accrued", "a", 0), Retried(Call("buy", "a", 250)),
           After(Through(Call("quoteBuy", "a", 125)), 1)>>)
\* Two buys in an ERC-20 quote while strangers' dust makes the hook owe fees, and
\* those who are paid trade elsewhere.
Accruing ==
    Plan(FALSE, FALSE, "migrated", {"dust", "recipient"},
         <<Call("buy", "a", 250), To(Call("buy", "b", 124), "a")>>)
\* A sell at a moving price with a deadline, and what it leaves accrued.
Selling ==
    Plan(FALSE, TRUE, "migrated", {"rate", "time"},
         <<Call("approveTokens", "a", 250), After([Call("sell", "a", 250) EXCEPT !.deadline = 0], 1),
           After(Call("distribute", "b", 0), 1)>>)
\* A buy, what it leaves accrued, and its distribution.
Distributing ==
    Plan(TRUE, FALSE, "migrated", {"dust", "recipient"},
         <<Call("buy", "a", 250), Call("distribute", "b", 0), Call("accrued", "a", 0)>>)
\* A distribution that is asked for while the token migrates, and of what is left then.
EarlyDistributing ==
    Plan(TRUE, TRUE, "trading", {"phase", "dust"}, <<Call("distribute", "a", 0)>>)
\* Quotes of both sides at a moving price, in both orientations.
Quoting(quoteIs0, native) ==
    Plan(native, quoteIs0, "migrated", {"rate"},
         <<Call("quoteBuy", "a", 250), Call("quoteSell", "a", 250), Through(Call("quoteSell", "b", 501))>>)
\* A pool that can fill neither side in full, on a network without a known slot.
Shallow ==
    [Plan(FALSE, TRUE, "migrated", {}, <<Call("buy", "a", 250), Call("quoteBuy", "b", 250),
                                         Call("approveTokens", "b", 200)>>)
     EXCEPT !.depth = 100, !.slotKnown = FALSE]
\* What is refused: a pool out of reach, another quote, nothing to trade; a
\* sell's quote names no quote to refuse.
Refused ==
    [Plan(TRUE, TRUE, "migrated", {}, <<Call("buy", "a", 125), Call("sell", "b", 0)>>)
     EXCEPT !.reachable = FALSE]
WrongQuote ==
    Plan(TRUE, TRUE, "migrated", {},
         <<[Call("buy", "a", 125) EXCEPT !.ofQuote = FALSE], Call("sell", "b", 125),
           [Call("quoteSell", "b", 125) EXCEPT !.ofQuote = FALSE]>>)

(* The same of the crate, beside the TypeScript client where both are told apart.   *)

CrateMoving ==
    Plan(TRUE, TRUE, "trading", {"phase"},
         <<Crate(Retried(Call("buy", "a", 125))),
           Crate(Through(WithReferrer(Call("buy", "b", 125))))>>)
CrateNaming ==
    Plan(TRUE, FALSE, "trading", {"phase"},
         <<Crate(Through(To(Call("buy", "a", 125), "b"))), Crate(Call("approveTokens", "a", 500)),
           Crate(After(Through(Call("sell", "a", 125)), 2))>>)
CrateEarly ==
    Plan(TRUE, TRUE, "trading", {"phase"},
         <<Crate(Call("accrued", "a", 0)), Crate(Retried(Call("buy", "a", 250))),
           Crate(After(Call("quoteBuy", "a", 125), 1))>>)
CrateAccruing ==
    Plan(FALSE, FALSE, "migrated", {"dust", "recipient"},
         <<Crate(Call("buy", "a", 250)), To(Call("buy", "b", 124), "a")>>)
CrateSelling ==
    Plan(FALSE, TRUE, "migrated", {"rate", "time"},
         <<Crate(Call("approveTokens", "a", 250)),
           Crate(After([Call("sell", "a", 250) EXCEPT !.deadline = 0, !.gas_limit = 2000000], 1)),
           Crate(After(Call("distribute", "b", 0), 1))>>)
CrateLimits ==
    Plan(TRUE, FALSE, "migrated", {"rate", "dust"},
         <<Crate([Call("buy", "a", 250) EXCEPT !.gas_limit = 200000]),
           Crate(Call("distribute", "b", 0)), Crate(Through(Call("sell", "b", 0)))>>)
CrateQuoting(quoteIs0, native) ==
    Plan(native, quoteIs0, "migrated", {"rate"},
         <<Crate(Call("quoteBuy", "a", 250)), Crate(Call("quoteSell", "a", 250)),
           Crate(Through(Call("quoteSell", "b", 501)))>>)
CrateShallow ==
    [Plan(FALSE, TRUE, "migrated", {}, <<Crate(Call("buy", "a", 250)), Crate(Call("quoteBuy", "b", 250)),
                                         Crate(Call("approveTokens", "b", 200))>>)
     EXCEPT !.depth = 100, !.slotKnown = FALSE]

MCPlans ==
    {Moving, Naming, Early, Accruing, Selling, Distributing, EarlyDistributing, Quoting(TRUE, TRUE),
     Quoting(FALSE, FALSE), Shallow, Refused, WrongQuote}
    \cup {CrateMoving, CrateNaming, CrateEarly, CrateAccruing, CrateSelling, CrateLimits,
          CrateQuoting(TRUE, TRUE), CrateQuoting(FALSE, FALSE), CrateShallow}
=============================================================================
