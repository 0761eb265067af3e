---------------------------- MODULE MCCurveCalls ----------------------------
(* A curve of five tokens that three small buys or one large one graduate,  *)
(* and plans of up to three calls of either client, each around one thing   *)
(* that can happen.                                                         *)
EXTENDS CurveClients

MCCurve ==
    [ r0 |-> 3, y0 |-> 8, supply |-> 5, feeBps |-> 100,
      target |-> UsdcInForTokensOut(3, 8, 8, 5) ]

Call(kind, from, amount) ==
    [ kind |-> kind, from |-> from, amount |-> amount, min |-> 0, deadline |-> 1,
      gasLimit |-> 0, to |-> from, after |-> 0 ]
Buy(from, amount) == [Call("buy", from, amount) EXCEPT !.min = 1]
Sell(from, amount) == Call("sell", from, amount)
Migrate(from) == Call("migrate", from, 0)
Withdraw(from, to) == [Call("withdraw", from, 0) EXCEPT !.to = to]
After(call, i) == [call EXCEPT !.after = i]
WithGas(call) == [call EXCEPT !.gasLimit = 8000000]
Until(call) == [call EXCEPT !.deadline = 0]

Plan(native, slotKnown, moving, blockable, calls) ==
    [ client |-> "ts", native |-> native, slotKnown |-> slotKnown, moving |-> moving,
      blockable |-> blockable, calls |-> calls ]

\* Two buys of one account and one of another, in an ERC-20 quote.
Approving == Plan(FALSE, TRUE, {}, {}, <<Buy("a", 3), Buy("a", 5), Buy("b", 3)>>)
\* A buy that graduates the curve while another one runs, on a network whose
\* allowance slot is not known, with fee pushes whose gas comes and goes.
Graduating ==
    Plan(FALSE, FALSE, {"pushing", "migrator"}, {}, <<Buy("a", 3), WithGas(Buy("b", 12))>>)
\* A sell between two buys, with an account that may be blocked and a deadline.
Selling ==
    Plan(FALSE, TRUE, {"time"}, {"a"}, <<Until(Buy("a", 3)), After(Sell("a", 2), 1), Buy("b", 3)>>)
\* A payout that is credited, and two attempts to withdraw it.
Deferring ==
    Plan(TRUE, FALSE, {}, {"a"},
         <<Buy("a", 4), After(Sell("a", 2), 1), After(Withdraw("a", "b"), 2)>>)
Racing ==
    Plan(TRUE, FALSE, {}, {"a"},
         <<Buy("a", 12), After(Withdraw("a", "b"), 1), After(Withdraw("a", "a"), 1)>>)
\* A sell that races the buy that ends trading.
Closing ==
    Plan(TRUE, FALSE, {}, {}, <<Buy("a", 4), After(Sell("a", 2), 1), After(Buy("b", 12), 1)>>)
\* A graduating buy at the bare estimate, and two who call migrate().
Stranding ==
    Plan(TRUE, FALSE, {"migrator"}, {}, <<Buy("a", 12), Migrate("a"), Migrate("b")>>)
\* The same with a gas limit, and nothing to trade but dust.
Instant ==
    Plan(TRUE, FALSE, {"migrator"}, {}, <<WithGas(Buy("a", 12)), Migrate("b"), Buy("b", 0)>>)

-----------------------------------------------------------------------------
(* The crate's calls.                                                       *)
Crate(p) == [p EXCEPT !.client = "crate"]

\* Two buys of one account in an ERC-20 quote, side by side, and one of another.
Sharing == Crate(Plan(FALSE, TRUE, {}, {}, <<Buy("a", 3), Buy("a", 4), Buy("b", 3)>>))
\* One account after another refusal: a floor that is missed, a deadline that passes.
Refusing ==
    Crate(Plan(TRUE, TRUE, {"time"}, {},
               <<Until(Buy("a", 3)), After(Buy("a", 4), 1), Buy("b", 12)>>))
\* The same with a limit, so that nothing is estimated and it reverts in its block.
Reverting ==
    Crate(Plan(TRUE, TRUE, {"time"}, {},
               <<Until(WithGas(Buy("a", 3))), After(Sell("a", 1), 1), Buy("b", 3)>>))
\* A graduating ERC-20 buy with a large limit, and a sell.
Outgrowing ==
    Crate(Plan(FALSE, FALSE, {"time"}, {"a"},
               <<Until(Buy("a", 3)), After(Sell("a", 1), 1), WithGas(Buy("b", 12))>>))
Migrating ==
    Crate(Plan(TRUE, TRUE, {}, {}, <<Buy("a", 12), After(Migrate("a"), 1), Migrate("b")>>))
\* A refund that is credited, and two withdraws of it.
Withdrawing == Crate([Racing EXCEPT !.slotKnown = TRUE])

MCPlans ==
    {Approving, Graduating, Selling, Deferring, Racing, Closing, Stranding, Instant,
     Sharing, Refusing, Reverting, Outgrowing, Migrating, Withdrawing}
ApprovingPlans == {Approving}
RacingPlans == {Racing}
=============================================================================
