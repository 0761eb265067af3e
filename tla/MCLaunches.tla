----------------------------- MODULE MCLaunches -----------------------------
(* Two templates of one curve, of which the smaller graduates with buys the *)
(* larger does not, and plans of up to three calls, each around one thing   *)
(* that can happen.                                                         *)
EXTENDS LaunchClients

Template(supply) ==
    [ r0 |-> 3, y0 |-> 8, supply |-> supply, feeBps |-> 100,
      target |-> UsdcInForTokensOut(3, 8, 8, supply) ]
MCTemplates == {Template(3), Template(5)}

Launch(from, amount) ==
    [ client |-> "ts", kind |-> "launch", from |-> from, amount |-> amount, min |-> 0,
      capping |-> FALSE, maxFee |-> 0, gasLimit |-> 0 ]
OfCrate(call) == [call EXCEPT !.client = "crate"]
Collect(from) == [Launch(from, 0) EXCEPT !.kind = "collect"]
Capped(call, maxFee) == [call EXCEPT !.capping = TRUE, !.maxFee = maxFee]
WithGas(call, limit) == [call EXCEPT !.gasLimit = limit]

Plan(native, slotKnown, moving, calls) ==
    [native |-> native, slotKnown |-> slotKnown, moving |-> moving, calls |-> calls]

\* Launches of one account and of another while the fee moves, with fees collected.
Charging == Plan(TRUE, FALSE, {"fee"}, <<Launch("a", 0), Launch("b", 3), Collect("b")>>)
\* Two launches of one account, whose approves overwrite one another, with one of them
\* ready to pay a raised fee.
Approving == Plan(FALSE, FALSE, {"fee"}, <<Capped(Launch("a", 3), 2), Launch("a", 0)>>)
\* An account that may be blocked, on a network whose allowance slot is known.
Blocking ==
    Plan(FALSE, TRUE, {"blocked", "pushing"}, <<WithGas(Launch("a", 3), 4700000), Launch("b", 5)>>)
\* A launch that may graduate, while the template and the migrator move, with limits
\* of the caller's below the floor, at the floor, which is less than a migration takes
\* here, and at what it takes.
Graduating == Plan(TRUE, FALSE, {"template", "migrator"},
                   <<Launch("a", 4), WithGas(Launch("a", 12), 6200000)>>)
Refused == Plan(TRUE, FALSE, {"template", "migrator"},
                <<WithGas(Launch("a", 4), 6000000), WithGas(Launch("b", 12), 6250147)>>)
\* The same in an ERC-20 quote.
Pushing == Plan(FALSE, FALSE, {"template", "pushing"},
                <<WithGas(Launch("a", 4), 6200000), Launch("b", 12)>>)
\* A buy so large that its fee leaves the range of a uint256.
Overflowing == Plan(TRUE, FALSE, {}, <<Launch("a", 20000000)>>)

\* The crate's launches and fee collections: where the fee moves, with one of them
\* ready to pay a raised fee; with limits of the caller's and without, where the
\* template and the migrator move; in an ERC-20 quote, with the allowance slot known
\* and not; and beside the other client's, of whose approve it may use what is left.
CrateCharging ==
    Plan(TRUE, FALSE, {"fee"},
         <<OfCrate(Launch("a", 3)), OfCrate(Capped(Launch("b", 0), 2)), OfCrate(Collect("b"))>>)
CrateGraduating ==
    Plan(TRUE, FALSE, {"template", "migrator"},
         <<OfCrate(Launch("a", 4)), OfCrate(WithGas(Launch("a", 12), 6250147))>>)
CrateRefused ==
    Plan(TRUE, FALSE, {"template"},
         <<OfCrate(WithGas(Launch("a", 4), 6000000)), OfCrate(Launch("b", 20000000))>>)
CratePushing ==
    Plan(FALSE, FALSE, {"template", "pushing", "migrator"},
         <<OfCrate(WithGas(Launch("a", 4), 6200000)), OfCrate(Launch("b", 12))>>)
CrateBlocking ==
    Plan(FALSE, TRUE, {"blocked", "pushing"},
         <<OfCrate(WithGas(Launch("a", 3), 4700000)), Launch("a", 0)>>)

MCPlans ==
    {Charging, Approving, Blocking, Graduating, Refused, Pushing, Overflowing,
     CrateCharging, CrateGraduating, CrateRefused, CratePushing, CrateBlocking}
=============================================================================
