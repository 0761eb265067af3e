----------------------------- MODULE LaunchChain -----------------------------
(***************************************************************************)
(* What a launch meets on the chain: the launchpad with the fees it has    *)
(* accrued, the quote the accounts hold and let the launchpad pull, and    *)
(* the curve each launch deploys.  The contracts are not in the            *)
(* repository; they are modelled from how launchpad.ts uses them and from  *)
(* the reverts errors/messages.ts names.                                   *)
(*                                                                         *)
(* The administrators' settings are in a record e: the launch fee of the   *)
(* quote, the platform's live curve template, and whether the migrator     *)
(* works, whom the quote's issuer blocks, whether fee pushes need gas.     *)
(***************************************************************************)
EXTENDS CurveMath

CONSTANTS
    Accounts,
    Templates,              \* the templates the platform may serve
    LaunchFees,             \* the fees the protocol may charge
    Funds,                  \* the quote each account starts with
    LaunchGas,              \* the least gas a launch succeeds with
    PushGas,                \* what the fee pushes of an ERC-20 quote may add to it
    InstantLaunchGas        \* the gas a launch needs to migrate a curve it graduates

ASSUME LaunchChainAssumption ==
    /\ Templates \subseteq {c \in CurveRecord : Placed(c)}
    /\ LaunchFees \subseteq Nat
    /\ {Funds, LaunchGas, PushGas, InstantLaunchGas} \subseteq Nat

Settings ==
    [ fee : LaunchFees, template : Templates, migratorUp : BOOLEAN,
      blocked : SUBSET Accounts, pushing : BOOLEAN ]

\* The curve of a call that has not launched one.
NoCurve ==
    [ launched |-> FALSE, fee |-> 0, tokens |-> 0, graduated |-> FALSE,
      migrated |-> FALSE, rescued |-> FALSE ]

CurveStates ==
    [ launched : BOOLEAN, fee : Nat, tokens : Int, graduated : BOOLEAN,
      migrated : BOOLEAN, rescued : BOOLEAN ]

Reverted(s) == [ok |-> FALSE, chain |-> s, curve |-> NoCurve, pushed |-> 0]

LaunchGasNeeded(native, e) == LaunchGas + (IF ~native /\ e.pushing THEN PushGas ELSE 0)

FirstBuy(e, tx) == QuoteBuy(e.template, e.template.r0, 0, tx.amount)

FirstBuyReverts(e, tx) ==
    tx.amount # 0 /\ BuyReverts(e.template, e.template.r0, 0, tx.amount)

UnpaidUnlessHeld(s, e, native, tx, total) ==
    \/ s.balance[tx.from] < total
    \/ tx.value # (IF native THEN total ELSE 0)
    \/ ~native /\ tx.from \in e.blocked

\* Exact payment, not at-least: as value in the native quote, pulled in another.
Unpaid(s, e, native, tx, total) ==
    \/ s.balance[tx.from] < total
    \/ native /\ tx.value # total
    \/ ~native /\ tx.value # 0
    \/ ~native /\ s.allowance[tx.from] < total
    \/ ~native /\ tx.from \in e.blocked

LaunchRefused(s, e, native, tx, q) ==
    \/ e.fee > tx.maxFee                            \* LaunchFeeAboveMaximum
    \/ FirstBuyReverts(e, tx)
    \/ q.tokensOut < tx.min
    \/ Unpaid(s, e, native, tx, q.totalCost)
    \/ tx.gas < LaunchGasNeeded(native, e)

GraduatesAtOnce(e, tx) == tx.amount # 0 /\ FirstBuy(e, tx).graduates

\* The migration is attempted under a bounded budget, and its failure is caught.
MigratesInLaunch(e, native, tx) ==
    /\ GraduatesAtOnce(e, tx)
    /\ e.migratorUp
    /\ tx.gas >= InstantLaunchGas + (IF ~native /\ e.pushing THEN PushGas ELSE 0)

\* The curve as the launch leaves it.
Deployed(e, native, tx, q) ==
    [ launched |-> TRUE, fee |-> e.fee, tokens |-> q.tokensOut,
      graduated |-> GraduatesAtOnce(e, tx),
      migrated |-> MigratesInLaunch(e, native, tx), rescued |-> FALSE ]

Refund(e, tx) == IF tx.amount = 0 THEN 0 ELSE FirstBuy(e, tx).refund

LaunchAtQuote(s, e, native, tx, q) ==
    IF LaunchRefused(s, e, native, tx, q)
    THEN Reverted(s)
    ELSE [ ok |-> TRUE,
           chain |-> [s EXCEPT !.accrued = @ + e.fee,
                               !.balance[tx.from] = @ - q.totalCost + Refund(e, tx),
                               !.allowance[tx.from] = IF native THEN @ ELSE @ - q.totalCost,
                               !.curves[tx.call] = Deployed(e, native, tx, q)],
           curve |-> Deployed(e, native, tx, q),
           pushed |-> 0 ]

LaunchOutcome(s, e, native, tx) ==
    LaunchAtQuote(s, e, native, tx, QuoteLaunch(e.template, tx.amount, e.fee))

CollectOutcome(s) ==
    IF s.accrued = 0
    THEN Reverted(s)
    ELSE [ ok |-> TRUE, chain |-> [s EXCEPT !.accrued = 0, !.pushed = @ + s.accrued],
           curve |-> NoCurve, pushed |-> s.accrued ]

\* An approve sets the allowance; it does not add to it.
ApproveOutcome(s, e, tx) ==
    IF tx.from \in e.blocked
    THEN Reverted(s)
    ELSE [ ok |-> TRUE, chain |-> [s EXCEPT !.allowance[tx.from] = tx.amount],
           curve |-> NoCurve, pushed |-> 0 ]

Outcome(s, e, native, tx) ==
    CASE tx.kind = "launch"  -> LaunchOutcome(s, e, native, tx)
      [] tx.kind = "collect" -> CollectOutcome(s)
      [] tx.kind = "approve" -> ApproveOutcome(s, e, tx)
=============================================================================
