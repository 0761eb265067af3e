----------------------------- MODULE CurveChain -----------------------------
(***************************************************************************)
(* What the SDK meets on the chain: one curve, its quote token and its     *)
(* token, and what a transaction sent to them does.  The contracts are not *)
(* in the repository; they are modelled from how the SDK uses them: the    *)
(* reverts errors/messages.ts names, the events the receipts are read for, *)
(* and the numbers of curve-math.ts, which the curve settles at.           *)
(*                                                                         *)
(* A transaction is a record with the fields kind, from, amount, min,      *)
(* deadline, to and gas.  Outcome says, at a state of the chain, whether   *)
(* it reverts, the state it leaves, and the events in its receipt.         *)
(***************************************************************************)
EXTENDS CurveMath, FiniteSets

CONSTANTS
    Accounts,               \* who may hold quote and tokens
    Curve,                  \* the curve's immutable figures
    Funds,                  \* the quote each account starts with
    TradeGas,               \* the gas a buy or a sell needs
    PushGas,                \* what the fee pushes of an ERC-20 quote may add to it
    InstantMigrationGas     \* what the graduating buy's own migration needs

ASSUME ChainAssumption ==
    /\ IsFiniteSet(Accounts)
    /\ Curve \in CurveRecord
    /\ {Funds, TradeGas, PushGas, InstantMigrationGas} \subseteq Nat

Genesis ==
    [ reserve |-> Curve.r0, sold |-> 0, graduated |-> FALSE, migrated |-> FALSE,
      custody |-> 0, fees |-> 0, forwarded |-> 0,
      balance |-> [a \in Accounts |-> Funds],
      tokens |-> [a \in Accounts |-> 0],
      allowance |-> [a \in Accounts |-> 0],
      pending |-> [a \in Accounts |-> 0] ]

Chain ==
    [ reserve : Nat, sold : Nat, graduated : BOOLEAN, migrated : BOOLEAN,
      custody : Nat, fees : Nat, forwarded : Nat,
      balance : [Accounts -> Nat], tokens : [Accounts -> Nat],
      allowance : [Accounts -> Nat], pending : [Accounts -> Nat] ]

\* What changes around the curve: the accounts the quote's issuer blocks, whether
\* the migrator works, the time, and whether the fee pushes need their extra gas.
Surroundings ==
    [ blocked : SUBSET Accounts, migratorUp : BOOLEAN, time : 0 .. 1,
      pushing : BOOLEAN ]

NoEvents ==
    [ trade |-> FALSE, tokens |-> 0, quote |-> 0, fee |-> 0, refund |-> 0,
      graduated |-> FALSE, migrated |-> FALSE ]

Reverted(s) == [ok |-> FALSE, chain |-> s, events |-> NoEvents]
Mined(s, events) == [ok |-> TRUE, chain |-> s, events |-> events]

GasNeeded(native, e) == TradeGas + (IF ~native /\ e.pushing THEN PushGas ELSE 0)

\* A payout reaches the account, or is credited for it to withdraw.
Pay(s, e, account, amount) ==
    IF account \in e.blocked
    THEN [s EXCEPT !.pending[account] = @ + amount]
    ELSE [s EXCEPT !.balance[account] = @ + amount]

Forward(s) ==
    [s EXCEPT !.migrated = TRUE, !.forwarded = @ + s.custody, !.custody = 0]

\* An ERC-20 buy pulls what it spends; a native one brings all of it as its value.
Taken(native, tx, q) == IF native THEN tx.amount ELSE q.spent

\* What a buy must have besides a curve that still trades.
BuyUnpaid(s, e, native, tx, q) ==
    \/ s.balance[tx.from] < Taken(native, tx, q)
    \/ ~native /\ s.allowance[tx.from] < q.spent
    \/ ~native /\ tx.from \in e.blocked
    \/ tx.gas < GasNeeded(native, e)

BuyRefused(s, e, native, tx, q) ==
    \/ s.graduated
    \/ e.time > tx.deadline
    \/ BuyReverts(Curve, s.reserve, s.sold, tx.amount)
    \/ q.tokensOut < tx.min
    \/ BuyUnpaid(s, e, native, tx, q)

\* The graduating buy attempts the migration itself, and survives its failure.
MigratesAtOnce(e, native, tx, q) ==
    /\ q.graduates
    /\ e.migratorUp
    /\ tx.gas >= GasNeeded(native, e) + InstantMigrationGas

BuyFilled(s, native, tx, q) ==
    [s EXCEPT !.reserve = q.newReserve, !.sold = q.newSold,
              !.graduated = q.graduates,
              !.custody = @ + (q.spent - q.fee), !.fees = @ + q.fee,
              !.balance[tx.from] = @ - Taken(native, tx, q),
              !.allowance[tx.from] = IF native THEN @ ELSE @ - q.spent,
              !.tokens[tx.from] = @ + q.tokensOut]

BuySettled(s, e, native, tx, q) ==
    IF native
    THEN Pay(BuyFilled(s, native, tx, q), e, tx.from, q.refund)
    ELSE BuyFilled(s, native, tx, q)

BuyAtQuote(s, e, native, tx, q) ==
    IF BuyRefused(s, e, native, tx, q)
    THEN Reverted(s)
    ELSE Mined(IF MigratesAtOnce(e, native, tx, q)
               THEN Forward(BuySettled(s, e, native, tx, q))
               ELSE BuySettled(s, e, native, tx, q),
               [ trade |-> TRUE, tokens |-> q.tokensOut, quote |-> q.spent,
                 fee |-> q.fee, refund |-> IF native THEN q.refund ELSE 0,
                 graduated |-> q.graduates,
                 migrated |-> MigratesAtOnce(e, native, tx, q) ])

BuyOutcome(s, e, native, tx) ==
    BuyAtQuote(s, e, native, tx, QuoteBuy(Curve, s.reserve, s.sold, tx.amount))

\* A sell the curve will not fill on the terms it came with.
SellUnfilled(s, e, native, tx, q) ==
    \/ e.time > tx.deadline
    \/ SellReverts(Curve, s.reserve, s.sold, tx.amount)
    \/ q.quoteOut < tx.min
    \/ tx.gas < GasNeeded(native, e)

\* A sell reads no allowance.
SellRefused(s, e, native, tx, q) ==
    \/ s.graduated
    \/ s.tokens[tx.from] < tx.amount
    \/ SellUnfilled(s, e, native, tx, q)

SellFilled(s, tx, q) ==
    [s EXCEPT !.reserve = q.newReserve, !.sold = q.newSold,
              !.custody = @ - q.gross, !.fees = @ + q.fee,
              !.tokens[tx.from] = @ - tx.amount]

SellAtQuote(s, e, native, tx, q) ==
    IF SellRefused(s, e, native, tx, q)
    THEN Reverted(s)
    ELSE Mined(Pay(SellFilled(s, tx, q), e, tx.from, q.quoteOut),
               [NoEvents EXCEPT !.trade = TRUE, !.tokens = tx.amount,
                                !.quote = q.quoteOut, !.fee = q.fee])

SellOutcome(s, e, native, tx) ==
    SellAtQuote(s, e, native, tx, QuoteSell(Curve, s.reserve, s.sold, tx.amount))

MigrateOutcome(s, e) ==
    IF ~s.graduated \/ s.migrated \/ ~e.migratorUp
    THEN Reverted(s)
    ELSE Mined(Forward(s), [NoEvents EXCEPT !.migrated = TRUE, !.quote = s.custody])

WithdrawOutcome(s, e, tx) ==
    IF s.pending[tx.from] = 0 \/ tx.to \in e.blocked
    THEN Reverted(s)
    ELSE Mined([s EXCEPT !.pending[tx.from] = 0,
                         !.balance[tx.to] = @ + s.pending[tx.from]],
               [NoEvents EXCEPT !.quote = s.pending[tx.from]])

\* An approve sets the allowance; it does not add to it.
ApproveOutcome(s, e, tx) ==
    IF tx.from \in e.blocked
    THEN Reverted(s)
    ELSE Mined([s EXCEPT !.allowance[tx.from] = tx.amount], NoEvents)

Outcome(s, e, native, tx) ==
    CASE tx.kind = "buy"      -> BuyOutcome(s, e, native, tx)
      [] tx.kind = "sell"     -> SellOutcome(s, e, native, tx)
      [] tx.kind = "migrate"  -> MigrateOutcome(s, e)
      [] tx.kind = "withdraw" -> WithdrawOutcome(s, e, tx)
      [] tx.kind = "approve"  -> ApproveOutcome(s, e, tx)
=============================================================================
