----------------------------- MODULE CurveCalls -----------------------------
(***************************************************************************)
(* Calls of Curve.buy, sell, migrate and withdraw (curve.ts), running side *)
(* by side against one chain.  Every await of a call is a place where the  *)
(* other calls, other people's transactions and the world can move: a call *)
(* reads the allowance, simulates, estimates, signs, and waits for a       *)
(* receipt, and each of these sees the chain as it then is.  Transactions  *)
(* of one account are mined in the order they were sent (nonces), those of *)
(* different accounts in any order.                                        *)
(***************************************************************************)
EXTENDS CurveChain, GasHeadroom, Sequences, FiniteSets, FiniteSetsExt

CONSTANTS
    Plans,          \* the sets of calls that may be made
    MaxCalls,       \* the most calls a plan has
    MaxFailures     \* how many times an RPC may fail

\* What a caller asks for: gasLimit 0 is a limit left out, after 0 is at once.
Requests ==
    [ kind : {"buy", "sell", "migrate", "withdraw"}, from : Accounts, amount : Nat,
      min : Nat, deadline : Nat, gasLimit : Nat, to : Accounts, after : Nat ]

ASSUME PlansAssumption ==
    /\ Plans \subseteq [ client : {"ts", "crate"}, native : BOOLEAN, slotKnown : BOOLEAN,
                         moving : SUBSET {"time", "migrator", "pushing"},
                         blockable : SUBSET Accounts, calls : Seq(Requests) ]
    /\ \A p \in Plans : Len(p.calls) <= MaxCalls
    /\ {MaxCalls, MaxFailures} \subseteq Nat

\* What the fee pushes may add is within the headroom (quote-token.ts:82-85).
ASSUME HeadroomAssumption == PushGas <= QuoteTransferGasHeadroomMin

Transactions ==
    [ kind : {"buy", "sell", "migrate", "withdraw", "approve"}, from : Accounts,
      amount : Nat, min : Nat, deadline : Nat, to : Accounts, gas : Nat, call : Nat ]

VARIABLES
    plan,       \* the client, the calls made, and which of the surroundings may change
    chain,
    world,      \* the surroundings of the curve
    mempool,    \* for each account, its transactions sent and not yet mined
    receipts,   \* for each call, the receipts of its approve and its transaction
    pc,         \* where each call is
    gas,        \* the gas limit each call has settled on
    foreseen,   \* the result of the simulation each withdraw keeps
    result,     \* what each call that returned reported
    failures

vars == <<plan, chain, world, mempool, receipts, pc, gas, foreseen, result, failures>>

Calls == DOMAIN plan.calls
Request(c) == plan.calls[c]
Native == plan.native

Unlimited == 1000000000     \* maxUint256, and the gas of an unbounded call
NoReceipt == [mined |-> FALSE, ok |-> FALSE, events |-> NoEvents]
NoResult == [tokens |-> 0, quote |-> 0, refund |-> 0, graduated |-> FALSE,
             migrated |-> FALSE, migrationFailed |-> FALSE]

\* A call returns, throws, or throws for want of an answer to what it has sent: then
\* its caller cannot tell whether it happens, or has happened.
Final == {"done", "failed", "lost"}
Labels == {"idle", "allowance", "preflight", "simulateApprove", "sendApprove", "awaitApprove",
           "estimate", "simulate", "send", "await"} \cup Final

\* The transaction a call is after, as it would be sent with that gas limit.
Transaction(c, limit) ==
    [ kind |-> Request(c).kind, from |-> Request(c).from, amount |-> Request(c).amount,
      min |-> Request(c).min, deadline |-> Request(c).deadline, to |-> Request(c).to,
      gas |-> limit, call |-> c ]

ApprovalUnlimited(c) ==
    [ kind |-> "approve", from |-> Request(c).from, amount |-> Unlimited,
      min |-> 0, deadline |-> 0, to |-> Request(c).from, gas |-> Unlimited, call |-> c ]

Approval(c) ==
    [ kind |-> "approve", from |-> Request(c).from, amount |-> Request(c).amount,
      min |-> 0, deadline |-> 0, to |-> Request(c).from, gas |-> Unlimited, call |-> c ]

Succeeds(s, tx) == Outcome(s, world, Native, tx).ok

\* What eth_estimateGas answers: the least gas the transaction succeeds with now.
Estimated == GasNeeded(Native, world)

\* The chain as eth_call sees it with the allowance of the call's signer overridden.
WithAllowanceOverride(c) == [chain EXCEPT !.allowance[Request(c).from] = Unlimited]

-----------------------------------------------------------------------------
(* The steps of a call.                                                    *)

Go(c, to) == pc' = [pc EXCEPT ![c] = to]

Put(tx) == mempool' = [mempool EXCEPT ![tx.from] = Append(@, tx)]

\* A plan may make a call once another has ended.
Due(c) == Request(c).after = 0 \/ (Request(c).after # 0 /\ pc[Request(c).after] \in Final)

\* The argument checks, and what a curve fixes for life: its version, its quote.
Start(c) ==
    /\ pc[c] = "idle"
    /\ Due(c)
    /\ CASE Request(c).kind \in {"buy", "sell"} /\ Request(c).amount = 0 -> Go(c, "failed")
         [] Request(c).kind = "buy" /\ Request(c).amount > 0 ->
                Go(c, IF Native THEN "simulate" ELSE "allowance")
         [] Request(c).kind = "sell" /\ Request(c).amount > 0 ->
                Go(c, IF Native THEN "simulate" ELSE "estimate")
         [] OTHER -> Go(c, "simulate")
    /\ UNCHANGED <<plan, chain, world, mempool, receipts, gas, foreseen, result, failures>>

\* ensureAllowance: nothing is sent when the allowance covers the buy.
ReadAllowance(c) ==
    /\ pc[c] = "allowance"
    /\ IF chain.allowance[Request(c).from] >= Request(c).amount
       THEN Go(c, "estimate")
       ELSE Go(c, IF plan.slotKnown THEN "preflight" ELSE "simulateApprove")
    /\ UNCHANGED <<plan, chain, world, mempool, receipts, gas, foreseen, result, failures>>

\* beforeApprove: the buy, simulated as if it had been approved.
Preflight(c) ==
    /\ pc[c] = "preflight"
    /\ IF Succeeds(WithAllowanceOverride(c), Transaction(c, Unlimited))
       THEN Go(c, "simulateApprove")
       ELSE Go(c, "failed")
    /\ UNCHANGED <<plan, chain, world, mempool, receipts, gas, foreseen, result, failures>>

SimulateApprove(c) ==
    /\ pc[c] = "simulateApprove"
    /\ Go(c, IF Succeeds(chain, Approval(c)) THEN "sendApprove" ELSE "failed")
    /\ UNCHANGED <<plan, chain, world, mempool, receipts, gas, foreseen, result, failures>>

SendApprove(c) ==
    /\ pc[c] = "sendApprove"
    /\ IF Succeeds(chain, Approval(c))
       THEN Put(Approval(c)) /\ Go(c, "awaitApprove")
       ELSE Go(c, "failed") /\ UNCHANGED mempool
    /\ UNCHANGED <<plan, chain, world, receipts, gas, foreseen, result, failures>>

AwaitGrantedApprove(c) ==
    /\ pc[c] = "awaitApprove"
    /\ receipts[c].approve.ok
    /\ Go(c, "estimate")
    /\ UNCHANGED <<plan, chain, world, mempool, receipts, gas, foreseen, result, failures>>

AwaitApprove(c) ==
    /\ pc[c] = "awaitApprove"
    /\ receipts[c].approve.mined
    /\ Go(c, IF receipts[c].approve.ok THEN "estimate" ELSE "failed")
    /\ UNCHANGED <<plan, chain, world, mempool, receipts, gas, foreseen, result, failures>>

\* estimateContractGas, for a trade in an ERC-20 quote.
Estimate(c) ==
    /\ pc[c] = "estimate"
    /\ IF Succeeds(chain, Transaction(c, Unlimited))
       THEN /\ gas' = [gas EXCEPT ![c] = IF Request(c).kind = "buy"
                                         THEN Erc20GasLimit(Estimated, Request(c).gasLimit)
                                         ELSE WithQuoteTransferHeadroom(Estimated)]
            /\ Go(c, "simulate")
       ELSE /\ Go(c, "failed")
            /\ UNCHANGED gas
    /\ UNCHANGED <<plan, chain, world, mempool, receipts, foreseen, result, failures>>

\* The gas the simulation runs with: the limit there is, or as much as it takes.
SimulationGas(c) ==
    CASE gas[c] # 0 -> gas[c]
      [] gas[c] = 0 /\ Request(c).gasLimit # 0 -> Request(c).gasLimit
      [] OTHER -> Unlimited

SimulateOnLiveCurve(c) ==
    LET outcome == Outcome(chain, world, Native, Transaction(c, SimulationGas(c)))
    IN  /\ pc[c] = "simulate"
        /\ Go(c, IF outcome.ok /\ ~chain.graduated THEN "send" ELSE "failed")
        /\ foreseen' = [foreseen EXCEPT ![c] = outcome.events.quote]
        /\ UNCHANGED <<plan, chain, world, mempool, receipts, gas, result, failures>>

Simulate(c) ==
    LET outcome == Outcome(chain, world, Native, Transaction(c, SimulationGas(c)))
    IN  /\ pc[c] = "simulate"
        /\ Go(c, IF outcome.ok THEN "send" ELSE "failed")
        /\ foreseen' = [foreseen EXCEPT ![c] = outcome.events.quote]
        /\ UNCHANGED <<plan, chain, world, mempool, receipts, gas, result, failures>>

\* writeContract.  A trade with no limit of its own is sent at the node's bare
\* estimate, for which it must succeed once more.
Bare(c) == gas[c] = 0 /\ Request(c).gasLimit = 0

Sendable(c) == Bare(c) => Succeeds(chain, Transaction(c, Unlimited))

LimitSent(c) ==
    CASE ~Bare(c) -> SimulationGas(c)
      [] Bare(c) /\ Request(c).kind \in {"buy", "sell"} -> Estimated
      [] OTHER -> Unlimited

Send(c) ==
    /\ pc[c] = "send"
    /\ IF Sendable(c)
       THEN Put(Transaction(c, LimitSent(c))) /\ Go(c, "await")
       ELSE Go(c, "failed") /\ UNCHANGED mempool
    /\ UNCHANGED <<plan, chain, world, receipts, gas, foreseen, result, failures>>

\* Mistakes to check against: what was not pulled is not told, and migrate() tells
\* what its simulation returned, as withdraw() does.
ReportWithoutUnpulled(c) ==
    LET events == receipts[c].main.events
    IN  [ tokens |-> events.tokens,
          quote |-> IF Request(c).kind = "withdraw" THEN foreseen[c] ELSE events.quote,
          refund |-> events.refund, graduated |-> events.graduated,
          migrated |-> events.migrated,
          migrationFailed |-> events.graduated /\ ~events.migrated ]

ReportSimulated(c) ==
    LET events == receipts[c].main.events
    IN  [ NoResult EXCEPT !.migrated = events.migrated,
                          !.quote = IF Request(c).kind = "migrate" THEN foreseen[c]
                                    ELSE events.quote ]

Report(c) ==
    LET events == receipts[c].main.events
    IN  CASE Request(c).kind = "buy" ->
                [ tokens |-> events.tokens, quote |-> events.quote,
                  refund |-> IF events.refund # 0 THEN events.refund
                             ELSE IF Native THEN 0 ELSE Monus(Request(c).amount, events.quote),
                  graduated |-> events.graduated, migrated |-> events.migrated,
                  migrationFailed |-> events.graduated /\ ~events.migrated ]
          [] Request(c).kind = "sell" -> [NoResult EXCEPT !.quote = events.quote]
          [] Request(c).kind = "migrate" ->
                [NoResult EXCEPT !.quote = events.quote, !.migrated = events.migrated]
          [] Request(c).kind = "withdraw" -> [NoResult EXCEPT !.quote = foreseen[c]]

AwaitMigration(c) ==
    /\ pc[c] = "await"
    /\ receipts[c].main.mined
    /\ IF receipts[c].main.events.graduated /\ ~receipts[c].main.events.migrated
       THEN Go(c, "failed") /\ UNCHANGED result
       ELSE Go(c, "done") /\ result' = [result EXCEPT ![c] = Report(c)]
    /\ UNCHANGED <<plan, chain, world, mempool, receipts, gas, foreseen, failures>>

\* A trade is looked for in the receipt's events and reported from them; migrate
\* reports the events there are; withdraw reports what its simulation returned.
Await(c) ==
    /\ pc[c] = "await"
    /\ receipts[c].main.mined
    /\ IF Request(c).kind \in {"buy", "sell"} /\ ~receipts[c].main.events.trade
       THEN Go(c, "failed") /\ UNCHANGED result
       ELSE Go(c, "done") /\ result' = [result EXCEPT ![c] = Report(c)]
    /\ UNCHANGED <<plan, chain, world, mempool, receipts, gas, foreseen, failures>>

\* Any RPC of a call may fail or time out, the wait for a receipt included: the
\* call throws, and a transaction it has sent is not taken back.
RpcFails(c) ==
    /\ pc[c] \notin Final
    /\ Due(c)
    /\ failures < MaxFailures
    /\ failures' = failures + 1
    /\ Go(c, IF pc[c] \in {"send", "await"} THEN "lost" ELSE "failed")
    /\ UNCHANGED <<plan, chain, world, mempool, receipts, gas, foreseen, result>>

\* A mistake to check against: what got no answer is sent once more.
SentAgain(c) ==
    /\ pc[c] = "send" /\ Sendable(c)
    /\ Put(Transaction(c, LimitSent(c)))
    /\ failures < MaxFailures
    /\ failures' = failures + 1
    /\ UNCHANGED <<plan, chain, world, receipts, pc, gas, foreseen, result>>

\* What is sent arrives, and the answer to the sending does not.
AnswerLost(c) ==
    /\ \/ pc[c] = "sendApprove" /\ Succeeds(chain, Approval(c))
             /\ Put(Approval(c)) /\ Go(c, "failed")
       \/ pc[c] = "send" /\ Sendable(c)
             /\ Put(Transaction(c, LimitSent(c))) /\ Go(c, "lost")
    /\ failures < MaxFailures
    /\ failures' = failures + 1
    /\ UNCHANGED <<plan, chain, world, receipts, gas, foreseen, result>>

\* Whoever calls migrate() calls it again while the curve has graduated and is not
\* migrated.
CallAgain(c) ==
    /\ Request(c).kind = "migrate"
    /\ pc[c] \in Final
    /\ chain.graduated /\ ~chain.migrated
    /\ \A a \in Accounts : \A i \in DOMAIN mempool[a] : mempool[a][i].call # c
    /\ Go(c, "simulate")
    /\ receipts' = [receipts EXCEPT ![c].main = NoReceipt]
    /\ result' = [result EXCEPT ![c] = NoResult]
    /\ UNCHANGED <<plan, chain, world, mempool, gas, foreseen, failures>>

-----------------------------------------------------------------------------
(* The chain and the world.                                                *)

\* The next transaction of an account is mined.
Mine(a) ==
    /\ mempool[a] # <<>>
    /\ LET tx == Head(mempool[a])
           outcome == Outcome(chain, world, Native, tx)
           receipt == [mined |-> TRUE, ok |-> outcome.ok, events |-> outcome.events]
       IN  /\ chain' = outcome.chain
           /\ receipts' = IF tx.kind = "approve"
                          THEN [receipts EXCEPT ![tx.call].approve = receipt]
                          ELSE [receipts EXCEPT ![tx.call].main = receipt]
    /\ mempool' = [mempool EXCEPT ![a] = Tail(@)]
    /\ UNCHANGED <<plan, world, pc, gas, foreseen, result, failures>>

\* A deadline passes, an account is blocked or unblocked, the migrator breaks or
\* is mended, or the fee pushes come to need more gas or less.
WorldChanges ==
    /\ \/ "time" \in plan.moving /\ world.time = 0 /\ world' = [world EXCEPT !.time = 1]
       \/ \E a \in plan.blockable :
              world' = [world EXCEPT !.blocked =
                            IF a \in @ THEN @ \ {a} ELSE @ \cup {a}]
       \/ "migrator" \in plan.moving /\ world' = [world EXCEPT !.migratorUp = ~@]
       \/ "pushing" \in plan.moving /\ world' = [world EXCEPT !.pushing = ~@]
    /\ UNCHANGED <<plan, chain, mempool, receipts, pc, gas, foreseen, result, failures>>

Init ==
    /\ plan \in Plans
    /\ chain = Genesis
    /\ world = [blocked |-> {}, migratorUp |-> TRUE, time |-> 0, pushing |-> FALSE]
    /\ mempool = [a \in Accounts |-> <<>>]
    /\ receipts = [c \in Calls |-> [approve |-> NoReceipt, main |-> NoReceipt]]
    /\ pc = [c \in Calls |-> "idle"]
    /\ gas = [c \in Calls |-> 0]
    /\ foreseen = [c \in Calls |-> 0]
    /\ result = [c \in Calls |-> NoResult]
    /\ failures = 0

Step(c) ==
    \/ Start(c)
    \/ ReadAllowance(c)
    \/ Preflight(c)
    \/ SimulateApprove(c)
    \/ SendApprove(c)
    \/ AwaitApprove(c)
    \/ Estimate(c)
    \/ Simulate(c)
    \/ Send(c)
    \/ Await(c)

Next ==
    \/ \E c \in Calls : Step(c) \/ RpcFails(c) \/ AnswerLost(c) \/ CallAgain(c)
    \/ \E a \in Accounts : Mine(a)
    \/ WorldChanges

Spec == Init /\ [][Next]_vars

-----------------------------------------------------------------------------
Total(f, S) == MapThenSumSet(LAMBDA x : f[x], S)
TotalOf(S, Op(_)) == Total([x \in S |-> Op(x)], S)

Of(kind, a) == {c \in Calls : Request(c).kind = kind /\ Request(c).from = a}

TypeOK ==
    /\ plan \in Plans
    /\ chain \in Chain
    /\ world \in Surroundings
    /\ mempool \in [Accounts -> Seq(Transactions)]
    /\ pc \in [Calls -> Labels]
    /\ gas \in [Calls -> Nat]
    /\ foreseen \in [Calls -> Nat]
    /\ DOMAIN receipts = Calls /\ DOMAIN result = Calls
    /\ failures \in 0 .. MaxFailures

\* Nothing of the account is on its way, and the calls whose trade went through have
\* returned.
Quiet(a) ==
    /\ mempool[a] = <<>>
    /\ \A c \in Of("buy", a) \cup Of("sell", a) :
           receipts[c].main.ok => pc[c] = "done"

\* What the calls of the account were told adds up to what it holds.
AddsUp(a) ==
    /\ \A c \in Of("buy", a) : pc[c] = "done" =>
           result[c].quote + result[c].refund = Request(c).amount
    /\ chain.tokens[a] =
           TotalOf(Of("buy", a), LAMBDA c : result[c].tokens)
         - TotalOf({c \in Of("sell", a) : pc[c] = "done"}, LAMBDA c : Request(c).amount)
    /\ chain.balance[a] + chain.pending[a] = Funds
         - TotalOf(Of("buy", a), LAMBDA c : result[c].quote)
         + TotalOf(Of("sell", a), LAMBDA c : result[c].quote)
         - TotalOf(Of("withdraw", a), LAMBDA c : receipts[c].main.events.quote)
         + TotalOf({c \in Calls : Request(c).kind = "withdraw" /\ Request(c).to = a},
                   LAMBDA c : receipts[c].main.events.quote)

\* The spent, refunded, delivered and paid amounts of BuyResult and SellResult are
\* read from logs, and computed where there is no log, while other trades run: once
\* an account is quiet, they add up to what it holds.
ReportsTrue == \A a \in Accounts : Quiet(a) => AddsUp(a)

\* A migration is told by the one call that made it, with what it forwarded; a
\* migrate() that another was mined before tells of nothing, whatever it simulated.
\* Unless its answer was lost, somebody is told (curve.ts:842-873).
MigrationsTold ==
    plan.client = "ts" =>
        /\ \A c \in Calls :
               /\ result[c].migrated => chain.migrated
               /\ pc[c] = "done" /\ Request(c).kind = "migrate" =>
                      result[c].quote = IF result[c].migrated THEN chain.forwarded ELSE 0
               /\ \A d \in Calls : result[c].migrated /\ result[d].migrated => c = d
        /\ chain.migrated =>
               \E c \in Calls :
                   \/ result[c].migrated
                   \/ pc[c] \in {"await", "lost"} /\ receipts[c].main.events.migrated

\* A buy or a sell that throws has traded nothing and has no trade on its way,
\* whichever of its RPCs failed, so that a caller who tries again does not trade
\* twice.  One that was waiting for the answer to its sending, or for its receipt,
\* when that RPC failed is not among them: it is lost, and may trade (curve.ts:651).
ThrowsMeanNoTrade ==
    \A c \in Calls :
        pc[c] = "failed" /\ Request(c).kind \in {"buy", "sell"} =>
            /\ ~receipts[c].main.ok
            /\ \A a \in Accounts : \A i \in DOMAIN mempool[a] :
                   mempool[a][i].call = c => mempool[a][i].kind = "approve"

\* Exact, never unlimited (quote-token.ts:11): whatever the order of approves,
\* buys and failures, what the curve has pulled from an account and what it still
\* may pull are together no more than the buys that account approved.
ExposureBounded ==
    \A a \in Accounts :
        TotalOf(Of("buy", a), LAMBDA c : IF Native THEN 0 ELSE receipts[c].main.events.quote)
          + chain.allowance[a]
            <= TotalOf({c \in Of("buy", a) : receipts[c].approve.ok},
                       LAMBDA c : Request(c).amount)

\* No trade in an ERC-20 quote is ever on its way with too little gas for the fee
\* pushes, although its limit was settled from an estimate made earlier, when the
\* pushes may have needed less (quote-token.ts:82).
FeePushesHaveGas ==
    ~Native =>
        \A a \in Accounts : \A i \in DOMAIN mempool[a] :
            mempool[a][i].kind \in {"buy", "sell"} => mempool[a][i].gas >= TradeGas + PushGas

\* A graduating buy whose caller passed a gas limit with room for the migration
\* migrates the curve in its own transaction, if the migrator works: neither the
\* estimate nor the headroom lowers what the caller chose (types.ts, gasLimit).
ChosenGasMigrates ==
    [][ \A c \in Calls :
          /\ chain'.graduated /\ ~chain.graduated
          /\ ~receipts[c].main.mined /\ receipts'[c].main.mined
          /\ Request(c).kind = "buy"
          /\ Request(c).gasLimit >= TradeGas + PushGas + InstantMigrationGas
          /\ world.migratorUp
          => chain'.migrated ]_vars

-----------------------------------------------------------------------------
\* A withdraw pays what it reports (curve.ts:882-889).
WithdrawsPaid ==
    \A c \in Calls :
        pc[c] = "done" /\ Request(c).kind = "withdraw" =>
            result[c].quote = receipts[c].main.events.quote

\* After ensureAllowance the spender may pull the buy (quote-token.ts:398).
AllowanceHeld ==
    [][ \A c \in Calls :
          pc[c] = "awaitApprove" /\ pc'[c] = "estimate"
          => chain.allowance[Request(c).from] >= Request(c).amount ]_vars
=============================================================================
