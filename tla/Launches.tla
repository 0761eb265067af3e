------------------------------ MODULE Launches ------------------------------
(***************************************************************************)
(* Calls of Launchpad.launch and collectLaunchFees (launchpad.ts), side by *)
(* side, while the launch fee, the platform's template and the migrator    *)
(* change.  A launch decides its payment, its fee cap, its approve and its *)
(* gas limit from a quote, and the quote is two reads: what the launchpad  *)
(* says the launch costs and fills, and the template that tells whether it *)
(* graduates.  Between each of these and the block the chain moves.        *)
(***************************************************************************)
EXTENDS LaunchChain, GasHeadroom, Sequences, FiniteSets

CONSTANTS
    Plans,          \* the sets of calls that may be made
    MaxCalls,       \* the most calls a plan has
    MaxFailures     \* how many times an RPC may fail

GraduationGasLimit == 8000000       \* GRADUATION_GAS_LIMIT
GraduationGasFloor == 6200000       \* GRADUATION_GAS_FLOOR

\* What a caller asks for: a gasLimit of 0 is one left out, and so is the maxFee of
\* a caller who is not capping.
Requests ==
    [ client : {"ts", "crate"}, kind : {"launch", "collect"}, from : Accounts, amount : Nat, min : Nat,
      capping : BOOLEAN, maxFee : Nat, gasLimit : Nat ]

ASSUME PlansAssumption ==
    /\ Plans \subseteq
         [ native : BOOLEAN, slotKnown : BOOLEAN,
           moving : SUBSET {"fee", "template", "migrator", "blocked", "pushing"},
           calls : Seq(Requests) ]
    /\ \A p \in Plans : Len(p.calls) <= MaxCalls
    /\ {MaxCalls, MaxFailures} \subseteq Nat

\* What launchpad.ts and quote-token.ts rest on: a launch that migrates fits, with the
\* pushes, into the limit sent when the caller gives none, and the pushes fit into the
\* headroom.  Whether it fits into the floor the sources do not agree on (launchpad.ts:64-70,
\* types.ts:124-130), and nothing here supposes it.
ASSUME LaunchGasAssumption ==
    /\ InstantLaunchGas + PushGas <= GraduationGasLimit
    /\ LaunchGas + PushGas <= GraduationGasLimit
    /\ PushGas <= QuoteTransferGasHeadroomMin

Transactions ==
    [ kind : {"launch", "collect", "approve"}, from : Accounts, amount : Nat, min : Nat,
      maxFee : Nat, value : Nat, gas : Nat, call : Nat ]

VARIABLES
    plan,       \* the calls made, and which of the settings may change
    chain,
    settings,   \* the fee, the template, the migrator and the quote
    mempool,    \* for each account, its transactions sent and not yet mined
    receipts,   \* for each call, the receipts of its approve and its transaction
    pc,         \* where each call is
    quoted,     \* the LaunchQuote each launch works from
    gas,        \* the gas limit each call has settled on; 0 while it has none
    foreseen,   \* the amount each collect was simulated to push
    result,     \* what each call that returned reported
    failures

vars == <<plan, chain, settings, mempool, receipts, pc, quoted, gas, foreseen, result,
          failures>>

Calls == DOMAIN plan.calls
Request(c) == plan.calls[c]
Native == plan.native

Unlimited == 1000000000     \* maxUint256, and the gas of an unbounded call
NoReceipt == [mined |-> FALSE, ok |-> FALSE, curve |-> NoCurve]
NoQuote == [fee |-> 0, tokensOut |-> 0, tradeFee |-> 0, graduates |-> FALSE]
NoResult == [ tokens |-> 0, graduated |-> FALSE, migrated |-> FALSE,
              migrationFailed |-> FALSE, pushed |-> 0 ]

Final == {"done", "failed"}
Labels == {"idle", "quote", "template", "allowance", "preflight", "simulateApprove",
           "sendApprove", "awaitApprove", "estimate", "simulate", "send", "await"} \cup Final

TotalCost(c) == quoted[c].fee + Request(c).amount

\* The fee cap of the encoded launch.
MaxLaunchFeeUncapped(c) == IF Request(c).capping THEN Request(c).maxFee ELSE Unlimited
MaxLaunchFee(c) == IF Request(c).capping THEN Request(c).maxFee ELSE quoted[c].fee

\* The transaction a call is after, as it would be sent with that gas limit.
Transaction(c, limit) ==
    [ kind |-> Request(c).kind, from |-> Request(c).from, amount |-> Request(c).amount,
      min |-> Request(c).min, maxFee |-> MaxLaunchFee(c),
      value |-> IF Request(c).kind = "launch" /\ Native THEN TotalCost(c) ELSE 0,
      gas |-> limit, call |-> c ]

Approval(c) ==
    [ kind |-> "approve", from |-> Request(c).from, amount |-> TotalCost(c), min |-> 0,
      maxFee |-> 0, value |-> 0, gas |-> Unlimited, call |-> c ]

Succeeds(s, tx) == Outcome(s, settings, Native, tx).ok

\* What eth_estimateGas answers: the least gas the launch succeeds with now, which
\* starves the migration of one that graduates.
Estimated == LaunchGasNeeded(Native, settings)

\* The chain as eth_call sees it with the signer's allowance overridden.
WithAllowanceOverride(c) == [chain EXCEPT !.allowance[Request(c).from] = Unlimited]

-----------------------------------------------------------------------------
(* Whether a launch graduates, and the gas it gets.                        *)

WouldGraduateByInput(template, amount, tradeFee, tokensOut) ==
    amount # 0 /\ (amount >= template.target \/ tokensOut >= template.supply)

\* wouldGraduate: the curve's rule, from what the quote reported.
WouldGraduate(template, amount, tradeFee, tokensOut) ==
    /\ amount # 0
    /\ \/ Monus(amount, tradeFee) >= template.target
       \/ tokensOut >= template.supply

\* resolveLaunchGas: the limit it refuses, and the one it chooses; 0 is none.
GasRefused(graduates, callerLimit) ==
    graduates /\ callerLimit # 0 /\ callerLimit < GraduationGasFloor

ResolvedOfCaller(graduates, callerLimit) == callerLimit

Resolved(graduates, callerLimit) ==
    IF callerLimit = 0 /\ graduates THEN GraduationGasLimit ELSE callerLimit

-----------------------------------------------------------------------------
(* The steps of a call.                                                    *)

Go(c, to) == pc' = [pc EXCEPT ![c] = to]

Start(c) ==
    /\ pc[c] = "idle"
    /\ Go(c, IF Request(c).kind = "launch" THEN "quote" ELSE "simulate")
    /\ UNCHANGED <<plan, chain, settings, mempool, receipts, quoted, gas, foreseen, result,
                   failures>>

\* What the launchpad says the launch costs and fills.
ReadQuote(c) ==
    LET q == QuoteLaunch(settings.template, Request(c).amount, settings.fee)
    IN  /\ pc[c] = "quote"
        /\ IF FirstBuyReverts(settings, Request(c))
           THEN Go(c, "failed") /\ UNCHANGED quoted
           ELSE /\ quoted' = [quoted EXCEPT ![c] =
                                 [ fee |-> settings.fee, tokensOut |-> q.tokensOut,
                                   tradeFee |-> q.tradeFee, graduates |-> FALSE ]]
                /\ Go(c, "template")
        /\ UNCHANGED <<plan, chain, settings, mempool, receipts, gas, foreseen, result,
                       failures>>

\* The live template, and with it the end of the quote and the choice of a limit.
ReadTemplate(c) ==
    LET graduates == WouldGraduate(settings.template, Request(c).amount,
                                   quoted[c].tradeFee, quoted[c].tokensOut)
    IN  /\ pc[c] = "template"
        /\ quoted' = [quoted EXCEPT ![c].graduates = graduates]
        /\ gas' = [gas EXCEPT ![c] = Resolved(graduates, Request(c).gasLimit)]
        /\ Go(c, CASE GasRefused(graduates, Request(c).gasLimit) -> "failed"
                   [] Native /\ ~GasRefused(graduates, Request(c).gasLimit) -> "simulate"
                   [] OTHER -> "allowance")
        /\ UNCHANGED <<plan, chain, settings, mempool, receipts, foreseen, result, failures>>

\* ensureAllowance: nothing is sent when the allowance covers the quoted total.
ReadAllowance(c) ==
    /\ pc[c] = "allowance"
    /\ Go(c, IF chain.allowance[Request(c).from] >= TotalCost(c)
             THEN "estimate"
             ELSE IF plan.slotKnown THEN "preflight" ELSE "simulateApprove")
    /\ UNCHANGED <<plan, chain, settings, mempool, receipts, quoted, gas, foreseen, result,
                   failures>>

\* preflightLaunch: the launch, simulated as if its total had been approved.
Preflight(c) ==
    /\ pc[c] = "preflight"
    /\ Go(c, IF Succeeds(WithAllowanceOverride(c), Transaction(c, Unlimited))
             THEN "simulateApprove" ELSE "failed")
    /\ UNCHANGED <<plan, chain, settings, mempool, receipts, quoted, gas, foreseen, result,
                   failures>>

SimulateApprove(c) ==
    /\ pc[c] = "simulateApprove"
    /\ Go(c, IF Succeeds(chain, Approval(c)) THEN "sendApprove" ELSE "failed")
    /\ UNCHANGED <<plan, chain, settings, mempool, receipts, quoted, gas, foreseen, result,
                   failures>>

SendApprove(c) ==
    /\ pc[c] = "sendApprove"
    /\ IF Succeeds(chain, Approval(c))
       THEN /\ mempool' = [mempool EXCEPT ![Request(c).from] = Append(@, Approval(c))]
            /\ Go(c, "awaitApprove")
       ELSE Go(c, "failed") /\ UNCHANGED mempool
    /\ UNCHANGED <<plan, chain, settings, receipts, quoted, gas, foreseen, result, failures>>

AwaitApprove(c) ==
    /\ pc[c] = "awaitApprove"
    /\ receipts[c].approve.mined
    /\ Go(c, IF receipts[c].approve.ok THEN "estimate" ELSE "failed")
    /\ UNCHANGED <<plan, chain, settings, mempool, receipts, quoted, gas, foreseen, result,
                   failures>>

\* The limit of a launch in an ERC-20 quote: only ever raised, to the graduation
\* limit without asking the node, or to the node's estimate with headroom.
SettleGas(c) ==
    /\ pc[c] = "estimate"
    /\ IF quoted[c].graduates
       THEN /\ gas' = [gas EXCEPT ![c] = IF @ > GraduationGasLimit
                                         THEN @ ELSE GraduationGasLimit]
            /\ Go(c, "simulate")
       ELSE IF Succeeds(chain, Transaction(c, Unlimited))
            THEN /\ gas' = [gas EXCEPT ![c] = Erc20GasLimit(Estimated, @)]
                 /\ Go(c, "simulate")
            ELSE Go(c, "failed") /\ UNCHANGED gas
    /\ UNCHANGED <<plan, chain, settings, mempool, receipts, quoted, foreseen, result,
                   failures>>

SimulationGas(c) == IF gas[c] = 0 THEN Unlimited ELSE gas[c]

Simulate(c) ==
    LET outcome == Outcome(chain, settings, Native, Transaction(c, SimulationGas(c)))
    IN  /\ pc[c] = "simulate"
        /\ Go(c, IF outcome.ok THEN "send" ELSE "failed")
        /\ foreseen' = [foreseen EXCEPT ![c] = outcome.pushed]
        /\ UNCHANGED <<plan, chain, settings, mempool, receipts, quoted, gas, result, failures>>

\* writeContract: without a limit of its own a transaction is sent at the node's
\* estimate, for which it must succeed once more.
Send(c) ==
    LET limit == CASE gas[c] # 0 -> gas[c]
                   [] gas[c] = 0 /\ Request(c).kind = "launch" -> Estimated
                   [] OTHER -> Unlimited
    IN  /\ pc[c] = "send"
        /\ IF gas[c] = 0 => Succeeds(chain, Transaction(c, Unlimited))
           THEN /\ mempool' = [mempool EXCEPT ![Request(c).from] =
                                   Append(@, Transaction(c, limit))]
                /\ Go(c, "await")
           ELSE Go(c, "failed") /\ UNCHANGED mempool
        /\ UNCHANGED <<plan, chain, settings, receipts, quoted, gas, foreseen, result, failures>>

\* A launch is reported from the logs of its own receipt.
ReportFromLiveCurve(c) ==
    [ tokens |-> receipts[c].main.curve.tokens,
      graduated |-> receipts[c].main.curve.graduated,
      migrated |-> chain.curves[c].migrated,
      migrationFailed |-> chain.curves[c].graduated /\ ~chain.curves[c].migrated,
      pushed |-> foreseen[c] ]

Report(c) ==
    [ tokens |-> receipts[c].main.curve.tokens,
      graduated |-> receipts[c].main.curve.graduated,
      migrated |-> receipts[c].main.curve.migrated,
      migrationFailed |-> receipts[c].main.curve.graduated /\ ~receipts[c].main.curve.migrated,
      pushed |-> foreseen[c] ]

\* A launch must have its Launched log; a collect reports what it was simulated to push.
Await(c) ==
    /\ pc[c] = "await"
    /\ receipts[c].main.mined
    /\ IF Request(c).kind = "launch" /\ ~receipts[c].main.curve.launched
       THEN Go(c, "failed") /\ UNCHANGED result
       ELSE Go(c, "done") /\ result' = [result EXCEPT ![c] = Report(c)]
    /\ UNCHANGED <<plan, chain, settings, mempool, receipts, quoted, gas, foreseen, failures>>

\* Any RPC of a call may fail or time out, the wait for a receipt included.
RpcFails(c) ==
    /\ pc[c] \notin Final
    /\ failures < MaxFailures
    /\ failures' = failures + 1
    /\ Go(c, "failed")
    /\ UNCHANGED <<plan, chain, settings, mempool, receipts, quoted, gas, foreseen, result>>

-----------------------------------------------------------------------------
(* The chain and those who administer it.                                  *)

\* The next transaction of an account is mined.
Mine(a) ==
    /\ mempool[a] # <<>>
    /\ LET tx == Head(mempool[a])
           outcome == Outcome(chain, settings, Native, tx)
           receipt == [mined |-> TRUE, ok |-> outcome.ok, curve |-> outcome.curve]
       IN  /\ chain' = outcome.chain
           /\ receipts' = IF tx.kind = "approve"
                          THEN [receipts EXCEPT ![tx.call].approve = receipt]
                          ELSE [receipts EXCEPT ![tx.call].main = receipt]
    /\ mempool' = [mempool EXCEPT ![a] = Tail(@)]
    /\ UNCHANGED <<plan, settings, pc, quoted, gas, foreseen, result, failures>>

\* Anyone may migrate a curve that graduated and was not migrated.
Rescue(c) ==
    /\ settings.migratorUp
    /\ chain.curves[c].graduated /\ ~chain.curves[c].migrated
    /\ chain' = [chain EXCEPT !.curves[c].migrated = TRUE, !.curves[c].rescued = TRUE]
    /\ UNCHANGED <<plan, settings, mempool, receipts, pc, quoted, gas, foreseen, result,
                   failures>>

SettingsChange ==
    /\ \/ \E f \in LaunchFees :
              "fee" \in plan.moving /\ settings' = [settings EXCEPT !.fee = f]
       \/ \E t \in Templates :
              "template" \in plan.moving /\ settings' = [settings EXCEPT !.template = t]
       \/ "migrator" \in plan.moving /\ settings' = [settings EXCEPT !.migratorUp = ~@]
       \/ \E a \in Accounts :
              /\ "blocked" \in plan.moving
              /\ settings' = [settings EXCEPT !.blocked =
                                  IF a \in @ THEN @ \ {a} ELSE @ \cup {a}]
       \/ "pushing" \in plan.moving /\ settings' = [settings EXCEPT !.pushing = ~@]
    /\ UNCHANGED <<plan, chain, mempool, receipts, pc, quoted, gas, foreseen, result, failures>>

Init ==
    /\ plan \in Plans
    /\ settings \in {e \in Settings : e.migratorUp /\ e.blocked = {} /\ ~e.pushing}
    /\ chain = [ accrued |-> 0, pushed |-> 0, balance |-> [a \in Accounts |-> Funds],
                 allowance |-> [a \in Accounts |-> 0], curves |-> [c \in Calls |-> NoCurve] ]
    /\ mempool = [a \in Accounts |-> <<>>]
    /\ receipts = [c \in Calls |-> [approve |-> NoReceipt, main |-> NoReceipt]]
    /\ pc = [c \in Calls |-> "idle"]
    /\ quoted = [c \in Calls |-> NoQuote]
    /\ gas = [c \in Calls |-> 0]
    /\ foreseen = [c \in Calls |-> 0]
    /\ result = [c \in Calls |-> NoResult]
    /\ failures = 0

Step(c) ==
    \/ Start(c)
    \/ ReadQuote(c)
    \/ ReadTemplate(c)
    \/ ReadAllowance(c)
    \/ Preflight(c)
    \/ SimulateApprove(c)
    \/ SendApprove(c)
    \/ AwaitApprove(c)
    \/ SettleGas(c)
    \/ Simulate(c)
    \/ Send(c)
    \/ Await(c)

-----------------------------------------------------------------------------
TypeOK ==
    /\ plan \in Plans
    /\ settings \in Settings
    /\ chain \in [ accrued : Nat, pushed : Nat, balance : [Accounts -> Nat],
                   allowance : [Accounts -> Nat], curves : [Calls -> CurveStates] ]
    /\ mempool \in [Accounts -> Seq(Transactions)]
    /\ pc \in [Calls -> Labels]
    /\ quoted \in [Calls -> [fee : Nat, tokensOut : Nat, tradeFee : Nat, graduates : BOOLEAN]]
    /\ gas \in [Calls -> Nat]
    /\ foreseen \in [Calls -> Nat]
    /\ DOMAIN receipts = Calls /\ DOMAIN result = Calls
    /\ failures \in 0 .. MaxFailures
=============================================================================
