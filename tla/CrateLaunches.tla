---------------------------- MODULE CrateLaunches ----------------------------
(***************************************************************************)
(* The steps of Launchpad::launch and collect_launch_fees of the Rust      *)
(* crate (launchpad.rs), on the state of Launches.  They differ from the   *)
(* TypeScript client's: a quote is one batch and so of one block, nothing  *)
(* is simulated before it is sent, and the status of a receipt is looked   *)
(* at before its logs.  The nonces a client is handed are in CrateCalls.   *)
(***************************************************************************)
EXTENDS Launches, CrateGas

GRADUATION_GAS_LIMIT == 8000000
GRADUATION_GAS_FLOOR == 6200000

\* What Launchpad::launch can be asked for.
LaunchParams == {r \in Requests : r.client = "crate"}

\* The curve's rule, from what the quote reported.
would_graduate(template, initial_buy, trade_fee, tokens_out) ==
    LET reserve_after == Monus(initial_buy, trade_fee)
    IN  initial_buy # 0 /\ (reserve_after >= template.target \/ tokens_out >= template.supply)

LaunchGasLimitTooLow == -1

\* The limit of the launch, where 0 is none.
gas_for(gas_limit, graduates) ==
    CASE gas_limit = 0 /\ graduates -> GRADUATION_GAS_LIMIT
      [] gas_limit # 0 /\ graduates /\ gas_limit < GRADUATION_GAS_FLOOR -> LaunchGasLimitTooLow
      [] OTHER -> gas_limit

CrateStart(c) ==
    /\ pc[c] = "idle"
    /\ Request(c) \in LaunchParams
    /\ Go(c, IF Request(c).kind = "launch" THEN "quote" ELSE "send")
    /\ UNCHANGED <<plan, chain, settings, mempool, receipts, quoted, gas, foreseen, result,
                   failures>>

LaunchQuote(c) ==
    LET q == QuoteLaunch(settings.template, Request(c).amount, settings.fee)
    IN  [ fee |-> settings.fee, tokensOut |-> q.tokensOut, tradeFee |-> q.tradeFee,
          graduates |-> would_graduate(settings.template, Request(c).amount,
                                       q.tradeFee, q.tokensOut) ]

\* The cost and the template come in one eth_call, and the limit follows from them.
QuoteAndLimit(c) ==
    LET limit == gas_for(Request(c).gasLimit, LaunchQuote(c).graduates)
    IN  /\ pc[c] = "quote"
        /\ IF FirstBuyReverts(settings, Request(c)) \/ limit = LaunchGasLimitTooLow
           THEN Go(c, "failed") /\ UNCHANGED <<quoted, gas>>
           ELSE /\ quoted' = [quoted EXCEPT ![c] = LaunchQuote(c)]
                /\ gas' = [gas EXCEPT ![c] = limit]
                /\ Go(c, IF Native THEN "send" ELSE "allowance")
        /\ UNCHANGED <<plan, chain, settings, mempool, receipts, foreseen, result, failures>>

\* QuoteToken::approve: sent if the estimate its filler asks for succeeds.
CrateSendApprove(c) ==
    /\ pc[c] = "simulateApprove"
    /\ IF Succeeds(chain, Approval(c))
       THEN /\ mempool' = [mempool EXCEPT ![Request(c).from] = Append(@, Approval(c))]
            /\ Go(c, "awaitApprove")
       ELSE Go(c, "failed") /\ UNCHANGED mempool
    /\ UNCHANGED <<plan, chain, settings, receipts, quoted, gas, foreseen, result, failures>>

\* erc20_launch_gas: only ever raised, to the graduation limit without asking, or to
\* the estimate with headroom.
Erc20LaunchGas(c) ==
    /\ pc[c] = "estimate"
    /\ IF quoted[c].graduates
       THEN /\ gas' = [gas EXCEPT ![c] = erc20_trade_gas(GRADUATION_GAS_LIMIT, @)]
            /\ Go(c, "send")
       ELSE IF Succeeds(chain, Transaction(c, Unlimited))
            THEN /\ gas' = [gas EXCEPT ![c] =
                                erc20_trade_gas(with_quote_transfer_headroom(Estimated), @)]
                 /\ Go(c, "send")
            ELSE Go(c, "failed") /\ UNCHANGED gas
    /\ UNCHANGED <<plan, chain, settings, mempool, receipts, quoted, foreseen, result,
                   failures>>

\* What the logs of the launch's own receipt say; a collect tells its hash alone.
LaunchResult(c) ==
    LET curve == receipts[c].main.curve
    IN  [ tokens |-> curve.tokens, graduated |-> curve.graduated, migrated |-> curve.migrated,
          migrationFailed |-> curve.graduated /\ ~curve.migrated, pushed |-> 0 ]

CrateAwait(c) ==
    /\ pc[c] = "await"
    /\ receipts[c].main.mined
    /\ IF /\ receipts[c].main.ok
          /\ Request(c).kind = "launch" => receipts[c].main.curve.launched
       THEN Go(c, "done") /\ result' = [result EXCEPT ![c] = LaunchResult(c)]
       ELSE Go(c, "failed") /\ UNCHANGED result
    /\ UNCHANGED <<plan, chain, settings, mempool, receipts, quoted, gas, foreseen, failures>>

CrateStep(c) ==
    \/ CrateStart(c)
    \/ QuoteAndLimit(c)
    \/ ReadAllowance(c)
    \/ Preflight(c)
    \/ CrateSendApprove(c)
    \/ AwaitApprove(c)
    \/ Erc20LaunchGas(c)
    \/ Send(c)
    \/ CrateAwait(c)
=============================================================================
