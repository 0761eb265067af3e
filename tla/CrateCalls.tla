----------------------------- MODULE CrateCalls -----------------------------
(***************************************************************************)
(* Calls of Curve::buy, sell, migrate and withdraw of the Rust crate       *)
(* (curve.rs, quote.rs), side by side, for the requests and against the    *)
(* curve of CurveCalls.  Nothing is simulated before it is sent: the       *)
(* provider's fillers ask, in either order, for the account's nonce and    *)
(* for a gas estimate, which fails where the transaction would revert, and *)
(* the transaction is then broadcast under that nonce; mempool holds what  *)
(* is pending by its nonce.  What returns has looked at its receipt.       *)
(***************************************************************************)
EXTENDS CurveCalls, CrateGas, Functions

VARIABLES
    mined,      \* for each account, how many of its transactions have been mined
    nonce       \* the nonce each call was handed for what it is about to send

crateVars == <<vars, mined, nonce>>

NoNonce == -1

CallsOf(a) == {c \in Calls : Request(c).from = a}

Filling == {"fillApprove", "fill"}
CrateLabels == {"idle", "allowance", "preflight", "awaitApprove", "estimate", "await"}
                   \cup Filling \cup Final

\* What a call whose transaction is being filled is about to send.
Wanted(c, limit) == IF pc[c] = "fillApprove" THEN Approval(c) ELSE Transaction(c, limit)

\* eth_getTransactionCount at the pending block: what was mined, and what follows
\* it in the pool without a gap.
PendingCount(a) ==
    CHOOSE n \in mined[a] .. mined[a] + Cardinality(DOMAIN mempool[a]) :
        /\ n \notin DOMAIN mempool[a]
        /\ mined[a] .. n - 1 \subseteq DOMAIN mempool[a]

-----------------------------------------------------------------------------
(* The steps of a call.                                                    *)

\* The version and the quote are known; a native buy keeps its caller's limit.
CrateStart(c) ==
    /\ pc[c] = "idle"
    /\ Due(c)
    /\ IF Native \/ Request(c).kind \in {"migrate", "withdraw"}
       THEN /\ Go(c, "fill")
            /\ gas' = [gas EXCEPT ![c] = IF Request(c).kind = "buy"
                                         THEN Request(c).gasLimit ELSE 0]
       ELSE /\ Go(c, IF Request(c).kind = "buy" THEN "allowance" ELSE "estimate")
            /\ UNCHANGED gas
    /\ UNCHANGED <<plan, chain, world, mined, mempool, receipts, nonce, foreseen, result, failures>>

\* ensure_allowance_after: its check before the approve is left out where the
\* network names no allowance slot.
CrateReadAllowance(c) ==
    /\ pc[c] = "allowance"
    /\ Go(c, CASE chain.allowance[Request(c).from] >= Request(c).amount -> "estimate"
               [] chain.allowance[Request(c).from] < Request(c).amount /\ plan.slotKnown ->
                      "preflight"
               [] OTHER -> "fillApprove")
    /\ UNCHANGED <<plan, chain, world, mined, mempool, receipts, nonce, gas, foreseen, result, failures>>

\* preflight_buy_with_quote, with the allowance overridden.
CratePreflight(c) ==
    /\ pc[c] = "preflight"
    /\ Go(c, IF Succeeds(WithAllowanceOverride(c), Transaction(c, Unlimited))
             THEN "fillApprove" ELSE "failed")
    /\ UNCHANGED <<plan, chain, world, mined, mempool, receipts, nonce, gas, foreseen, result, failures>>

CrateAwaitApprove(c) ==
    /\ pc[c] = "awaitApprove"
    /\ receipts[c].approve.mined
    /\ Go(c, IF receipts[c].approve.ok THEN "estimate" ELSE "failed")
    /\ UNCHANGED <<plan, chain, world, mined, mempool, receipts, nonce, gas, foreseen, result, failures>>

\* erc20_trade_gas: the headroom is the least, a buyer's own limit may be more.
CrateEstimate(c) ==
    /\ pc[c] = "estimate"
    /\ IF Succeeds(chain, Transaction(c, Unlimited))
       THEN /\ gas' = [gas EXCEPT ![c] =
                           erc20_trade_gas(with_quote_transfer_headroom(Estimated),
                                           IF Request(c).kind = "buy"
                                           THEN Request(c).gasLimit ELSE 0)]
            /\ Go(c, "fill")
       ELSE Go(c, "failed") /\ UNCHANGED gas
    /\ UNCHANGED <<plan, chain, world, mined, mempool, receipts, nonce, foreseen, result, failures>>

\* A mistake to check against, which client.rs:519-530 describes: the manager
\* counts by itself, and a nonce it has handed out does not come back.
FillNonceCached(c) ==
    /\ pc[c] \in Filling
    /\ nonce[c] = NoNonce
    /\ nonce' = [nonce EXCEPT ![c] =
           Max({PendingCount(Request(c).from)}
                   \cup {nonce[d] + 1 : d \in CallsOf(Request(c).from)})]
    /\ UNCHANGED <<plan, chain, world, mined, mempool, receipts, pc, gas, foreseen, result, failures>>

\* Simple nonce management: asked of the chain for each transaction.
FillNonce(c) ==
    /\ pc[c] \in Filling
    /\ nonce[c] = NoNonce
    /\ nonce' = [nonce EXCEPT ![c] = PendingCount(Request(c).from)]
    /\ UNCHANGED <<plan, chain, world, mined, mempool, receipts, pc, gas, foreseen, result, failures>>

\* A transaction without a limit is estimated, and is not sent where that reverts.
FillGas(c) ==
    /\ pc[c] \in Filling
    /\ gas[c] = 0
    /\ IF Succeeds(chain, Wanted(c, Unlimited))
       THEN /\ gas' = [gas EXCEPT ![c] = IF Wanted(c, 0).kind \in {"buy", "sell"}
                                         THEN Estimated ELSE Unlimited]
            /\ UNCHANGED pc
       ELSE Go(c, "failed") /\ UNCHANGED gas
    /\ UNCHANGED <<plan, chain, world, mined, mempool, receipts, nonce, foreseen, result, failures>>

\* The pending transactions with one under that nonce, in the place of any other.
Under(pool, n, tx) == [m \in DOMAIN pool \cup {n} |-> IF m = n THEN tx ELSE pool[m]]

PutUnder(c) ==
    mempool' = [mempool EXCEPT ![Request(c).from] = Under(@, nonce[c], Wanted(c, gas[c]))]

\* The node takes a transaction under a nonce that is free, refuses one whose nonce
\* is used up, and of two under one nonce keeps the one that pays more.
Broadcast(c) ==
    LET a == Request(c).from
        sent == PutUnder(c) /\ Go(c, IF pc[c] = "fillApprove" THEN "awaitApprove" ELSE "await")
        refused == Go(c, "failed") /\ UNCHANGED mempool
    IN  /\ pc[c] \in Filling
        /\ nonce[c] # NoNonce /\ gas[c] # 0
        /\ \/ nonce[c] >= mined[a] /\ sent
           \/ nonce[c] < mined[a] /\ refused
           \/ nonce[c] \in DOMAIN mempool[a] /\ refused
        /\ IF pc[c] = "fillApprove"
           THEN /\ nonce' = [nonce EXCEPT ![c] = NoNonce]
                /\ gas' = [gas EXCEPT ![c] = 0]
           ELSE UNCHANGED <<nonce, gas>>
    /\ UNCHANGED <<plan, chain, world, mined, receipts, foreseen, result, failures>>

\* The refund is logged, or is what an ERC-20 buy did not pull.
CrateReport(c) ==
    LET events == receipts[c].main.events
    IN  CASE Request(c).kind = "buy" ->
                [ NoResult EXCEPT
                    !.tokens = events.tokens, !.quote = events.quote,
                    !.refund = IF events.refund = 0 /\ ~Native
                               THEN Monus(Request(c).amount, events.quote) ELSE events.refund,
                    !.migrated = events.migrated ]
          [] Request(c).kind = "sell" -> [NoResult EXCEPT !.quote = events.quote]
          [] OTHER -> NoResult

\* A mistake to check against: the status of a receipt is not looked at, which a
\* trade survives because its log is missing then.
AwaitAnyStatus(c) ==
    /\ pc[c] = "await"
    /\ receipts[c].main.mined
    /\ IF Request(c).kind \in {"buy", "sell"} /\ ~receipts[c].main.events.trade
       THEN Go(c, "failed") /\ UNCHANGED result
       ELSE Go(c, "done") /\ result' = [result EXCEPT ![c] = CrateReport(c)]
    /\ UNCHANGED <<plan, chain, world, mined, mempool, receipts, nonce, gas, foreseen, failures>>

\* A reverted receipt is an error, and so is a trade without its log.
CrateAwait(c) ==
    /\ pc[c] = "await"
    /\ receipts[c].main.mined
    /\ IF \/ ~receipts[c].main.ok
          \/ Request(c).kind \in {"buy", "sell"} /\ ~receipts[c].main.events.trade
       THEN Go(c, "failed") /\ UNCHANGED result
       ELSE Go(c, "done") /\ result' = [result EXCEPT ![c] = CrateReport(c)]
    /\ UNCHANGED <<plan, chain, world, mined, mempool, receipts, nonce, gas, foreseen, failures>>

\* Any RPC may fail, the wait for a receipt included; what was sent stays sent, and
\* a call that was sending or waiting cannot tell what becomes of it.
CrateRpcFails(c) ==
    /\ pc[c] \notin Final
    /\ Due(c)
    /\ failures < MaxFailures
    /\ failures' = failures + 1
    /\ Go(c, IF pc[c] = "await" \/ (pc[c] = "fill" /\ nonce[c] # NoNonce /\ gas[c] # 0)
             THEN "lost" ELSE "failed")
    /\ UNCHANGED <<plan, chain, world, mined, mempool, receipts, nonce, gas, foreseen, result>>

\* What is broadcast arrives, and the answer to it does not.
CrateAnswerLost(c) ==
    /\ pc[c] \in Filling
    /\ nonce[c] # NoNonce /\ gas[c] # 0
    /\ nonce[c] >= mined[Request(c).from]
    /\ PutUnder(c)
    /\ Go(c, IF pc[c] = "fill" THEN "lost" ELSE "failed")
    /\ failures < MaxFailures
    /\ failures' = failures + 1
    /\ UNCHANGED <<plan, chain, world, mined, receipts, nonce, gas, foreseen, result>>

-----------------------------------------------------------------------------
(* The chain and the world.                                                *)

\* An account's next nonce is mined, if the pool has it.
CrateMine(a) ==
    /\ mined[a] \in DOMAIN mempool[a]
    /\ LET tx == mempool[a][mined[a]]
           outcome == Outcome(chain, world, Native, tx)
           receipt == [mined |-> TRUE, ok |-> outcome.ok, events |-> outcome.events]
       IN  /\ chain' = outcome.chain
           /\ receipts' = IF tx.kind = "approve"
                          THEN [receipts EXCEPT ![tx.call].approve = receipt]
                          ELSE [receipts EXCEPT ![tx.call].main = receipt]
           /\ mempool' = [mempool EXCEPT ![a] = Restrict(@, DOMAIN @ \ {mined[a]})]
    /\ mined' = [mined EXCEPT ![a] = @ + 1]
    /\ UNCHANGED <<plan, world, pc, nonce, gas, foreseen, result, failures>>

CrateInit ==
    /\ Init
    /\ mined = [a \in Accounts |-> 0]
    /\ nonce = [c \in Calls |-> NoNonce]

CrateStep(c) ==
    \/ CrateStart(c)
    \/ CrateReadAllowance(c)
    \/ CratePreflight(c)
    \/ CrateAwaitApprove(c)
    \/ CrateEstimate(c)
    \/ FillNonce(c)
    \/ FillGas(c)
    \/ Broadcast(c)
    \/ CrateAwait(c)

CrateNext ==
    \/ \E c \in Calls : CrateStep(c) \/ CrateRpcFails(c) \/ CrateAnswerLost(c)
    \/ \E a \in Accounts : CrateMine(a)
    \/ WorldChanges /\ UNCHANGED <<mined, nonce>>

CrateSpec == CrateInit /\ [][CrateNext]_crateVars

-----------------------------------------------------------------------------
CrateTypeOK ==
    /\ plan \in Plans
    /\ chain \in Chain
    /\ world \in Surroundings
    /\ mined \in [Accounts -> Nat]
    /\ \A a \in Accounts : DOMAIN mempool[a] \subseteq Nat
    /\ pc \in [Calls -> CrateLabels]
    /\ nonce \in [Calls -> Nat \cup {NoNonce}]
    /\ gas \in [Calls -> Nat]
    /\ failures \in 0 .. MaxFailures

\* A call returns exactly if its own transaction succeeded, also where two calls of
\* an account were handed one nonce and whichever RPCs failed; only one that was
\* broadcasting, or waiting for its receipt, when that failed cannot tell.  And what
\* the calls of an account reported adds up to what the account holds.
CallsTold ==
    plan.client = "crate" =>
        /\ \A c \in Calls : pc[c] \in {"done", "failed"} => (pc[c] = "done" <=> receipts[c].main.ok)
        /\ \A a \in Accounts : (\A c \in CallsOf(a) : pc[c] \in {"done", "failed"}) => AddsUp(a)
=============================================================================
