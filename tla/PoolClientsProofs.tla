-------------------------- MODULE PoolClientsProofs --------------------------
(***************************************************************************)
(* What either client sends to a pool, or to the curve in its place, is    *)
(* sound whatever happens between its steps, for any calls of any clients: *)
(* a swap in an ERC-20 quote carries the gas for the fees it may have to   *)
(* pay out, and the options of one venue are never dropped at the other.   *)
(* And what they tell of it afterwards is true: a fill is what the call's  *)
(* own transaction moved, a call that throws has moved nothing, and a      *)
(* quote is what the swap would have moved when it was asked for.          *)
(*                                                                         *)
(* A limit is settled in estimate and a venue in venue, and both are used  *)
(* in send, while the token moves and fees accrue: the first inductive     *)
(* invariant, PoolInv, follows them there, by what each call has made sure *)
(* of at the place it has come to.  The second, FillInv, follows a call's  *)
(* one transaction from there to its receipt, and the receipt to the id of *)
(* the pool its logs are read under.  The third, QuoteInv, follows a quote *)
(* by what its simulation came to, from one attempt to the next.           *)
(***************************************************************************)
EXTENDS PoolClients, CurveMathProofs

Labels == Final \cup Answerable \cup {"idle", "awaitApprove", "await"}
Sending == {"simulate", "send"}
PoolSteps == {"reach", "allowance", "tokenAllowance", "preflight", "simulateApprove",
              "awaitApprove", "estimate"}

Transactions ==
    [ kind : Kinds \cup {"approveQuote", "curveBuy", "curveSell"}, from : Accounts,
      to : Accounts, amount : Nat, min : Nat, deadline : 0 .. 1, gas : Nat, call : Nat ]

Places ==
    /\ plan \in Plans
    /\ pc \in [Calls -> Labels]
    /\ gas \in [Calls -> Nat]
    /\ DOMAIN venueOf = Calls
    /\ mempool \in [Accounts -> Seq(Transactions)]

\* A call whose transaction is a swap of the pool if it is on venue v, and one whose
\* options decide where it may go.
Swapping(c, v) == Request(c).kind \in Quotes \/ (Request(c).kind \in Swaps /\ v # "curve")
Optioned(c) == Request(c).kind \in Swaps /\ Request(c).via = "trade"

ForPool(c, v) == v = "pool" /\ ~Request(c).curveOnly
ForCurve(c, v) == v = "curve" /\ Request(c).to = Request(c).from

EnoughGas(g) == g >= SwapGas + PushGas /\ g # 0

\* What a call at a place, on venue v and with limit g, has made sure of.
Fit(c, place, v, g) ==
    /\ ~Native /\ Swapping(c, v) /\ place \in Sending => EnoughGas(g)
    /\ Optioned(c) =>
           /\ place = "venue" /\ Request(c).client = "crate" =>
                  /\ Request(c).curveOnly => v = "curve"
                  /\ Request(c).to # Request(c).from => v = "pool"
           /\ place \in PoolSteps => ForPool(c, v)
           /\ place \in Sending => ForPool(c, v) \/ ForCurve(c, v)

AllFit == \A c \in Calls : Fit(c, pc[c], venueOf[c], gas[c])

GasKept(tx) == ~Native /\ tx.kind \in Swaps => tx.gas >= SwapGas + PushGas

OptionsKept(tx) ==
    Optioned(tx.call) =>
        /\ Request(tx.call).curveOnly => tx.kind \in {"curveBuy", "curveSell"}
        /\ tx.kind \in {"curveBuy", "curveSell"} => Request(tx.call).to = Request(tx.call).from

\* The transactions that may be on their way, and queues that hold no other.
Sound == {tx \in Transactions : GasKept(tx) /\ OptionsKept(tx)}

AllSound == \A a \in Accounts : \A i \in DOMAIN mempool[a] : mempool[a][i] \in Sound

PoolInv == Places /\ AllFit /\ AllSound

-----------------------------------------------------------------------------
(* Figures, requests and transactions.                                     *)

LEMMA PoolFigures ==
    /\ SwapGas \in Nat /\ PushGas \in Nat /\ PushGas <= 400000
    /\ Estimated \in Nat /\ Estimated >= SwapGas
<1>1. SwapGas \in Nat /\ PushGas \in Nat
  BY PoolChainAssumption
<1>2. PushGas <= 400000
  BY PushAssumption DEF PoolQuoteTransferGasHeadroomMin
<1>3. QED
  BY <1>1, <1>2 DEF Estimated, GasNeeded

\* The estimate is made with or without a fee to pay out; the headroom covers it.
LEMMA PoolHeadroomCovers ==
    LET limit == WithPoolQuoteTransferHeadroom(Estimated)
    IN  limit \in Nat /\ EnoughGas(limit)
<1> DEFINE share == ShareOfEstimate(Estimated)
           limit == WithPoolQuoteTransferHeadroom(Estimated)
<1>1. share \in Nat
  <2>1. BpsDenominator \div QuoteTransferGasHeadroomBps = 5
    BY DEF BpsDenominator, QuoteTransferGasHeadroomBps
  <2>2. QED
    BY <2>1, PoolFigures DEF ShareOfEstimate
<1>2. limit = Estimated + (IF share > 400000 THEN share ELSE 400000)
  BY DEF WithPoolQuoteTransferHeadroom, PoolQuoteTransferGasHeadroomMin
<1> HIDE DEF share, limit
<1>3. limit \in Nat /\ EnoughGas(limit)
  BY <1>1, <1>2, PoolFigures DEF EnoughGas
<1>4. QED
  BY <1>3 DEF limit

\* So does the crate's, and its caller can only raise it.
LEMMA CratePoolHeadroomCovers ==
    ASSUME NEW asked \in Nat
    PROVE  LET limit == erc20_trade_gas(with_pool_quote_transfer_headroom(Estimated), asked)
           IN  limit \in Nat /\ EnoughGas(limit)
<1> DEFINE whole == (Estimated \div BpsDenominator) * 2000
           rest == ((Estimated % BpsDenominator) * 2000) \div BpsDenominator
           safe == with_pool_quote_transfer_headroom(Estimated)
           limit == erc20_trade_gas(safe, asked)
<1>1. whole \in Nat /\ rest \in Nat
  BY PoolFigures DEF BpsDenominator
<1>2. safe = Estimated + (IF whole + rest > 400000 THEN whole + rest ELSE 400000)
  BY DEF with_pool_quote_transfer_headroom, with_headroom, QUOTE_TRANSFER_GAS_HEADROOM_BPS,
         POOL_QUOTE_TRANSFER_GAS_HEADROOM_MIN
<1>3. limit = IF asked > safe THEN asked ELSE safe
  BY DEF erc20_trade_gas
<1> HIDE DEF whole, rest, safe, limit
<1>4. limit \in Nat /\ EnoughGas(limit)
  BY <1>1, <1>2, <1>3, PoolFigures DEF EnoughGas
<1>5. QED
  BY <1>4 DEF limit, safe

LEMMA RequestTypes ==
    ASSUME plan \in Plans, NEW c \in Calls PROVE Request(c) \in Requests /\ c \in Nat
<1>1. plan.calls \in Seq(Requests)
  BY PlansAssumption
<1>2. QED
  BY <1>1 DEF Calls, Request

\* The transaction of a call that fits where it sends from may be sent.
LEMMA TransactionSound ==
    ASSUME plan \in Plans, NEW c \in Calls, NEW limit \in Nat,
           Fit(c, "send", venueOf[c], limit)
    PROVE  Transaction(c, limit) \in Sound
<1> DEFINE tx == Transaction(c, limit)
<1>1. Request(c) \in Requests /\ c \in Nat
  BY RequestTypes
<1>2. tx \in Transactions /\ tx.call = c /\ tx.gas = limit
  BY <1>1 DEF Transaction, Transactions, Requests, Kinds, Swaps, Quotes
<1>3. /\ tx.kind \in Swaps => Swapping(c, venueOf[c])
      /\ Optioned(c) /\ venueOf[c] = "curve" => tx.kind \in {"curveBuy", "curveSell"}
      /\ tx.kind \in {"curveBuy", "curveSell"} => venueOf[c] = "curve"
  <2>1. CASE venueOf[c] = "curve" /\ Request(c).kind \in Swaps
    <3>1. tx.kind \in {"curveBuy", "curveSell"}
      BY <2>1 DEF Transaction, Swaps
    <3>2. QED
      BY <2>1, <3>1 DEF Swaps
  <2>2. CASE ~(venueOf[c] = "curve" /\ Request(c).kind \in Swaps)
    <3>1. tx.kind = CASE Request(c).kind = "quoteBuy"  -> "buy"
                      [] Request(c).kind = "quoteSell" -> "sell"
                      [] OTHER -> Request(c).kind
      BY <2>2 DEF Transaction, Swaps
    <3> HIDE DEF tx
    <3>2. tx.kind \notin {"curveBuy", "curveSell"}
      BY <1>1, <3>1 DEF Requests, Kinds, Swaps, Quotes
    <3>3. tx.kind \in Swaps => Swapping(c, venueOf[c])
      BY <2>2, <3>1 DEF Swapping, Swaps, Quotes
    <3>4. QED
      BY <2>2, <3>2, <3>3 DEF Optioned
  <2>3. QED
    BY <2>1, <2>2
<1> HIDE DEF tx
<1>4. GasKept(tx)
  BY <1>2, <1>3 DEF GasKept, Fit, Sending, EnoughGas
<1>5. OptionsKept(tx)
  BY <1>2, <1>3 DEF OptionsKept, Fit, Sending, ForPool, ForCurve
<1>6. QED
  BY <1>2, <1>4, <1>5 DEF Sound, tx

LEMMA ApprovalSound ==
    ASSUME plan \in Plans, NEW c \in Calls, Fit(c, "simulateApprove", venueOf[c], gas[c])
    PROVE  Approval(c) \in Sound
<1> DEFINE tx == Approval(c)
<1>1. Request(c) \in Requests /\ c \in Nat
  BY RequestTypes
<1>2. tx \in Transactions /\ tx.call = c /\ tx.kind = "approveQuote"
  BY <1>1 DEF Approval, Transaction, Transactions, Requests, Unlimited
<1> HIDE DEF tx
<1>3. GasKept(tx) /\ OptionsKept(tx)
  BY <1>2 DEF GasKept, OptionsKept, Fit, PoolSteps, ForPool, Swaps
<1>4. QED
  BY <1>2, <1>3 DEF Sound, tx

-----------------------------------------------------------------------------
(* What a step leaves, put together.                                       *)

\* A call goes to a place that it fits; nothing of the others changes.
Goes(c, to) ==
    /\ Go(c, to)
    /\ plan' = plan
    /\ DOMAIN venueOf' = Calls
    /\ gas' \in [Calls -> Nat]
    /\ \A d \in Calls : d # c => venueOf'[d] = venueOf[d] /\ gas'[d] = gas[d]
    /\ Fit(c, to, venueOf'[c], gas'[c])

Unmoved == UNCHANGED <<plan, gas, venueOf>>

LEMMA GoesKeeps ==
    ASSUME PoolInv, NEW c \in Calls, NEW to \in Labels, Goes(c, to),
           mempool' \in [Accounts -> Seq(Transactions)],
           \A a \in Accounts : \A i \in DOMAIN mempool'[a] : mempool'[a][i] \in Sound
    PROVE  PoolInv'
<1>1. /\ pc \in [Calls -> Labels] /\ pc' = [pc EXCEPT ![c] = to]
      /\ plan' = plan /\ Calls' = Calls /\ plan \in Plans
  BY DEF PoolInv, Places, Goes, Go, Calls
<1>2. Places'
  BY <1>1 DEF Goes, Places
<1>3. ASSUME NEW d \in Calls PROVE Fit(d, pc'[d], venueOf'[d], gas'[d])
  <2>1. CASE d = c
    BY <1>1, <2>1 DEF Goes
  <2>2. CASE d # c
    BY <1>1, <2>2 DEF Goes, PoolInv, AllFit
  <2>3. QED
    BY <2>1, <2>2
<1>4. AllFit'
  BY <1>1, <1>3 DEF AllFit, Fit, Native, Swapping, Optioned, ForPool, ForCurve, EnoughGas,
        Request
<1>5. Sound' = Sound
  BY <1>1 DEF Sound, GasKept, OptionsKept, Optioned, Native, Request
<1>6. AllSound'
  BY <1>5 DEF AllSound
<1>7. QED
  BY <1>2, <1>4, <1>6 DEF PoolInv

LEMMA QueuesStay ==
    ASSUME PoolInv, NEW c \in Calls, NEW to \in Labels, Goes(c, to), mempool' = mempool
    PROVE  PoolInv'
<1>1. /\ mempool' \in [Accounts -> Seq(Transactions)]
      /\ \A a \in Accounts : \A i \in DOMAIN mempool'[a] : mempool'[a][i] \in Sound
  BY DEF PoolInv, Places, AllSound
<1>2. QED
  BY <1>1, GoesKeeps

LEMMA SendKeeps ==
    ASSUME PoolInv, NEW c \in Calls, NEW to \in Labels, Goes(c, to), NEW tx \in Sound,
           mempool' = [mempool EXCEPT ![Request(c).from] = Append(@, tx)]
    PROVE  PoolInv'
<1>1. Request(c).from \in Accounts /\ tx \in Transactions
  BY RequestTypes DEF PoolInv, Places, Requests, Sound
<1>2. /\ mempool' \in [Accounts -> Seq(Transactions)]
      /\ \A a \in Accounts : \A i \in DOMAIN mempool'[a] : mempool'[a][i] \in Sound
  BY <1>1, QueueAppended DEF PoolInv, Places, AllSound
<1>3. QED
  BY <1>2, GoesKeeps

\* A step of which only the place matters.
LEMMA MoveGoes ==
    ASSUME PoolInv, NEW c \in Calls, NEW to \in Labels, Go(c, to), Unmoved,
           Fit(c, to, venueOf[c], gas[c])
    PROVE  Goes(c, to)
BY DEF PoolInv, Places, Unmoved, Goes

LEMMA MoveKeeps ==
    ASSUME PoolInv, NEW c \in Calls, NEW to \in Labels, Go(c, to), Unmoved,
           Fit(c, to, venueOf[c], gas[c]), mempool' = mempool
    PROVE  PoolInv'
BY MoveGoes, QueuesStay

\* Places where nothing has to have been made sure of, and those on the way to a
\* transaction of the pool.
Carefree == Labels \ (PoolSteps \cup Sending \cup {"venue"})

LEMMA CarefreeFits ==
    ASSUME NEW c, NEW to \in Carefree, NEW v, NEW g PROVE to \in Labels /\ Fit(c, to, v, g)
BY DEF Carefree, Fit

LEMMA PoolStepFits ==
    ASSUME PoolInv, NEW c \in Calls, pc[c] \in PoolSteps, NEW to \in PoolSteps
    PROVE  to \in Labels /\ Fit(c, to, venueOf[c], gas[c])
<1>1. Fit(c, pc[c], venueOf[c], gas[c])
  BY DEF PoolInv, AllFit
<1>2. to \notin Sending /\ to # "venue" /\ to \in Labels
  BY DEF PoolSteps, Sending, Labels, Answerable
<1>3. QED
  BY <1>1, <1>2 DEF Fit

\* A swap or a quote that settles no limit in estimate has none to settle.
LEMMA NativeOrOther ==
    ASSUME PoolInv, NEW c \in Calls, NEW to \in Sending,
           Native \/ ~Swapping(c, venueOf[c]),
           ~Optioned(c) \/ pc[c] \in PoolSteps
    PROVE  to \in Labels /\ Fit(c, to, venueOf[c], gas[c])
<1>1. Fit(c, pc[c], venueOf[c], gas[c])
  BY DEF PoolInv, AllFit
<1>2. to \notin PoolSteps /\ to # "venue" /\ to \in Labels
  BY DEF PoolSteps, Sending, Labels, Answerable
<1>3. QED
  BY <1>1, <1>2 DEF Fit

-----------------------------------------------------------------------------
(* The steps of both clients.                                              *)

LEMMA CarefreeKeeps ==
    ASSUME PoolInv, NEW c \in Calls,
           \/ CurveQuote(c) \/ Quote(c) \/ Await(c) \/ Accrued(c) \/ RpcFails(c)
           \/ CrateQuote(c) \/ CrateAwait(c)
    PROVE  PoolInv'
<1>1. Unmoved /\ mempool' = mempool
  BY DEF CurveQuote, Quote, Await, Accrued, RpcFails, CrateQuote, CrateAwait, Unmoved
<1>2. PICK to \in {"done", "failed", "lost", "poolId"} : Go(c, to)
  BY DEF CurveQuote, Quote, Await, Accrued, RpcFails, CrateQuote, CrateAwait, Tell
<1>3. to \in Carefree
  BY DEF Carefree, Labels, PoolSteps, Sending, Final, Answerable
<1>4. QED
  BY <1>1, <1>2, <1>3, CarefreeFits, MoveKeeps

LEMMA ReadAllowanceKeeps ==
    ASSUME PoolInv, NEW c \in Calls, ReadAllowance(c) PROVE PoolInv'
<1>1. Unmoved /\ mempool' = mempool /\ pc[c] \in PoolSteps
  BY DEF ReadAllowance, Unmoved, PoolSteps
<1>2. PICK to \in PoolSteps : Go(c, to)
  BY DEF ReadAllowance, PoolSteps
<1>3. QED
  BY <1>1, <1>2, PoolStepFits, MoveKeeps

LEMMA PoolStepsKeep ==
    ASSUME PoolInv, NEW c \in Calls, Preflight(c) \/ AwaitApprove(c) PROVE PoolInv'
<1>1. Unmoved /\ mempool' = mempool /\ pc[c] \in PoolSteps
  BY DEF Preflight, AwaitApprove, Unmoved, PoolSteps
<1>2. PICK to \in PoolSteps \cup {"failed"} : Go(c, to)
  BY DEF Preflight, AwaitApprove, PoolSteps
<1>3. to \in Labels /\ Fit(c, to, venueOf[c], gas[c])
  <2>1. CASE to = "failed"
    <3>1. to \in Carefree
      BY <2>1 DEF Carefree, Labels, PoolSteps, Sending, Final
    <3>2. QED
      BY <3>1, CarefreeFits
  <2>2. QED
    BY <1>1, <2>1, PoolStepFits
<1>4. QED
  BY <1>1, <1>2, <1>3, MoveKeeps

LEMMA SendApproveKeeps == ASSUME PoolInv, NEW c \in Calls, SendApprove(c) PROVE PoolInv'
<1>1. /\ Unmoved /\ pc[c] = "simulateApprove" /\ Go(c, "awaitApprove")
      /\ mempool' = [mempool EXCEPT ![Request(c).from] = Append(@, Approval(c))]
  BY DEF SendApprove, Unmoved
<1>2. Fit(c, "simulateApprove", venueOf[c], gas[c]) /\ plan \in Plans
  BY <1>1 DEF PoolInv, AllFit, Places
<1>3. Goes(c, "awaitApprove")
  <2>1. "awaitApprove" \in PoolSteps /\ pc[c] \in PoolSteps
    BY <1>1 DEF PoolSteps
  <2>2. QED
    BY <1>1, <2>1, PoolStepFits, MoveGoes
<1>4. Approval(c) \in Sound
  BY <1>2, ApprovalSound
<1>5. "awaitApprove" \in Labels
  BY DEF Labels
<1>6. QED
  BY <1>1, <1>3, <1>4, <1>5, SendKeeps

\* Both clients sell only what the router may pull, and estimate only in a quote that
\* is not native.
LEMMA ReadTokenAllowanceKeeps ==
    ASSUME PoolInv, NEW c \in Calls, ReadTokenAllowance(c) \/ CrateReadTokenAllowance(c)
    PROVE  PoolInv'
<1>1. Unmoved /\ mempool' = mempool /\ pc[c] \in PoolSteps
  BY DEF ReadTokenAllowance, CrateReadTokenAllowance, Unmoved, PoolSteps
<1>2. PICK to \in {"failed", "estimate", "simulate", "send"} :
        Go(c, to) /\ (to \in Sending => Native)
  <2>1. CASE ReadTokenAllowance(c)
    BY <2>1 DEF ReadTokenAllowance, Sending
  <2>2. CASE CrateReadTokenAllowance(c)
    BY <2>2 DEF CrateReadTokenAllowance, Sending
  <2>3. QED
    BY <2>1, <2>2
<1>3. to \in Labels /\ Fit(c, to, venueOf[c], gas[c])
  <2>1. CASE to = "failed"
    <3>1. to \in Carefree
      BY <2>1 DEF Carefree, Labels, PoolSteps, Sending, Final
    <3>2. QED
      BY <3>1, CarefreeFits
  <2>2. CASE to = "estimate"
    <3>1. to \in PoolSteps
      BY <2>2 DEF PoolSteps
    <3>2. QED
      BY <1>1, <3>1, PoolStepFits
  <2>3. CASE to \in Sending
    BY <1>1, <1>2, <2>3, NativeOrOther
  <2>4. QED
    BY <2>1, <2>2, <2>3 DEF Sending
<1>4. QED
  BY <1>1, <1>2, <1>3, MoveKeeps

LEMMA EstimateKeeps ==
    ASSUME PoolInv, NEW c \in Calls, Estimate(c) \/ CrateEstimate(c) PROVE PoolInv'
<1>1. /\ plan' = plan /\ venueOf' = venueOf /\ mempool' = mempool /\ pc[c] \in PoolSteps
      /\ gas \in [Calls -> Nat] /\ DOMAIN venueOf = Calls
      /\ Fit(c, pc[c], venueOf[c], gas[c])
  BY DEF Estimate, CrateEstimate, PoolSteps, PoolInv, Places, AllFit
<1>2. CASE Go(c, "failed") /\ UNCHANGED gas
  <2>1. "failed" \in Carefree /\ Unmoved
    BY <1>1, <1>2 DEF Carefree, Labels, PoolSteps, Sending, Final, Unmoved
  <2>2. QED
    BY <1>1, <1>2, <2>1, CarefreeFits, MoveKeeps
<1>3. CASE \E to \in Sending, limit \in Nat :
              Go(c, to) /\ gas' = [gas EXCEPT ![c] = limit] /\ EnoughGas(limit)
  <2>1. PICK to \in Sending, limit \in Nat :
              Go(c, to) /\ gas' = [gas EXCEPT ![c] = limit] /\ EnoughGas(limit)
    BY <1>3
  <2>2. /\ gas' \in [Calls -> Nat] /\ gas'[c] = limit
        /\ \A d \in Calls : d # c => gas'[d] = gas[d]
    BY <1>1, <2>1
  <2>3. to \in Labels /\ to \notin PoolSteps /\ to # "venue"
    BY DEF Sending, Labels, Answerable, PoolSteps
  <2>4. Fit(c, to, venueOf'[c], gas'[c])
    BY <1>1, <2>1, <2>2, <2>3 DEF Fit
  <2>5. Goes(c, to)
    BY <1>1, <2>1, <2>2, <2>4 DEF Goes
  <2>6. QED
    BY <1>1, <2>3, <2>5, QueuesStay
<1>4. CASE Estimate(c)
  <2>1. CASE Succeeds(market, Transaction(c, Unlimited))
    BY <1>3, <1>4, <2>1, PoolHeadroomCovers DEF Estimate, Sending
  <2>2. QED
    BY <1>2, <1>4, <2>1 DEF Estimate
<1>5. CASE CrateEstimate(c)
  <2>1. CASE Succeeds(market, Transaction(c, Unlimited))
    <3>1. Request(c).gas_limit \in Nat
      BY RequestTypes DEF PoolInv, Places, Requests
    <3>2. QED
      BY <1>3, <1>5, <2>1, <3>1, CratePoolHeadroomCovers DEF CrateEstimate, Sending
  <2>2. QED
    BY <1>2, <1>5, <2>1 DEF CrateEstimate
<1>6. QED
  BY <1>4, <1>5

-----------------------------------------------------------------------------
(* The steps of the TypeScript client.                                     *)

LEMMA StartKeeps == ASSUME PoolInv, NEW c \in Of("ts"), Start(c) PROVE PoolInv'
<1>1. /\ c \in Calls /\ Request(c).client = "ts" /\ Unmoved /\ mempool' = mempool
      /\ Request(c).via \in {"trade", "pool"} /\ Request(c).kind \in Kinds
  BY RequestTypes DEF Of, Start, Unmoved, PoolInv, Places, Requests
<1>2. CASE Request(c).via = "trade" /\ Request(c).kind \in Swaps
  <2>1. Go(c, "venue")
    BY <1>2 DEF Start, Swaps
  <2>2. "venue" \in Labels /\ Fit(c, "venue", venueOf[c], gas[c])
    BY <1>1 DEF Fit, Labels, Answerable, PoolSteps, Sending
  <2>3. QED
    BY <1>1, <2>1, <2>2, MoveKeeps
<1>3. CASE ~(Request(c).via = "trade" /\ Request(c).kind \in Swaps)
  <2>1. PICK to \in {"venue", "failed", "reach", "simulate", "poolId"} :
          Go(c, to) /\ (to = "simulate" => Request(c).kind = "approveTokens")
    BY <1>1 DEF Start, Kinds
  <2>2. ~Optioned(c) /\ to \in Labels
    BY <1>3 DEF Optioned, Labels, Final, Answerable
  <2>3. to \in Sending => ~Swapping(c, venueOf[c])
    BY <2>1 DEF Sending, Swapping, Swaps, Quotes
  <2>4. Fit(c, to, venueOf[c], gas[c])
    BY <2>2, <2>3 DEF Fit
  <2>5. QED
    BY <1>1, <2>1, <2>2, <2>4, MoveKeeps
<1>4. QED
  BY <1>2, <1>3

\* Where a call goes once it is on venue v.
LEMMA TakesVenue ==
    ASSUME PoolInv, NEW c \in Calls, NEW to \in Labels, NEW v, Go(c, to),
           venueOf' = [venueOf EXCEPT ![c] = v], UNCHANGED <<plan, gas, mempool>>,
           Fit(c, to, v, gas[c])
    PROVE  PoolInv'
<1>1. DOMAIN venueOf = Calls /\ gas \in [Calls -> Nat]
  BY DEF PoolInv, Places
<1>2. Goes(c, to)
  BY <1>1 DEF Goes
<1>3. QED
  BY <1>2, QueuesStay

LEMMA VenueKeeps == ASSUME PoolInv, NEW c \in Of("ts"), Venue(c) PROVE PoolInv'
<1> DEFINE v == VenueNow(Request(c).from)
<1>1. /\ c \in Calls /\ venueOf' = [venueOf EXCEPT ![c] = v]
      /\ UNCHANGED <<plan, gas, mempool>>
  BY DEF Of, Venue
<1>2. PICK to \in {"failed", "reach", "simulate", "curveQuote"} :
        /\ Go(c, to)
        /\ to = "reach" => v = "pool" /\ ~OptionsRefused(c, v)
        /\ to = "simulate" => v = "curve" /\ Request(c).kind \in Swaps /\ ~OptionsRefused(c, v)
  BY DEF Venue
<1> HIDE DEF v
<1>3. to \in Labels /\ to # "venue"
  BY DEF Labels, Final, Answerable
<1>4. to \in PoolSteps => to = "reach"
  BY DEF PoolSteps
<1>5. to \in Sending => to = "simulate"
  BY DEF Sending
<1>6. Fit(c, to, v, gas[c])
  <2>1. Swapping(c, v) => to # "simulate"
    BY <1>2 DEF Swapping, Swaps, Quotes
  <2>2. Optioned(c) /\ to = "reach" => ForPool(c, v)
    BY <1>2 DEF Optioned, OptionsRefused, ForPool
  <2>3. Optioned(c) /\ to = "simulate" => ForCurve(c, v)
    BY <1>2 DEF Optioned, OptionsRefused, ForCurve
  <2>4. QED
    BY <1>3, <1>4, <1>5, <2>1, <2>2, <2>3 DEF Fit
<1>7. QED
  BY <1>1, <1>2, <1>3, <1>6, TakesVenue

\* A call that reaches the pool was for the pool.
LEMMA ReachFits ==
    ASSUME PoolInv, NEW c \in Calls, pc[c] = "reach",
           NEW to \in {"failed", "quote", "tokenAllowance", "allowance", "simulate", "send"},
           to \in Sending => Native
    PROVE  to \in Labels /\ Fit(c, to, "pool", gas[c])
<1>1. Optioned(c) => ForPool(c, venueOf[c])
  BY DEF PoolInv, AllFit, Fit, PoolSteps
<1>2. Optioned(c) => ForPool(c, "pool")
  BY <1>1 DEF ForPool
<1>3. to \in Labels /\ to # "venue"
  BY DEF Labels, Final, Answerable
<1>4. QED
  BY <1>2, <1>3 DEF Fit

LEMMA ReachKeeps == ASSUME PoolInv, NEW c \in Calls, Reach(c) PROVE PoolInv'
<1>1. /\ pc[c] = "reach" /\ venueOf' = [venueOf EXCEPT ![c] = "pool"]
      /\ UNCHANGED <<plan, gas, mempool>>
  BY DEF Reach
<1>2. PICK to \in {"failed", "quote", "tokenAllowance", "allowance", "simulate"} :
        Go(c, to) /\ (to \in Sending => Native)
  BY DEF Reach, Sending
<1>3. QED
  BY <1>1, <1>2, ReachFits, TakesVenue

LEMMA PoolIdKeeps == ASSUME PoolInv, NEW c \in Calls, PoolId(c) PROVE PoolInv'
<1>1. Unmoved /\ mempool' = mempool /\ pc[c] = "poolId"
  BY DEF PoolId, Unmoved
<1>2. PICK to \in {"simulate", "accrued", "failed", "done"} :
        Go(c, to) /\ (to = "simulate" => Request(c).kind = "distribute")
  BY DEF PoolId, Tell
<1>3. CASE to = "simulate"
  <2>1. ~Swapping(c, venueOf[c]) /\ ~Optioned(c) /\ to \in Sending
    BY <1>2, <1>3 DEF Swapping, Optioned, Swaps, Quotes, Sending
  <2>2. QED
    BY <1>1, <1>2, <2>1, NativeOrOther, MoveKeeps
<1>4. CASE to # "simulate"
  <2>1. to \in Carefree
    BY <1>4 DEF Carefree, Labels, PoolSteps, Sending, Final, Answerable
  <2>2. QED
    BY <1>1, <1>2, <2>1, CarefreeFits, MoveKeeps
<1>5. QED
  BY <1>3, <1>4

LEMMA SimulateKeeps == ASSUME PoolInv, NEW c \in Calls, Simulate(c) PROVE PoolInv'
<1>1. /\ Unmoved /\ mempool' = mempool /\ pc[c] = "simulate"
      /\ Fit(c, pc[c], venueOf[c], gas[c])
  BY DEF Simulate, Unmoved, PoolInv, AllFit
<1>2. PICK to \in {"send", "failed"} : Go(c, to)
  BY DEF Simulate
<1>3. to \in Labels /\ to \notin PoolSteps /\ to # "venue"
  BY DEF Labels, Final, Answerable, PoolSteps
<1>4. Fit(c, to, venueOf[c], gas[c])
  BY <1>1, <1>3 DEF Fit, Sending
<1>5. QED
  BY <1>1, <1>2, <1>3, <1>4, MoveKeeps

\* From send, with the limit that was settled if one was.
LEMMA SendsSound ==
    ASSUME PoolInv, NEW c \in Calls, pc[c] = "send", NEW limit \in Nat,
           gas[c] # 0 => limit = gas[c],
           Go(c, "await"), Unmoved,
           mempool' = [mempool EXCEPT ![Request(c).from] = Append(@, Transaction(c, limit))]
    PROVE  PoolInv'
<1>1. Fit(c, "send", venueOf[c], gas[c]) /\ plan \in Plans
  BY DEF PoolInv, AllFit, Places
<1>2. Fit(c, "send", venueOf[c], limit)
  BY <1>1 DEF Fit, EnoughGas, Sending
<1>3. Transaction(c, limit) \in Sound
  BY <1>1, <1>2, TransactionSound
<1>4. "await" \in Carefree
  BY DEF Carefree, Labels, PoolSteps, Sending
<1>5. "await" \in Labels /\ Goes(c, "await")
  BY <1>4, CarefreeFits, MoveGoes
<1>6. QED
  BY <1>3, <1>5, SendKeeps

LEMMA FailsKeeps ==
    ASSUME PoolInv, NEW c \in Calls, Go(c, "failed"), Unmoved, mempool' = mempool
    PROVE  PoolInv'
<1>1. "failed" \in Carefree
  BY DEF Carefree, Labels, PoolSteps, Sending, Final
<1>2. QED
  BY <1>1, CarefreeFits, MoveKeeps

LEMMA SendStep == ASSUME PoolInv, NEW c \in Calls, Send(c) PROVE PoolInv'
<1> DEFINE limit == CASE gas[c] # 0 -> gas[c]
                      [] gas[c] = 0 /\ Request(c).kind \in Swaps -> Estimated
                      [] OTHER -> Unlimited
<1>1. Unmoved /\ pc[c] = "send" /\ gas[c] \in Nat
  BY DEF Send, Unmoved, PoolInv, Places
<1>2. limit \in Nat /\ (gas[c] # 0 => limit = gas[c])
  BY <1>1, PoolFigures DEF Unlimited
<1>3. \/ /\ mempool' = [mempool EXCEPT ![Request(c).from] = Append(@, Transaction(c, limit))]
         /\ Go(c, "await")
      \/ Go(c, "failed") /\ mempool' = mempool
  BY DEF Send
<1> HIDE DEF limit
<1>4. QED
  BY <1>1, <1>2, <1>3, SendsSound, FailsKeeps

-----------------------------------------------------------------------------
(* The steps of the crate.                                                 *)

LEMMA CrateStartKeeps == ASSUME PoolInv, NEW c \in Calls, CrateStart(c) PROVE PoolInv'
<1>1. /\ Unmoved /\ mempool' = mempool
      /\ Request(c).via \in {"trade", "pool"} /\ Request(c).kind \in Kinds
  BY RequestTypes DEF CrateStart, Unmoved, PoolInv, Places, Requests
<1>2. CASE Request(c).via = "trade" /\ Request(c).kind \in Swaps
  <2>1. Go(c, "choose")
    BY <1>2 DEF CrateStart, Swaps
  <2>2. "choose" \in Carefree
    BY DEF Carefree, Labels, PoolSteps, Sending, Answerable
  <2>3. QED
    BY <1>1, <2>1, <2>2, CarefreeFits, MoveKeeps
<1>3. CASE ~(Request(c).via = "trade" /\ Request(c).kind \in Swaps)
  <2>1. PICK to \in {"choose", "venue", "failed", "reach", "send", "poolId"} :
          Go(c, to) /\ (to = "send" => Request(c).kind = "approveTokens")
    BY <1>1 DEF CrateStart, Kinds
  <2>2. ~Optioned(c) /\ to \in Labels
    BY <1>3 DEF Optioned, Labels, Final, Answerable
  <2>3. to \in Sending => ~Swapping(c, venueOf[c])
    BY <2>1 DEF Sending, Swapping, Swaps, Quotes
  <2>4. Fit(c, to, venueOf[c], gas[c])
    BY <2>2, <2>3 DEF Fit
  <2>5. QED
    BY <1>1, <2>1, <2>2, <2>4, MoveKeeps
<1>4. QED
  BY <1>2, <1>3

\* Here the request is built for one venue, and has the options of that one alone.
LEMMA ChooseKeeps == ASSUME PoolInv, NEW c \in Of("crate"), Choose(c) PROVE PoolInv'
<1> DEFINE v == CASE Request(c).curveOnly -> "curve"
                  [] Request(c).to # Request(c).from -> "pool"
                  [] OTHER -> venue
<1>1. /\ c \in Calls /\ venueOf' = [venueOf EXCEPT ![c] = v] /\ Go(c, "venue")
      /\ UNCHANGED <<plan, gas, mempool>>
  BY DEF Of, Choose
<1>2. ~Request(c).curveOnly \/ Request(c).to = Request(c).from
  BY OneVenueAssumption DEF Of, PoolInv, Places, Calls, Request
<1>3. /\ Request(c).curveOnly => v = "curve"
      /\ Request(c).to # Request(c).from => v = "pool"
  BY <1>2
<1> HIDE DEF v
<1>4. "venue" \in Labels /\ Fit(c, "venue", v, gas[c])
  BY <1>3 DEF Fit, Labels, Answerable, PoolSteps, Sending
<1>5. QED
  BY <1>1, <1>4, TakesVenue

\* A trade that the token has left behind is refused.
LEMMA CrateVenueKeeps == ASSUME PoolInv, NEW c \in Of("crate"), CrateVenue(c) PROVE PoolInv'
<1>1. /\ c \in Calls /\ Request(c).client = "crate"
      /\ venueOf' = [venueOf EXCEPT ![c] = venue] /\ UNCHANGED <<plan, gas, mempool>>
      /\ pc[c] = "venue" /\ Fit(c, pc[c], venueOf[c], gas[c])
  BY DEF Of, CrateVenue, PoolInv, AllFit
<1>2. venue \in {"pool", "curve"}
  BY DEF venue
<1>3. PICK to \in {"failed", "reach", "send", "curveQuote"} :
        /\ Go(c, to)
        /\ to = "reach" => venue = "pool" /\ ~VenueMismatch(c)
        /\ to = "send" => venue = "curve" /\ Request(c).kind \in Swaps /\ ~VenueMismatch(c)
  BY <1>2 DEF CrateVenue
<1>4. to \in Labels /\ to # "venue"
  BY DEF Labels, Final, Answerable
<1>5. Fit(c, to, venue, gas[c])
  <2>1. to \in PoolSteps => to = "reach"
    BY DEF PoolSteps
  <2>2. to \in Sending => to = "send"
    BY DEF Sending
  <2>3. Swapping(c, venue) => to # "send"
    BY <1>3 DEF Swapping, Swaps, Quotes
  <2>4. Optioned(c) /\ to \in {"reach", "send"} =>
          /\ venueOf[c] = venue
          /\ Request(c).curveOnly => venueOf[c] = "curve"
          /\ Request(c).to # Request(c).from => venueOf[c] = "pool"
    BY <1>1, <1>3 DEF Optioned, VenueMismatch, Fit
  <2>5. Optioned(c) /\ to = "reach" => ForPool(c, venue)
    BY <1>3, <2>4 DEF ForPool
  <2>6. Optioned(c) /\ to = "send" => ForCurve(c, venue)
    BY <1>3, <2>4 DEF ForCurve
  <2>7. QED
    BY <1>4, <2>1, <2>2, <2>3, <2>5, <2>6 DEF Fit
<1>6. QED
  BY <1>1, <1>3, <1>4, <1>5, TakesVenue

LEMMA CrateReachKeeps == ASSUME PoolInv, NEW c \in Calls, CrateReach(c) PROVE PoolInv'
<1>1. /\ pc[c] = "reach" /\ venueOf' = [venueOf EXCEPT ![c] = "pool"]
      /\ UNCHANGED <<plan, gas, mempool>>
  BY DEF CrateReach
<1>2. PICK to \in {"failed", "quote", "tokenAllowance", "allowance", "send"} :
        Go(c, to) /\ (to \in Sending => Native)
  BY DEF CrateReach, Sending
<1>3. QED
  BY <1>1, <1>2, ReachFits, TakesVenue

LEMMA CratePoolIdKeeps == ASSUME PoolInv, NEW c \in Calls, CratePoolId(c) PROVE PoolInv'
<1>1. Unmoved /\ mempool' = mempool /\ pc[c] = "poolId"
  BY DEF CratePoolId, Unmoved
<1>2. PICK to \in {"send", "accrued", "failed"} :
        Go(c, to) /\ (to = "send" => Request(c).kind = "distribute")
  BY DEF CratePoolId
<1>3. CASE to = "send"
  <2>1. ~Swapping(c, venueOf[c]) /\ ~Optioned(c) /\ to \in Sending
    BY <1>2, <1>3 DEF Swapping, Optioned, Swaps, Quotes, Sending
  <2>2. QED
    BY <1>1, <1>2, <2>1, NativeOrOther, MoveKeeps
<1>4. CASE to # "send"
  <2>1. to \in Carefree
    BY <1>4 DEF Carefree, Labels, PoolSteps, Sending, Final, Answerable
  <2>2. QED
    BY <1>1, <1>2, <2>1, CarefreeFits, MoveKeeps
<1>5. QED
  BY <1>3, <1>4

LEMMA CrateSendStep == ASSUME PoolInv, NEW c \in Calls, CrateSend(c) PROVE PoolInv'
<1> DEFINE limit == CASE LimitOf(c) # 0 -> LimitOf(c)
                      [] LimitOf(c) = 0 /\ Request(c).kind \in Swaps -> Estimated
                      [] OTHER -> Unlimited
<1>1. Unmoved /\ pc[c] = "send" /\ gas[c] \in Nat /\ Request(c).gas_limit \in Nat
  BY RequestTypes DEF CrateSend, Unmoved, PoolInv, Places, Requests
<1>2. LimitOf(c) \in Nat /\ (gas[c] # 0 => LimitOf(c) = gas[c])
  BY <1>1 DEF LimitOf
<1>3. limit \in Nat /\ (gas[c] # 0 => limit = gas[c])
  BY <1>2, PoolFigures DEF Unlimited
<1>4. \/ /\ mempool' = [mempool EXCEPT ![Request(c).from] = Append(@, Transaction(c, limit))]
         /\ Go(c, "await")
      \/ Go(c, "failed") /\ mempool' = mempool
  BY DEF CrateSend
<1> HIDE DEF limit
<1>5. QED
  BY <1>1, <1>3, <1>4, SendsSound, FailsKeeps

-----------------------------------------------------------------------------
(* Callers and the chain.                                                  *)

LEMMA CallAgainKeeps == ASSUME PoolInv, NEW c \in Calls, CallAgain(c) PROVE PoolInv'
<1>1. /\ plan' = plan /\ mempool' = mempool /\ Go(c, "idle")
      /\ gas' = [gas EXCEPT ![c] = 0] /\ gas \in [Calls -> Nat]
      /\ venueOf' = [venueOf EXCEPT ![c] = "none"] /\ DOMAIN venueOf = Calls
  BY DEF CallAgain, PoolInv, Places
<1>2. "idle" \in Carefree
  BY DEF Carefree, Labels, PoolSteps, Sending
<1>3. Goes(c, "idle")
  BY <1>1, <1>2, CarefreeFits DEF Goes
<1>4. QED
  BY <1>1, <1>2, <1>3, CarefreeFits, QueuesStay

\* Where no call moves, only the queues have to be looked at.
LEMMA NoCallMoves ==
    ASSUME PoolInv, UNCHANGED <<plan, pc, gas, venueOf>>,
           mempool' \in [Accounts -> Seq(Transactions)],
           \A a \in Accounts : \A i \in DOMAIN mempool'[a] : mempool'[a][i] \in Sound
    PROVE  PoolInv'
<1>1. Sound' = Sound /\ Calls' = Calls
  BY DEF Sound, GasKept, OptionsKept, Optioned, Native, Request, Calls
<1>2. Places' /\ AllSound'
  BY <1>1 DEF PoolInv, Places, AllSound
<1>3. AllFit'
  BY <1>1 DEF PoolInv, AllFit, Fit, Native, Swapping, Optioned, ForPool, ForCurve, EnoughGas,
        Request
<1>4. QED
  BY <1>2, <1>3 DEF PoolInv

LEMMA MineKeeps == ASSUME PoolInv, NEW a \in Accounts, Mine(a) PROVE PoolInv'
<1>1. /\ mempool[a] # <<>> /\ mempool' = [mempool EXCEPT ![a] = Tail(@)]
      /\ UNCHANGED <<plan, pc, gas, venueOf>>
  BY DEF Mine
<1>2. /\ mempool' \in [Accounts -> Seq(Transactions)]
      /\ \A b \in Accounts : \A i \in DOMAIN mempool'[b] : mempool'[b][i] \in Sound
  BY <1>1, QueueRemoved DEF PoolInv, Places, AllSound
<1>3. QED
  BY <1>1, <1>2, NoCallMoves

LEMMA NothingSent ==
    ASSUME PoolInv, UNCHANGED <<plan, pc, gas, venueOf, mempool>> PROVE PoolInv'
<1>1. /\ mempool' \in [Accounts -> Seq(Transactions)]
      /\ \A a \in Accounts : \A i \in DOMAIN mempool'[a] : mempool'[a][i] \in Sound
  BY DEF PoolInv, Places, AllSound
<1>2. QED
  BY <1>1, NoCallMoves

LEMMA InitPoolInv == Init => PoolInv
<1> SUFFICES ASSUME Init PROVE PoolInv
  OBVIOUS
<1>1. /\ plan \in Plans /\ mempool = [a \in Accounts |-> <<>>]
      /\ pc = [c \in Calls |-> "idle"] /\ gas = [c \in Calls |-> 0]
      /\ venueOf = [c \in Calls |-> "none"]
  BY DEF Init
<1>2. Places
  BY <1>1 DEF Places, Labels
<1>3. "idle" \in Carefree
  BY DEF Carefree, Labels, PoolSteps, Sending
<1>4. AllFit
  BY <1>1, <1>3, CarefreeFits DEF AllFit
<1>5. AllSound
  BY <1>1 DEF AllSound
<1>6. QED
  BY <1>2, <1>4, <1>5 DEF PoolInv

LEMMA NextPoolInv == PoolInv /\ [Next]_vars => PoolInv'
<1> SUFFICES ASSUME PoolInv, [Next]_vars PROVE PoolInv'
  OBVIOUS
<1>1. ASSUME NEW c \in Of("ts"), Step(c) PROVE PoolInv'
  <2>1. c \in Calls
    BY DEF Of
  <2>2. QED
    BY <1>1, <2>1, StartKeeps, VenueKeeps, CarefreeKeeps, ReachKeeps, ReadAllowanceKeeps,
       ReadTokenAllowanceKeeps, PoolStepsKeep, SendApproveKeeps, EstimateKeeps, SimulateKeeps,
       SendStep, PoolIdKeeps DEF Step
<1>2. ASSUME NEW c \in Of("crate"), CrateStep(c) PROVE PoolInv'
  <2>1. c \in Calls
    BY DEF Of
  <2>2. QED
    BY <1>2, <2>1, CrateStartKeeps, ChooseKeeps, CrateVenueKeeps, CarefreeKeeps,
       CrateReachKeeps, CratePoolIdKeeps, ReadAllowanceKeeps, PoolStepsKeep, SendApproveKeeps,
       ReadTokenAllowanceKeeps, EstimateKeeps, CrateSendStep DEF CrateStep
<1>3. ASSUME NEW c \in Calls, RpcFails(c) \/ CallAgain(c) PROVE PoolInv'
  BY <1>3, CarefreeKeeps, CallAgainKeeps
<1>4. ASSUME NEW a \in Accounts, Mine(a) PROVE PoolInv'
  BY <1>4, MineKeeps
<1>5. CASE Graduate \/ Migrate \/ Dust \/ WorldChanges
  BY <1>5, NothingSent DEF Graduate, Migrate, Dust, WorldChanges
<1>6. CASE UNCHANGED vars
  BY <1>6, NothingSent DEF vars
<1>7. QED
  BY <1>1, <1>2, <1>3, <1>4, <1>5, <1>6 DEF Next

\* Every swap in an ERC-20 quote that either client sends can pay out the fee that
\* accrued after its estimate (quote-token.ts and quote.rs, the pool's headroom).
THEOREM PoolPushesPaid == Spec => []PoolPushesHaveGas
<1>1. PoolInv => PoolPushesHaveGas
  BY DEF PoolInv, AllSound, Sound, GasKept, PoolPushesHaveGas
<1>2. QED
  BY <1>1, InitPoolInv, NextPoolInv, PTL DEF Spec

\* No option of a trade is dropped, whichever venue the token has moved to since the
\* caller chose it (trade.ts refuseCurveOnly, refusePoolOnly; pool.rs Trade::buy, sell).
THEOREM NoOptionDropped == Spec => []OptionsHonoured
<1>1. PoolInv => OptionsHonoured
  BY DEF PoolInv, AllSound, Sound, OptionsKept, Optioned, OptionsHonoured
<1>2. QED
  BY <1>1, InitPoolInv, NextPoolInv, PTL DEF Spec

-----------------------------------------------------------------------------
(* What a swap or a distribution tells is what its own transaction did.    *)
(*                                                                         *)
(* A call has at most one transaction on its way, apart from its approve;  *)
(* its receipt says what the transaction did, and so do its logs, if they  *)
(* are read under the pool's id; and the call reads them under that id.    *)

Amounts == [quote : Nat, tokens : Nat, fee : Nat, distributed : Nat]

\* The logs of kind for pool, in a receipt that has one of amount or, if it is 0, none.
Logged(logs, kind, pool, amount) ==
    LogsFor(logs, kind, pool) = IF amount = 0 THEN {} ELSE {FeeLog(kind, pool, amount)}

Transfers(logs) == {l \in logs : l.kind = "Transfer"}

\* The logs of a swap that did did.
Filled(req, quoteIs0, logs, did) ==
    LET leg == IF req.kind = "buy" THEN did.fee - did.quote ELSE did.quote + did.fee
        tokens == IF req.kind = "buy" THEN did.tokens ELSE -did.tokens
    IN  /\ did \in Amounts
        /\ LogsFor(logs, "Swap", ThisPool) = {SwapLog(ThisPool, Oriented(quoteIs0, leg, tokens))}
        /\ Logged(logs, "HookFeeTaken", ThisPool, did.fee)
        /\ Logged(logs, "FeesDistributed", ThisPool, did.distributed)
        /\ Transfers(logs) =
               {IF req.kind = "buy" THEN TransferLog(PoolManager, req.to, did.tokens)
                ELSE TransferLog(req.from, PoolManager, did.tokens)}

\* The logs of a distribution that did did: none of a pool that there is not.
Distributed(logs, did) ==
    /\ did \in Amounts /\ did = [Nothing EXCEPT !.distributed = did.distributed]
    /\ Logged(logs, "FeesDistributed", ThisPool, did.distributed)
    /\ Logged(logs, "FeesDistributed", ZeroPool, 0)

CurveFill(req) == [Nothing EXCEPT !.quote = req.amount, !.tokens = req.amount]

\* What the receipt main of a call on venue v can be, in a market that is in phase.
Confirmed(req, quoteIs0, v, phase, main) ==
    /\ ~main.ok => main.logs = {} /\ main.did = Nothing
    /\ main.ok /\ req.kind \in Swaps =>
           IF v = "curve" THEN main.did = CurveFill(req)
           ELSE phase = "migrated" /\ Filled(req, quoteIs0, main.logs, main.did)
    /\ main.ok /\ req.kind = "distribute" => Distributed(main.logs, main.did)

IsTrade(req) == req.kind \in Swaps \cup {"distribute"}

\* Where a call that has sent nothing but an approve can be, and where any call can.
Unsent(req) ==
    {"idle"} \cup Sending
    \cup (IF req.kind = "distribute" THEN {"poolId"} ELSE {"choose", "venue"} \cup PoolSteps)
Stages(req) ==
    Unsent(req) \cup {"await"} \cup Final
    \cup (IF req.kind \in Swaps /\ req.client = "ts" THEN {"poolId"} ELSE {})

\* A transaction does what its call wants at the venue v.
Matches(tx, req, v) ==
    /\ tx.kind = CASE v = "curve" /\ req.kind = "buy"  -> "curveBuy"
                   [] v = "curve" /\ req.kind = "sell" -> "curveSell"
                   [] OTHER -> req.kind
    /\ tx.from = req.from /\ tx.to = req.to /\ tx.amount = req.amount

\* Where a swap has its venue, and a call the pool's id it reads its logs under.
VenueFits(req, p, v) ==
    /\ req.kind \in Swaps /\ p \in Stages(req) \ ({"idle", "choose", "venue", "reach"} \cup Final)
       => v \in {"curve", "pool"}
    /\ req.kind = "distribute" => v = "none"
    /\ req.kind \in Swaps /\ p = "poolId" => v = "pool"

PoolFits(req, p, v, pool) ==
    /\ req.kind = "distribute" /\ p \in Sending \cup {"await"} => pool \in {ThisPool, ZeroPool}
    /\ /\ req.client = "crate"
       /\ p \in (PoolSteps \cup Sending \cup {"await"}) \ {"reach"}
       /\ v = "pool" \/ req.kind = "distribute"
       => pool = ThisPool

\* What holds of a call that is at p: the transactions it has on their way, its venue,
\* the pool's id it has read, its receipt, and what it told.
TradeFits(req, quoteIs0, p, sent, v, pool, phase, main, told) ==
    /\ p \in Stages(req)
    /\ p \in Unsent(req) => sent = {} /\ main = NoReceipt
    /\ sent # {} => main = NoReceipt
    /\ p \in {"done", "failed", "poolId"} => sent = {}
    /\ \A tx \in sent : Matches(tx, req, v)
    /\ VenueFits(req, p, v)
    /\ PoolFits(req, p, v, pool)
    /\ Confirmed(req, quoteIs0, v, phase, main)
    /\ p = "failed" /\ req.kind \in Swaps => ~main.ok
    /\ p = "done" =>
           told = IF req.kind \in Swaps \/ pool = ThisPool THEN main.did ELSE Nothing

\* The transactions of a call in a queue, apart from its approve.
Queued(queue) == UNION {{queue[a][i] : i \in DOMAIN queue[a]} : a \in Accounts}
OnWay(queue, c) == {tx \in Queued(queue) : tx.call = c /\ tx.kind # "approveQuote"}

SameCall ==
    {p \in Transactions \X Transactions :
        /\ p[1].call = p[2].call /\ IsTrade(Request(p[1].call))
        /\ "approveQuote" \notin {p[1].kind, p[2].kind}}

\* The transactions that the chain knows of.
Executable ==
    {tx \in Transactions :
        tx.kind \in Swaps \cup {"distribute", "approveQuote", "approveTokens", "curveBuy", "curveSell"}}

CallFits(c) ==
    IsTrade(Request(c)) =>
        TradeFits(Request(c), plan.quoteIs0, pc[c], OnWay(mempool, c), venueOf[c], poolOf[c],
                  market.phase, receipts[c].main, result[c])

\* A call that only reads sends nothing.
ReadFits(c) ==
    Request(c).kind = "accrued" => pc[c] \in {"idle", "poolId", "accrued"} \cup Final

MarketFits(m) == {"phase", "accrued"} \subseteq DOMAIN m /\ m.accrued \in Nat

WorldFits(w) ==
    {"rate", "depth"} \subseteq DOMAIN w /\ w.rate \in {1, 2} /\ w.depth \in Nat

HandleFits(h) ==
    DOMAIN h = {"settled", "poolId"} /\ h.settled \in {"none", "pool"}
    /\ h.poolId \in {Unknown, ThisPool}

ReceiptFits(r) == DOMAIN r = {"approve", "main"}

Filed ==
    /\ MarketFits(market) /\ WorldFits(world)
    /\ DOMAIN handle = Accounts /\ \A a \in Accounts : HandleFits(handle[a])
    /\ DOMAIN receipts = Calls /\ \A c \in Calls : ReceiptFits(receipts[c])
    /\ DOMAIN poolOf = Calls /\ DOMAIN result = Calls

FillInv ==
    /\ PoolInv
    /\ Filed
    /\ Lone(mempool, Accounts, SameCall)
    /\ \A a \in Accounts : \A i \in DOMAIN mempool[a] : mempool[a][i] \in Executable
    /\ \A c \in Calls : CallFits(c) /\ ReadFits(c)

-----------------------------------------------------------------------------
(* Sums over the logs of a receipt, of which there is one of a kind or none. *)

LEMMA NothingSummed == AmountsIn({}) = 0
<1> DEFINE Sums(g) == [s \in SUBSET {} |->
                          IF s = {} THEN 0
                          ELSE LET l == CHOOSE x \in s : TRUE IN Amount(l) + g[s \ {l}]]
           sums == CHOOSE g : g = Sums(g)
           none == [s \in SUBSET {} |-> 0]
<1>1. AmountsIn({}) = sums[{}]
  BY DEF AmountsIn, MapThenSumSet, MapThenFoldSet
<1>2. none = Sums(none)
  BY Zenon
<1>3. sums = Sums(sums)
  BY <1>2, Zenon
<1>4. QED
  BY <1>1, <1>3

LEMMA OneAmountSummed == ASSUME NEW l, l.amount \in Int PROVE AmountsIn({l}) = l.amount
<1> DEFINE Sums(g) == [s \in SUBSET {l} |->
                          IF s = {} THEN 0
                          ELSE LET k == CHOOSE x \in s : TRUE IN Amount(k) + g[s \ {k}]]
           sums == CHOOSE g : g = Sums(g)
           known == [s \in SUBSET {l} |-> IF s = {} THEN 0 ELSE Amount(l)]
<1>0. Amount(l) = l.amount
  BY DEF Amount
<1>1. AmountsIn({l}) = sums[{l}]
  BY DEF AmountsIn, MapThenSumSet, MapThenFoldSet
<1>2. (CHOOSE x \in {l} : TRUE) = l /\ {l} \ {l} = {}
  BY Zenon
<1>3. known = Sums(known)
  <2>1. ASSUME NEW s \in SUBSET {l} PROVE known[s] = Sums(known)[s]
    <3>1. CASE s = {}
      BY <3>1
    <3>2. CASE s = {l}
      <4>1. known[{}] = 0
        OBVIOUS
      <4>2. Sums(known)[s] = Amount(l) + known[{l} \ {l}]
        BY <1>2, <3>2, Zenon
      <4>3. QED
        BY <1>0, <1>2, <3>2, <4>1, <4>2
    <3>3. QED
      BY <3>1, <3>2
  <2> HIDE DEF known
  <2>2. known = [s \in SUBSET {l} |-> known[s]]
    BY DEF known
  <2>3. QED
    BY <2>1, <2>2
<1>4. sums = Sums(sums)
  <2> HIDE DEF known, Sums
  <2>1. QED
    BY <1>3, Zenon
<1> HIDE DEF sums
<1>5. sums[{l}] = Amount(l) + sums[{}]
  <2>1. sums[{l}] = Amount(l) + sums[{l} \ {l}]
    BY <1>2, <1>4, Zenon
  <2>2. QED
    BY <1>2, <2>1
<1>6. sums[{}] = 0
  BY <1>4
<1>7. QED
  BY <1>0, <1>1, <1>5, <1>6

LEMMA OneSwapSummed ==
    ASSUME NEW l, SwapQuote(l) \in Int PROVE MapThenSumSet(SwapQuote, {l}) = SwapQuote(l)
<1> DEFINE Sums(g) == [s \in SUBSET {l} |->
                          IF s = {} THEN 0
                          ELSE LET k == CHOOSE x \in s : TRUE IN SwapQuote(k) + g[s \ {k}]]
           sums == CHOOSE g : g = Sums(g)
           known == [s \in SUBSET {l} |-> IF s = {} THEN 0 ELSE SwapQuote(l)]
<1>1. MapThenSumSet(SwapQuote, {l}) = sums[{l}]
  BY DEF MapThenSumSet, MapThenFoldSet
<1>2. (CHOOSE x \in {l} : TRUE) = l /\ {l} \ {l} = {}
  BY Zenon
<1>3. known = Sums(known)
  <2>1. ASSUME NEW s \in SUBSET {l} PROVE known[s] = Sums(known)[s]
    <3>1. CASE s = {}
      BY <3>1
    <3>2. CASE s = {l}
      <4>1. known[{}] = 0
        OBVIOUS
      <4>2. Sums(known)[s] = SwapQuote(l) + known[{l} \ {l}]
        BY <1>2, <3>2, Zenon
      <4>3. QED
        BY <1>2, <3>2, <4>1, <4>2
    <3>3. QED
      BY <3>1, <3>2
  <2> HIDE DEF known
  <2>2. known = [s \in SUBSET {l} |-> known[s]]
    BY DEF known
  <2>3. QED
    BY <2>1, <2>2
<1>4. sums = Sums(sums)
  <2> HIDE DEF known, Sums
  <2>1. QED
    BY <1>3, Zenon
<1> HIDE DEF sums
<1>5. sums[{l}] = SwapQuote(l) + sums[{}]
  <2>1. sums[{l}] = SwapQuote(l) + sums[{l} \ {l}]
    BY <1>2, <1>4, Zenon
  <2>2. QED
    BY <1>2, <2>1
<1>6. sums[{}] = 0
  BY <1>4
<1>7. QED
  BY <1>1, <1>5, <1>6

\* The one log of a kind, or none, adds up to its amount.
LEMMA LoggedSum ==
    ASSUME NEW logs, NEW kind, NEW pool, NEW amount \in Nat, Logged(logs, kind, pool, amount)
    PROVE  AmountsIn(LogsFor(logs, kind, pool)) = amount
<1>1. CASE amount = 0
  BY <1>1, NothingSummed DEF Logged
<1>2. CASE amount # 0
  <2>1. FeeLog(kind, pool, amount).amount = amount
    BY DEF FeeLog
  <2>2. AmountsIn({FeeLog(kind, pool, amount)}) = amount
    BY <2>1, OneAmountSummed
  <2>3. QED
    BY <1>2, <2>2 DEF Logged
<1>3. QED
  BY <1>1, <1>2

\* A receipt with the logs of the swap that did did is read as did, by both clients.
LEMMA FillRead ==
    ASSUME NEW c, NEW logs, NEW did, Request(c).kind \in Swaps,
           Filled(Request(c), plan.quoteIs0, logs, did)
    PROVE  /\ ~FillRefused(c, logs, ThisPool)
           /\ QuoteFillFromLogs(c, logs, ThisPool) = did
           /\ poolOf[c] = ThisPool => PoolTradeResult(c, logs) = did
           /\ did # Err
<1> DEFINE req == Request(c)
           leg == IF req.kind = "buy" THEN did.fee - did.quote ELSE did.quote + did.fee
           tokens == IF req.kind = "buy" THEN did.tokens ELSE -did.tokens
           swap == SwapLog(ThisPool, Oriented(plan.quoteIs0, leg, tokens))
           moved == IF req.kind = "buy" THEN TransferLog(PoolManager, req.to, did.tokens)
                    ELSE TransferLog(req.from, PoolManager, did.tokens)
<1>1. /\ did.quote \in Nat /\ did.tokens \in Nat /\ did.fee \in Nat /\ did.distributed \in Nat
      /\ did = [quote |-> did.quote, tokens |-> did.tokens, fee |-> did.fee,
                distributed |-> did.distributed]
      /\ DOMAIN did = {"quote", "tokens", "fee", "distributed"}
  BY DEF Filled, Amounts
<1>2. req.kind \in {"buy", "sell"}
  BY DEF Swaps
<1>3. /\ LogsFor(logs, "Swap", ThisPool) = {swap}
      /\ Logged(logs, "HookFeeTaken", ThisPool, did.fee)
      /\ Logged(logs, "FeesDistributed", ThisPool, did.distributed)
      /\ Transfers(logs) = {moved}
  BY Zenon DEF Filled
<1>4. leg \in Int
  BY <1>1, <1>2
<1>5. SwapQuote(swap) = leg
  <2> HIDE DEF leg, tokens
  <2>1. QED
    BY DEF SwapQuote, SwapLog, QuoteLeg, Oriented
<1>6. moved.amount = did.tokens /\ moved.kind = "Transfer"
      /\ (req.kind = "buy" => moved.to = req.to) /\ (req.kind = "sell" => moved.from = req.from)
  BY DEF TransferLog
<1>7. TraderIn(logs, ThisPool) = IF req.kind = "buy" THEN -did.quote ELSE did.quote
  <2>1. MapThenSumSet(SwapQuote, LogsFor(logs, "Swap", ThisPool)) = leg
    <3> HIDE DEF leg, swap
    <3>1. QED
      BY <1>3, <1>4, <1>5, OneSwapSummed
  <2>2. AmountsIn(LogsFor(logs, "HookFeeTaken", ThisPool)) = did.fee
    BY <1>1, <1>3, LoggedSum
  <2>3. TraderIn(logs, ThisPool) = leg - did.fee
    BY <2>1, <2>2 DEF TraderIn
  <2>4. QED
    BY <1>1, <1>2, <2>3
<1>8. FeesDistributedIn(logs, ThisPool) = did.distributed
  BY <1>1, <1>3, LoggedSum DEF FeesDistributedIn
<1> HIDE DEF req, swap, leg, tokens, moved
<1>9. AmountsIn(LogsFor(logs, "HookFeeTaken", ThisPool)) = did.fee
  BY <1>1, <1>3, LoggedSum
<1>10. tokens_moved(c, logs) = {moved} /\ TokensMoved(c, logs) = did.tokens
  <2>1. tokens_moved(c, logs) = {l \in Transfers(logs) :
                                   IF req.kind = "buy" THEN l.to = req.to ELSE l.from = req.from}
    BY Zenon DEF tokens_moved, Transfers, req
  <2>2. tokens_moved(c, logs) = {moved}
    BY <1>2, <1>3, <1>6, <2>1
  <2>3. AmountsIn({moved}) = did.tokens
    BY <1>1, <1>6, OneAmountSummed
  <2>4. TokensMoved(c, logs) = AmountsIn(tokens_moved(c, logs))
    BY DEF TokensMoved, tokens_moved
  <2>5. QED
    BY <2>2, <2>3, <2>4
<1>11. Moved(TraderIn(logs, ThisPool)) = did.quote
  BY <1>1, <1>2, <1>7 DEF Moved
<1>12. ~FillRefused(c, logs, ThisPool)
  BY <1>1, <1>2, <1>3, <1>7 DEF FillRefused, req
<1>13. QuoteFillFromLogs(c, logs, ThisPool) = did
  BY <1>1, <1>8, <1>9, <1>10, <1>11 DEF QuoteFillFromLogs
<1>14. did # Err
  BY <1>1 DEF Err
<1>15. ASSUME poolOf[c] = ThisPool PROVE PoolTradeResult(c, logs) = did
  <2>1. quote_fill_from_logs(c, logs) = [quote |-> did.quote, fee |-> did.fee]
    BY <1>1, <1>2, <1>3, <1>7, <1>9, <1>11, <1>15 DEF quote_fill_from_logs, TraderIn, req
  <2>2. [quote |-> did.quote, fee |-> did.fee] # Err
    BY DEF Err
  <2>3. fees_distributed_from_logs(c, logs) = did.distributed
    BY <1>8, <1>15 DEF fees_distributed_from_logs, FeesDistributedIn
  <2>4. AmountsIn(tokens_moved(c, logs)) = did.tokens /\ tokens_moved(c, logs) # {}
    BY <1>10 DEF TokensMoved, tokens_moved
  <2>5. PoolTradeResult(c, logs) =
          [quote |-> did.quote, fee |-> did.fee, tokens |-> did.tokens, distributed |-> did.distributed]
    BY <2>1, <2>2, <2>3, <2>4 DEF PoolTradeResult
  <2>6. QED
    BY <1>1, <2>5
<1>16. QED
  BY <1>12, <1>13, <1>14, <1>15

\* So is a distribution, under whichever id its call has read.
LEMMA DistributionRead ==
    ASSUME NEW logs, NEW did, NEW pool \in {ThisPool, ZeroPool}, Distributed(logs, did)
    PROVE  [Nothing EXCEPT !.distributed = FeesDistributedIn(logs, pool)] =
               IF pool = ThisPool THEN did ELSE Nothing
<1>1. did.distributed \in Nat /\ did = [Nothing EXCEPT !.distributed = did.distributed]
      /\ Logged(logs, "FeesDistributed", ThisPool, did.distributed)
      /\ Logged(logs, "FeesDistributed", ZeroPool, 0)
  BY DEF Distributed, Amounts
<1>2. CASE pool = ThisPool
  <2>1. FeesDistributedIn(logs, pool) = did.distributed
    BY <1>1, <1>2, LoggedSum DEF FeesDistributedIn
  <2>2. QED
    BY <1>1, <1>2, <2>1
<1>3. CASE pool # ThisPool
  <2>1. FeesDistributedIn(logs, pool) = 0
    BY <1>1, <1>3, LoggedSum DEF FeesDistributedIn
  <2>2. [Nothing EXCEPT !.distributed = 0] = Nothing
    BY DEF Nothing
  <2>3. QED
    BY <1>3, <2>1, <2>2
<1>4. QED
  BY <1>2, <1>3

LEMMA NothingRead ==
    ASSUME NEW c, NEW pool
    PROVE  /\ FillRefused(c, {}, pool)
           /\ [Nothing EXCEPT !.distributed = FeesDistributedIn({}, pool)] = Nothing
<1>1. \A kind : LogsFor({}, kind, pool) = {}
  BY DEF LogsFor
<1>2. FeesDistributedIn({}, pool) = 0
  BY <1>1, NothingSummed DEF FeesDistributedIn
<1>3. QED
  BY <1>1, <1>2 DEF FillRefused, Nothing

-----------------------------------------------------------------------------
(* What the chain does, and what it logs of it.                            *)

LEMMA HookFeeWithin ==
    ASSUME NEW n \in Nat PROVE BuyFeeRaw(n) \in Nat /\ BuyFeeRaw(n) <= n
BY DEF BuyFeeRaw, PoolTradeFeeBps, BpsDenominator

\* A buyer pays and is given tokens; a seller gives tokens and is paid.
LEMMA FillSigned ==
    ASSUME NEW w, WorldFits(w), NEW tx, tx.kind \in Swaps, tx.amount \in Nat,
           NEW fill, fill = Fill(w, tx)
    PROVE  /\ fill.fee \in Nat /\ fill.tokens \in Nat /\ fill.leg \in Int
           /\ tx.kind = "buy" => -TraderLeg(fill) \in Nat
           /\ tx.kind = "sell" => TraderLeg(fill) \in Nat
<1>0. w.rate \in {1, 2} /\ w.depth \in Nat
  BY DEF WorldFits
<1>1. CASE tx.kind = "buy"
  <2> DEFINE fee == BuyFeeRaw(tx.amount)
             in == LesserOf(tx.amount - fee, w.depth)
  <2>1. fee \in Nat /\ fee <= tx.amount
    BY HookFeeWithin
  <2>2. in \in Nat
    BY <1>0, <2>1 DEF LesserOf
  <2>3. fill = [leg |-> -in, fee |-> fee, tokens |-> in * w.rate]
    BY <1>1 DEF Fill, BuyFill
  <2> HIDE DEF fee, in
  <2>4. in * w.rate \in Nat
    BY <1>0, <2>2
  <2>5. fill.leg = -in /\ fill.fee = fee /\ fill.tokens = in * w.rate
    BY <2>3
  <2>6. QED
    BY <1>1, <2>1, <2>2, <2>4, <2>5 DEF TraderLeg
<1>2. CASE tx.kind = "sell"
  <2> DEFINE gross == LesserOf(tx.amount \div w.rate, w.depth)
             fee == BuyFeeRaw(gross)
  <2>1. gross \in Nat
    BY <1>0 DEF LesserOf
  <2>2. fee \in Nat /\ fee <= gross
    BY <2>1, HookFeeWithin
  <2>3. fill = [leg |-> gross, fee |-> fee, tokens |-> gross * w.rate]
    BY <1>2 DEF Fill, SellFill
  <2> HIDE DEF fee, gross
  <2>4. gross * w.rate \in Nat
    BY <1>0, <2>1
  <2>5. fill.leg = gross /\ fill.fee = fee /\ fill.tokens = gross * w.rate
    BY <2>3
  <2>6. QED
    BY <1>2, <2>1, <2>2, <2>4, <2>5 DEF TraderLeg
<1>3. QED
  BY <1>1, <1>2 DEF Swaps

LEMMA DistributionLogged ==
    ASSUME NEW m, MarketFits(m), NEW w, NEW q0
    PROVE  LET logs == DistributionLogs(m, w, q0)
           IN  /\ Logged(logs, "FeesDistributed", ThisPool, m.accrued)
               /\ Logged(logs, "FeesDistributed", ZeroPool, 0)
               /\ Logged(logs, "HookFeeTaken", ThisPool, 0)
               /\ LogsFor(logs, "Swap", ThisPool) = {} /\ Transfers(logs) = {}
<1> DEFINE logs == DistributionLogs(m, w, q0)
           paid == FeeLog("FeesDistributed", ThisPool, m.accrued)
           others == {SwapLog(OtherPool, Oriented(q0, -m.accrued, m.accrued)),
                      FeeLog("HookFeeTaken", OtherPool, 1), FeeLog("FeesDistributed", OtherPool, 1)}
<1>1. ThisPool # OtherPool /\ ZeroPool # ThisPool /\ ZeroPool # OtherPool
  BY PoolChainAssumption
<1>2. m.accrued \in Nat
  BY DEF MarketFits
<1>3. /\ paid.kind = "FeesDistributed" /\ paid.pool = ThisPool
      /\ \A l \in others : l.kind \in {"Swap", "HookFeeTaken", "FeesDistributed"} /\ l.pool = OtherPool
  BY DEF FeeLog, SwapLog
<1>4. CASE m.accrued = 0
  <2>1. logs = {}
    BY <1>4 DEF DistributionLogs
  <2>2. QED
    BY <1>4, <2>1 DEF Logged, LogsFor, Transfers
<1>5. CASE m.accrued # 0
  <2>1. paid \in logs /\ \A l \in logs : l = paid \/ l \in others
    BY <1>5 DEF DistributionLogs
  <2> HIDE DEF logs, paid, others
  <2>2. LogsFor(logs, "FeesDistributed", ThisPool) = {paid}
    BY <1>1, <1>3, <2>1 DEF LogsFor
  <2>3. LogsFor(logs, "FeesDistributed", ZeroPool) = {} /\ LogsFor(logs, "HookFeeTaken", ThisPool) = {}
    BY <1>1, <1>3, <2>1 DEF LogsFor
  <2>4. LogsFor(logs, "Swap", ThisPool) = {} /\ Transfers(logs) = {}
    BY <1>1, <1>3, <2>1 DEF LogsFor, Transfers
  <2>5. QED
    BY <1>5, <2>2, <2>3, <2>4 DEF Logged, logs, paid
<1>6. QED
  BY <1>4, <1>5

LEMMA SwapLogged ==
    ASSUME NEW m, MarketFits(m), NEW w, NEW q0, NEW tx, tx.kind \in Swaps,
           NEW fill, fill.fee \in Nat
    PROVE  LET logs == SwapLogs(m, w, q0, tx, fill)
           IN  /\ LogsFor(logs, "Swap", ThisPool) =
                      {SwapLog(ThisPool, Oriented(q0, fill.leg, TokenLeg(tx, fill)))}
               /\ Logged(logs, "HookFeeTaken", ThisPool, fill.fee)
               /\ Logged(logs, "FeesDistributed", ThisPool, m.accrued)
               /\ Transfers(logs) =
                      {IF tx.kind = "buy" THEN TransferLog(PoolManager, tx.to, fill.tokens)
                       ELSE TransferLog(tx.from, PoolManager, fill.tokens)}
<1> DEFINE logs == SwapLogs(m, w, q0, tx, fill)
           swap == SwapLog(ThisPool, Oriented(q0, fill.leg, TokenLeg(tx, fill)))
           moved == IF tx.kind = "buy" THEN TransferLog(PoolManager, tx.to, fill.tokens)
                    ELSE TransferLog(tx.from, PoolManager, fill.tokens)
           taken == FeeLog("HookFeeTaken", ThisPool, fill.fee)
           fees == IF fill.fee > 0 THEN {taken} ELSE {}
           paid == DistributionLogs(m, w, q0)
<1>1. logs = {swap, moved} \cup fees \cup paid
  BY DEF SwapLogs
<1>2. /\ Logged(paid, "FeesDistributed", ThisPool, m.accrued)
      /\ LogsFor(paid, "HookFeeTaken", ThisPool) = {}
      /\ LogsFor(paid, "Swap", ThisPool) = {} /\ Transfers(paid) = {}
  BY DistributionLogged DEF Logged
<1>3. /\ swap.kind = "Swap" /\ swap.pool = ThisPool /\ moved.kind = "Transfer"
      /\ taken.kind = "HookFeeTaken" /\ taken.pool = ThisPool
      /\ \A l \in fees : l = taken
  BY DEF SwapLog, TransferLog, FeeLog
<1>4. /\ fill.fee = 0 => fees = {}
      /\ fill.fee # 0 => fees = {taken}
  OBVIOUS
<1> HIDE DEF logs, swap, moved, taken, fees, paid
<1>5. LogsFor(logs, "Swap", ThisPool) = {swap}
  BY <1>1, <1>2, <1>3 DEF LogsFor
<1>6. LogsFor(logs, "HookFeeTaken", ThisPool) = fees
  BY <1>1, <1>2, <1>3 DEF LogsFor
<1>7. LogsFor(logs, "FeesDistributed", ThisPool) = LogsFor(paid, "FeesDistributed", ThisPool)
  BY <1>1, <1>3 DEF LogsFor
<1>8. Transfers(logs) = {moved}
  BY <1>1, <1>2, <1>3 DEF Transfers
<1>9. Logged(logs, "HookFeeTaken", ThisPool, fill.fee)
  BY <1>4, <1>6 DEF Logged, taken
<1>10. Logged(logs, "FeesDistributed", ThisPool, m.accrued)
  BY <1>2, <1>7 DEF Logged
<1>11. QED
  BY <1>5, <1>8, <1>9, <1>10 DEF logs, swap, moved

\* What a transaction leaves of a market, whatever it moves in it.
Leaves(m, n) == MarketFits(n) /\ n.phase = m.phase

LEMMA SwapReceived ==
    ASSUME NEW m, MarketFits(m), NEW w, WorldFits(w), NEW native, NEW q0,
           NEW tx \in Transactions, tx.kind \in Swaps,
           NEW out, out = SwapOutcome(m, w, native, q0, tx),
           NEW req, req.kind = tx.kind, req.from = tx.from, req.to = tx.to
    PROVE  /\ Leaves(m, out.market)
           /\ ~out.ok => out.logs = {} /\ out.did = Nothing
           /\ out.ok => m.phase = "migrated" /\ Filled(req, q0, out.logs, out.did)
<1> DEFINE fill == Fill(w, tx)
           after == IF tx.kind = "buy" THEN Bought(m, native, tx, fill) ELSE Sold(m, tx, fill)
           did == [ quote |-> Moved(TraderLeg(fill)), tokens |-> fill.tokens,
                    fee |-> fill.fee, distributed |-> m.accrued ]
           logs == SwapLogs(m, w, q0, tx, fill)
<1>1. CASE SwapRefused(m, w, native, tx)
  <2>1. out = Reverted(m)
    BY <1>1 DEF SwapOutcome
  <2>2. out.ok = FALSE /\ out.market = m /\ out.logs = {} /\ out.did = Nothing
    BY <2>1 DEF Reverted
  <2>3. QED
    BY <2>2 DEF Leaves
<1>2. CASE ~SwapRefused(m, w, native, tx)
  <2>1. m.phase = "migrated"
    BY <1>2 DEF SwapRefused
  <2>2. out = [ok |-> TRUE, market |-> [after EXCEPT !.accrued = fill.fee], logs |-> logs, did |-> did]
    BY <1>2 DEF SwapOutcome
  <2>3. tx.amount \in Nat
    BY DEF Transactions
  <2>4. /\ fill.fee \in Nat /\ fill.tokens \in Nat /\ fill.leg \in Int
        /\ tx.kind = "buy" => -TraderLeg(fill) \in Nat
        /\ tx.kind = "sell" => TraderLeg(fill) \in Nat
    <3> HIDE DEF fill
    <3>1. fill = Fill(w, tx)
      BY DEF fill
    <3>2. QED
      BY <2>3, <3>1, FillSigned
  <2>5. "phase" \in DOMAIN after /\ "accrued" \in DOMAIN after /\ after.phase = m.phase
    <3> HIDE DEF fill
    <3>1. QED
      BY DEF MarketFits, Bought, Sold
  <2> HIDE DEF fill, after, did, logs
  <2>6. out.ok = TRUE /\ out.market = [after EXCEPT !.accrued = fill.fee] /\ out.logs = logs /\ out.did = did
    BY <2>2
  <2>7. Leaves(m, out.market)
    BY <2>4, <2>5, <2>6 DEF Leaves, MarketFits
  <2>8. /\ did.quote = Moved(TraderLeg(fill)) /\ did.tokens = fill.tokens /\ did.fee = fill.fee
        /\ did.distributed = m.accrued
    BY DEF did
  <2>9. did.quote \in Nat /\ did \in Amounts
    <3>1. Moved(TraderLeg(fill)) \in Nat
      BY <2>4 DEF Moved, Swaps, TraderLeg
    <3>2. QED
      BY <2>4, <3>1 DEF did, Amounts, MarketFits
  <2>10. fill.leg = (IF req.kind = "buy" THEN did.fee - did.quote ELSE did.quote + did.fee)
    BY <2>4, <2>8 DEF Moved, TraderLeg, Swaps
  <2>11. TokenLeg(tx, fill) = (IF req.kind = "buy" THEN did.tokens ELSE -did.tokens)
    BY <2>8 DEF TokenLeg
  <2>12. /\ LogsFor(logs, "Swap", ThisPool) =
                {SwapLog(ThisPool, Oriented(q0, fill.leg, TokenLeg(tx, fill)))}
         /\ Logged(logs, "HookFeeTaken", ThisPool, fill.fee)
         /\ Logged(logs, "FeesDistributed", ThisPool, m.accrued)
         /\ Transfers(logs) =
                {IF tx.kind = "buy" THEN TransferLog(PoolManager, tx.to, fill.tokens)
                 ELSE TransferLog(tx.from, PoolManager, fill.tokens)}
    BY <2>4, SwapLogged DEF logs
  <2>13. Filled(req, q0, logs, did)
    BY <2>8, <2>9, <2>10, <2>11, <2>12, Zenon DEF Filled
  <2>14. QED
    BY <2>1, <2>6, <2>7, <2>13
<1>3. QED
  BY <1>1, <1>2

LEMMA DistributionReceived ==
    ASSUME NEW m, MarketFits(m), NEW w, NEW q0, NEW out, out = DistributeOutcome(m, w, q0)
    PROVE  /\ Leaves(m, out.market)
           /\ ~out.ok => out.logs = {} /\ out.did = Nothing
           /\ out.ok => Distributed(out.logs, out.did)
<1> DEFINE did == [Nothing EXCEPT !.distributed = m.accrued]
           logs == DistributionLogs(m, w, q0)
<1>1. CASE m.phase # "migrated"
  <2>1. out = Reverted(m)
    BY <1>1 DEF DistributeOutcome
  <2>2. out.ok = FALSE /\ out.market = m /\ out.logs = {} /\ out.did = Nothing
    BY <2>1 DEF Reverted
  <2>3. QED
    BY <2>2 DEF Leaves
<1>2. CASE m.phase = "migrated"
  <2>1. out = [ok |-> TRUE, market |-> [m EXCEPT !.accrued = 0], logs |-> logs, did |-> did]
    BY <1>2 DEF DistributeOutcome
  <2>2. did \in Amounts /\ did.distributed = m.accrued /\ did = [Nothing EXCEPT !.distributed = did.distributed]
    BY DEF Nothing, Amounts, MarketFits
  <2>3. Logged(logs, "FeesDistributed", ThisPool, m.accrued) /\ Logged(logs, "FeesDistributed", ZeroPool, 0)
    BY DistributionLogged
  <2> HIDE DEF did, logs
  <2>4. out.ok = TRUE /\ out.market = [m EXCEPT !.accrued = 0] /\ out.logs = logs /\ out.did = did
    BY <2>1
  <2>5. Leaves(m, out.market)
    BY <2>4 DEF Leaves, MarketFits
  <2>6. Distributed(logs, did)
    BY <2>2, <2>3 DEF Distributed
  <2>7. QED
    BY <2>4, <2>5, <2>6
<1>3. QED
  BY <1>1, <1>2

LEMMA CurveReceived ==
    ASSUME NEW m, MarketFits(m), NEW tx, tx.kind \in {"curveBuy", "curveSell"},
           NEW out, out = CurveOutcome(m, tx), NEW req, req.amount = tx.amount
    PROVE  /\ Leaves(m, out.market)
           /\ ~out.ok => out.logs = {} /\ out.did = Nothing
           /\ out.ok => out.did = CurveFill(req)
<1>1. CASE out = Reverted(m)
  <2>1. out.ok = FALSE /\ out.market = m /\ out.logs = {} /\ out.did = Nothing
    BY <1>1 DEF Reverted
  <2>2. QED
    BY <2>1 DEF Leaves
<1>2. CASE out # Reverted(m)
  <2> DEFINE bought == [m EXCEPT !.quote[tx.from] = @ - tx.amount, !.tokens[tx.from] = @ + tx.amount]
             sold == [m EXCEPT !.quote[tx.from] = @ + tx.amount, !.tokens[tx.from] = @ - tx.amount]
             did == CurveFill(req)
  <2>1. out = [ok |-> TRUE, logs |-> {}, market |-> IF tx.kind = "curveBuy" THEN bought ELSE sold,
               did |-> did]
    BY <1>2 DEF CurveOutcome, CurveFill
  <2>2. Leaves(m, bought) /\ Leaves(m, sold)
    BY DEF Leaves, MarketFits
  <2> HIDE DEF bought, sold, did
  <2>3. out.market \in {bought, sold} /\ out.did = did /\ out.ok = TRUE
    BY <2>1
  <2>4. QED
    BY <2>2, <2>3 DEF did
<1>3. QED
  BY <1>1, <1>2

\* The receipt of a transaction is one of what its call wanted.
LEMMA Received ==
    ASSUME NEW m, MarketFits(m), NEW w, WorldFits(w), NEW native, NEW q0,
           NEW tx \in Executable, NEW out, out = Outcome(m, w, native, q0, tx)
    PROVE  /\ Leaves(m, out.market)
           /\ \A req, v : IsTrade(req) /\ Matches(tx, req, v) /\ (req.kind = "distribute" => v = "none")
                          => Confirmed(req, q0, v, m.phase, out)
<1>0. /\ tx \in Transactions
      /\ tx.kind \in Swaps \cup {"distribute", "approveQuote", "approveTokens", "curveBuy", "curveSell"}
  BY DEF Executable
<1>1. ASSUME NEW req, NEW v, IsTrade(req), Matches(tx, req, v), req.kind = "distribute" => v = "none"
      PROVE  /\ tx.from = req.from /\ tx.to = req.to /\ tx.amount = req.amount
             /\ req.kind \in Swaps =>
                    IF v = "curve" THEN tx.kind \in {"curveBuy", "curveSell"} ELSE tx.kind = req.kind
             /\ req.kind = "distribute" => tx.kind = "distribute"
             /\ req.kind \in Swaps \cup {"distribute"}
  BY <1>1 DEF Matches, IsTrade, Swaps
<1>2. CASE tx.kind \in Swaps
  <2>1. out = SwapOutcome(m, w, native, q0, tx)
    BY <1>2 DEF Outcome, Swaps
  <2>2. Leaves(m, out.market)
    <3>1. \E req : req.kind = tx.kind /\ req.from = tx.from /\ req.to = tx.to
      OBVIOUS
    <3>2. QED
      BY <1>0, <1>2, <2>1, <3>1, SwapReceived
  <2>3. ASSUME NEW req, NEW v, IsTrade(req), Matches(tx, req, v), req.kind = "distribute" => v = "none"
        PROVE  Confirmed(req, q0, v, m.phase, out)
    <3>1. req.kind = tx.kind /\ tx.from = req.from /\ tx.to = req.to /\ v # "curve"
      BY <1>1, <1>2, <2>3 DEF Swaps
    <3>2. /\ ~out.ok => out.logs = {} /\ out.did = Nothing
          /\ out.ok => m.phase = "migrated" /\ Filled(req, q0, out.logs, out.did)
      BY <1>0, <1>2, <2>1, <3>1, SwapReceived
    <3>3. req.kind # "distribute"
      BY <1>2, <3>1 DEF Swaps
    <3>4. QED
      BY <3>1, <3>2, <3>3, Zenon DEF Confirmed
  <2>4. QED
    BY <2>2, <2>3
<1>3. CASE tx.kind = "distribute"
  <2>1. out = DistributeOutcome(m, w, q0)
    BY <1>3 DEF Outcome
  <2>2. /\ Leaves(m, out.market)
        /\ ~out.ok => out.logs = {} /\ out.did = Nothing
        /\ out.ok => Distributed(out.logs, out.did)
    BY <2>1, DistributionReceived
  <2>3. ASSUME NEW req, NEW v, IsTrade(req), Matches(tx, req, v), req.kind = "distribute" => v = "none"
        PROVE  Confirmed(req, q0, v, m.phase, out)
    <3>1. req.kind \notin Swaps
      <4>1. "distribute" \notin Swaps \cup {"curveBuy", "curveSell"}
        BY DEF Swaps
      <4>2. QED
        BY <1>1, <1>3, <2>3, <4>1
    <3>2. QED
      BY <2>2, <3>1, Zenon DEF Confirmed
  <2>4. QED
    BY <2>2, <2>3
<1>4. CASE tx.kind \in {"curveBuy", "curveSell"}
  <2>1. out = CurveOutcome(m, tx)
    BY <1>4 DEF Outcome
  <2>2. Leaves(m, out.market)
    <3>1. \E req : req.amount = tx.amount
      OBVIOUS
    <3>2. QED
      BY <1>4, <2>1, <3>1, CurveReceived
  <2>3. ASSUME NEW req, NEW v, IsTrade(req), Matches(tx, req, v), req.kind = "distribute" => v = "none"
        PROVE  Confirmed(req, q0, v, m.phase, out)
    <3>1. req.kind # "distribute" /\ v = "curve" /\ req.amount = tx.amount
      BY <1>1, <1>4, <2>3 DEF Swaps
    <3>2. /\ ~out.ok => out.logs = {} /\ out.did = Nothing
          /\ out.ok => out.did = CurveFill(req)
      BY <1>4, <2>1, <3>1, CurveReceived
    <3>3. QED
      BY <3>1, <3>2, Zenon DEF Confirmed
  <2>4. QED
    BY <2>2, <2>3
<1>5. CASE tx.kind \in {"approveQuote", "approveTokens"}
  <2>1. out.market = IF tx.kind = "approveQuote" THEN [m EXCEPT !.quoteAllowance[tx.from] = tx.amount]
                     ELSE [m EXCEPT !.tokenAllowance[tx.from] = tx.amount]
    BY <1>5 DEF Outcome, ApproveOutcome
  <2>2. Leaves(m, out.market)
    BY <2>1 DEF Leaves, MarketFits
  <2>3. \A req, v : ~(IsTrade(req) /\ Matches(tx, req, v) /\ (req.kind = "distribute" => v = "none"))
    BY <1>1, <1>5 DEF Swaps
  <2>4. QED
    BY <2>2, <2>3
<1>6. QED
  BY <1>0, <1>2, <1>3, <1>4, <1>5

-----------------------------------------------------------------------------
(* What a step leaves of what the calls told and will tell.                *)

LEMMA KindsSame ==
    ASSUME plan' = plan
    PROVE  /\ Calls' = Calls /\ SameCall' = SameCall
           /\ \A c \in Calls : Request(c)' = Request(c)
BY DEF Calls, SameCall, Request

\* A market only goes on to be migrated.
Onward(phase, next) == phase = "migrated" => next = "migrated"

LEMMA FitsOnward ==
    ASSUME NEW req, NEW q0, NEW p, NEW sent, NEW v, NEW pool, NEW phase, NEW main, NEW told,
           TradeFits(req, q0, p, sent, v, pool, phase, main, told),
           NEW next, Onward(phase, next)
    PROVE  TradeFits(req, q0, p, sent, v, pool, next, main, told)
<1>1. Confirmed(req, q0, v, phase, main) => Confirmed(req, q0, v, next, main)
  BY Zenon DEF Confirmed, Onward
<1>2. QED
  BY <1>1, Zenon DEF TradeFits

\* The parts of the invariant after a step.
LEMMA FillHolds ==
    ASSUME FillInv, PoolInv', plan' = plan, Filed', Lone(mempool', Accounts, SameCall),
           \A a \in Accounts : \A i \in DOMAIN mempool'[a] : mempool'[a][i] \in Executable,
           \A c \in Calls : IsTrade(Request(c)) =>
               TradeFits(Request(c), plan.quoteIs0, pc'[c], OnWay(mempool', c), venueOf'[c],
                         poolOf'[c], market'.phase, receipts'[c].main, result'[c]),
           \A c \in Calls :
               Request(c).kind = "accrued" => pc'[c] \in {"idle", "poolId", "accrued"} \cup Final
    PROVE  FillInv'
<1>1. Calls' = Calls /\ SameCall' = SameCall /\ \A c \in Calls : Request(c)' = Request(c)
  BY KindsSame
<1>2. \A c \in Calls : CallFits(c)'
  BY <1>1, Zenon DEF CallFits
<1>3. \A c \in Calls : ReadFits(c)'
  BY <1>1, Zenon DEF ReadFits
<1>4. Lone(mempool, Accounts, SameCall)'
  BY <1>1 DEF Lone
<1>5. (\A a \in Accounts : \A i \in DOMAIN mempool[a] : mempool[a][i] \in Executable)'
  OBVIOUS
<1>6. QED
  BY <1>1, <1>2, <1>3, <1>4, <1>5 DEF FillInv

\* What a step of one call leaves alone.
Others(c) ==
    /\ UNCHANGED <<plan, world, mempool>>
    /\ DOMAIN handle' = Accounts /\ \A a \in Accounts : HandleFits(handle'[a])
    /\ DOMAIN receipts' = Calls /\ \A d \in Calls : ReceiptFits(receipts'[d])
    /\ DOMAIN poolOf' = Calls /\ DOMAIN result' = Calls
    /\ \A d \in Calls \ {c} :
           /\ venueOf'[d] = venueOf[d] /\ poolOf'[d] = poolOf[d]
           /\ receipts'[d] = receipts[d] /\ result'[d] = result[d]

\* A step of one call that sends nothing.
LEMMA OneFits ==
    ASSUME FillInv, PoolInv', NEW c \in Calls, NEW to, Go(c, to), Others(c), market' = market,
           IsTrade(Request(c)) =>
               TradeFits(Request(c), plan.quoteIs0, to, OnWay(mempool, c), venueOf'[c], poolOf'[c],
                         market.phase, receipts'[c].main, result'[c]),
           Request(c).kind = "accrued" => to \in {"idle", "poolId", "accrued"} \cup Final
    PROVE  FillInv'
<1>1. pc \in [Calls -> Labels] /\ pc' = [pc EXCEPT ![c] = to] /\ plan' = plan
      /\ mempool' = mempool /\ world' = world
  BY DEF FillInv, PoolInv, Places, Go, Others
<1>2. Filed'
  BY <1>1, KindsSame DEF FillInv, Filed, Others
<1>3. ASSUME NEW d \in Calls, IsTrade(Request(d))
      PROVE  TradeFits(Request(d), plan.quoteIs0, pc'[d], OnWay(mempool', d), venueOf'[d],
                       poolOf'[d], market'.phase, receipts'[d].main, result'[d])
  <2>1. CASE d = c
    <3>1. pc'[d] = to
      BY <1>1, <2>1
    <3>2. QED
      BY <1>1, <1>3, <2>1, <3>1
  <2>2. CASE d # c
    <3>1. /\ pc'[d] = pc[d] /\ venueOf'[d] = venueOf[d] /\ poolOf'[d] = poolOf[d]
          /\ receipts'[d] = receipts[d] /\ result'[d] = result[d]
      BY <1>1, <2>2 DEF Others
    <3>2. TradeFits(Request(d), plan.quoteIs0, pc[d], OnWay(mempool, d), venueOf[d], poolOf[d],
                    market.phase, receipts[d].main, result[d])
      BY <1>3 DEF FillInv, CallFits
    <3>3. QED
      BY <1>1, <3>1, <3>2
  <2>3. QED
    BY <2>1, <2>2
<1>4. ASSUME NEW d \in Calls, Request(d).kind = "accrued"
      PROVE  pc'[d] \in {"idle", "poolId", "accrued"} \cup Final
  <2>1. CASE d = c
    BY <1>1, <1>4, <2>1
  <2>2. CASE d # c
    BY <1>1, <1>4, <2>2 DEF FillInv, ReadFits
  <2>3. QED
    BY <2>1, <2>2
<1>5. /\ Lone(mempool', Accounts, SameCall)
      /\ \A a \in Accounts : \A i \in DOMAIN mempool'[a] : mempool'[a][i] \in Executable
  BY <1>1 DEF FillInv
<1>6. QED
  BY <1>1, <1>2, <1>3, <1>4, <1>5, FillHolds

\* A call that has sent nothing goes on, or ends without having traded.
LEMMA UnsentFits ==
    ASSUME FillInv, PoolInv', NEW c \in Calls, NEW to, Go(c, to), Others(c),
           market' = market, receipts'[c].main = receipts[c].main,
           IsTrade(Request(c)) =>
               /\ pc[c] \in Unsent(Request(c))
               /\ to \in Unsent(Request(c)) \cup {"failed", "lost"}
               /\ VenueFits(Request(c), to, venueOf'[c])
               /\ PoolFits(Request(c), to, venueOf'[c], poolOf'[c]),
           Request(c).kind = "accrued" => to \in {"idle", "poolId", "accrued"} \cup Final
    PROVE  FillInv'
<1>1. ASSUME IsTrade(Request(c))
      PROVE  TradeFits(Request(c), plan.quoteIs0, to, OnWay(mempool, c), venueOf'[c], poolOf'[c],
                       market.phase, receipts'[c].main, result'[c])
  <2>1. OnWay(mempool, c) = {} /\ receipts'[c].main = NoReceipt
    BY <1>1, Zenon DEF FillInv, CallFits, TradeFits
  <2>2. ~NoReceipt.ok /\ NoReceipt.logs = {} /\ NoReceipt.did = Nothing
    BY DEF NoReceipt
  <2>3. Confirmed(Request(c), plan.quoteIs0, venueOf'[c], market.phase, NoReceipt)
    BY <2>2, Zenon DEF Confirmed
  <2>4. to \in Stages(Request(c)) /\ to # "done"
    BY <1>1 DEF Stages, Final, Unsent, Sending, PoolSteps
  <2>5. QED
    BY <1>1, <2>1, <2>2, <2>3, <2>4, Zenon DEF TradeFits
<1>2. QED
  BY <1>1, OneFits

\* Once a call is on its venue and has read the pool's id, it keeps them.
OnVenue == (PoolSteps \cup Sending) \ {"reach"}

LEMMA OnVenueFits ==
    ASSUME FillInv, PoolInv', NEW c \in Calls, pc[c] \in OnVenue,
           NEW to \in OnVenue \cup {"failed"}, Go(c, to),
           pc[c] \in Sending => to \in Sending \cup {"failed"},
           UNCHANGED <<plan, market, world, handle, mempool, receipts, poolOf, venueOf, result>>
    PROVE  FillInv'
<1>1. Others(c)
  BY KindsSame DEF Others, FillInv, Filed
<1>2. ASSUME IsTrade(Request(c))
      PROVE  /\ pc[c] \in Unsent(Request(c))
             /\ to \in Unsent(Request(c)) \cup {"failed", "lost"}
             /\ VenueFits(Request(c), to, venueOf'[c])
             /\ PoolFits(Request(c), to, venueOf'[c], poolOf'[c])
  <2>1. /\ pc[c] \in Stages(Request(c))
        /\ VenueFits(Request(c), pc[c], venueOf[c])
        /\ PoolFits(Request(c), pc[c], venueOf[c], poolOf[c])
    BY <1>2 DEF FillInv, CallFits, TradeFits
  <2>2. CASE Request(c).kind = "distribute"
    <3>1. pc[c] \in Sending /\ Request(c).kind \notin Swaps
      BY <2>1, <2>2 DEF Stages, Unsent, OnVenue, PoolSteps, Sending, Final, Swaps
    <3>2. to \in Sending \cup {"failed"}
      BY <3>1
    <3>3. QED
      BY <2>1, <2>2, <3>1, <3>2 DEF VenueFits, PoolFits, OnVenue, Unsent, Sending, PoolSteps
  <2>3. CASE Request(c).kind \in Swaps
    <3>1. Request(c).kind # "distribute"
      BY <2>3 DEF Swaps
    <3>2. to = "failed" \/ (to # "poolId" /\ to \notin Final)
      BY DEF OnVenue, PoolSteps, Sending, Final
    <3>3. pc[c] \in Unsent(Request(c)) /\ to \in Unsent(Request(c)) \cup {"failed"}
      BY <3>1 DEF Unsent, OnVenue
    <3>4. VenueFits(Request(c), to, venueOf[c])
      BY <2>1, <2>3, <3>1, <3>2 DEF VenueFits, Stages, OnVenue, PoolSteps, Sending, Final, Unsent
    <3>5. PoolFits(Request(c), to, venueOf[c], poolOf[c])
      BY <2>1, <3>1 DEF PoolFits, OnVenue, PoolSteps, Sending
    <3>6. QED
      BY <3>3, <3>4, <3>5
  <2>4. QED
    BY <1>2, <2>2, <2>3 DEF IsTrade
<1>3. Request(c).kind # "accrued"
  BY DEF FillInv, ReadFits, OnVenue, PoolSteps, Sending, Final
<1>4. QED
  BY <1>1, <1>2, <1>3, UnsentFits

-----------------------------------------------------------------------------
(* The steps of a call before it sends.                                    *)

LEMMA StepsOnVenue ==
    ASSUME FillInv, PoolInv', NEW c \in Calls,
           \/ ReadAllowance(c) \/ ReadTokenAllowance(c) \/ CrateReadTokenAllowance(c)
           \/ Preflight(c) \/ AwaitApprove(c) \/ Estimate(c) \/ CrateEstimate(c) \/ Simulate(c)
    PROVE  FillInv'
<1>1. /\ pc[c] \in OnVenue
      /\ UNCHANGED <<plan, market, world, handle, mempool, receipts, poolOf, venueOf, result>>
  BY DEF ReadAllowance, ReadTokenAllowance, CrateReadTokenAllowance, Preflight, AwaitApprove,
         Estimate, CrateEstimate, Simulate, OnVenue, PoolSteps, Sending
<1>2. \E to \in OnVenue \cup {"failed"} : Go(c, to) /\ (pc[c] \in Sending => to \in Sending \cup {"failed"})
  <2>1. CASE Simulate(c)
    BY <2>1 DEF Simulate, OnVenue, PoolSteps, Sending
  <2>2. CASE ReadAllowance(c)
    BY <2>2 DEF ReadAllowance, OnVenue, PoolSteps, Sending
  <2>3. CASE ReadTokenAllowance(c)
    BY <2>3 DEF ReadTokenAllowance, OnVenue, PoolSteps, Sending
  <2>4. CASE CrateReadTokenAllowance(c)
    BY <2>4 DEF CrateReadTokenAllowance, OnVenue, PoolSteps, Sending
  <2>5. CASE Preflight(c) \/ AwaitApprove(c)
    BY <2>5 DEF Preflight, AwaitApprove, OnVenue, PoolSteps, Sending
  <2>6. CASE Estimate(c) \/ CrateEstimate(c)
    BY <2>6 DEF Estimate, CrateEstimate, OnVenue, PoolSteps, Sending
  <2>7. QED
    BY <2>1, <2>2, <2>3, <2>4, <2>5, <2>6
<1>3. QED
  BY <1>1, <1>2, OnVenueFits

\* What a request that trades is, and that only trades go through Trade.
LEMMA TradesThrough ==
    ASSUME FillInv, NEW c \in Calls
    PROVE  /\ Request(c) \in Requests
           /\ Request(c).via = "trade" => Request(c).kind \in Swaps \cup Quotes
<1>1. plan \in Plans
  BY DEF FillInv, PoolInv, Places
<1>2. Request(c) \in Requests
  BY <1>1, RequestTypes
<1>3. QED
  BY <1>1, <1>2, TradeAssumption DEF Calls, Request

LEMMA StartsFit ==
    ASSUME FillInv, PoolInv', NEW c \in Calls, Start(c) \/ CrateStart(c) PROVE FillInv'
<1>1. /\ pc[c] = "idle"
      /\ UNCHANGED <<plan, market, world, handle, mempool, receipts, poolOf, venueOf, result>>
  BY DEF Start, CrateStart
<1>2. Others(c)
  BY <1>1, KindsSame DEF Others, FillInv, Filed
<1>3. /\ Request(c).kind \in Kinds /\ Request(c).via \in {"trade", "pool"}
      /\ Request(c).via = "trade" => Request(c).kind \in Swaps \cup Quotes
  BY TradesThrough DEF Requests
<1>4. PICK to : /\ Go(c, to)
                /\ Request(c).kind \in Swaps => to \in {"venue", "choose", "failed", "reach"}
                /\ Request(c).kind \in {"distribute", "accrued"} => to = "poolId"
  <2>1. CASE Start(c)
    BY <1>3, <2>1 DEF Start, Swaps, Quotes, Kinds
  <2>2. CASE CrateStart(c)
    BY <1>3, <2>2 DEF CrateStart, Swaps, Quotes, Kinds
  <2>3. QED
    BY <2>1, <2>2
<1>5. ASSUME IsTrade(Request(c))
      PROVE  /\ pc[c] \in Unsent(Request(c))
             /\ to \in Unsent(Request(c)) \cup {"failed", "lost"}
             /\ VenueFits(Request(c), to, venueOf'[c])
             /\ PoolFits(Request(c), to, venueOf'[c], poolOf'[c])
  <2>1. VenueFits(Request(c), "idle", venueOf[c])
    BY <1>1, <1>5 DEF FillInv, CallFits, TradeFits
  <2>2. CASE Request(c).kind = "distribute"
    <3>1. Request(c).kind \notin Swaps
      BY <2>2 DEF Swaps
    <3>2. QED
      BY <1>1, <1>4, <2>1, <2>2, <3>1 DEF VenueFits, PoolFits, Unsent, Sending, PoolSteps
  <2>3. CASE Request(c).kind \in Swaps
    <3>1. Request(c).kind # "distribute"
      BY <2>3 DEF Swaps
    <3>2. QED
      BY <1>1, <1>4, <2>1, <2>3, <3>1 DEF VenueFits, PoolFits, Unsent, Sending, PoolSteps, Final
  <2>4. QED
    BY <1>5, <2>2, <2>3 DEF IsTrade
<1>6. QED
  BY <1>1, <1>2, <1>4, <1>5, UnsentFits

\* Where a call of a swap goes once it is on the venue v.
LEMMA VenueTaken ==
    ASSUME FillInv, PoolInv', NEW c \in Calls, pc[c] \in {"choose", "venue", "reach"},
           NEW to, Go(c, to), NEW v, venueOf' = [venueOf EXCEPT ![c] = v],
           UNCHANGED <<plan, market, world, mempool, receipts, result>>,
           DOMAIN handle' = Accounts, \A a \in Accounts : HandleFits(handle'[a]),
           DOMAIN poolOf' = Calls, \A d \in Calls \ {c} : poolOf'[d] = poolOf[d],
           Request(c).kind \in Swaps =>
               /\ to \in ({"venue", "failed"} \cup PoolSteps \cup Sending)
               /\ to \in (PoolSteps \cup Sending) \ {"reach"} =>
                      v \in {"curve", "pool"}
               /\ to \in (PoolSteps \cup Sending) \ {"reach"} /\ Request(c).client = "crate" /\ v = "pool" =>
                      poolOf'[c] = ThisPool
    PROVE  FillInv'
<1>1. Others(c)
  <2>1. DOMAIN venueOf = Calls
    BY DEF FillInv, PoolInv, Places
  <2>2. QED
    BY <2>1, KindsSame DEF Others, FillInv, Filed
<1>2. ASSUME IsTrade(Request(c))
      PROVE  /\ pc[c] \in Unsent(Request(c))
             /\ to \in Unsent(Request(c)) \cup {"failed", "lost"}
             /\ VenueFits(Request(c), to, venueOf'[c])
             /\ PoolFits(Request(c), to, venueOf'[c], poolOf'[c])
  <2>1. pc[c] \in Stages(Request(c))
    BY <1>2 DEF FillInv, CallFits, TradeFits
  <2>2. Request(c).kind # "distribute"
    BY <2>1 DEF Stages, Unsent, Sending, Final, Swaps
  <2>3. Request(c).kind \in Swaps
    BY <1>2, <2>2 DEF IsTrade
  <2>4. venueOf'[c] = v
    BY DEF FillInv, PoolInv, Places
  <2>5. to \in Unsent(Request(c)) \cup {"failed"} /\ pc[c] \in Unsent(Request(c))
    BY <2>2, <2>3 DEF Unsent, PoolSteps
  <2>6. to # "poolId" /\ to # "await"
    BY <2>3 DEF PoolSteps, Sending
  <2>7. VenueFits(Request(c), to, v)
    <3>1. to \in {"venue", "reach"} \cup Final \/ to \in (PoolSteps \cup Sending) \ {"reach"}
      BY <2>3 DEF Final
    <3>2. QED
      BY <2>2, <2>3, <2>6, <3>1 DEF VenueFits
  <2>8. PoolFits(Request(c), to, v, poolOf'[c])
    BY <2>2, <2>3, <2>6 DEF PoolFits
  <2>9. QED
    BY <2>4, <2>5, <2>7, <2>8
<1>3. Request(c).kind # "accrued"
  BY DEF FillInv, ReadFits, Final
<1>4. receipts'[c].main = receipts[c].main
  OBVIOUS
<1>5. QED
  BY <1>1, <1>2, <1>3, <1>4, UnsentFits

\* What a handle may come to keep.
LEMMA HandlesFit ==
    ASSUME FillInv, NEW a \in Accounts, NEW s \in {"none", "pool"}, NEW id \in {Unknown, ThisPool},
           \/ handle' = [handle EXCEPT ![a].settled = s]
           \/ handle' = [handle EXCEPT ![a].poolId = id]
           \/ handle' = handle
    PROVE  DOMAIN handle' = Accounts /\ \A b \in Accounts : HandleFits(handle'[b])
BY DEF FillInv, Filed, HandleFits

LEMMA VenueSettles == ASSUME FillInv, PoolInv', NEW c \in Of("ts"), Venue(c) PROVE FillInv'
<1> DEFINE a == Request(c).from
           v == VenueNow(a)
<1>1. c \in Calls /\ Request(c).client # "crate" /\ Request(c).from \in Accounts
  BY TradesThrough DEF Of, Requests
<1>2. v \in {"curve", "pool"}
  BY <1>1 DEF VenueNow, FillInv, Filed, HandleFits
<1>3. Settled(v) \in {"none", "pool"}
  BY DEF Settled
<1>4. /\ handle' = [handle EXCEPT ![a].settled = Settled(v)]
      /\ venueOf' = [venueOf EXCEPT ![c] = v] /\ pc[c] = "venue"
      /\ UNCHANGED <<plan, market, world, mempool, receipts, result, poolOf>>
  BY DEF Venue
<1>5. PICK to \in {"failed", "reach", "simulate", "curveQuote"} :
          Go(c, to) /\ (Request(c).kind \in Swaps => to # "curveQuote")
  BY <1>2 DEF Venue
<1>6. DOMAIN handle' = Accounts /\ \A b \in Accounts : HandleFits(handle'[b])
  <2> HIDE DEF v
  <2>1. QED
    BY <1>1, <1>3, <1>4, HandlesFit
<1>7. DOMAIN poolOf' = Calls
  BY <1>4 DEF FillInv, Filed
<1> HIDE DEF v
<1>8. Request(c).kind \in Swaps => to \in {"venue", "failed"} \cup PoolSteps \cup Sending
  BY <1>5 DEF PoolSteps, Sending
<1>9. QED
  BY <1>1, <1>2, <1>4, <1>5, <1>6, <1>7, <1>8, VenueTaken

LEMMA ReachTakes == ASSUME FillInv, PoolInv', NEW c \in Of("ts"), Reach(c) PROVE FillInv'
<1>1. c \in Calls /\ Request(c).client # "crate"
  BY DEF Of
<1>2. /\ venueOf' = [venueOf EXCEPT ![c] = "pool"] /\ pc[c] = "reach"
      /\ UNCHANGED <<plan, market, world, handle, mempool, receipts, result, poolOf>>
  BY DEF Reach
<1>3. PICK to \in {"failed", "quote", "tokenAllowance", "simulate", "allowance"} :
          Go(c, to) /\ (Request(c).kind \in Swaps => to # "quote")
  <2>1. Request(c).kind \in Swaps => Request(c).kind \notin Quotes
    BY DEF Swaps, Quotes
  <2>2. QED
    BY <2>1 DEF Reach
<1>4. Request(c).kind \in Swaps => to \in {"venue", "failed"} \cup PoolSteps \cup Sending
  BY <1>3 DEF PoolSteps, Sending
<1>5. /\ DOMAIN handle' = Accounts /\ \A b \in Accounts : HandleFits(handle'[b])
      /\ DOMAIN poolOf' = Calls
  BY <1>2 DEF FillInv, Filed
<1>6. QED
  BY <1>1, <1>2, <1>4, <1>3, <1>5, VenueTaken

LEMMA ChoiceTakes == ASSUME FillInv, PoolInv', NEW c \in Calls, Choose(c) PROVE FillInv'
<1>1. /\ Go(c, "venue") /\ pc[c] = "choose"
      /\ UNCHANGED <<plan, market, world, handle, mempool, receipts, result, poolOf>>
  BY DEF Choose
<1>2. PICK v : venueOf' = [venueOf EXCEPT ![c] = v]
  BY DEF Choose
<1>3. /\ DOMAIN handle' = Accounts /\ \A b \in Accounts : HandleFits(handle'[b])
      /\ DOMAIN poolOf' = Calls
  BY <1>1 DEF FillInv, Filed
<1>4. "venue" \notin (PoolSteps \cup Sending) \ {"reach"}
  BY DEF PoolSteps, Sending
<1>5. QED
  BY <1>1, <1>2, <1>3, <1>4, VenueTaken

LEMMA CrateVenueTakes == ASSUME FillInv, PoolInv', NEW c \in Calls, CrateVenue(c) PROVE FillInv'
<1>1. /\ venueOf' = [venueOf EXCEPT ![c] = venue] /\ pc[c] = "venue"
      /\ UNCHANGED <<plan, market, world, handle, mempool, receipts, result, poolOf>>
  BY DEF CrateVenue
<1>2. venue \in {"pool", "curve"}
  BY DEF venue
<1>3. PICK to \in {"failed", "reach", "send", "curveQuote"} :
          /\ Go(c, to)
          /\ Request(c).kind \in Swaps => to # "curveQuote"
          /\ to = "send" => venue # "pool"
  BY <1>2 DEF CrateVenue
<1>4. /\ DOMAIN handle' = Accounts /\ \A b \in Accounts : HandleFits(handle'[b])
      /\ DOMAIN poolOf' = Calls
  BY <1>1 DEF FillInv, Filed
<1>5. "failed" \notin PoolSteps \cup Sending /\ {"send", "reach"} \subseteq PoolSteps \cup Sending
  BY DEF PoolSteps, Sending
<1>6. QED
  BY <1>1, <1>2, <1>3, <1>4, <1>5, VenueTaken

\* A market is kept once there is one, and then under the pool's id.
LEMMA MarketRemembered ==
    ASSUME FillInv, NEW c \in Calls, RememberMarket(c)
    PROVE  /\ DOMAIN handle' = Accounts /\ \A b \in Accounts : HandleFits(handle'[b])
           /\ DOMAIN poolOf' = Calls /\ \A d \in Calls \ {c} : poolOf'[d] = poolOf[d]
           /\ poolOf'[c] \in {poolOf[c], ThisPool}
           /\ market.phase = "migrated" => poolOf'[c] = ThisPool
<1>1. Request(c).from \in Accounts
  BY TradesThrough DEF Requests
<1>2. \/ handle' = [handle EXCEPT ![Request(c).from].poolId = ThisPool]
      \/ handle' = handle
  BY DEF RememberMarket
<1>3. DOMAIN handle' = Accounts /\ \A b \in Accounts : HandleFits(handle'[b])
  BY <1>1, <1>2, HandlesFit
<1>4. DOMAIN poolOf = Calls
  BY DEF FillInv, Filed
<1>5. QED
  BY <1>3, <1>4 DEF RememberMarket

LEMMA CrateReachTakes == ASSUME FillInv, PoolInv', NEW c \in Calls, CrateReach(c) PROVE FillInv'
<1>1. /\ venueOf' = [venueOf EXCEPT ![c] = "pool"] /\ pc[c] = "reach"
      /\ UNCHANGED <<plan, market, world, mempool, receipts, result>> /\ RememberMarket(c)
  BY DEF CrateReach
<1>2. Request(c).kind \in Swaps => Request(c).kind \notin Quotes
  BY DEF Swaps, Quotes
<1>3. PICK to \in {"failed", "quote", "tokenAllowance", "send", "allowance"} :
          /\ Go(c, to) /\ (Request(c).kind \in Swaps => to # "quote")
          /\ to # "failed" => market.phase = "migrated"
  <2>1. CASE Untradable(c)
    BY <2>1 DEF CrateReach
  <2>2. CASE ~Untradable(c)
    <3>1. market.phase = "migrated"
      BY <2>2 DEF Untradable
    <3>2. QED
      BY <1>2, <2>2, <3>1 DEF CrateReach
  <2>3. QED
    BY <2>1, <2>2
<1>4. Request(c).kind \in Swaps => to \in {"venue", "failed"} \cup PoolSteps \cup Sending
  BY <1>3 DEF PoolSteps, Sending
<1>5. "failed" \notin PoolSteps \cup Sending
  BY DEF PoolSteps, Sending
<1>6. QED
  BY <1>1, <1>3, <1>4, <1>5, MarketRemembered, VenueTaken

\* A step that tells at most.
LEMMA TellsOnly ==
    ASSUME FillInv, NEW c \in Calls,
           UNCHANGED <<plan, world, handle, mempool, receipts, poolOf, venueOf>>,
           result' = result \/ \E told : result' = [result EXCEPT ![c] = told]
    PROVE  Others(c)
<1>1. DOMAIN result' = Calls /\ \A d \in Calls \ {c} : result'[d] = result[d]
  BY DEF FillInv, Filed
<1>2. QED
  BY <1>1, KindsSame DEF Others, FillInv, Filed

LEMMA ReadsFit ==
    ASSUME FillInv, PoolInv', NEW c \in Calls,
           CurveQuote(c) \/ Quote(c) \/ CrateQuote(c) \/ Accrued(c)
    PROVE  FillInv'
<1>1. /\ pc[c] \in {"curveQuote", "quote", "accrued"}
      /\ UNCHANGED <<plan, market, world, handle, mempool, receipts, poolOf, venueOf>>
  BY DEF CurveQuote, Quote, CrateQuote, Accrued
<1>2. /\ result' = result \/ \E told : result' = [result EXCEPT ![c] = told]
      /\ \E to \in {"done", "failed"} : Go(c, to)
  <2>1. CASE CurveQuote(c)
    BY <2>1 DEF CurveQuote
  <2>2. CASE Quote(c)
    BY <2>2, Zenon DEF Quote, Tell
  <2>3. CASE CrateQuote(c)
    BY <2>3, Zenon DEF CrateQuote, Tell
  <2>4. CASE Accrued(c)
    BY <2>4, Zenon DEF Accrued, Tell
  <2>5. QED
    BY <2>1, <2>2, <2>3, <2>4
<1>3. Others(c)
  BY <1>1, <1>2, TellsOnly
<1>4. ~IsTrade(Request(c))
  <2>1. pc[c] \notin Stages(Request(c))
    BY <1>1 DEF Stages, Unsent, PoolSteps, Sending, Final
  <2>2. QED
    BY <2>1 DEF FillInv, CallFits, TradeFits
<1>5. {"done", "failed"} \subseteq Final
  BY DEF Final
<1>6. QED
  BY <1>1, <1>2, <1>3, <1>4, <1>5, OneFits

LEMMA LostFits == ASSUME FillInv, PoolInv', NEW c \in Calls, RpcFails(c) PROVE FillInv'
<1>1. /\ Go(c, "lost")
      /\ UNCHANGED <<plan, market, world, handle, mempool, receipts, poolOf, venueOf, result>>
  BY DEF RpcFails
<1>2. Others(c)
  BY <1>1, TellsOnly
<1>3. ASSUME IsTrade(Request(c))
      PROVE  TradeFits(Request(c), plan.quoteIs0, "lost", OnWay(mempool, c), venueOf'[c],
                       poolOf'[c], market.phase, receipts'[c].main, result'[c])
  <2>1. TradeFits(Request(c), plan.quoteIs0, pc[c], OnWay(mempool, c), venueOf[c], poolOf[c],
                  market.phase, receipts[c].main, result[c])
    BY <1>3 DEF FillInv, CallFits
  <2>2. "lost" \in Stages(Request(c)) /\ "lost" \notin Unsent(Request(c))
    BY DEF Stages, Final, Unsent, PoolSteps, Sending
  <2>3. VenueFits(Request(c), "lost", venueOf[c]) /\ PoolFits(Request(c), "lost", venueOf[c], poolOf[c])
    <3>1. VenueFits(Request(c), pc[c], venueOf[c])
      BY <2>1 DEF TradeFits
    <3>2. QED
      BY <3>1 DEF VenueFits, PoolFits, Final, PoolSteps, Sending
  <2>4. /\ OnWay(mempool, c) # {} => receipts[c].main = NoReceipt
        /\ \A tx \in OnWay(mempool, c) : Matches(tx, Request(c), venueOf[c])
        /\ Confirmed(Request(c), plan.quoteIs0, venueOf[c], market.phase, receipts[c].main)
    BY <2>1, Zenon DEF TradeFits
  <2>5. QED
    BY <1>1, <2>2, <2>3, <2>4 DEF TradeFits
<1>4. "lost" \in Final
  BY DEF Final
<1>5. QED
  BY <1>1, <1>2, <1>3, <1>4, OneFits

\* A call that failed has sent nothing that traded: it starts afresh.
LEMMA AgainFits == ASSUME FillInv, PoolInv', NEW c \in Calls, CallAgain(c) PROVE FillInv'
<1>1. /\ pc[c] = "failed" /\ Go(c, "idle")
      /\ venueOf' = [venueOf EXCEPT ![c] = "none"]
      /\ receipts' = [receipts EXCEPT ![c] = [approve |-> NoReceipt, main |-> NoReceipt]]
      /\ UNCHANGED <<plan, market, world, handle, mempool, poolOf, result>>
  BY DEF CallAgain
<1>2. DOMAIN venueOf = Calls /\ DOMAIN receipts = Calls
  BY DEF FillInv, PoolInv, Places, Filed
<1>3. Others(c)
  BY <1>1, <1>2, KindsSame DEF Others, FillInv, Filed, ReceiptFits
<1>4. venueOf'[c] = "none" /\ receipts'[c].main = NoReceipt
  BY <1>1, <1>2
<1>5. ASSUME IsTrade(Request(c))
      PROVE  TradeFits(Request(c), plan.quoteIs0, "idle", OnWay(mempool, c), "none", poolOf[c],
                       market.phase, NoReceipt, result[c])
  <2>1. OnWay(mempool, c) = {}
    BY <1>1, <1>5, Zenon DEF FillInv, CallFits, TradeFits
  <2>2. ~NoReceipt.ok /\ NoReceipt.logs = {} /\ NoReceipt.did = Nothing
    BY DEF NoReceipt
  <2>3. Confirmed(Request(c), plan.quoteIs0, "none", market.phase, NoReceipt)
    BY <2>2, Zenon DEF Confirmed
  <2>4. "idle" \in Stages(Request(c)) /\ "idle" \notin Final
    BY DEF Stages, Final, Unsent
  <2>5. VenueFits(Request(c), "idle", "none") /\ PoolFits(Request(c), "idle", "none", poolOf[c])
    BY DEF VenueFits, PoolFits, PoolSteps, Sending
  <2>6. QED
    BY <2>1, <2>3, <2>4, <2>5, Zenon DEF TradeFits, Final
<1>6. QED
  BY <1>1, <1>3, <1>4, <1>5, OneFits

-----------------------------------------------------------------------------
(* A transaction is sent.                                                  *)

LEMMA InQueue ==
    ASSUME NEW queue, NEW t
    PROVE  t \in Queued(queue) <=> \E a \in Accounts : \E i \in DOMAIN queue[a] : t = queue[a][i]
<1>1. ASSUME NEW a \in Accounts
      PROVE  t \in {queue[a][i] : i \in DOMAIN queue[a]} <=> \E i \in DOMAIN queue[a] : t = queue[a][i]
  OBVIOUS
<1>2. t \in Queued(queue) <=> \E a \in Accounts : t \in {queue[a][i] : i \in DOMAIN queue[a]}
  <2> DEFINE of(a) == {queue[a][i] : i \in DOMAIN queue[a]}
  <2> HIDE DEF of
  <2>1. t \in UNION {of(a) : a \in Accounts} <=> \E a \in Accounts : t \in of(a)
    OBVIOUS
  <2>2. QED
    BY <2>1 DEF Queued, of
<1>3. QED
  BY <1>1, <1>2

LEMMA OnWayAppended ==
    ASSUME NEW queue \in [Accounts -> Seq(Transactions)], NEW f \in Accounts,
           NEW tx \in Transactions, NEW c
    PROVE  OnWay([queue EXCEPT ![f] = Append(@, tx)], c) =
               OnWay(queue, c) \cup (IF tx.call = c /\ tx.kind # "approveQuote" THEN {tx} ELSE {})
<1> DEFINE longer == [queue EXCEPT ![f] = Append(@, tx)]
<1>1. \A a \in Accounts : \A i \in DOMAIN longer[a] :
         \/ i \in DOMAIN queue[a] /\ longer[a][i] = queue[a][i]
         \/ longer[a][i] = tx
  BY PlaceAppended
<1>2. \A a \in Accounts : \A i \in DOMAIN queue[a] :
         i \in DOMAIN longer[a] /\ longer[a][i] = queue[a][i]
  <2> TAKE a \in Accounts
  <2>1. CASE a = f
    <3>1. longer[a] = Append(queue[a], tx) /\ queue[a] \in Seq(Transactions)
      BY <2>1
    <3>2. QED
      BY <3>1
  <2>2. CASE a # f
    BY <2>2
  <2>3. QED
    BY <2>1, <2>2
<1>3. Len(longer[f]) \in DOMAIN longer[f] /\ longer[f][Len(longer[f])] = tx
  <2>1. longer[f] = Append(queue[f], tx) /\ queue[f] \in Seq(Transactions)
    OBVIOUS
  <2>2. QED
    BY <2>1
<1> HIDE DEF longer
<1>4. \A t : t \in Queued(longer) <=> \E a \in Accounts : \E i \in DOMAIN longer[a] : t = longer[a][i]
  BY InQueue
<1>5. \A t : t \in Queued(queue) <=> \E a \in Accounts : \E i \in DOMAIN queue[a] : t = queue[a][i]
  BY InQueue
<1>6. ASSUME NEW t PROVE t \in Queued(longer) <=> t \in Queued(queue) \/ t = tx
  <2>1. t \in Queued(longer) => t \in Queued(queue) \/ t = tx
    BY <1>1, <1>4, <1>5
  <2>2. t \in Queued(queue) => t \in Queued(longer)
    BY <1>2, <1>4, <1>5
  <2>3. t = tx => t \in Queued(longer)
    BY <1>3, <1>4
  <2>4. QED
    BY <2>1, <2>2, <2>3
<1>7. OnWay(longer, c) =
          OnWay(queue, c) \cup (IF tx.call = c /\ tx.kind # "approveQuote" THEN {tx} ELSE {})
  BY <1>6 DEF OnWay
<1>8. QED
  BY <1>7 DEF longer

\* A call sends its approve, or the one transaction that it is after.
LEMMA SentFits ==
    ASSUME FillInv, PoolInv', NEW c \in Calls, NEW to, Go(c, to), NEW tx \in Executable,
           tx.call = c, mempool' = [mempool EXCEPT ![Request(c).from] = Append(@, tx)],
           UNCHANGED <<plan, market, world, handle, receipts, poolOf, venueOf, result>>,
           \/ tx.kind = "approveQuote" /\ pc[c] = "simulateApprove" /\ to = "awaitApprove"
           \/ /\ tx.kind # "approveQuote" /\ pc[c] = "send" /\ to = "await"
              /\ IsTrade(Request(c)) => Matches(tx, Request(c), venueOf[c])
    PROVE  FillInv'
<1>1. /\ pc \in [Calls -> Labels] /\ pc' = [pc EXCEPT ![c] = to]
      /\ mempool \in [Accounts -> Seq(Transactions)] /\ tx \in Transactions
      /\ Request(c).from \in Accounts
  BY TradesThrough DEF FillInv, PoolInv, Places, Go, Executable, Requests
<1>2. Filed'
  BY KindsSame DEF FillInv, Filed
<1>3. \A d \in Calls : OnWay(mempool', d) =
         OnWay(mempool, d) \cup (IF d = c /\ tx.kind # "approveQuote" THEN {tx} ELSE {})
  <2>1. \A d : OnWay([mempool EXCEPT ![Request(c).from] = Append(@, tx)], d) =
           OnWay(mempool, d) \cup (IF tx.call = d /\ tx.kind # "approveQuote" THEN {tx} ELSE {})
    BY <1>1, OnWayAppended, Zenon
  <2>2. QED
    BY <2>1
<1>4. IsTrade(Request(c)) => TradeFits(Request(c), plan.quoteIs0, pc[c], OnWay(mempool, c),
          venueOf[c], poolOf[c], market.phase, receipts[c].main, result[c])
  BY DEF FillInv, CallFits
<1>5. ASSUME NEW d \in Calls, IsTrade(Request(d))
      PROVE  TradeFits(Request(d), plan.quoteIs0, pc'[d], OnWay(mempool', d), venueOf'[d],
                       poolOf'[d], market'.phase, receipts'[d].main, result'[d])
  <2>1. CASE d # c
    <3>1. pc'[d] = pc[d] /\ OnWay(mempool', d) = OnWay(mempool, d)
      BY <1>1, <1>3, <2>1
    <3>2. TradeFits(Request(d), plan.quoteIs0, pc[d], OnWay(mempool, d), venueOf[d], poolOf[d],
                    market.phase, receipts[d].main, result[d])
      BY <1>5 DEF FillInv, CallFits
    <3>3. QED
      BY <3>1, <3>2
  <2>2. CASE d = c /\ tx.kind = "approveQuote"
    <3>1. OnWay(mempool', c) = OnWay(mempool, c) /\ pc'[c] = "awaitApprove"
      BY <1>1, <1>3, <2>2
    <3>2. /\ pc[c] \in Unsent(Request(c)) /\ "awaitApprove" \in Unsent(Request(c))
          /\ Request(c).kind # "distribute"
      BY <1>4, <1>5, <2>2 DEF TradeFits, Stages, Unsent, PoolSteps, Sending, Final, Swaps
    <3>3. VenueFits(Request(c), "awaitApprove", venueOf[c])
      BY <1>4, <1>5, <2>2, <3>2 DEF TradeFits, VenueFits, Stages, Final
    <3>4. PoolFits(Request(c), "awaitApprove", venueOf[c], poolOf[c])
      BY <1>4, <1>5, <2>2, <3>2 DEF TradeFits, PoolFits, PoolSteps, Sending
    <3>5. "awaitApprove" \in Stages(Request(c)) /\ "awaitApprove" \notin Final
      BY <3>2 DEF Stages, Final
    <3>6. QED
      BY <1>4, <1>5, <2>2, <3>1, <3>2, <3>3, <3>4, <3>5 DEF TradeFits, Final
  <2>3. CASE d = c /\ tx.kind # "approveQuote"
    <3>1. pc[c] \in Unsent(Request(c)) /\ pc[c] = "send" /\ pc'[c] = "await"
      BY <1>1, <2>3 DEF Unsent, Sending
    <3>2. OnWay(mempool, c) = {} /\ OnWay(mempool', c) = {tx} /\ receipts[c].main = NoReceipt
      BY <1>3, <1>4, <1>5, <2>3, <3>1 DEF TradeFits
    <3>3. VenueFits(Request(c), "await", venueOf[c])
      BY <1>4, <1>5, <2>3, <3>1 DEF TradeFits, VenueFits, Stages, Final
    <3>4. PoolFits(Request(c), "await", venueOf[c], poolOf[c])
      BY <1>4, <1>5, <2>3, <3>1 DEF TradeFits, PoolFits, Sending
    <3>5. /\ "await" \in Stages(Request(c)) /\ "await" \notin Unsent(Request(c))
          /\ "await" \notin Final
      BY DEF Stages, Final, Unsent, PoolSteps, Sending
    <3>6. Confirmed(Request(c), plan.quoteIs0, venueOf[c], market.phase, receipts[c].main)
      BY <1>4, <1>5, <2>3 DEF TradeFits
    <3>7. Matches(tx, Request(c), venueOf[c])
      BY <1>5, <2>3, <3>1
    <3>8. QED
      BY <2>3, <3>1, <3>2, <3>3, <3>4, <3>5, <3>6, <3>7 DEF TradeFits, Final
  <2>4. QED
    BY <2>1, <2>2, <2>3
<1>6. ASSUME NEW d \in Calls, Request(d).kind = "accrued"
      PROVE  pc'[d] \in {"idle", "poolId", "accrued"} \cup Final
  <2>1. d # c
    BY <1>6 DEF FillInv, ReadFits, Final
  <2>2. QED
    BY <1>1, <1>6, <2>1 DEF FillInv, ReadFits
<1>7. \A a \in Accounts : \A i \in DOMAIN mempool'[a] : mempool'[a][i] \in Executable
  BY <1>1, QueueAppended DEF FillInv
<1>8. ASSUME NEW a \in Accounts, NEW i \in DOMAIN mempool[a]
      PROVE  <<mempool[a][i], tx>> \notin SameCall /\ <<tx, mempool[a][i]>> \notin SameCall
  <2>1. CASE IsTrade(Request(c)) /\ tx.kind # "approveQuote"
    <3>1. OnWay(mempool, c) = {}
      BY <1>4, <2>1 DEF TradeFits, Unsent, Sending
    <3>2. mempool[a][i] \in Queued(mempool)
      BY InQueue
    <3>3. mempool[a][i].call # c \/ mempool[a][i].kind = "approveQuote"
      BY <3>1, <3>2 DEF OnWay
    <3>4. QED
      BY <3>3 DEF SameCall
  <2>2. CASE ~(IsTrade(Request(c)) /\ tx.kind # "approveQuote")
    BY <2>2 DEF SameCall
  <2>3. QED
    BY <2>1, <2>2
<1>9. Lone(mempool', Accounts, SameCall)
  BY <1>1, <1>8, LoneAppended DEF FillInv
<1>10. QED
  BY <1>2, <1>5, <1>6, <1>7, <1>9, FillHolds

LEMMA ApproveFits == ASSUME FillInv, PoolInv', NEW c \in Calls, SendApprove(c) PROVE FillInv'
<1> DEFINE tx == Approval(c)
<1>1. /\ pc[c] = "simulateApprove" /\ Go(c, "awaitApprove")
      /\ mempool' = [mempool EXCEPT ![Request(c).from] = Append(@, tx)]
      /\ UNCHANGED <<plan, market, world, handle, receipts, poolOf, venueOf, result>>
  BY DEF SendApprove
<1>2. plan \in Plans /\ Fit(c, "simulateApprove", venueOf[c], gas[c])
  BY <1>1 DEF FillInv, PoolInv, Places, AllFit
<1>3. tx.kind = "approveQuote" /\ tx.call = c
  BY DEF Approval, Transaction
<1>4. tx \in Transactions
  BY <1>2, ApprovalSound DEF Sound
<1> HIDE DEF tx
<1>5. tx \in Executable
  BY <1>3, <1>4 DEF Executable
<1>6. QED
  BY <1>1, <1>3, <1>5, SentFits

\* The transaction of a call is what it wants at its venue, and one that the chain knows.
LEMMA TransactionFits ==
    ASSUME FillInv, NEW c \in Calls, pc[c] = "send", NEW limit \in Nat
    PROVE  LET tx == Transaction(c, limit)
           IN  /\ tx \in Executable /\ tx.call = c /\ tx.kind # "approveQuote"
               /\ IsTrade(Request(c)) => Matches(tx, Request(c), venueOf[c])
<1> DEFINE tx == Transaction(c, limit)
<1>1. /\ Request(c) \in Requests /\ c \in Nat
      /\ Request(c).kind \in {"buy", "sell", "quoteBuy", "quoteSell", "approveTokens",
                              "distribute", "accrued"}
  BY TradesThrough, RequestTypes DEF FillInv, PoolInv, Places, Requests, Kinds, Swaps, Quotes
<1>2. Request(c).kind # "accrued"
  BY DEF FillInv, ReadFits, Final
<1>3. tx.kind \in {"buy", "sell", "distribute", "approveTokens", "curveBuy", "curveSell"}
  <2>1. tx.kind = CASE venueOf[c] = "curve" /\ Request(c).kind = "buy"  -> "curveBuy"
                    [] venueOf[c] = "curve" /\ Request(c).kind = "sell" -> "curveSell"
                    [] Request(c).kind = "quoteBuy"  -> "buy"
                    [] Request(c).kind = "quoteSell" -> "sell"
                    [] OTHER -> Request(c).kind
    BY DEF Transaction
  <2> HIDE DEF tx
  <2>2. CASE venueOf[c] = "curve"
    BY <1>1, <1>2, <2>1, <2>2
  <2>3. CASE venueOf[c] # "curve"
    BY <1>1, <1>2, <2>1, <2>3
  <2>4. QED
    BY <2>2, <2>3
<1>4. /\ tx.from = Request(c).from /\ tx.to = Request(c).to /\ tx.amount = Request(c).amount
      /\ tx.call = c /\ tx.min = Request(c).min /\ tx.deadline = Request(c).deadline
      /\ tx.gas = limit
      /\ DOMAIN tx = {"kind", "from", "to", "amount", "min", "deadline", "gas", "call"}
      /\ tx = [ kind |-> tx.kind, from |-> tx.from, to |-> tx.to, amount |-> tx.amount,
                min |-> tx.min, deadline |-> tx.deadline, gas |-> tx.gas, call |-> tx.call ]
  BY DEF Transaction
<1>5. IsTrade(Request(c)) => Matches(tx, Request(c), venueOf[c])
  <2>1. IsTrade(Request(c)) => tx.kind = CASE venueOf[c] = "curve" /\ Request(c).kind = "buy"  -> "curveBuy"
                    [] venueOf[c] = "curve" /\ Request(c).kind = "sell" -> "curveSell"
                    [] OTHER -> Request(c).kind
    BY DEF Transaction, IsTrade, Swaps
  <2> HIDE DEF tx
  <2>2. QED
    BY <1>4, <2>1 DEF Matches
<1> HIDE DEF tx
<1>6. tx \in Transactions
  <2>1. tx.kind \in Kinds \cup {"approveQuote", "curveBuy", "curveSell"}
    BY <1>3 DEF Kinds, Swaps
  <2>2. QED
    BY <1>1, <1>4, <2>1 DEF Transactions, Requests
<1>7. tx \in Executable
  BY <1>3, <1>6 DEF Executable, Swaps
<1>8. QED
  BY <1>3, <1>4, <1>5, <1>7 DEF tx

LEMMA SendsFit ==
    ASSUME FillInv, PoolInv', NEW c \in Calls, pc[c] = "send", NEW limit \in Nat,
           UNCHANGED <<plan, market, world, handle, receipts, poolOf, venueOf, result>>,
           \/ /\ mempool' = [mempool EXCEPT ![Request(c).from] = Append(@, Transaction(c, limit))]
              /\ Go(c, "await")
           \/ Go(c, "failed") /\ mempool' = mempool
    PROVE  FillInv'
<1>1. CASE Go(c, "failed") /\ mempool' = mempool
  <2>1. pc[c] \in OnVenue
    BY DEF OnVenue, Sending
  <2>2. QED
    BY <1>1, <2>1, OnVenueFits
<1>2. CASE /\ mempool' = [mempool EXCEPT ![Request(c).from] = Append(@, Transaction(c, limit))]
           /\ Go(c, "await")
  <2> DEFINE tx == Transaction(c, limit)
  <2>1. /\ tx \in Executable /\ tx.call = c /\ tx.kind # "approveQuote"
        /\ IsTrade(Request(c)) => Matches(tx, Request(c), venueOf[c])
    BY TransactionFits
  <2>2. mempool' = [mempool EXCEPT ![Request(c).from] = Append(@, tx)]
    BY <1>2
  <2> HIDE DEF tx
  <2>3. QED
    BY <1>2, <2>1, <2>2, SentFits
<1>3. QED
  BY <1>1, <1>2

LEMMA SendFits == ASSUME FillInv, PoolInv', NEW c \in Calls, Send(c) PROVE FillInv'
<1> DEFINE limit == CASE gas[c] # 0 -> gas[c]
                      [] gas[c] = 0 /\ Request(c).kind \in Swaps -> Estimated
                      [] OTHER -> Unlimited
<1>1. /\ pc[c] = "send" /\ gas[c] \in Nat
      /\ UNCHANGED <<plan, market, world, handle, receipts, poolOf, venueOf, result>>
  BY DEF Send, FillInv, PoolInv, Places
<1>2. limit \in Nat
  BY <1>1, PoolFigures DEF Unlimited
<1>3. \/ /\ mempool' = [mempool EXCEPT ![Request(c).from] = Append(@, Transaction(c, limit))]
         /\ Go(c, "await")
      \/ Go(c, "failed") /\ mempool' = mempool
  BY DEF Send
<1> HIDE DEF limit
<1>4. QED
  BY <1>1, <1>2, <1>3, SendsFit

LEMMA CrateSendFits == ASSUME FillInv, PoolInv', NEW c \in Calls, CrateSend(c) PROVE FillInv'
<1> DEFINE limit == CASE LimitOf(c) # 0 -> LimitOf(c)
                      [] LimitOf(c) = 0 /\ Request(c).kind \in Swaps -> Estimated
                      [] OTHER -> Unlimited
<1>1. /\ pc[c] = "send" /\ gas[c] \in Nat /\ Request(c).gas_limit \in Nat
      /\ UNCHANGED <<plan, market, world, handle, receipts, poolOf, venueOf, result>>
  BY TradesThrough DEF CrateSend, FillInv, PoolInv, Places, Requests
<1>2. LimitOf(c) \in Nat
  BY <1>1 DEF LimitOf
<1>3. limit \in Nat
  BY <1>2, PoolFigures DEF Unlimited
<1>4. \/ /\ mempool' = [mempool EXCEPT ![Request(c).from] = Append(@, Transaction(c, limit))]
         /\ Go(c, "await")
      \/ Go(c, "failed") /\ mempool' = mempool
  BY DEF CrateSend
<1> HIDE DEF limit
<1>5. QED
  BY <1>1, <1>3, <1>4, SendsFit

-----------------------------------------------------------------------------
(* A receipt is read.                                                      *)

\* Where a call goes on to that has nothing on its way.
LEMMA EndFits ==
    ASSUME NEW req, NEW q0, NEW p, NEW sent, NEW v, NEW pool, NEW phase, NEW main, NEW told,
           TradeFits(req, q0, p, sent, v, pool, phase, main, told), IsTrade(req),
           p \in {"await", "poolId"}, sent = {}, NEW to, NEW read, NEW tells,
           \/ /\ to = "done"
              /\ tells = IF req.kind \in Swaps \/ read = ThisPool THEN main.did ELSE Nothing
           \/ to = "failed" /\ (req.kind \in Swaps => ~main.ok)
           \/ to = "poolId" /\ req.kind \in Swaps /\ req.client = "ts" /\ v = "pool"
    PROVE  TradeFits(req, q0, to, sent, v, read, phase, main, tells)
<1>1. to \in Stages(req) /\ (to = "poolId" => req.kind # "distribute")
  BY DEF Stages, Final, Swaps
<1>2. to \notin Unsent(req)
  BY <1>1 DEF Unsent, Sending, PoolSteps
<1>3. VenueFits(req, p, v)
  BY DEF TradeFits
<1>4. VenueFits(req, to, v)
  <2>1. to \in Final \/ (to = "poolId" /\ v = "pool")
    BY DEF Final
  <2>2. "poolId" \notin Final
    BY DEF Final
  <2>3. QED
    BY <1>3, <2>1, <2>2 DEF VenueFits
<1>5. PoolFits(req, to, v, read)
  BY DEF PoolFits, PoolSteps, Sending
<1>6. Confirmed(req, q0, v, phase, main) /\ (\A tx \in sent : Matches(tx, req, v))
  BY DEF TradeFits
<1>7. to = "done" => tells = IF req.kind \in Swaps \/ read = ThisPool THEN main.did ELSE Nothing
  OBVIOUS
<1>8. to = "failed" /\ req.kind \in Swaps => ~main.ok
  OBVIOUS
<1>9. QED
  BY <1>1, <1>2, <1>4, <1>5, <1>6, <1>7, <1>8, Zenon DEF TradeFits

\* A call whose transaction has been mined has none on its way.
LEMMA MinedOnce ==
    ASSUME FillInv, NEW c \in Calls, IsTrade(Request(c)), receipts[c].main.mined
    PROVE  OnWay(mempool, c) = {}
<1>1. NoReceipt.mined = FALSE
  BY DEF NoReceipt
<1>2. receipts[c].main # NoReceipt
  BY <1>1, Zenon
<1>3. QED
  BY <1>2, Zenon DEF FillInv, CallFits, TradeFits

LEMMA CurveFillTold ==
    ASSUME NEW c
    PROVE  /\ CurveFill(Request(c)) =
                  [Nothing EXCEPT !.quote = Request(c).amount, !.tokens = Request(c).amount]
           /\ CurveFill(Request(c)) # Err
           /\ \A n : [Nothing EXCEPT !.distributed = n] # Err
BY DEF CurveFill, Nothing, Err

LEMMA AwaitFits == ASSUME FillInv, PoolInv', NEW c \in Of("ts"), Await(c) PROVE FillInv'
<1> DEFINE main == receipts[c].main
           req == Request(c)
           v == venueOf[c]
<1>0. c \in Calls /\ req.client = "ts"
  BY DEF Of
<1>1. /\ pc[c] = "await" /\ main.mined
      /\ UNCHANGED <<plan, market, world, handle, mempool, receipts, poolOf, venueOf>>
  BY DEF Await
<1>2. \/ /\ v = "curve" /\ main.ok /\ Go(c, "done")
         /\ result' = [result EXCEPT ![c] = CurveFill(req)]
      \/ v = "curve" /\ ~main.ok /\ Go(c, "failed") /\ result' = result
      \/ v = "pool" /\ Go(c, "poolId") /\ result' = result
      \/ /\ v \notin {"curve", "pool"} /\ Go(c, "done")
         /\ result' = [result EXCEPT ![c] =
                          [Nothing EXCEPT !.distributed = FeesDistributedIn(main.logs, poolOf[c])]]
  <2>1. CASE v = "curve" /\ main.ok
    BY <2>1, CurveFillTold DEF Await, Tell
  <2>2. CASE v = "curve" /\ ~main.ok
    <3>1. Go(c, "failed") /\ result' = result
      BY <2>2, Zenon DEF Await
    <3>2. QED
      BY <2>2, <3>1
  <2>3. CASE v = "pool"
    BY <2>3 DEF Await
  <2>4. CASE v \notin {"curve", "pool"}
    BY <2>4 DEF Await, Tell
  <2>5. QED
    BY <2>1, <2>2, <2>3, <2>4
<1>3. DOMAIN result = Calls
  BY DEF FillInv, Filed
<1>4. Others(c)
  <2> HIDE DEF v, main, req
  <2>1. result' = result \/ \E told : result' = [result EXCEPT ![c] = told]
    BY <1>2
  <2>2. QED
    BY <1>0, <1>1, <2>1, TellsOnly
<1>5. PICK to : /\ Go(c, to)
                /\ \/ to = "done" /\ v = "curve" /\ main.ok /\ result'[c] = CurveFill(req)
                   \/ to = "failed" /\ v = "curve" /\ ~main.ok
                   \/ to = "poolId" /\ v = "pool"
                   \/ /\ to = "done" /\ v \notin {"curve", "pool"}
                      /\ result'[c] = [Nothing EXCEPT !.distributed =
                                          FeesDistributedIn(main.logs, poolOf[c])]
  <2> HIDE DEF v, main, req
  <2>1. QED
    BY <1>0, <1>2, <1>3, Zenon
<1>6. ASSUME IsTrade(req)
      PROVE  TradeFits(req, plan.quoteIs0, to, OnWay(mempool, c), v, poolOf[c], market.phase, main,
                       result'[c])
  <2>1. /\ TradeFits(req, plan.quoteIs0, "await", OnWay(mempool, c), v, poolOf[c], market.phase,
                     main, result[c])
        /\ OnWay(mempool, c) = {}
    BY <1>0, <1>1, <1>6, MinedOnce DEF FillInv, CallFits
  <2>2. /\ VenueFits(req, "await", v) /\ PoolFits(req, "await", v, poolOf[c])
        /\ Confirmed(req, plan.quoteIs0, v, market.phase, main)
    BY <2>1 DEF TradeFits
  <2> HIDE DEF v, main, req
  <2>3. CASE req.kind \in Swaps
    <3>1. v \in {"curve", "pool"} /\ req.kind # "distribute"
      BY <2>2, <2>3 DEF VenueFits, Stages, Final, Swaps
    <3>2. main.ok /\ v = "curve" => main.did = CurveFill(req)
      BY <2>2, <2>3 DEF Confirmed
    <3>3. \/ /\ to = "done"
             /\ result'[c] = IF req.kind \in Swaps \/ poolOf[c] = ThisPool THEN main.did ELSE Nothing
          \/ to = "failed" /\ ~main.ok
          \/ to = "poolId" /\ v = "pool"
      BY <1>5, <2>3, <3>1, <3>2
    <3>4. QED
      BY <1>0, <1>6, <2>1, <2>3, <3>3, EndFits
  <2>4. CASE req.kind = "distribute"
    <3>1. v = "none" /\ poolOf[c] \in {ThisPool, ZeroPool} /\ req.kind \notin Swaps
      BY <2>2, <2>4 DEF VenueFits, PoolFits, Swaps
    <3>2. result'[c] = [Nothing EXCEPT !.distributed = FeesDistributedIn(main.logs, poolOf[c])]
          /\ to = "done"
      BY <1>5, <3>1
    <3>3. CASE main.ok
      <4>1. Distributed(main.logs, main.did)
        BY <2>2, <2>4, <3>3 DEF Confirmed
      <4>2. result'[c] = IF poolOf[c] = ThisPool THEN main.did ELSE Nothing
        BY <3>1, <3>2, <4>1, DistributionRead
      <4>3. QED
        BY <1>6, <2>1, <3>1, <3>2, <4>2, EndFits
    <3>4. CASE ~main.ok
      <4>1. main.logs = {} /\ main.did = Nothing
        BY <2>2, <3>4, Zenon DEF Confirmed
      <4>2. result'[c] = Nothing
        BY <3>2, <4>1, NothingRead
      <4>3. QED
        BY <1>6, <2>1, <3>1, <3>2, <4>1, <4>2, EndFits
    <3>5. QED
      BY <3>3, <3>4
  <2>5. QED
    BY <1>6, <2>3, <2>4 DEF IsTrade
<1>7. req.kind # "accrued"
  BY <1>0, <1>1 DEF FillInv, ReadFits, Final
<1>8. QED
  BY <1>0, <1>1, <1>4, <1>5, <1>6, <1>7, OneFits

LEMMA CrateAwaitFits == ASSUME FillInv, PoolInv', NEW c \in Of("crate"), CrateAwait(c) PROVE FillInv'
<1> DEFINE main == receipts[c].main
           req == Request(c)
           v == venueOf[c]
           told == ToldOf(c, main.logs)
<1>0. c \in Calls /\ req.client = "crate"
  BY DEF Of
<1>1. /\ pc[c] = "await" /\ main.mined
      /\ UNCHANGED <<plan, market, world, handle, mempool, receipts, poolOf, venueOf>>
  BY DEF CrateAwait
<1>2. \/ main.ok /\ told # Err /\ Go(c, "done") /\ result' = [result EXCEPT ![c] = told]
      \/ (~main.ok \/ told = Err) /\ Go(c, "failed") /\ result' = result
  BY DEF CrateAwait, Tell
<1>3. DOMAIN result = Calls
  BY DEF FillInv, Filed
<1>4. Others(c)
  <2> HIDE DEF v, main, req, told
  <2>1. result' = result \/ \E t : result' = [result EXCEPT ![c] = t]
    BY <1>2
  <2>2. QED
    BY <1>0, <1>1, <2>1, TellsOnly
<1>5. PICK to : /\ Go(c, to)
                /\ \/ to = "done" /\ main.ok /\ result'[c] = told
                   \/ to = "failed" /\ (~main.ok \/ told = Err)
  <2> HIDE DEF v, main, req, told
  <2>1. QED
    BY <1>0, <1>2, <1>3, Zenon
<1>6. ASSUME IsTrade(req)
      PROVE  TradeFits(req, plan.quoteIs0, to, OnWay(mempool, c), v, poolOf[c], market.phase, main,
                       result'[c])
  <2>1. /\ TradeFits(req, plan.quoteIs0, "await", OnWay(mempool, c), v, poolOf[c], market.phase,
                     main, result[c])
        /\ OnWay(mempool, c) = {}
    BY <1>0, <1>1, <1>6, MinedOnce DEF FillInv, CallFits
  <2>2. /\ VenueFits(req, "await", v) /\ PoolFits(req, "await", v, poolOf[c])
        /\ Confirmed(req, plan.quoteIs0, v, market.phase, main)
    BY <2>1 DEF TradeFits
  <2>3. CASE req.kind \in Swaps /\ main.ok
    <3>1. v \in {"curve", "pool"}
      BY <2>2, <2>3 DEF VenueFits, Stages, Final
    <3>2. told = main.did /\ told # Err
      <4>1. CASE v = "curve"
        <5>1. told = CurveFill(req) /\ main.did = CurveFill(req)
          BY <2>2, <2>3, <4>1, CurveFillTold DEF ToldOf, Confirmed
        <5>2. QED
          BY <5>1, CurveFillTold
      <4>2. CASE v = "pool"
        <5>1. poolOf[c] = ThisPool
          BY <1>0, <2>2, <4>2 DEF PoolFits
        <5>2. Filled(req, plan.quoteIs0, main.logs, main.did)
          BY <2>2, <2>3, <4>2 DEF Confirmed
        <5>3. PoolTradeResult(c, main.logs) = main.did /\ main.did # Err
          BY <2>3, <5>1, <5>2, FillRead
        <5>4. told = PoolTradeResult(c, main.logs)
          BY <4>2 DEF ToldOf
        <5>5. QED
          BY <5>3, <5>4
      <4>3. QED
        BY <3>1, <4>1, <4>2
    <3> HIDE DEF v, main, req, told
    <3>3. to = "done" /\ result'[c] = main.did
      BY <1>5, <2>3, <3>2
    <3>4. QED
      BY <1>6, <2>1, <2>3, <3>3, EndFits
  <2>4. CASE req.kind = "distribute" /\ main.ok
    <3>1. v = "none" /\ poolOf[c] = ThisPool /\ req.kind \notin Swaps
      BY <1>0, <2>2, <2>4 DEF VenueFits, PoolFits, Swaps
    <3>2. Distributed(main.logs, main.did)
      BY <2>2, <2>4 DEF Confirmed
    <3>3. told = [Nothing EXCEPT !.distributed = FeesDistributedIn(main.logs, poolOf[c])]
      BY <3>1 DEF ToldOf, fees_distributed_from_logs, FeesDistributedIn
    <3>4. told = main.did /\ told # Err
      <4>1. told = main.did
        BY <3>1, <3>2, <3>3, DistributionRead
      <4>2. told # Err
        BY <3>3, CurveFillTold
      <4>3. QED
        BY <4>1, <4>2
    <3> HIDE DEF v, main, req, told
    <3>5. to = "done" /\ result'[c] = main.did
      BY <1>5, <2>4, <3>4
    <3>6. QED
      BY <1>6, <2>1, <3>1, <3>5, EndFits
  <2>5. CASE ~main.ok
    <3> HIDE DEF v, main, req, told
    <3>1. to = "failed"
      BY <1>5, <2>5
    <3>2. QED
      BY <1>6, <2>1, <2>5, <3>1, EndFits
  <2>6. QED
    BY <1>6, <2>3, <2>4, <2>5 DEF IsTrade
<1>7. req.kind # "accrued"
  BY <1>0, <1>1 DEF FillInv, ReadFits, Final
<1>8. QED
  BY <1>0, <1>1, <1>4, <1>5, <1>6, <1>7, OneFits

LEMMA CratePoolIdFits ==
    ASSUME FillInv, PoolInv', NEW c \in Of("crate"), CratePoolId(c) PROVE FillInv'
<1>0. c \in Calls /\ Request(c).client = "crate"
  BY DEF Of
<1>1. /\ pc[c] = "poolId" /\ RememberMarket(c)
      /\ UNCHANGED <<plan, market, world, mempool, receipts, venueOf, result>>
  BY DEF CratePoolId
<1>2. /\ DOMAIN handle' = Accounts /\ \A b \in Accounts : HandleFits(handle'[b])
      /\ DOMAIN poolOf' = Calls /\ \A d \in Calls \ {c} : poolOf'[d] = poolOf[d]
      /\ market.phase = "migrated" => poolOf'[c] = ThisPool
  BY <1>0, <1>1, MarketRemembered
<1>3. Others(c)
  BY <1>1, <1>2, KindsSame DEF Others, FillInv, Filed
<1>4. PICK to : /\ Go(c, to)
                /\ \/ to = "failed"
                   \/ market.phase = "migrated" /\ Request(c).kind = "distribute" /\ to = "send"
                   \/ Request(c).kind # "distribute" /\ to = "accrued"
  BY DEF CratePoolId
<1>5. ASSUME IsTrade(Request(c))
      PROVE  /\ pc[c] \in Unsent(Request(c))
             /\ to \in Unsent(Request(c)) \cup {"failed", "lost"}
             /\ VenueFits(Request(c), to, venueOf'[c])
             /\ PoolFits(Request(c), to, venueOf'[c], poolOf'[c])
  <2>1. pc[c] \in Stages(Request(c)) /\ VenueFits(Request(c), "poolId", venueOf[c])
    BY <1>0, <1>1, <1>5 DEF FillInv, CallFits, TradeFits
  <2>2. Request(c).kind = "distribute" /\ Request(c).kind \notin Swaps
    <3>1. Request(c).kind \notin Swaps
      BY <1>0, <1>1, <2>1 DEF Stages, Unsent, Sending, PoolSteps, Final, Swaps
    <3>2. QED
      BY <1>5, <3>1 DEF IsTrade
  <2>3. to \in {"failed", "send"} /\ (to = "send" => poolOf'[c] = ThisPool)
    BY <1>2, <1>4, <2>2
  <2>4. QED
    BY <1>1, <2>1, <2>2, <2>3 DEF Unsent, Sending, VenueFits, PoolFits, PoolSteps
<1>6. Request(c).kind = "accrued" => to \in {"idle", "poolId", "accrued"} \cup Final
  BY <1>4 DEF Final
<1>7. receipts'[c].main = receipts[c].main
  BY <1>1
<1>8. QED
  BY <1>0, <1>1, <1>3, <1>4, <1>5, <1>6, <1>7, UnsentFits

LEMMA PoolIdFits == ASSUME FillInv, PoolInv', NEW c \in Of("ts"), PoolId(c) PROVE FillInv'
<1> DEFINE a == Request(c).from
           id == PoolIdOf(a)
           main == receipts[c].main
           req == Request(c)
<1>0. c \in Calls /\ req.client = "ts" /\ a \in Accounts /\ Request(c) \in Requests
  BY TradesThrough DEF Of, Requests
<1>1. /\ pc[c] = "poolId" /\ handle' = [handle EXCEPT ![a].poolId = Kept(id)]
      /\ poolOf' = [poolOf EXCEPT ![c] = id]
      /\ UNCHANGED <<plan, market, world, mempool, receipts, venueOf>>
  BY DEF PoolId
<1>2. id \in {ThisPool, ZeroPool} /\ (market.phase = "migrated" => id = ThisPool)
  <2>1. handle[a].poolId \in {Unknown, ThisPool}
    BY <1>0 DEF FillInv, Filed, HandleFits
  <2>2. QED
    BY <2>1 DEF PoolIdOf
<1>3. Kept(id) \in {Unknown, ThisPool}
  BY <1>2 DEF Kept
<1>4. /\ DOMAIN result = Calls /\ DOMAIN poolOf = Calls /\ DOMAIN receipts = Calls
      /\ DOMAIN venueOf = Calls
  BY DEF FillInv, Filed, PoolInv, Places
<1>5. PICK to : /\ Go(c, to)
                /\ result' = result \/ \E told : result' = [result EXCEPT ![c] = told]
                /\ req.kind = "distribute" => to = "simulate" /\ result' = result
                /\ req.kind = "accrued" => to = "accrued"
                /\ req.kind \notin {"distribute", "accrued"} =>
                     IF FillRefused(c, main.logs, id) THEN to = "failed" /\ result' = result
                     ELSE to = "done" /\ result'[c] = QuoteFillFromLogs(c, main.logs, id)
  <2>1. CASE req.kind = "distribute"
    BY <2>1 DEF PoolId
  <2>2. CASE req.kind = "accrued"
    BY <2>2 DEF PoolId
  <2>3. CASE req.kind \notin {"distribute", "accrued"}
    <3>1. IF FillRefused(c, main.logs, id) THEN Go(c, "failed") /\ result' = result
          ELSE Tell(c, QuoteFillFromLogs(c, main.logs, id))
      BY <2>3, Zenon DEF PoolId
    <3> HIDE DEF id, main, req, a
    <3>2. QED
      BY <1>0, <1>4, <2>3, <3>1, Zenon DEF Tell
  <2>4. QED
    BY <2>1, <2>2, <2>3
<1> HIDE DEF id
<1>6. DOMAIN handle' = Accounts /\ \A b \in Accounts : HandleFits(handle'[b])
  BY <1>0, <1>1, <1>3, HandlesFit
<1>7. Others(c)
  BY <1>0, <1>1, <1>4, <1>5, <1>6, KindsSame DEF Others, FillInv, Filed
<1>8. CASE req.kind = "distribute"
  <2>1. TradeFits(req, plan.quoteIs0, "poolId", OnWay(mempool, c), venueOf[c], poolOf[c],
                  market.phase, main, result[c]) /\ IsTrade(req) /\ req.kind \notin Swaps
    BY <1>0, <1>1, <1>8 DEF FillInv, CallFits, IsTrade, Swaps
  <2>2. VenueFits(req, "poolId", venueOf[c])
    BY <2>1 DEF TradeFits
  <2>3. /\ pc[c] \in Unsent(req) /\ to \in Unsent(req) \cup {"failed", "lost"} /\ to = "simulate"
    BY <1>1, <1>5, <1>8 DEF Unsent, Sending
  <2>4. VenueFits(req, to, venueOf'[c])
    BY <1>1, <1>8, <2>1, <2>2 DEF VenueFits
  <2>5. poolOf'[c] = id
    BY <1>0, <1>1, <1>4
  <2>6. PoolFits(req, to, venueOf'[c], poolOf'[c])
    BY <1>0, <1>2, <2>5 DEF PoolFits
  <2>7. receipts'[c].main = receipts[c].main /\ req.kind # "accrued"
    BY <1>1, <1>8
  <2>8. QED
    BY <1>0, <1>1, <1>5, <1>7, <2>1, <2>3, <2>4, <2>6, <2>7, UnsentFits
<1>9. CASE req.kind \in Swaps
  <2>1. TradeFits(req, plan.quoteIs0, "poolId", OnWay(mempool, c), venueOf[c], poolOf[c],
                  market.phase, main, result[c]) /\ IsTrade(req)
        /\ req.kind \notin {"distribute", "accrued"}
    BY <1>0, <1>1, <1>9 DEF FillInv, CallFits, IsTrade, Swaps
  <2>2. /\ OnWay(mempool, c) = {} /\ venueOf[c] = "pool"
        /\ Confirmed(req, plan.quoteIs0, venueOf[c], market.phase, main)
    BY <1>9, <2>1 DEF TradeFits, VenueFits
  <2>3. IF FillRefused(c, main.logs, id) THEN to = "failed" /\ result' = result
        ELSE to = "done" /\ result'[c] = QuoteFillFromLogs(c, main.logs, id)
    BY <1>5, <2>1
  <2>4. \/ to = "done" /\ result'[c] = main.did
        \/ to = "failed" /\ ~main.ok
    <3>1. CASE main.ok
      <4>1. market.phase = "migrated" /\ Filled(req, plan.quoteIs0, main.logs, main.did)
        BY <1>9, <2>2, <3>1 DEF Confirmed
      <4>2. ~FillRefused(c, main.logs, id) /\ QuoteFillFromLogs(c, main.logs, id) = main.did
        BY <1>2, <1>9, <4>1, FillRead
      <4>3. QED
        BY <2>3, <4>2
    <3>2. CASE ~main.ok
      <4>1. main.logs = {}
        BY <2>2, <3>2, Zenon DEF Confirmed
      <4>2. FillRefused(c, main.logs, id)
        BY <4>1, NothingRead
      <4>3. QED
        BY <2>3, <3>2, <4>2
    <3>3. QED
      BY <3>1, <3>2
  <2>5. TradeFits(req, plan.quoteIs0, to, OnWay(mempool, c), venueOf'[c], poolOf'[c],
                  market.phase, receipts'[c].main, result'[c])
    <3> HIDE DEF main, req
    <3>1. TradeFits(req, plan.quoteIs0, to, OnWay(mempool, c), venueOf[c], poolOf'[c],
                    market.phase, main, result'[c])
      BY <1>9, <2>1, <2>2, <2>4, EndFits
    <3>2. QED
      BY <1>1, <3>1 DEF main
  <2>6. QED
    BY <1>0, <1>1, <1>5, <1>7, <2>1, <2>5, OneFits
<1>10. CASE req.kind \notin Swaps \cup {"distribute"}
  <2>1. ~IsTrade(req)
    BY <1>10 DEF IsTrade
  <2>2. req.kind = "accrued" => to \in {"idle", "poolId", "accrued"} \cup Final
    BY <1>5
  <2>3. QED
    BY <1>0, <1>1, <1>5, <1>7, <2>1, <2>2, OneFits
<1>11. QED
  BY <1>8, <1>9, <1>10

-----------------------------------------------------------------------------
(* A transaction is mined, and the market and the world move.              *)

LEMMA OnWayMined ==
    ASSUME FillInv, NEW a \in Accounts, mempool[a] # <<>>
    PROVE  LET tx == Head(mempool[a])
               shorter == [mempool EXCEPT ![a] = Tail(@)]
           IN  /\ tx \in Executable
               /\ \A c : OnWay(shorter, c) \subseteq OnWay(mempool, c)
               /\ tx.kind # "approveQuote" => tx \in OnWay(mempool, tx.call)
               /\ tx.kind # "approveQuote" /\ IsTrade(Request(tx.call)) => OnWay(shorter, tx.call) = {}
               /\ \A b \in Accounts : \A i \in DOMAIN shorter[b] : shorter[b][i] \in Executable
               /\ Lone(shorter, Accounts, SameCall)
<1> DEFINE tx == mempool[a][1]
           shorter == [mempool EXCEPT ![a] = Tail(@)]
<1>1. /\ mempool \in [Accounts -> Seq(Transactions)]
      /\ \A b \in Accounts : \A i \in DOMAIN mempool[b] : mempool[b][i] \in Executable
  BY DEF FillInv, PoolInv, Places
<1>2. mempool[a] \in Seq(Transactions) /\ 1 \in DOMAIN mempool[a] /\ Head(mempool[a]) = tx
  BY <1>1
<1>3. tx \in Executable /\ tx \in Transactions
  BY <1>1, <1>2 DEF Executable
<1>4. /\ shorter \in [Accounts -> Seq(Transactions)]
      /\ \A b \in Accounts : \A i \in DOMAIN shorter[b] : shorter[b][i] \in Executable
  BY <1>1, QueueRemoved
<1>5. /\ Lone(shorter, Accounts, SameCall)
      /\ \A b \in Accounts : \A j \in DOMAIN shorter[b] : <<tx, shorter[b][j]>> \notin SameCall
  BY <1>1, LoneRemoved DEF FillInv
<1>6. \A b \in Accounts : \A i \in DOMAIN shorter[b] :
         \E j \in DOMAIN mempool[b] : shorter[b][i] = mempool[b][j]
  BY <1>1, PlaceRemoved
<1> HIDE DEF shorter
<1>7. Queued(shorter) \subseteq Queued(mempool)
  <2> SUFFICES ASSUME NEW t \in Queued(shorter) PROVE t \in Queued(mempool)
    OBVIOUS
  <2>1. PICK b \in Accounts : \E i \in DOMAIN shorter[b] : t = shorter[b][i]
    BY InQueue
  <2>2. \E j \in DOMAIN mempool[b] : t = mempool[b][j]
    BY <1>6, <2>1
  <2>3. QED
    BY <2>2, InQueue
<1>8. \A c : OnWay(shorter, c) \subseteq OnWay(mempool, c)
  BY <1>7 DEF OnWay
<1>9. tx \in Queued(mempool)
  BY <1>2, InQueue
<1>10. tx.kind # "approveQuote" => tx \in OnWay(mempool, tx.call)
  BY <1>9 DEF OnWay
<1>11. ASSUME tx.kind # "approveQuote", IsTrade(Request(tx.call)) PROVE OnWay(shorter, tx.call) = {}
  <2> SUFFICES ASSUME NEW other \in OnWay(shorter, tx.call) PROVE FALSE
    OBVIOUS
  <2>1. other \in Queued(shorter) /\ other.call = tx.call /\ other.kind # "approveQuote"
    BY DEF OnWay
  <2>2. PICK b \in Accounts : \E j \in DOMAIN shorter[b] : other = shorter[b][j]
    BY <2>1, InQueue
  <2>3. other \in Transactions
    BY <1>4, <2>2 DEF Executable
  <2> HIDE DEF tx
  <2>4. <<tx, other>> \in SameCall
    BY <1>3, <1>11, <2>1, <2>3 DEF SameCall
  <2>5. QED
    BY <1>5, <2>2, <2>4
<1>12. QED
  BY <1>2, <1>3, <1>4, <1>5, <1>8, <1>10, <1>11 DEF shorter

LEMMA MineFits == ASSUME FillInv, PoolInv', NEW a \in Accounts, Mine(a) PROVE FillInv'
<1> DEFINE first == Head(mempool[a])
<1>0. MarketFits(market) /\ WorldFits(world) /\ mempool[a] # <<>>
  BY DEF FillInv, Filed, Mine
<1>1. PICK tx \in Executable : tx = first
  BY <1>0, OnWayMined
<1>2. PICK out : out = Outcome(market, world, Native, plan.quoteIs0, tx)
  OBVIOUS
<1> DEFINE receipt == [mined |-> TRUE, ok |-> out.ok, logs |-> out.logs, did |-> out.did]
<1>3. /\ market' = out.market
      /\ tx.kind = "approveQuote" => receipts' = [receipts EXCEPT ![tx.call].approve = receipt]
      /\ tx.kind # "approveQuote" => receipts' = [receipts EXCEPT ![tx.call].main = receipt]
      /\ mempool' = [mempool EXCEPT ![a] = Tail(@)]
      /\ UNCHANGED <<plan, world, handle, pc, poolOf, venueOf, result>>
  BY <1>1, <1>2 DEF Mine, At
<1>4. /\ \A c : OnWay(mempool', c) \subseteq OnWay(mempool, c)
      /\ tx.kind # "approveQuote" => tx \in OnWay(mempool, tx.call)
      /\ tx.kind # "approveQuote" /\ IsTrade(Request(tx.call)) => OnWay(mempool', tx.call) = {}
      /\ \A b \in Accounts : \A i \in DOMAIN mempool'[b] : mempool'[b][i] \in Executable
      /\ Lone(mempool', Accounts, SameCall)
  <2>1. first = tx
    BY <1>1
  <2>2. QED
    BY <1>0, <1>3, <2>1, OnWayMined
<1>5. /\ Leaves(market, out.market)
      /\ \A req, v : IsTrade(req) /\ Matches(tx, req, v) /\ (req.kind = "distribute" => v = "none")
                     => Confirmed(req, plan.quoteIs0, v, market.phase, out)
  BY <1>0, <1>2, Received
<1>6. receipt.ok = out.ok /\ receipt.logs = out.logs /\ receipt.did = out.did
  OBVIOUS
<1> HIDE DEF receipt, first
<1>7. /\ DOMAIN receipts = Calls /\ \A c \in Calls : DOMAIN receipts[c] = {"approve", "main"}
  BY DEF FillInv, Filed, ReceiptFits
<1>8. /\ DOMAIN receipts' = Calls /\ \A c \in Calls : DOMAIN receipts'[c] = {"approve", "main"}
      /\ \A c \in Calls : c # tx.call \/ tx.kind = "approveQuote" =>
             receipts'[c].main = receipts[c].main
      /\ \A c \in Calls : c = tx.call /\ tx.kind # "approveQuote" => receipts'[c].main = receipt
  <2>1. CASE tx.kind = "approveQuote"
    BY <1>3, <1>7, <2>1
  <2>2. CASE tx.kind # "approveQuote"
    BY <1>3, <1>7, <2>2
  <2>3. QED
    BY <2>1, <2>2
<1>9. MarketFits(market') /\ market'.phase = market.phase
  BY <1>3, <1>5 DEF Leaves
<1>10. Filed'
  <2>1. /\ WorldFits(world') /\ DOMAIN handle' = Accounts /\ \A b \in Accounts : HandleFits(handle'[b])
        /\ DOMAIN poolOf' = Calls /\ DOMAIN result' = Calls
    BY <1>3 DEF FillInv, Filed
  <2>2. Calls' = Calls
    BY <1>3, KindsSame
  <2>3. QED
    BY <1>8, <1>9, <2>1, <2>2 DEF Filed, ReceiptFits
<1>11. ASSUME NEW c \in Calls, IsTrade(Request(c))
       PROVE  TradeFits(Request(c), plan.quoteIs0, pc'[c], OnWay(mempool', c), venueOf'[c],
                        poolOf'[c], market'.phase, receipts'[c].main, result'[c])
  <2>1. TradeFits(Request(c), plan.quoteIs0, pc[c], OnWay(mempool, c), venueOf[c], poolOf[c],
                  market.phase, receipts[c].main, result[c])
    BY <1>11 DEF FillInv, CallFits
  <2>2. CASE c # tx.call \/ tx.kind = "approveQuote"
    <3>1. receipts'[c].main = receipts[c].main /\ OnWay(mempool', c) \subseteq OnWay(mempool, c)
      BY <1>4, <1>8, <2>2
    <3>2. TradeFits(Request(c), plan.quoteIs0, pc[c], OnWay(mempool', c), venueOf[c], poolOf[c],
                    market.phase, receipts[c].main, result[c])
      BY <2>1, <3>1 DEF TradeFits
    <3>3. QED
      BY <1>3, <1>9, <3>1, <3>2
  <2>3. CASE c = tx.call /\ tx.kind # "approveQuote"
    <3>1. /\ receipts'[c].main = receipt /\ OnWay(mempool', c) = {} /\ tx \in OnWay(mempool, c)
      BY <1>4, <1>8, <1>11, <2>3
    <3>2. /\ pc[c] \in Stages(Request(c)) /\ pc[c] \notin Unsent(Request(c))
          /\ pc[c] \notin {"done", "failed", "poolId"}
          /\ Matches(tx, Request(c), venueOf[c])
          /\ VenueFits(Request(c), pc[c], venueOf[c])
          /\ PoolFits(Request(c), pc[c], venueOf[c], poolOf[c])
      BY <2>1, <3>1 DEF TradeFits
    <3>3. Request(c).kind = "distribute" => venueOf[c] = "none"
      BY <3>2 DEF VenueFits
    <3>4. Confirmed(Request(c), plan.quoteIs0, venueOf[c], market.phase, out)
      BY <1>5, <1>11, <3>2, <3>3
    <3>5. Confirmed(Request(c), plan.quoteIs0, venueOf[c], market.phase, receipt)
      BY <1>6, <3>4, Zenon DEF Confirmed
    <3>6. TradeFits(Request(c), plan.quoteIs0, pc[c], OnWay(mempool', c), venueOf[c], poolOf[c],
                    market.phase, receipt, result[c])
      BY <3>1, <3>2, <3>5 DEF TradeFits
    <3>7. QED
      BY <1>3, <1>9, <3>1, <3>6
  <2>4. QED
    BY <2>2, <2>3
<1>12. ASSUME NEW c \in Calls, Request(c).kind = "accrued"
       PROVE  pc'[c] \in {"idle", "poolId", "accrued"} \cup Final
  BY <1>3, <1>12 DEF FillInv, ReadFits
<1>13. QED
  BY <1>3, <1>4, <1>10, <1>11, <1>12, FillHolds

\* A market that only goes on, and a world in which money moves at another price or at
\* another time, leave what every call may rely on.
LEMMA OutsideFits ==
    ASSUME FillInv, PoolInv',
           UNCHANGED <<plan, handle, mempool, receipts, pc, poolOf, venueOf, result>>,
           MarketFits(market'), WorldFits(world'), Onward(market.phase, market'.phase)
    PROVE  FillInv'
<1>1. Filed'
  BY KindsSame DEF FillInv, Filed
<1>2. ASSUME NEW c \in Calls, IsTrade(Request(c))
      PROVE  TradeFits(Request(c), plan.quoteIs0, pc'[c], OnWay(mempool', c), venueOf'[c],
                       poolOf'[c], market'.phase, receipts'[c].main, result'[c])
  <2>1. TradeFits(Request(c), plan.quoteIs0, pc[c], OnWay(mempool, c), venueOf[c], poolOf[c],
                  market.phase, receipts[c].main, result[c])
    BY <1>2 DEF FillInv, CallFits
  <2>2. TradeFits(Request(c), plan.quoteIs0, pc[c], OnWay(mempool, c), venueOf[c], poolOf[c],
                  market'.phase, receipts[c].main, result[c])
    BY <2>1, FitsOnward
  <2>3. QED
    BY <2>2
<1>3. /\ Lone(mempool', Accounts, SameCall)
      /\ \A a \in Accounts : \A i \in DOMAIN mempool'[a] : mempool'[a][i] \in Executable
      /\ \A c \in Calls :
             Request(c).kind = "accrued" => pc'[c] \in {"idle", "poolId", "accrued"} \cup Final
  BY DEF FillInv, ReadFits
<1>4. QED
  BY <1>1, <1>2, <1>3, FillHolds

LEMMA MovesFit ==
    ASSUME FillInv, PoolInv', Graduate \/ Migrate \/ Dust \/ WorldChanges \/ UNCHANGED vars
    PROVE  FillInv'
<1>1. MarketFits(market) /\ WorldFits(world)
  BY DEF FillInv, Filed
<1>2. UNCHANGED <<plan, handle, mempool, receipts, pc, poolOf, venueOf, result>>
  BY DEF Graduate, Migrate, Dust, WorldChanges, vars
<1>3. MarketFits(market') /\ Onward(market.phase, market'.phase)
  <2>1. CASE Graduate
    BY <1>1, <2>1 DEF Graduate, MarketFits, Onward
  <2>2. CASE Migrate
    BY <1>1, <2>2 DEF Migrate, MarketFits, Onward
  <2>3. CASE Dust
    BY <1>1, <2>3 DEF Dust, MarketFits, Onward
  <2>4. CASE WorldChanges \/ UNCHANGED vars
    BY <1>1, <2>4 DEF WorldChanges, vars, Onward
  <2>5. QED
    BY <2>1, <2>2, <2>3, <2>4
<1>4. WorldFits(world')
  <2>1. CASE WorldChanges
    <3>1. \/ world' = [world EXCEPT !.rate = 3 - @]
          \/ world' = [world EXCEPT !.time = 1]
          \/ world' = [world EXCEPT !.recipientTrades = ~@]
      BY <2>1 DEF WorldChanges
    <3>2. QED
      BY <1>1, <3>1 DEF WorldFits
  <2>2. CASE Graduate \/ Migrate \/ Dust \/ UNCHANGED vars
    BY <1>1, <2>2 DEF Graduate, Migrate, Dust, vars
  <2>3. QED
    BY <2>1, <2>2
<1>5. QED
  BY <1>2, <1>3, <1>4, OutsideFits

-----------------------------------------------------------------------------
(* Every step.                                                             *)

LEMMA InitFillInv == Init => FillInv
<1> SUFFICES ASSUME Init PROVE FillInv
  OBVIOUS
<1>1. /\ PoolInv /\ plan \in Plans
      /\ mempool = [a \in Accounts |-> <<>>] /\ pc = [c \in Calls |-> "idle"]
      /\ receipts = [c \in Calls |-> [approve |-> NoReceipt, main |-> NoReceipt]]
      /\ venueOf = [c \in Calls |-> "none"]
      /\ handle = [a \in Accounts |-> [settled |-> "none", poolId |-> Unknown]]
      /\ world = [rate |-> 1, depth |-> plan.depth, time |-> 0, recipientTrades |-> FALSE]
      /\ market.accrued = 0 /\ {"phase", "accrued"} \subseteq DOMAIN market
      /\ DOMAIN poolOf = Calls /\ DOMAIN result = Calls
  BY InitPoolInv DEF Init
<1>2. plan.depth \in Nat
  BY <1>1, PlansAssumption
<1>3. Filed
  BY <1>1, <1>2 DEF Filed, MarketFits, WorldFits, HandleFits, ReceiptFits
<1>4. /\ Lone(mempool, Accounts, SameCall)
      /\ \A a \in Accounts : \A i \in DOMAIN mempool[a] : mempool[a][i] \in Executable
  BY <1>1 DEF Lone
<1>5. ASSUME NEW c \in Calls PROVE CallFits(c) /\ ReadFits(c)
  <2>1. pc[c] = "idle" /\ receipts[c].main = NoReceipt /\ venueOf[c] = "none"
    BY <1>1
  <2>2. OnWay(mempool, c) = {}
    <3>1. Queued(mempool) = {}
      BY <1>1, InQueue
    <3>2. QED
      BY <3>1 DEF OnWay
  <2>3. ~NoReceipt.ok /\ NoReceipt.logs = {} /\ NoReceipt.did = Nothing
    BY DEF NoReceipt
  <2>4. Confirmed(Request(c), plan.quoteIs0, "none", market.phase, NoReceipt)
    BY <2>3, Zenon DEF Confirmed
  <2>5. "idle" \in Stages(Request(c)) /\ "idle" \notin Final
    BY DEF Stages, Final, Unsent
  <2>6. VenueFits(Request(c), "idle", "none") /\ PoolFits(Request(c), "idle", "none", poolOf[c])
    BY DEF VenueFits, PoolFits, PoolSteps, Sending
  <2>7. TradeFits(Request(c), plan.quoteIs0, "idle", OnWay(mempool, c), "none", poolOf[c],
                  market.phase, NoReceipt, result[c])
    BY <2>2, <2>4, <2>5, <2>6, Zenon DEF TradeFits, Final
  <2>8. QED
    BY <2>1, <2>7 DEF CallFits, ReadFits
<1>6. QED
  BY <1>1, <1>3, <1>4, <1>5 DEF FillInv

LEMMA NextFillInv == FillInv /\ [Next]_vars => FillInv'
<1> SUFFICES ASSUME FillInv, [Next]_vars PROVE FillInv'
  OBVIOUS
<1>1. PoolInv'
  BY NextPoolInv DEF FillInv
<1>2. CASE \E c \in Of("ts") : Step(c)
  <2>1. PICK c \in Of("ts") : Step(c)
    BY <1>2
  <2>2. c \in Calls
    BY DEF Of
  <2>3. CASE Start(c) \/ ReadAllowance(c) \/ ReadTokenAllowance(c) \/ Preflight(c)
             \/ AwaitApprove(c) \/ Estimate(c) \/ Simulate(c)
    BY <1>1, <2>2, <2>3, StartsFit, StepsOnVenue
  <2>4. CASE Venue(c) \/ Reach(c)
    BY <1>1, <2>4, VenueSettles, ReachTakes
  <2>5. CASE CurveQuote(c) \/ Quote(c) \/ Accrued(c)
    BY <1>1, <2>2, <2>5, ReadsFit
  <2>6. CASE SendApprove(c) \/ Send(c)
    BY <1>1, <2>2, <2>6, ApproveFits, SendFits
  <2>7. CASE Await(c) \/ PoolId(c)
    BY <1>1, <2>7, AwaitFits, PoolIdFits
  <2>8. QED
    BY <2>1, <2>3, <2>4, <2>5, <2>6, <2>7 DEF Step
<1>3. CASE \E c \in Of("crate") : CrateStep(c)
  <2>1. PICK c \in Of("crate") : CrateStep(c)
    BY <1>3
  <2>2. c \in Calls
    BY DEF Of
  <2>3. CASE CrateStart(c) \/ ReadAllowance(c) \/ CrateReadTokenAllowance(c) \/ Preflight(c)
             \/ AwaitApprove(c) \/ CrateEstimate(c)
    BY <1>1, <2>2, <2>3, StartsFit, StepsOnVenue
  <2>4. CASE Choose(c) \/ CrateVenue(c) \/ CrateReach(c)
    BY <1>1, <2>2, <2>4, ChoiceTakes, CrateVenueTakes, CrateReachTakes
  <2>5. CASE CurveQuote(c) \/ CrateQuote(c) \/ Accrued(c)
    BY <1>1, <2>2, <2>5, ReadsFit
  <2>6. CASE SendApprove(c) \/ CrateSend(c)
    BY <1>1, <2>2, <2>6, ApproveFits, CrateSendFits
  <2>7. CASE CrateAwait(c) \/ CratePoolId(c)
    BY <1>1, <2>7, CrateAwaitFits, CratePoolIdFits
  <2>8. QED
    BY <2>1, <2>3, <2>4, <2>5, <2>6, <2>7 DEF CrateStep
<1>4. CASE \E c \in Calls : RpcFails(c) \/ CallAgain(c)
  BY <1>1, <1>4, LostFits, AgainFits
<1>5. CASE \E a \in Accounts : Mine(a)
  BY <1>1, <1>5, MineFits
<1>6. CASE Graduate \/ Migrate \/ Dust \/ WorldChanges \/ UNCHANGED vars
  BY <1>1, <1>6, MovesFit
<1>7. QED
  BY <1>2, <1>3, <1>4, <1>5, <1>6 DEF Next

\* Whatever the two clients' calls do side by side, a trade that returns has told what
\* its own transaction moved, to the last raw unit and whatever other swaps its receipt
\* holds, and so has a distribution that went by the pool's id (PoolClients.FillsTold).
THEOREM FillsAreTold == Spec => []FillsTold
<1>1. FillInv => FillsTold
  <2> SUFFICES ASSUME FillInv, NEW c \in Calls, pc[c] = "done"
               PROVE  /\ Request(c).kind \in Swaps => result[c] = receipts[c].main.did
                      /\ Request(c).kind = "distribute" /\ poolOf[c] = ThisPool =>
                             result[c] = receipts[c].main.did
    BY DEF FillsTold
  <2>1. IsTrade(Request(c)) =>
            result[c] = IF Request(c).kind \in Swaps \/ poolOf[c] = ThisPool
                        THEN receipts[c].main.did ELSE Nothing
    BY DEF FillInv, CallFits, TradeFits
  <2>2. Request(c).kind = "distribute" => Request(c).kind \notin Swaps
    BY DEF Swaps
  <2>3. QED
    BY <2>1, <2>2 DEF IsTrade
<1>2. QED
  BY <1>1, InitFillInv, NextFillInv, PTL DEF Spec

\* A trade that throws by itself has not happened, at whichever venue it was sent to
\* (PoolClients.ThrowsMeanNoTrade): the pool's id that a TypeScript handle reads after
\* its swap was mined is that of the pool it traded in.
THEOREM ThrownSwapsNothing == Spec => []ThrowsMeanNoTrade
<1>1. FillInv => ThrowsMeanNoTrade
  BY DEF FillInv, CallFits, TradeFits, IsTrade, ThrowsMeanNoTrade
<1>2. QED
  BY <1>1, InitFillInv, NextFillInv, PTL DEF Spec

-----------------------------------------------------------------------------
(* What a quote tells is what the swap would have done when it was asked.  *)
(*                                                                         *)
(* The router returns both legs in one word: each goes through its half as *)
(* two's complement, and comes out with the sign it had.                   *)

LEMMA EuclidSigned ==
    \A k \in Int, s \in Nat \ {0} :
        \E q \in Int, r \in 0 .. s - 1 : q = k \div s /\ r = k % s /\ k = q * s + r
OBVIOUS

LEMMA RemainderUnique ==
    ASSUME NEW q \in Int, NEW s \in Nat \ {0}, NEW r \in 0 .. s - 1
    PROVE  (q * s + r) % s = r
<1>0. \A a, b \in Int : a * b \in Int /\ (a >= 1 /\ b >= 0 => a * b >= b)
  OBVIOUS
<1>1. q * s + r \in Int
  BY <1>0
<1>2. PICK p \in Int, t \in 0 .. s - 1 :
         p = (q * s + r) \div s /\ t = (q * s + r) % s /\ q * s + r = p * s + t
  BY <1>1, EuclidSigned
<1>3. q * s - p * s = (q - p) * s /\ p * s - q * s = (p - q) * s
  OBVIOUS
<1>4. ~(q - p >= 1) /\ ~(p - q >= 1)
  <2>1. q - p >= 1 => (q - p) * s >= s
    BY <1>0
  <2>2. p - q >= 1 => (p - q) * s >= s
    BY <1>0
  <2>3. q * s \in Int /\ p * s \in Int
    BY <1>0
  <2> QED
    BY <1>2, <1>3, <2>1, <2>2, <2>3
<1>5. p = q
  BY <1>4
<1> QED
  <2>1. q * s \in Int
    BY <1>0
  <2> QED
    BY <1>2, <1>5, <2>1

\* A signed number of one bit less, kept in s and brought back, is itself.
LEMMA SignKept ==
    ASSUME NEW h \in Nat \ {0}, NEW s \in Nat \ {0}, s = 2 * h, NEW n \in -h .. h - 1
    PROVE  \E u \in 0 .. s - 1 :
              u = n % s /\ n = (IF u >= h THEN u - s ELSE u) /\ (n < 0 => u = n + s)
<1>1. CASE n >= 0
  <2>1. n \in 0 .. s - 1 /\ 0 * s + n = n
    BY <1>1
  <2>2. (0 * s + n) % s = n
    BY <2>1, RemainderUnique
  <2> QED
    BY <1>1, <2>1, <2>2
<1>2. CASE ~(n >= 0)
  <2>1. n + s \in 0 .. s - 1 /\ -1 \in Int
    BY <1>2
  <2>2. (-1 * s + (n + s)) % s = n + s
    <3>1. PICK q \in Int : q = -1
      BY <2>1
    <3>2. (q * s + (n + s)) % s = n + s
      BY <2>1, RemainderUnique
    <3> QED
      BY <3>1, <3>2
  <2>3. -1 * s + (n + s) = n
    OBVIOUS
  <2>4. n % s = n + s
    BY <2>2, <2>3
  <2> QED
    BY <1>2, <2>1, <2>4
<1> QED
  BY <1>1, <1>2

HalfWord == 2^(HalfBits - 1)
Halved == -HalfWord .. HalfWord - 1

\* What is packed into a word is unpacked again, by either client.
LEMMA HalvesKept ==
    ASSUME NEW a \in Halved, NEW b \in Halved
    PROVE  LET packed == Packed([amount0 |-> a, amount1 |-> b])
           IN  /\ Unpacked(packed) = [amount0 |-> a, amount1 |-> b]
               /\ unpack_balance_delta(packed) = [high |-> a, low |-> b]
<1>1. PICK h \in Nat \ {0} : h = 2^(HalfBits - 1)
  BY HalvesAssumption
<1>2. PICK s \in Nat \ {0} : s = 2^HalfBits /\ s = 2 * h
  BY <1>1, HalvesAssumption
<1>3. PICK w \in Nat \ {0} : w = 2^(2 * HalfBits) /\ w = s * s
  <2>1. s * s \in Nat /\ s * s # 0
    <3>1. 1 * s <= s * s
      BY MulMono
    <3> QED
      BY <3>1, MulNat
  <2> QED
    BY <1>2, <2>1, HalvesAssumption
<1>4. PICK g \in Nat \ {0} : g = 2^(2 * HalfBits - 1) /\ g = h * s /\ w = 2 * g
  <2>1. h * s \in Nat /\ h * s # 0
    <3>1. 1 * s <= h * s
      BY MulMono
    <3> QED
      BY <3>1, MulNat
  <2>2. (2 * h) * s = 2 * (h * s)
    OBVIOUS
  <2>3. 2^(2 * HalfBits - 1) = h * s
    BY <1>1, <1>2, HalvesAssumption
  <2>4. w = 2 * (h * s)
    BY <1>2, <1>3, <2>2
  <2> QED
    BY <2>1, <2>3, <2>4
<1>5. a \in -h .. h - 1 /\ b \in -h .. h - 1
  BY <1>1 DEF Halved, HalfWord
<1>6. PICK ua \in 0 .. s - 1 :
         ua = a % s /\ a = (IF ua >= h THEN ua - s ELSE ua) /\ (a < 0 => ua = a + s)
  BY <1>2, <1>5, SignKept
<1>7. PICK ub \in 0 .. s - 1 :
         ub = b % s /\ b = (IF ub >= h THEN ub - s ELSE ub) /\ (b < 0 => ub = b + s)
  BY <1>2, <1>5, SignKept
<1>8. PICK word \in 0 .. w - 1 : word = ua * s + ub
  <2>1. ua * s <= (s - 1) * s /\ ua * s \in Nat
    <3>1. ua \in Nat /\ s - 1 \in Nat /\ ua <= s - 1
      OBVIOUS
    <3> QED
      BY <3>1, MulMono, MulNat
  <2>2. (s - 1) * s = s * s - s
    OBVIOUS
  <2>3. ua * s + ub \in 0 .. w - 1
    BY <1>3, <2>1, <2>2
  <2> QED
    BY <2>3
<1>9. word \div s = ua /\ word % s = ub
  BY <1>8, EuclidUnique
<1>10. word % w = word
  <2>1. (0 * w + word) % w = word
    BY EuclidUnique
  <2> QED
    BY <2>1
<1> DEFINE signed == IF word >= g THEN word - w ELSE word
           packed == Packed([amount0 |-> a, amount1 |-> b])
<1>11. packed = signed
  <2>1. AsUint(HalfBits, a) * 2^HalfBits + AsUint(HalfBits, b) = word
    BY <1>2, <1>6, <1>7, <1>8 DEF AsUint
  <2>2. packed = AsInt(2 * HalfBits, word)
    BY <2>1 DEF Packed
  <2>3. AsUint(2 * HalfBits, word) = word
    BY <1>3, <1>10 DEF AsUint
  <2> QED
    BY <1>3, <1>4, <2>2, <2>3 DEF AsInt
<1>12. signed % w = word
  <2>1. CASE word >= g
    <3>1. PICK n \in -g .. g - 1 : n = word - w
      BY <1>4, <2>1
    <3>2. n % w = n + w
      BY <1>4, <2>1, <3>1, SignKept
    <3> QED
      BY <2>1, <3>1, <3>2
  <2>2. CASE ~(word >= g)
    BY <1>10, <2>2
  <2> QED
    BY <2>1, <2>2
<1> HIDE DEF signed, packed
<1>13. AsUint(2 * HalfBits, packed) = word
  BY <1>3, <1>11, <1>12 DEF AsUint
<1>14. AsInt(HalfBits, ua) = a
  <2>1. ua % s = ua
    <3>1. (0 * s + ua) % s = ua
      BY EuclidUnique
    <3> QED
      BY <3>1
  <2> QED
    BY <1>1, <1>2, <1>6, <2>1 DEF AsInt, AsUint
<1>15. AsInt(HalfBits, word) = b
  BY <1>1, <1>2, <1>7, <1>9 DEF AsInt, AsUint
<1>16. Unpacked(packed) = [amount0 |-> a, amount1 |-> b]
  BY <1>2, <1>9, <1>13, <1>14, <1>15 DEF Unpacked
<1>17. unpack_balance_delta(packed) = [high |-> a, low |-> b]
  BY <1>2, <1>9, <1>13, <1>14, <1>15 DEF unpack_balance_delta
<1> QED
  BY <1>16, <1>17 DEF packed

\* The figures of a fill are within the amount, at either rate; a buy that fills in full
\* costs the amount, and a sell pays what its price less the hook's fee comes to.
LEMMA FillBounded ==
    ASSUME NEW w, WorldFits(w), NEW tx, tx.kind \in Swaps, NEW n \in Nat, n = tx.amount,
           NEW fill, fill = Fill(w, tx)
    PROVE  /\ fill.fee \in Nat /\ fill.tokens \in 0 .. 2 * n
           /\ tx.kind = "buy" =>
                  /\ TraderLeg(fill) \in -n .. 0
                  /\ w.depth >= n => TraderLeg(fill) = -n /\ fill.fee = BuyFeeRaw(n)
           /\ tx.kind = "sell" =>
                  /\ TraderLeg(fill) \in 0 .. n
                  /\ \E gross \in Nat :
                        fill.fee = BuyFeeRaw(gross) /\ TraderLeg(fill) = gross - fill.fee
<1>0. w.rate \in {1, 2} /\ w.depth \in Nat
  BY DEF WorldFits
<1>1. CASE tx.kind = "buy"
  <2> DEFINE fee == BuyFeeRaw(n)
             in == LesserOf(n - fee, w.depth)
  <2>1. fee \in Nat /\ fee <= n
    BY HookFeeWithin
  <2>2. in \in Nat /\ in <= n - fee /\ (w.depth >= n => in = n - fee)
    BY <1>0, <2>1 DEF LesserOf
  <2>3. fill = [leg |-> -in, fee |-> fee, tokens |-> in * w.rate]
    BY <1>1 DEF Fill, BuyFill
  <2> HIDE DEF fee, in
  <2>4. fill.leg = -in /\ fill.fee = fee /\ fill.tokens = in * w.rate
    BY <2>3
  <2>5. in * w.rate \in 0 .. 2 * n
    BY <1>0, <2>1, <2>2
  <2>6. TraderLeg(fill) = -in - fee
    BY <2>4 DEF TraderLeg
  <2>7. TraderLeg(fill) \in -n .. 0 /\ (w.depth >= n => TraderLeg(fill) = -n)
    BY <1>0, <2>1, <2>2, <2>6
  <2> QED
    BY <1>1, <2>1, <2>4, <2>5, <2>7 DEF fee
<1>2. CASE tx.kind = "sell"
  <2> DEFINE gross == LesserOf(n \div w.rate, w.depth)
             fee == BuyFeeRaw(gross)
  <2>1. gross \in Nat /\ gross <= n
    BY <1>0 DEF LesserOf
  <2>2. fee \in Nat /\ fee <= gross
    BY <2>1, HookFeeWithin
  <2>3. fill = [leg |-> gross, fee |-> fee, tokens |-> gross * w.rate]
    BY <1>2 DEF Fill, SellFill
  <2> HIDE DEF gross
  <2>4. fill.leg = gross /\ fill.fee = BuyFeeRaw(gross) /\ fill.tokens = gross * w.rate
    BY <2>3
  <2>5. gross * w.rate \in 0 .. 2 * n
    BY <1>0, <2>1
  <2>6. TraderLeg(fill) = gross - fill.fee /\ TraderLeg(fill) \in 0 .. n
    BY <2>1, <2>2, <2>4 DEF TraderLeg
  <2> QED
    BY <1>2, <2>1, <2>2, <2>4, <2>5, <2>6
<1> QED
  BY <1>1, <1>2 DEF Swaps

QuoteTx(c) == [Transaction(c, Unlimited) EXCEPT !.min = 0, !.deadline = 1]

LEMMA QuoteAsks ==
    ASSUME plan \in Plans, NEW c \in Calls, Request(c).kind \in Quotes
    PROVE  /\ QuoteTx(c).kind = IF Request(c).kind = "quoteBuy" THEN "buy" ELSE "sell"
           /\ QuoteTx(c).kind \in Swaps
           /\ \E n \in Nat : n = Request(c).amount /\ n = QuoteTx(c).amount /\ 2 * n < HalfWord
<1>1. /\ QuoteTx(c).kind = Transaction(c, Unlimited).kind
      /\ QuoteTx(c).amount = Request(c).amount
  BY DEF QuoteTx, Transaction
<1>2. Request(c).amount \in Nat /\ 2 * Request(c).amount < HalfWord
  BY RequestTypes, HalvesAssumption DEF Requests, Calls, Request, HalfWord
<1>3. CASE Request(c).kind = "quoteBuy"
  <2>1. /\ ~(venueOf[c] = "curve" /\ Request(c).kind = "buy")
        /\ ~(venueOf[c] = "curve" /\ Request(c).kind = "sell")
        /\ Request(c).kind # "quoteSell"
    BY <1>3
  <2>2. Transaction(c, Unlimited).kind = "buy"
    BY <1>3, <2>1, Zenon DEF Transaction
  <2> QED
    BY <1>1, <1>2, <1>3, <2>2 DEF Swaps
<1>4. CASE Request(c).kind = "quoteSell"
  <2>1. /\ ~(venueOf[c] = "curve" /\ Request(c).kind = "buy")
        /\ ~(venueOf[c] = "curve" /\ Request(c).kind = "sell")
        /\ Request(c).kind # "quoteBuy"
    BY <1>4
  <2>2. Transaction(c, Unlimited).kind = "sell"
    BY <1>4, <2>1, Zenon DEF Transaction
  <2> QED
    BY <1>1, <1>2, <1>4, <2>1, <2>2 DEF Swaps
<1> QED
  BY <1>3, <1>4 DEF Quotes

\* What a quote's simulation returns, and what either client makes of the word.
LEMMA QuoteSimulated ==
    ASSUME plan \in Plans, WorldFits(world), NEW c \in Calls, Request(c).kind \in Quotes,
           NEW m, NEW fill, fill = Fill(world, QuoteTx(c)),
           NEW word, word = RouterDelta(plan.quoteIs0, QuoteTx(c), fill)
    PROVE  /\ \/ At(m, QuoteTx(c)).ok = FALSE
              \/ /\ At(m, QuoteTx(c)).ok = TRUE
                 /\ At(m, QuoteTx(c)).did.quote = Moved(TraderLeg(fill))
                 /\ At(m, QuoteTx(c)).did.tokens = fill.tokens
                 /\ At(m, QuoteTx(c)).did.fee = fill.fee
           /\ QuoteLeg(Unpacked(word)) = TraderLeg(fill)
           /\ TokenLegOf(Unpacked(word)) = TokenLeg(QuoteTx(c), fill)
           /\ quote_and_token_legs(word) =
                  [quote |-> TraderLeg(fill), token |-> TokenLeg(QuoteTx(c), fill)]
<1> DEFINE tx == QuoteTx(c)
           outcome == At(m, tx)
           done == [ quote |-> Moved(TraderLeg(fill)), tokens |-> fill.tokens,
                     fee |-> fill.fee, distributed |-> m.accrued ]
<1>0. PICK n \in Nat : n = tx.amount /\ 2 * n < HalfWord
  BY QuoteAsks
<1>1. tx.kind \in Swaps /\ HalfWord \in Nat \ {0}
  BY QuoteAsks, HalvesAssumption DEF HalfWord
<1>2. outcome = SwapOutcome(m, world, Native, plan.quoteIs0, tx)
  BY <1>1 DEF At, Outcome, Swaps
<1> HIDE DEF tx
<1>3. outcome.ok = FALSE \/ (outcome.ok = TRUE /\ outcome.did = done)
  <2>1. ASSUME SwapRefused(m, world, Native, tx) PROVE outcome.ok = FALSE
    <3>1. outcome = Reverted(m)
      BY <1>2, <2>1, Zenon DEF SwapOutcome
    <3> QED
      BY <3>1 DEF Reverted
  <2>2. ASSUME ~SwapRefused(m, world, Native, tx) PROVE outcome.ok = TRUE /\ outcome.did = done
    <3> DEFINE after == IF tx.kind = "buy" THEN Bought(m, Native, tx, fill)
                        ELSE Sold(m, tx, fill)
    <3>1. outcome = [ ok |-> TRUE, market |-> [after EXCEPT !.accrued = fill.fee],
                      logs |-> SwapLogs(m, world, plan.quoteIs0, tx, fill), did |-> done ]
      BY <1>2, <2>2, Zenon DEF SwapOutcome, tx
    <3> HIDE DEF after, done, outcome
    <3> QED
      BY <3>1
  <2> QED
    BY <2>1, <2>2
<1>4. /\ done.quote = Moved(TraderLeg(fill)) /\ done.tokens = fill.tokens
      /\ done.fee = fill.fee
  OBVIOUS
<1>5. PICK paid \in Halved, given \in Halved :
         paid = TraderLeg(fill) /\ given = TokenLeg(tx, fill)
  <2>1. /\ fill.tokens \in 0 .. 2 * n
        /\ tx.kind = "buy" => TraderLeg(fill) \in -n .. 0
        /\ tx.kind = "sell" => TraderLeg(fill) \in 0 .. n
    BY <1>0, <1>1, FillBounded DEF tx
  <2>2. TraderLeg(fill) \in -n .. n
    BY <1>1, <2>1 DEF Swaps
  <2>3. TraderLeg(fill) \in Halved
    BY <1>0, <1>1, <2>2 DEF Halved
  <2>4. TokenLeg(tx, fill) \in Halved
    BY <1>0, <1>1, <2>1 DEF TokenLeg, Halved
  <2> QED
    BY <2>3, <2>4
<1>6. /\ QuoteLeg(Unpacked(word)) = paid /\ TokenLegOf(Unpacked(word)) = given
      /\ quote_and_token_legs(word) = [quote |-> paid, token |-> given]
  <2>1. ASSUME plan.quoteIs0
        PROVE  /\ QuoteLeg(Unpacked(word)) = paid /\ TokenLegOf(Unpacked(word)) = given
               /\ quote_and_token_legs(word) = [quote |-> paid, token |-> given]
    <3>1. Oriented(plan.quoteIs0, TraderLeg(fill), TokenLeg(tx, fill))
             = [amount0 |-> paid, amount1 |-> given]
      BY <1>5, <2>1, Zenon DEF Oriented
    <3>2. word = Packed([amount0 |-> paid, amount1 |-> given])
      BY <3>1, Zenon DEF RouterDelta, tx
    <3>3. /\ Unpacked(word) = [amount0 |-> paid, amount1 |-> given]
          /\ unpack_balance_delta(word) = [high |-> paid, low |-> given]
      BY <3>2, HalvesKept
    <3>4. Unpacked(word).amount0 = paid /\ Unpacked(word).amount1 = given
      BY <3>3
    <3>5. /\ unpack_balance_delta(word).high = paid
          /\ unpack_balance_delta(word).low = given
      BY <3>3
    <3> QED
      BY <2>1, <3>4, <3>5, Zenon DEF quote_and_token_legs, QuoteLeg, TokenLegOf
  <2>2. ASSUME ~plan.quoteIs0
        PROVE  /\ QuoteLeg(Unpacked(word)) = paid /\ TokenLegOf(Unpacked(word)) = given
               /\ quote_and_token_legs(word) = [quote |-> paid, token |-> given]
    <3>1. Oriented(plan.quoteIs0, TraderLeg(fill), TokenLeg(tx, fill))
             = [amount0 |-> given, amount1 |-> paid]
      BY <1>5, <2>2, Zenon DEF Oriented
    <3>2. word = Packed([amount0 |-> given, amount1 |-> paid])
      BY <3>1, Zenon DEF RouterDelta, tx
    <3>3. /\ Unpacked(word) = [amount0 |-> given, amount1 |-> paid]
          /\ unpack_balance_delta(word) = [high |-> given, low |-> paid]
      BY <3>2, HalvesKept
    <3>4. Unpacked(word).amount0 = given /\ Unpacked(word).amount1 = paid
      BY <3>3
    <3>5. /\ unpack_balance_delta(word).high = given
          /\ unpack_balance_delta(word).low = paid
      BY <3>3
    <3> QED
      BY <2>2, <3>4, <3>5, Zenon DEF quote_and_token_legs, QuoteLeg, TokenLegOf
  <2> QED
    BY <2>1, <2>2
<1>7. \/ outcome.ok = FALSE
      \/ /\ outcome.ok = TRUE
         /\ outcome.did.quote = Moved(TraderLeg(fill)) /\ outcome.did.tokens = fill.tokens
         /\ outcome.did.fee = fill.fee
  <2> HIDE DEF outcome, done
  <2> QED
    BY <1>3, <1>4
<1>8. quote_and_token_legs(word) =
         [quote |-> TraderLeg(fill), token |-> TokenLeg(QuoteTx(c), fill)]
  BY <1>5, <1>6, Zenon DEF tx
<1> QED
  BY <1>5, <1>6, <1>7, <1>8, Zenon DEF tx, outcome

-----------------------------------------------------------------------------
(* Where a quote goes, and what it comes back with.                        *)

QuotePlaces == {"idle", "venue", "curveQuote", "reach", "quote"} \cup Final

\* The swap would have moved nothing, and what the swap would have moved.
Unpriced(p) == p.ok = FALSE \/ p.did.quote = 0 \/ p.did.tokens = 0

Answers(p, told) ==
    /\ told.quote = p.did.quote /\ told.tokens = p.did.tokens
    /\ p.full => told.fee - p.did.fee \in 0 .. 1

\* What is so of a quote at a place, on venue v: only the pool's answer is told as done
\* there, and one that has not been answered, also when it is asked for again, could
\* not have moved anything.
QuoteFit(req, place, v, p, told) ==
    req.kind \in Quotes =>
        /\ place \in QuotePlaces
        /\ place = "curveQuote" => v = "curve"
        /\ place = "done" /\ v = "pool" => Answers(p, told)
        /\ place # "done" => Unpriced(p)

QuoteInv ==
    /\ FillInv
    /\ DOMAIN priced = Calls
    /\ \A c \in Calls : QuoteFit(Request(c), pc[c], venueOf[c], priced[c], result[c])

\* What a step of one call leaves of the others' quotes.
QuoteAside(c) ==
    /\ plan' = plan /\ DOMAIN priced' = Calls
    /\ \E to : Go(c, to)
    /\ \A d \in Calls \ {c} :
           venueOf'[d] = venueOf[d] /\ priced'[d] = priced[d] /\ result'[d] = result[d]

LEMMA QuoteStays ==
    ASSUME QuoteInv, FillInv', NEW c \in Calls, QuoteAside(c),
           QuoteFit(Request(c), pc'[c], venueOf'[c], priced'[c], result'[c])
    PROVE  QuoteInv'
<1>1. plan' = plan /\ DOMAIN priced' = Calls
  BY DEF QuoteAside
<1>2. Calls' = Calls /\ \A d \in Calls : Request(d)' = Request(d)
  BY <1>1, KindsSame
<1>3. PICK to : pc' = [pc EXCEPT ![c] = to]
  BY DEF QuoteAside, Go
<1>4. pc \in [Calls -> Labels]
  BY DEF QuoteInv, FillInv, PoolInv, Places
<1>5. ASSUME NEW d \in Calls
      PROVE  QuoteFit(Request(d), pc'[d], venueOf'[d], priced'[d], result'[d])
  <2>1. CASE d = c
    BY <2>1
  <2>2. CASE d # c
    <3>1. pc'[d] = pc[d]
      BY <1>3, <1>4, <2>2
    <3>2. venueOf'[d] = venueOf[d] /\ priced'[d] = priced[d] /\ result'[d] = result[d]
      BY <2>2 DEF QuoteAside
    <3> QED
      BY <3>1, <3>2 DEF QuoteInv
  <2> QED
    BY <2>1, <2>2
<1> QED
  BY <1>1, <1>2, <1>5 DEF QuoteInv

LEMMA StepsAside ==
    ASSUME QuoteInv, NEW c \in Calls,
           Step(c) \/ CrateStep(c) \/ RpcFails(c) \/ CallAgain(c)
    PROVE  QuoteAside(c)
<1>1. DOMAIN priced = Calls /\ DOMAIN venueOf = Calls /\ DOMAIN result = Calls
  BY DEF QuoteInv, FillInv, PoolInv, Places, Filed
<1>2. CASE \/ CurveQuote(c) \/ ReadAllowance(c) \/ ReadTokenAllowance(c) \/ Preflight(c)
           \/ SendApprove(c) \/ AwaitApprove(c) \/ Simulate(c)
  BY <1>1, <1>2 DEF QuoteAside, CurveQuote, ReadAllowance, ReadTokenAllowance, Preflight,
                    SendApprove, AwaitApprove, Simulate
<1>3. CASE Venue(c) \/ Reach(c) \/ Estimate(c) \/ Send(c)
  BY <1>1, <1>3 DEF QuoteAside, Venue, Reach, Estimate, Send
<1>4. CASE Quote(c) \/ Await(c) \/ PoolId(c) \/ Accrued(c)
  BY <1>1, <1>4 DEF QuoteAside, Quote, Await, PoolId, Accrued, Tell
<1>5. CASE Choose(c) \/ CrateVenue(c) \/ CrateReach(c) \/ CratePoolId(c)
  BY <1>1, <1>5 DEF QuoteAside, Choose, CrateVenue, CrateReach, CratePoolId
<1>6. CASE CrateQuote(c) \/ CrateReadTokenAllowance(c) \/ CrateEstimate(c) \/ CrateSend(c)
           \/ CrateAwait(c)
  BY <1>1, <1>6 DEF QuoteAside, CrateQuote, CrateReadTokenAllowance, CrateEstimate, CrateSend,
                    CrateAwait, Tell
<1>7. CASE RpcFails(c) \/ CallAgain(c)
  BY <1>1, <1>7 DEF QuoteAside, RpcFails, CallAgain
<1>8. CASE Start(c) \/ CrateStart(c)
  <2>1. /\ Request(c).kind \in Kinds /\ Request(c).via \in {"trade", "pool"}
        /\ Request(c).via = "trade" => Request(c).kind \in Swaps \cup Quotes
    BY TradesThrough DEF Requests, QuoteInv
  <2>2. \E to : Go(c, to)
    <3>1. CASE Start(c)
      BY <2>1, <3>1 DEF Start, Swaps, Quotes, Kinds
    <3>2. CASE CrateStart(c)
      BY <2>1, <3>2 DEF CrateStart, Swaps, Quotes, Kinds
    <3> QED
      BY <1>8, <3>1, <3>2
  <2>3. UNCHANGED <<plan, venueOf, priced, result>>
    BY <1>8 DEF Start, CrateStart
  <2> QED
    BY <1>1, <2>2, <2>3 DEF QuoteAside
<1> QED
  BY <1>2, <1>3, <1>4, <1>5, <1>6, <1>7, <1>8 DEF Step, CrateStep

\* The steps that are no quote's leave what quotes come back with.
LEMMA NoQuotesStep ==
    ASSUME QuoteInv, NEW c \in Calls,
           \/ ReadAllowance(c) \/ ReadTokenAllowance(c) \/ Preflight(c) \/ SendApprove(c)
           \/ AwaitApprove(c) \/ Estimate(c) \/ Simulate(c) \/ Send(c) \/ Await(c)
           \/ PoolId(c) \/ Accrued(c) \/ Choose(c) \/ CratePoolId(c)
           \/ CrateReadTokenAllowance(c) \/ CrateEstimate(c) \/ CrateSend(c) \/ CrateAwait(c)
    PROVE  QuoteFit(Request(c), pc'[c], venueOf'[c], priced'[c], result'[c])
<1>1. pc[c] \in {"allowance", "tokenAllowance", "preflight", "simulateApprove", "awaitApprove",
                 "estimate", "simulate", "send", "await", "poolId", "accrued", "choose"}
  BY DEF ReadAllowance, ReadTokenAllowance, Preflight, SendApprove, AwaitApprove, Estimate,
         Simulate, Send, Await, PoolId, Accrued, Choose, CratePoolId, CrateReadTokenAllowance,
         CrateEstimate, CrateSend, CrateAwait
<1>2. pc[c] \notin QuotePlaces
  BY <1>1 DEF QuotePlaces, Final
<1> QED
  BY <1>2 DEF QuoteInv, QuoteFit

\* A quote on its way to the pool or to the curve, or given up, has not been answered.
LEMMA QuoteWaits ==
    ASSUME QuoteInv, NEW c \in Calls, pc[c] \in QuotePlaces \ {"done"}, NEW to, Go(c, to),
           UNCHANGED <<priced, result>>,
           Request(c).kind \in Quotes =>
               /\ to \in QuotePlaces
               /\ to = "curveQuote" => venueOf'[c] = "curve"
               /\ to = "done" => venueOf'[c] # "pool"
    PROVE  QuoteFit(Request(c), pc'[c], venueOf'[c], priced'[c], result'[c])
<1>1. pc'[c] = to
  BY DEF Go, QuoteInv, FillInv, PoolInv, Places
<1> QED
  BY <1>1 DEF QuoteInv, QuoteFit

LEMMA QuoteStarts ==
    ASSUME QuoteInv, NEW c \in Calls, Start(c) \/ CrateStart(c)
    PROVE  QuoteFit(Request(c), pc'[c], venueOf'[c], priced'[c], result'[c])
<1>1. /\ Request(c).kind \in Kinds /\ Request(c).via \in {"trade", "pool"}
      /\ Request(c).via = "trade" => Request(c).kind \in Swaps \cup Quotes
  BY TradesThrough DEF Requests, QuoteInv
<1>2. PICK to : Go(c, to) /\ (Request(c).kind \in Quotes => to \in {"venue", "failed", "reach"})
  <2>1. CASE Start(c)
    BY <1>1, <2>1 DEF Start, Swaps, Quotes, Kinds
  <2>2. CASE CrateStart(c)
    BY <1>1, <2>2 DEF CrateStart, Swaps, Quotes, Kinds
  <2> QED
    BY <2>1, <2>2
<1>3. pc[c] = "idle" /\ UNCHANGED <<priced, result>>
  BY DEF Start, CrateStart
<1> QED
  BY <1>2, <1>3, QuoteWaits DEF QuotePlaces, Final

LEMMA QuoteTakesVenue ==
    ASSUME QuoteInv, NEW c \in Calls,
           Venue(c) \/ CrateVenue(c) \/ CurveQuote(c) \/ Reach(c) \/ CrateReach(c)
    PROVE  QuoteFit(Request(c), pc'[c], venueOf'[c], priced'[c], result'[c])
<1>1. /\ DOMAIN venueOf = Calls /\ Request(c).from \in Accounts
      /\ Request(c).kind \in Quotes => Request(c).kind \notin Swaps
  <2>1. Request(c) \in Requests
    BY TradesThrough DEF QuoteInv
  <2> QED
    BY <2>1 DEF QuoteInv, FillInv, PoolInv, Places, Requests, Quotes, Swaps
<1>2. CASE Venue(c)
  <2> DEFINE v == VenueNow(Request(c).from)
  <2>1. v \in {"curve", "pool"}
    BY <1>1 DEF VenueNow, QuoteInv, FillInv, Filed, HandleFits
  <2>2. venueOf'[c] = v /\ pc[c] = "venue" /\ UNCHANGED <<priced, result>>
    BY <1>1, <1>2 DEF Venue
  <2>3. PICK to : Go(c, to) /\ (Request(c).kind \in Quotes =>
                                   \/ to \in {"failed", "reach"}
                                   \/ to = "curveQuote" /\ v = "curve")
    BY <1>1, <1>2, <2>1 DEF Venue
  <2> QED
    BY <2>2, <2>3, QuoteWaits DEF QuotePlaces, Final
<1>3. CASE CrateVenue(c)
  <2>1. venueOf'[c] = venue /\ pc[c] = "venue" /\ UNCHANGED <<priced, result>>
        /\ venue \in {"curve", "pool"}
    BY <1>1, <1>3 DEF CrateVenue, venue
  <2>2. PICK to : Go(c, to) /\ (Request(c).kind \in Quotes =>
                                   \/ to \in {"failed", "reach"}
                                   \/ to = "curveQuote" /\ venue = "curve")
    BY <1>1, <1>3, <2>1 DEF CrateVenue
  <2> QED
    BY <2>1, <2>2, QuoteWaits DEF QuotePlaces, Final
<1>4. CASE CurveQuote(c)
  <2>1. /\ Request(c).kind \in Quotes => venueOf[c] = "curve"
        /\ venueOf'[c] = venueOf[c] /\ pc[c] = "curveQuote" /\ UNCHANGED <<priced, result>>
    BY <1>4 DEF CurveQuote, QuoteInv, QuoteFit
  <2>2. PICK to \in {"done", "failed"} : Go(c, to)
    BY <1>4 DEF CurveQuote
  <2> QED
    BY <2>1, <2>2, QuoteWaits DEF QuotePlaces, Final
<1>5. CASE Reach(c) \/ CrateReach(c)
  <2>1. pc[c] = "reach" /\ UNCHANGED <<priced, result>>
    BY <1>5 DEF Reach, CrateReach
  <2>2. PICK to : Go(c, to) /\ (Request(c).kind \in Quotes => to \in {"failed", "quote"})
    <3>1. CASE Reach(c)
      BY <3>1 DEF Reach, Quotes
    <3>2. CASE CrateReach(c)
      BY <3>2 DEF CrateReach, Quotes
    <3> QED
      BY <1>5, <3>1, <3>2
  <2> QED
    BY <2>1, <2>2, QuoteWaits DEF QuotePlaces, Final
<1> QED
  BY <1>2, <1>3, <1>4, <1>5

LEMMA QuoteEnds ==
    ASSUME QuoteInv, NEW c \in Calls, RpcFails(c) \/ CallAgain(c)
    PROVE  QuoteFit(Request(c), pc'[c], venueOf'[c], priced'[c], result'[c])
<1>1. PICK to \in {"lost", "idle"} : Go(c, to)
  BY DEF RpcFails, CallAgain
<1>2. UNCHANGED <<priced, result>> /\ pc[c] # "done"
  BY DEF RpcFails, CallAgain, Final
<1>3. CASE pc[c] \in QuotePlaces
  BY <1>1, <1>2, <1>3, QuoteWaits DEF QuotePlaces, Final
<1>4. CASE pc[c] \notin QuotePlaces
  BY <1>4 DEF QuoteInv, QuoteFit
<1> QED
  BY <1>3, <1>4

Full(c) == world.depth >= QuoteTx(c).amount

LegsMoved(c, did, q, t) ==
    /\ q \in Int /\ t \in Int /\ did.quote = Moved(q) /\ did.tokens = Moved(t)
    /\ Request(c).kind = "quoteBuy" =>
           q <= 0 /\ t >= 0 /\ (Full(c) => BuyFeeRaw(-q) - did.fee \in 0 .. 1)
    /\ Request(c).kind = "quoteSell" => q >= 0 /\ t <= 0 /\ SellFeeRaw(q) - did.fee \in 0 .. 1

\* What the swap that a quote simulates moves: the quote one way and the token the other,
\* and a fee that the quote's leg tells, a buy's when it fills in full.
LEMMA QuoteLegs ==
    ASSUME plan \in Plans, WorldFits(world), NEW c \in Calls, Request(c).kind \in Quotes,
           NEW m, At(m, QuoteTx(c)).ok = TRUE, NEW did, did = At(m, QuoteTx(c)).did,
           NEW fill, fill = Fill(world, QuoteTx(c)),
           NEW q, q = TraderLeg(fill), NEW t, t = TokenLeg(QuoteTx(c), fill)
    PROVE  LegsMoved(c, did, q, t)
<1> DEFINE tx == QuoteTx(c)
<1>1. PICK n \in Nat : n = tx.amount
  BY QuoteAsks
<1>2. /\ tx.kind = IF Request(c).kind = "quoteBuy" THEN "buy" ELSE "sell"
      /\ tx.kind \in Swaps
  BY QuoteAsks
<1>3. did.quote = Moved(q) /\ did.tokens = fill.tokens /\ did.fee = fill.fee
  BY QuoteSimulated
<1>4. WorldFits(world) /\ world.depth \in Nat
  BY DEF WorldFits
<1> HIDE DEF tx
<1>5. fill = Fill(world, tx) /\ t = TokenLeg(tx, fill) /\ (Full(c) <=> world.depth >= n)
  BY <1>1 DEF tx, Full
<1>6. /\ fill.fee \in Nat /\ fill.tokens \in 0 .. 2 * n
      /\ tx.kind = "buy" =>
             /\ TraderLeg(fill) \in -n .. 0
             /\ world.depth >= n => TraderLeg(fill) = -n /\ fill.fee = BuyFeeRaw(n)
      /\ tx.kind = "sell" =>
             /\ TraderLeg(fill) \in 0 .. n
             /\ \E gross \in Nat :
                   fill.fee = BuyFeeRaw(gross) /\ TraderLeg(fill) = gross - fill.fee
  BY <1>1, <1>2, <1>4, <1>5, FillBounded
<1>7. CASE Request(c).kind = "quoteBuy"
  <2>1. /\ tx.kind = "buy" /\ q \in -n .. 0 /\ t = fill.tokens /\ t \in Nat
    BY <1>2, <1>5, <1>6, <1>7 DEF TokenLeg
  <2>2. Full(c) => BuyFeeRaw(-q) - did.fee \in 0 .. 1
    <3>1. ASSUME Full(c) PROVE -q = n /\ did.fee = BuyFeeRaw(n)
      BY <1>3, <1>5, <1>6, <2>1, <3>1
    <3>2. BuyFeeRaw(n) \in Nat
      BY HookFeeWithin
    <3> QED
      BY <3>1, <3>2
  <2>3. did.tokens = Moved(t)
    BY <1>3, <2>1 DEF Moved
  <2> QED
    BY <1>3, <1>7, <2>1, <2>2, <2>3 DEF LegsMoved
<1>8. CASE Request(c).kind = "quoteSell"
  <2>1. /\ tx.kind = "sell" /\ q \in 0 .. n /\ t = -fill.tokens /\ fill.tokens \in Nat
    BY <1>2, <1>5, <1>6, <1>8 DEF TokenLeg
  <2>2. PICK gross \in Nat : fill.fee = BuyFeeRaw(gross) /\ TraderLeg(fill) = gross - fill.fee
    BY <1>6, <2>1
  <2>3. SellFeeRaw(q) - did.fee \in 0 .. 1
    <3>1. q = gross - BuyFeeRaw(gross) /\ did.fee = BuyFeeRaw(gross)
      BY <1>3, <2>2
    <3>2. /\ BuyFeeRaw(gross) \in 0 .. gross
          /\ SellFeeRaw(gross - BuyFeeRaw(gross)) \in {BuyFeeRaw(gross), BuyFeeRaw(gross) + 1}
      BY FeeRecovered
    <3> QED
      BY <3>1, <3>2
  <2>4. did.tokens = Moved(t)
    BY <1>3, <2>1 DEF Moved
  <2> QED
    BY <1>3, <1>8, <2>1, <2>3, <2>4 DEF LegsMoved
<1> QED
  BY <1>7, <1>8 DEF Quotes

\* A quote is refused only when the swap would have moved nothing, and told as it is.
ToldTrue(c, did, refused, told) ==
    /\ refused => did.quote = 0 \/ did.tokens = 0
    /\ ~refused =>
           /\ told.quote = did.quote /\ told.tokens = did.tokens
           /\ Full(c) => told.fee - did.fee \in 0 .. 1

\* What the TypeScript client answers, and when it refuses to.
LEMMA PricedTrue ==
    ASSUME plan \in Plans, WorldFits(world), NEW c \in Calls, Request(c).kind \in Quotes,
           NEW m, NEW did, did = At(m, QuoteTx(c)).did, At(m, QuoteTx(c)).ok = TRUE,
           NEW legs,
           legs = Unpacked(RouterDelta(plan.quoteIs0, QuoteTx(c), Fill(world, QuoteTx(c))))
    PROVE  ToldTrue(c, did, DeltaRefused(c, legs), Priced(c, legs))
<1>0. PICK fill, q, t : /\ fill = Fill(world, QuoteTx(c))
                        /\ q = TraderLeg(fill) /\ t = TokenLeg(QuoteTx(c), fill)
  OBVIOUS
<1>1. QuoteLeg(legs) = q /\ TokenLegOf(legs) = t
  BY <1>0, QuoteSimulated
<1>2. /\ q \in Int /\ t \in Int /\ did.quote = Moved(q) /\ did.tokens = Moved(t)
      /\ Request(c).kind = "quoteBuy" =>
             q <= 0 /\ t >= 0 /\ (Full(c) => BuyFeeRaw(-q) - did.fee \in 0 .. 1)
      /\ Request(c).kind = "quoteSell" =>
             q >= 0 /\ t <= 0 /\ SellFeeRaw(q) - did.fee \in 0 .. 1
  <2>1. LegsMoved(c, did, q, t)
    BY <1>0, QuoteLegs
  <2> QED
    BY <2>1 DEF LegsMoved
<1>3. /\ Priced(c, legs).quote = Moved(QuoteLeg(legs))
      /\ Priced(c, legs).tokens = Moved(TokenLegOf(legs))
      /\ Request(c).kind = "quoteBuy" => Priced(c, legs).fee = BuyFeeRaw(Moved(QuoteLeg(legs)))
      /\ Request(c).kind = "quoteSell" => Priced(c, legs).fee = SellFeeRaw(Moved(QuoteLeg(legs)))
  BY DEF Priced
<1>4. CASE Request(c).kind = "quoteBuy"
  <2>1. Moved(q) = -q
    BY <1>2, <1>4 DEF Moved
  <2>2. DeltaRefused(c, legs) <=> q >= 0 \/ t <= 0
    BY <1>1, <1>4 DEF DeltaRefused
  <2>3. DeltaRefused(c, legs) => did.quote = 0 \/ did.tokens = 0
    BY <1>2, <1>4, <2>1, <2>2 DEF Moved
  <2>4. Priced(c, legs).fee = BuyFeeRaw(-q)
    BY <1>1, <1>3, <1>4, <2>1
  <2> QED
    BY <1>1, <1>2, <1>3, <1>4, <2>3, <2>4 DEF ToldTrue
<1>5. CASE Request(c).kind = "quoteSell"
  <2>1. Moved(q) = q
    BY <1>2, <1>5 DEF Moved
  <2>2. DeltaRefused(c, legs) <=> q <= 0 \/ t >= 0
    BY <1>1, <1>5 DEF DeltaRefused
  <2>3. DeltaRefused(c, legs) => did.quote = 0 \/ did.tokens = 0
    BY <1>2, <1>5, <2>1, <2>2 DEF Moved
  <2>4. Priced(c, legs).fee = SellFeeRaw(q)
    BY <1>1, <1>3, <1>5, <2>1
  <2> QED
    BY <1>1, <1>2, <1>3, <1>5, <2>3, <2>4 DEF ToldTrue
<1> QED
  BY <1>4, <1>5 DEF Quotes

\* What the crate answers, and when it refuses to.
LEMMA CratePricedTrue ==
    ASSUME plan \in Plans, WorldFits(world), NEW c \in Calls, Request(c).kind \in Quotes,
           NEW m, NEW did, did = At(m, QuoteTx(c)).did, At(m, QuoteTx(c)).ok = TRUE,
           NEW legs, legs = quote_and_token_legs(
                                RouterDelta(plan.quoteIs0, QuoteTx(c), Fill(world, QuoteTx(c)))),
           NEW told, told = IF Request(c).kind = "quoteBuy" THEN BuyQuote(legs) ELSE SellQuote(legs)
    PROVE  ToldTrue(c, did, told = Err, told)
<1>0. PICK fill, q, t : /\ fill = Fill(world, QuoteTx(c))
                        /\ q = TraderLeg(fill) /\ t = TokenLeg(QuoteTx(c), fill)
  OBVIOUS
<1>1. legs = [quote |-> q, token |-> t]
  BY <1>0, QuoteSimulated
<1>2. /\ q \in Int /\ t \in Int /\ did.quote = Moved(q) /\ did.tokens = Moved(t)
      /\ Request(c).kind = "quoteBuy" =>
             q <= 0 /\ t >= 0 /\ (Full(c) => BuyFeeRaw(-q) - did.fee \in 0 .. 1)
      /\ Request(c).kind = "quoteSell" =>
             q >= 0 /\ t <= 0 /\ SellFeeRaw(q) - did.fee \in 0 .. 1
  <2>1. LegsMoved(c, did, q, t)
    BY <1>0, QuoteLegs
  <2> QED
    BY <2>1 DEF LegsMoved
<1>3. legs.quote = q /\ legs.token = t
  BY <1>1
<1>4. CASE Request(c).kind = "quoteBuy"
  <2>1. told = BuyQuote(legs)
    BY <1>4
  <2>2. CASE q < 0 /\ t > 0
    <3>1. told = [ quote |-> -q, tokens |-> t, fee |-> buy_fee_from_quote_in(-q),
                   distributed |-> 0 ]
      BY <1>3, <2>1, <2>2 DEF BuyQuote, leg_paid, leg_received
    <3>2. buy_fee_from_quote_in(-q) = BuyFeeRaw(-q)
      BY DEF buy_fee_from_quote_in, BuyFeeRaw, POOL_TRADE_FEE_BPS, PoolTradeFeeBps
    <3>3. told.quote = -q /\ told.tokens = t /\ told.fee = BuyFeeRaw(-q)
      BY <3>1, <3>2
    <3>4. did.quote = -q /\ did.tokens = t
      BY <1>2, <2>2 DEF Moved
    <3>5. told # Err
      BY <3>1 DEF Err
    <3> QED
      BY <1>2, <1>4, <3>3, <3>4, <3>5 DEF ToldTrue
  <2>3. CASE ~(q < 0 /\ t > 0)
    <3>1. told = Err
      BY <1>3, <2>1, <2>3 DEF BuyQuote, leg_paid, leg_received
    <3>2. q = 0 \/ t = 0
      BY <1>2, <1>4, <2>3
    <3> QED
      BY <1>2, <3>1, <3>2 DEF Moved, ToldTrue
  <2> QED
    BY <2>2, <2>3
<1>5. CASE Request(c).kind = "quoteSell"
  <2>1. told = SellQuote(legs)
    BY <1>5
  <2>2. CASE q > 0 /\ t < 0
    <3>1. told = [ quote |-> q, tokens |-> -t, fee |-> sell_fee_from_quote_out(q),
                   distributed |-> 0 ]
      BY <1>3, <2>1, <2>2 DEF SellQuote, leg_paid, leg_received
    <3>2. sell_fee_from_quote_out(q) = SellFeeRaw(q)
      BY DEF sell_fee_from_quote_out, sell_gross_from_quote_out, SellFeeRaw,
             POOL_TRADE_FEE_BPS, PoolTradeFeeBps
    <3>3. told.quote = q /\ told.tokens = -t /\ told.fee = SellFeeRaw(q)
      BY <3>1, <3>2
    <3>4. did.quote = q /\ did.tokens = -t
      BY <1>2, <2>2 DEF Moved
    <3>5. told # Err
      BY <3>1 DEF Err
    <3> QED
      BY <1>2, <1>5, <3>3, <3>4, <3>5 DEF ToldTrue
  <2>3. CASE ~(q > 0 /\ t < 0)
    <3>1. told = Err
      BY <1>3, <2>1, <2>3 DEF SellQuote, leg_paid, leg_received
    <3>2. q = 0 \/ t = 0
      BY <1>2, <1>5, <2>3
    <3> QED
      BY <1>2, <3>1, <3>2 DEF Moved, ToldTrue
  <2> QED
    BY <2>2, <2>3
<1> QED
  BY <1>4, <1>5 DEF Quotes

LEMMA QuoteAnswers ==
    ASSUME QuoteInv, NEW c \in Calls, Quote(c) \/ CrateQuote(c)
    PROVE  QuoteFit(Request(c), pc'[c], venueOf'[c], priced'[c], result'[c])
<1>1. /\ plan \in Plans /\ WorldFits(world)
      /\ pc \in [Calls -> Labels] /\ DOMAIN priced = Calls /\ DOMAIN result = Calls
  BY DEF QuoteInv, FillInv, PoolInv, Places, Filed
<1>2. SUFFICES ASSUME Request(c).kind \in Quotes
               PROVE  /\ pc'[c] \in QuotePlaces \ {"curveQuote"}
                      /\ pc'[c] = "done" => Answers(priced'[c], result'[c])
                      /\ pc'[c] # "done" => Unpriced(priced'[c])
  BY Zenon DEF QuoteFit
<1>3. PICK m, outcome, did :
          /\ m = QuoteState(c) /\ outcome = At(m, QuoteTx(c)) /\ did = outcome.did
  OBVIOUS
<1>4. outcome.ok \in BOOLEAN
  <2>1. PICK fill, word : /\ fill = Fill(world, QuoteTx(c))
                          /\ word = RouterDelta(plan.quoteIs0, QuoteTx(c), fill)
    OBVIOUS
  <2> QED
    BY <1>1, <1>2, <1>3, <2>1, QuoteSimulated
<1>5. PICK p : p = [ok |-> outcome.ok, full |-> Full(c), did |-> did]
  OBVIOUS
<1>6. p.ok = outcome.ok /\ p.full = Full(c) /\ p.did = did
  BY <1>5
<1>7. ASSUME Quote(c)
      PROVE  /\ pc'[c] \in QuotePlaces \ {"curveQuote"}
             /\ pc'[c] = "done" => Answers(priced'[c], result'[c])
             /\ pc'[c] # "done" => Unpriced(priced'[c])
  <2>1. PICK legs : legs = Unpacked(RouterDelta(plan.quoteIs0, QuoteTx(c), Fill(world, QuoteTx(c))))
    OBVIOUS
  <2>2. /\ priced' = [priced EXCEPT ![c] = p]
        /\ IF outcome.ok /\ ~DeltaRefused(c, legs)
           THEN Tell(c, Priced(c, legs)) ELSE Go(c, "failed") /\ UNCHANGED result
    BY <1>3, <1>5, <1>7, <2>1, Zenon DEF Quote, QuoteTx, Full
  <2>3. priced'[c] = p
    BY <1>1, <2>2
  <2>4. ASSUME outcome.ok = TRUE
        PROVE  ToldTrue(c, did, DeltaRefused(c, legs), Priced(c, legs))
    BY <1>1, <1>2, <1>3, <2>1, <2>4, PricedTrue
  <2>5. CASE outcome.ok = TRUE /\ ~DeltaRefused(c, legs)
    <3>1. pc' = [pc EXCEPT ![c] = "done"] /\ result' = [result EXCEPT ![c] = Priced(c, legs)]
      BY <2>2, <2>5 DEF Tell, Go
    <3>2. pc'[c] = "done" /\ result'[c] = Priced(c, legs)
      BY <1>1, <3>1
    <3>3. Answers(p, Priced(c, legs))
      BY <1>6, <2>4, <2>5, Zenon DEF Answers, ToldTrue
    <3> QED
      BY <2>3, <3>2, <3>3 DEF QuotePlaces, Final
  <2>6. CASE ~(outcome.ok = TRUE /\ ~DeltaRefused(c, legs))
    <3>1. pc' = [pc EXCEPT ![c] = "failed"]
      BY <1>4, <2>2, <2>6 DEF Go
    <3>2. pc'[c] = "failed"
      BY <1>1, <3>1
    <3>3. Unpriced(p)
      BY <1>4, <1>6, <2>4, <2>6 DEF Unpriced, ToldTrue
    <3> QED
      BY <2>3, <3>2, <3>3 DEF QuotePlaces, Final
  <2> QED
    BY <2>5, <2>6
<1>8. ASSUME CrateQuote(c)
      PROVE  /\ pc'[c] \in QuotePlaces \ {"curveQuote"}
             /\ pc'[c] = "done" => Answers(priced'[c], result'[c])
             /\ pc'[c] # "done" => Unpriced(priced'[c])
  <2>1. PICK legs, told :
            /\ legs = quote_and_token_legs(
                          RouterDelta(plan.quoteIs0, QuoteTx(c), Fill(world, QuoteTx(c))))
            /\ told = IF Request(c).kind = "quoteBuy" THEN BuyQuote(legs) ELSE SellQuote(legs)
    OBVIOUS
  <2>2. /\ priced' = [priced EXCEPT ![c] = p]
        /\ IF outcome.ok /\ told # Err
           THEN Tell(c, told) ELSE Go(c, "failed") /\ UNCHANGED result
    BY <1>3, <1>5, <1>8, <2>1, Zenon DEF CrateQuote, QuoteTx, Full
  <2>3. priced'[c] = p
    BY <1>1, <2>2
  <2>4. ASSUME outcome.ok = TRUE
        PROVE  ToldTrue(c, did, told = Err, told)
    BY <1>1, <1>2, <1>3, <2>1, <2>4, CratePricedTrue
  <2>5. CASE outcome.ok = TRUE /\ told # Err
    <3>1. pc' = [pc EXCEPT ![c] = "done"] /\ result' = [result EXCEPT ![c] = told]
      BY <2>2, <2>5 DEF Tell, Go
    <3>2. pc'[c] = "done" /\ result'[c] = told
      BY <1>1, <3>1
    <3>3. Answers(p, told)
      BY <1>6, <2>4, <2>5, Zenon DEF Answers, ToldTrue
    <3> QED
      BY <2>3, <3>2, <3>3 DEF QuotePlaces, Final
  <2>6. CASE ~(outcome.ok = TRUE /\ told # Err)
    <3>1. pc' = [pc EXCEPT ![c] = "failed"]
      BY <1>4, <2>2, <2>6 DEF Go
    <3>2. pc'[c] = "failed"
      BY <1>1, <3>1
    <3>3. Unpriced(p)
      BY <1>4, <1>6, <2>4, <2>6 DEF Unpriced, ToldTrue
    <3> QED
      BY <2>3, <3>2, <3>3 DEF QuotePlaces, Final
  <2> QED
    BY <2>5, <2>6
<1> QED
  BY <1>7, <1>8

LEMMA InitQuoteInv == Init => QuoteInv
<1> SUFFICES ASSUME Init PROVE QuoteInv
  OBVIOUS
<1>1. /\ FillInv /\ pc = [c \in Calls |-> "idle"]
      /\ priced = [c \in Calls |-> [ok |-> FALSE, full |-> FALSE, did |-> Nothing]]
  BY InitFillInv DEF Init
<1>2. ASSUME NEW c \in Calls
      PROVE  QuoteFit(Request(c), pc[c], venueOf[c], priced[c], result[c])
  <2>1. pc[c] = "idle" /\ priced[c].ok = FALSE
    BY <1>1
  <2>2. Unpriced(priced[c])
    BY <2>1 DEF Unpriced
  <2> QED
    BY <2>1, <2>2 DEF QuoteFit, QuotePlaces
<1> QED
  BY <1>1, <1>2 DEF QuoteInv

LEMMA NextQuoteInv == QuoteInv /\ [Next]_vars => QuoteInv'
<1> SUFFICES ASSUME QuoteInv, [Next]_vars PROVE QuoteInv'
  OBVIOUS
<1>1. FillInv'
  BY NextFillInv DEF QuoteInv
<1>2. ASSUME NEW c \in Calls, Step(c) \/ CrateStep(c) \/ RpcFails(c) \/ CallAgain(c)
      PROVE  QuoteInv'
  <2>1. QuoteFit(Request(c), pc'[c], venueOf'[c], priced'[c], result'[c])
    <3>1. CASE Step(c)
      BY <3>1, NoQuotesStep, QuoteStarts, QuoteTakesVenue, QuoteAnswers DEF Step
    <3>2. CASE CrateStep(c)
      BY <3>2, NoQuotesStep, QuoteStarts, QuoteTakesVenue, QuoteAnswers DEF CrateStep
    <3>3. CASE RpcFails(c) \/ CallAgain(c)
      BY <3>3, QuoteEnds
    <3> QED
      BY <1>2, <3>1, <3>2, <3>3
  <2> QED
    BY <1>1, <1>2, <2>1, StepsAside, QuoteStays
<1>3. CASE \/ \E a \in Accounts : Mine(a)
           \/ Graduate \/ Migrate \/ Dust \/ WorldChanges \/ UNCHANGED vars
  <2>1. UNCHANGED <<plan, pc, venueOf, priced, result>>
    BY <1>3 DEF Mine, Graduate, Migrate, Dust, WorldChanges, vars
  <2>2. Calls' = Calls /\ \A c \in Calls : Request(c)' = Request(c)
    BY <2>1, KindsSame
  <2> QED
    BY <1>1, <2>1, <2>2 DEF QuoteInv
<1> QED
  BY <1>2, <1>3 DEF Next, Of

\* Whatever moves while they are asked for, a quote of the pool that either client has
\* answered is what the swap would have moved then, and its fee to a raw unit; one that
\* has failed could not have moved anything (PoolClients.QuotesTold).
THEOREM QuotesAreTold == Spec => []QuotesTold
<1>1. QuoteInv => QuotesTold
  <2> SUFFICES ASSUME QuoteInv, NEW c \in Calls, Request(c).kind \in Quotes, venueOf[c] = "pool"
               PROVE  /\ pc[c] = "done" => Answers(priced[c], result[c])
                      /\ pc[c] = "failed" => Unpriced(priced[c])
    BY Zenon DEF QuotesTold, Answers, Unpriced
  <2> QED
    BY DEF QuoteInv, QuoteFit
<1> QED
  BY <1>1, InitQuoteInv, NextQuoteInv, PTL DEF Spec
=============================================================================
