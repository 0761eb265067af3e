--------------------------- MODULE LaunchesProofs ---------------------------
(***************************************************************************)
(* What a launch is quoted binds what it pays, and the gas it is sent with *)
(* covers what the quote foresaw, for any calls, fees and templates.       *)
(*                                                                         *)
(* A quote is read in two steps, used in a payment, a cap, an approve and a *)
(* limit, and met again where the launch is mined.  The inductive invariant *)
(* follows it there: a launch on its way carries the cap and the payment of *)
(* the quote its call still holds, and gas enough for what it foresaw.     *)
(***************************************************************************)
EXTENDS LaunchClients, CurveMathProofs

\* The quote of a call that is past these places does not change any more.
Quoting == {"idle", "quote", "template"}
Past(c) == pc[c] \notin Quoting

IsLaunch(c) == Request(c).kind = "launch"

QuoteFields(q) ==
    /\ DOMAIN q = {"fee", "tokensOut", "tradeFee", "graduates"}
    /\ q.fee \in Nat

Places ==
    /\ plan \in Plans
    /\ settings \in Settings
    /\ pc \in [Calls -> Labels]
    /\ gas \in [Calls -> Nat]
    /\ DOMAIN quoted = Calls /\ \A c \in Calls : QuoteFields(quoted[c])
    /\ mempool \in [Accounts -> Seq(Transactions)]
    /\ "curves" \in DOMAIN chain /\ DOMAIN chain.curves = Calls
    /\ \A c \in Calls : {"launched", "fee"} \subseteq DOMAIN chain.curves[c]

\* The limit has room for what the call's quote foresaw.
Enough(c, limit) ==
    /\ quoted[c].graduates => \/ limit >= GraduationGasLimit
                              \/ ~LimitChosen(c) /\ limit >= Request(c).gasLimit
    /\ ~Native => limit >= LaunchGas + PushGas

AsQuoted ==
    {tx \in Transactions :
        tx.kind = "launch" =>
            /\ tx.call \in Calls /\ Past(tx.call)
            /\ tx.amount = Request(tx.call).amount
            /\ tx.maxFee = MaxLaunchFee(tx.call)
            /\ Native => tx.value = TotalCost(tx.call)
            /\ Enough(tx.call, tx.gas)}

Sent(S, queue) == \A a \in Accounts : \A i \in DOMAIN queue[a] : queue[a][i] \in S

Settled ==
    \A c \in Calls : IsLaunch(c) /\ pc[c] \in {"simulate", "send"} => Enough(c, gas[c])

Charged(c) ==
    chain.curves[c].launched =>
        /\ Past(c)
        /\ Request(c).capping => chain.curves[c].fee <= Request(c).maxFee
        /\ ~Request(c).capping => chain.curves[c].fee <= quoted[c].fee
        /\ Native => chain.curves[c].fee = quoted[c].fee

LaunchInv ==
    /\ Places
    /\ Settled
    /\ Sent(AsQuoted, mempool)
    /\ \A c \in Calls : Charged(c)

-----------------------------------------------------------------------------
(* Types.                                                                  *)

LEMMA RequestTypes ==
    ASSUME plan \in Plans, NEW c \in Calls PROVE Request(c) \in Requests /\ c \in Nat
<1>1. plan.calls \in Seq(Requests)
  BY PlansAssumption
<1>2. QED
  BY <1>1 DEF Calls, Request

LEMMA Figures ==
    /\ LaunchGas \in Nat /\ PushGas \in Nat /\ InstantLaunchGas \in Nat
    /\ InstantLaunchGas + PushGas <= 8000000
    /\ LaunchGas + PushGas <= 8000000 /\ PushGas <= 150000
    /\ GraduationGasFloor = 6200000 /\ GraduationGasLimit = 8000000
    /\ QuoteTransferGasHeadroomMin = 150000
BY LaunchChainAssumption, LaunchGasAssumption
   DEF GraduationGasFloor, GraduationGasLimit, QuoteTransferGasHeadroomMin

LEMMA TransactionTypes ==
    ASSUME plan \in Plans, NEW c \in Calls, quoted[c].fee \in Nat, NEW limit \in Nat
    PROVE  /\ Transaction(c, limit) \in Transactions
           /\ Transaction(c, limit).gas = limit
           /\ Transaction(c, limit).call = c
           /\ Transaction(c, limit).kind = Request(c).kind
           /\ Transaction(c, limit).amount = Request(c).amount
           /\ Transaction(c, limit).maxFee = MaxLaunchFee(c)
           /\ IsLaunch(c) /\ Native => Transaction(c, limit).value = TotalCost(c)
           /\ Approval(c) \in Transactions
           /\ Approval(c).kind = "approve"
<1>1. /\ Request(c).kind \in {"launch", "collect"} /\ Request(c).from \in Accounts
      /\ Request(c).amount \in Nat /\ Request(c).min \in Nat /\ Request(c).maxFee \in Nat
      /\ c \in Nat
  BY RequestTypes DEF Requests
<1>2. TotalCost(c) \in Nat /\ MaxLaunchFee(c) \in Nat
  BY <1>1 DEF TotalCost, MaxLaunchFee
<1>3. QED
  BY <1>1, <1>2 DEF Transaction, Approval, Transactions, Unlimited, IsLaunch

LEMMA Appended ==
    ASSUME NEW S, NEW queue \in [Accounts -> Seq(Transactions)], Sent(S, queue),
           NEW f \in Accounts, NEW tx \in Transactions, tx \in S
    PROVE  LET longer == [queue EXCEPT ![f] = Append(@, tx)]
           IN  longer \in [Accounts -> Seq(Transactions)] /\ Sent(S, longer)
BY QueueAppended DEF Sent

LEMMA Removed ==
    ASSUME NEW S, NEW queue \in [Accounts -> Seq(Transactions)], Sent(S, queue),
           NEW f \in Accounts, queue[f] # <<>>
    PROVE  LET shorter == [queue EXCEPT ![f] = Tail(@)]
           IN  shorter \in [Accounts -> Seq(Transactions)] /\ Sent(S, shorter)
BY QueueRemoved DEF Sent

-----------------------------------------------------------------------------
(* A step keeps the invariant if it keeps what the past calls were quoted. *)

\* What a past call was quoted does not change, and it stays past.
Kept == \A c \in Calls : Past(c) => Past(c)' /\ quoted'[c] = quoted[c]

LEMMA StillAsQuoted ==
    ASSUME plan' = plan, Kept
    PROVE  AsQuoted \subseteq AsQuoted'
<1> SUFFICES ASSUME NEW tx \in AsQuoted, tx.kind = "launch"
             PROVE  tx \in AsQuoted'
  BY DEF AsQuoted
<1> DEFINE c == tx.call
<1>1. /\ tx \in Transactions /\ c \in Calls /\ Past(c)
      /\ tx.amount = Request(c).amount
      /\ tx.maxFee = MaxLaunchFee(c)
      /\ Native => tx.value = TotalCost(c)
      /\ Enough(c, tx.gas)
  BY DEF AsQuoted
<1>2. Past(c)' /\ quoted'[c] = quoted[c]
  BY <1>1 DEF Kept
<1>3. /\ Calls' = Calls /\ Request(c)' = Request(c) /\ Native' = Native
      /\ MaxLaunchFee(c)' = MaxLaunchFee(c) /\ TotalCost(c)' = TotalCost(c)
      /\ Enough(c, tx.gas)' = Enough(c, tx.gas)
  BY <1>2 DEF Calls, Request, Native, MaxLaunchFee, TotalCost, Enough, LimitChosen
<1>4. QED
  BY <1>1, <1>2, <1>3 DEF AsQuoted

LEMMA StillSent ==
    ASSUME NEW S, NEW T, S \subseteq T, NEW queue, Sent(S, queue)
    PROVE  Sent(T, queue)
BY DEF Sent

LEMMA StillCharged ==
    ASSUME plan' = plan, Kept, NEW c \in Calls, Charged(c),
           chain'.curves[c].launched => chain.curves[c].launched,
           chain'.curves[c].fee = chain.curves[c].fee
    PROVE  Charged(c)'
<1>1. /\ Request(c)' = Request(c) /\ Native' = Native
      /\ Past(c) => Past(c)' /\ quoted'[c] = quoted[c]
  BY DEF Kept, Request, Native
<1>2. QED
  BY <1>1 DEF Charged

\* A step of one call moves that call alone.
LEMMA CallMoves ==
    ASSUME LaunchInv, NEW c \in Calls, NEW to \in Labels, Go(c, to),
           Past(c) => to \notin Quoting /\ quoted'[c] = quoted[c],
           UNCHANGED <<plan, chain, settings>>,
           DOMAIN quoted' = Calls, QuoteFields(quoted'[c]),
           \A d \in Calls : d # c => quoted'[d] = quoted[d],
           gas' \in [Calls -> Nat], \A d \in Calls : d # c => gas'[d] = gas[d],
           IsLaunch(c) /\ to \in {"simulate", "send"} => Enough(c, gas[c])',
           mempool' \in [Accounts -> Seq(Transactions)], Sent(AsQuoted', mempool')
    PROVE  LaunchInv'
<1>1. /\ pc' \in [Calls -> Labels] /\ pc'[c] = to
      /\ \A d \in Calls : d # c => pc'[d] = pc[d]
  BY DEF LaunchInv, Places, Go
<1>2. Kept
  BY <1>1 DEF Kept, Past
<1>3. Places'
  BY <1>1 DEF LaunchInv, Places, Calls
<1>4. Settled'
  <2> SUFFICES ASSUME NEW d \in Calls, IsLaunch(d), pc'[d] \in {"simulate", "send"}
               PROVE  Enough(d, gas[d])'
    BY DEF Settled, Calls, IsLaunch, Request
  <2>1. CASE d = c
    BY <1>1, <2>1
  <2>2. CASE d # c
    <3>1. Enough(d, gas[d])
      BY <1>1, <2>2 DEF LaunchInv, Settled
    <3>2. QED
      BY <2>2, <3>1 DEF Enough, LimitChosen, Native, Request
  <2>3. QED
    BY <2>1, <2>2
<1>5. \A d \in Calls : Charged(d)'
  BY <1>2, StillCharged DEF LaunchInv
<1>6. QED
  BY <1>3, <1>4, <1>5 DEF LaunchInv, Calls

\* A step of a call that sends nothing and learns nothing of the quote.
LEMMA CallWaits ==
    ASSUME LaunchInv, NEW c \in Calls, NEW to \in Labels, Go(c, to),
           Past(c) => to \notin Quoting,
           IsLaunch(c) /\ to \in {"simulate", "send"} => Enough(c, gas[c]),
           UNCHANGED <<plan, chain, settings, mempool, quoted, gas>>
    PROVE  LaunchInv'
<1>1. (IsLaunch(c) /\ to \in {"simulate", "send"}) => Enough(c, gas[c])'
  BY DEF Enough, LimitChosen, Native, Request
<1>2. Kept
  <2>1. pc' \in [Calls -> Labels] /\ pc'[c] = to /\ \A d \in Calls : d # c => pc'[d] = pc[d]
    BY DEF LaunchInv, Places, Go
  <2>2. QED
    BY <2>1 DEF Kept, Past
<1>3. Sent(AsQuoted', mempool')
  BY <1>2, StillAsQuoted, StillSent DEF LaunchInv
<1>4. QED
  BY <1>1, <1>3, CallMoves DEF LaunchInv, Places

LEMMA CallSteps ==
    ASSUME LaunchInv, NEW c \in Calls,
           \/ Start(c) \/ ReadAllowance(c) \/ Preflight(c) \/ SimulateApprove(c)
           \/ AwaitApprove(c) \/ Simulate(c) \/ Await(c) \/ RpcFails(c)
           \/ CrateStart(c) \/ CrateAwait(c)
    PROVE  LaunchInv'
<1>0. c \in Calls /\ Request(c).kind \in {"launch", "collect"}
  BY RequestTypes DEF LaunchInv, Places, Requests
<1>1. CASE Start(c)
  <2>1. PICK to \in {"quote", "simulate"} :
          Go(c, to) /\ (to = "quote" <=> Request(c).kind = "launch")
    BY <1>1 DEF Start
  <2>2. ~Past(c)
    BY <1>1 DEF Start, Past, Quoting
  <2>3. QED
    BY <1>1, <2>1, <2>2, CallWaits DEF Start, Labels, IsLaunch
<1>2. CASE ReadAllowance(c)
  <2>1. PICK to \in {"estimate", "preflight", "simulateApprove"} : Go(c, to)
    BY <1>2 DEF ReadAllowance
  <2>2. QED
    BY <1>2, <2>1, CallWaits DEF ReadAllowance, Labels, Quoting
<1>3. CASE Preflight(c)
  <2>1. PICK to \in {"simulateApprove", "failed"} : Go(c, to)
    BY <1>3 DEF Preflight
  <2>2. QED
    BY <1>3, <2>1, CallWaits DEF Preflight, Labels, Quoting, Final
<1>4. CASE SimulateApprove(c)
  <2>1. PICK to \in {"sendApprove", "failed"} : Go(c, to)
    BY <1>4 DEF SimulateApprove
  <2>2. QED
    BY <1>4, <2>1, CallWaits DEF SimulateApprove, Labels, Quoting, Final
<1>5. CASE AwaitApprove(c)
  <2>1. PICK to \in {"estimate", "failed"} : Go(c, to)
    BY <1>5 DEF AwaitApprove
  <2>2. QED
    BY <1>5, <2>1, CallWaits DEF AwaitApprove, Labels, Quoting, Final
<1>6. CASE Simulate(c)
  <2>1. PICK to \in {"send", "failed"} : Go(c, to)
    BY <1>6 DEF Simulate
  <2>2. IsLaunch(c) => Enough(c, gas[c])
    BY <1>6 DEF LaunchInv, Settled, Simulate
  <2>3. QED
    BY <1>6, <2>1, <2>2, CallWaits DEF Simulate, Labels, Quoting, Final
<1>7. CASE Await(c)
  <2>1. PICK to \in {"done", "failed"} : Go(c, to)
    BY <1>7 DEF Await
  <2>2. QED
    BY <1>7, <2>1, CallWaits DEF Await, Labels, Quoting, Final
<1>8. CASE RpcFails(c)
  <2>1. Go(c, "failed")
    BY <1>8 DEF RpcFails
  <2>2. QED
    BY <1>8, <2>1, CallWaits DEF RpcFails, Labels, Quoting, Final
<1>9. CASE CrateStart(c)
  <2>1. PICK to \in {"quote", "send"} :
          Go(c, to) /\ (to = "quote" <=> Request(c).kind = "launch")
    BY <1>9 DEF CrateStart
  <2>2. ~Past(c)
    BY <1>9 DEF CrateStart, Past, Quoting
  <2>3. QED
    BY <1>9, <2>1, <2>2, CallWaits DEF CrateStart, Labels, IsLaunch
<1>10. CASE CrateAwait(c)
  <2>1. PICK to \in {"done", "failed"} : Go(c, to)
    BY <1>10 DEF CrateAwait
  <2>2. QED
    BY <1>10, <2>1, CallWaits DEF CrateAwait, Labels, Quoting, Final
<1>11. QED
  BY <1>1, <1>2, <1>3, <1>4, <1>5, <1>6, <1>7, <1>8, <1>9, <1>10

\* A quote is read while nothing of the call is on its way.
LEMMA QuoteReads ==
    ASSUME LaunchInv, NEW c \in Calls, ReadQuote(c) \/ ReadTemplate(c) \/ QuoteAndLimit(c)
    PROVE  LaunchInv'
<1>0. /\ pc \in [Calls -> Labels] /\ gas \in [Calls -> Nat] /\ DOMAIN quoted = Calls
      /\ QuoteFields(quoted[c]) /\ ~Past(c) /\ Request(c).gasLimit \in Nat
  BY RequestTypes
     DEF LaunchInv, Places, Requests, ReadQuote, ReadTemplate, QuoteAndLimit, Past, Quoting
<1>1. ASSUME NEW to \in Labels, Go(c, to),
             UNCHANGED <<plan, chain, settings, mempool>>,
             DOMAIN quoted' = Calls, QuoteFields(quoted'[c]),
             \A d \in Calls : d # c => quoted'[d] = quoted[d],
             gas' \in [Calls -> Nat], \A d \in Calls : d # c => gas'[d] = gas[d],
             IsLaunch(c) /\ to \in {"simulate", "send"} => Enough(c, gas[c])'
      PROVE  LaunchInv'
  <2>1. Kept
    BY <1>0, <1>1 DEF Kept, Past, Go
  <2>2. Sent(AsQuoted', mempool')
    BY <1>1, <2>1, StillAsQuoted, StillSent DEF LaunchInv
  <2>3. QED
    BY <1>0, <1>1, <2>2, CallMoves DEF LaunchInv, Places
<1>2. CASE ReadQuote(c)
  <2>1. settings.fee \in Nat
    BY LaunchChainAssumption DEF LaunchInv, Places, Settings
  <2>2. PICK to \in {"template", "failed"} : Go(c, to)
    BY <1>2 DEF ReadQuote
  <2>3. /\ DOMAIN quoted' = Calls /\ QuoteFields(quoted'[c])
        /\ \A d \in Calls : d # c => quoted'[d] = quoted[d]
    BY <1>0, <1>2, <2>1 DEF ReadQuote, QuoteFields
  <2>4. UNCHANGED <<plan, chain, settings, mempool, gas>>
    BY <1>2 DEF ReadQuote
  <2>5. to \in Labels /\ to \notin {"simulate", "send"}
    BY <2>2 DEF Labels, Final
  <2>6. QED
    BY <1>0, <1>1, <2>2, <2>3, <2>4, <2>5
<1>3. CASE ReadTemplate(c)
  <2> DEFINE graduates == WouldGraduate(settings.template, Request(c).amount,
                                        quoted[c].tradeFee, quoted[c].tokensOut)
             limit == Resolved(graduates, Request(c).gasLimit)
  <2>1. quoted' = [quoted EXCEPT ![c].graduates = graduates] /\ gas' = [gas EXCEPT ![c] = limit]
    BY <1>3 DEF ReadTemplate
  <2>2. PICK to \in {"failed", "simulate", "allowance"} :
          /\ Go(c, to)
          /\ to = "simulate" => Native /\ ~GasRefused(graduates, Request(c).gasLimit)
    BY <1>3 DEF ReadTemplate
  <2>3. UNCHANGED <<plan, chain, settings, mempool>>
    BY <1>3 DEF ReadTemplate
  <2>4. /\ limit \in Nat
        /\ graduates => limit >= (IF Request(c).gasLimit = 0 THEN GraduationGasLimit
                                                             ELSE Request(c).gasLimit)
    BY <1>0, Figures DEF Resolved
  <2> HIDE DEF graduates, limit
  <2>5. /\ DOMAIN quoted' = Calls /\ QuoteFields(quoted'[c])
        /\ \A d \in Calls : d # c => quoted'[d] = quoted[d]
        /\ quoted'[c].graduates = graduates
    BY <1>0, <2>1 DEF QuoteFields
  <2>6. /\ gas' \in [Calls -> Nat] /\ gas'[c] = limit
        /\ \A d \in Calls : d # c => gas'[d] = gas[d]
    BY <1>0, <2>1, <2>4
  <2>7. to \in {"simulate", "send"} => Enough(c, gas[c])'
    BY <2>2, <2>3, <2>4, <2>5, <2>6 DEF Enough, LimitChosen, Native, Request
  <2>8. to \in Labels
    BY <2>2 DEF Labels, Final
  <2>9. QED
    BY <1>1, <2>2, <2>3, <2>5, <2>6, <2>7, <2>8
<1>4. CASE QuoteAndLimit(c)
  <2> DEFINE quote == LaunchQuote(c)
             limit == gas_for(Request(c).gasLimit, quote.graduates)
  <2>1. UNCHANGED <<plan, chain, settings, mempool>>
    BY <1>4 DEF QuoteAndLimit
  <2>2. CASE UNCHANGED <<quoted, gas>> /\ Go(c, "failed")
    BY <1>0, <1>1, <2>1, <2>2 DEF Labels, Final
  <2>3. CASE /\ limit # LaunchGasLimitTooLow
             /\ quoted' = [quoted EXCEPT ![c] = quote]
             /\ gas' = [gas EXCEPT ![c] = limit]
             /\ Go(c, IF Native THEN "send" ELSE "allowance")
    <3>1. QuoteFields(quote)
      <4>1. settings.fee \in Nat
        BY LaunchChainAssumption DEF LaunchInv, Places, Settings
      <4>2. QED
        BY <4>1 DEF LaunchQuote, QuoteFields
    <3>2. /\ limit \in Nat
          /\ quote.graduates => limit >= (IF Request(c).gasLimit = 0 THEN GraduationGasLimit
                                                                      ELSE Request(c).gasLimit)
      BY <1>0, <2>3, Figures
         DEF gas_for, LaunchGasLimitTooLow, GRADUATION_GAS_LIMIT, GRADUATION_GAS_FLOOR
    <3>3. PICK to \in {"send", "allowance"} : Go(c, to) /\ (to = "send" => Native)
      BY <2>3
    <3> HIDE DEF quote, limit
    <3>4. /\ DOMAIN quoted' = Calls /\ quoted'[c] = quote
          /\ \A d \in Calls : d # c => quoted'[d] = quoted[d]
          /\ gas' \in [Calls -> Nat] /\ gas'[c] = limit
          /\ \A d \in Calls : d # c => gas'[d] = gas[d]
      BY <1>0, <2>3, <3>2
    <3>5. to \in {"simulate", "send"} => Enough(c, gas[c])'
      BY <2>1, <3>2, <3>3, <3>4 DEF Enough, LimitChosen, Native, Request
    <3>6. to \in Labels
      BY <3>3 DEF Labels
    <3>7. QED
      BY <1>1, <2>1, <3>1, <3>3, <3>4, <3>5, <3>6
  <2>4. QED
    BY <1>4, <2>2, <2>3 DEF QuoteAndLimit
<1>5. QED
  BY <1>2, <1>3, <1>4

LEMMA SettleGasStep ==
    ASSUME LaunchInv, NEW c \in Calls, SettleGas(c)
    PROVE  LaunchInv'
<1>0. /\ pc \in [Calls -> Labels] /\ gas \in [Calls -> Nat] /\ DOMAIN quoted = Calls
      /\ QuoteFields(quoted[c]) /\ pc[c] = "estimate" /\ gas[c] \in Nat
      /\ UNCHANGED <<plan, chain, settings, mempool, quoted>>
  BY DEF LaunchInv, Places, SettleGas
<1>1. Estimated \in Nat /\ Estimated >= LaunchGas
  BY Figures DEF Estimated, LaunchGasNeeded
<1>2. PICK to \in {"simulate", "failed"}, limit \in Nat :
        /\ Go(c, to)
        /\ gas' = [gas EXCEPT ![c] = limit]
        /\ to = "simulate" => Enough(c, limit)
  <2>1. CASE quoted[c].graduates
    <3>1. PICK limit \in Nat : /\ gas' = [gas EXCEPT ![c] = limit]
                              /\ limit >= GraduationGasLimit
      BY <1>0, <2>1, Figures DEF SettleGas
    <3>2. Enough(c, limit)
      BY <3>1, Figures DEF Enough
    <3>3. Go(c, "simulate")
      BY <2>1 DEF SettleGas
    <3>4. QED
      BY <3>1, <3>2, <3>3
  <2>2. CASE ~quoted[c].graduates /\ Succeeds(chain, Transaction(c, Unlimited))
    <3> DEFINE limit == Erc20GasLimit(Estimated, gas[c])
    <3>1. gas' = [gas EXCEPT ![c] = limit] /\ Go(c, "simulate")
      BY <2>2 DEF SettleGas
    <3>2. limit \in Nat /\ limit >= LaunchGas + PushGas
      <4>1. /\ WithQuoteTransferHeadroom(Estimated) \in Nat
            /\ WithQuoteTransferHeadroom(Estimated) >= Estimated + QuoteTransferGasHeadroomMin
            /\ limit \in Nat
            /\ limit >= WithQuoteTransferHeadroom(Estimated)
        BY <1>0, <1>1, HeadroomAdds
      <4> HIDE DEF limit
      <4>2. QED
        BY <1>1, <4>1, Figures
    <3> HIDE DEF limit
    <3>3. Enough(c, limit)
      BY <2>2, <3>2 DEF Enough
    <3>4. QED
      BY <3>1, <3>2, <3>3
  <2>3. CASE ~quoted[c].graduates /\ ~Succeeds(chain, Transaction(c, Unlimited))
    <3>1. gas' = [gas EXCEPT ![c] = gas[c]] /\ Go(c, "failed")
      BY <1>0, <2>3 DEF SettleGas
    <3>2. QED
      BY <1>0, <3>1
  <2>4. QED
    BY <2>1, <2>2, <2>3
<1>3. Kept
  BY <1>0, <1>2 DEF Kept, Past, Go, Quoting
<1>4. Sent(AsQuoted', mempool')
  BY <1>0, <1>3, StillAsQuoted, StillSent DEF LaunchInv
<1>5. /\ gas' \in [Calls -> Nat] /\ gas'[c] = limit
      /\ \A d \in Calls : d # c => gas'[d] = gas[d]
  BY <1>0, <1>2
<1>6. to \in {"simulate", "send"} => Enough(c, gas[c])'
  BY <1>0, <1>2, <1>5 DEF Enough, LimitChosen, Native, Request
<1>7. to \in Labels /\ to \notin Quoting
  BY <1>2 DEF Labels, Final, Quoting
<1>8. QED
  BY <1>0, <1>2, <1>4, <1>5, <1>6, <1>7, CallMoves DEF LaunchInv, Places

LEMMA Erc20LaunchGasStep ==
    ASSUME LaunchInv, NEW c \in Calls, Erc20LaunchGas(c)
    PROVE  LaunchInv'
<1>0. /\ pc \in [Calls -> Labels] /\ gas \in [Calls -> Nat] /\ DOMAIN quoted = Calls
      /\ QuoteFields(quoted[c]) /\ pc[c] = "estimate" /\ gas[c] \in Nat
      /\ UNCHANGED <<plan, chain, settings, mempool, quoted>>
  BY DEF LaunchInv, Places, Erc20LaunchGas
<1>1. Estimated \in Nat /\ Estimated >= LaunchGas
  BY Figures DEF Estimated, LaunchGasNeeded
<1>2. PICK to \in {"send", "failed"}, limit \in Nat :
        /\ Go(c, to)
        /\ gas' = [gas EXCEPT ![c] = limit]
        /\ to = "send" => Enough(c, limit)
  <2>1. CASE quoted[c].graduates
    <3> DEFINE limit == erc20_trade_gas(GRADUATION_GAS_LIMIT, gas[c])
    <3>1. gas' = [gas EXCEPT ![c] = limit] /\ Go(c, "send")
      BY <2>1 DEF Erc20LaunchGas
    <3>2. limit \in Nat /\ limit >= GraduationGasLimit
      BY <1>0, Figures DEF erc20_trade_gas, GRADUATION_GAS_LIMIT
    <3> HIDE DEF limit
    <3>3. Enough(c, limit)
      BY <3>2, Figures DEF Enough
    <3>4. QED
      BY <3>1, <3>2, <3>3
  <2>2. CASE ~quoted[c].graduates /\ Succeeds(chain, Transaction(c, Unlimited))
    <3> DEFINE limit == erc20_trade_gas(with_quote_transfer_headroom(Estimated), gas[c])
    <3>1. gas' = [gas EXCEPT ![c] = limit] /\ Go(c, "send")
      BY <2>2 DEF Erc20LaunchGas
    <3>2. limit \in Nat /\ limit >= Estimated + QuoteTransferGasHeadroomMin
      BY <1>0, <1>1, CrateHeadroomAdds
    <3> HIDE DEF limit
    <3>3. limit >= LaunchGas + PushGas
      BY <1>1, <3>2, Figures
    <3>4. Enough(c, limit)
      BY <2>2, <3>3 DEF Enough
    <3>5. QED
      BY <3>1, <3>2, <3>4
  <2>3. CASE ~quoted[c].graduates /\ ~Succeeds(chain, Transaction(c, Unlimited))
    <3>1. gas' = [gas EXCEPT ![c] = gas[c]] /\ Go(c, "failed")
      BY <1>0, <2>3 DEF Erc20LaunchGas
    <3>2. QED
      BY <1>0, <3>1
  <2>4. QED
    BY <2>1, <2>2, <2>3
<1>3. Kept
  BY <1>0, <1>2 DEF Kept, Past, Go, Quoting
<1>4. Sent(AsQuoted', mempool')
  BY <1>0, <1>3, StillAsQuoted, StillSent DEF LaunchInv
<1>5. /\ gas' \in [Calls -> Nat] /\ gas'[c] = limit
      /\ \A d \in Calls : d # c => gas'[d] = gas[d]
  BY <1>0, <1>2
<1>6. to \in {"simulate", "send"} => Enough(c, gas[c])'
  BY <1>0, <1>2, <1>5 DEF Enough, LimitChosen, Native, Request
<1>7. to \in Labels /\ to \notin Quoting
  BY <1>2 DEF Labels, Final, Quoting
<1>8. QED
  BY <1>0, <1>2, <1>4, <1>5, <1>6, <1>7, CallMoves DEF LaunchInv, Places

\* What is sent is what the call was quoted.
LEMMA Sends ==
    ASSUME LaunchInv, NEW c \in Calls, SendApprove(c) \/ CrateSendApprove(c) \/ Send(c)
    PROVE  LaunchInv'
<1>0. /\ pc \in [Calls -> Labels] /\ gas \in [Calls -> Nat] /\ gas[c] \in Nat
      /\ QuoteFields(quoted[c]) /\ quoted[c].fee \in Nat /\ plan \in Plans
      /\ mempool \in [Accounts -> Seq(Transactions)]
      /\ Past(c) /\ Request(c).from \in Accounts
      /\ Request(c).kind \in {"launch", "collect"}
  BY RequestTypes
     DEF LaunchInv, Places, Requests, QuoteFields, SendApprove, CrateSendApprove, Send, Past,
         Quoting
<1>1. ASSUME NEW tx \in Transactions, tx \in AsQuoted, NEW to \in {"awaitApprove", "await"},
             Go(c, to), UNCHANGED <<plan, chain, settings, quoted, gas>>,
             mempool' = [mempool EXCEPT ![Request(c).from] = Append(@, tx)]
      PROVE  LaunchInv'
  <2>1. mempool' \in [Accounts -> Seq(Transactions)] /\ Sent(AsQuoted, mempool')
    BY <1>0, <1>1, Appended DEF LaunchInv
  <2>2. Kept /\ to \in Labels /\ to \notin Quoting
    BY <1>0, <1>1 DEF Kept, Past, Go, Quoting, Labels
  <2>3. Sent(AsQuoted', mempool')
    BY <1>1, <2>1, <2>2, StillAsQuoted, StillSent
  <2>4. to \notin {"simulate", "send"}
    BY <1>1
  <2>5. QED
    BY <1>0, <1>1, <2>1, <2>2, <2>3, <2>4, CallMoves DEF LaunchInv, Places
<1>2. ASSUME Go(c, "failed"), UNCHANGED <<plan, chain, settings, mempool, quoted, gas>>
      PROVE  LaunchInv'
  BY <1>2, CallWaits DEF Labels, Final, Quoting
<1>3. CASE SendApprove(c) \/ CrateSendApprove(c)
  <2>1. CASE Succeeds(chain, Approval(c))
    <3>1. Approval(c) \in Transactions /\ Approval(c) \in AsQuoted
      BY <1>0, TransactionTypes DEF AsQuoted
    <3>2. QED
      BY <1>1, <1>3, <2>1, <3>1 DEF SendApprove, CrateSendApprove
  <2>2. CASE ~Succeeds(chain, Approval(c))
    BY <1>2, <1>3, <2>2 DEF SendApprove, CrateSendApprove
  <2>3. QED
    BY <2>1, <2>2
<1>4. CASE Send(c)
  <2> DEFINE limit == CASE gas[c] # 0 -> gas[c]
                        [] gas[c] = 0 /\ Request(c).kind = "launch" -> Estimated
                        [] OTHER -> Unlimited
             sends == gas[c] = 0 => Succeeds(chain, Transaction(c, Unlimited))
  <2>1. CASE ~sends
    BY <1>2, <1>4, <2>1 DEF Send
  <2>2. CASE sends
    <3>1. Estimated \in Nat
      BY Figures DEF Estimated, LaunchGasNeeded
    <3>2. limit \in Nat
      BY <1>0, <3>1 DEF Unlimited
    <3>3. IsLaunch(c) => Enough(c, limit)
      <4>1. IsLaunch(c) => Enough(c, gas[c])
        BY <1>4 DEF LaunchInv, Settled, Send
      <4>2. CASE gas[c] # 0
        BY <4>1, <4>2
      <4>3. CASE gas[c] = 0
        <5>1. Request(c).gasLimit \in Nat
          BY RequestTypes DEF LaunchInv, Places, Requests
        <5>2. QED
          BY <3>1, <4>1, <4>3, <5>1, Figures DEF Enough, LimitChosen, IsLaunch
      <4>4. QED
        BY <4>2, <4>3
    <3>4. /\ mempool' = [mempool EXCEPT ![Request(c).from] = Append(@, Transaction(c, limit))]
          /\ Go(c, "await") /\ UNCHANGED <<plan, chain, settings, quoted, gas>>
      BY <1>4, <2>2 DEF Send
    <3> HIDE DEF limit
    <3>5. Transaction(c, limit) \in AsQuoted
      <4>1. /\ Transaction(c, limit) \in Transactions
            /\ Transaction(c, limit).gas = limit
            /\ Transaction(c, limit).call = c
            /\ Transaction(c, limit).kind = Request(c).kind
            /\ Transaction(c, limit).amount = Request(c).amount
            /\ Transaction(c, limit).maxFee = MaxLaunchFee(c)
            /\ IsLaunch(c) /\ Native => Transaction(c, limit).value = TotalCost(c)
        BY <1>0, <3>2, TransactionTypes
      <4>2. QED
        BY <1>0, <3>3, <4>1 DEF AsQuoted, IsLaunch
    <3>6. Transaction(c, limit) \in Transactions
      BY <3>5 DEF AsQuoted
    <3>7. QED
      BY <1>1, <3>4, <3>5, <3>6
  <2>3. QED
    BY <2>1, <2>2
<1>5. QED
  BY <1>3, <1>4

\* Steps that are of no call: what was sent, and what each call has, stay.
LEMMA OthersMove ==
    ASSUME LaunchInv, UNCHANGED <<plan, pc, quoted, gas>>, settings' \in Settings,
           mempool' \in [Accounts -> Seq(Transactions)], Sent(AsQuoted, mempool'),
           "curves" \in DOMAIN chain', DOMAIN chain'.curves = Calls,
           \A c \in Calls : {"launched", "fee"} \subseteq DOMAIN chain'.curves[c],
           \A c \in Calls : Charged(c)'
    PROVE  LaunchInv'
<1>1. Kept
  BY DEF Kept, Past
<1>2. Sent(AsQuoted', mempool')
  BY <1>1, StillAsQuoted, StillSent
<1>3. Places'
  BY DEF LaunchInv, Places, Calls
<1>4. Settled'
  BY DEF LaunchInv, Settled, Enough, LimitChosen, Native, Calls, IsLaunch, Request
<1>5. QED
  BY <1>2, <1>3, <1>4 DEF LaunchInv, Calls

LEMMA RescueStep ==
    ASSUME LaunchInv, NEW c \in Calls, Rescue(c)
    PROVE  LaunchInv'
<1>1. /\ UNCHANGED <<plan, settings, mempool, pc, quoted, gas>>
      /\ chain' = [chain EXCEPT !.curves[c].migrated = TRUE, !.curves[c].rescued = TRUE]
  BY DEF Rescue
<1>2. /\ "curves" \in DOMAIN chain' /\ DOMAIN chain'.curves = Calls
      /\ \A d \in Calls : /\ {"launched", "fee"} \subseteq DOMAIN chain'.curves[d]
                          /\ chain'.curves[d].launched = chain.curves[d].launched
                          /\ chain'.curves[d].fee = chain.curves[d].fee
  BY <1>1 DEF LaunchInv, Places
<1>3. Kept
  BY <1>1 DEF Kept, Past
<1>4. \A d \in Calls : Charged(d)'
  BY <1>1, <1>2, <1>3, StillCharged DEF LaunchInv
<1>5. QED
  BY <1>1, <1>2, <1>4, OthersMove DEF LaunchInv, Places

LEMMA SettingsStep ==
    ASSUME LaunchInv, SettingsChange
    PROVE  LaunchInv'
<1>1. UNCHANGED <<plan, chain, mempool, pc, quoted, gas>>
  BY DEF SettingsChange
<1>2. settings' \in Settings
  <2>0. settings \in Settings
    BY DEF LaunchInv, Places
  <2>1. CASE \E f \in LaunchFees : settings' = [settings EXCEPT !.fee = f]
    BY <2>0, <2>1 DEF Settings
  <2>2. CASE \E t \in Templates : settings' = [settings EXCEPT !.template = t]
    BY <2>0, <2>2 DEF Settings
  <2>3. CASE settings' = [settings EXCEPT !.migratorUp = ~@]
    BY <2>0, <2>3 DEF Settings
  <2>4. CASE \E a \in Accounts :
               settings' = [settings EXCEPT !.blocked = IF a \in @ THEN @ \ {a} ELSE @ \cup {a}]
    BY <2>0, <2>4 DEF Settings
  <2>5. CASE settings' = [settings EXCEPT !.pushing = ~@]
    BY <2>0, <2>5 DEF Settings
  <2>6. QED
    BY <2>1, <2>2, <2>3, <2>4, <2>5 DEF SettingsChange
<1>3. Kept
  BY <1>1 DEF Kept, Past
<1>4. \A d \in Calls : Charged(d)'
  BY <1>1, <1>3, StillCharged DEF LaunchInv
<1>5. QED
  BY <1>1, <1>2, <1>4, OthersMove DEF LaunchInv, Places

-----------------------------------------------------------------------------
(* Mining.                                                                 *)

\* A transaction leaves the curves as they are, or is a launch that was not refused
\* and deploys its own.
LEMMA Mined ==
    ASSUME NEW tx \in Transactions, NEW q, q = QuoteLaunch(settings.template, tx.amount, settings.fee),
           NEW t, t = Outcome(chain, settings, Native, tx).chain, "curves" \in DOMAIN chain
    PROVE  /\ "curves" \in DOMAIN t
           /\ \/ t.curves = chain.curves
              \/ /\ tx.kind = "launch"
                 /\ ~LaunchRefused(chain, settings, Native, tx, q)
                 /\ t.curves = [chain.curves EXCEPT ![tx.call] = Deployed(settings, Native, tx, q)]
<1>0. tx.kind \in {"launch", "collect", "approve"}
  BY DEF Transactions
<1>1. CASE tx.kind = "launch"
  <2>1. t = LaunchAtQuote(chain, settings, Native, tx, q).chain
    BY <1>1 DEF Outcome, LaunchOutcome
  <2>2. CASE LaunchRefused(chain, settings, Native, tx, q)
    <3>1. t = chain
      BY <2>1, <2>2 DEF LaunchAtQuote, Reverted
    <3>2. QED
      BY <3>1
  <2>3. CASE ~LaunchRefused(chain, settings, Native, tx, q)
    <3>1. t = [chain EXCEPT !.accrued = @ + settings.fee,
                            !.balance[tx.from] = @ - q.totalCost + Refund(settings, tx),
                            !.allowance[tx.from] = IF Native THEN @ ELSE @ - q.totalCost,
                            !.curves[tx.call] = Deployed(settings, Native, tx, q)]
      BY <2>1, <2>3 DEF LaunchAtQuote
    <3>2. /\ "curves" \in DOMAIN t
          /\ t.curves = [chain.curves EXCEPT ![tx.call] = Deployed(settings, Native, tx, q)]
      BY <3>1
    <3>3. QED
      BY <1>1, <2>3, <3>2
  <2>4. QED
    BY <2>2, <2>3
<1>2. CASE tx.kind = "collect"
  <2>1. t = chain \/ t = [chain EXCEPT !.accrued = 0, !.pushed = @ + chain.accrued]
    BY <1>2 DEF Outcome, CollectOutcome, Reverted
  <2>2. QED
    BY <2>1
<1>3. CASE tx.kind = "approve"
  <2>1. t = chain \/ t = [chain EXCEPT !.allowance[tx.from] = tx.amount]
    BY <1>3 DEF Outcome, ApproveOutcome, Reverted
  <2>2. QED
    BY <2>1
<1>4. QED
  BY <1>0, <1>1, <1>2, <1>3

\* The transaction mined is one that was sent as its call was quoted.
LEMMA MinedAsQuoted ==
    ASSUME LaunchInv, NEW a \in Accounts, Mine(a)
    PROVE  /\ Head(mempool[a]) \in AsQuoted
           /\ mempool' \in [Accounts -> Seq(Transactions)] /\ Sent(AsQuoted, mempool')
<1>1. /\ mempool \in [Accounts -> Seq(Transactions)] /\ Sent(AsQuoted, mempool)
      /\ mempool[a] # <<>> /\ mempool' = [mempool EXCEPT ![a] = Tail(@)]
  BY DEF LaunchInv, Places, Mine
<1>2. mempool[a] \in Seq(Transactions) /\ 1 \in DOMAIN mempool[a]
      /\ Head(mempool[a]) = mempool[a][1]
  BY <1>1
<1>3. QED
  BY <1>1, <1>2, Removed DEF Sent

\* What a launch pays is what it was quoted, or less under a cap of the caller's own.
LEMMA DeployedCharged ==
    ASSUME LaunchInv, NEW tx \in AsQuoted, tx.kind = "launch", NEW c \in Calls, c = tx.call,
           NEW q, q = QuoteLaunch(settings.template, tx.amount, settings.fee),
           ~LaunchRefused(chain, settings, Native, tx, q)
    PROVE  /\ Past(c)
           /\ Request(c).capping => settings.fee <= Request(c).maxFee
           /\ ~Request(c).capping => settings.fee <= quoted[c].fee
           /\ Native => settings.fee = quoted[c].fee
<1>1. /\ Past(c) /\ tx.amount = Request(c).amount
      /\ tx.maxFee = MaxLaunchFee(c)
      /\ Native => tx.value = TotalCost(c)
  BY DEF AsQuoted
<1>2. /\ settings.fee \in Nat /\ tx.maxFee \in Nat /\ tx.amount \in Nat
      /\ quoted[c].fee \in Nat /\ Request(c).maxFee \in Nat
  BY LaunchChainAssumption, RequestTypes
     DEF LaunchInv, Places, Settings, AsQuoted, Transactions, QuoteFields, Requests
<1>3. settings.fee <= MaxLaunchFee(c)
  BY <1>1, <1>2 DEF LaunchRefused
<1>4. /\ Request(c).capping => settings.fee <= Request(c).maxFee
      /\ ~Request(c).capping => settings.fee <= quoted[c].fee
  BY <1>3 DEF MaxLaunchFee
<1>5. Native => tx.value = q.totalCost
  BY DEF LaunchRefused, Unpaid
<1>6. q.totalCost = settings.fee + tx.amount
  BY DEF QuoteLaunch
<1>7. Native => settings.fee = quoted[c].fee
  BY <1>1, <1>2, <1>5, <1>6 DEF TotalCost
<1>8. QED
  BY <1>1, <1>4, <1>7

LEMMA MineStep ==
    ASSUME LaunchInv, NEW a \in Accounts, Mine(a)
    PROVE  LaunchInv'
<1>1. PICK tx \in AsQuoted : tx = Head(mempool[a])
  BY MinedAsQuoted
<1>2. PICK q : q = QuoteLaunch(settings.template, tx.amount, settings.fee)
  OBVIOUS
<1>3. /\ mempool' \in [Accounts -> Seq(Transactions)] /\ Sent(AsQuoted, mempool')
      /\ UNCHANGED <<plan, settings, pc, quoted, gas>>
      /\ chain' = Outcome(chain, settings, Native, tx).chain
  BY <1>1, MinedAsQuoted DEF Mine
<1>4. /\ "curves" \in DOMAIN chain /\ DOMAIN chain.curves = Calls /\ settings' \in Settings
      /\ \A d \in Calls : {"launched", "fee"} \subseteq DOMAIN chain.curves[d]
  BY <1>3 DEF LaunchInv, Places
<1>5. Kept
  BY <1>3 DEF Kept, Past
<1>6. /\ "curves" \in DOMAIN chain'
      /\ \/ chain'.curves = chain.curves
         \/ /\ tx.kind = "launch"
            /\ ~LaunchRefused(chain, settings, Native, tx, q)
            /\ chain'.curves = [chain.curves EXCEPT ![tx.call] = Deployed(settings, Native, tx, q)]
  BY <1>2, <1>3, <1>4, Mined DEF AsQuoted
<1>7. CASE chain'.curves = chain.curves
  <2>1. \A d \in Calls : Charged(d)'
    BY <1>3, <1>5, <1>7, StillCharged DEF LaunchInv
  <2>2. QED
    BY <1>3, <1>4, <1>6, <1>7, <2>1, OthersMove
<1>8. CASE /\ tx.kind = "launch"
           /\ ~LaunchRefused(chain, settings, Native, tx, q)
           /\ chain'.curves = [chain.curves EXCEPT ![tx.call] = Deployed(settings, Native, tx, q)]
  <2>1. PICK c \in Calls : c = tx.call
    BY <1>8 DEF AsQuoted
  <2>2. /\ chain'.curves[c].launched = TRUE /\ chain'.curves[c].fee = settings.fee
        /\ {"launched", "fee"} \subseteq DOMAIN chain'.curves[c]
        /\ DOMAIN chain'.curves = Calls
        /\ \A d \in Calls : d # c => chain'.curves[d] = chain.curves[d]
    BY <1>4, <1>8, <2>1 DEF Deployed
  <2>3. ASSUME NEW d \in Calls PROVE Charged(d)'
    <3>1. CASE d = c
      <4>1. /\ Request(c)' = Request(c) /\ Native' = Native /\ quoted'[c] = quoted[c]
            /\ Past(c) => Past(c)'
        BY <1>3 DEF Past, Request, Native
      <4>2. /\ Past(c)
            /\ Request(c).capping => settings.fee <= Request(c).maxFee
            /\ ~Request(c).capping => settings.fee <= quoted[c].fee
            /\ Native => settings.fee = quoted[c].fee
        BY <1>2, <1>8, <2>1, DeployedCharged
      <4>3. QED
        BY <2>2, <3>1, <4>1, <4>2 DEF Charged
    <3>2. CASE d # c
      BY <1>3, <1>5, <2>2, <3>2, StillCharged DEF LaunchInv
    <3>3. QED
      BY <3>1, <3>2
  <2>4. \A d \in Calls : {"launched", "fee"} \subseteq DOMAIN chain'.curves[d]
    BY <1>4, <2>2
  <2>5. QED
    BY <1>3, <1>4, <1>6, <2>2, <2>3, <2>4, OthersMove
<1>9. QED
  BY <1>6, <1>7, <1>8

-----------------------------------------------------------------------------
(* The invariant, and what follows from it.                                *)

LEMMA Initially == Init => LaunchInv
<1> SUFFICES ASSUME Init PROVE LaunchInv
  OBVIOUS
<1>1. plan \in Plans /\ settings \in Settings
  BY DEF Init
<1>2. /\ pc = [c \in Calls |-> "idle"] /\ gas = [c \in Calls |-> 0]
      /\ quoted = [c \in Calls |-> NoQuote] /\ mempool = [a \in Accounts |-> <<>>]
  BY DEF Init
<1>3. /\ "curves" \in DOMAIN chain /\ DOMAIN chain.curves = Calls
      /\ \A c \in Calls : chain.curves[c] = NoCurve
  BY DEF Init
<1>4. /\ {"launched", "fee"} \subseteq DOMAIN NoCurve /\ ~NoCurve.launched
      /\ QuoteFields(NoQuote)
  BY DEF NoCurve, NoQuote, QuoteFields
<1>5. mempool \in [Accounts -> Seq(Transactions)] /\ Sent(AsQuoted, mempool)
  BY <1>2 DEF Sent
<1>6. Places
  BY <1>1, <1>2, <1>3, <1>4, <1>5 DEF Places, Labels
<1>7. Settled
  BY <1>2 DEF Settled
<1>8. \A c \in Calls : Charged(c)
  BY <1>3, <1>4 DEF Charged
<1>9. QED
  BY <1>5, <1>6, <1>7, <1>8 DEF LaunchInv

LEMMA Always == LaunchInv /\ [Next]_vars => LaunchInv'
<1> SUFFICES ASSUME LaunchInv, [Next]_vars PROVE LaunchInv'
  OBVIOUS
<1>0. Of("ts") \subseteq Calls /\ Of("crate") \subseteq Calls
  BY DEF Of
<1>1. ASSUME NEW c \in Calls, Step(c) \/ CrateStep(c) PROVE LaunchInv'
  BY <1>1, CallSteps, QuoteReads, SettleGasStep, Erc20LaunchGasStep, Sends DEF Step, CrateStep
<1>2. ASSUME NEW c \in Calls, RpcFails(c) PROVE LaunchInv'
  BY <1>2, CallSteps
<1>3. ASSUME NEW c \in Calls, Rescue(c) PROVE LaunchInv'
  BY <1>3, RescueStep
<1>4. ASSUME NEW a \in Accounts, Mine(a) PROVE LaunchInv'
  BY <1>4, MineStep
<1>5. CASE SettingsChange
  BY <1>5, SettingsStep
<1>6. CASE UNCHANGED vars
  <2>1. UNCHANGED <<plan, chain, settings, mempool, pc, quoted, gas>>
    BY <1>6 DEF vars
  <2>2. Kept
    BY <2>1 DEF Kept, Past
  <2>3. \A d \in Calls : Charged(d)'
    BY <2>1, <2>2, StillCharged DEF LaunchInv
  <2>4. QED
    BY <2>1, <2>3, OthersMove DEF LaunchInv, Places
<1>7. QED
  BY <1>0, <1>1, <1>2, <1>3, <1>4, <1>5, <1>6 DEF Next

\* No launch pays more fee than its caller's cap or, without one, than it was quoted,
\* whatever the fee does between the quote and the block (launchpad.ts:417).
THEOREM OverchargeExcluded == Spec => []NeverOvercharged
<1>1. LaunchInv => NeverOvercharged
  BY DEF LaunchInv, Charged, NeverOvercharged
<1>2. QED
  BY Initially, Always, <1>1, PTL DEF Spec

\* Every launch on its way in an ERC-20 quote has gas for the fee pushes, whether the
\* limit is the caller's, the graduation limit or the estimate with headroom.
THEOREM PushesProvidedFor == Spec => []LaunchPushesHaveGas
<1>1. LaunchInv => LaunchPushesHaveGas
  BY DEF LaunchInv, Sent, AsQuoted, Enough, LaunchPushesHaveGas
<1>2. QED
  BY Initially, Always, <1>1, PTL DEF Spec

\* What a step that deploys the curve of c owes it.
MigratesAtOnce ==
    \A c \in Calls :
        /\ ~chain.curves[c].launched /\ chain'.curves[c].launched
        /\ chain'.curves[c].graduated
        /\ quoted[c].graduates
        /\ LimitChosen(c) \/ Request(c).gasLimit >= InstantLaunchGas
        /\ settings.migratorUp
        => chain'.curves[c].migrated

LEMMA MinedMigrates ==
    ASSUME LaunchInv, NEW a \in Accounts, Mine(a)
    PROVE  MigratesAtOnce
<1>1. PICK tx \in AsQuoted : tx = Head(mempool[a])
  BY MinedAsQuoted
<1>2. PICK q : q = QuoteLaunch(settings.template, tx.amount, settings.fee)
  OBVIOUS
<1>3. chain' = Outcome(chain, settings, Native, tx).chain /\ "curves" \in DOMAIN chain
  BY <1>1 DEF Mine, LaunchInv, Places
<1>4. \/ chain'.curves = chain.curves
      \/ /\ tx.kind = "launch"
         /\ chain'.curves = [chain.curves EXCEPT ![tx.call] = Deployed(settings, Native, tx, q)]
  BY <1>2, <1>3, Mined DEF AsQuoted
<1>5. CASE chain'.curves = chain.curves
  BY <1>5 DEF MigratesAtOnce
<1>6. CASE /\ tx.kind = "launch"
           /\ chain'.curves = [chain.curves EXCEPT ![tx.call] = Deployed(settings, Native, tx, q)]
  <2> SUFFICES ASSUME NEW c \in Calls,
                      ~chain.curves[c].launched, chain'.curves[c].launched,
                      chain'.curves[c].graduated, quoted[c].graduates, settings.migratorUp,
                      LimitChosen(c) \/ Request(c).gasLimit >= InstantLaunchGas
               PROVE  chain'.curves[c].migrated
    BY DEF MigratesAtOnce
  <2>1. c = tx.call /\ chain'.curves[c] = Deployed(settings, Native, tx, q)
    BY <1>6 DEF LaunchInv, Places
  <2>2. /\ GraduatesAtOnce(settings, tx)
        /\ chain'.curves[c].migrated = MigratesInLaunch(settings, Native, tx)
    BY <2>1 DEF Deployed
  <2>3. /\ tx.gas \in Nat
        /\ \/ tx.gas >= GraduationGasLimit
           \/ ~LimitChosen(c) /\ tx.gas >= Request(c).gasLimit
    BY <1>6, <2>1 DEF AsQuoted, Transactions, Enough
  <2>4. tx.gas >= InstantLaunchGas + (IF ~Native /\ settings.pushing THEN PushGas ELSE 0)
    <3>1. Request(c).gasLimit \in Nat
      BY RequestTypes DEF LaunchInv, Places, Requests
    <3>2. QED
      BY <2>3, <3>1, Figures DEF LimitChosen
  <2>5. QED
    BY <2>2, <2>4 DEF MigratesInLaunch
<1>7. QED
  BY <1>4, <1>5, <1>6

\* A launch quoted to graduate that does graduate migrates at once wherever a client
\* chose its gas limit, and where the caller gave what a migrating launch takes: such a
\* limit reaches the block, and in an ERC-20 quote a lower one is raised.
THEOREM ForeseenGraduationsMigrate == Spec => ForeseenGraduationMigrates
<1>1. LaunchInv /\ [Next]_vars => [MigratesAtOnce]_vars
  <2> SUFFICES ASSUME LaunchInv, Next PROVE MigratesAtOnce
    OBVIOUS
  <2>1. ASSUME NEW a \in Accounts, Mine(a) PROVE MigratesAtOnce
    BY <2>1, MinedMigrates
  <2>2. ASSUME NEW c \in Calls, Rescue(c) PROVE MigratesAtOnce
    <3>1. chain' = [chain EXCEPT !.curves[c].migrated = TRUE, !.curves[c].rescued = TRUE]
      BY <2>2 DEF Rescue
    <3>2. \A d \in Calls : chain'.curves[d].launched = chain.curves[d].launched
      BY <3>1 DEF LaunchInv, Places
    <3>3. QED
      BY <3>2 DEF MigratesAtOnce
  <2>3. ASSUME NEW c \in Calls, Step(c) \/ CrateStep(c) \/ RpcFails(c) PROVE MigratesAtOnce
    <3>1. UNCHANGED chain
      BY <2>3 DEF Step, CrateStep, CrateStart, QuoteAndLimit, CrateSendApprove, Erc20LaunchGas,
                  CrateAwait, RpcFails, Start, ReadQuote, ReadTemplate, ReadAllowance, Preflight,
                  SimulateApprove, SendApprove, AwaitApprove, SettleGas, Simulate, Send, Await
    <3>2. QED
      BY <3>1 DEF MigratesAtOnce
  <2>4. CASE SettingsChange
    BY <2>4 DEF SettingsChange, MigratesAtOnce
  <2>5. QED
    BY <2>1, <2>2, <2>3, <2>4 DEF Next, Of
<1>2. [][MigratesAtOnce]_vars => ForeseenGraduationMigrates
  BY DEF ForeseenGraduationMigrates, MigratesAtOnce
<1>3. QED
  BY Initially, Always, <1>1, <1>2, PTL DEF Spec

-----------------------------------------------------------------------------
(* What a quote foresees while the template stays.                         *)

\* The first half of a quote, read from the template there still is.
AsRead(c, quote) ==
    Request(c).amount # 0 =>
        /\ ~FirstBuyReverts(settings, Request(c))
        /\ quote.tokensOut = FirstBuy(settings, Request(c)).tokensOut
        /\ quote.tradeFee = FirstBuy(settings, Request(c)).fee

Unquoted == {"idle", "quote", "template", "failed"}

Foreseen(c) ==
    IsLaunch(c) =>
        /\ pc[c] = "template" => AsRead(c, quoted[c])
        /\ pc[c] \notin Unquoted => (quoted[c].graduates <=> GraduatesAtOnce(settings, Request(c)))

ForeseenInv == "template" \notin plan.moving => \A c \in Calls : Foreseen(c)

\* What a quote reports of a first buy tells what the curve will make of it.
LEMMA QuoteTells ==
    ASSUME LaunchInv, NEW c \in Calls, NEW quote, AsRead(c, quote)
    PROVE  /\ WouldGraduate(settings.template, Request(c).amount, quote.tradeFee, quote.tokensOut)
                <=> GraduatesAtOnce(settings, Request(c))
           /\ would_graduate(settings.template, Request(c).amount, quote.tradeFee,
                             quote.tokensOut)
                <=> GraduatesAtOnce(settings, Request(c))
<1> DEFINE amount == Request(c).amount
           template == settings.template
           buy == QuoteBuy(template, template.r0, 0, amount)
<1>1. template \in CurveRecord /\ Placed(template) /\ amount \in Nat
  BY LaunchChainAssumption, RequestTypes DEF LaunchInv, Places, Settings, Requests
<1>2. CASE amount = 0
  BY <1>2 DEF WouldGraduate, would_graduate, GraduatesAtOnce
<1>3. CASE amount # 0
  <2>1. ~BuyReverts(template, template.r0, 0, amount)
    BY <1>3 DEF AsRead, FirstBuyReverts
  <2>2. quote.tokensOut = buy.tokensOut /\ quote.tradeFee = buy.fee
    BY <1>3 DEF AsRead, FirstBuy
  <2>3. GraduatesAtOnce(settings, Request(c)) <=> buy.graduates
    BY <1>3 DEF GraduatesAtOnce, FirstBuy
  <2>4. buy.graduates <=> \/ Monus(amount, buy.fee) >= template.target
                         \/ buy.tokensOut >= template.supply
    <3>1. amount \in Nat \ {0}
      BY <1>1, <1>3
    <3>2. QED
      BY <1>1, <2>1, <3>1, FreshGraduation
  <2> HIDE DEF buy, template, amount
  <2>5. QED
    BY <1>3, <2>2, <2>3, <2>4 DEF WouldGraduate, would_graduate, amount, template
<1>4. QED
  BY <1>2, <1>3

LEMMA StillForeseen ==
    ASSUME plan' = plan, settings'.template = settings.template, NEW c \in Calls, Foreseen(c),
           quoted'[c] = quoted[c],
           pc'[c] = "template" => pc[c] = "template",
           IsLaunch(c) /\ pc'[c] \notin Unquoted => pc[c] \notin Unquoted
    PROVE  Foreseen(c)'
BY DEF Foreseen, IsLaunch, Request, AsRead, FirstBuyReverts, FirstBuy, GraduatesAtOnce

\* A step of one call leaves the quotes of the others as true as they were.
LEMMA ForeseenMoves ==
    ASSUME LaunchInv, ForeseenInv, NEW c \in Calls, NEW to, Go(c, to), UNCHANGED <<plan, settings>>,
           \A d \in Calls : d # c => quoted'[d] = quoted[d],
           "template" \notin plan.moving => Foreseen(c)'
    PROVE  ForeseenInv'
<1>1. \A d \in Calls : d # c => pc'[d] = pc[d]
  BY DEF LaunchInv, Places, Go
<1>2. ASSUME "template" \notin plan.moving, NEW d \in Calls, d # c PROVE Foreseen(d)'
  BY <1>1, <1>2, StillForeseen DEF ForeseenInv
<1>3. QED
  BY <1>2 DEF ForeseenInv, Calls

LEMMA ForeseenReads ==
    ASSUME LaunchInv, ForeseenInv, NEW c \in Calls,
           ReadQuote(c) \/ ReadTemplate(c) \/ QuoteAndLimit(c)
    PROVE  ForeseenInv'
<1>0. /\ pc \in [Calls -> Labels] /\ DOMAIN quoted = Calls /\ QuoteFields(quoted[c])
  BY DEF LaunchInv, Places
<1>1. CASE ReadQuote(c) /\ FirstBuyReverts(settings, Request(c))
  <2>1. Go(c, "failed") /\ UNCHANGED <<plan, settings, quoted>>
    BY <1>1 DEF ReadQuote
  <2>2. Foreseen(c)'
    BY <1>0, <2>1 DEF Foreseen, Go, Unquoted
  <2>3. QED
    BY <2>1, <2>2, ForeseenMoves
<1>2. CASE ReadQuote(c) /\ ~FirstBuyReverts(settings, Request(c))
  <2> DEFINE q == QuoteLaunch(settings.template, Request(c).amount, settings.fee)
  <2>1. /\ Go(c, "template") /\ UNCHANGED <<plan, settings>>
        /\ quoted' = [quoted EXCEPT ![c] = [ fee |-> settings.fee, tokensOut |-> q.tokensOut,
                                              tradeFee |-> q.tradeFee, graduates |-> FALSE ]]
    BY <1>2 DEF ReadQuote
  <2>2. Request(c).amount # 0 => /\ q.tokensOut = FirstBuy(settings, Request(c)).tokensOut
                                 /\ q.tradeFee = FirstBuy(settings, Request(c)).fee
    BY DEF QuoteLaunch, FirstBuy
  <2> HIDE DEF q
  <2>3. AsRead(c, quoted[c])'
    BY <1>0, <1>2, <2>1, <2>2 DEF AsRead, Request, FirstBuy, FirstBuyReverts
  <2>4. Foreseen(c)'
    BY <1>0, <2>1, <2>3 DEF Foreseen, Go, Unquoted
  <2>5. QED
    BY <1>0, <2>1, <2>4, ForeseenMoves
<1>3. CASE ReadTemplate(c)
  <2> DEFINE graduates == WouldGraduate(settings.template, Request(c).amount,
                                        quoted[c].tradeFee, quoted[c].tokensOut)
  <2>1. /\ quoted' = [quoted EXCEPT ![c].graduates = graduates]
        /\ UNCHANGED <<plan, settings>> /\ pc[c] = "template"
    BY <1>3 DEF ReadTemplate
  <2>2. PICK to \in {"failed", "simulate", "allowance"} : Go(c, to)
    BY <1>3 DEF ReadTemplate
  <2>3. ASSUME "template" \notin plan.moving, IsLaunch(c)
        PROVE  quoted'[c].graduates <=> GraduatesAtOnce(settings, Request(c))
    <3>1. AsRead(c, quoted[c])
      BY <2>1, <2>3 DEF ForeseenInv, Foreseen
    <3>2. graduates <=> GraduatesAtOnce(settings, Request(c))
      BY <3>1, QuoteTells
    <3> HIDE DEF graduates
    <3>3. quoted'[c].graduates = graduates
      BY <1>0, <2>1 DEF QuoteFields
    <3>4. QED
      BY <3>2, <3>3
  <2>4. pc'[c] = to /\ to # "template"
    BY <1>0, <2>2 DEF Go
  <2>5. IsLaunch(c)' = IsLaunch(c) /\ Request(c)' = Request(c) /\ settings' = settings
    BY <2>1 DEF IsLaunch, Request
  <2>6. "template" \notin plan.moving => Foreseen(c)'
    BY <2>3, <2>4, <2>5 DEF Foreseen
  <2> HIDE DEF graduates
  <2>7. \A d \in Calls : d # c => quoted'[d] = quoted[d]
    BY <1>0, <2>1
  <2>8. QED
    BY <2>1, <2>2, <2>6, <2>7, ForeseenMoves
<1>4. CASE QuoteAndLimit(c)
  <2>1. UNCHANGED <<plan, settings>>
    BY <1>4 DEF QuoteAndLimit
  <2>2. CASE Go(c, "failed") /\ UNCHANGED quoted
    <3>1. Foreseen(c)'
      BY <1>0, <2>2 DEF Foreseen, Go, Unquoted
    <3>2. QED
      BY <2>1, <2>2, <3>1, ForeseenMoves
  <2>3. CASE /\ ~FirstBuyReverts(settings, Request(c))
             /\ quoted' = [quoted EXCEPT ![c] = LaunchQuote(c)]
             /\ Go(c, IF Native THEN "send" ELSE "allowance")
    <3> DEFINE q == QuoteLaunch(settings.template, Request(c).amount, settings.fee)
               quote == LaunchQuote(c)
    <3>1. Request(c).amount # 0 => /\ q.tokensOut = FirstBuy(settings, Request(c)).tokensOut
                                   /\ q.tradeFee = FirstBuy(settings, Request(c)).fee
      BY DEF QuoteLaunch, FirstBuy
    <3>2. /\ quote.tokensOut = q.tokensOut /\ quote.tradeFee = q.tradeFee
          /\ quote.graduates = would_graduate(settings.template, Request(c).amount,
                                              quote.tradeFee, quote.tokensOut)
      BY DEF LaunchQuote
    <3> HIDE DEF q, quote
    <3>3. AsRead(c, quote)
      BY <2>3, <3>1, <3>2 DEF AsRead
    <3>4. quote.graduates <=> GraduatesAtOnce(settings, Request(c))
      BY <3>2, <3>3, QuoteTells
    <3>5. PICK to \in {"send", "allowance"} : Go(c, to)
      BY <2>3
    <3>6. /\ quoted'[c] = quote /\ pc'[c] = to
          /\ \A d \in Calls : d # c => quoted'[d] = quoted[d]
      BY <1>0, <2>3, <3>5 DEF Go, quote
    <3>7. Foreseen(c)'
      BY <2>1, <3>4, <3>5, <3>6 DEF Foreseen, Unquoted, IsLaunch, Request
    <3>8. QED
      BY <2>1, <3>5, <3>6, <3>7, ForeseenMoves
  <2>4. QED
    BY <1>4, <2>2, <2>3 DEF QuoteAndLimit
<1>5. QED
  BY <1>1, <1>2, <1>3, <1>4

LEMMA ForeseenSteps ==
    ASSUME LaunchInv, ForeseenInv, NEW c \in Calls,
           \/ Start(c) \/ ReadAllowance(c) \/ Preflight(c) \/ SimulateApprove(c)
           \/ SendApprove(c) \/ AwaitApprove(c) \/ SettleGas(c) \/ Simulate(c)
           \/ Send(c) \/ Await(c) \/ RpcFails(c) \/ CrateStart(c) \/ CrateSendApprove(c)
           \/ Erc20LaunchGas(c) \/ CrateAwait(c)
    PROVE  ForeseenInv'
<1>0. pc \in [Calls -> Labels]
  BY DEF LaunchInv, Places
<1>1. UNCHANGED <<plan, settings, quoted>>
  BY DEF Start, ReadAllowance, Preflight, SimulateApprove, SendApprove, AwaitApprove,
         SettleGas, Simulate, Send, Await, RpcFails, CrateStart, CrateSendApprove,
         Erc20LaunchGas, CrateAwait
<1>2. CASE Start(c) \/ CrateStart(c)
  <2>1. PICK to \in {"quote", "simulate", "send"} :
          Go(c, to) /\ (to = "quote" <=> IsLaunch(c))
    BY <1>2 DEF Start, CrateStart, IsLaunch
  <2>2. Foreseen(c)'
    BY <1>0, <1>1, <2>1 DEF Foreseen, Go, Unquoted, IsLaunch, Request
  <2>3. QED
    BY <1>1, <2>1, <2>2, ForeseenMoves
<1>3. CASE RpcFails(c)
  <2>1. Go(c, "failed")
    BY <1>3 DEF RpcFails
  <2>2. Foreseen(c)'
    BY <1>0, <2>1 DEF Foreseen, Go, Unquoted
  <2>3. QED
    BY <1>1, <2>1, <2>2, ForeseenMoves
<1>4. CASE ~Start(c) /\ ~CrateStart(c) /\ ~RpcFails(c)
  <2>1. pc[c] \notin Unquoted
    BY <1>4 DEF ReadAllowance, Preflight, SimulateApprove, SendApprove, AwaitApprove,
                SettleGas, Simulate, Send, Await, CrateSendApprove, Erc20LaunchGas, CrateAwait,
                Unquoted
  <2>2. PICK to : Go(c, to) /\ to # "template"
    BY <1>4 DEF ReadAllowance, Preflight, SimulateApprove, SendApprove, AwaitApprove,
                SettleGas, Simulate, Send, Await, CrateSendApprove, Erc20LaunchGas, CrateAwait
  <2>3. pc'[c] # "template"
    BY <1>0, <2>2 DEF Go
  <2>4. "template" \notin plan.moving => Foreseen(c)'
    BY <1>1, <2>1, <2>3, StillForeseen DEF ForeseenInv
  <2>5. QED
    BY <1>1, <2>2, <2>4, ForeseenMoves
<1>5. QED
  BY <1>2, <1>3, <1>4

LEMMA ForeseenOthers ==
    ASSUME LaunchInv, ForeseenInv, UNCHANGED <<plan, pc, quoted>>,
           "template" \notin plan.moving => settings'.template = settings.template
    PROVE  ForeseenInv'
BY StillForeseen DEF ForeseenInv, Calls

LEMMA ForeseenAlways == LaunchInv /\ ForeseenInv /\ [Next]_vars => ForeseenInv'
<1> SUFFICES ASSUME LaunchInv, ForeseenInv, [Next]_vars PROVE ForeseenInv'
  OBVIOUS
<1>0. Of("ts") \subseteq Calls /\ Of("crate") \subseteq Calls
  BY DEF Of
<1>1. ASSUME NEW c \in Calls, Step(c) \/ CrateStep(c) \/ RpcFails(c) PROVE ForeseenInv'
  BY <1>1, ForeseenReads, ForeseenSteps DEF Step, CrateStep
<1>2. ASSUME NEW c \in Calls, Rescue(c) PROVE ForeseenInv'
  BY <1>2, ForeseenOthers DEF Rescue
<1>3. ASSUME NEW a \in Accounts, Mine(a) PROVE ForeseenInv'
  BY <1>3, ForeseenOthers DEF Mine
<1>4. CASE SettingsChange
  <2>1. UNCHANGED <<plan, pc, quoted>>
    BY <1>4 DEF SettingsChange
  <2>2. ASSUME "template" \notin plan.moving PROVE settings'.template = settings.template
    <3>0. settings \in Settings
      BY DEF LaunchInv, Places
    <3>1. CASE \E f \in LaunchFees : settings' = [settings EXCEPT !.fee = f]
      BY <3>0, <3>1 DEF Settings
    <3>2. CASE settings' = [settings EXCEPT !.migratorUp = ~@]
      BY <3>0, <3>2 DEF Settings
    <3>3. CASE \E a \in Accounts :
                 settings' = [settings EXCEPT !.blocked = IF a \in @ THEN @ \ {a} ELSE @ \cup {a}]
      BY <3>0, <3>3 DEF Settings
    <3>4. CASE settings' = [settings EXCEPT !.pushing = ~@]
      BY <3>0, <3>4 DEF Settings
    <3>5. QED
      BY <1>4, <2>2, <3>1, <3>2, <3>3, <3>4 DEF SettingsChange
  <2>3. QED
    BY <2>1, <2>2, ForeseenOthers
<1>5. CASE UNCHANGED vars
  BY <1>5, ForeseenOthers DEF vars
<1>6. QED
  BY <1>0, <1>1, <1>2, <1>3, <1>4, <1>5 DEF Next

\* While the template stays, a quote tells exactly whether its launch graduates, from
\* the input, the fee and the fill (launchpad.ts, wouldGraduate).
THEOREM GraduationsForeseen == Spec => []GraduationForeseen
<1>1. Init => ForeseenInv
  <2> SUFFICES ASSUME Init, NEW c \in Calls PROVE Foreseen(c)
    BY DEF ForeseenInv
  <2>1. pc[c] = "idle"
    BY DEF Init
  <2>2. QED
    BY <2>1 DEF Foreseen, Unquoted
<1>2. ForeseenInv => GraduationForeseen
  BY DEF ForeseenInv, Foreseen, Unquoted, IsLaunch, GraduationForeseen
<1>3. QED
  BY Initially, Always, ForeseenAlways, <1>1, <1>2, PTL DEF Spec

-----------------------------------------------------------------------------
(* A call sends what it is after once, hears of it once, and tells that.   *)

\* The transactions that are of a call, and what it asks for or the approve for it.
AsKind ==
    {tx \in Transactions :
        tx.call \in Calls /\ (tx.kind # "approve" => tx.kind = Request(tx.call).kind)}

\* Both are the launch of one call.
SameCall ==
    {p \in Transactions \X Transactions :
        p[1].call = p[2].call /\ p[1].kind = "launch" /\ p[2].kind = "launch"}

OnWay(queue, c) ==
    \E a \in Accounts : \E i \in DOMAIN queue[a] :
        queue[a][i].call = c /\ queue[a][i].kind = "launch"

Unsent == Labels \ ({"await"} \cup Final)

\* A curve is as its launch's receipt says, but for a migration by somebody else.
IsAsReceived(curve, received) ==
    /\ curve.launched <=> received.launched
    /\ curve.tokens = received.tokens
    /\ curve.graduated <=> received.graduated
    /\ curve.migrated /\ ~curve.rescued <=> received.migrated

Tells(told, received) ==
    /\ told.tokens = received.tokens
    /\ told.graduated <=> received.graduated
    /\ told.migrated <=> received.migrated
    /\ told.migrationFailed <=> received.graduated /\ ~received.migrated

\* What holds of a launch that is at p: whether its transaction is on its way, the
\* receipt it has of it, its curve, what it told, and how many RPCs have failed.
LaunchFits(p, onWay, main, curve, told, failed) ==
    /\ p \in Unsent => ~onWay /\ main = NoReceipt
    /\ onWay => main = NoReceipt
    /\ main.curve.launched => main.ok
    /\ IsAsReceived(curve, main.curve)
    /\ p = "failed" /\ failed = 0 => ~onWay /\ ~main.curve.launched
    /\ p = "done" => main.curve.launched /\ Tells(told, main.curve)

CallFits(c) ==
    IsLaunch(c) => LaunchFits(pc[c], OnWay(mempool, c), receipts[c].main, chain.curves[c],
                              result[c], failures)

Filed ==
    /\ DOMAIN receipts = Calls /\ \A c \in Calls : DOMAIN receipts[c] = {"approve", "main"}
    /\ DOMAIN result = Calls /\ failures \in Nat
    /\ \A c \in Calls : DOMAIN chain.curves[c] = DOMAIN NoCurve

ToldInv ==
    /\ LaunchInv
    /\ Filed
    /\ Sent(AsKind, mempool)
    /\ Lone(mempool, Accounts, SameCall)
    /\ \A c \in Calls : CallFits(c)

LEMMA KindsSame == ASSUME plan' = plan PROVE
    /\ Calls' = Calls /\ Native' = Native /\ AsKind' = AsKind /\ SameCall' = SameCall
    /\ \A c \in Calls : Request(c)' = Request(c) /\ IsLaunch(c)' = IsLaunch(c)
BY DEF Calls, Native, AsKind, SameCall, IsLaunch, Request

\* The parts of the invariant after a step.
LEMMA ToldHolds ==
    ASSUME ToldInv, LaunchInv', plan' = plan, Filed', Sent(AsKind, mempool'),
           Lone(mempool', Accounts, SameCall),
           \A c \in Calls : IsLaunch(c) =>
               LaunchFits(pc'[c], OnWay(mempool', c), receipts'[c].main, chain'.curves[c],
                          result'[c], failures')
    PROVE  ToldInv'
<1>1. /\ Calls' = Calls /\ AsKind' = AsKind /\ SameCall' = SameCall
      /\ \A c \in Calls : IsLaunch(c)' = IsLaunch(c)
  BY KindsSame
<1>2. \A c \in Calls : CallFits(c)'
  BY <1>1, Zenon DEF CallFits
<1>3. Sent(AsKind, mempool)' /\ Lone(mempool, Accounts, SameCall)'
  BY <1>1 DEF Sent, Lone
<1>4. QED
  BY <1>1, <1>2, <1>3 DEF ToldInv

\* A step of one call that sends nothing.
LEMMA OneTold ==
    ASSUME ToldInv, LaunchInv', NEW c \in Calls, NEW to, Go(c, to),
           UNCHANGED <<plan, chain, receipts, mempool>>,
           DOMAIN result' = Calls, \A d \in Calls \ {c} : result'[d] = result[d],
           failures' \in Nat, failures' = 0 => failures = 0,
           IsLaunch(c) => LaunchFits(to, OnWay(mempool, c), receipts[c].main, chain.curves[c],
                                     result'[c], failures')
    PROVE  ToldInv'
<1>1. pc \in [Calls -> Labels] /\ pc' = [pc EXCEPT ![c] = to]
  BY DEF ToldInv, LaunchInv, Places, Go
<1>2. Filed'
  BY KindsSame DEF ToldInv, Filed
<1>3. ASSUME NEW d \in Calls, IsLaunch(d)
      PROVE  LaunchFits(pc'[d], OnWay(mempool', d), receipts'[d].main, chain'.curves[d],
                        result'[d], failures')
  <2>1. CASE d = c
    <3>1. pc'[d] = to /\ mempool' = mempool /\ receipts' = receipts /\ chain' = chain
      BY <1>1, <2>1
    <3>2. QED
      BY <1>3, <2>1, <3>1
  <2>2. CASE d # c
    <3>1. /\ pc'[d] = pc[d] /\ mempool' = mempool /\ receipts' = receipts /\ chain' = chain
          /\ result'[d] = result[d]
      BY <1>1, <2>2
    <3>2. LaunchFits(pc[d], OnWay(mempool, d), receipts[d].main, chain.curves[d], result[d],
                     failures)
      BY <1>3 DEF ToldInv, CallFits
    <3>3. LaunchFits(pc[d], OnWay(mempool, d), receipts[d].main, chain.curves[d], result[d],
                     failures')
      BY <3>2 DEF LaunchFits
    <3>4. QED
      BY <3>1, <3>3
  <2>3. QED
    BY <2>1, <2>2
<1>4. Sent(AsKind, mempool') /\ Lone(mempool', Accounts, SameCall)
  BY DEF ToldInv
<1>5. QED
  BY <1>2, <1>3, <1>4, ToldHolds

\* A call that has sent nothing yet goes on, or fails without having launched.
LEMMA UnsentTold ==
    ASSUME ToldInv, LaunchInv', NEW c \in Calls, NEW to \in Labels \ {"await", "done"},
           Go(c, to), pc[c] \in Unsent, UNCHANGED <<plan, chain, receipts, mempool, result, failures>>
    PROVE  ToldInv'
<1>1. ASSUME IsLaunch(c)
      PROVE  LaunchFits(to, OnWay(mempool, c), receipts[c].main, chain.curves[c], result[c],
                        failures)
  <2>1. /\ LaunchFits(pc[c], OnWay(mempool, c), receipts[c].main, chain.curves[c], result[c],
                      failures)
        /\ ~NoReceipt.curve.launched
    BY <1>1 DEF ToldInv, CallFits, NoReceipt, NoCurve
  <2>2. QED
    BY <2>1 DEF LaunchFits
<1>2. DOMAIN result = Calls /\ failures \in Nat
  BY DEF ToldInv, Filed
<1>3. QED
  BY <1>1, <1>2, OneTold

LEMMA StepsTold ==
    ASSUME ToldInv, LaunchInv', NEW c \in Calls,
           \/ Start(c) \/ ReadQuote(c) \/ ReadTemplate(c) \/ ReadAllowance(c) \/ Preflight(c)
           \/ SimulateApprove(c) \/ AwaitApprove(c) \/ SettleGas(c) \/ Simulate(c)
           \/ CrateStart(c) \/ QuoteAndLimit(c) \/ Erc20LaunchGas(c)
           \/ (SendApprove(c) \/ CrateSendApprove(c) \/ Send(c)) /\ UNCHANGED mempool
    PROVE  ToldInv'
<1>1. /\ pc[c] \in Unsent
      /\ UNCHANGED <<plan, chain, receipts, mempool, result, failures>>
  BY DEF Start, ReadQuote, ReadTemplate, ReadAllowance, Preflight, SimulateApprove, AwaitApprove,
         SettleGas, Simulate, CrateStart, QuoteAndLimit, Erc20LaunchGas, SendApprove,
         CrateSendApprove, Send, Unsent, Labels, Final
<1>2. ASSUME NEW to \in Labels \ {"await", "done"}, Go(c, to) PROVE ToldInv'
  BY <1>1, <1>2, UnsentTold
<1>3. {"quote", "template", "allowance", "preflight", "simulateApprove", "sendApprove",
       "estimate", "simulate", "send", "failed"} \subseteq Labels \ {"await", "done"}
  BY DEF Labels, Final
<1>4. CASE Start(c)
  BY <1>2, <1>3, <1>4 DEF Start
<1>5. CASE ReadQuote(c)
  BY <1>2, <1>3, <1>5 DEF ReadQuote
<1>6. CASE ReadTemplate(c)
  <2>1. PICK to \in {"failed", "simulate", "allowance"} : Go(c, to)
    BY <1>6 DEF ReadTemplate
  <2>2. QED
    BY <1>2, <1>3, <2>1
<1>7. CASE ReadAllowance(c)
  BY <1>2, <1>3, <1>7 DEF ReadAllowance
<1>8. CASE Preflight(c) \/ SimulateApprove(c) \/ AwaitApprove(c)
  BY <1>2, <1>3, <1>8 DEF Preflight, SimulateApprove, AwaitApprove
<1>9. CASE SettleGas(c) \/ Erc20LaunchGas(c)
  <2>1. PICK to \in {"simulate", "send", "failed"} : Go(c, to)
    BY <1>9 DEF SettleGas, Erc20LaunchGas
  <2>2. QED
    BY <1>2, <1>3, <2>1
<1>10. CASE Simulate(c)
  <2>1. PICK to \in {"send", "failed"} : Go(c, to)
    BY <1>10 DEF Simulate
  <2>2. QED
    BY <1>2, <1>3, <2>1
<1>11. CASE CrateStart(c)
  BY <1>2, <1>3, <1>11 DEF CrateStart
<1>12. CASE QuoteAndLimit(c)
  <2>1. PICK to \in {"send", "allowance", "failed"} : Go(c, to)
    BY <1>12 DEF QuoteAndLimit
  <2>2. QED
    BY <1>2, <1>3, <2>1
<1>13. CASE (SendApprove(c) \/ CrateSendApprove(c) \/ Send(c)) /\ UNCHANGED mempool
  <2>1. /\ mempool \in [Accounts -> Seq(Transactions)] /\ Request(c).from \in Accounts
    BY RequestTypes DEF ToldInv, LaunchInv, Places, Requests
  <2>2. ASSUME NEW tx, mempool' = [mempool EXCEPT ![Request(c).from] = Append(@, tx)] PROVE FALSE
    <3>1. mempool'[Request(c).from] = Append(mempool[Request(c).from], tx)
      BY <2>1, <2>2
    <3>2. mempool[Request(c).from] \in Seq(Transactions)
      BY <2>1
    <3>3. Len(Append(mempool[Request(c).from], tx)) # Len(mempool[Request(c).from])
      BY <3>2
    <3>4. QED
      BY <1>13, <3>1, <3>3
  <2>3. Go(c, "failed")
    BY <1>13, <2>2 DEF SendApprove, CrateSendApprove, Send
  <2>4. QED
    BY <1>2, <1>3, <2>3
<1>14. QED
  BY <1>4, <1>5, <1>6, <1>7, <1>8, <1>9, <1>10, <1>11, <1>12, <1>13

\* What is on its way after a transaction is added.
LEMMA OnWayAppended ==
    ASSUME NEW queue \in [Accounts -> Seq(Transactions)], NEW f \in Accounts,
           NEW tx \in Transactions, NEW c
    PROVE  OnWay([queue EXCEPT ![f] = Append(@, tx)], c) <=>
               OnWay(queue, c) \/ (tx.call = c /\ tx.kind = "launch")
<1> DEFINE longer == [queue EXCEPT ![f] = Append(@, tx)]
<1>1. \A a \in Accounts : \A i \in DOMAIN longer[a] :
         \/ i \in DOMAIN queue[a] /\ longer[a][i] = queue[a][i]
         \/ longer[a][i] = tx
  BY PlaceAppended
<1>2. \A a \in Accounts : \A i \in DOMAIN queue[a] :
         i \in DOMAIN longer[a] /\ longer[a][i] = queue[a][i]
  <2> TAKE a \in Accounts
  <2>1. CASE a = f
    <3>1. longer[a] = Append(queue[a], tx) /\ queue[a] \in Seq(Transactions)
      BY <2>1
    <3>2. QED
      BY <3>1
  <2>2. CASE a # f
    BY <2>2
  <2>3. QED
    BY <2>1, <2>2
<1>3. Len(longer[f]) \in DOMAIN longer[f] /\ longer[f][Len(longer[f])] = tx
  <2>1. longer[f] = Append(queue[f], tx) /\ queue[f] \in Seq(Transactions)
    OBVIOUS
  <2>2. QED
    BY <2>1
<1> HIDE DEF longer
<1>4. OnWay(longer, c) => OnWay(queue, c) \/ (tx.call = c /\ tx.kind = "launch")
  BY <1>1 DEF OnWay
<1>5. OnWay(queue, c) => OnWay(longer, c)
  BY <1>2 DEF OnWay
<1>6. tx.call = c /\ tx.kind = "launch" => OnWay(longer, c)
  BY <1>3 DEF OnWay
<1>7. QED
  BY <1>4, <1>5, <1>6 DEF longer

\* A transaction that its call had not sent is sent.
LEMMA SentTold ==
    ASSUME ToldInv, LaunchInv', NEW c \in Calls, NEW to \in {"awaitApprove", "await"}, Go(c, to),
           NEW tx \in AsKind, tx.call = c, tx.kind = "approve" <=> to = "awaitApprove",
           pc[c] \in Unsent,
           mempool' = [mempool EXCEPT ![Request(c).from] = Append(@, tx)],
           UNCHANGED <<plan, chain, receipts, result, failures>>
    PROVE  ToldInv'
<1>1. /\ pc \in [Calls -> Labels] /\ pc' = [pc EXCEPT ![c] = to]
      /\ mempool \in [Accounts -> Seq(Transactions)] /\ tx \in Transactions
      /\ Request(c).from \in Accounts
  BY RequestTypes DEF ToldInv, LaunchInv, Places, Go, AsKind, Requests
<1>2. Filed'
  BY KindsSame DEF ToldInv, Filed
<1>3. \A d \in Calls : OnWay(mempool', d) <=> OnWay(mempool, d) \/ (d = c /\ tx.kind = "launch")
  BY <1>1, OnWayAppended
<1>4. IsLaunch(c) => LaunchFits(pc[c], OnWay(mempool, c), receipts[c].main, chain.curves[c],
                                result[c], failures)
  BY DEF ToldInv, CallFits
<1>5. ASSUME NEW d \in Calls, IsLaunch(d)
      PROVE  LaunchFits(pc'[d], OnWay(mempool', d), receipts'[d].main, chain'.curves[d],
                        result'[d], failures')
  <2>1. CASE d = c
    <3>1. pc'[d] = to
      BY <1>1, <2>1
    <3>2. to \notin Final /\ (to = "await" => to \notin Unsent)
      BY DEF Final, Unsent
    <3>3. OnWay(mempool', c) <=> to = "await"
      <4>1. tx.kind = "launch" <=> to = "await"
        BY <1>5, <2>1 DEF AsKind, IsLaunch
      <4>2. QED
        BY <1>3, <1>4, <1>5, <2>1, <4>1 DEF LaunchFits
    <3>4. LaunchFits(to, OnWay(mempool', c), receipts[c].main, chain.curves[c], result[c],
                     failures)
      BY <1>4, <1>5, <2>1, <3>2, <3>3 DEF LaunchFits
    <3>5. QED
      BY <2>1, <3>1, <3>4
  <2>2. CASE d # c
    <3>1. pc'[d] = pc[d] /\ (OnWay(mempool', d) <=> OnWay(mempool, d))
      BY <1>1, <1>3, <2>2
    <3>2. LaunchFits(pc[d], OnWay(mempool, d), receipts[d].main, chain.curves[d], result[d],
                     failures)
      BY <1>5 DEF ToldInv, CallFits
    <3>3. QED
      BY <3>1, <3>2 DEF LaunchFits
  <2>3. QED
    BY <2>1, <2>2
<1>6. Sent(AsKind, mempool')
  BY <1>1, Appended DEF ToldInv
<1>7. \A a \in Accounts : \A i \in DOMAIN mempool[a] :
         <<mempool[a][i], tx>> \notin SameCall /\ <<tx, mempool[a][i]>> \notin SameCall
  <2>1. tx.kind = "launch" => ~OnWay(mempool, c)
    BY <1>4 DEF LaunchFits, AsKind, IsLaunch
  <2>2. QED
    BY <2>1 DEF SameCall, OnWay
<1>8. Lone(mempool', Accounts, SameCall)
  BY <1>1, <1>7, LoneAppended DEF ToldInv
<1>9. QED
  BY <1>2, <1>5, <1>6, <1>8, ToldHolds

LEMMA SendsTold ==
    ASSUME ToldInv, LaunchInv', NEW c \in Calls, SendApprove(c) \/ CrateSendApprove(c) \/ Send(c),
           ~UNCHANGED mempool
    PROVE  ToldInv'
<1>1. /\ plan \in Plans /\ quoted[c].fee \in Nat /\ gas[c] \in Nat
      /\ Request(c).kind \in {"launch", "collect"}
  BY RequestTypes DEF ToldInv, LaunchInv, Places, QuoteFields, Requests
<1>2. UNCHANGED <<plan, chain, receipts, result, failures>> /\ pc[c] \in Unsent
  BY DEF SendApprove, CrateSendApprove, Send, Unsent, Labels, Final
<1>3. CASE SendApprove(c) \/ CrateSendApprove(c)
  <2>1. Approval(c) \in Transactions /\ Approval(c).kind = "approve"
    <3>1. 0 \in Nat
      OBVIOUS
    <3>2. QED
      BY <1>1, <3>1, TransactionTypes
  <2>2. Approval(c).call = c
    BY DEF Approval
  <2>3. Approval(c) \in AsKind
    BY <2>1, <2>2 DEF AsKind
  <2>4. /\ Go(c, "awaitApprove")
        /\ mempool' = [mempool EXCEPT ![Request(c).from] = Append(@, Approval(c))]
    BY <1>3 DEF SendApprove, CrateSendApprove
  <2>5. QED
    BY <1>2, <2>1, <2>2, <2>3, <2>4, SentTold
<1>4. CASE Send(c)
  <2> DEFINE limit == CASE gas[c] # 0 -> gas[c]
                        [] gas[c] = 0 /\ Request(c).kind = "launch" -> Estimated
                        [] OTHER -> Unlimited
  <2>1. Estimated \in Nat
    BY Figures DEF Estimated, LaunchGasNeeded
  <2>2. limit \in Nat
    BY <1>1, <2>1 DEF Unlimited
  <2>3. /\ mempool' = [mempool EXCEPT ![Request(c).from] = Append(@, Transaction(c, limit))]
        /\ Go(c, "await")
    BY <1>4 DEF Send
  <2> HIDE DEF limit
  <2>4. /\ Transaction(c, limit) \in Transactions /\ Transaction(c, limit).call = c
        /\ Transaction(c, limit).kind = Request(c).kind
    BY <1>1, <2>2, TransactionTypes
  <2>5. Transaction(c, limit) \in AsKind /\ Transaction(c, limit).kind # "approve"
    BY <1>1, <2>4 DEF AsKind
  <2>6. QED
    BY <1>2, <2>3, <2>4, <2>5, SentTold
<1>5. QED
  BY <1>3, <1>4

\* A call ends by what its receipt says.
LEMMA AwaitsTold ==
    ASSUME ToldInv, LaunchInv', NEW c \in Calls, Await(c) \/ CrateAwait(c) PROVE ToldInv'
<1>1. /\ pc[c] = "await" /\ receipts[c].main.mined
      /\ UNCHANGED <<plan, chain, receipts, mempool, failures>>
  BY DEF Await, CrateAwait
<1>2. /\ DOMAIN result = Calls /\ failures \in Nat /\ NoReceipt.mined = FALSE
  BY DEF ToldInv, Filed, NoReceipt
<1>3. ASSUME IsLaunch(c)
      PROVE  /\ LaunchFits("await", OnWay(mempool, c), receipts[c].main, chain.curves[c],
                           result[c], failures)
             /\ ~OnWay(mempool, c)
             /\ receipts[c].main.curve.launched => receipts[c].main.ok
  BY <1>1, <1>2, <1>3 DEF ToldInv, CallFits, LaunchFits
<1>4. CASE Go(c, "failed") /\ UNCHANGED result
  <2>1. ASSUME IsLaunch(c)
        PROVE  LaunchFits("failed", OnWay(mempool, c), receipts[c].main, chain.curves[c],
                          result'[c], failures')
    <3>1. ~receipts[c].main.curve.launched
      <4>1. pc \in [Calls -> Labels]
        BY DEF ToldInv, LaunchInv, Places
      <4>2. ~Go(c, "done")
        BY <1>4, <4>1 DEF Go
      <4>3. QED
        BY <1>3, <2>1, <4>2 DEF Await, CrateAwait, IsLaunch
    <3>2. QED
      BY <1>3, <2>1, <3>1 DEF LaunchFits, Unsent, Final
  <2>2. QED
    BY <1>1, <1>2, <1>4, <2>1, OneTold
<1>5. CASE /\ Go(c, "done")
           /\ result' = [result EXCEPT ![c] = Report(c)] \/ result' = [result EXCEPT ![c] = LaunchResult(c)]
           /\ IsLaunch(c) => receipts[c].main.curve.launched
  <2>1. DOMAIN result' = Calls /\ \A d \in Calls \ {c} : result'[d] = result[d]
    BY <1>2, <1>5
  <2>2. Tells(result'[c], receipts[c].main.curve)
    <3>1. Tells(Report(c), receipts[c].main.curve)
      BY Zenon DEF Report, Tells
    <3>2. Tells(LaunchResult(c), receipts[c].main.curve)
      BY Zenon DEF LaunchResult, Tells
    <3>3. QED
      BY <1>2, <1>5, <3>1, <3>2
  <2>3. IsLaunch(c) => LaunchFits("done", OnWay(mempool, c), receipts[c].main, chain.curves[c],
                                  result'[c], failures')
    BY <1>3, <1>5, <2>2 DEF LaunchFits, Unsent, Final
  <2>4. QED
    BY <1>1, <1>2, <1>5, <2>1, <2>3, OneTold
<1>6. QED
  BY <1>4, <1>5 DEF Await, CrateAwait, IsLaunch

LEMMA RpcFailsTold ==
    ASSUME ToldInv, LaunchInv', NEW c \in Calls, RpcFails(c) PROVE ToldInv'
<1>1. /\ pc[c] \notin Final /\ failures' = failures + 1 /\ Go(c, "failed")
      /\ UNCHANGED <<plan, chain, receipts, mempool, result>>
  BY DEF RpcFails
<1>2. DOMAIN result = Calls /\ failures \in Nat /\ failures' \in Nat /\ failures' # 0
  BY <1>1 DEF ToldInv, Filed
<1>3. IsLaunch(c) => LaunchFits("failed", OnWay(mempool, c), receipts[c].main, chain.curves[c],
                                result'[c], failures')
  BY <1>1, <1>2 DEF ToldInv, CallFits, LaunchFits, Unsent, Final
<1>4. QED
  BY <1>1, <1>2, <1>3, OneTold

\* What the receipt of a mined transaction says of the curve.
LEMMA Received ==
    ASSUME NEW s, NEW e, NEW native, NEW tx \in Transactions,
           "curves" \in DOMAIN s, tx.call \in DOMAIN s.curves,
           NEW out, out = Outcome(s, e, native, tx)
    PROVE  /\ "curves" \in DOMAIN out.chain
           /\ tx.kind # "launch" => out.chain.curves = s.curves
           /\ tx.kind = "launch" =>
                \/ ~out.ok /\ out.curve = NoCurve /\ out.chain.curves = s.curves
                \/ /\ out.ok /\ out.chain.curves = [s.curves EXCEPT ![tx.call] = out.curve]
                   /\ DOMAIN out.curve = DOMAIN NoCurve
                   /\ out.curve.launched /\ ~out.curve.rescued
<1> DEFINE q == QuoteLaunch(e.template, tx.amount, e.fee)
           k == Deployed(e, native, tx, q)
<1>0. tx.kind \in {"launch", "collect", "approve"}
  BY DEF Transactions
<1>1. CASE tx.kind = "launch"
  <2>1. out = LaunchAtQuote(s, e, native, tx, q)
    BY <1>1 DEF Outcome, LaunchOutcome
  <2>2. CASE LaunchRefused(s, e, native, tx, q)
    BY <1>1, <2>1, <2>2 DEF LaunchAtQuote, Reverted
  <2>3. CASE ~LaunchRefused(s, e, native, tx, q)
    <3>1. out = [ ok |-> TRUE,
                  chain |-> [s EXCEPT !.accrued = @ + e.fee,
                               !.balance[tx.from] = @ - q.totalCost + Refund(e, tx),
                               !.allowance[tx.from] = IF native THEN @ ELSE @ - q.totalCost,
                               !.curves[tx.call] = k],
                  curve |-> k, pushed |-> 0 ]
      BY <2>1, <2>3 DEF LaunchAtQuote
    <3>2. DOMAIN k = DOMAIN NoCurve /\ k.launched = TRUE /\ k.rescued = FALSE
      BY DEF Deployed, NoCurve
    <3> HIDE DEF k, q
    <3>3. /\ out.ok = TRUE /\ out.curve = k
          /\ out.chain = [s EXCEPT !.accrued = @ + e.fee,
                               !.balance[tx.from] = @ - q.totalCost + Refund(e, tx),
                               !.allowance[tx.from] = IF native THEN @ ELSE @ - q.totalCost,
                               !.curves[tx.call] = k]
      BY <3>1
    <3>4. /\ "curves" \in DOMAIN out.chain
          /\ out.chain.curves = [s.curves EXCEPT ![tx.call] = k]
      BY <3>3
    <3>5. QED
      BY <1>1, <3>2, <3>3, <3>4
  <2>4. QED
    BY <2>2, <2>3
<1>2. CASE tx.kind = "collect"
  <2>1. \/ out.chain = s
        \/ out.chain = [s EXCEPT !.accrued = 0, !.pushed = @ + s.accrued]
    BY <1>2 DEF Outcome, CollectOutcome, Reverted
  <2>2. QED
    BY <1>2, <2>1
<1>3. CASE tx.kind = "approve"
  <2>1. \/ out.chain = s
        \/ out.chain = [s EXCEPT !.allowance[tx.from] = tx.amount]
    BY <1>3 DEF Outcome, ApproveOutcome, Reverted
  <2>2. QED
    BY <1>3, <2>1
<1>4. QED
  BY <1>0, <1>1, <1>2, <1>3

\* What is on its way after the first of an account is mined: nothing else of its launch.
LEMMA OnWayMined ==
    ASSUME ToldInv, NEW a \in Accounts, mempool[a] # <<>>
    PROVE  LET tx == Head(mempool[a])
               shorter == [mempool EXCEPT ![a] = Tail(@)]
           IN  /\ tx \in AsKind
               /\ tx.kind = "launch" => OnWay(mempool, tx.call) /\ ~OnWay(shorter, tx.call)
               /\ \A c : OnWay(shorter, c) => OnWay(mempool, c)
               /\ Sent(AsKind, shorter) /\ Lone(shorter, Accounts, SameCall)
<1> DEFINE tx == mempool[a][1]
           shorter == [mempool EXCEPT ![a] = Tail(@)]
<1>1. mempool \in [Accounts -> Seq(Transactions)] /\ Sent(AsKind, mempool)
  BY DEF ToldInv, LaunchInv, Places
<1>2. mempool[a] \in Seq(Transactions) /\ 1 \in DOMAIN mempool[a] /\ Head(mempool[a]) = tx
  BY <1>1
<1>3. tx \in AsKind /\ tx \in Transactions
  BY <1>1, <1>2 DEF Sent, AsKind
<1>4. shorter \in [Accounts -> Seq(Transactions)] /\ Sent(AsKind, shorter)
  BY <1>1, Removed
<1>5. /\ Lone(shorter, Accounts, SameCall)
      /\ \A b \in Accounts : \A j \in DOMAIN shorter[b] : <<tx, shorter[b][j]>> \notin SameCall
  BY <1>1, LoneRemoved DEF ToldInv
<1>6. \A b \in Accounts : \A i \in DOMAIN shorter[b] :
         \E j \in DOMAIN mempool[b] : shorter[b][i] = mempool[b][j]
  BY <1>1, PlaceRemoved
<1>7. \A b \in Accounts : \A i \in DOMAIN shorter[b] : shorter[b][i] \in Transactions
  BY <1>4 DEF Sent, AsKind
<1> HIDE DEF shorter
<1>8. \A c : OnWay(shorter, c) => OnWay(mempool, c)
  BY <1>6 DEF OnWay
<1>9. tx.kind = "launch" => OnWay(mempool, tx.call)
  BY <1>2 DEF OnWay
<1>10. tx.kind = "launch" => ~OnWay(shorter, tx.call)
  <2> SUFFICES ASSUME tx.kind = "launch", NEW b \in Accounts, NEW j \in DOMAIN shorter[b],
                      shorter[b][j].call = tx.call, shorter[b][j].kind = "launch"
               PROVE  FALSE
    BY DEF OnWay
  <2>1. <<tx, shorter[b][j]>> \in SameCall
    <3> DEFINE other == shorter[b][j]
    <3>1. other \in Transactions /\ other.call = tx.call /\ other.kind = "launch"
      BY <1>7
    <3> HIDE DEF other, tx
    <3>2. <<tx, other>> \in SameCall
      BY <1>3, <3>1 DEF SameCall
    <3>3. QED
      BY <3>2 DEF other
  <2>2. QED
    BY <1>5, <2>1
<1>11. QED
  BY <1>2, <1>3, <1>4, <1>5, <1>8, <1>9, <1>10 DEF shorter

LEMMA MineTold ==
    ASSUME ToldInv, LaunchInv', NEW a \in Accounts, Mine(a) PROVE ToldInv'
<1> DEFINE first == Head(mempool[a])
<1>1. PICK tx \in AsKind : tx = first
  BY OnWayMined DEF Mine
<1>2. PICK out : out = Outcome(chain, settings, Native, tx)
  OBVIOUS
<1> DEFINE receipt == [mined |-> TRUE, ok |-> out.ok, curve |-> out.curve]
<1>3. /\ mempool[a] # <<>> /\ chain' = out.chain
      /\ tx.kind = "approve" => receipts' = [receipts EXCEPT ![tx.call].approve = receipt]
      /\ tx.kind # "approve" => receipts' = [receipts EXCEPT ![tx.call].main = receipt]
      /\ mempool' = [mempool EXCEPT ![a] = Tail(@)]
      /\ UNCHANGED <<plan, pc, result, failures>>
  BY <1>1, <1>2 DEF Mine
<1>4. /\ tx.kind = "launch" => OnWay(mempool, tx.call) /\ ~OnWay(mempool', tx.call)
      /\ \A c : OnWay(mempool', c) => OnWay(mempool, c)
      /\ Sent(AsKind, mempool') /\ Lone(mempool', Accounts, SameCall)
  BY <1>1, <1>3, OnWayMined
<1>5. /\ tx \in Transactions /\ tx.call \in Calls
      /\ tx.kind # "approve" => tx.kind = Request(tx.call).kind
      /\ "curves" \in DOMAIN chain /\ DOMAIN chain.curves = Calls
      /\ DOMAIN receipts = Calls /\ \A c \in Calls : DOMAIN receipts[c] = {"approve", "main"}
      /\ \A c \in Calls : DOMAIN chain.curves[c] = DOMAIN NoCurve
      /\ DOMAIN result = Calls /\ failures \in Nat
  BY DEF AsKind, ToldInv, LaunchInv, Places, Filed
<1>6. /\ tx.kind # "launch" => chain'.curves = chain.curves
      /\ tx.kind = "launch" =>
                \/ ~out.ok /\ out.curve = NoCurve /\ chain'.curves = chain.curves
                \/ /\ out.ok /\ chain'.curves = [chain.curves EXCEPT ![tx.call] = out.curve]
                   /\ DOMAIN out.curve = DOMAIN NoCurve
                   /\ out.curve.launched /\ ~out.curve.rescued
  <2>1. /\ tx.kind # "launch" => out.chain.curves = chain.curves
        /\ tx.kind = "launch" =>
                \/ ~out.ok /\ out.curve = NoCurve /\ out.chain.curves = chain.curves
                \/ /\ out.ok /\ out.chain.curves = [chain.curves EXCEPT ![tx.call] = out.curve]
                   /\ DOMAIN out.curve = DOMAIN NoCurve
                   /\ out.curve.launched /\ ~out.curve.rescued
    <3>1. tx \in Transactions /\ "curves" \in DOMAIN chain /\ tx.call \in DOMAIN chain.curves
      BY <1>5
    <3>2. QED
      BY <1>2, <3>1, Received
  <2>2. QED
    BY <1>3, <2>1
<1>7. /\ receipt.ok = out.ok /\ receipt.curve = out.curve
  OBVIOUS
<1> HIDE DEF receipt, first
<1>8. /\ DOMAIN receipts' = Calls /\ \A c \in Calls : DOMAIN receipts'[c] = {"approve", "main"}
      /\ \A c \in Calls : IsLaunch(c) /\ (c # tx.call \/ tx.kind # "launch") =>
             receipts'[c].main = receipts[c].main
      /\ tx.kind = "launch" => receipts'[tx.call].main = receipt
  <2>1. CASE tx.kind = "approve"
    BY <1>3, <1>5, <2>1
  <2>2. CASE tx.kind # "approve"
    BY <1>3, <1>5, <2>2 DEF IsLaunch
  <2>3. QED
    BY <2>1, <2>2
<1>9. /\ \A c \in Calls : DOMAIN chain'.curves[c] = DOMAIN NoCurve
      /\ \A c \in Calls : c # tx.call \/ tx.kind # "launch" => chain'.curves[c] = chain.curves[c]
  BY <1>5, <1>6
<1>10. Filed'
  BY <1>3, <1>5, <1>8, <1>9, KindsSame DEF Filed
<1>11. ASSUME NEW c \in Calls, IsLaunch(c)
       PROVE  LaunchFits(pc'[c], OnWay(mempool', c), receipts'[c].main, chain'.curves[c],
                         result'[c], failures')
  <2>1. LaunchFits(pc[c], OnWay(mempool, c), receipts[c].main, chain.curves[c], result[c],
                   failures)
    BY <1>11 DEF ToldInv, CallFits
  <2>2. CASE c # tx.call \/ tx.kind # "launch"
    <3>1. /\ receipts'[c].main = receipts[c].main /\ chain'.curves[c] = chain.curves[c]
          /\ OnWay(mempool', c) => OnWay(mempool, c)
          /\ pc' = pc /\ result' = result /\ failures' = failures
      BY <1>3, <1>4, <1>8, <1>9, <1>11, <2>2
    <3>2. LaunchFits(pc[c], OnWay(mempool', c), receipts[c].main, chain.curves[c], result[c],
                     failures)
      BY <2>1, <3>1 DEF LaunchFits
    <3>3. QED
      BY <3>1, <3>2
  <2>3. CASE c = tx.call /\ tx.kind = "launch"
    <3>1. /\ receipts'[c].main = receipt /\ ~OnWay(mempool', c)
          /\ pc' = pc /\ failures' = failures
      BY <1>3, <1>4, <1>8, <2>3
    <3>2. /\ receipts[c].main = NoReceipt /\ pc[c] \notin Unsent
          /\ ~(pc[c] = "failed" /\ failures = 0)
          /\ IsAsReceived(chain.curves[c], NoCurve)
      BY <1>4, <2>1, <2>3 DEF LaunchFits, NoReceipt
    <3>3. pc[c] # "done"
      <4>1. ~NoReceipt.curve.launched
        BY DEF NoReceipt, NoCurve
      <4>2. QED
        BY <2>1, <3>2, <4>1 DEF LaunchFits
    <3>4. IsAsReceived(chain'.curves[c], out.curve) /\ (out.curve.launched => out.ok)
      <4>1. CASE ~out.ok /\ out.curve = NoCurve /\ chain'.curves = chain.curves
        <5>1. ~NoCurve.launched
          BY DEF NoCurve
        <5>2. QED
          BY <3>2, <4>1, <5>1
      <4>2. ASSUME out.ok, ~out.curve.rescued,
                   chain'.curves = [chain.curves EXCEPT ![tx.call] = out.curve]
            PROVE  IsAsReceived(chain'.curves[c], out.curve) /\ (out.curve.launched => out.ok)
        <5>1. chain'.curves[c] = out.curve
          BY <1>5, <2>3, <4>2
        <5>2. QED
          BY <4>2, <5>1 DEF IsAsReceived
      <4>3. QED
        BY <1>6, <2>3, <4>1, <4>2
    <3>5. LaunchFits(pc[c], OnWay(mempool', c), receipt, chain'.curves[c], result'[c], failures)
      BY <1>7, <3>1, <3>2, <3>3, <3>4 DEF LaunchFits
    <3>6. QED
      BY <3>1, <3>5
  <2>4. QED
    BY <2>2, <2>3
<1>12. QED
  BY <1>3, <1>4, <1>10, <1>11, ToldHolds

\* Somebody else's migration leaves what a launch told of its own transaction true.
LEMMA RescueTold ==
    ASSUME ToldInv, LaunchInv', NEW c \in Calls, Rescue(c) PROVE ToldInv'
<1>1. /\ chain.curves[c].graduated /\ ~chain.curves[c].migrated
      /\ chain' = [chain EXCEPT !.curves[c].migrated = TRUE, !.curves[c].rescued = TRUE]
      /\ UNCHANGED <<plan, mempool, receipts, pc, result, failures>>
  BY DEF Rescue
<1>2. /\ "curves" \in DOMAIN chain /\ DOMAIN chain.curves = Calls
      /\ DOMAIN chain.curves[c] = DOMAIN NoCurve
      /\ {"launched", "tokens", "graduated", "migrated", "rescued"} \subseteq DOMAIN NoCurve
  BY DEF ToldInv, LaunchInv, Places, Filed, NoCurve
<1>3. /\ chain'.curves[c].launched = chain.curves[c].launched
      /\ chain'.curves[c].tokens = chain.curves[c].tokens
      /\ chain'.curves[c].graduated = chain.curves[c].graduated
      /\ chain'.curves[c].rescued = TRUE
      /\ DOMAIN chain'.curves[c] = DOMAIN NoCurve
      /\ \A d \in Calls \ {c} : chain'.curves[d] = chain.curves[d]
  BY <1>1, <1>2
<1>4. Filed'
  BY <1>1, <1>3, KindsSame DEF ToldInv, Filed
<1>5. ASSUME NEW d \in Calls, IsLaunch(d)
      PROVE  LaunchFits(pc'[d], OnWay(mempool', d), receipts'[d].main, chain'.curves[d],
                        result'[d], failures')
  <2>1. /\ LaunchFits(pc[d], OnWay(mempool, d), receipts[d].main, chain.curves[d], result[d],
                      failures)
        /\ pc' = pc /\ mempool' = mempool /\ receipts' = receipts /\ result' = result
        /\ failures' = failures
    BY <1>1, <1>5 DEF ToldInv, CallFits
  <2>2. IsAsReceived(chain'.curves[d], receipts[d].main.curve)
    <3>1. IsAsReceived(chain.curves[d], receipts[d].main.curve)
      BY <2>1 DEF LaunchFits
    <3>2. CASE d = c
      BY <1>1, <1>3, <3>1, <3>2 DEF IsAsReceived
    <3>3. CASE d # c
      BY <1>3, <3>1, <3>3
    <3>4. QED
      BY <3>2, <3>3
  <2>3. LaunchFits(pc[d], OnWay(mempool, d), receipts[d].main, chain'.curves[d], result[d],
                   failures)
    BY <2>1, <2>2 DEF LaunchFits
  <2>4. QED
    BY <2>1, <2>3
<1>6. Sent(AsKind, mempool') /\ Lone(mempool', Accounts, SameCall)
  BY <1>1 DEF ToldInv
<1>7. QED
  BY <1>1, <1>4, <1>5, <1>6, ToldHolds

LEMMA OthersTold ==
    ASSUME ToldInv, LaunchInv', UNCHANGED <<plan, chain, mempool, receipts, pc, result, failures>>
    PROVE  ToldInv'
<1>1. Filed'
  BY KindsSame DEF ToldInv, Filed
<1>2. ASSUME NEW d \in Calls, IsLaunch(d)
      PROVE  LaunchFits(pc'[d], OnWay(mempool', d), receipts'[d].main, chain'.curves[d],
                        result'[d], failures')
  BY <1>2 DEF ToldInv, CallFits
<1>3. QED
  BY <1>1, <1>2, ToldHolds DEF ToldInv

LEMMA InitTold == Init => ToldInv
<1> SUFFICES ASSUME Init PROVE ToldInv
  OBVIOUS
<1>1. LaunchInv
  BY Initially
<1>2. /\ receipts = [c \in Calls |-> [approve |-> NoReceipt, main |-> NoReceipt]]
      /\ pc = [c \in Calls |-> "idle"] /\ result = [c \in Calls |-> NoResult] /\ failures = 0
      /\ mempool = [a \in Accounts |-> <<>>]
      /\ \A c \in Calls : chain.curves[c] = NoCurve
  BY DEF Init
<1>3. Filed
  BY <1>2 DEF Filed
<1>4. /\ Sent(AsKind, mempool) /\ Lone(mempool, Accounts, SameCall)
      /\ \A c \in Calls : ~OnWay(mempool, c)
  BY <1>2 DEF Sent, Lone, OnWay
<1>5. ASSUME NEW c \in Calls PROVE CallFits(c)
  <2>1. /\ pc[c] = "idle" /\ receipts[c].main = NoReceipt /\ chain.curves[c] = NoCurve
        /\ ~OnWay(mempool, c)
    BY <1>2, <1>4
  <2>2. NoReceipt.curve = NoCurve /\ ~NoCurve.launched /\ IsAsReceived(NoCurve, NoCurve)
    BY DEF NoReceipt, NoCurve, IsAsReceived
  <2>3. LaunchFits("idle", OnWay(mempool, c), NoReceipt, NoCurve, result[c], failures)
    BY <2>1, <2>2 DEF LaunchFits
  <2>4. QED
    BY <2>1, <2>3 DEF CallFits
<1>6. QED
  BY <1>1, <1>3, <1>4, <1>5 DEF ToldInv

LEMMA NextTold == ToldInv /\ [Next]_vars => ToldInv'
<1> SUFFICES ASSUME ToldInv, [Next]_vars PROVE ToldInv'
  OBVIOUS
<1>0. LaunchInv' /\ Of("ts") \subseteq Calls /\ Of("crate") \subseteq Calls
  BY Always DEF ToldInv, Of
<1>1. ASSUME NEW c \in Calls, Step(c) \/ CrateStep(c) PROVE ToldInv'
  BY <1>0, <1>1, StepsTold, SendsTold, AwaitsTold DEF Step, CrateStep
<1>2. ASSUME NEW c \in Calls, RpcFails(c) PROVE ToldInv'
  BY <1>0, <1>2, RpcFailsTold
<1>3. ASSUME NEW c \in Calls, Rescue(c) PROVE ToldInv'
  BY <1>0, <1>3, RescueTold
<1>4. ASSUME NEW a \in Accounts, Mine(a) PROVE ToldInv'
  BY <1>0, <1>4, MineTold
<1>5. CASE SettingsChange
  BY <1>0, <1>5, OthersTold DEF SettingsChange
<1>6. CASE UNCHANGED vars
  BY <1>0, <1>6, OthersTold DEF vars
<1>7. QED
  BY <1>0, <1>1, <1>2, <1>3, <1>4, <1>5, <1>6 DEF Next

\* A launch that returns tells what its own transaction did, though strangers migrate
\* the curve meanwhile, and one that throws while every RPC answers has launched
\* nothing: it is sent once, and ends only by its own receipt.
THEOREM LaunchesAreTold == Spec => []LaunchesToldTrue
<1>1. ToldInv => LaunchesToldTrue
  <2> SUFFICES ASSUME ToldInv, NEW c \in Calls, IsLaunch(c)
               PROVE  /\ pc[c] = "done" =>
                           /\ chain.curves[c].launched
                           /\ result[c].tokens = chain.curves[c].tokens
                           /\ result[c].graduated <=> chain.curves[c].graduated
                           /\ result[c].migrated <=>
                                chain.curves[c].migrated /\ ~chain.curves[c].rescued
                           /\ result[c].migrationFailed <=>
                                /\ chain.curves[c].graduated
                                /\ chain.curves[c].migrated => chain.curves[c].rescued
                      /\ pc[c] = "failed" /\ failures = 0 => ~chain.curves[c].launched
    BY DEF LaunchesToldTrue, IsLaunch
  <2>1. LaunchFits(pc[c], OnWay(mempool, c), receipts[c].main, chain.curves[c], result[c],
                   failures)
    BY DEF ToldInv, CallFits
  <2>2. QED
    BY <2>1 DEF LaunchFits, IsAsReceived, Tells
<1>2. QED
  BY InitTold, NextTold, <1>1, PTL DEF Spec
=============================================================================
