# A verification project for the arcnow.io SDK

TLA+ modules that model the parts of the SDK that can go wrong, TLC runs that
check them on small instances, and theorems that TLAPS proves for all instances.

The SDK is a client. It prices a bonding curve locally, and it drives contracts it
does not contain: it reads, simulates, estimates, signs, waits and reports. What is
hard about it is (a) integer rounding, whose errors would add up over the life of a
curve, and (b) that every step of a call sees the chain as it is at that step, while
other calls of the same account, other accounts, the quote's issuer and the migrator
all move it.

The TypeScript package (`src/typescript/src`) is the reference; every line number
below is in it unless a path says otherwise. The Rust crate is a second
implementation of the same client.

## 1. Inventory

| Component | State it keeps | Operations | What makes it correct |
|---|---|---|---|
| **Curve pricing**, `curve-math.ts` | none (pure), but its answers are the next trade's inputs | `quoteBuy`, `quoteSell`, `quoteLaunch`, `progressBps`, the primitives and their inverses | holders can always leave; the target is collected exactly; nobody gains by rounding; the inverses are least |
| **Curve handle**, `curve.ts` | caches of the version and the quote token | `state`, quotes, `buy`, `sell`, `migrate`, `withdraw`, `pendingWithdrawal` | a result says what the transaction did; a throw means nothing was traded; a graduated curve is migrated in the end |
| **Quote token**, `quote-token.ts` | the allowance (on chain); a process-wide metadata cache | `approve`, `ensureAllowance`, `allowanceOverride`, gas headroom, `spendState` | approves are exact; a spend's gas covers the fee pushes; cached metadata labels nothing with wrong decimals |
| **Launchpad**, `launchpad.ts` | a version cache | `quoteLaunch`, `launch`, `collectLaunchFees` | never charged above the cap; a graduating launch carries gas for its migration |
| **Curve template**, `curve-template.ts` | none | encode, decode, supply checks | `r0`, `y0`, supply and target fit each other |
| **Trade**, `trade.ts` | the settled venue, the curve | `venue`, `quoteBuy/Sell`, `buy`, `sell` | never settles on a venue that can change; refuses options the venue lacks; who tries again gets to trade |
| **Pool**, `pool.ts`, `fees.ts` | key, id, migrator, version caches; accrued hook fees (on chain) | swaps, fills read from receipts, `approveRouter`, `distributeHookFees` | the fill is the trader's own leg; a quote tells what the swap would have moved; a swap that throws has not happened |
| **Client**, `client.ts` | the chain-id check, the multicall address | `create`, `assertChain`, `requireSigner` | one failure is not remembered; what was read is not forgotten |
| **Amounts**, `amounts.ts`, `slippage.ts`, `deadline.ts` | none | parse, format, scale, floors, deadlines | a floor lets exactly the right payouts through; what is shown reads back; dust is refused and not dropped |
| **Registries**, `platform-registry.ts`, `migrator-registry.ts`, `quote-registry.ts` | none | paged reads, single writes | every entry has its own record and metadata; the registry's order |
| **Errors**, `errors/*`; **versions**, `curve-version.ts` | none | unwrapping and classifying what viem throws; parsing versions | the blame falls on what really refused |
| **Token**, `token.ts`; **networks**, `networks.ts`; generated ABIs | none | reads, data | |
| **Rust crate**, `src/rust/src` | the same, with values cached and no reads shared | the same | as above; prices as the TypeScript client does; survives a nonce handed out twice |

**How they interact.** `Trade` picks `Curve` or `Pool`. `Curve.buy` in an ERC-20
quote calls `QuoteToken.ensureAllowance`, which calls back `Curve`'s preflight before
it pays for an approve; `Launchpad.launch` and `Pool.buy` do the same. All of them go
through `ClientContext` for the chain check, the signer and the RPCs. They meet on the
chain: allowances, the curve's position, its graduation, credits that could not be
paid, the block time. Inside the process they meet only in the promise caches.

**Hard behaviours.** Calls interleave at every `await`; approves overwrite one
another; a transaction is simulated at one state and mined at another; a receipt can
be a reverted one, or never be seen; the graduating buy's own migration can be starved
of gas without an error; the migrator can break and be mended; a payout can bounce
into a credit; several reads that make up one answer can land on different blocks.
`PROJECT.json` lists these under `hazards`, each at its line, with the properties that
cover it.

## 2. What is modelled

```
BasisPoints, HookFees                 the denominators and the hook's fee
U256                                  the width of the chain's integers
CurveMath                             the integer functions of curve-math.ts
  |-- BondingCurve                    one curve over its whole life     (abstract)
  |     |-- CurveInverses             "how much must I give for ...", at each position
  |     `-- CratePricing              curve_math.rs (CrateMath) against curve-math.ts
  |-- CurveChain                      what a transaction does           (external)
  |     `-- CurveCalls                the TypeScript calls, concurrently; uses GasHeadroom
  |           `-- CrateCalls          the crate's calls and nonces, on the same state;
  |                 |                 uses CrateGas
  |                 `-- CurveClients  either client (detailed); implements
  |                                   TradeOutcomes, a trade as promised (abstract)
  |-- LaunchChain                     what a launch does                (external)
  |     `-- Launches -- CrateLaunches -- LaunchClients
  `-- Views -- CrateViews -- ViewClients
PoolChain                             the pool, its hook, a moving market (external)
  `-- PoolTrades -- CratePool -- PoolClients
Amounts -- AmountUse -- CrateAmounts  amounts brought through conversions
Errors -- ReadCaches                  what is thrown; the promises that calls share
```

Where both clients do the same thing to the same chain there are three modules: the
TypeScript client's steps, the crate's steps on the same state, and a module
(`...Clients`) whose next-state relation has calls of both side by side, and which states
what either may be relied on for.

**`CurveMath`** has one operator per function of `curve-math.ts`, with its rounding.
Values are mathematical integers, as the source's bigints are; where the source throws (a
result outside `0..U256Max`, a zero reserve, a division by zero), `BuyReverts`,
`SellReverts` and `LaunchReverts` are true. `Wad` and `U256Max` (of `U256`, which amounts
use too) are constants.

**`BondingCurve`** is the specification a trader relies on. A state is a curve's
immutable figures, its stored virtual reserve, the tokens sold, whether it has
graduated, and the quote that trades have put in less what they took out. `Buy` and
`Sell` settle at `QuoteBuy` and `QuoteSell` of the position they find: `curve.ts`
states of the quote that "the same code path settles the buy". A curve is one that
`curve-template.ts` calls placed: selling the whole supply collects the target.
**`CurveInverses`** states of the four inverse functions, at every position such a curve
comes to, that they return the least number for which the forward function does what was
asked. **`CrateMath`** is `curve_math.rs` with its own order of operations, each result
checked against 256 bits; **`CratePricing`** asks both implementations for the same
snapshot, also one that no curve comes to.

**`CurveChain`** is the part that is not in the repository, modelled from how the SDK
uses it: the reverts `errors/messages.ts` names, the events `curve.ts` looks for, a
blocked account's credit, the gas guard of the fee pushes that `quote-token.ts:82`
describes, the bounded and caught migration attempt of the graduating buy. `Outcome`
gives for a transaction and a state whether it reverts, the state after it and the
events. The same operator answers an `eth_call`, an estimate and a mined transaction,
at whatever state each of these sees.

**`CurveCalls`** is the code of the four calls, one action for each stretch between
two awaits. A plan says which calls are made. The order of the steps is the source's:

| Action | Code |
|---|---|
| `Start` | the argument checks (`curve.ts:571-598`, `773-786`) |
| `ReadAllowance`, `Preflight` | `ensureAllowance` (`quote-token.ts:408-424`), `preflightBuyWithQuote` (`curve.ts:719-744`) |
| `SimulateApprove`, `SendApprove`, `AwaitApprove` | `approve` (`quote-token.ts:367-396`) |
| `Estimate` | `estimateContractGas` and the headroom (`curve.ts:635-640`, `797-804`) |
| `Simulate`, `Send`, `Await` | `simulateContract`, `writeContract`, `waitForTransactionReceipt` and the logs |
| `RpcFails` | any RPC of a call fails or times out, also the wait for a receipt |
| `AnswerLost` | what is sent arrives, and the answer to the sending does not |
| `CallAgain` | `migrate()` called again, as its doc invites anyone to |
| `Mine` | an account's next transaction is mined, in nonce order |
| `WorldChanges` | the deadline passes, an account is blocked or unblocked, the migrator breaks or is mended, fee pushes need more gas or less |

Abstracted: the caches (they are in `ReadCaches`; here every version and quote is the
expected one), prices and addresses in results, the referrer, and the numeric gas of a
migrate and a withdraw, which forward all there is.

**`CrateCalls`** is the same of `curve.rs`, on the state of `CurveCalls` and for its
requests, with the nonces beside it. Nothing is simulated before it is sent: the provider's
fillers ask for the account's nonce (`FillNonce`) and for an estimate (`FillGas`), in either
order; `Broadcast` is refused under a nonce that was mined, and under one that is taken it is
refused or replaces what is there (`Under`); and `CrateMine` takes whatever has the account's
next nonce. `CrateAwait` looks at the receipt's status. Abstracted: that gas figures saturate
at 64 bits.

**`CurveClients`** lets a plan be of either client, on one chain, and says under which
fairness it runs. **`TradeOutcomes`** is the abstract specification of a trade as its caller
sees it, with no chain, no steps and no nonces: it is open, and ends `done`, `failed` or
`lost`; it happens once at most; a call that is done tells what happened; one that failed
has done nothing and never will; and one is lost, so that its caller can tell neither,
only by an RPC that failed. `CurveClients` maps the receipts of each buy and sell to what
happened and its result to what was told, and `KeepsPromise` is that it implements this.

**`LaunchChain`** is what a launch meets: the launchpad's accrued fees, the quote's
balances and allowances, and a curve for each launch. `LaunchOutcome` buys at
`QuoteBuy` of the platform's template as it is when the launch is mined, and refuses
for the reasons `errors/messages.ts` lists: a fee above the maximum, a payment that is
not exact, too few tokens out.

**`Launches`** is the code of `launch` and `collectLaunchFees`, again one action per
stretch between two awaits:

| Action | Code |
|---|---|
| `Start` | the argument checks (`launchpad.ts:404-413`, `539-542`) |
| `ReadQuote` | `quoteLaunch`'s call of the launchpad (`225-240`) |
| `ReadTemplate` | `wouldGraduate`, the rest of the quote, and `resolveLaunchGas` (`331-348`, `241-251`, `102-124`) |
| `ReadAllowance`, `Preflight`, `SimulateApprove`, `SendApprove`, `AwaitApprove` | `ensureAllowance` with `preflightLaunch` before the approve (`281-300`, `423-429`) |
| `SettleGas` | `sendGas` (`441-454`) |
| `Simulate`, `Send`, `Await` | `simulateContract`, `writeContract`, the receipt, its `Launched` log and the result (`455-524`) |
| `RpcFails`, `Mine` | as in `CurveCalls` |
| `Rescue` | a stranger migrates a curve that graduated and was not migrated |
| `SettingsChange` | the fee, the template, the migrator, the blocklist or the pushes change |

**`CrateLaunches`** has what `launchpad.rs` does otherwise: `QuoteAndLimit` reads fee,
template and quote in one batch, so of one block; `Erc20LaunchGas` estimates and the
launch is sent without a simulation; `CrateAwait` refuses a reverted receipt. The
allowance, the preflight and the wait for the approve are `Launches`' own actions.
Abstracted in both: names, symbols, metadata and addresses; the version checks of
launchpad and platform.

**`PoolChain`** is the market of a token after graduation, and before: the phase it is
in, what the accounts hold, the fee the hook has charged and not paid out, a rate, and the
depth of the pool. `Outcome` again answers calls, estimates and transactions alike; what
a swap moves is both legs of the trader, the fee, the fees of earlier swaps it pays
out, and the logs among which the client must find its own.

**`PoolTrades`** is the code of `Trade` (`trade.ts`) and `Pool` (`pool.ts`):

| Action | Code |
|---|---|
| `Start` | the argument checks, `refuseCurveOnly` and `refusePoolOnly` where no read comes first |
| `Venue`, `CurveQuote` | `Trade.venue`, and what it refuses or hands to the curve |
| `Reach`, `PoolId` | the pool's key, migrator and id, read and kept by the handle |
| `Quote` | the simulated swap, its packed delta and the derived fee |
| `ReadAllowance`, `ReadTokenAllowance`, `Preflight`, `SendApprove`, `AwaitApprove` | `ensureAllowance` for a buy in an ERC-20; `approveRouter` for a sell |
| `Estimate`, `Simulate`, `Send`, `Await` | the swap and its fill, read from the receipt |
| `Accrued` | `accruedHookFee` |
| `RpcFails`, `CallAgain`, `Mine` | as above; a caller who tries again |
| `Graduate`, `Migrate`, `Dust`, `WorldChanges` | the token moves; a stranger's swap leaves a fee; the rate, the time and the recipients change |

The packed delta is split with its signs as in the source, on words of a small width.
**`CratePool`** is `pool.rs`: a caller settles on a venue first and builds a request for
it (`Choose`), the venue is read afresh for each trade (`CrateVenue`) and a request for
the other one refused, nothing is simulated before it is sent, and the receipt's status
is looked at. The nonces the crate is handed are in `CrateCalls`.

**`Amounts`** has the conversions of `amounts.ts`, `slippage.ts` and the fee helpers:
wads against raw units, both roundings, shares, floors, decimal texts both ways.
**`AmountUse`** holds one amount and brings it through them in any order.
**`CrateAmounts`** has the same functions of `amount.rs` in 256 bits.

**`Errors`** classifies what is thrown (`errors/map.ts`): transport failures, missing
data, and reverts inside any number of `WrappedError` layers. **`ReadCaches`** is the
promises that calls share: a memo holds a read, which is pending, answered or failed;
calls join it, attach handlers to it and evict it. Actions: `Start`, `Ask` (join or
begin a read), `ReadAnswers`, `ReadFails`, `QuoteLabelled`, `LateHandler` (an eviction
that runs after others have gone on), `Resume`, `RpcAnswers`, `RpcFails`.

**`Views`** is one call that takes several reads while the chain moves: a curve's state
and the local quotes made of it (`curve.ts`), `spendState` with a spender, a platform's
settings, and the lists of quotes and migrators, page by page. A batch is answered at
one moment (`AnswerBatch`), parallel reads in any order (`ReadAnswers`). The chain moves
only in what the call reads (`ChainMoves`): anything else cannot be told apart. Versions
that are asked first are in `ReadCaches`. **`CrateViews`** is the crate's way: always a
batch for states, spend states and quotes (with each entry's metadata right after it),
one awaited read after another for migrators, the deregistered ones left out.
A call may begin at any chain in `Moment` whose curve is where trades bring one
(`OnCurve`: what `BondingCurveProofs` shows of every reachable position), and its runs
at four of them.

## 3. What the runs check

| Run | Question | Properties |
|---|---|---|
| `curve_trading` | What can rounding do over a curve's life? | `ExitCovered`: the quote held covers buying back every token sold. `CollectsTarget`: a graduated curve has collected its target to the wei. `NeverStuck`: a live curve can be bought. `QuotesNeverRevert`: no quote of a live curve trips checked arithmetic. `RoundTripLoses`, `SplittingNeverHelps`: no gain from a round trip or from splitting, and a refund would not have bought a token more. `InversesLeast`: the four inverses return the least that will do. `CrateAgrees`: the crate refuses the same trades and prices the others alike. |
| `curve_calls` | Are concurrent calls of either client safe, and do they end? | `KeepsPromise`: trades implement `TradeOutcomes`, so that none happens twice, is told as another, or is told to have failed and happens. `ReportsTrue`: what the results say adds up to what the accounts hold. `MigrationsTold`: a migration is told by the call that made it, and no other. `ThrowsMeanNoTrade`: a trade that throws has not happened and will not, unless it is lost. `ExposureBounded`: what the curve pulled and may still pull is no more than was approved. `FeePushesHaveGas`: every ERC-20 trade on its way carries the gas its fee pushes may come to need. `ChosenGasMigrates`: a caller's gas limit with room for the migration reaches the transaction. `CallsTold`: what the crate returns is what its own transaction did, also when two calls were handed one nonce. `CallsEnd`, `WritesEnd`: every call ends, of the crate also when two were handed one nonce. `NeverStranded`: a graduated curve that somebody keeps migrating is migrated, if the migrator works from some time on. |
| `launches` | Does what was quoted bind what is launched, by either client? | `NeverOvercharged`: no launch pays more fee than the caller's cap or the quote. `GraduationForeseen`: while the template stays, the quote tells exactly whether the launch graduates. `ForeseenGraduationMigrates`: one that was quoted to graduate, and does, migrates in its own transaction, unless the caller chose the limit and it is below what a migration takes. `LaunchPushesHaveGas`: every ERC-20 launch on its way has gas for the fee pushes. `LaunchesToldTrue`: a result says what its own transaction did, and as long as RPCs answer a launch that throws has not happened. |
| `pool_trades` | What can go wrong while a token moves from its curve to its pool? | `FillsTold`: what a trade reports is what its own transaction moved, without others' swaps and earlier fees, and so is what a distribution does that read the pool's id once there was one. `QuotesTold`: a quote tells both legs as the swap would have moved them, and the fee to a raw unit. `ThrowsMeanNoTrade`: a trade that throws by itself has not happened. `PoolPushesHaveGas`: a swap on its way can pay out a fee that was not there when it was estimated. `OptionsHonoured`: what only one venue can do is done or refused. `RetriesTrade`: who tries again gets to trade. |
| `amounts` | What do conversions in any order do to an amount? | `TextRoundTrip`: what is shown reads back, or is refused. `FloorsHold`: the raw floor lets exactly the payouts through that the wad floor would. `FeesRecovered`: a fee derived from a payout is the hook's to the one unit that `pool.ts:279` asks callers to tolerate, and a payout derived from a fee is at most 124 units short, as line 298 says. `ClientsAgree`: the crate makes the same of every amount, text and share, or refuses. |
| `read_caches` | What can callers of one cached read do to each other? | `NothingForgotten`: no eviction takes the place of an answer. `FailuresAreFresh`: nobody is handed a failure that was over before they asked. `BlameIsTrue`: an error blames what really refused. `ScaledRight`: an amount is scaled by its own token's decimals, whoever filled the cache. |
| `views` | Does an answer made of several reads say what was true? | `ViewsTrue`: a batched state, and each quote priced from it, is the chain's at one moment of the call. `ListsExact`: every entry has its own record and metadata, in the registry's order, complete; the crate's list has those that stayed registered, and a reachability that no failed read made up. |
| `withdraws_paid`, `allowance_held`, `chain_asked`, `venue_reachable`, `distributions_told` | Do five documented claims hold? | `WithdrawsPaid`, `AllowanceHeld`, `ChainIsAsked`, `ReachableIsTrue`, `DistributionsTold` are violated, see section 6 |

**Bounds.** `MCBondingCurve` (683 states): four curves - a steep one, two on which one
unit of quote buys several tokens (on the shorter of them the last buy could afford more
than is left, the case `curve-math.ts:279` caps), and one with a fee of a quarter - with
buys of every size up to past the whole curve and sells of every size. Amounts this
small make rounding errors as large as they can be in proportion. There is no bound on
the number of trades: the state space is finite and is explored whole. The snapshots for
`CrateAgrees` also have other supplies, targets and fees, and sizes of the width's end.

`MCCurveCalls` (64,176 states): eight plans of the TypeScript client and six of the
crate, of two or three calls by two accounts, in both kinds of quote, each around one
thing that can happen (two buys of one account approving; a graduating buy racing another;
a sell between two buys with a blocked account and a deadline; a credit withdrawn twice; a
sell racing the end of trading; a graduation whose migrator is broken; ...), one RPC that
fails or whose answer is lost (`MaxFailures`), and every interleaving. Two calls of one
account and one of another are what the races need: an approve can only be disturbed by
the same account, and a position by anyone. The gas figures are the source's (111,587 for
a push, 150,000 and a fifth as headroom). None of the crate's plans asks to trade nothing,
which the chain alone refuses.

`MCLaunches` (232,956): seven plans of the TypeScript client and five of the crate, of one
to three calls by two accounts, each with the settings that may change in it, two fees,
and two templates of one curve of which the smaller graduates with buys the larger does
not, so that a template changed between the quote's two reads, or after them, turns the
prediction either way. Callers' gas limits lie below the floor, on it and above; one
first buy is so large that its fee overflows; one cap lies above the quoted fee. The gas
figures are the source's and its tests': the floor is 6,200,000, the graduation limit
8,000,000, and a graduating launch migrates from 6,250,147 on, one more than the limit
that `types.ts:124-125` saw starve. That lies above the floor, so that the plans have a
limit which the clients accept and which does not migrate.

`MCPoolTrades` (47,071): plans of up to three calls by two accounts, for both clients, in
both orders of the currencies, both kinds of quote, on the curve and in the pool, in a
deep pool and one that fills neither side, with referrers, recipients, limits and
deadlines. Amounts lie around 125 raw units, the least that pays a fee; one client per
account, since a handle belongs to one. `MCReadCaches` (694,763): plans of two or three
calls that share what they can share, of an address that holds a curve, an old one, a
token, something else or nothing, and metadata whose four sources agree or do not; one
transport failure; wrapped reverts up to one layer past the sixteen that `map.ts`
unwraps. `MCAmounts` (10,408): quotes of different decimals, texts with more digits than
either, amounts on and beside the raw grid. `MCViews` (209,734): two moves of the chain
and one failure during a call, of lists of up to three quotes and four migrators, and of
a curve at its start, half sold, one buy from graduating and graduated.

**Fairness.** `curve_calls` and `pool_trades` run under `FairSpec`. A call
goes on when its RPC answers: JavaScript resumes a settled promise, a Rust future is
polled, and the RPCs have timeouts, whose expiry is `RpcFails`. An account's next
transaction is mined sooner or later; for the crate, one that has the next nonce. Who
tries again does not stop trying: the doc of `migrate` (`curve.ts:841-850`) gives this as
the retry path, and `RetriesTrade` is about callers who do. A graduated curve is migrated
in the end, which is what `NeverStranded` shows under the assumption it names: that the
migrator works from some time on. Fairness is put on the change of the few variables that
a step certainly changes, so that it does not depend on what a transaction would do.
`CHECK_DEADLOCK` is off because plans end, and a graduated curve trades no more.

## 4. What is proved

For every value of the constants, subject to the named assumptions: `CurvesAssumption`
(curves are placed), `SizesAssumption`, `AskedAssumption`, `U256Assumption` (256 bits have
room for the program's amounts, times any share it takes of them; its texts may not fit),
`RoomAssumption` (256 bits have room for a curve's whole life priced in wads, and for
every buy in basis points: the code checks each operation and this says what the checks
amount to; `Views` has one of the same name for the one curve it looks at),
`ViewsAssumption` and `CratePlansAssumption` (what is asked, and of which chains),
`OddAssumption` (a snapshot's figures are of 256 bits, and its fee is at most the whole),
`ChainAssumption` (finitely many accounts among it), `LaunchChainAssumption`,
`PlansAssumption`, `DeclaredAssumption` (no code of the SDK is an error a contract
declares), `HeadroomAssumption` (the push gas is within the 150,000 headroom),
`LaunchGasAssumption` (a migrating launch fits, with the pushes, into the graduation limit
of 8,000,000, of which both clients say so; that it fits into the floor is not supposed,
since the sources disagree, section 6), `AmountsAssumption` (`Ten` multiplies as powers of
ten do, and wads have no fewer decimals than a quote), `UseAssumption`,
`PoolChainAssumption` (the ids of two pools, and the zero there is before either, are
three), `TradeAssumption` (`Trade` has no distributions), `PushAssumption` (paying out an
accrued fee costs at most the pool's headroom of 400,000) and `OneVenueAssumption` (a
trade request of the crate is an enum of the curve's and the pool's, `pool.rs`
`TradeBuyRequest`, and cannot have the options of both; one of the TypeScript client may,
and is refused on either); `HalvesAssumption` (powers of two multiply as such, and twice
what is quoted fits a half of a balance delta: an int128 holds what a supply and a quote
come to).

**`CurveMathProofs`** has the lemmas on ceiled division that everything rests on: a ceiled
quotient is the least number whose product covers, it is antitone in the divisor, and the
fee and its gross-up are inverse up to the unit; and on the hook's fee, which what a
trader sees determines to a raw unit (`FeeRecovered`). It also has what holds of a quote
at any position where trades bring a curve (`OpenAt`), stored or not: that trades lead to
such positions again (`BuyLeavesOpen`, `SellLeavesOpen`), that no figure leaves 256 bits
where these have room (`RoomAt`), and that the crate's checked operations come to the same
(`BuysAgreeAt`, `SellsAgreeAt`). Stored curves, snapshots and views are instances of it.

**`BondingCurveProofs`** proves `TypeOK` (which no run lists), `ExitCovered`,
`CollectsTarget`, `NeverStuck` and `RoundTripLoses`. None of them is inductive. The
invariant `IInv` adds: `Conserves` (the vault is the stored reserve less its virtual
part), `Solvent` (the stored reserve is never below the price function's reserve at the
tokens left: all roundings so far favoured the curve), `Capped` (the real reserve is at
most the target) and `Open` (a curve that has not graduated has room in both target and
inventory). `Solvent` is what makes the others go through: with it, selling everything
leaves at least `r0`, and the headroom is never more than the inventory costs, so a capped
buy lands on the target.

It also proves `InversesLeast` of `CurveInverses`: each of the four inverses is the least
at every position that the invariant above allows, for every amount asked about.

Three more of the run's invariants are about quotes at positions that are not stored, and
rest on the lemmas of `CurveMathProofs` on any position:

- `SplittingNeverHelps`: what a buy takes is bounded by the token reserve its money pays for
  (`TokensTaken`), fees of parts are no less than the fee of the sum (`FeeOfSum`), and a buy
  that does not graduate leaves the curve at such a position again (`BuyLeavesOpen`).
- `QuotesNeverRevert`: every figure of a quote stays below the curve's own, so that none
  leaves 256 bits where these have room (`RoomAt`).
- `CrateAgrees`: each checked operation of the crate is the mathematical one or refused
  (`AddIs` to `GrossForNetUpIs`), and a quote is refused exactly where one of the conditions
  `curve-math.ts` throws on holds (`BuysAgreeAt`, `SellsAgreeAt`), for any supply, target, fee
  and size of 256 bits (`AskedAt`). With a fee over the whole the two
  would part: `quoteSell` subtracts the fee unchecked and returns a negative payout.

**`CurveCallsProofs`** proves `FeePushesHaveGas`: the invariant adds where each call
may be (`Places`) and that a trade in an ERC-20 quote has settled on a limit of at
least `TradeGas + PushGas` once it is past its estimate (`Settled`).
For `ChosenGasMigrates`, that the settled limit is never below the caller's (`Kept`), and
that what is in the mempool is what its call asked for (`AsChosen`). These two are of
`CurveCalls`, the TypeScript client.

Its other theorems are of `ClientsSpec`, so of either client, and are about what the calls
report. `ClientsInv` has, for the client a plan is of, invariants each of which contains
the one before:

- `Once`: of what a call is after, at most one transaction was ever sent; it is on its way,
  or mined with its receipt kept, never both; and a call that has not come to its send has
  neither (`MainFits`, and `ApproveFits` for its approve). A call that is `done` tells what
  its receipt says; one that `failed` has no transaction on its way and no receipt of a
  success (`TellFits`). `ThrowsMeanNoTrade` follows. It says nothing of a call that is
  `lost`: one whose send or whose wait for a receipt failed, of which nobody can say more.
- `BooksInv`, and `CrateBooks`: what an account holds, in tokens and in quote, and what the
  curve may still pull of it, against totals over the receipts of its calls. `ReportsTrue`,
  `ExposureBounded` and `CallsTold` read these totals off at a moment that is quiet enough,
  where `Once` makes results and receipts agree.
- `MigrationInv`, of the TypeScript client: exactly one receipt names a migration if the
  curve has migrated, with what the curve forwarded, whatever was simulated before
  (`MigrationFiled`), and a call that returned told of its receipt. `MigrationsTold` follows.

`PromiseKept` is the refinement: each step of a call is a trade of `TradeOutcomes` that
returns, throws or is lost, or nothing its caller sees (`MovesKeepPromise`); each mined
transaction is a trade that happens, while its call waits for it or after that was lost, or
nothing (`AnswerKeepsPromise`); and `migrate()` called again, which forgets a receipt, is
not a trade (`AgainKeepsPromise`).

That a mined transaction moves the books by what its receipt says (`BooksAfter`) is one
lemma for both clients. What it moves for one account, with all others left as they are, is
proved kind by kind (`BuyAccounted`, `SellAccounted`, `WithdrawAccounted` and their like).

The totals are the fold of `CurveMath`'s `Total`. That changing one summand changes a
total by as much, and that totals of equal summands are equal, are statements about a
recursion, and no induction theorem can be used (it takes an operator as a parameter): the
lemmas argue by a least counterexample instead, which exists because strict inclusion is
well-founded on the subsets of a finite set. This is why `ChainAssumption` asks that there
are finitely many accounts; the calls of a plan are a sequence.

The crate's mempool is another: a function of nonces, in which one transaction may take the
place of another, of another call or of its own. `Once` holds of it too, since it speaks of
what is on its way and not of the order: a call whose transaction was replaced has neither
that nor a receipt, waits for one that does not come, and is told nothing. `CrateOnce` adds
that a call which is `done` had a receipt of a success.

**`LaunchesProofs`** proves `NeverOvercharged`, `LaunchesToldTrue`, `LaunchPushesHaveGas`,
`ForeseenGraduationMigrates` and `GraduationForeseen` of both clients' launches. What a
launch pays is decided when it is quoted and settled when it is mined, so the invariant
has to carry the quote there: a launch in the mempool has the cap and the value of the
quote its call holds, and gas enough for what that quote foresaw (`AsQuoted`); a call
holds its quote unchanged once it is past reading it (`Past`); and a launched curve's fee
is within both (`Charged`). For `ForeseenGraduationMigrates` it carries the limit likewise
(`Enough`): the 8,000,000 or more wherever the client chose or raised it, and what the
caller gave, if it was enough for a migrating launch, where that is what is sent.
`GraduationForeseen` rests on `FreshGraduation` of `CurveMathProofs`: on a fresh curve
that is placed, headroom and inventory cost the same, so a buy graduates exactly if what
it brings, less the fee the quote reports, reaches the target, although a capped buy's fee
is on less than it brings. `LaunchesToldTrue` needs `ToldInv`: a call's launch is sent at
most once and is on its way or answered, never both; a launched curve is as its receipt
says, but for a migration by somebody else; and a call ends only by its receipt, or
because an RPC failed (`LaunchFits`).

**`PoolClientsProofs`** proves `PoolPushesHaveGas` and `OptionsHonoured` of both clients'
trades. Both are promises about what is in the mempool that were made some steps before,
while the token may graduate and migrate and fees accrue in between. The invariant says
what a call has made sure of at the place it has come to (`Fit`): that its limit covers
the payout once it is past `estimate` in an ERC-20 quote, that it is on the pool without a
curve's option, or on the curve without a recipient, once it is past `venue`, and, in the
crate, that the venue it was built for is the one its options need. A call that is tried
again starts with nothing (`Carefree`).

It also proves `FillsTold` and `ThrowsMeanNoTrade`. `FillsTold` is about distributions that
read the pool's id once there was one; `DistributionsTold`, about all of them, is violated
(section 6). What a call tells is computed from logs,
under an id of the pool that is read before the transaction (by the crate, and for a
distribution) or after it (`pool.ts`, for a swap). `FillInv` says of each call of a trade or a
distribution (`TradeFits`): it has at most one transaction on its way, which does what was
asked at the call's venue, or a receipt, never both; a receipt that is not one of a revert
was made in a migrated market, and has of each kind one log of this pool, or none if there
is nothing to tell, among whatever else (`Filled`, `Distributed`); and the id the call has
read, or will, is this pool's. That such a receipt is read back as what the transaction
did, by `quoteFillFromLogs` and by its twin of the crate, is `FillRead`; that the chain
leaves such receipts, for every market, world and transaction, is `Received`. The id that a
swap of `pool.ts` reads only after its receipt is right because its receipt can only be one
of a success if the token has migrated, and because a handle never keeps the zero it may
have read before (`Kept`): this is what `ThrowsMeanNoTrade` rests on.

`QuotesTold` needs no transaction, but what a simulated swap returns: one word with both legs,
each the two's complement of a half. `HalvesKept` shows for every width that both clients
take the word apart into the legs it was made of, the negative one below the positive one
included (`unpackBalanceDelta`, `unpack_balance_delta`); `QuoteLegs` that the quote's leg
then tells the hook's fee, and which way each leg goes; and `QuoteInv` that a quote which has
not been answered, at every place and when it is asked for once more, is of a swap that
would have moved nothing when it was asked for.

**`AmountsProofs`** proves `TypeOK`, `TextRoundTrip`, `FloorsHold`, `FeesRecovered` and
`ClientsAgree` for every number of decimals up to the wads', every text and every amount.
They rest on quotient and remainder being unique: a shown text is the whole and the
fraction digits of one division by a power of ten, and reading it multiplies back; a floor
that is ceiled to raw units is the least raw amount whose wads reach it. `ClientsAgree`
compares the crate's conversions with these: `FormatsAlike` shows that `format_fixed`,
which strips the zeros of the wads' fraction, and `formatFixed`, which takes as few of the
quote's own digits as spell it, write the same text; `ParsesAlike` that the crate's
reading of a text differs only where a product leaves 256 bits; and the other conversions
stay within them for an amount of at most `MaxWad`, which every amount in use is. The
arithmetic is that of `CurveMathProofs`, instantiated.

**`ReadCachesProofs`** proves all invariants of `ReadCaches` but `ChainIsAsked`, which is
violated, and its action property `NothingForgotten`. `CachesHold` says how the promises,
the reads behind them and the calls fit together in every state: a kept promise is of a read
of its own kind; a read that was answered holds what the chain has to answer (`Sound`), one
that failed was failed by an error that can come of it; a call waits for the read its memo
holds, or for one it joined while it was kept; and what a call tells is what the read it
waited for has come to (`CallFits`). Each step is shown to leave every read that has ended as
it is, and to empty a memo only of a read that has failed (`Carries`), which is
`NothingForgotten` and also what keeps the calls' part true while others go on.
`BlameIsTrue` needs to know that no code of the SDK is spelled like an error that a contract
declares (`DeclaredAssumption`): that is what `test/unit/error-code-collisions.test.ts`
keeps true of the ABIs.

**`ViewClientsProofs`** proves `ViewsTrue` for every curve, every plan of either client and
however far the chain moves. The invariant `IInv` says what a call has gathered
(`Gathered`): a batch that is still out has gathered nothing; while the chain has not
moved, every answer, those of a page that is still being read included, is of the one
moment there is; and a call that returned has the answers of a moment of its history.
`WorldsKept` keeps the chain's curve where trades bring one: that what was read is
priced as the chain would have, by the crate as by `curve.ts`, is then `BuysAgreeAt` and
`SellsAgreeAt` at that moment.

It also proves `ListsExact`, for registries of any length. Both clients find an answer by
where it stands on a page, and the page was asked for while the registry moved. The
invariant `ListInv` says of every page that it answers what the pages before it ask for
(`Paged`), each answer being of some moment of the call, or, for a label or a PoolManager,
made up by the TypeScript SDK (`Heard`), and all those of one batch of the same moment
(`Answered`); and that an entry stays at its place as a registry grows, and a migrator
that was deregistered stays so (`Registries`). That every read that is out can be answered
(`Askable`) is part of the argument: a place that was counted is still there when it is
asked. What stands where is proved of the sequences: `FlattenIs` (where each part of a
flattening begins), `InOrderIs` and `UnlistedIs` (the tokens that no preset describes, in
their order), `EachAt` for pages of two and of four reads a subject, and `CrateQuoteReads`
for the crate's third batch, in which an entry takes one place or four. A flattening is a
recursive function and an ascending sequence is chosen: that there is one, for any length,
is argued from a least counterexample (`LeastNumber`, from the library's well-founded
orders) in place of an induction. For the crate's migrators, `CrateToldIs` says what each
turn of three pages was told, `CrateAsksAll` that every migrator counted had its turn, and
`PlaceFound` that an entry is found at its own place, for which the registry must hold a
migrator only once (`ViewsAssumption`; `MigratorAlreadyRegistered`, `messages.ts:445`).
TLC had checked the lists' part of the invariant on all states of `views` before it was
proved.

**Only model-checked**: liveness (out of the prover's reach: `CallsEnd`, `NeverStranded`,
`WritesEnd`, `RetriesTrade`), and the type invariants that are not named above.

## 5. Plan

Done: the curve, the calls and launches of both clients, trades on either venue, the pool
and its hook's fees, the shared promises and what is thrown, amounts, and the views. Left:

1. `registerPlatform` (`platform-registry.ts`, `platform.rs`): one transaction with one
   log, and the check of the shares before it.
2. The crate's own caches (`client.rs:88-166`): they keep values and share no read, so that
   two calls may read the same thing twice, but nobody waits for another's failure.
3. The crate's errors (`error.rs`) against `errors/map.ts`.

## 6. Findings

- `curve.ts:904`: `withdraw` does not look at its receipt's status, and returns the
  amount its simulation returned. If the transaction reverts (the credit was withdrawn
  by an earlier one), it reports the amount as paid. The Rust crate checks the status
  (`src/rust/src/curve.rs:1181`).
- `quote-token.ts:423`: `ensureAllowance` returns the amount it approved as "the
  allowance the spender now holds". With two buys of one signer in flight, the other's
  exact approve or pull can have come in between. The buy then fails its estimate and
  throws; `ExposureBounded` and `ThrowsMeanNoTrade` hold nevertheless.
- `client.ts:228`: `assertChain` keeps a rejected promise, where every other memo drops
  it: after one failed `eth_chainId`, every later write of the client is refused without
  asking again.
- `migrator-registry.ts:255`: `optionalPoolManager` takes a failed read for the answer
  that there is no PoolManager, and the migrator is listed as reachable with no router
  that serves it. The crate raises the failure (`migrator_registry.rs`, `optional`).
- `pool.ts:1503`: `distributeHookFees` reads the pool's id before it simulates, and does
  not look whether it is zero. If the token migrates, and a swap leaves a fee, between that
  read and the simulation, the fees are paid out and the amount returned is zero, although
  "The amount is read from the `FeesDistributed` log in this transaction's receipt"
  (`pool.ts:1493-1494`): the log is looked for under the zero id. The crate raises an error
  before migration (`pool.rs`), and has no such case.

Seen while modelling, and not checked by a run of their own:

- The sources disagree about the gas of a graduating launch. `launchpad.ts:64-74` and
  `launchpad.rs:69,89` say that it migrates above about 5,880,000, that the floor of
  6,200,000 clears this by 5.4%, and the refusal's message (`launchpad.ts:112-119`)
  invites a caller to "pass at least" the floor; `types.ts:124-130` records an estimate of
  6,250,146 with which a token was left with no market, and asks for a limit "comfortably
  above 6.1M on top of the two deployments". That `GRADUATION_GAS_LIMIT`, 8,000,000, is
  enough is said by both clients (`launchpad.ts:36-51`, `launchpad.rs:59-75`), and is what
  `LaunchGasAssumption` takes from them. How much gas a migration takes is not in this
  repository, so no run can decide who is right. The model therefore supposes nothing of
  the floor: `ForeseenGraduationMigrates` promises a market where the client sends its own
  8,000,000 or the caller's limit is enough, and nothing for a limit between the floor and
  enough, which `launchpad.ts:74` calls "the caller's call". `MCLaunches` has such a
  limit, and launches of it that do not migrate.
- `pool.ts:277-279` says that the fee derived from a sell's payout can sit a raw unit
  under the hook's, and asks for a one-unit tolerance. `FeesRecovered` is that tolerance. The
  proof shows more (`FeeRecovered`): the derived fee is exact or one unit over, and never
  under. A claim that something can happen has no trace that refutes it, and the tolerance
  a caller is told to use is enough.
- `curve.ts:847-848` says of `migrate()` that it "reverts with `AlreadyMigrated`" when the
  curve has migrated. It throws if the simulation sees that; if another migration is mined
  between its simulation and its block, its receipt is not looked at and it returns amounts
  of zero and no pool. `MigrationsTold` takes that for what it is: no migration told.
- The clients differ where a caller may notice: the crate refuses to show the progress of
  a target of zero; prices a launch without a first buy as a buy of nothing; checks every
  receipt's status; quotes a launch in one batch; lists only the migrators that are
  registered now, and takes one whose PoolManager is the zero address for unreachable,
  where `reachable` of `migrator-registry.ts` takes it for one that has none; and gives no
  floor for a tolerance above 100%, where `slippage.ts` throws.

## 7. Not modelled

- The token handle, and the single reads of the other parts: one RPC, no state kept and no
  step that depends on another.
- `registerPlatform`, with the validation of its shares (`platformShareBps`; section 5).
- How a curve's fee is shared (`fees.ts` but for the pool's fee): the contracts share it, and
  the SDK only reads the shares.
- Building a client, network presets, deadlines (a clock plus a duration), the parse of a
  version's text, the wording of errors and amounts: data or text.
- The generated ABIs, half of the TypeScript lines: tables without control.
- Of the Rust crate: its caches, errors, `platform.rs`, `token.rs`, `network.rs`, its
  builder and its tests' endpoint.
- The contracts, viem and alloy: only what the SDK relies on of them, marked external.

## 8. Running it

`tlc -config MCCurveCalls.cfg MCCurveCalls` checks a run, `tlapm ViewClientsProofs.tla` a
proof. The seven passing runs take about eight minutes together on two cores, the longest
of them, `curve_trading` and `launches`, about two each, and all proofs about half an
hour, ten minutes of which are `ViewClientsProofs`.
