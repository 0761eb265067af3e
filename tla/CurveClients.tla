---------------------------- MODULE CurveClients ----------------------------
(***************************************************************************)
(* Either client at a curve: a plan's calls are those of the TypeScript    *)
(* client (CurveCalls) or those of the Rust crate (CrateCalls), against    *)
(* the same chain.  Both are held to the promise of TradeOutcomes, and to  *)
(* coming to an end.                                                       *)
(***************************************************************************)
EXTENDS CrateCalls

TsNext == plan.client = "ts" /\ Next /\ UNCHANGED <<mined, nonce>>

ClientsNext == TsNext \/ (plan.client = "crate" /\ CrateNext)

ClientsSpec == CrateInit /\ [][ClientsNext]_crateVars

\* A call whose next step is an RPC that answers, with or against it: the step is
\* then possible whatever the chain is like, and takes the call to another place.
Answerable == {"preflight", "estimate"} \cup
                  IF plan.client = "ts" THEN {"simulate", "send"} ELSE Filling

Answered(c) ==
    /\ c \in Calls
    /\ pc[c] \in Answerable
    /\ pc[c] \in Filling => nonce[c] # NoNonce /\ gas[c] # 0
    /\ \E to \in Labels \cup CrateLabels : to # pc[c] /\ Go(c, to)

\* The filler's estimate, which gives a limit or refuses the call.
GasAnswered(c) ==
    /\ c \in Calls
    /\ pc[c] \in Filling /\ gas[c] = 0
    /\ \/ Go(c, "failed") /\ UNCHANGED gas
       \/ UNCHANGED pc /\ \E limit \in {Estimated, Unlimited} : gas' = [gas EXCEPT ![c] = limit]

TsProceeds(c) ==
    \/ Start(c) \/ ReadAllowance(c) \/ SimulateApprove(c) \/ SendApprove(c)
    \/ AwaitApprove(c) \/ Await(c)

CrateProceeds(c) ==
    CrateStart(c) \/ CrateReadAllowance(c) \/ CrateAwaitApprove(c) \/ FillNonce(c) \/ CrateAwait(c)

Proceeds(c) ==
    /\ c \in Calls
    /\ \/ plan.client = "ts" /\ TsProceeds(c) /\ UNCHANGED <<mined, nonce>>
       \/ plan.client = "crate" /\ CrateProceeds(c)

TriesAgain(c) == plan.client = "ts" /\ c \in Calls /\ CallAgain(c)

\* An account's next transaction: the first it sent, or the one under its next nonce.
NextMined(a) ==
    /\ plan.client = "ts" /\ mempool[a] # <<>>
    /\ mempool' = [mempool EXCEPT ![a] = Tail(@)]

NextNonceMined(a) ==
    /\ plan.client = "crate" /\ mined[a] \in DOMAIN mempool[a]
    /\ mined' = [mined EXCEPT ![a] = @ + 1]

\* A call goes on when its RPCs answer, an account's next transaction is mined
\* sooner or later, and whoever calls migrate() does not give up.
Fairness ==
    /\ \A c \in 1 .. MaxCalls :
           /\ WF_pc(Answered(c)) /\ WF_<<pc, gas>>(GasAnswered(c))
           /\ WF_crateVars(Proceeds(c)) /\ WF_vars(TriesAgain(c))
    /\ \A a \in Accounts : WF_mempool(NextMined(a)) /\ WF_mined(NextNonceMined(a))

FairSpec == ClientsSpec /\ Fairness

-----------------------------------------------------------------------------
\* A curve that graduated is migrated in the end, by its graduating buy or by a
\* later migrate(), as long as somebody calls it and the migrator works from some
\* time on: "a stuck migrator can never strand a curve" (curve.ts, migrate).
NeverStranded ==
    /\ plan.client = "ts" /\ (\E c \in Calls : Request(c).kind = "migrate")
    /\ <>[]world.migratorUp
    => (chain.graduated ~> chain.migrated)

\* Every call of the TypeScript client that starts comes to an end, with an answer
\* or an error: none waits for something that will not come.
CallsEnd ==
    \A c \in 1 .. MaxCalls :
        (plan.client = "ts" /\ c \in Calls /\ pc[c] # "idle")
            ~> (c \in Calls /\ pc[c] \in Final)

\* Each call of the account begins after the one before it has ended.
Sequenced(a) ==
    \A c, d \in CallsOf(a) : c < d => Request(d).after \in c .. d - 1 \cap CallsOf(a)

\* A write of the crate, by an account that sends its transactions one after
\* another, comes to an end whatever became of those before it, refused, reverted or
\* sent and not waited for: none sits behind a gap that nothing closes
\* (client.rs:519-530).
WritesEnd ==
    \A c \in 1 .. MaxCalls :
        (plan.client = "crate" /\ c \in Calls /\ pc[c] # "idle" /\ Sequenced(Request(c).from))
            ~> (c \in Calls /\ pc[c] \in Final)

-----------------------------------------------------------------------------
(* A trade as its caller sees it, and what the chain says of it.           *)

Trades == {c \in Calls : Request(c).kind \in {"buy", "sell"}}

\* A sell reports what it was paid; a buy what it took, what it cost, and what came
\* back or was left with the buyer.
Filled(c, tokens, quote, left) ==
    [ tokens |-> IF Request(c).kind = "buy" THEN tokens ELSE 0, quote |-> quote,
      left |-> IF Request(c).kind = "buy" THEN left ELSE 0 ]

FilledOnChain(c) ==
    LET main == receipts[c].main
    IN  IF main.ok
        THEN {Filled(c, main.events.tokens, main.events.quote,
                     Request(c).amount - main.events.quote)}
        ELSE {}

FilledAsTold(c) ==
    IF pc[c] = "done"
    THEN {Filled(c, result[c].tokens, result[c].quote, result[c].refund)}
    ELSE {}

Stages ==
    [c \in 1 .. MaxCalls |-> IF c \in Trades /\ pc[c] \in Final THEN pc[c] ELSE "open"]

Fills == [c \in 1 .. MaxCalls |-> IF c \in Trades THEN FilledOnChain(c) ELSE {}]

Tellings == [c \in 1 .. MaxCalls |-> IF c \in Trades THEN FilledAsTold(c) ELSE {}]

Outcomes ==
    INSTANCE TradeOutcomes WITH
        Slots <- 1 .. MaxCalls, stage <- Stages, fills <- Fills, told <- Tellings,
        faults <- failures

\* Whichever client makes them, whatever runs beside them, whatever fails and
\* whichever nonces collide, trades keep the promise of TradeOutcomes.
KeepsPromise == Outcomes!Spec
=============================================================================
