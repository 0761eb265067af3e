------------------------- MODULE ViewClientsProofs -------------------------
(***************************************************************************)
(* That a view is true of a moment, proved for every curve, every plan and *)
(* however far the chain moves.                                            *)
(*                                                                         *)
(* The inductive invariant follows what a call has gathered: a batch that  *)
(* is still out has gathered nothing, and while the chain has not moved    *)
(* every answer, those of a page still being read included, is of the one  *)
(* moment there is.  Then comes the chain: a curve is always where trades  *)
(* bring one, so that both clients price what the chain would.             *)
(*                                                                         *)
(* The second half proves that a list is the registry's, for registries of *)
(* any length.  Its invariant, ListInv, says that every page answers what  *)
(* the pages before it ask for, and that a registry only grows; what each  *)
(* position of a page was asked for (Each, Unlisted, AnswersAt, the turns  *)
(* of the crate) is proved of the sequences first.                         *)
(***************************************************************************)
EXTENDS ViewClients, CurveMathProofs, SequenceTheorems, FiniteSetTheorems, WellFoundedInduction

\* The views that tell of one moment.
Seen == {"state", "spendState", "settings"}

\* Without Multicall3 the TypeScript SDK asks for a balance and then for an allowance.
InTurn == By("ts") /\ plan.kind = "spendState" /\ ~plan.batched

FirstPage == IF By("ts") THEN Page(<<>>) ELSE CratePage(<<>>)

Answers(w, asked) == [i \in DOMAIN asked |-> Read(w, asked[i])]

\* What a call gathers on a chain that holds w all along.
PagesOf(w) ==
    IF InTurn THEN <<Answers(w, Keys(<<"balance">>)), Answers(w, Keys(<<"allowance">>))>>
    ELSE <<Answers(w, FirstPage)>>

\* Nothing a call has gathered can be of two moments.
Sure == call.whole \/ Len(history) = 1

WorldsKept ==
    /\ plan \in Plans
    /\ history \in Seq(Moment) /\ history # <<>>
    /\ \A m \in DOMAIN history : OnCurve(history[m])
    /\ call.at \in {"reading", "returned", "thrown"} /\ call.whole \in BOOLEAN
    /\ call = [at |-> call.at, pages |-> call.pages, whole |-> call.whole, got |-> call.got]

\* The reads that are out, of one by one, and those of them that are answered.
Reading(asked) ==
    IF By("ts")
    THEN /\ DOMAIN call.got \subseteq DOMAIN asked
         /\ call.got = [j \in DOMAIN call.got |-> Read(history[1], asked[j])]
    ELSE \E n \in 0 .. Len(asked) - 1 : call.got = [j \in 1 .. n |-> Read(history[1], asked[j])]

Gathered ==
    /\ call.at = "returned" => \E m \in DOMAIN history : call.pages = PagesOf(history[m])
    /\ call.at = "reading" /\ call.whole => ~InTurn /\ call.pages = <<>>
    /\ call.at = "reading" /\ ~call.whole =>
        \/ call.pages = <<>> /\ Reading(FirstPage)
        \/ /\ InTurn
           /\ call.pages = <<Answers(history[1], Keys(<<"balance">>))>>
           /\ Reading(Keys(<<"allowance">>))

IInv == WorldsKept /\ (Sure /\ plan.kind \in Seen => Gathered)

-----------------------------------------------------------------------------
(* The chain.                                                              *)

LEMMA PlanFigures ==
    ASSUME NEW p \in Plans
    PROVE  /\ p.client \in {"ts", "crate"} /\ p.kind \in Kinds
           /\ p.client = "crate" => p.kind # "settings"
           /\ p.batched \in BOOLEAN
           /\ p.vetted \subseteq MigratorRecord /\ p.dismissed \subseteq MigratorRecord
           /\ p.world \in Moment /\ OnCurve(p.world)
  BY ViewsAssumption, CratePlansAssumption DEF CrateKinds

LEMMA CurveIs ==
    ASSUME NEW w \in Moment, OnCurve(w), ~w.graduated
    PROVE  OpenAt(Curve, w.reserve, w.sold)
<1>1. Curve \in CurveRecord /\ Placed(Curve)
  BY ViewsAssumption
<1>2. w.reserve \in Nat
  BY DEF Moment
<1> QED
  BY <1>1, <1>2 DEF OnCurve, OpenAt, UsdcReserveAt

LEMMA TradedKept ==
    ASSUME NEW w \in Moment, OnCurve(w), NEW v \in Traded(w)
    PROVE  v \in Moment /\ OnCurve(v)
<1>1. CASE w.graduated
  <2>1. v = [w EXCEPT !.migrated = TRUE]
    BY <1>1 DEF Traded
  <2>2. v \in Moment
    BY <2>1 DEF Moment
  <2>3. v.graduated = w.graduated
    BY <2>1 DEF Moment
  <2> QED
    BY <1>1, <2>2, <2>3 DEF OnCurve
<1>2. CASE ~w.graduated
  <2>0. OpenAt(Curve, w.reserve, w.sold)
    BY <1>2, CurveIs
  <2>1. CASE \E d \in BuySizes : v = Bought(w, d)
    <3>1. PICK d \in BuySizes : v = Bought(w, d)
      BY <2>1
    <3>2. d \in Nat
      BY ViewsAssumption
    <3> DEFINE net == NetKept(Curve, w.reserve, w.sold, d)
               gross == GrossSpent(Curve, w.reserve, w.sold, d)
               b == BuyOf(Curve, w.reserve, w.sold, net, gross, d - gross)
    <3>3. QuoteBuy(Curve, w.reserve, w.sold, d) = b
      BY BuyIsOf
    <3>4. net \in Nat
      BY <2>0, <3>2, NetKeptNat
    <3>5. b.tokensOut \in Nat
      <4> HIDE DEF net, gross
      <4> QED
        BY <2>0, <3>4, TokensTaken
    <3>6. /\ b.newReserve = w.reserve + net /\ b.newSold = w.sold + b.tokensOut
          /\ b.graduates \in BOOLEAN
      BY DEF BuyOf, Graduates
    <3>7. ~b.graduates => OpenAt(Curve, b.newReserve, b.newSold)
      <4> HIDE DEF net, gross
      <4> QED
        BY <2>0, <3>4, BuyLeavesOpen
    <3>8. v = [w EXCEPT !.reserve = b.newReserve, !.sold = b.newSold, !.graduated = b.graduates]
      BY <3>1, <3>3 DEF Bought
    <3> HIDE DEF b, net
    <3>9. w.reserve \in Nat /\ w.sold \in Nat
      BY DEF Moment
    <3>10. b.newReserve \in Nat /\ b.newSold \in Nat
      BY <3>4, <3>5, <3>6, <3>9
    <3>11. v \in Moment
      BY <3>6, <3>8, <3>10 DEF Moment
    <3>12. v.reserve = b.newReserve /\ v.sold = b.newSold /\ v.graduated = b.graduates
      BY <3>8 DEF Moment
    <3> QED
      BY <3>7, <3>11, <3>12 DEF OnCurve, OpenAt, UsdcReserveAt
  <2>2. CASE \E t \in SellSizes : v = Sold(w, t) /\ ~SellReverts(Curve, w.reserve, w.sold, t)
    <3>1. PICK t \in SellSizes : v = Sold(w, t) /\ ~SellReverts(Curve, w.reserve, w.sold, t)
      BY <2>2
    <3>2. t \in Nat /\ w.sold \in Nat
      BY ViewsAssumption DEF Moment
    <3>3. t <= w.sold
      <4>1. ~(w.sold < t)
        BY <3>1 DEF SellReverts
      <4> QED
        BY <3>2, <4>1
    <3> DEFINE q == QuoteSell(Curve, w.reserve, w.sold, t)
    <3>4. OpenAt(Curve, q.newReserve, q.newSold)
      BY <2>0, <3>2, <3>3, SellLeavesOpen
    <3>5. v = [w EXCEPT !.reserve = q.newReserve, !.sold = q.newSold]
      BY <3>1 DEF Sold
    <3> HIDE DEF q
    <3>6. q.newReserve \in Nat /\ q.newSold \in Nat
      BY <3>4, OpenFigures DEF OpenAt
    <3>7. v \in Moment
      BY <3>5, <3>6 DEF Moment
    <3>8. v.reserve = q.newReserve /\ v.sold = q.newSold
      BY <3>5 DEF Moment
    <3> QED
      BY <3>4, <3>7, <3>8 DEF OnCurve, OpenAt, UsdcReserveAt
  <2> QED
    BY <1>2, <2>1, <2>2 DEF Traded
<1> QED
  BY <1>1, <1>2

\* What does not trade leaves the curve where it is.
LEMMA OthersKeep ==
    ASSUME NEW w \in Moment, OnCurve(w), NEW v \in Moment,
           v.reserve = w.reserve, v.sold = w.sold, v.graduated = w.graduated
    PROVE  OnCurve(v)
  BY DEF OnCurve

LEMMA SpentKept ==
    ASSUME NEW w \in Moment, OnCurve(w), NEW v \in Spent(w)
    PROVE  v \in Moment /\ OnCurve(v)
<1>1. w.balance \in Nat /\ w.allowance \in Nat
  BY DEF Moment
<1>2. CASE v = [w EXCEPT !.allowance = @ + 1]
  <2>1. v \in Moment
    BY <1>1, <1>2, SMTT(20) DEF Moment
  <2>2. v.reserve = w.reserve /\ v.sold = w.sold /\ v.graduated = w.graduated
    BY <1>2 DEF Moment
  <2> QED
    BY <2>1, <2>2, OthersKeep
<1>3. CASE w.balance # 0 /\ w.allowance # 0
           /\ v = [w EXCEPT !.balance = @ - 1, !.allowance = @ - 1]
  <2>0. w.balance - 1 \in Nat /\ w.allowance - 1 \in Nat
    BY <1>1, <1>3
  <2>1. v \in Moment
    BY <1>3, <2>0 DEF Moment
  <2>2. v.reserve = w.reserve /\ v.sold = w.sold /\ v.graduated = w.graduated
    BY <1>3 DEF Moment
  <2> QED
    BY <2>1, <2>2, OthersKeep
<1> QED
  BY <1>2, <1>3 DEF Spent

LEMMA ReconfiguredKept ==
    ASSUME NEW w \in Moment, OnCurve(w), NEW v \in Reconfigured(w)
    PROVE  v \in Moment /\ OnCurve(v)
<1>1. w.creatorShareBps + 100 \in Nat
  BY DEF Moment
<1>2. /\ v \in Moment
      /\ v.reserve = w.reserve /\ v.sold = w.sold /\ v.graduated = w.graduated
  BY <1>1, SMTT(20) DEF Reconfigured, Moment
<1> QED
  BY <1>2, OthersKeep

LEMMA RegisteredKept ==
    ASSUME NEW w \in Moment, OnCurve(w), NEW v \in Registered(w)
    PROVE  v \in Moment /\ OnCurve(v)
<1> DEFINE qs == w.quotes
<1>1. qs \in Seq(QuoteRecord)
  BY DEF Moment
<1>2. PICK new \in Seq(QuoteRecord) : v = [w EXCEPT !.quotes = new]
  <2>1. CASE \E q \in Tokens : v = [w EXCEPT !.quotes = Append(@, Registration(q, 1, TRUE))]
    <3>1. PICK q \in Tokens : v = [w EXCEPT !.quotes = Append(@, Registration(q, 1, TRUE))]
      BY <2>1
    <3> DEFINE e == Registration(q, 1, TRUE)
    <3>2. e \in QuoteRecord
      BY DEF Registration, QuoteRecord
    <3>4. v = [w EXCEPT !.quotes = Append(qs, e)]
      BY <3>1
    <3> HIDE DEF e, qs
    <3>3. Append(qs, e) \in Seq(QuoteRecord)
      BY <1>1, <3>2
    <3> QED
      BY <3>3, <3>4
  <2>2. CASE \E i \in DOMAIN qs : v = [w EXCEPT !.quotes[i].launchFee = @ + 1]
    <3>1. PICK i \in DOMAIN qs : v = [w EXCEPT !.quotes[i].launchFee = @ + 1]
      BY <2>2
    <3> DEFINE r == [qs[i] EXCEPT !.launchFee = @ + 1]
    <3>2. qs[i] \in QuoteRecord
      BY <1>1
    <3>3. r \in QuoteRecord
      BY <3>2 DEF QuoteRecord
    <3>4. [qs EXCEPT ![i] = r] \in Seq(QuoteRecord)
      BY <1>1, <3>3
    <3>5. v = [w EXCEPT !.quotes = [qs EXCEPT ![i] = r]]
      BY <3>1
    <3> QED
      BY <3>4, <3>5
  <2>3. CASE \E i \in DOMAIN qs : v = [w EXCEPT !.quotes[i].active = ~@]
    <3>1. PICK i \in DOMAIN qs : v = [w EXCEPT !.quotes[i].active = ~@]
      BY <2>3
    <3> DEFINE r == [qs[i] EXCEPT !.active = ~@]
    <3>2. qs[i] \in QuoteRecord
      BY <1>1
    <3>3. r \in QuoteRecord
      BY <3>2 DEF QuoteRecord
    <3>4. [qs EXCEPT ![i] = r] \in Seq(QuoteRecord)
      BY <1>1, <3>3
    <3>5. v = [w EXCEPT !.quotes = [qs EXCEPT ![i] = r]]
      BY <3>1
    <3> QED
      BY <3>4, <3>5
  <2> QED
    BY <2>1, <2>2, <2>3 DEF Registered
<1>3. /\ v \in Moment
      /\ v.reserve = w.reserve /\ v.sold = w.sold /\ v.graduated = w.graduated
  BY <1>2 DEF Moment
<1> QED
  BY <1>3, OthersKeep

LEMMA VettedKept ==
    ASSUME plan \in Plans, NEW w \in Moment, OnCurve(w), NEW v \in Vetted(w)
    PROVE  v \in Moment /\ OnCurve(v)
<1>0. /\ plan.vetted \subseteq MigratorRecord /\ plan.dismissed \subseteq MigratorRecord
      /\ w.migrators \in Seq(MigratorRecord) /\ w.retired \subseteq MigratorRecord
  BY PlanFigures DEF Moment
<1>1. CASE \E m \in plan.vetted : v = [w EXCEPT !.migrators = Append(@, m)]
  <2>1. PICK m \in plan.vetted : v = [w EXCEPT !.migrators = Append(@, m)]
    BY <1>1
  <2>2. Append(w.migrators, m) \in Seq(MigratorRecord)
    BY <1>0
  <2>3. /\ v \in Moment
        /\ v.reserve = w.reserve /\ v.sold = w.sold /\ v.graduated = w.graduated
    BY <2>1, <2>2 DEF Moment
  <2> QED
    BY <2>3, OthersKeep
<1>2. CASE \E m \in plan.dismissed : v = [w EXCEPT !.retired = @ \cup {m}]
  <2>1. PICK m \in plan.dismissed : v = [w EXCEPT !.retired = @ \cup {m}]
    BY <1>2
  <2>2. w.retired \cup {m} \subseteq MigratorRecord
    BY <1>0
  <2>3. /\ v \in Moment
        /\ v.reserve = w.reserve /\ v.sold = w.sold /\ v.graduated = w.graduated
    BY <2>1, <2>2 DEF Moment
  <2> QED
    BY <2>3, OthersKeep
<1> QED
  BY <1>1, <1>2 DEF Vetted

LEMMA ChangesKept ==
    ASSUME plan \in Plans, NEW w \in Moment, OnCurve(w), NEW v \in Changes(w)
    PROVE  v \in Moment /\ OnCurve(v)
<1>1. plan.kind \in {"state", "spendState", "settings", "quotes", "migrators"}
  BY PlanFigures DEF Kinds
<1>2. CASE plan.kind = "state"
  BY <1>2, TradedKept DEF Changes
<1>3. CASE plan.kind = "spendState"
  BY <1>3, SpentKept DEF Changes
<1>4. CASE plan.kind = "settings"
  BY <1>4, ReconfiguredKept DEF Changes
<1>5. CASE plan.kind = "quotes"
  BY <1>5, RegisteredKept DEF Changes
<1>6. CASE plan.kind = "migrators"
  BY <1>6, VettedKept DEF Changes
<1> QED
  BY <1>1, <1>2, <1>3, <1>4, <1>5, <1>6

-----------------------------------------------------------------------------
(* The pages of a call that tells of one moment.                           *)

\* The last moment is one of them.
LEMMA WorldIn ==
    ASSUME WorldsKept
    PROVE  /\ World \in Moment /\ OnCurve(World)
           /\ Len(history) \in Nat \ {0} /\ Len(history) \in DOMAIN history /\ 1 \in DOMAIN history
           /\ World = history[Len(history)]
           /\ \A m \in DOMAIN history : history[m] \in Moment
<1>1. history \in Seq(Moment) /\ history # <<>> /\ \A m \in DOMAIN history : OnCurve(history[m])
  BY DEF WorldsKept
<1>2. Len(history) \in Nat \ {0} /\ DOMAIN history = 1 .. Len(history)
  BY <1>1
<1> QED
  BY <1>1, <1>2 DEF World, Last

LEMMA KeysAsk ==
    /\ \A names : DOMAIN Keys(names) = DOMAIN names
    /\ \A names : 1 \in DOMAIN names => Keys(names) # <<>>
    /\ StateReads # <<>> /\ DOMAIN StateReads = 1 .. 7
<1>1. \A names : DOMAIN Keys(names) = DOMAIN names
  BY DEF Keys
<1>2. \A f : f = <<>> => DOMAIN f = {}
  OBVIOUS
<1>3. \A names : 1 \in DOMAIN names => Keys(names) # <<>>
  BY <1>1, <1>2
<1>4. \A a, b, c, d, e, f, g : DOMAIN <<a, b, c, d, e, f, g>> = 1 .. 7
  OBVIOUS
<1>5. DOMAIN StateReads = 1 .. 7
  BY <1>1, <1>4 DEF StateReads
<1>6. StateReads # <<>>
  BY <1>2, <1>5
<1> QED
  BY <1>1, <1>3, <1>5, <1>6

LEMMA StateReadsAre ==
    /\ StateReads \in Seq(Range(StateReads)) /\ Len(StateReads) = 7
    /\ DOMAIN StateReads = 1 .. 7
<1>1. DOMAIN StateReads = 1 .. 7
  BY KeysAsk
<1>2. StateReads = [i \in 1 .. 7 |-> StateReads[i]]
  BY <1>1 DEF StateReads, Keys
<1>3. \A i \in 1 .. 7 : StateReads[i] \in Range(StateReads)
  BY <1>1 DEF Range
<1> HIDE DEF StateReads
<1>4. StateReads \in Seq(Range(StateReads))
  BY <1>2, <1>3
<1> QED
  BY <1>1, <1>4

\* The TypeScript SDK asks one page, or its two in turn.
LEMMA PagesAre ==
    ASSUME plan \in Plans, plan.kind \in Seen, By("ts")
    PROVE  /\ ~InTurn => /\ Page(<<>>) # <<>>
                         /\ \A p : Page(<<p>>) = <<>>
           /\ InTurn => /\ Page(<<>>) = Keys(<<"balance">>)
                        /\ \A p : Page(<<p>>) = Keys(<<"allowance">>)
                        /\ \A p, q : Page(<<p, q>>) = <<>>
                        /\ Keys(<<"balance">>) # <<>> /\ Keys(<<"allowance">>) # <<>>
<1>1. plan.kind \in {"state", "spendState", "settings"} /\ plan.batched \in BOOLEAN
  BY PlanFigures DEF Seen
<1>2. \A p, q : /\ <<p>> # <<>> /\ Len(<<>>) = 0 /\ Len(<<p>>) = 1 /\ Len(<<p, q>>) = 2
                /\ <<p, q>> # <<>>
  OBVIOUS
<1>3. /\ \A n : Keys(<<n>>) # <<>>
      /\ \A n, m : Keys(<<n, m>>) # <<>>
      /\ \A n, m, k : Keys(<<n, m, k>>) # <<>>
  BY KeysAsk
<1>4. CASE plan.kind = "state"
  BY <1>2, <1>4, KeysAsk DEF Page, InTurn
<1>5. CASE plan.kind = "settings"
  BY <1>2, <1>3, <1>5 DEF Page, InTurn
<1>6. CASE plan.kind = "spendState" /\ plan.batched
  BY <1>2, <1>3, <1>6 DEF Page, InTurn
<1>7. CASE plan.kind = "spendState" /\ ~plan.batched
  BY <1>2, <1>3, <1>7 DEF Page, InTurn
<1> QED
  BY <1>1, <1>4, <1>5, <1>6, <1>7

LEMMA CratePagesAre ==
    ASSUME plan \in Plans, plan.kind \in Seen, ~By("ts")
    PROVE  /\ By("crate") /\ ~InTurn /\ plan.kind # "migrators"
           /\ CratePage(<<>>) # <<>> /\ \A p : CratePage(<<p>>) = <<>>
           /\ \A p : PassedOver(p) = p
           /\ CrateBatched
<1>1. plan.kind \in {"state", "spendState"} /\ By("crate")
  BY PlanFigures DEF Seen, By
<1>2. \A p : <<p>> # <<>>
  OBVIOUS
<1>3. CASE plan.kind = "state"
  BY <1>1, <1>2, <1>3, KeysAsk DEF CratePage, InTurn, PassedOver, CrateBatched
<1>4. CASE plan.kind = "spendState"
  BY <1>1, <1>2, <1>4, KeysAsk DEF CratePage, InTurn, PassedOver, CrateBatched
<1> QED
  BY <1>1, <1>3, <1>4

LEMMA FirstPageIs ==
    ASSUME plan \in Plans, plan.kind \in Seen, ~By("ts")
    PROVE  Len(FirstPage) \in Nat /\ DOMAIN FirstPage = 1 .. Len(FirstPage)
<1>1. plan.kind \in {"state", "spendState"}
  BY PlanFigures DEF Seen, By
<1>2. CASE plan.kind = "state"
  <2>1. FirstPage = StateReads
    BY <1>2 DEF FirstPage, CratePage
  <2> QED
    BY <2>1, StateReadsAre
<1>3. CASE plan.kind = "spendState"
  <2>1. FirstPage = Keys(<<"balance", "allowance">>)
    BY <1>3 DEF FirstPage, CratePage
  <2>2. \A a, b : DOMAIN <<a, b>> = 1 .. 2
    OBVIOUS
  <2> DEFINE names == <<"balance", "allowance">>
             page == [i \in 1 .. 2 |-> <<names[i], "">>]
  <2>3. FirstPage = page
    BY <2>1, <2>2 DEF Keys
  <2>4. page \in Seq({page[i] : i \in 1 .. 2}) /\ Len(page) = 2 /\ DOMAIN page = 1 .. 2
    OBVIOUS
  <2> HIDE DEF page
  <2> QED
    BY <2>3, <2>4
<1> QED
  BY <1>1, <1>2, <1>3

\* No answer of theirs is made up where a read fails.
LEMMA NoneTolerated ==
    ASSUME plan \in Plans, plan.kind \in Seen, By("ts")
    PROVE  /\ \A i \in DOMAIN FirstPage : Tolerated(FirstPage[i][1]) = {}
           /\ \A i \in DOMAIN Keys(<<"allowance">>) : Tolerated(Keys(<<"allowance">>)[i][1]) = {}
<1> DEFINE Names == {"spotPrice", "tokensSold", "realReserve", "virtualReserve", "progressBps",
                     "graduated", "migrated", "balance", "allowance", "feeRecipient",
                     "creatorShareBps", "platformShareBps"}
<1>1. \A n \in Names : Tolerated(n) = {}
  BY DEF Tolerated
<1>2. \A names : (\A i \in DOMAIN names : names[i] \in Names)
                     => \A i \in DOMAIN Keys(names) : Keys(names)[i][1] \in Names
  BY DEF Keys
<1>3. plan.kind \in {"state", "spendState", "settings"}
  BY DEF Seen
<1>4. \A i \in DOMAIN FirstPage : FirstPage[i][1] \in Names
  <2>1. CASE plan.kind = "state"
    <3>1. FirstPage = StateReads
      BY <2>1 DEF FirstPage, Page
    <3> QED
      BY <1>2, <3>1 DEF StateReads
  <2>2. CASE plan.kind = "settings"
    <3>1. FirstPage = Keys(<<"feeRecipient", "creatorShareBps", "platformShareBps">>)
      BY <2>2 DEF FirstPage, Page
    <3> QED
      BY <1>2, <3>1
  <2>3. CASE plan.kind = "spendState" /\ plan.batched
    <3>1. FirstPage = Keys(<<"balance", "allowance">>)
      BY <2>3 DEF FirstPage, Page
    <3> QED
      BY <1>2, <3>1
  <2>4. CASE plan.kind = "spendState" /\ ~plan.batched
    <3>1. FirstPage = Keys(<<"balance">>)
      BY <2>4 DEF FirstPage, Page
    <3> QED
      BY <1>2, <3>1
  <2> QED
    BY <1>3, <2>1, <2>2, <2>3, <2>4
<1>5. \A i \in DOMAIN Keys(<<"allowance">>) : Keys(<<"allowance">>)[i][1] \in Names
  BY <1>2
<1> QED
  BY <1>1, <1>4, <1>5

LEMMA SamePlan ==
    ASSUME plan' = plan
    PROVE  /\ \A c : By(c)' <=> By(c)
           /\ InTurn' <=> InTurn
           /\ FirstPage' = FirstPage
           /\ \A w : PagesOf(w)' = PagesOf(w)
<1>1. \A c : By(c)' <=> By(c)
  BY DEF By
<1>2. InTurn' <=> InTurn
  BY DEF InTurn, By
<1>3. FirstPage' = FirstPage
  BY DEF FirstPage, By, Page, QuotePage, MigratorPage, CratePage, CrateQuotePage,
         CrateMigratorPage
<1>4. \A w : PagesOf(w)' = PagesOf(w)
  BY <1>2, <1>3 DEF PagesOf
<1> QED
  BY <1>1, <1>2, <1>3, <1>4

-----------------------------------------------------------------------------
(* The invariant: the beginning, and what a step makes of a call.          *)

LEMMA TurningIs ==
    ASSUME NEW p, NEW next, NEW whole
    PROVE  LET c == Turning(p, next, whole)
           IN  /\ c = [at |-> c.at, pages |-> c.pages, whole |-> c.whole, got |-> c.got]
               /\ c.at = IF next = <<>> THEN "returned" ELSE "reading"
               /\ c.pages = p /\ c.whole = whole /\ c.got = <<>>
  BY DEF Turning

LEMMA TurnedKept ==
    ASSUME WorldsKept, plan' = plan, history' = history, NEW p, NEW next, NEW whole \in BOOLEAN,
           call' = Turning(p, next, whole)
    PROVE  WorldsKept'
  BY TurningIs DEF WorldsKept

LEMMA ThrownKept ==
    ASSUME WorldsKept, plan' = plan, history' = history, call' = [call EXCEPT !.at = "thrown"]
    PROVE  IInv'
<1>1. /\ call' = [at |-> "thrown", pages |-> call.pages, whole |-> call.whole, got |-> call.got]
      /\ call.whole \in BOOLEAN
  BY DEF WorldsKept
<1>2. call'.at = "thrown" /\ call'.whole = call.whole
  BY <1>1
<1>3. WorldsKept'
  BY <1>1, <1>2 DEF WorldsKept
<1>4. Gathered'
  BY <1>2 DEF Gathered
<1> QED
  BY <1>3, <1>4 DEF IInv

\* A call that has all of a moment.
LEMMA ReturnedKept ==
    ASSUME WorldsKept, plan' = plan, history' = history, NEW whole \in BOOLEAN,
           NEW m \in DOMAIN history, call' = Turning(PagesOf(history[m]), <<>>, whole)
    PROVE  IInv'
<1>1. WorldsKept'
  BY TurnedKept
<1>2. call'.at = "returned" /\ call'.pages = PagesOf(history[m])
  BY TurningIs
<1>3. (call.pages = PagesOf(history[m]))'
  BY <1>2, SamePlan DEF PagesOf
<1>4. m \in DOMAIN history'
  OBVIOUS
<1>5. Gathered'
  BY <1>2, <1>3, <1>4 DEF Gathered
<1> QED
  BY <1>1, <1>5 DEF IInv

\* Nothing is claimed of a call whose answers may be of two moments.
LEMMA UnsureKept ==
    ASSUME WorldsKept', ~(Sure' /\ plan'.kind \in Seen)
    PROVE  IInv'
  BY DEF IInv

LEMMA InitIInv == Init => IInv
<1> SUFFICES ASSUME Init PROVE IInv
  OBVIOUS
<1>1. /\ plan \in Plans /\ history = <<plan.world>>
      /\ call = IF By("ts") THEN Asking(<<>>, Batched) ELSE CrateAsking(<<>>, CrateBatched)
  BY DEF Init
<1>2. plan.world \in Moment /\ OnCurve(plan.world) /\ plan.batched \in BOOLEAN
  BY <1>1, PlanFigures
<1>3. /\ history \in Seq(Moment) /\ history # <<>> /\ DOMAIN history = {1} /\ history[1] = plan.world
      /\ Len(history) = 1
  BY <1>1, <1>2
<1>4. Batched \in BOOLEAN /\ CrateBatched \in BOOLEAN
  BY <1>2 DEF Batched, CrateBatched
<1>5. PICK p, next, whole : whole \in BOOLEAN /\ call = Turning(p, next, whole)
  <2>1. CASE By("ts")
    BY <1>1, <1>4, <2>1 DEF Asking
  <2>2. CASE ~By("ts")
    BY <1>1, <1>4, <2>2 DEF CrateAsking
  <2> QED
    BY <2>1, <2>2
<1>6. WorldsKept
  BY <1>1, <1>2, <1>3, <1>5, TurningIs DEF WorldsKept
<1>7. ASSUME plan.kind \in Seen PROVE Gathered
  <2>1. CASE By("ts")
    <3>1. call = Turning(<<>>, Page(<<>>), Batched) /\ FirstPage = Page(<<>>)
      BY <1>1, <2>1 DEF Asking, FirstPage
    <3>2. Page(<<>>) # <<>>
      BY <1>1, <1>7, <2>1, PagesAre
    <3>3. call.at = "reading" /\ call.pages = <<>> /\ call.got = <<>> /\ call.whole = Batched
      BY <3>1, <3>2, TurningIs
    <3>4. Batched => ~InTurn
      BY DEF Batched, InTurn
    <3>5. Reading(FirstPage)
      BY <2>1, <3>3 DEF Reading
    <3> QED
      BY <3>3, <3>4, <3>5 DEF Gathered
  <2>2. CASE ~By("ts")
    <3>1. /\ ~InTurn /\ CratePage(<<>>) # <<>> /\ CrateBatched /\ plan.kind # "migrators"
      BY <1>1, <1>7, <2>2, CratePagesAre
    <3>2. PassedOver(<<>>) = <<>>
      BY <3>1 DEF PassedOver
    <3>3. call = Turning(<<>>, CratePage(<<>>), CrateBatched)
      BY <1>1, <2>2, <3>2 DEF CrateAsking
    <3>4. call.at = "reading" /\ call.pages = <<>> /\ call.whole = CrateBatched
      BY <3>1, <3>3 DEF Turning
    <3>5. call.whole
      BY <3>1, <3>4, Zenon
    <3> QED
      BY <3>1, <3>4, <3>5 DEF Gathered
  <2> QED
    BY <2>1, <2>2
<1> QED
  BY <1>6, <1>7 DEF IInv

LEMMA GotKept ==
    ASSUME WorldsKept, plan' = plan, history' = history, ~call.whole,
           NEW i, NEW answer, call' = Got(i, answer)
    PROVE  WorldsKept' /\ call'.whole = FALSE
<1> DEFINE got == [j \in DOMAIN call.got \cup {i} |-> IF j = i THEN answer ELSE call.got[j]]
<1>1. CASE DOMAIN got = DOMAIN Asked
  <2>1. PICK p, next : call' = Turning(p, next, FALSE)
    BY <1>1 DEF Got, Asking
  <2>2. WorldsKept'
    BY <2>1, TurnedKept
  <2>3. call'.whole = FALSE
    BY <2>1 DEF Turning
  <2> QED
    BY <2>2, <2>3
<1>2. CASE DOMAIN got # DOMAIN Asked
  <2>1. call' = [call EXCEPT !.got = got]
    BY <1>2 DEF Got
  <2> HIDE DEF got
  <2> QED
    BY <2>1 DEF WorldsKept
<1> QED
  BY <1>1, <1>2

\* A batch that was answered has all of the present moment.
LEMMA AnswerBatchKept ==
    ASSUME IInv, By("ts"), AnswerBatch PROVE IInv'
<1>1. /\ WorldsKept /\ call.at = "reading" /\ call.whole
      /\ plan' = plan /\ history' = history
      /\ call' = Asking(Append(call.pages, Answers(World, Asked)), TRUE)
  BY DEF IInv, AnswerBatch, Answers
<1>2. WorldsKept'
  BY <1>1, TurnedKept DEF Asking
<1>3. CASE plan.kind \in Seen
  <2>1. ~InTurn /\ call.pages = <<>>
    BY <1>1, <1>3 DEF IInv, Sure, Gathered
  <2>2. Asked = FirstPage
    BY <2>1 DEF Asked, FirstPage
  <2>3. Append(call.pages, Answers(World, Asked)) = PagesOf(World)
    BY <2>1, <2>2 DEF PagesOf
  <2>4. Page(PagesOf(World)) = <<>>
    BY <1>1, <1>3, <2>1, PagesAre DEF PagesOf, WorldsKept
  <2>5. call' = Turning(PagesOf(World), <<>>, TRUE)
    BY <1>1, <2>3, <2>4 DEF Asking
  <2>6. Len(history) \in DOMAIN history /\ World = history[Len(history)]
    BY <1>1, WorldIn
  <2> QED
    BY <1>1, <2>5, <2>6, ReturnedKept
<1>4. CASE plan.kind \notin Seen
  BY <1>1, <1>2, <1>4, UnsureKept
<1> QED
  BY <1>3, <1>4

LEMMA CrateAnswerBatchKept ==
    ASSUME IInv, ~By("ts"), CrateAnswerBatch PROVE IInv'
<1>1. /\ WorldsKept /\ call.at = "reading" /\ call.whole
      /\ plan' = plan /\ history' = history
      /\ call' = CrateAsking(Append(call.pages, Answers(World, CrateAsked)), TRUE)
  BY DEF IInv, CrateAnswerBatch, Answers
<1>2. WorldsKept'
  BY <1>1, TurnedKept DEF CrateAsking
<1>3. CASE plan.kind \in Seen
  <2>1. ~InTurn /\ call.pages = <<>>
    BY <1>1, <1>3 DEF IInv, Sure, Gathered
  <2>2. CrateAsked = FirstPage
    BY <2>1 DEF CrateAsked, FirstPage
  <2>3. Append(call.pages, Answers(World, CrateAsked)) = PagesOf(World)
    BY <2>1, <2>2 DEF PagesOf
  <2>4. CratePage(PagesOf(World)) = <<>> /\ PassedOver(PagesOf(World)) = PagesOf(World)
    BY <1>1, <1>3, <2>1, CratePagesAre DEF PagesOf, WorldsKept
  <2>5. call' = Turning(PagesOf(World), <<>>, TRUE)
    BY <1>1, <2>3, <2>4 DEF CrateAsking
  <2>6. Len(history) \in DOMAIN history /\ World = history[Len(history)]
    BY <1>1, WorldIn
  <2> QED
    BY <1>1, <2>5, <2>6, ReturnedKept
<1>4. CASE plan.kind \notin Seen
  BY <1>1, <1>2, <1>4, UnsureKept
<1> QED
  BY <1>3, <1>4

\* A batch that fails has gathered nothing; a state is asked for again, read by read.
LEMMA BatchFailsKept ==
    ASSUME IInv, By("ts"), BatchFails PROVE IInv'
<1>1. /\ WorldsKept /\ call.at = "reading" /\ call.whole /\ plan' = plan /\ history' = history
  BY DEF IInv, BatchFails
<1>2. CASE plan.kind = "state"
  <2>1. call' = Turning(<<>>, Page(<<>>), FALSE) /\ FirstPage = Page(<<>>)
    BY <1>2 DEF BatchFails, Asking, FirstPage
  <2>2. Page(<<>>) # <<>> /\ ~InTurn
    BY <1>1, <1>2, PagesAre DEF WorldsKept, Seen, InTurn
  <2>3. call'.at = "reading" /\ call'.pages = <<>> /\ call'.got = <<>> /\ call'.whole = FALSE
    BY <2>1, <2>2 DEF Turning
  <2>4. WorldsKept'
    BY <1>1, <2>1, TurnedKept
  <2>5. Reading(FirstPage)'
    BY <1>1, <2>3, SamePlan DEF Reading
  <2>6. Gathered'
    BY <2>3, <2>5 DEF Gathered
  <2> QED
    BY <2>4, <2>6 DEF IInv
<1>3. CASE plan.kind # "state"
  BY <1>1, <1>3, ThrownKept DEF BatchFails
<1> QED
  BY <1>2, <1>3

LEMMA CrateBatchFailsKept ==
    ASSUME IInv, ~By("ts"), CrateBatchFails PROVE IInv'
<1>1. /\ WorldsKept /\ call.at = "reading" /\ call.whole /\ plan' = plan /\ history' = history
  BY DEF IInv, CrateBatchFails
<1>2. CASE plan.kind = "state"
  <2>1. /\ ~InTurn /\ CratePage(<<>>) # <<>> /\ CratePage(<<>>) = StateReads
    BY <1>1, <1>2, CratePagesAre DEF WorldsKept, Seen, CratePage
  <2>2. PassedOver(<<>>) = <<>>
    BY <1>2 DEF PassedOver
  <2>3. call' = Turning(<<>>, CratePage(<<>>), FALSE)
    BY <1>2, <2>2 DEF CrateBatchFails, CrateAsking
  <2>4. call'.at = "reading" /\ call'.pages = <<>> /\ call'.got = <<>> /\ call'.whole = FALSE
    BY <2>1, <2>3 DEF Turning
  <2>5. WorldsKept'
    BY <1>1, <2>3, TurnedKept
  <2>6. FirstPage = StateReads /\ DOMAIN StateReads = 1 .. 7 /\ Len(StateReads) = 7
    BY <2>1, StateReadsAre DEF FirstPage
  <2>7. Reading(FirstPage)'
    <3>1. call'.got = [j \in 1 .. 0 |-> Read(history'[1], FirstPage'[j])]
      BY <2>4
    <3>2. FirstPage' = StateReads
      BY <1>1, <2>6, SamePlan
    <3>3. 0 \in 0 .. Len(FirstPage') - 1
      BY <2>6, <3>2
    <3> QED
      BY <1>1, <3>1, <3>3, SamePlan DEF Reading
  <2>8. Gathered'
    BY <2>4, <2>7 DEF Gathered
  <2> QED
    BY <2>5, <2>8 DEF IInv
<1>3. CASE plan.kind # "state"
  BY <1>1, <1>3, ThrownKept DEF CrateBatchFails
<1> QED
  BY <1>2, <1>3

LEMMA ReadFailsKept ==
    ASSUME IInv, By("ts"), ReadFails PROVE IInv'
<1>1. /\ WorldsKept /\ plan' = plan /\ history' = history
      /\ call.at = "reading" /\ ~call.whole
  BY DEF IInv, ReadFails, Outstanding
<1>2. PICK i \in Outstanding :
         IF Tolerated(Asked[i][1]) = {} THEN call' = [call EXCEPT !.at = "thrown"]
         ELSE \E answer \in Tolerated(Asked[i][1]) : call' = Got(i, answer)
  BY DEF ReadFails
<1>3. CASE Tolerated(Asked[i][1]) = {}
  BY <1>1, <1>2, <1>3, ThrownKept
<1>4. CASE Tolerated(Asked[i][1]) # {}
  <2>1. PICK answer : call' = Got(i, answer)
    BY <1>2, <1>4
  <2>2. WorldsKept' /\ call'.whole = FALSE
    BY <1>1, <2>1, GotKept
  <2>3. ~(Sure /\ plan.kind \in Seen)
    <3> SUFFICES ASSUME Sure, plan.kind \in Seen PROVE FALSE
      OBVIOUS
    <3>1. plan \in Plans /\ i \in DOMAIN Asked
      BY <1>1 DEF WorldsKept, Outstanding
    <3>2. \/ call.pages = <<>> /\ Asked = FirstPage
          \/ Asked = Keys(<<"allowance">>)
      <4>1. \/ call.pages = <<>>
            \/ InTurn /\ call.pages = <<Answers(history[1], Keys(<<"balance">>))>>
        BY <1>1 DEF IInv, Gathered
      <4> QED
        BY <3>1, <4>1, PagesAre DEF Asked, FirstPage
    <3> QED
      BY <1>4, <3>1, <3>2, NoneTolerated
  <2> QED
    BY <1>1, <2>2, <2>3, UnsureKept DEF Sure
<1> QED
  BY <1>3, <1>4

LEMMA PairIs == \A a, b : Append(<<a>>, b) = <<a, b>>
<1> SUFFICES ASSUME NEW a, NEW b PROVE Append(<<a>>, b) = <<a, b>>
  OBVIOUS
<1> DEFINE S == {a, b}
<1>1. <<a>> \in Seq(S) /\ b \in S /\ Len(<<a>>) = 1 /\ <<a>>[1] = a
  OBVIOUS
<1> HIDE DEF S
<1> DEFINE p == Append(<<a>>, b)
<1>2. p \in Seq(S) /\ Len(p) = 2 /\ p[1] = a /\ p[2] = b
  BY <1>1
<1> HIDE DEF p
<1>3. p = [i \in 1 .. 2 |-> p[i]]
  BY <1>2
<1>4. <<a, b>> = [i \in 1 .. 2 |-> <<a, b>>[i]]
  OBVIOUS
<1>5. \A i \in 1 .. 2 : p[i] = <<a, b>>[i]
  BY <1>2
<1>6. p = <<a, b>>
  BY <1>3, <1>4, <1>5
<1> QED
  BY <1>6 DEF p

\* An answer to one of the reads that are out, while the chain has not moved.
LEMMA ReadAnswersSure ==
    ASSUME IInv, By("ts"), ReadAnswers, Len(history) = 1, plan.kind \in Seen
    PROVE  IInv'
<1> DEFINE h == history[1]
<1>1. /\ WorldsKept /\ plan' = plan /\ history' = history /\ plan \in Plans
      /\ call.at = "reading" /\ ~call.whole
  BY DEF IInv, ReadAnswers, Outstanding, WorldsKept
<1>2. World = h /\ 1 \in DOMAIN history
  BY <1>1, WorldIn
<1>3. PICK i \in DOMAIN Asked : call' = Got(i, Read(h, Asked[i]))
  BY <1>2 DEF ReadAnswers, Outstanding
<1>4. \/ /\ call.pages = <<>> /\ Asked = FirstPage
      \/ /\ InTurn /\ Asked = Keys(<<"allowance">>)
         /\ call.pages = <<Answers(h, Keys(<<"balance">>))>>
  BY <1>1, PagesAre DEF IInv, Sure, Gathered, Asked, FirstPage
<1>5. Reading(Asked)
  <2>1. \/ call.pages = <<>> /\ Reading(FirstPage)
        \/ /\ call.pages = <<Answers(h, Keys(<<"balance">>))>>
           /\ Reading(Keys(<<"allowance">>))
    BY <1>1 DEF IInv, Sure, Gathered
  <2> QED
    BY <1>4, <2>1
<1> DEFINE D == DOMAIN call.got \cup {i}
           got == [j \in D |-> IF j = i THEN Read(h, Asked[i]) ELSE call.got[j]]
<1>6. D \subseteq DOMAIN Asked /\ got = [j \in D |-> Read(h, Asked[j])] /\ DOMAIN got = D
  <2>1. /\ DOMAIN call.got \subseteq DOMAIN Asked
        /\ call.got = [j \in DOMAIN call.got |-> Read(h, Asked[j])]
    BY <1>5 DEF Reading
  <2>2. \A j \in DOMAIN call.got : call.got[j] = Read(h, Asked[j])
    BY <2>1
  <2> QED
    BY <1>3, <2>1, <2>2
<1>7. call' = IF D = DOMAIN Asked
              THEN Asking(Append(call.pages, [j \in DOMAIN Asked |-> got[j]]), FALSE)
              ELSE [call EXCEPT !.got = got]
  BY <1>3 DEF Got
<1> HIDE DEF got
<1>8. CASE D = DOMAIN Asked
  <2>1. [j \in DOMAIN Asked |-> got[j]] = Answers(h, Asked)
    BY <1>6, <1>8 DEF Answers
  <2> DEFINE all == Append(call.pages, Answers(h, Asked))
  <2>2. call' = Turning(all, Page(all), FALSE)
    BY <1>7, <1>8, <2>1 DEF Asking
  <2>3. CASE all = PagesOf(h) /\ Page(all) = <<>>
    BY <1>1, <1>2, <2>2, <2>3, ReturnedKept
  <2>4. CASE InTurn /\ all = <<Answers(h, Keys(<<"balance">>))>> /\ Page(all) = Keys(<<"allowance">>)
    <3>1. Keys(<<"allowance">>) # <<>>
      BY <1>1, <2>4, PagesAre
    <3>2. /\ call'.at = "reading" /\ call'.whole = FALSE /\ call'.got = <<>>
          /\ call'.pages = <<Answers(h, Keys(<<"balance">>))>>
      BY <2>2, <2>4, <3>1 DEF Turning
    <3>3. WorldsKept'
      BY <1>1, <2>2, TurnedKept
    <3>4. Reading(Keys(<<"allowance">>))'
      BY <1>1, <3>2, SamePlan DEF Reading
    <3>5. InTurn' /\ (call.pages = <<Answers(history[1], Keys(<<"balance">>))>>)'
      BY <1>1, <2>4, <3>2, SamePlan
    <3>6. Gathered'
      BY <3>2, <3>4, <3>5 DEF Gathered
    <3> QED
      BY <3>3, <3>6 DEF IInv
  <2>5. \/ all = PagesOf(h) /\ Page(all) = <<>>
        \/ /\ InTurn /\ all = <<Answers(h, Keys(<<"balance">>))>>
           /\ Page(all) = Keys(<<"allowance">>)
    <3>1. CASE call.pages = <<>> /\ Asked = FirstPage /\ ~InTurn
      <4>1. all = <<Answers(h, FirstPage)>>
        BY <3>1
      <4> QED
        BY <1>1, <3>1, <4>1, PagesAre DEF PagesOf
    <3>2. CASE call.pages = <<>> /\ Asked = FirstPage /\ InTurn
      <4>1. FirstPage = Keys(<<"balance">>)
        BY <1>1, <3>2, PagesAre DEF FirstPage
      <4>2. all = <<Answers(h, Keys(<<"balance">>))>>
        BY <3>2, <4>1
      <4> QED
        BY <1>1, <3>2, <4>2, PagesAre
    <3>3. CASE /\ InTurn /\ Asked = Keys(<<"allowance">>)
               /\ call.pages = <<Answers(h, Keys(<<"balance">>))>>
      <4>0. \A a, b : Append(<<a>>, b) = <<a, b>>
        BY PairIs
      <4>1. all = <<Answers(h, Keys(<<"balance">>)), Answers(h, Keys(<<"allowance">>))>>
        BY <3>3, <4>0
      <4> QED
        BY <1>1, <3>3, <4>1, PagesAre DEF PagesOf
    <3> QED
      BY <1>4, <3>1, <3>2, <3>3
  <2> QED
    BY <2>3, <2>4, <2>5
<1>9. CASE D # DOMAIN Asked
  <2>1. call' = [call EXCEPT !.got = got]
    BY <1>7, <1>9
  <2>2. /\ call'.at = "reading" /\ ~call'.whole /\ call'.pages = call.pages /\ call'.got = got
        /\ WorldsKept'
    BY <1>1, <2>1 DEF WorldsKept
  <2>3. ASSUME NEW asked, asked = Asked PROVE Reading(asked)'
    BY <1>1, <1>6, <2>2, <2>3, SamePlan DEF Reading
  <2>4. CASE call.pages = <<>> /\ Asked = FirstPage
    <3>1. Reading(FirstPage)'
      <4>1. PICK asked : asked = Asked
        OBVIOUS
      <4>2. Reading(asked)' /\ asked = FirstPage'
        BY <1>1, <2>3, <2>4, <4>1, SamePlan
      <4> QED
        BY <4>2 DEF Reading
    <3>2. Gathered'
      BY <2>2, <2>4, <3>1 DEF Gathered
    <3> QED
      BY <2>2, <3>2 DEF IInv
  <2>5. CASE /\ InTurn /\ Asked = Keys(<<"allowance">>)
             /\ call.pages = <<Answers(h, Keys(<<"balance">>))>>
    <3>1. Reading(Keys(<<"allowance">>))'
      BY <2>3, <2>5
    <3>2. InTurn' /\ (call.pages = <<Answers(history[1], Keys(<<"balance">>))>>)'
      BY <1>1, <2>2, <2>5, SamePlan
    <3>3. Gathered'
      BY <2>2, <3>1, <3>2 DEF Gathered
    <3> QED
      BY <2>2, <3>3 DEF IInv
  <2> QED
    BY <1>4, <2>4, <2>5
<1> QED
  BY <1>8, <1>9

LEMMA ReadAnswersKept ==
    ASSUME IInv, By("ts"), ReadAnswers PROVE IInv'
<1>1. /\ WorldsKept /\ plan' = plan /\ history' = history /\ ~call.whole
  BY DEF IInv, ReadAnswers, Outstanding
<1>2. CASE Len(history) = 1 /\ plan.kind \in Seen
  BY <1>2, ReadAnswersSure
<1>3. CASE ~(Len(history) = 1 /\ plan.kind \in Seen)
  <2>1. PICK i, answer : call' = Got(i, answer)
    BY DEF ReadAnswers
  <2>2. WorldsKept' /\ call'.whole = FALSE
    BY <1>1, <2>1, GotKept
  <2> QED
    BY <1>1, <1>3, <2>2, UnsureKept DEF Sure
<1> QED
  BY <1>2, <1>3

\* What the crate has of a page, with one answer more.
LEMMA OneMore ==
    ASSUME NEW R, NEW n \in Nat
    PROVE  LET got == [j \in 1 .. n |-> R[j]]
           IN  /\ Append(got, R[n + 1]) = [j \in 1 .. n + 1 |-> R[j]]
               /\ Len(got) = n /\ Len(Append(got, R[n + 1])) = n + 1
<1> DEFINE got == [j \in 1 .. n |-> R[j]]
           S == {R[j] : j \in 1 .. n}
<1>1. got \in Seq(S) /\ Len(got) = n
  OBVIOUS
<1> HIDE DEF S
<1>2. Len(Append(got, R[n + 1])) = n + 1 /\ DOMAIN Append(got, R[n + 1]) = 1 .. n + 1
  BY <1>1
<1>3. \A j \in 1 .. n + 1 : Append(got, R[n + 1])[j] = R[j]
  BY <1>1
<1> QED
  BY <1>1, <1>2, <1>3

LEMMA CrateReadAnswersKept ==
    ASSUME IInv, ~By("ts"), CrateReadAnswers PROVE IInv'
<1> DEFINE h == history[1]
           got == Append(call.got, Read(World, CrateAsked[Len(call.got) + 1]))
<1>1. /\ WorldsKept /\ plan' = plan /\ history' = history /\ plan \in Plans
      /\ call.at = "reading" /\ ~call.whole /\ call.whole = FALSE
      /\ call' = IF Len(got) = Len(CrateAsked) THEN CrateAsking(Append(call.pages, got), FALSE)
                 ELSE [call EXCEPT !.got = got]
  BY DEF IInv, CrateReadAnswers, WorldsKept
<1> HIDE DEF got
<1>2. WorldsKept' /\ call'.whole = FALSE
  <2>1. CASE Len(got) = Len(CrateAsked)
    <3>1. PICK p, next : call' = Turning(p, next, FALSE)
      BY <1>1, <2>1 DEF CrateAsking
    <3>2. WorldsKept'
      BY <1>1, <3>1, TurnedKept
    <3>3. call'.whole = FALSE
      BY <3>1 DEF Turning
    <3> QED
      BY <3>2, <3>3
  <2>2. CASE Len(got) # Len(CrateAsked)
    <3>1. call' = [call EXCEPT !.got = got]
      BY <1>1, <2>2
    <3> QED
      BY <1>1, <3>1 DEF WorldsKept
  <2> QED
    BY <2>1, <2>2
<1>3. CASE Len(history) = 1 /\ plan.kind \in Seen
  <2>1. World = h /\ 1 \in DOMAIN history
    BY <1>1, <1>3, WorldIn
  <2>2. ~InTurn
    BY <1>1, <1>3, CratePagesAre
  <2>3. call.pages = <<>> /\ Reading(FirstPage) /\ CrateAsked = FirstPage
    BY <1>1, <1>3, <2>2 DEF IInv, Sure, Gathered, CrateAsked, FirstPage
  <2>4. /\ Len(FirstPage) \in Nat /\ DOMAIN FirstPage = 1 .. Len(FirstPage)
    BY <1>1, <1>3, FirstPageIs
  <2>5. PICK n \in 0 .. Len(FirstPage) - 1 : call.got = [j \in 1 .. n |-> Read(h, FirstPage[j])]
    BY <2>3 DEF Reading
  <2> DEFINE R == [j \in 1 .. Len(FirstPage) |-> Read(h, FirstPage[j])]
  <2>6. n \in Nat /\ n + 1 \in 1 .. Len(FirstPage) /\ call.got = [j \in 1 .. n |-> R[j]]
    BY <2>4, <2>5
  <2>7. Len(call.got) = n
    BY <2>6, OneMore
  <2>8. got = Append([j \in 1 .. n |-> R[j]], R[n + 1])
    BY <2>1, <2>3, <2>6, <2>7 DEF got
  <2>9. got = [j \in 1 .. n + 1 |-> R[j]] /\ Len(got) = n + 1
    BY <2>6, <2>8, OneMore
  <2>10. got = [j \in 1 .. n + 1 |-> Read(h, FirstPage[j])]
    BY <2>4, <2>6, <2>9
  <2> HIDE DEF R
  <2>11. CASE n + 1 = Len(FirstPage)
    <3>1. got = Answers(h, FirstPage)
      BY <2>4, <2>10, <2>11 DEF Answers
    <3>2. Append(call.pages, got) = PagesOf(h)
      BY <2>2, <2>3, <3>1 DEF PagesOf
    <3>3. CratePage(PagesOf(h)) = <<>> /\ PassedOver(PagesOf(h)) = PagesOf(h)
      BY <1>1, <1>3, <2>2, CratePagesAre DEF PagesOf
    <3>4. call' = Turning(PagesOf(h), <<>>, FALSE)
      BY <1>1, <2>3, <2>9, <2>11, <3>2, <3>3 DEF CrateAsking
    <3> QED
      BY <1>1, <2>1, <3>4, ReturnedKept
  <2>12. CASE n + 1 # Len(FirstPage)
    <3>1. call' = [call EXCEPT !.got = got]
      BY <1>1, <2>3, <2>9, <2>12
    <3>2. call'.at = "reading" /\ call'.pages = <<>> /\ call'.got = got
      BY <1>1, <2>3, <3>1 DEF WorldsKept
    <3>3. FirstPage' = FirstPage /\ ~By("ts")'
      BY <1>1, SamePlan
    <3>4. n + 1 \in 0 .. Len(FirstPage) - 1
      <4>1. PICK k \in Nat : k = Len(FirstPage)
        BY <2>4
      <4> QED
        BY <2>6, <2>12, <4>1
    <3>5. Reading(FirstPage)'
      BY <1>1, <2>10, <3>2, <3>3, <3>4, ZenonT(40) DEF Reading
    <3>6. Gathered'
      BY <1>2, <3>2, <3>5 DEF Gathered
    <3> QED
      BY <1>2, <3>6 DEF IInv
  <2> QED
    BY <2>11, <2>12
<1>4. CASE ~(Len(history) = 1 /\ plan.kind \in Seen)
  BY <1>1, <1>2, <1>4, UnsureKept DEF Sure
<1> QED
  BY <1>3, <1>4

\* The chain moves only while a call is out, and brings no answer to it.
LEMMA ChainMovesKept ==
    ASSUME IInv, ChainMoves PROVE IInv'
<1>1. /\ WorldsKept /\ plan \in Plans /\ plan' = plan /\ call' = call /\ call.at = "reading"
      /\ history \in Seq(Moment) /\ history # <<>>
      /\ \A m \in DOMAIN history : OnCurve(history[m])
  BY DEF IInv, ChainMoves, WorldsKept
<1>2. PICK w : w \in Changes(World) /\ history' = Append(history, w)
  BY DEF ChainMoves
<1>3. w \in Moment /\ OnCurve(w)
  BY <1>1, <1>2, WorldIn, ChangesKept
<1>4. /\ history' \in Seq(Moment) /\ history' # <<>> /\ Len(history') # 1
      /\ \A m \in DOMAIN history' : OnCurve(history'[m])
  <2>1. /\ Len(history) \in Nat \ {0} /\ DOMAIN history = 1 .. Len(history)
    BY <1>1
  <2>2. /\ history' \in Seq(Moment) /\ Len(history') = Len(history) + 1
        /\ DOMAIN history' = 1 .. Len(history) + 1
        /\ \A m \in 1 .. Len(history) : history'[m] = history[m]
        /\ history'[Len(history) + 1] = w
    BY <1>1, <1>2, <1>3
  <2> QED
    BY <1>1, <1>3, <2>1, <2>2
<1>5. WorldsKept'
  BY <1>1, <1>4 DEF WorldsKept
<1>6. CASE call.whole /\ plan.kind \in Seen
  <2>1. ~InTurn /\ call.pages = <<>>
    BY <1>1, <1>6 DEF IInv, Sure, Gathered
  <2>2. ~InTurn' /\ call'.pages = <<>> /\ call'.whole /\ call'.at = "reading"
    BY <1>1, <1>6, <2>1, SamePlan
  <2>3. Gathered'
    BY <2>2 DEF Gathered
  <2> QED
    BY <1>5, <2>3 DEF IInv
<1>7. CASE ~(call.whole /\ plan.kind \in Seen)
  <2>1. ~(Sure' /\ plan'.kind \in Seen)
    BY <1>1, <1>4, <1>7 DEF Sure
  <2> QED
    BY <1>5, <2>1, UnsureKept
<1> QED
  BY <1>6, <1>7

LEMMA StepIInv == IInv /\ [Next]_vars => IInv'
<1> SUFFICES ASSUME IInv, [Next]_vars PROVE IInv'
  OBVIOUS
<1>1. CASE By("ts") /\ AnswerBatch
  BY <1>1, AnswerBatchKept
<1>2. CASE By("ts") /\ BatchFails
  BY <1>2, BatchFailsKept
<1>3. CASE By("ts") /\ ReadAnswers
  BY <1>3, ReadAnswersKept
<1>4. CASE By("ts") /\ ReadFails
  BY <1>4, ReadFailsKept
<1>5. CASE By("crate") /\ CrateAnswerBatch
  BY <1>5, CrateAnswerBatchKept DEF By
<1>6. CASE By("crate") /\ CrateBatchFails
  BY <1>6, CrateBatchFailsKept DEF By
<1>7. CASE By("crate") /\ CrateReadAnswers
  BY <1>7, CrateReadAnswersKept DEF By
<1>8. CASE By("crate") /\ CrateReadFails
  BY <1>8, ThrownKept DEF CrateReadFails, IInv
<1>9. CASE ChainMoves
  BY <1>9, ChainMovesKept
<1>10. CASE UNCHANGED vars
  <2>1. plan' = plan /\ history' = history /\ call' = call
    BY <1>10 DEF vars
  <2>2. WorldsKept'
    BY <2>1 DEF IInv, WorldsKept
  <2>3. Gathered => Gathered'
    BY <2>1, SamePlan DEF Gathered, Reading, PagesOf
  <2> QED
    BY <2>1, <2>2, <2>3 DEF IInv, Sure
<1> QED
  BY <1>1, <1>2, <1>3, <1>4, <1>5, <1>6, <1>7, <1>8, <1>9, <1>10 DEF Next

LEMMA Invariant == Spec => []IInv
<1> QED
  BY InitIInv, StepIInv, PTL DEF Spec

-----------------------------------------------------------------------------
(* What is told of a moment, when a call has all of it.                    *)

LEMMA StateReadsTell ==
    ASSUME NEW w
    PROVE  /\ Read(w, StateReads[2]) = w.sold
           /\ Read(w, StateReads[4]) = w.reserve
           /\ Read(w, StateReads[6]) = w.graduated
<1>1. /\ StateReads[2] = <<"tokensSold", "">> /\ StateReads[4] = <<"virtualReserve", "">>
      /\ StateReads[6] = <<"graduated", "">>
  <2> DEFINE names == <<"spotPrice", "tokensSold", "realReserve", "virtualReserve",
                        "progressBps", "graduated", "migrated">>
  <2>1. /\ names[2] = "tokensSold" /\ names[4] = "virtualReserve" /\ names[6] = "graduated"
        /\ StateReads = Keys(names)
    BY DEF StateReads
  <2> HIDE DEF names
  <2>2. DOMAIN names = 1 .. 7
    BY <2>1, KeysAsk
  <2>3. \A i \in DOMAIN names : Keys(names)[i] = <<names[i], "">>
    BY DEF Keys
  <2>4. 2 \in DOMAIN names /\ 4 \in DOMAIN names /\ 6 \in DOMAIN names
    BY <2>2
  <2>5. /\ Keys(names)[2] = <<names[2], "">> /\ Keys(names)[4] = <<names[4], "">>
        /\ Keys(names)[6] = <<names[6], "">>
    BY <2>3, <2>4, Zenon
  <2> QED
    BY <2>1, <2>5, Zenon
<1>2. Read(w, <<"tokensSold", "">>) = w.sold
  BY DEF Read
<1>3. Read(w, <<"virtualReserve", "">>) = w.reserve
  BY DEF Read
<1>4. Read(w, <<"graduated", "">>) = w.graduated
  BY DEF Read
<1> QED
  BY <1>1, <1>2, <1>3, <1>4

\* A caller of the crate gives figures of 256 bits, and the curve's own are.
LEMMA CurveIsAsked ==
    ASSUME NEW w \in Moment, OnCurve(w), ~w.graduated
    PROVE  AskedAt(Curve, w.reserve, w.sold)
<1>1. OpenAt(Curve, w.reserve, w.sold)
  BY CurveIs
<1>2. Curve \in CurveRecord /\ Placed(Curve)
  BY ViewsAssumption
<1> DEFINE price == MulDivUp(Curve.r0, Curve.y0, Curve.y0 - w.sold)
<1>3. /\ Curve.r0 \in Nat \ {0} /\ Curve.y0 \in Nat \ {0} /\ Curve.supply \in Nat
      /\ Curve.target \in Nat /\ w.sold \in Nat /\ Curve.supply - w.sold \in Nat \ {0}
      /\ Curve.y0 - w.sold \in Nat \ {0} /\ Curve.y0 - Curve.supply \in Nat \ {0}
      /\ price \in Nat \ {0}
      /\ Curve.feeBps \in 0 .. BpsDenominator - 1
  BY <1>1, OpenFigures
<1>4. price >= Curve.r0
  <2>1. MulDivUp(Curve.r0, Curve.y0, Curve.y0) = Curve.r0
    BY <1>2, PlacedFigures
  <2>2. MulDivUp(Curve.r0, Curve.y0, Curve.y0) <= price
    <3>1. Curve.r0 \in Nat /\ Curve.y0 \in Nat /\ Curve.y0 - w.sold <= Curve.y0
      BY <1>3
    <3> QED
      BY <1>3, <3>1, ReserveFalls
  <2> HIDE DEF price
  <2> QED
    BY <1>3, <2>1, <2>2
<1> HIDE DEF price
<1>5. /\ w.reserve \in Nat /\ w.reserve >= price /\ w.reserve <= Curve.r0 + Curve.target
      /\ w.reserve >= Curve.r0 /\ price <= Curve.r0 + Curve.target
  <2>1. /\ w.reserve \in Nat /\ w.reserve - Curve.r0 \in 0 .. Curve.target - 1
        /\ w.reserve >= price
    BY <1>1 DEF OpenAt, price
  <2> QED
    BY <1>3, <1>4, <2>1
<1>6. /\ Wad \in Nat /\ Fits(BpsDenominator) /\ Fits(Curve.y0) /\ Fits(Curve.r0 + Curve.target)
  BY RoomAssumption
<1>7. Fits(w.reserve) /\ Fits(price) /\ Fits(Curve.supply)
  <2>1. Curve.r0 + Curve.target \in Nat /\ Curve.supply <= Curve.y0
    BY <1>3
  <2> QED
    BY <1>3, <1>5, <1>6, <2>1, FitsBelow
<1>8. Curve.feeBps \in 0 .. BpsDenominator
  <2>1. Curve.feeBps \in 0 .. BpsDenominator - 1
    BY <1>3
  <2>2. PICK fee : fee = Curve.feeBps
    OBVIOUS
  <2>3. fee \in 0 .. BpsDenominator - 1
    BY <2>1, <2>2, Zenon
  <2>4. fee \in 0 .. BpsDenominator
    BY ONLY <2>3 DEF BpsDenominator
  <2> QED
    BY <2>2, <2>4, Zenon
<1> QED
  BY <1>3, <1>5, <1>6, <1>7, <1>8 DEF AskedAt, price

\* A state that says where the curve is has either client price what the chain would.
LEMMA PricedAlike ==
    ASSUME plan \in Plans, NEW w \in Moment, OnCurve(w),
           State.tokensSold = w.sold, State.virtualReserve = w.reserve,
           State.graduated = w.graduated
    PROVE  /\ \A d \in BuySizes : BuyPriced(d) = BuyOnChain(w, d)
           /\ \A t \in SellSizes : SellPriced(t) = SellOnChain(w, t)
<1>1. SnapshotOf(State) = [reserve |-> w.reserve, sold |-> w.sold]
  BY DEF SnapshotOf
<1> HIDE DEF State
<1>2. CASE By("ts")
  BY <1>1, <1>2 DEF BuyPriced, SellPriced, BuyLocal, SellLocal, BuyOnChain, SellOnChain
<1>3. CASE ~By("ts") /\ w.graduated
  BY <1>3 DEF BuyPriced, SellPriced, CrateBuyLocal, CrateSellLocal, BuyOnChain, SellOnChain
<1>4. CASE ~By("ts") /\ ~w.graduated
  <2>1. AskedAt(Curve, w.reserve, w.sold)
    BY <1>4, CurveIsAsked
  <2>2. ASSUME NEW d \in BuySizes PROVE BuyPriced(d) = BuyOnChain(w, d)
    <3>1. d \in Nat /\ Fits(d)
      BY ViewsAssumption, RoomAssumption
    <3> DEFINE q == quote_buy(Curve, w.reserve, w.sold, d)
    <3>2. /\ q.ok <=> ~BuyReverts(Curve, w.reserve, w.sold, d)
          /\ q.ok => q.value = QuoteBuy(Curve, w.reserve, w.sold, d)
      BY <2>1, <3>1, BuysAgreeAt
    <3>3. BuyPriced(d) = IF q.ok THEN {q.value} ELSE {}
      BY <1>1, <1>4 DEF BuyPriced, CrateBuyLocal
    <3> HIDE DEF q
    <3>4. BuyOnChain(w, d) = IF ~BuyReverts(Curve, w.reserve, w.sold, d)
                             THEN {QuoteBuy(Curve, w.reserve, w.sold, d)} ELSE {}
      BY <1>4 DEF BuyOnChain
    <3> QED
      BY <3>2, <3>3, <3>4
  <2>3. ASSUME NEW t \in SellSizes PROVE SellPriced(t) = SellOnChain(w, t)
    <3>1. t \in Nat /\ w.sold \in Nat
      BY ViewsAssumption DEF Moment
    <3> DEFINE q == quote_sell(Curve, w.reserve, w.sold, t)
    <3>2. /\ q.ok <=> ~SellReverts(Curve, w.reserve, w.sold, t)
          /\ q.ok => q.value = QuoteSell(Curve, w.reserve, w.sold, t)
      BY <2>1, <3>1, SellsAgreeAt
    <3>3. SellPriced(t) = IF t <= w.sold /\ q.ok THEN {q.value} ELSE {}
      BY <1>1, <1>4 DEF SellPriced, CrateSellLocal
    <3> HIDE DEF q
    <3>4. SellOnChain(w, t) = IF ~SellReverts(Curve, w.reserve, w.sold, t)
                              THEN {QuoteSell(Curve, w.reserve, w.sold, t)} ELSE {}
      BY <1>4 DEF SellOnChain
    <3>5. ~(t <= w.sold) => SellReverts(Curve, w.reserve, w.sold, t)
      <4>1. ~(t <= w.sold) => w.sold < t
        BY <3>1
      <4> QED
        BY <4>1 DEF SellReverts
    <3> QED
      BY <3>2, <3>3, <3>4, <3>5
  <2> QED
    BY <2>2, <2>3
<1> QED
  BY <1>2, <1>3, <1>4

LEMMA TrueOfState ==
    ASSUME plan \in Plans, plan.kind = "state", NEW w \in Moment, OnCurve(w),
           call.pages = <<Answers(w, StateReads)>>
    PROVE  TrueOf(w)
<1>1. \A i \in DOMAIN StateReads : call.pages[1][i] = Read(w, StateReads[i])
  BY DEF Answers
<1>2. /\ State.tokensSold = Read(w, StateReads[2])
      /\ State.virtualReserve = Read(w, StateReads[4])
      /\ State.graduated = Read(w, StateReads[6])
  BY <1>1, KeysAsk DEF State
<1>3. /\ State.tokensSold = w.sold /\ State.virtualReserve = w.reserve
      /\ State.graduated = w.graduated
  BY <1>2, StateReadsTell
<1>4. /\ \A d \in BuySizes : BuyPriced(d) = BuyOnChain(w, d)
      /\ \A t \in SellSizes : SellPriced(t) = SellOnChain(w, t)
  BY <1>3, PricedAlike
<1> QED
  BY <1>1, <1>4 DEF TrueOf

LEMMA TuplesAre ==
    /\ \A a : <<a>> = [i \in 1 .. 1 |-> a]
    /\ \A a, b : <<a, b>> = [i \in 1 .. 2 |-> IF i = 1 THEN a ELSE b]
    /\ \A a, b : <<a>> \o <<b>> = <<a, b>>
<1>1. \A a : <<a>> = [i \in 1 .. 1 |-> a]
  OBVIOUS
<1>2. \A a, b : <<a, b>> = [i \in 1 .. 2 |-> IF i = 1 THEN a ELSE b]
  OBVIOUS
<1>3. ASSUME NEW a, NEW b PROVE <<a>> \o <<b>> = <<a, b>>
  <2> DEFINE S == {a, b}
  <2>1. <<a>> \in Seq(S) /\ b \in S
    OBVIOUS
  <2> HIDE DEF S
  <2>2. Append(<<a>>, b) = <<a>> \o <<b>>
    BY <2>1, AppendIsConcat
  <2> QED
    BY <2>2, PairIs
<1> QED
  BY <1>1, <1>2, <1>3

LEMMA AnswersAre ==
    ASSUME NEW w
    PROVE  /\ \A n : Answers(w, Keys(<<n>>)) = <<Read(w, <<n, "">>)>>
           /\ \A n, m : Answers(w, Keys(<<n, m>>)) = <<Read(w, <<n, "">>), Read(w, <<m, "">>)>>
<1>1. ASSUME NEW n PROVE Answers(w, Keys(<<n>>)) = <<Read(w, <<n, "">>)>>
  <2>1. Keys(<<n>>) = [i \in 1 .. 1 |-> <<n, "">>]
    BY TuplesAre DEF Keys
  <2>2. Answers(w, Keys(<<n>>)) = [i \in 1 .. 1 |-> Read(w, <<n, "">>)]
    BY <2>1 DEF Answers
  <2> QED
    BY <2>2, TuplesAre
<1>2. ASSUME NEW n, NEW m
      PROVE  Answers(w, Keys(<<n, m>>)) = <<Read(w, <<n, "">>), Read(w, <<m, "">>)>>
  <2> DEFINE names == <<n, m>>
  <2>1. names[1] = n /\ names[2] = m /\ DOMAIN names = 1 .. 2
    OBVIOUS
  <2> HIDE DEF names
  <2>2. Answers(w, Keys(names)) = [i \in 1 .. 2 |-> Read(w, <<names[i], "">>)]
    BY <2>1 DEF Answers, Keys
  <2>3. \A i \in 1 .. 2 : Read(w, <<names[i], "">>)
                               = IF i = 1 THEN Read(w, <<n, "">>) ELSE Read(w, <<m, "">>)
    <3> SUFFICES ASSUME NEW i \in 1 .. 2
                 PROVE  Read(w, <<names[i], "">>)
                            = IF i = 1 THEN Read(w, <<n, "">>) ELSE Read(w, <<m, "">>)
      OBVIOUS
    <3>1. CASE i = 1
      BY <2>1, <3>1, Zenon
    <3>2. CASE i = 2
      <4>1. i # 1
        BY <3>2
      <4> QED
        BY <2>1, <3>2, <4>1, Zenon
    <3>3. i = 1 \/ i = 2
      OBVIOUS
    <3> QED
      BY <3>1, <3>2, <3>3, Zenon
  <2>4. Answers(w, Keys(names))
            = [i \in 1 .. 2 |-> IF i = 1 THEN Read(w, <<n, "">>) ELSE Read(w, <<m, "">>)]
    BY <2>2, <2>3
  <2>5. Answers(w, Keys(names)) = <<Read(w, <<n, "">>), Read(w, <<m, "">>)>>
    <3>1. PICK x : x = Read(w, <<n, "">>)
      OBVIOUS
    <3>2. PICK y : y = Read(w, <<m, "">>)
      OBVIOUS
    <3>3. <<x, y>> = [i \in 1 .. 2 |-> IF i = 1 THEN x ELSE y]
      BY TuplesAre
    <3> QED
      BY <2>4, <3>1, <3>2, <3>3, Zenon
  <2> QED
    BY <2>5, Zenon DEF names
<1> QED
  BY <1>1, <1>2

\* The pages of a call, one after the other.
LEMMA Flattened ==
    /\ \A a : FlattenSeq(<<a>>) = a
    /\ \A a, b : FlattenSeq(<<a, b>>) = a \o b
<1>1. ASSUME NEW a PROVE FlattenSeq(<<a>>) = a
  <2> DEFINE f == [i \in 1 .. Len(<<a>>) |-> a]
             g == CHOOSE h : h = [i \in 1 .. Len(<<a>>) |->
                                     IF i = 1 THEN <<a>>[i] ELSE h[i - 1] \o <<a>>[i]]
  <2>1. Len(<<a>>) = 1
    OBVIOUS
  <2>2. f = [i \in 1 .. Len(<<a>>) |-> IF i = 1 THEN <<a>>[i] ELSE f[i - 1] \o <<a>>[i]]
    BY <2>1
  <2>3. g = [i \in 1 .. Len(<<a>>) |-> IF i = 1 THEN <<a>>[i] ELSE g[i - 1] \o <<a>>[i]]
    BY <2>2, Zenon
  <2>4. FlattenSeq(<<a>>) = g[Len(<<a>>)]
    BY <2>1 DEF FlattenSeq
  <2> QED
    BY <2>1, <2>3, <2>4
<1>2. ASSUME NEW a, NEW b PROVE FlattenSeq(<<a, b>>) = a \o b
  <2> DEFINE s == <<a, b>>
             f == [i \in 1 .. Len(s) |-> IF i = 1 THEN a ELSE a \o b]
             g == CHOOSE h : h = [i \in 1 .. Len(s) |->
                                     IF i = 1 THEN s[i] ELSE h[i - 1] \o s[i]]
  <2>1. Len(s) = 2 /\ s[1] = a /\ s[2] = b
    OBVIOUS
  <2> HIDE DEF s
  <2>2. f = [i \in 1 .. Len(s) |-> IF i = 1 THEN s[i] ELSE f[i - 1] \o s[i]]
    <3>1. \A i \in 1 .. 2 : i = 1 \/ (i = 2 /\ i - 1 = 1)
      OBVIOUS
    <3> DEFINE c == a \o b
    <3> HIDE DEF c
    <3>2. /\ f[1] = a /\ 1 \in 1 .. 2
      BY <2>1
    <3>3. \A i \in 1 .. Len(s) : (IF i = 1 THEN a ELSE a \o b)
                                   = (IF i = 1 THEN s[i] ELSE f[i - 1] \o s[i])
      BY <2>1, <3>1, <3>2
    <3> QED
      BY <3>3
  <2>3. g = [i \in 1 .. Len(s) |-> IF i = 1 THEN s[i] ELSE g[i - 1] \o s[i]]
    BY <2>2, Zenon
  <2>4. FlattenSeq(s) = g[Len(s)]
    BY <2>1 DEF FlattenSeq
  <2> HIDE DEF g
  <2>5. g[1] = a /\ g[2] = g[1] \o b
    <3>1. /\ 1 \in 1 .. Len(s) /\ 2 \in 1 .. Len(s) /\ 2 # 1 /\ 2 - 1 = 1
      BY <2>1
    <3>2. g[1] = IF 1 = 1 THEN s[1] ELSE g[1 - 1] \o s[1]
      BY <2>3, <3>1, Zenon
    <3>3. g[2] = IF 2 = 1 THEN s[2] ELSE g[2 - 1] \o s[2]
      BY <2>3, <3>1, Zenon
    <3>4. g[1] = s[1]
      BY <3>2, Zenon
    <3>5. g[2] = g[2 - 1] \o s[2]
      BY <3>1, <3>3, Zenon
    <3> QED
      BY <2>1, <3>1, <3>4, <3>5, Zenon
  <2> QED
    BY <2>1, <2>4, <2>5 DEF s
<1> QED
  BY <1>1, <1>2

LEMMA TrueOfSpendState ==
    ASSUME plan \in Plans, plan.kind = "spendState", NEW w, call.pages = PagesOf(w)
    PROVE  TrueOf(w)
<1>1. Read(w, <<"balance", "">>) = w.balance /\ Read(w, <<"allowance", "">>) = w.allowance
  BY DEF Read
<1>2. FlattenSeq(call.pages) = <<w.balance, w.allowance>>
  <2>1. CASE InTurn
    <3>0. /\ Answers(w, Keys(<<"balance">>)) = <<w.balance>>
          /\ Answers(w, Keys(<<"allowance">>)) = <<w.allowance>>
      BY <1>1, AnswersAre, Zenon
    <3>1. call.pages = << <<w.balance>>, <<w.allowance>> >>
      BY <2>1, <3>0, Zenon DEF PagesOf
    <3>2. FlattenSeq(call.pages) = <<w.balance>> \o <<w.allowance>>
      BY <3>1, Flattened, Zenon
    <3> QED
      BY <3>2, TuplesAre, Zenon
  <2>2. CASE ~InTurn
    <3>1. FirstPage = Keys(<<"balance", "allowance">>)
      BY <2>2, PlanFigures DEF FirstPage, InTurn, Page, CratePage
    <3>2. call.pages = << <<w.balance, w.allowance>> >>
      <4>1. Answers(w, Keys(<<"balance", "allowance">>)) = <<w.balance, w.allowance>>
        <5>1. Answers(w, Keys(<<"balance", "allowance">>))
                  = <<Read(w, <<"balance", "">>), Read(w, <<"allowance", "">>)>>
          BY AnswersAre
        <5> QED
          BY <1>1, <5>1, Zenon
      <4> QED
        BY <2>2, <3>1, <4>1, Zenon DEF PagesOf
    <3> QED
      BY <3>2, Flattened, Zenon
  <2> QED
    BY <2>1, <2>2
<1> QED
  BY <1>2 DEF TrueOf

LEMMA TrueOfSettings ==
    ASSUME plan \in Plans, plan.kind = "settings", NEW w, call.pages = PagesOf(w)
    PROVE  TrueOf(w)
<1>1. By("ts") /\ ~InTurn
  BY PlanFigures DEF By, InTurn
<1>2. call.pages = <<Answers(w, Page(<<>>))>>
  BY <1>1 DEF PagesOf, FirstPage
<1>3. \A i \in DOMAIN Page(<<>>) : call.pages[1][i] = Read(w, Page(<<>>)[i])
  BY <1>2 DEF Answers
<1> QED
  BY <1>3 DEF TrueOf

\* Whatever curve, owner or platform is looked at, by either client and while others
\* trade, spend and configure: what one batch told, or what was told while the chain
\* stood still, was true of one moment of the call, and every trade priced from such a
\* state is priced, or refused, as the chain had it then.
THEOREM ViewsAreTrue == Spec => []ViewsTrue
<1>1. ASSUME IInv PROVE ViewsTrue
  <2> SUFFICES ASSUME plan.kind \in Seen, call.at = "returned", Sure
               PROVE  \E m \in DOMAIN history : TrueOf(history[m])
    BY DEF ViewsTrue, Returned, Sure, Seen
  <2>1. WorldsKept /\ plan \in Plans
    BY <1>1 DEF IInv, WorldsKept
  <2>2. PICK m \in DOMAIN history : call.pages = PagesOf(history[m])
    BY <1>1 DEF IInv, Gathered
  <2>3. history[m] \in Moment /\ OnCurve(history[m])
    BY <2>1, WorldIn DEF WorldsKept
  <2>4. CASE plan.kind = "state"
    <3>1. PagesOf(history[m]) = <<Answers(history[m], StateReads)>>
      BY <2>4 DEF PagesOf, InTurn, FirstPage, Page, CratePage
    <3> QED
      BY <2>1, <2>2, <2>3, <2>4, <3>1, TrueOfState
  <2>5. CASE plan.kind = "spendState"
    BY <2>1, <2>2, <2>5, TrueOfSpendState
  <2>6. CASE plan.kind = "settings"
    BY <2>1, <2>2, <2>6, TrueOfSettings
  <2> QED
    BY <2>4, <2>5, <2>6 DEF Seen
<1> QED
  BY <1>1, Invariant, PTL


-----------------------------------------------------------------------------
(* Sequences.                                                              *)

LEMMA LeastNumber ==
    ASSUME NEW S \in SUBSET Nat, S # {}
    PROVE  \E m \in S : \A n \in S : m <= n
<1> DEFINE T == {0 .. n : n \in S}
<1>1. T \subseteq FiniteSubsetsOf(Nat) /\ T # {}
  <2> SUFFICES ASSUME NEW n \in S PROVE 0 .. n \in FiniteSubsetsOf(Nat)
    OBVIOUS
  <2>1. IsFiniteSet(0 .. n)
    BY FS_Interval
  <2> QED
    BY <2>1 DEF FiniteSubsetsOf
<1>2. IsWellFoundedOn(StrictSubsetOrdering(Nat), FiniteSubsetsOf(Nat))
  BY FS_StrictSubsetOrderingWellFounded
<1>3. \E x \in T : \A y \in T : ~ (<<y, x>> \in StrictSubsetOrdering(Nat))
  <2> HIDE DEF T
  <2> QED
    BY <1>1, <1>2, WFMin, Zenon
<1>4. PICK m \in S : \A n \in S : ~ (<<0 .. n, 0 .. m>> \in StrictSubsetOrdering(Nat))
  BY <1>3, Zenon
<1>5. ASSUME NEW n \in S PROVE m <= n
  <2> SUFFICES ASSUME n < m PROVE FALSE
    OBVIOUS
  <2>1. 0 .. n \subseteq 0 .. m /\ m \in 0 .. m /\ ~(m \in 0 .. n)
    OBVIOUS
  <2>2. <<0 .. n, 0 .. m>> \in StrictSubsetOrdering(Nat)
    BY <2>1 DEF StrictSubsetOrdering
  <2> QED
    BY <1>4, <2>2
<1> QED
  BY <1>5

\* A function on the first n numbers is a sequence of its values.
LEMMA IsSequence ==
    ASSUME NEW n \in Nat, NEW s, s = [i \in 1 .. n |-> s[i]]
    PROVE  /\ s \in Seq(Range(s)) /\ Len(s) = n /\ DOMAIN s = 1 .. n
           /\ n = 0 <=> s = <<>>
<1>1. \A i \in 1 .. n : s[i] \in Range(s)
  BY DEF Range
<1>2. s \in Seq(Range(s)) /\ Len(s) = n /\ DOMAIN s = 1 .. n
  BY <1>1
<1>3. n = 0 <=> s = <<>>
  BY <1>2
<1> QED
  BY <1>2, <1>3

LEMMA SequenceIs ==
    ASSUME NEW S, NEW s \in Seq(S)
    PROVE  /\ Len(s) \in Nat /\ DOMAIN s = 1 .. Len(s) /\ s = [i \in 1 .. Len(s) |-> s[i]]
           /\ \A i \in 1 .. Len(s) : s[i] \in S
OBVIOUS

\* The pages before the k-th.
LEMMA BeforeIs ==
    ASSUME NEW pages, Len(pages) \in Nat, pages = [k \in 1 .. Len(pages) |-> pages[k]],
           NEW k \in 1 .. Len(pages) + 1
    PROVE  LET before == SubSeq(pages, 1, k - 1)
           IN  /\ Len(before) = k - 1 /\ before = [j \in 1 .. k - 1 |-> before[j]]
               /\ \A j \in 1 .. k - 1 : before[j] = pages[j]
               /\ k = Len(pages) + 1 => before = pages
               /\ before = <<>> <=> k = 1
<1> DEFINE before == SubSeq(pages, 1, k - 1)
<1>1. pages \in Seq(Range(pages))
  BY IsSequence
<1>2. /\ before \in Seq(Range(pages)) /\ Len(before) = k - 1
      /\ \A j \in 1 .. k - 1 : before[j] = pages[j]
  BY <1>1
<1>3. k = Len(pages) + 1 => before = pages
  BY <1>1, SubSeqFull
<1> HIDE DEF before
<1>4. before = [j \in 1 .. k - 1 |-> before[j]]
  BY <1>2
<1>5. before = <<>> <=> k = 1
  BY <1>2
<1> QED
  BY <1>2, <1>3, <1>4, <1>5 DEF before

LEMMA AppendIs ==
    ASSUME NEW s, Len(s) \in Nat, s = [k \in 1 .. Len(s) |-> s[k]], NEW e
    PROVE  LET t == Append(s, e)
           IN  /\ Len(t) = Len(s) + 1 /\ t = [k \in 1 .. Len(s) + 1 |-> t[k]]
               /\ DOMAIN t = 1 .. Len(s) + 1
               /\ \A k \in 1 .. Len(s) : t[k] = s[k]
               /\ t[Len(s) + 1] = e
               /\ \A k \in 1 .. Len(s) + 1 : SubSeq(t, 1, k - 1) = SubSeq(s, 1, k - 1)
<1> DEFINE S == Range(s) \cup {e}
           t == Append(s, e)
<1>1. s \in Seq(S) /\ e \in S
  <2>1. s \in Seq(Range(s))
    BY IsSequence
  <2> QED
    BY <2>1, SeqMonotonic
<1> HIDE DEF S
<1>2. /\ t \in Seq(S) /\ Len(t) = Len(s) + 1 /\ DOMAIN t = 1 .. Len(s) + 1
      /\ \A k \in 1 .. Len(s) : t[k] = s[k]
      /\ t[Len(s) + 1] = e
  BY <1>1
<1> HIDE DEF t
<1>3. t = [k \in 1 .. Len(s) + 1 |-> t[k]]
  BY <1>2
<1>4. ASSUME NEW k \in 1 .. Len(s) + 1 PROVE SubSeq(t, 1, k - 1) = SubSeq(s, 1, k - 1)
  <2>1. /\ \A i \in 1 .. k - 1 : s[i] \in S
        /\ \A i \in 1 .. k - 1 : t[i] \in S
        /\ \A i \in 1 .. k - 1 : t[i] = s[i]
    BY <1>1, <1>2
  <2> DEFINE u == SubSeq(t, 1, k - 1)
             v == SubSeq(s, 1, k - 1)
  <2>2. u \in Seq(S) /\ Len(u) = k - 1 /\ \A i \in 1 .. k - 1 : u[i] = t[i]
    BY <1>2, <2>1
  <2>3. v \in Seq(S) /\ Len(v) = k - 1 /\ \A i \in 1 .. k - 1 : v[i] = s[i]
    BY <1>1, <2>1
  <2> HIDE DEF u, v
  <2>4. u = v
    BY <2>1, <2>2, <2>3, SeqEqual
  <2> QED
    BY <2>4 DEF u, v
<1> QED
  BY <1>2, <1>3, <1>4 DEF t

\* What FlattenSeq builds up, of the first n.
Flattening(seqs, n, f) ==
    f = [i \in 1 .. n |-> IF i = 1 THEN seqs[i] ELSE f[i - 1] \o seqs[i]]

LEMMA FlatteningExists ==
    ASSUME NEW seqs, NEW n \in Nat \ {0}
    PROVE  \E f : Flattening(seqs, n, f)
<1> DEFINE Bad == {m \in 1 .. n : ~\E f : Flattening(seqs, m, f)}
<1>1. ASSUME NEW m \in Bad, \A k \in Bad : m <= k PROVE FALSE
  <2>1. CASE m = 1
    <3>1. Flattening(seqs, m, [i \in 1 .. 1 |-> seqs[i]])
      BY <2>1 DEF Flattening
    <3> QED
      BY <3>1
  <2>2. CASE m # 1
    <3>1. m - 1 \in 1 .. n /\ m - 1 \notin Bad /\ m \in 2 .. n
      BY <1>1, <2>2
    <3>2. PICK f : Flattening(seqs, m - 1, f)
      BY <3>1
    <3> DEFINE last == f[m - 1] \o seqs[m]
               g == [i \in 1 .. m |-> IF i = m THEN last ELSE f[i]]
    <3> HIDE DEF last
    <3>3. ASSUME NEW i \in 1 .. m
          PROVE  g[i] = IF i = 1 THEN seqs[i] ELSE g[i - 1] \o seqs[i]
      <4>1. CASE i = m
        <5>1. g[i] = last /\ g[i - 1] = f[i - 1] /\ i # 1
          BY <3>1, <4>1
        <5> QED
          BY <4>1, <5>1 DEF last
      <4>2. CASE i # m
        <5>1. g[i] = f[i] /\ i \in 1 .. m - 1 /\ (i # 1 => g[i - 1] = f[i - 1])
          BY <3>1, <4>2
        <5>2. f[i] = IF i = 1 THEN seqs[i] ELSE f[i - 1] \o seqs[i]
          BY <3>2, <5>1 DEF Flattening
        <5> QED
          BY <5>1, <5>2
      <4> QED
        BY <4>1, <4>2
    <3>4. Flattening(seqs, m, g)
      <4>1. g = [i \in 1 .. m |-> g[i]]
        OBVIOUS
      <4> HIDE DEF g
      <4> QED
        BY <3>3, <4>1 DEF Flattening
    <3> QED
      BY <3>4
  <2> QED
    BY <2>1, <2>2
<1>2. Bad = {}
  <2>1. Bad \in SUBSET Nat
    OBVIOUS
  <2> HIDE DEF Bad
  <2> QED
    BY <1>1, <2>1, LeastNumber
<1> QED
  BY <1>2

\* Where each sequence is in them all: off[i] is where the i-th ends.
Ends(seqs, off) ==
    /\ off \in [0 .. Len(seqs) -> Nat] /\ off[0] = 0
    /\ \A i \in 1 .. Len(seqs) : off[i] = off[i - 1] + Len(seqs[i])

\* That each sequence is there in all.
Joined(all, seqs, off) ==
    \A i \in 1 .. Len(seqs) : \A j \in 1 .. Len(seqs[i]) :
        off[i - 1] + j \in 1 .. Len(all) /\ all[off[i - 1] + j] = seqs[i][j]

LEMMA FlattenIs ==
    ASSUME NEW T, NEW seqs \in Seq(Seq(T)), NEW off, Ends(seqs, off)
    PROVE  LET all == FlattenSeq(seqs)
           IN  all \in Seq(T) /\ Len(all) = off[Len(seqs)] /\ Joined(all, seqs, off)
<1>0. PICK n \in Nat : n = Len(seqs)
  OBVIOUS
<1>1. CASE n = 0
  <2>1. seqs = <<>> /\ FlattenSeq(seqs) = seqs
    <3>1. seqs = <<>> /\ Len(seqs) = 0
      <4> DEFINE S == Seq(T)
      <4>1. seqs \in Seq(S) /\ Len(seqs) = 0
        BY <1>0, <1>1
      <4> HIDE DEF S
      <4> QED
        BY <4>1
    <3>2. FlattenSeq(seqs) = seqs
      BY <3>1, Zenon DEF FlattenSeq
    <3> QED
      BY <3>1, <3>2
  <2>2. <<>> \in Seq(T) /\ Len(<<>>) = 0
    BY EmptySeq
  <2> QED
    BY <1>0, <1>1, <2>1, <2>2 DEF Ends, Joined
<1>2. CASE n # 0
  <2> DEFINE F == CHOOSE f : Flattening(seqs, n, f)
  <2>1. Flattening(seqs, n, F)
    BY <1>0, <1>2, FlatteningExists
  <2>2. FlattenSeq(seqs) = F[n]
    BY <1>0, <1>2 DEF FlattenSeq, Flattening
  <2> HIDE DEF F
  <2>3. /\ F[1] = seqs[1]
        /\ \A i \in 2 .. n : F[i] = F[i - 1] \o seqs[i]
    <3>1. F = [i \in 1 .. n |-> IF i = 1 THEN seqs[i] ELSE F[i - 1] \o seqs[i]]
      BY <2>1 DEF Flattening
    <3>2. 1 \in 1 .. n /\ \A i \in 2 .. n : i \in 1 .. n /\ i # 1
      BY <1>2
    <3>3. \A i \in 1 .. n : F[i] = IF i = 1 THEN seqs[i] ELSE F[i - 1] \o seqs[i]
      BY <3>1, Zenon
    <3> QED
      BY <3>2, <3>3
  <2>4. /\ off[0] = 0
        /\ \A i \in 1 .. n : /\ off[i] \in Nat /\ off[i - 1] \in Nat
                              /\ off[i] = off[i - 1] + Len(seqs[i])
    <3>1. off \in [0 .. n -> Nat] /\ off[0] = 0
      BY <1>0 DEF Ends
    <3>2. \A i \in 1 .. n : i \in 0 .. n /\ i - 1 \in 0 .. n
      OBVIOUS
    <3>3. \A i \in 1 .. n : off[i] = off[i - 1] + Len(seqs[i])
      BY <1>0 DEF Ends
    <3> QED
      BY <3>1, <3>2, <3>3
  <2>5. \A i \in 1 .. n : seqs[i] \in Seq(T) /\ Len(seqs[i]) \in Nat
    BY <1>0
  <2> DEFINE Fine(m) == /\ F[m] \in Seq(T) /\ Len(F[m]) = off[m]
                        /\ \A i \in 1 .. m : \A j \in 1 .. Len(seqs[i]) :
                              /\ off[i - 1] + j \in 1 .. off[m]
                              /\ F[m][off[i - 1] + j] = seqs[i][j]
             Bad == {m \in 1 .. n : ~Fine(m)}
  <2>6. Fine(1)
    <3>1. \A i \in 1 .. 1 : i = 1 /\ i - 1 = 0
      OBVIOUS
    <3>2. 1 \in 1 .. n
      BY <1>0, <1>2
    <3>3. F[1] \in Seq(T) /\ Len(F[1]) = off[1] /\ off[1] = Len(seqs[1]) /\ off[0] = 0
      BY <2>3, <2>4, <2>5, <3>2
    <3>4. \A j \in 1 .. Len(seqs[1]) : 0 + j \in 1 .. off[1] /\ F[1][0 + j] = seqs[1][j]
      BY <2>3, <2>5, <3>2, <3>3
    <3> QED
      BY <3>1, <3>3, <3>4
  <2>7. ASSUME NEW m \in Bad, \A k \in Bad : m <= k PROVE FALSE
    <3>1. m \in 2 .. n /\ m - 1 \in 1 .. n /\ Fine(m - 1) /\ ~Fine(m)
      <4> HIDE DEF Fine
      <4>1. m \in 1 .. n /\ ~Fine(m) /\ m # 1
        BY <2>6, <2>7
      <4>2. m - 1 \in 1 .. n /\ ~(m <= m - 1)
        BY <4>1
      <4>3. m - 1 \notin Bad
        BY <2>7, <4>2
      <4> QED
        BY <4>1, <4>2, <4>3
    <3> DEFINE f == F[m - 1]
               s == seqs[m]
    <3>2. /\ f \in Seq(T) /\ s \in Seq(T) /\ F[m] = f \o s
          /\ Len(f) = off[m - 1] /\ off[m] = Len(f) + Len(s)
          /\ off[m - 1] \in Nat /\ Len(s) \in Nat
      BY <2>3, <2>4, <2>5, <3>1
    <3>3. \A i \in 1 .. m - 1 : \A j \in 1 .. Len(seqs[i]) :
              off[i - 1] + j \in 1 .. off[m - 1] /\ f[off[i - 1] + j] = seqs[i][j]
      BY <3>1
    <3> HIDE DEF f, s
    <3>4. /\ F[m] \in Seq(T) /\ Len(F[m]) = off[m]
          /\ \A k \in 1 .. Len(f) + Len(s) :
                 F[m][k] = IF k <= Len(f) THEN f[k] ELSE s[k - Len(f)]
      <4>1. /\ f \o s \in Seq(T) /\ Len(f \o s) = Len(f) + Len(s)
            /\ \A k \in 1 .. Len(f) + Len(s) :
                   (f \o s)[k] = IF k <= Len(f) THEN f[k] ELSE s[k - Len(f)]
        BY <3>2, ConcatProperties
      <4> QED
        BY <3>2, <4>1, Zenon
    <3>5. ASSUME NEW i \in 1 .. m, NEW j \in 1 .. Len(seqs[i])
          PROVE  off[i - 1] + j \in 1 .. off[m] /\ F[m][off[i - 1] + j] = seqs[i][j]
      <4>1. CASE i = m
        <5>1. j \in 1 .. Len(s) /\ off[i - 1] = Len(f) /\ seqs[i][j] = s[j]
          BY <3>2, <4>1 DEF s
        <5>2. PICK a \in Nat, b \in Nat : a = Len(f) /\ b = Len(s)
          BY <3>2
        <5>3. /\ a + j \in 1 .. a + b /\ ~(a + j <= a) /\ (a + j) - a = j
          BY <5>1, <5>2, SMTT(20)
        <5> QED
          BY <3>2, <3>4, <5>1, <5>2, <5>3
      <4>2. CASE i # m
        <5>1. i \in 1 .. m - 1
          BY <3>1, <4>2
        <5>2. off[i - 1] + j \in 1 .. off[m - 1] /\ f[off[i - 1] + j] = seqs[i][j]
          BY <3>3, <5>1
        <5> HIDE DEF f
        <5> DEFINE k == off[i - 1] + j
        <5>3. PICK a \in Nat, b \in Nat : a = Len(f) /\ b = Len(s)
          BY <3>2
        <5>4. k \in 1 .. a + b /\ k <= a
          BY <3>2, <5>2, <5>3, SMTT(20)
        <5> HIDE DEF k
        <5> QED
          BY <3>2, <3>4, <5>2, <5>3, <5>4 DEF k
      <4> QED
        BY <4>1, <4>2
    <3>6. Fine(m)
      BY <3>4, <3>5
    <3> QED
      BY <3>1, <3>6
  <2>8. Bad = {}
    <3>1. Bad \in SUBSET Nat
      OBVIOUS
    <3> HIDE DEF Bad
    <3> QED
      BY <2>7, <3>1, LeastNumber
  <2>9. Fine(n)
    <3> HIDE DEF Fine
    <3>1. n \in 1 .. n
      BY <1>2
    <3> QED
      BY <2>8, <3>1
  <2> QED
    BY <1>0, <2>2, <2>9 DEF Joined
<1> QED
  BY <1>1, <1>2

\* s has the numbers of that set in ascending order.
Ascends(s, places) ==
    /\ s \in [1 .. Cardinality(places) -> places]
    /\ \A i, j \in DOMAIN s : i < j => s[i] < s[j]

LEMMA AscendsExists ==
    ASSUME NEW n \in Nat, NEW places \in SUBSET (1 .. n)
    PROVE  \E s : Ascends(s, places)
<1> DEFINE Bad == {m \in 0 .. n : \E p \in SUBSET (1 .. m) : ~\E s : Ascends(s, p)}
<1>1. ASSUME NEW m \in Bad, \A k \in Bad : m <= k PROVE FALSE
  <2>1. PICK p \in SUBSET (1 .. m) : ~\E s : Ascends(s, p)
    OBVIOUS
  <2>2. IsFiniteSet(p) /\ Cardinality(p) \in Nat
    <3>1. IsFiniteSet(1 .. m)
      BY FS_Interval
    <3>2. IsFiniteSet(p)
      BY <3>1, FS_Subset
    <3> QED
      BY <3>2, FS_CardinalityType
  <2>3. CASE p = {}
    <3>1. Cardinality(p) = 0
      BY <2>3, FS_EmptySet
    <3>2. Ascends([i \in 1 .. 0 |-> 0], p)
      BY <3>1 DEF Ascends
    <3> QED
      BY <2>1, <3>2
  <2>4. CASE p # {}
    <3>1. m \in 1 .. n /\ m - 1 \in 0 .. n /\ m - 1 \notin Bad
      <4>1. m # 0
        <5>1. 1 .. 0 = {}
          OBVIOUS
        <5> QED
          BY <2>4, <5>1
      <4>2. m \in 1 .. n /\ m - 1 \in 0 .. n /\ ~(m <= m - 1)
        BY <4>1
      <4> QED
        BY <1>1, <4>2
    <3>2. \A q \in SUBSET (1 .. m - 1) : \E s : Ascends(s, q)
      BY <3>1
    <3> DEFINE q == p \ {m}
    <3>3. q \in SUBSET (1 .. m - 1)
      BY <3>1
    <3>4. PICK s : Ascends(s, q)
      BY <3>2, <3>3
    <3>5. m \in p
      <4>1. m \notin p => p \in SUBSET (1 .. m - 1)
        BY <3>1
      <4> QED
        BY <2>1, <3>2, <4>1
    <3>6. Cardinality(q) = Cardinality(p) - 1
      BY <2>2, <3>5, FS_RemoveElement
    <3> DEFINE c == Cardinality(p)
               t == [i \in 1 .. c |-> IF i = c THEN m ELSE s[i]]
    <3>7. \A i \in 1 .. c - 1 : s[i] \in q /\ s[i] < m /\ s[i] \in p
      <4>1. s \in [1 .. Cardinality(q) -> q]
        BY <3>4 DEF Ascends
      <4>2. \A i \in 1 .. Cardinality(q) : s[i] \in q
        BY <4>1
      <4>3. \A a \in q : a \in p /\ a \in 1 .. m - 1
        BY <3>3
      <4>4. \A a \in 1 .. m - 1 : a < m
        BY <3>1
      <4> QED
        BY <3>6, <4>2, <4>3, <4>4
    <3>8. \A i, j \in 1 .. c - 1 : i < j => s[i] < s[j]
      BY <2>2, <3>4, <3>6 DEF Ascends
    <3>9. c \in Nat
      BY <2>2
    <3> HIDE DEF c, q
    <3>10. \A i \in 1 .. c : t[i] \in p /\ (i # c => i \in 1 .. c - 1 /\ t[i] = s[i]) /\ (i = c => t[i] = m)
      BY <3>5, <3>7, <3>9
    <3>11. t \in [1 .. c -> p] /\ DOMAIN t = 1 .. c
      BY <3>10
    <3> HIDE DEF t
    <3>12. ASSUME NEW i \in 1 .. c, NEW j \in 1 .. c, i < j PROVE t[i] < t[j]
      BY <3>7, <3>8, <3>9, <3>10, <3>12
    <3>13. Ascends(t, p)
      BY <3>11, <3>12 DEF Ascends, c
    <3> QED
      BY <2>1, <3>13
  <2> QED
    BY <2>3, <2>4
<1>2. Bad = {}
  <2>1. Bad \in SUBSET Nat
    OBVIOUS
  <2> HIDE DEF Bad
  <2> QED
    BY <1>1, <2>1, LeastNumber
<1> QED
  BY <1>2

LEMMA InOrderIs ==
    ASSUME NEW n \in Nat, NEW places \in SUBSET (1 .. n)
    PROVE  LET s == InOrder(places)
           IN  /\ s \in Seq(places) /\ Len(s) = Cardinality(places) /\ Len(s) \in Nat
               /\ DOMAIN s = 1 .. Len(s)
               /\ \A i, j \in 1 .. Len(s) : i < j => s[i] < s[j]
               /\ \A p \in places : \E i \in 1 .. Len(s) : s[i] = p
<1> DEFINE c == Cardinality(places)
           s == InOrder(places)
<1>1. IsFiniteSet(places) /\ c \in Nat
  <2>1. IsFiniteSet(1 .. n)
    BY FS_Interval
  <2>2. IsFiniteSet(places)
    BY <2>1, FS_Subset
  <2> QED
    BY <2>2, FS_CardinalityType
<1>2. Ascends(s, places)
  <2>1. \E t \in [1 .. c -> places] : \A i, j \in DOMAIN t : i < j => t[i] < t[j]
    BY AscendsExists DEF Ascends
  <2>2. s = CHOOSE t \in [1 .. c -> places] : \A i, j \in DOMAIN t : i < j => t[i] < t[j]
    BY DEF InOrder
  <2> HIDE DEF s
  <2> QED
    BY <2>1, <2>2 DEF Ascends
<1> HIDE DEF s
<1>3. s \in [1 .. c -> places] /\ DOMAIN s = 1 .. c /\ \A i, j \in 1 .. c : i < j => s[i] < s[j]
  BY <1>2 DEF Ascends
<1>4. s \in Seq(places) /\ Len(s) = c
  <2> HIDE DEF c
  <2> QED
    BY <1>1, <1>3
<1>5. ASSUME NEW p \in places, \A i \in 1 .. c : s[i] # p PROVE FALSE
  <2> DEFINE rest == places \ {p}
  <2>1. IsFiniteSet(rest) /\ Cardinality(rest) = c - 1
    BY <1>1, FS_RemoveElement
  <2>2. IsFiniteSet(1 .. c) /\ Cardinality(1 .. c) = c
    BY <1>1, FS_Interval
  <2> HIDE DEF c
  <2>3. s \in [1 .. c -> rest]
    BY <1>3, <1>5
  <2>4. \E i, j \in 1 .. c : i # j /\ s[i] = s[j]
    <3>1. Cardinality(rest) < Cardinality(1 .. c)
      BY <1>1, <2>1, <2>2
    <3> HIDE DEF rest
    <3> QED
      BY <2>1, <2>2, <2>3, <3>1, FS_PigeonHole
  <2>5. \A i \in 1 .. c : s[i] \in Nat
    <3>1. \A a \in places : a \in Nat
      OBVIOUS
    <3> QED
      BY <1>3, <3>1
  <2> QED
    BY <1>1, <1>3, <2>4, <2>5
<1> QED
  BY <1>1, <1>3, <1>4, <1>5 DEF s

\* Where the k reads of each subject are among all.
Spread(all, subjects, names, k) ==
    \A i \in 1 .. Len(subjects) : \A j \in 1 .. k :
        /\ k * (i - 1) + j \in 1 .. Len(all)
        /\ all[k * (i - 1) + j] = <<names[j], subjects[i]>>

\* Every subject has as many reads as there are names.
LEMMA EachAt ==
    ASSUME NEW S, NEW subjects \in Seq(S), NEW N, NEW names \in Seq(N), NEW k \in Nat,
           Len(names) = k
    PROVE  LET all == Each(subjects, names)
           IN  /\ all \in Seq(N \X S) /\ Len(all) = k * Len(subjects)
               /\ Spread(all, subjects, names, k)
<1>1. PICK n \in Nat : n = Len(subjects)
  OBVIOUS
<1>2. PICK off \in [0 .. Len(subjects) -> Nat] : \A i \in 0 .. Len(subjects) : off[i] = k * i
  <2> DEFINE f == [i \in 0 .. n |-> k * i]
  <2>1. f \in [0 .. n -> Nat] /\ \A i \in 0 .. n : f[i] = k * i
    OBVIOUS
  <2> HIDE DEF f
  <2> QED
    BY <1>1, <2>1
<1>3. off[0] = 0 /\ off[Len(subjects)] = k * Len(subjects)
  <2>1. 0 \in 0 .. n /\ n \in 0 .. n /\ k * 0 = 0
    OBVIOUS
  <2> QED
    BY <1>1, <1>2, <2>1
<1>4. \A i \in 1 .. Len(subjects) : off[i - 1] = k * (i - 1) /\ off[i] = off[i - 1] + k
  <2>1. \A i \in 1 .. n : i \in 0 .. n /\ i - 1 \in 0 .. n
    OBVIOUS
  <2>2. \A i \in 1 .. n : off[i] = k * i /\ off[i - 1] = k * (i - 1)
    BY <1>1, <1>2, <2>1
  <2>3. \A i \in 1 .. n : k * i = k * (i - 1) + k
    OBVIOUS
  <2> QED
    BY <1>1, <2>2, <2>3
<1>5. \A i \in 1 .. Len(subjects) : off[i] = off[i - 1] + Len(names)
  BY <1>4
<1> DEFINE Reads(i) == [j \in DOMAIN names |-> <<names[j], subjects[i]>>]
           seqs == [i \in DOMAIN subjects |-> Reads(i)]
<1>6. /\ DOMAIN subjects = 1 .. Len(subjects) /\ DOMAIN names = 1 .. Len(names)
      /\ Len(subjects) \in Nat /\ Len(names) \in Nat
      /\ \A i \in 1 .. Len(subjects) : subjects[i] \in S
      /\ \A j \in 1 .. Len(names) : names[j] \in N
  OBVIOUS
<1>7. ASSUME NEW i \in 1 .. Len(subjects)
      PROVE  /\ Reads(i) \in Seq(N \X S) /\ Len(Reads(i)) = Len(names)
             /\ \A j \in 1 .. Len(names) : Reads(i)[j] = <<names[j], subjects[i]>>
  BY <1>6
<1> HIDE DEF Reads
<1>8. /\ seqs \in Seq(Seq(N \X S)) /\ Len(seqs) = Len(subjects)
      /\ \A i \in 1 .. Len(subjects) : seqs[i] = Reads(i)
  BY <1>6, <1>7
<1>9. Each(subjects, names) = FlattenSeq(seqs)
  BY DEF Each, Reads
<1> HIDE DEF seqs
<1>10. Ends(seqs, off)
  <2>1. off \in [0 .. Len(seqs) -> Nat] /\ off[0] = 0
    BY <1>2, <1>3, <1>8
  <2>2. \A i \in 1 .. Len(subjects) : Len(seqs[i]) = Len(names)
    BY <1>7, <1>8
  <2> QED
    BY <1>5, <1>8, <2>1, <2>2 DEF Ends
<1>11. LET all == FlattenSeq(seqs)
       IN  all \in Seq(N \X S) /\ Len(all) = off[Len(seqs)] /\ Joined(all, seqs, off)
  BY <1>8, <1>10, FlattenIs, Zenon
<1> DEFINE all == FlattenSeq(seqs)
<1>12. /\ all \in Seq(N \X S) /\ Len(all) = off[Len(subjects)]
      /\ \A i \in 1 .. Len(subjects) : \A j \in 1 .. Len(names) :
             off[i - 1] + j \in 1 .. Len(all) /\ all[off[i - 1] + j] = <<names[j], subjects[i]>>
  <2>1. /\ all \in Seq(N \X S) /\ Len(all) = off[Len(subjects)]
        /\ \A i \in 1 .. Len(subjects) : \A j \in 1 .. Len(seqs[i]) :
               off[i - 1] + j \in 1 .. Len(all) /\ all[off[i - 1] + j] = seqs[i][j]
    BY <1>8, <1>11 DEF Joined
  <2> HIDE DEF all
  <2>2. ASSUME NEW i \in 1 .. Len(subjects), NEW j \in 1 .. Len(names)
        PROVE  off[i - 1] + j \in 1 .. Len(all) /\ all[off[i - 1] + j] = <<names[j], subjects[i]>>
    <3>1. seqs[i] = Reads(i) /\ Len(seqs[i]) = Len(names) /\ Reads(i)[j] = <<names[j], subjects[i]>>
      BY <1>7, <1>8
    <3>2. j \in 1 .. Len(seqs[i])
      BY <3>1
    <3>3. off[i - 1] + j \in 1 .. Len(all) /\ all[off[i - 1] + j] = seqs[i][j]
      BY <2>1, <3>2
    <3> QED
      BY <3>1, <3>3, Zenon
  <2> QED
    BY <2>1, <2>2
<1>13. ASSUME NEW i \in 1 .. Len(subjects), NEW j \in 1 .. k
      PROVE  /\ k * (i - 1) + j \in 1 .. Len(all)
             /\ all[k * (i - 1) + j] = <<names[j], subjects[i]>>
  <2>1. off[i - 1] = k * (i - 1) /\ j \in 1 .. Len(names)
    BY <1>4
  <2>2. off[i - 1] + j \in 1 .. Len(all) /\ all[off[i - 1] + j] = <<names[j], subjects[i]>>
    BY <1>12, <2>1
  <2> QED
    BY <2>1, <2>2, Zenon
<1>14. Spread(all, subjects, names, k)
  <2> HIDE DEF all
  <2> QED
    BY <1>13, Zenon DEF Spread
<1> QED
  BY <1>3, <1>9, <1>12, <1>14, Zenon

\* What is asked, as a sequence of names and what they are of.
LEMMA AskedIs ==
    ASSUME NEW N, NEW S, NEW asked \in Seq(N \X S)
    PROVE  /\ Len(asked) \in Nat /\ DOMAIN asked = 1 .. Len(asked)
           /\ asked = <<>> <=> Len(asked) = 0
           /\ \A i \in DOMAIN asked : asked[i][1] \in N /\ asked[i][2] \in S
<1>1. /\ Len(asked) \in Nat /\ DOMAIN asked = 1 .. Len(asked)
      /\ asked = <<>> <=> Len(asked) = 0
      /\ \A i \in 1 .. Len(asked) : asked[i] \in N \X S
  <2> DEFINE P == N \X S
  <2>1. asked \in Seq(P)
    OBVIOUS
  <2> HIDE DEF P
  <2>2. /\ Len(asked) \in Nat /\ DOMAIN asked = 1 .. Len(asked)
        /\ asked = <<>> <=> Len(asked) = 0
        /\ \A i \in 1 .. Len(asked) : asked[i] \in P
    BY <2>1
  <2> QED
    BY <2>2 DEF P
<1> QED
  BY <1>1

LEMMA SequenceOf ==
    ASSUME NEW n \in Nat, NEW S, NEW s, s = [i \in 1 .. n |-> s[i]], \A i \in 1 .. n : s[i] \in S
    PROVE  s \in Seq(S) /\ Len(s) = n /\ DOMAIN s = 1 .. n
OBVIOUS

LEMMA IndexedIs ==
    ASSUME NEW S, NEW subjects \in Seq(S), NEW name
    PROVE  LET all == Indexed(name, subjects)
           IN  /\ all \in Seq({name} \X S) /\ Len(all) = Len(subjects)
               /\ \A i \in 1 .. Len(subjects) : all[i] = <<name, subjects[i]>>
<1>1. /\ DOMAIN subjects = 1 .. Len(subjects) /\ Len(subjects) \in Nat
      /\ \A i \in 1 .. Len(subjects) : subjects[i] \in S
  OBVIOUS
<1> DEFINE P == {name} \X S
           all == [i \in 1 .. Len(subjects) |-> <<name, subjects[i]>>]
<1>2. Indexed(name, subjects) = all
  BY <1>1 DEF Indexed
<1>3. \A i \in 1 .. Len(subjects) : all[i] = <<name, subjects[i]>> /\ all[i] \in P
  BY <1>1
<1>4. all = [i \in 1 .. Len(subjects) |-> all[i]]
  OBVIOUS
<1> HIDE DEF P, all
<1>5. all \in Seq(P) /\ Len(all) = Len(subjects)
  BY <1>1, <1>3, <1>4
<1> QED
  BY <1>2, <1>3, <1>5 DEF P

LEMMA KeysAre ==
    ASSUME NEW N, NEW names \in Seq(N)
    PROVE  /\ Keys(names) \in Seq(N \X {""}) /\ Len(Keys(names)) = Len(names)
           /\ \A i \in 1 .. Len(names) : Keys(names)[i] = <<names[i], "">>
<1>1. /\ DOMAIN names = 1 .. Len(names) /\ Len(names) \in Nat
      /\ \A i \in 1 .. Len(names) : names[i] \in N
  OBVIOUS
<1> DEFINE P == N \X {""}
           all == [i \in 1 .. Len(names) |-> <<names[i], "">>]
<1>2. Keys(names) = all
  BY <1>1 DEF Keys
<1>3. \A i \in 1 .. Len(names) : all[i] = <<names[i], "">> /\ all[i] \in P
  BY <1>1
<1>4. all = [i \in 1 .. Len(names) |-> all[i]]
  OBVIOUS
<1> HIDE DEF P, all
<1>5. all \in Seq(P) /\ Len(all) = Len(names)
  BY <1>1, <1>3, <1>4, SequenceOf
<1> QED
  BY <1>2, <1>3, <1>5 DEF P

LEMMA CountTo ==
    ASSUME NEW n \in Nat
    PROVE  LET s == [i \in 1 .. n |-> i] IN s \in Seq(1 .. n) /\ Len(s) = n
OBVIOUS

LEMMA UnlistedIs ==
    ASSUME NEW S, NEW quotes \in Seq(S)
    PROVE  LET all == Unlisted(quotes)
           IN  /\ all \in Seq(S) /\ Len(all) \in Nat
               /\ Len(all) = Cardinality({i \in 1 .. Len(quotes) : quotes[i] \notin ListedTokens})
               /\ \A i \in 1 .. Len(quotes) : quotes[i] \notin ListedTokens =>
                      \E k \in 1 .. Len(all) : all[k] = quotes[i]
<1> DEFINE places == {i \in 1 .. Len(quotes) : quotes[i] \notin ListedTokens}
           s == InOrder(places)
           all == [k \in 1 .. Len(s) |-> quotes[s[k]]]
<1>1. DOMAIN quotes = 1 .. Len(quotes) /\ Len(quotes) \in Nat
      /\ \A i \in 1 .. Len(quotes) : quotes[i] \in S
  OBVIOUS
<1>2. places \in SUBSET (1 .. Len(quotes))
  OBVIOUS
<1> HIDE DEF places
<1>3. /\ s \in Seq(places) /\ Len(s) = Cardinality(places) /\ Len(s) \in Nat
      /\ DOMAIN s = 1 .. Len(s)
      /\ \A p \in places : \E i \in 1 .. Len(s) : s[i] = p
  BY <1>1, <1>2, InOrderIs
<1>4. Unlisted(quotes) = all
  BY <1>1, <1>3 DEF Unlisted, places
<1> HIDE DEF s
<1>5. \A k \in 1 .. Len(s) : s[k] \in 1 .. Len(quotes) /\ all[k] = quotes[s[k]] /\ all[k] \in S
  <2>1. \A k \in 1 .. Len(s) : s[k] \in places
    BY <1>3
  <2>2. \A k \in 1 .. Len(s) : s[k] \in 1 .. Len(quotes)
    BY <1>2, <2>1
  <2>3. \A k \in 1 .. Len(s) : all[k] = quotes[s[k]]
    OBVIOUS
  <2> QED
    BY <1>1, <2>2, <2>3
<1>6. all = [k \in 1 .. Len(s) |-> all[k]]
  OBVIOUS
<1> HIDE DEF all
<1>7. all \in Seq(S) /\ Len(all) = Len(s)
  BY <1>3, <1>5, <1>6, SequenceOf
<1>8. ASSUME NEW i \in 1 .. Len(quotes), quotes[i] \notin ListedTokens
      PROVE  \E k \in 1 .. Len(all) : all[k] = quotes[i]
  <2>1. i \in places
    BY <1>8 DEF places
  <2>2. PICK k \in 1 .. Len(s) : s[k] = i
    BY <1>3, <2>1
  <2>3. all[k] = quotes[i]
    BY <1>5, <2>2
  <2> QED
    BY <1>7, <2>3
<1> QED
  BY <1>3, <1>4, <1>7, <1>8 DEF places

\* The first place that has it.
LEMMA FoundAt ==
    ASSUME NEW S, NEW s \in Seq(S), NEW q, NEW k \in 1 .. Len(s), s[k] = q
    PROVE  LET at == SelectInSeq(s, LAMBDA u : u = q)
           IN  at \in 1 .. Len(s) /\ s[at] = q
<1> DEFINE I == {i \in 1 .. Len(s) : s[i] = q}
<1>1. I \in SUBSET Nat /\ I # {}
  OBVIOUS
<1>2. SelectInSeq(s, LAMBDA u : u = q) = Min(I)
  BY <1>1 DEF SelectInSeq
<1>3. Min(I) \in I
  <2> HIDE DEF I
  <2>1. \E m \in I : \A n \in I : m <= n
    BY <1>1, LeastNumber
  <2> QED
    BY <2>1 DEF Min
<1> QED
  BY <1>2, <1>3

\* The views that are lists of a registry's entries.
Lists == {"quotes", "migrators"}

NextPage(pages) == IF By("ts") THEN Page(pages) ELSE CratePage(pages)

\* The crate has just been told that a migrator is registered no more.
PassesBy(pages) ==
    /\ By("crate") /\ plan.kind = "migrators"
    /\ Len(pages) > 1 /\ Part(pages) = 2 /\ Last(pages) = <<FALSE>>

\* An entry of v is the same entry of w, and what was deregistered stays so.
Grown(v, w) ==
    /\ Len(v.quotes) <= Len(w.quotes)
    /\ \A i \in DOMAIN v.quotes : v.quotes[i].token = w.quotes[i].token
    /\ Len(v.migrators) <= Len(w.migrators)
    /\ \A i \in DOMAIN v.migrators : v.migrators[i] = w.migrators[i]
    /\ v.retired \subseteq w.retired

Registries ==
    /\ \A m, n \in DOMAIN history : m <= n => Grown(history[m], history[n])
    /\ \A m \in DOMAIN history : IsInjective(history[m].migrators)

\* What can be asked of w.
Has(w, key) ==
    /\ key[1] = "quoteTokenAt" => key[2] \in DOMAIN w.quotes
    /\ key[1] = "migratorAt" => key[2] \in DOMAIN w.migrators
    /\ key[1] = "quoteInfo" => \E r \in Range(w.quotes) : r.token = key[2]

HeardAt(w, key, answer) == Has(w, key) /\ answer = Read(w, key)

\* An answer is of some moment of the call, or made up where the source does that.
Heard(key, answer) ==
    \/ \E m \in DOMAIN history : HeardAt(history[m], key, answer)
    \/ By("ts") /\ answer \in Tolerated(key[1])

\* A page of answers to what was asked; those of a batch are of one moment.
Answered(asked, page, whole) ==
    /\ page = [i \in DOMAIN asked |-> page[i]]
    /\ \A i \in DOMAIN asked : Heard(asked[i], page[i])
    /\ whole => \E m \in DOMAIN history :
                    \A i \in DOMAIN asked : HeardAt(history[m], asked[i], page[i])

PageFits(before, page, whole) ==
    IF PassesBy(before) THEN page = <<>>
    ELSE NextPage(before) # <<>> /\ Answered(NextPage(before), page, whole)

Paged(pages, whole) ==
    /\ Len(pages) \in Nat /\ pages = [k \in 1 .. Len(pages) |-> pages[k]]
    /\ \A k \in DOMAIN pages : PageFits(SubSeq(pages, 1, k - 1), pages[k], whole)

\* A page whose answers are still coming in.
Half(got, asked) ==
    /\ got = [i \in DOMAIN got |-> got[i]]
    /\ DOMAIN got \subseteq DOMAIN asked
    /\ By("crate") => \E n \in 0 .. Len(asked) - 1 : DOMAIN got = 1 .. n
    /\ \A i \in DOMAIN got : Heard(asked[i], got[i])

Listed ==
    /\ Paged(call.pages, call.whole)
    /\ ~PassesBy(call.pages)
    /\ call.at = "returned" => NextPage(call.pages) = <<>>
    /\ call.at = "reading" => NextPage(call.pages) # <<>>
    /\ call.at = "reading" /\ ~call.whole => Half(call.got, NextPage(call.pages))

ListInv == IInv /\ (plan.kind \in Lists => Registries /\ Listed)

-----------------------------------------------------------------------------
(* The registries, and what is heard of them.                              *)

LEMMA ListPlan ==
    ASSUME WorldsKept, plan.kind \in Lists
    PROVE  /\ plan \in Plans /\ plan.kind \in {"quotes", "migrators"}
           /\ plan.batched \in BOOLEAN /\ plan.routed \in BOOLEAN
           /\ By("crate") <=> ~By("ts")
<1>1. plan \in Plans
  BY DEF WorldsKept
<1>2. plan.client \in {"ts", "crate"} /\ {plan.batched, plan.routed} \subseteq BOOLEAN
  BY <1>1, ViewsAssumption
<1> QED
  BY <1>1, <1>2 DEF By, Lists

LEMMA MomentIs ==
    ASSUME WorldsKept, NEW m \in DOMAIN history
    PROVE  LET w == history[m]
           IN  /\ w.quotes \in Seq(QuoteRecord) /\ Len(w.quotes) \in Nat
               /\ DOMAIN w.quotes = 1 .. Len(w.quotes)
               /\ \A i \in DOMAIN w.quotes : w.quotes[i].token \in Tokens
               /\ w.migrators \in Seq(MigratorRecord) /\ Len(w.migrators) \in Nat
               /\ DOMAIN w.migrators = 1 .. Len(w.migrators)
               /\ \A i \in DOMAIN w.migrators : w.migrators[i] \in MigratorRecord
<1>1. history[m] \in Moment
  BY WorldIn
<1>2. history[m].quotes \in Seq(QuoteRecord) /\ history[m].migrators \in Seq(MigratorRecord)
  BY <1>1 DEF Moment
<1>3. PICK qs \in Seq(QuoteRecord), ms \in Seq(MigratorRecord) :
         qs = history[m].quotes /\ ms = history[m].migrators
  BY <1>2
<1>4. /\ Len(qs) \in Nat /\ DOMAIN qs = 1 .. Len(qs) /\ \A i \in DOMAIN qs : qs[i] \in QuoteRecord
      /\ Len(ms) \in Nat /\ DOMAIN ms = 1 .. Len(ms) /\ \A i \in DOMAIN ms : ms[i] \in MigratorRecord
  OBVIOUS
<1>5. \A r \in QuoteRecord : r.token \in Tokens
  BY DEF QuoteRecord
<1> QED
  BY <1>3, <1>4, <1>5

\* What a moment had, the present one has in the same place.
LEMMA StillThere ==
    ASSUME WorldsKept, Registries, NEW m \in DOMAIN history
    PROVE  /\ Grown(history[m], World)
           /\ \A i \in DOMAIN history[m].quotes :
                  i \in DOMAIN World.quotes /\ World.quotes[i].token = history[m].quotes[i].token
           /\ \A i \in DOMAIN history[m].migrators :
                  i \in DOMAIN World.migrators /\ World.migrators[i] = history[m].migrators[i]
           /\ history[m].retired \subseteq World.retired
<1>1. Len(history) \in DOMAIN history /\ World = history[Len(history)] /\ m <= Len(history)
  <2>1. history \in Seq(Moment)
    BY DEF WorldsKept
  <2> QED
    BY <2>1, WorldIn
<1>2. Grown(history[m], World)
  BY <1>1 DEF Registries
<1>3. /\ DOMAIN history[m].quotes = 1 .. Len(history[m].quotes) /\ Len(history[m].quotes) \in Nat
      /\ DOMAIN World.quotes = 1 .. Len(World.quotes) /\ Len(World.quotes) \in Nat
      /\ DOMAIN history[m].migrators = 1 .. Len(history[m].migrators)
      /\ Len(history[m].migrators) \in Nat
      /\ DOMAIN World.migrators = 1 .. Len(World.migrators) /\ Len(World.migrators) \in Nat
  BY <1>1, MomentIs
<1>4. /\ Len(history[m].quotes) <= Len(World.quotes)
      /\ Len(history[m].migrators) <= Len(World.migrators)
  BY <1>2 DEF Grown
<1>5. \A i \in DOMAIN history[m].quotes : i \in DOMAIN World.quotes
  BY <1>3, <1>4
<1>6. \A i \in DOMAIN history[m].migrators : i \in DOMAIN World.migrators
  BY <1>3, <1>4
<1> QED
  BY <1>2, <1>5, <1>6 DEF Grown

LEMMA ReadIs ==
    ASSUME NEW w, NEW x
    PROVE  /\ Read(w, <<"quoteTokenCount", x>>) = Len(w.quotes)
           /\ Read(w, <<"quoteTokenAt", x>>) = w.quotes[x].token
           /\ Read(w, <<"quoteInfo", x>>) = CHOOSE r \in Range(w.quotes) : r.token = x
           /\ Read(w, <<"symbol", x>>) = <<"symbol", x>>
           /\ Read(w, <<"name", x>>) = <<"name", x>>
           /\ Read(w, <<"decimals", x>>) = <<"decimals", x>>
           /\ Read(w, <<"migratorCount", x>>) = Len(w.migrators)
           /\ Read(w, <<"migratorAt", x>>) = w.migrators[x]
           /\ Read(w, <<"isRegistered", x>>) = (x \notin w.retired)
           /\ Read(w, <<"taxModeOf", x>>) = x.taxMode
           /\ Read(w, <<"routerOf", x>>) = x.router
           /\ Read(w, <<"VERSION", x>>) = x.label
           /\ Read(w, <<"poolManager", x>>) = x.manager
           /\ Read(w, <<"routerManager", x>>) = "served"
<1>1. Read(w, <<"quoteTokenCount", x>>) = Len(w.quotes)
  BY DEF Read
<1>2. Read(w, <<"quoteTokenAt", x>>) = w.quotes[x].token
  BY DEF Read
<1>3. Read(w, <<"quoteInfo", x>>) = CHOOSE r \in Range(w.quotes) : r.token = x
  BY DEF Read
<1>4. Read(w, <<"symbol", x>>) = <<"symbol", x>>
  BY DEF Read
<1>5. Read(w, <<"name", x>>) = <<"name", x>>
  BY DEF Read
<1>6. Read(w, <<"decimals", x>>) = <<"decimals", x>>
  BY DEF Read
<1>7. Read(w, <<"migratorCount", x>>) = Len(w.migrators)
  BY DEF Read
<1>8. Read(w, <<"migratorAt", x>>) = w.migrators[x]
  BY DEF Read
<1>9. Read(w, <<"isRegistered", x>>) = (x \notin w.retired)
  BY DEF Read
<1>10. Read(w, <<"taxModeOf", x>>) = x.taxMode
  BY DEF Read
<1>11. Read(w, <<"routerOf", x>>) = x.router
  BY DEF Read
<1>12. Read(w, <<"VERSION", x>>) = x.label
  BY DEF Read
<1>13. Read(w, <<"poolManager", x>>) = x.manager
  BY DEF Read
<1>14. Read(w, <<"routerManager", x>>) = "served"
  BY DEF Read
<1> QED
  BY <1>1, <1>2, <1>3, <1>4, <1>5, <1>6, <1>7, <1>8, <1>9, <1>10, <1>11, <1>12, <1>13, <1>14

LEMMA ToleratedIs ==
    /\ Tolerated("VERSION") = {""} /\ Tolerated("poolManager") = {"none"}
    /\ \A name : name \notin {"VERSION", "poolManager"} => Tolerated(name) = {}
  BY DEF Tolerated

\* An answer that is not made up was given at some moment.
LEMMA HeardOf ==
    ASSUME NEW name, name \notin {"VERSION", "poolManager"}, NEW x, NEW a, Heard(<<name, x>>, a)
    PROVE  \E m \in DOMAIN history : HeardAt(history[m], <<name, x>>, a)
  BY ToleratedIs DEF Heard

LEMMA HasIs ==
    ASSUME NEW w, NEW x
    PROVE  /\ Has(w, <<"quoteTokenAt", x>>) <=> x \in DOMAIN w.quotes
           /\ Has(w, <<"migratorAt", x>>) <=> x \in DOMAIN w.migrators
           /\ Has(w, <<"quoteInfo", x>>) <=> \E r \in Range(w.quotes) : r.token = x
           /\ \A name : name \notin {"quoteTokenAt", "migratorAt", "quoteInfo"} => Has(w, <<name, x>>)
<1>1. Has(w, <<"quoteTokenAt", x>>) <=> x \in DOMAIN w.quotes
  BY DEF Has
<1>2. Has(w, <<"migratorAt", x>>) <=> x \in DOMAIN w.migrators
  BY DEF Has
<1>3. Has(w, <<"quoteInfo", x>>) <=> \E r \in Range(w.quotes) : r.token = x
  BY DEF Has
<1>4. \A name : name \notin {"quoteTokenAt", "migratorAt", "quoteInfo"} => Has(w, <<name, x>>)
  BY DEF Has
<1> QED
  BY <1>1, <1>2, <1>3, <1>4

\* A registry's record of a token, as it was read.
LEMMA RecordIs ==
    ASSUME NEW w, NEW x, NEW a, HeardAt(w, <<"quoteInfo", x>>, a)
    PROVE  a \in Range(w.quotes) /\ a.token = x
<1>1. (\E r \in Range(w.quotes) : r.token = x) /\ a = CHOOSE r \in Range(w.quotes) : r.token = x
  <2>1. Has(w, <<"quoteInfo", x>>) /\ a = Read(w, <<"quoteInfo", x>>)
    BY DEF HeardAt
  <2>2. Read(w, <<"quoteInfo", x>>) = CHOOSE r \in Range(w.quotes) : r.token = x
    BY DEF Read
  <2>3. \E r \in Range(w.quotes) : r.token = x
    BY <2>1, HasIs, Zenon
  <2> QED
    BY <2>1, <2>2, <2>3, Zenon
<1> QED
  BY <1>1

-----------------------------------------------------------------------------
(* The pages, one after the other.                                         *)

LEMMA PageIs ==
    ASSUME NEW pages, NEW whole, Paged(pages, whole), NEW k \in 1 .. Len(pages)
    PROVE  \E before :
              /\ Len(before) = k - 1 /\ \A j \in 1 .. k - 1 : before[j] = pages[j]
              /\ before = [j \in 1 .. k - 1 |-> before[j]]
              /\ PageFits(before, pages[k], whole)
<1> DEFINE before == SubSeq(pages, 1, k - 1)
<1>1. /\ Len(pages) \in Nat /\ pages = [j \in 1 .. Len(pages) |-> pages[j]]
      /\ PageFits(before, pages[k], whole)
  <2>1. /\ Len(pages) \in Nat /\ pages = [j \in 1 .. Len(pages) |-> pages[j]]
        /\ \A j \in DOMAIN pages : PageFits(SubSeq(pages, 1, j - 1), pages[j], whole)
    BY DEF Paged
  <2>2. k \in DOMAIN pages
    BY <2>1
  <2> QED
    BY <2>1, <2>2, Zenon
<1>2. k \in 1 .. Len(pages) + 1
  BY <1>1
<1>3. /\ Len(before) = k - 1 /\ before = [j \in 1 .. k - 1 |-> before[j]]
      /\ \A j \in 1 .. k - 1 : before[j] = pages[j]
  BY <1>1, <1>2, BeforeIs
<1> HIDE DEF before
<1> QED
  BY <1>1, <1>3

\* A page of what was asked by name.
LEMMA AnsweredIs ==
    ASSUME NEW asked, Len(asked) \in Nat, DOMAIN asked = 1 .. Len(asked),
           NEW page, NEW whole, Answered(asked, page, whole)
    PROVE  /\ Len(page) = Len(asked) /\ DOMAIN page = 1 .. Len(asked)
           /\ page = [i \in 1 .. Len(asked) |-> page[i]]
           /\ \A i \in 1 .. Len(asked) : Heard(asked[i], page[i])
           /\ whole => \E m \in DOMAIN history :
                           \A i \in 1 .. Len(asked) : HeardAt(history[m], asked[i], page[i])
<1>1. DOMAIN asked = 1 .. Len(asked) /\ Len(asked) \in Nat
  OBVIOUS
<1>2. /\ page = [i \in 1 .. Len(asked) |-> page[i]]
      /\ \A i \in 1 .. Len(asked) : Heard(asked[i], page[i])
      /\ whole => \E m \in DOMAIN history :
                      \A i \in 1 .. Len(asked) : HeardAt(history[m], asked[i], page[i])
  BY <1>1, Zenon DEF Answered
<1>3. Len(page) = Len(asked) /\ DOMAIN page = 1 .. Len(asked)
  BY <1>1, <1>2, IsSequence
<1> QED
  BY <1>2, <1>3

\* One read: of nothing, or of something.
LEMMA OneKey ==
    ASSUME NEW name, NEW S, NEW x \in S
    PROVE  /\ Keys(<<name>>) \in Seq({name} \X {""}) /\ Len(Keys(<<name>>)) = 1
           /\ Keys(<<name>>)[1] = <<name, "">> /\ DOMAIN Keys(<<name>>) = 1 .. 1
           /\ Indexed(name, <<x>>) \in Seq({name} \X S) /\ Len(Indexed(name, <<x>>)) = 1
           /\ Indexed(name, <<x>>)[1] = <<name, x>> /\ DOMAIN Indexed(name, <<x>>) = 1 .. 1
<1>1. /\ <<name>> \in Seq({name}) /\ Len(<<name>>) = 1 /\ <<name>>[1] = name /\ 1 \in 1 .. 1
      /\ <<x>> \in Seq(S) /\ Len(<<x>>) = 1 /\ <<x>>[1] = x
  OBVIOUS
<1>2. /\ Keys(<<name>>) \in Seq({name} \X {""}) /\ Len(Keys(<<name>>)) = 1
      /\ Keys(<<name>>)[1] = <<name, "">>
  BY <1>1, KeysAre
<1>3. /\ Indexed(name, <<x>>) \in Seq({name} \X S) /\ Len(Indexed(name, <<x>>)) = 1
      /\ Indexed(name, <<x>>)[1] = <<name, x>>
  <2> SUFFICES ASSUME NEW one, one = <<x>>
               PROVE  /\ Indexed(name, one) \in Seq({name} \X S) /\ Len(Indexed(name, one)) = 1
                      /\ Indexed(name, one)[1] = <<name, x>>
    OBVIOUS
  <2>1. one \in Seq(S) /\ Len(one) = 1 /\ one[1] = x /\ 1 \in 1 .. Len(one)
    BY <1>1
  <2>2. Indexed(name, one) \in Seq({name} \X S)
    BY <2>1, IndexedIs
  <2>3. Len(Indexed(name, one)) = 1
    BY <2>1, IndexedIs
  <2>4. Indexed(name, one)[1] = <<name, one[1]>>
    BY <2>1, IndexedIs, ZenonT(40)
  <2> QED
    BY <2>1, <2>2, <2>3, <2>4
<1>4. DOMAIN <<name>> = 1 .. 1 /\ DOMAIN <<x>> = 1 .. 1
  OBVIOUS
<1>5. DOMAIN Keys(<<name>>) = 1 .. 1 /\ DOMAIN Indexed(name, <<x>>) = 1 .. 1
  BY <1>4 DEF Keys, Indexed
<1> QED
  BY <1>2, <1>3, <1>5

-----------------------------------------------------------------------------
(* Where the reads of an entry are on the page they are asked on.          *)

LEMMA QuoteReads ==
    ASSUME NEW S, NEW quotes \in Seq(S)
    PROVE  LET infos == Indexed("quoteInfo", quotes)
               rest == Metadata(quotes)
               all == infos \o rest
               n == Len(quotes)
               unlisted == Unlisted(quotes)
               N == {"quoteInfo", "symbol", "name"}
           IN  /\ infos \in Seq(N \X S) /\ rest \in Seq(N \X S) /\ all \in Seq(N \X S)
               /\ Len(infos) = n /\ Len(all) = n + Len(rest) /\ Len(rest) = 2 * Len(unlisted)
               /\ n \in Nat /\ Len(rest) \in Nat
               /\ \A i \in 1 .. n : infos[i] = <<"quoteInfo", quotes[i]>>
               /\ \A i \in 1 .. n : all[i] = infos[i]
               /\ \A i \in 1 .. Len(rest) : all[n + i] = rest[i]
               /\ \A k \in 1 .. Len(unlisted) :
                      /\ 2 * (k - 1) + 1 \in 1 .. Len(rest) /\ 2 * (k - 1) + 2 \in 1 .. Len(rest)
                      /\ rest[2 * (k - 1) + 1] = <<"symbol", unlisted[k]>>
                      /\ rest[2 * (k - 1) + 2] = <<"name", unlisted[k]>>
<1> DEFINE infos == Indexed("quoteInfo", quotes)
           rest == Metadata(quotes)
           all == infos \o rest
           n == Len(quotes)
           unlisted == Unlisted(quotes)
           N == {"quoteInfo", "symbol", "name"}
           P == N \X S
           names == <<"symbol", "name">>
<1>1. unlisted \in Seq(S) /\ Len(unlisted) \in Nat
  BY UnlistedIs
<1>2. names \in Seq(N) /\ Len(names) = 2 /\ names[1] = "symbol" /\ names[2] = "name"
  OBVIOUS
<1>3. /\ rest \in Seq(P) /\ Len(rest) = 2 * Len(unlisted)
      /\ \A k \in 1 .. Len(unlisted) : \A j \in 1 .. 2 :
             /\ 2 * (k - 1) + j \in 1 .. Len(rest)
             /\ rest[2 * (k - 1) + j] = <<names[j], unlisted[k]>>
  <2> HIDE DEF names, unlisted, N
  <2>1. 2 \in Nat
    OBVIOUS
  <2>2. /\ Each(unlisted, names) \in Seq(N \X S) /\ Len(Each(unlisted, names)) = 2 * Len(unlisted)
        /\ Spread(Each(unlisted, names), unlisted, names, 2)
    BY <1>1, <1>2, <2>1, EachAt, Zenon
  <2>3. rest = Each(unlisted, names)
    BY DEF Metadata, unlisted, names
  <2>4. Spread(rest, unlisted, names, 2)
    BY <2>2, <2>3, Zenon
  <2> QED
    BY <2>2, <2>3, <2>4, Zenon DEF Spread
<1>4. /\ infos \in Seq({"quoteInfo"} \X S) /\ Len(infos) = n
      /\ \A i \in 1 .. n : infos[i] = <<"quoteInfo", quotes[i]>>
  BY IndexedIs
<1>5. infos \in Seq(P)
  <2>1. {"quoteInfo"} \X S \subseteq P
    OBVIOUS
  <2> HIDE DEF P, infos
  <2> QED
    BY <1>4, <2>1, SeqMonotonic
<1>6. n \in Nat /\ Len(rest) \in Nat
  BY <1>1, <1>3
<1> HIDE DEF infos, rest, P, n, unlisted
<1>7. /\ all \in Seq(P) /\ Len(all) = n + Len(rest)
      /\ \A i \in 1 .. n + Len(rest) : all[i] = IF i <= n THEN infos[i] ELSE rest[i - n]
  BY <1>3, <1>4, <1>5, ConcatProperties
<1> HIDE DEF all
<1>8. \A i \in 1 .. n : all[i] = infos[i]
  BY <1>6, <1>7
<1>9. ASSUME NEW i \in 1 .. Len(rest) PROVE all[n + i] = rest[i]
  <2>1. n + i \in 1 .. n + Len(rest) /\ ~(n + i <= n) /\ (n + i) - n = i
    BY <1>6
  <2> QED
    BY <1>7, <2>1
<1>10. ASSUME NEW k \in 1 .. Len(unlisted)
       PROVE  /\ 2 * (k - 1) + 1 \in 1 .. Len(rest) /\ 2 * (k - 1) + 2 \in 1 .. Len(rest)
              /\ rest[2 * (k - 1) + 1] = <<"symbol", unlisted[k]>>
              /\ rest[2 * (k - 1) + 2] = <<"name", unlisted[k]>>
  <2>1. 1 \in 1 .. 2 /\ 2 \in 1 .. 2
    OBVIOUS
  <2> HIDE DEF names
  <2> QED
    BY <1>2, <1>3, <2>1, Zenon
<1> QED
  BY <1>1, <1>3, <1>4, <1>5, <1>6, <1>7, <1>8, <1>9, <1>10 DEF infos, rest, all, n, unlisted, P

\* How many of the first i nothing describes yet.
UpTo(quotes, i) == Cardinality({j \in 1 .. i : quotes[j] \notin ListedTokens})

LEMMA UpToIs ==
    ASSUME NEW quotes
    PROVE  /\ UpTo(quotes, 0) = 0
           /\ \A i \in Nat : UpTo(quotes, i) \in Nat
           /\ \A i \in Nat \ {0} :
                  UpTo(quotes, i) = UpTo(quotes, i - 1)
                                    + (IF quotes[i] \notin ListedTokens THEN 1 ELSE 0)
<1> DEFINE Of(i) == {j \in 1 .. i : quotes[j] \notin ListedTokens}
<1>1. \A i \in Nat : IsFiniteSet(Of(i)) /\ Cardinality(Of(i)) \in Nat
  <2> SUFFICES ASSUME NEW i \in Nat PROVE IsFiniteSet(Of(i)) /\ Cardinality(Of(i)) \in Nat
    OBVIOUS
  <2>1. IsFiniteSet(1 .. i) /\ Of(i) \subseteq 1 .. i
    BY FS_Interval
  <2>2. IsFiniteSet(Of(i))
    BY <2>1, FS_Subset
  <2> QED
    BY <2>2, FS_CardinalityType
<1>2. Of(0) = {} /\ Cardinality(Of(0)) = 0
  <2>1. Of(0) = {}
    OBVIOUS
  <2> QED
    BY <2>1, FS_EmptySet
<1>3. ASSUME NEW i \in Nat \ {0}
      PROVE  Cardinality(Of(i)) = Cardinality(Of(i - 1))
                                  + (IF quotes[i] \notin ListedTokens THEN 1 ELSE 0)
  <2>1. i - 1 \in Nat /\ i \notin Of(i - 1) /\ \A j : j \in 1 .. i <=> j \in 1 .. i - 1 \/ j = i
    OBVIOUS
  <2>2. IsFiniteSet(Of(i - 1)) /\ Cardinality(Of(i - 1)) \in Nat
    BY <1>1, <2>1
  <2>3. CASE quotes[i] \notin ListedTokens
    <3>1. Of(i) = Of(i - 1) \cup {i}
      BY <2>1, <2>3
    <3>2. Cardinality(Of(i - 1) \cup {i}) = Cardinality(Of(i - 1)) + 1
      BY <2>1, <2>2, FS_AddElement
    <3> QED
      BY <2>3, <3>1, <3>2
  <2>4. CASE quotes[i] \in ListedTokens
    <3>1. Of(i) = Of(i - 1)
      BY <2>1, <2>4
    <3> QED
      BY <2>2, <2>4, <3>1
  <2> QED
    BY <2>3, <2>4
<1> QED
  BY <1>1, <1>2, <1>3 DEF UpTo

LEMMA EntryReadsAre ==
    ASSUME NEW S, NEW q \in S
    PROVE  LET reads == EntryReads(q)
           IN  /\ reads \in Seq({"quoteInfo", "symbol", "name", "decimals"} \X S)
               /\ Len(reads) = IF q \in ListedTokens THEN 1 ELSE 4
               /\ reads[1] = <<"quoteInfo", q>>
               /\ q \notin ListedTokens => /\ reads[2] = <<"symbol", q>>
                                           /\ reads[3] = <<"name", q>>
                                           /\ reads[4] = <<"decimals", q>>
<1> DEFINE N == {"quoteInfo", "symbol", "name", "decimals"}
           one == <<"quoteInfo">>
           four == <<"quoteInfo", "symbol", "name", "decimals">>
<1>1. /\ one \in Seq(N) /\ Len(one) = 1 /\ one[1] = "quoteInfo"
      /\ four \in Seq(N) /\ Len(four) = 4 /\ four[1] = "quoteInfo" /\ four[2] = "symbol"
      /\ four[3] = "name" /\ four[4] = "decimals"
  OBVIOUS
<1>2. PICK s : s = <<q>> /\ s \in Seq(S) /\ Len(s) = 1 /\ s[1] = q
  <2>1. <<q>> \in Seq(S) /\ Len(<<q>>) = 1 /\ <<q>>[1] = q
    OBVIOUS
  <2> QED
    BY <2>1, Zenon
<1>3. EntryReads(q) = Each(s, IF q \in ListedTokens THEN one ELSE four)
  BY <1>2 DEF EntryReads
<1> HIDE DEF N, one, four
<1>4. ASSUME NEW k \in Nat, NEW names \in Seq(N), Len(names) = k
      PROVE  /\ Each(s, names) \in Seq(N \X S) /\ Len(Each(s, names)) = k
             /\ \A j \in 1 .. k : Each(s, names)[j] = <<names[j], q>>
  <2>1. /\ Each(s, names) \in Seq(N \X S) /\ Len(Each(s, names)) = k * Len(s)
        /\ Spread(Each(s, names), s, names, k)
    <3>1. s \in Seq(S) /\ names \in Seq(N) /\ k \in Nat /\ Len(names) = k
      BY <1>2, <1>4
    <3> QED
      BY <3>1, EachAt, Zenon
  <2>2. k * 1 = k /\ 1 \in 1 .. 1 /\ \A j \in 1 .. k : k * (1 - 1) + j = j
    OBVIOUS
  <2>3. \A j \in 1 .. k : Each(s, names)[k * (1 - 1) + j] = <<names[j], s[1]>>
    <3>1. 1 \in 1 .. Len(s)
      BY <1>2
    <3> QED
      BY <2>1, <3>1, Zenon DEF Spread
  <2> QED
    BY <1>2, <2>1, <2>2, <2>3
<1>5. CASE q \in ListedTokens
  <2>1. EntryReads(q) = Each(s, one)
    BY <1>3, <1>5
  <2>2. /\ Each(s, one) \in Seq(N \X S) /\ Len(Each(s, one)) = 1
        /\ \A j \in 1 .. 1 : Each(s, one)[j] = <<one[j], q>>
    BY <1>1, <1>4
  <2>3. 1 \in 1 .. 1
    OBVIOUS
  <2> QED
    BY <1>1, <1>5, <2>1, <2>2, <2>3 DEF N
<1>6. CASE q \notin ListedTokens
  <2>1. EntryReads(q) = Each(s, four)
    BY <1>3, <1>6
  <2>2. /\ Each(s, four) \in Seq(N \X S) /\ Len(Each(s, four)) = 4
        /\ \A j \in 1 .. 4 : Each(s, four)[j] = <<four[j], q>>
    BY <1>1, <1>4
  <2>3. 1 \in 1 .. 4 /\ 2 \in 1 .. 4 /\ 3 \in 1 .. 4 /\ 4 \in 1 .. 4
    OBVIOUS
  <2> QED
    BY <1>1, <1>6, <2>1, <2>2, <2>3 DEF N
<1> QED
  BY <1>5, <1>6

\* The crate's third page: each entry where AnswersAt has it.
LEMMA CrateQuoteReads ==
    ASSUME NEW S, NEW quotes \in Seq(S)
    PROVE  LET all == FlattenSeq([i \in DOMAIN quotes |-> EntryReads(quotes[i])])
           IN  /\ all \in Seq({"quoteInfo", "symbol", "name", "decimals"} \X S)
               /\ Len(all) >= Len(quotes)
               /\ \A i \in 1 .. Len(quotes) :
                      LET at == AnswersAt(quotes, i)
                      IN  /\ at \in Nat /\ at \in 1 .. Len(all) /\ all[at] = <<"quoteInfo", quotes[i]>>
                          /\ quotes[i] \notin ListedTokens =>
                                /\ {at + 1, at + 2, at + 3} \subseteq 1 .. Len(all)
                                /\ all[at + 1] = <<"symbol", quotes[i]>>
                                /\ all[at + 2] = <<"name", quotes[i]>>
                                /\ all[at + 3] = <<"decimals", quotes[i]>>
<1> DEFINE N == {"quoteInfo", "symbol", "name", "decimals"}
           P == N \X S
           seqs == [i \in 1 .. Len(quotes) |-> EntryReads(quotes[i])]
           all == FlattenSeq(seqs)
<1>1. PICK n \in Nat : n = Len(quotes)
  OBVIOUS
<1>2. DOMAIN quotes = 1 .. n /\ \A i \in 1 .. n : quotes[i] \in S
  BY <1>1
<1>3. FlattenSeq([i \in DOMAIN quotes |-> EntryReads(quotes[i])]) = all
  BY <1>1, <1>2
<1>4. ASSUME NEW i \in 1 .. n
      PROVE  /\ seqs[i] = EntryReads(quotes[i])
             /\ seqs[i] \in Seq(P)
             /\ Len(seqs[i]) = IF quotes[i] \in ListedTokens THEN 1 ELSE 4
             /\ seqs[i][1] = <<"quoteInfo", quotes[i]>>
             /\ quotes[i] \notin ListedTokens => /\ seqs[i][2] = <<"symbol", quotes[i]>>
                                                 /\ seqs[i][3] = <<"name", quotes[i]>>
                                                 /\ seqs[i][4] = <<"decimals", quotes[i]>>
  <2>1. seqs[i] = EntryReads(quotes[i]) /\ quotes[i] \in S
    BY <1>1, <1>2
  <2> HIDE DEF seqs
  <2> QED
    BY <2>1, EntryReadsAre, ZenonT(40)
<1>5. seqs \in Seq(Seq(P)) /\ Len(seqs) = n
  <2>1. seqs = [i \in 1 .. n |-> seqs[i]]
    BY <1>1
  <2> HIDE DEF seqs, P
  <2> QED
    BY <1>4, <2>1, SequenceOf
<1> HIDE DEF seqs
<1>6. PICK off \in [0 .. n -> Nat] : \A i \in 0 .. n : off[i] = i + 3 * UpTo(quotes, i)
  <2> DEFINE f == [i \in 0 .. n |-> i + 3 * UpTo(quotes, i)]
  <2>1. \A i \in 0 .. n : i + 3 * UpTo(quotes, i) \in Nat
    BY UpToIs, SMTT(20)
  <2>2. f \in [0 .. n -> Nat] /\ \A i \in 0 .. n : f[i] = i + 3 * UpTo(quotes, i)
    BY <2>1
  <2> HIDE DEF f
  <2> QED
    BY <2>2
<1>7. ASSUME NEW i \in 1 .. n
      PROVE  off[i] = off[i - 1] + Len(seqs[i])
  <2>1. i \in Nat \ {0} /\ i \in 0 .. n /\ i - 1 \in 0 .. n /\ i - 1 \in Nat
    OBVIOUS
  <2>2. off[i] = i + 3 * UpTo(quotes, i) /\ off[i - 1] = (i - 1) + 3 * UpTo(quotes, i - 1)
    BY <1>6, <2>1
  <2>3. /\ UpTo(quotes, i - 1) \in Nat
        /\ UpTo(quotes, i) = UpTo(quotes, i - 1) + (IF quotes[i] \notin ListedTokens THEN 1 ELSE 0)
    BY <2>1, UpToIs
  <2>4. PICK u \in Nat, k \in {0, 1} :
           /\ u = UpTo(quotes, i - 1) /\ UpTo(quotes, i) = u + k
           /\ k = IF quotes[i] \notin ListedTokens THEN 1 ELSE 0
    BY <2>3
  <2>5. Len(seqs[i]) = 1 + 3 * k
    BY <1>4, <2>4
  <2>6. off[i] = i + 3 * (u + k) /\ off[i - 1] = (i - 1) + 3 * u
    BY <2>2, <2>4, Zenon
  <2>7. i + 3 * (u + k) = ((i - 1) + 3 * u) + (1 + 3 * k)
    BY <2>1, <2>4, SMTT(20)
  <2> QED
    BY <2>5, <2>6, <2>7, Zenon
<1>8. Ends(seqs, off)
  <2>1. off[0] = 0
    <3>1. 0 \in 0 .. n
      OBVIOUS
    <3> QED
      BY <1>6, <3>1, UpToIs
  <2> QED
    BY <1>5, <1>6, <1>7, <2>1 DEF Ends
<1>9. /\ all \in Seq(P) /\ Len(all) = off[n]
      /\ \A i \in 1 .. n : \A j \in 1 .. Len(seqs[i]) :
             off[i - 1] + j \in 1 .. Len(all) /\ all[off[i - 1] + j] = seqs[i][j]
  <2> HIDE DEF P
  <2>1. all \in Seq(P) /\ Len(all) = off[Len(seqs)] /\ Joined(all, seqs, off)
    BY <1>5, <1>8, FlattenIs, Zenon
  <2> HIDE DEF all
  <2> QED
    BY <1>5, <2>1 DEF Joined
<1> HIDE DEF all
<1>10. Len(all) >= n
  <2>1. n \in 0 .. n /\ UpTo(quotes, n) \in Nat
    BY UpToIs
  <2> QED
    BY <1>6, <1>9, <2>1
<1>11. ASSUME NEW i \in 1 .. n
       PROVE  AnswersAt(quotes, i) = off[i - 1] + 1 /\ off[i - 1] \in Nat
  <2> DEFINE before == SubSeq(quotes, 1, i - 1)
  <2>1. i - 1 \in Nat /\ i - 1 \in 0 .. n /\ 1 .. i - 1 \subseteq 1 .. n
    OBVIOUS
  <2>2. before \in Seq(S) /\ Len(before) = i - 1 /\ \A j \in 1 .. i - 1 : before[j] = quotes[j]
    BY <1>1, <1>2, <2>1
  <2> HIDE DEF before
  <2>3. Len(Unlisted(before)) = Cardinality({j \in 1 .. Len(before) : before[j] \notin ListedTokens})
    BY <2>2, UnlistedIs
  <2>4. {j \in 1 .. Len(before) : before[j] \notin ListedTokens}
            = {j \in 1 .. i - 1 : quotes[j] \notin ListedTokens}
    BY <2>2
  <2>5. Len(Unlisted(before)) = UpTo(quotes, i - 1)
    BY <2>3, <2>4 DEF UpTo
  <2>6. AnswersAt(quotes, i) = i + 3 * UpTo(quotes, i - 1)
    BY <2>5 DEF AnswersAt, before
  <2>7. off[i - 1] = (i - 1) + 3 * UpTo(quotes, i - 1) /\ UpTo(quotes, i - 1) \in Nat
    BY <1>6, <2>1, UpToIs
  <2> QED
    BY <2>1, <2>6, <2>7
<1>12. ASSUME NEW i \in 1 .. n
       PROVE  LET at == AnswersAt(quotes, i)
              IN  /\ at \in Nat /\ at \in 1 .. Len(all) /\ all[at] = <<"quoteInfo", quotes[i]>>
                  /\ quotes[i] \notin ListedTokens =>
                        /\ {at + 1, at + 2, at + 3} \subseteq 1 .. Len(all)
                        /\ all[at + 1] = <<"symbol", quotes[i]>>
                        /\ all[at + 2] = <<"name", quotes[i]>>
                        /\ all[at + 3] = <<"decimals", quotes[i]>>
  <2> DEFINE at == AnswersAt(quotes, i)
             o == off[i - 1]
  <2>1. at = o + 1 /\ o \in Nat
    BY <1>11
  <2> HIDE DEF at
  <2>2. \A j \in 1 .. Len(seqs[i]) : o + j \in 1 .. Len(all) /\ all[o + j] = seqs[i][j]
    BY <1>9
  <2> HIDE DEF o
  <2>3. 1 \in 1 .. Len(seqs[i]) /\ o + 1 = at /\ at \in Nat
    <3>1. Len(seqs[i]) = 1 \/ Len(seqs[i]) = 4
      BY <1>4
    <3>2. 1 \in 1 .. 1 /\ 1 \in 1 .. 4
      OBVIOUS
    <3>3. 1 \in 1 .. Len(seqs[i])
      BY <3>1, <3>2, Zenon
    <3> QED
      BY <2>1, <3>3
  <2>4. at \in 1 .. Len(all) /\ all[at] = seqs[i][1]
    BY <2>2, <2>3
  <2>5. ASSUME quotes[i] \notin ListedTokens
        PROVE  /\ {at + 1, at + 2, at + 3} \subseteq 1 .. Len(all)
               /\ all[at + 1] = <<"symbol", quotes[i]>>
               /\ all[at + 2] = <<"name", quotes[i]>>
               /\ all[at + 3] = <<"decimals", quotes[i]>>
    <3>1. /\ 2 \in 1 .. Len(seqs[i]) /\ 3 \in 1 .. Len(seqs[i]) /\ 4 \in 1 .. Len(seqs[i])
      BY <1>4, <2>5
    <3>2. o + 2 = at + 1 /\ o + 3 = at + 2 /\ o + 4 = at + 3
      BY <2>1
    <3>3. /\ at + 1 \in 1 .. Len(all) /\ all[at + 1] = seqs[i][2]
          /\ at + 2 \in 1 .. Len(all) /\ all[at + 2] = seqs[i][3]
          /\ at + 3 \in 1 .. Len(all) /\ all[at + 3] = seqs[i][4]
      <4>1. at + 1 \in 1 .. Len(all) /\ all[at + 1] = seqs[i][2]
        BY <2>2, <3>1, <3>2
      <4>2. at + 2 \in 1 .. Len(all) /\ all[at + 2] = seqs[i][3]
        BY <2>2, <3>1, <3>2
      <4>3. at + 3 \in 1 .. Len(all) /\ all[at + 3] = seqs[i][4]
        BY <2>2, <3>1, <3>2
      <4> QED
        BY <4>1, <4>2, <4>3
    <3>4. /\ seqs[i][2] = <<"symbol", quotes[i]>> /\ seqs[i][3] = <<"name", quotes[i]>>
          /\ seqs[i][4] = <<"decimals", quotes[i]>>
      BY <1>4, <2>5
    <3> QED
      BY <3>3, <3>4
  <2>6. all[at] = <<"quoteInfo", quotes[i]>>
    BY <1>4, <2>4
  <2> QED
    BY <2>3, <2>4, <2>5, <2>6 DEF at
<1> QED
  BY <1>1, <1>3, <1>9, <1>10, <1>12 DEF P

LEMMA MigratorReads ==
    ASSUME NEW S, NEW subjects \in Seq(S), NEW N, NEW names \in Seq(N), Len(names) = 4
    PROVE  LET all == Each(subjects, names)
           IN  /\ all \in Seq(N \X S) /\ Len(all) = 4 * Len(subjects)
               /\ \A i \in 1 .. Len(subjects) :
                      /\ {4 * i - 3, 4 * i - 2, 4 * i - 1, 4 * i} \subseteq 1 .. Len(all)
                      /\ all[4 * i - 3] = <<names[1], subjects[i]>>
                      /\ all[4 * i - 2] = <<names[2], subjects[i]>>
                      /\ all[4 * i - 1] = <<names[3], subjects[i]>>
                      /\ all[4 * i] = <<names[4], subjects[i]>>
<1> DEFINE all == Each(subjects, names)
<1>1. 4 \in Nat
  OBVIOUS
<1>2. all \in Seq(N \X S) /\ Len(all) = 4 * Len(subjects) /\ Spread(all, subjects, names, 4)
  BY <1>1, EachAt, Zenon
<1> HIDE DEF all
<1>3. ASSUME NEW i \in 1 .. Len(subjects)
      PROVE  /\ {4 * i - 3, 4 * i - 2, 4 * i - 1, 4 * i} \subseteq 1 .. Len(all)
             /\ all[4 * i - 3] = <<names[1], subjects[i]>>
             /\ all[4 * i - 2] = <<names[2], subjects[i]>>
             /\ all[4 * i - 1] = <<names[3], subjects[i]>>
             /\ all[4 * i] = <<names[4], subjects[i]>>
  <2>1. 1 \in 1 .. 4 /\ 2 \in 1 .. 4 /\ 3 \in 1 .. 4 /\ 4 \in 1 .. 4
    OBVIOUS
  <2>2. /\ 4 * (i - 1) + 1 = 4 * i - 3 /\ 4 * (i - 1) + 2 = 4 * i - 2
        /\ 4 * (i - 1) + 3 = 4 * i - 1 /\ 4 * (i - 1) + 4 = 4 * i
    OBVIOUS
  <2>3. \A j \in 1 .. 4 : /\ 4 * (i - 1) + j \in 1 .. Len(all)
                          /\ all[4 * (i - 1) + j] = <<names[j], subjects[i]>>
    BY <1>2, Zenon DEF Spread
  <2>4. 4 * i - 3 \in 1 .. Len(all) /\ all[4 * i - 3] = <<names[1], subjects[i]>>
    BY <2>1, <2>2, <2>3
  <2>5. 4 * i - 2 \in 1 .. Len(all) /\ all[4 * i - 2] = <<names[2], subjects[i]>>
    BY <2>1, <2>2, <2>3
  <2>6. 4 * i - 1 \in 1 .. Len(all) /\ all[4 * i - 1] = <<names[3], subjects[i]>>
    BY <2>1, <2>2, <2>3
  <2>7. 4 * i \in 1 .. Len(all) /\ all[4 * i] = <<names[4], subjects[i]>>
    BY <2>1, <2>2, <2>3
  <2> QED
    BY <2>4, <2>5, <2>6, <2>7
<1> QED
  BY <1>2, <1>3 DEF all

-----------------------------------------------------------------------------
(* The entries of a registry: how many there are, and then each of them.   *)

InPages == By("ts") \/ plan.kind = "quotes"
CountName == IF plan.kind = "quotes" THEN "quoteTokenCount" ELSE "migratorCount"
PlaceName == IF plan.kind = "quotes" THEN "quoteTokenAt" ELSE "migratorAt"
Entry == IF plan.kind = "quotes" THEN Tokens ELSE MigratorRecord
Entries(w) ==
    IF plan.kind = "quotes" THEN [i \in DOMAIN w.quotes |-> w.quotes[i].token] ELSE w.migrators

Counted(pages) ==
    /\ Len(pages) > 0 => /\ Len(pages[1]) = 1
                          /\ \E m \in DOMAIN history : pages[1][1] = Len(Entries(history[m]))
    /\ Len(pages) > 1 => /\ pages[1][1] # 0
                          /\ Len(pages[2]) = pages[1][1] /\ pages[2] \in Seq(Entry)
                          /\ \A i \in 1 .. pages[1][1] : \E m \in DOMAIN history :
                                 i \in DOMAIN Entries(history[m]) /\ pages[2][i] = Entries(history[m])[i]

LEMMA EntriesAre ==
    ASSUME WorldsKept, Registries, plan.kind \in Lists, NEW m \in DOMAIN history
    PROVE  LET w == history[m]
           IN  /\ Entries(w) \in Seq(Entry) /\ Len(Entries(w)) \in Nat
               /\ DOMAIN Entries(w) = 1 .. Len(Entries(w))
               /\ Len(Entries(w)) = IF plan.kind = "quotes" THEN Len(w.quotes) ELSE Len(w.migrators)
               /\ Len(Entries(w)) <= Len(Entries(World))
               /\ \A i \in DOMAIN Entries(w) :
                      /\ i \in DOMAIN Entries(World) /\ Entries(World)[i] = Entries(w)[i]
                      /\ Entries(w)[i] \in Entry
<1>1. ASSUME NEW k \in DOMAIN history
      PROVE  LET w == history[k]
             IN  /\ Entries(w) \in Seq(Entry) /\ Len(Entries(w)) \in Nat
                 /\ DOMAIN Entries(w) = 1 .. Len(Entries(w))
                 /\ Len(Entries(w)) = IF plan.kind = "quotes" THEN Len(w.quotes) ELSE Len(w.migrators)
                 /\ \A i \in DOMAIN Entries(w) : Entries(w)[i] \in Entry
  <2> DEFINE w == history[k]
  <2>1. CASE plan.kind = "quotes"
    <3>1. /\ Len(w.quotes) \in Nat /\ DOMAIN w.quotes = 1 .. Len(w.quotes)
          /\ \A i \in DOMAIN w.quotes : w.quotes[i].token \in Tokens
      BY MomentIs
    <3> DEFINE s == [i \in 1 .. Len(w.quotes) |-> w.quotes[i].token]
    <3>2. Entries(w) = s /\ Entry = Tokens
      BY <2>1, <3>1 DEF Entries, Entry
    <3>3. s = [i \in 1 .. Len(w.quotes) |-> s[i]] /\ \A i \in 1 .. Len(w.quotes) : s[i] \in Tokens
      BY <3>1
    <3> HIDE DEF s
    <3>4. s \in Seq(Tokens) /\ Len(s) = Len(w.quotes) /\ DOMAIN s = 1 .. Len(w.quotes)
      BY <3>1, <3>3, SequenceOf
    <3> QED
      BY <2>1, <3>1, <3>2, <3>3, <3>4
  <2>2. CASE plan.kind # "quotes"
    <3>1. Entries(w) = w.migrators /\ Entry = MigratorRecord
      BY <2>2 DEF Entries, Entry
    <3> QED
      BY <2>2, <3>1, MomentIs
  <2> QED
    BY <2>1, <2>2
<1>2. /\ Grown(history[m], World)
      /\ \A i \in DOMAIN history[m].quotes :
             i \in DOMAIN World.quotes /\ World.quotes[i].token = history[m].quotes[i].token
      /\ \A i \in DOMAIN history[m].migrators :
             i \in DOMAIN World.migrators /\ World.migrators[i] = history[m].migrators[i]
  BY StillThere
<1>3. Len(history) \in DOMAIN history /\ World = history[Len(history)]
  BY WorldIn
<1>4. Len(Entries(World)) = IF plan.kind = "quotes" THEN Len(World.quotes) ELSE Len(World.migrators)
  BY <1>1, <1>3
<1>5. Len(Entries(history[m])) <= Len(Entries(World))
  BY <1>1, <1>2, <1>4 DEF Grown
<1>6. \A i \in DOMAIN Entries(history[m]) :
          i \in DOMAIN Entries(World) /\ Entries(World)[i] = Entries(history[m])[i]
  BY <1>2 DEF Entries
<1> QED
  BY <1>1, <1>5, <1>6

LEMMA EntriesHeard ==
    ASSUME WorldsKept, Registries, plan.kind \in Lists, NEW m \in DOMAIN history, NEW x, NEW a
    PROVE  /\ HeardAt(history[m], <<CountName, x>>, a) => a = Len(Entries(history[m]))
           /\ HeardAt(history[m], <<PlaceName, x>>, a) =>
                  x \in DOMAIN Entries(history[m]) /\ a = Entries(history[m])[x]
           /\ \A w : Has(w, <<CountName, x>>)
           /\ \A w : x \in DOMAIN Entries(w) => Has(w, <<PlaceName, x>>)
<1> DEFINE w == history[m]
<1>1. Len(Entries(w)) = IF plan.kind = "quotes" THEN Len(w.quotes) ELSE Len(w.migrators)
  BY EntriesAre
<1>2. CASE plan.kind = "quotes"
  <2>1. /\ CountName = "quoteTokenCount" /\ PlaceName = "quoteTokenAt"
        /\ \A v : Entries(v) = [i \in DOMAIN v.quotes |-> v.quotes[i].token]
    BY <1>2 DEF CountName, PlaceName, Entries
  <2>2. /\ Read(w, <<"quoteTokenCount", x>>) = Len(w.quotes)
        /\ Read(w, <<"quoteTokenAt", x>>) = w.quotes[x].token
    BY DEF Read
  <2>3. /\ \A v : Has(v, <<"quoteTokenAt", x>>) <=> x \in DOMAIN v.quotes
        /\ \A v : Has(v, <<"quoteTokenCount", x>>)
    BY HasIs
  <2> QED
    BY <1>1, <1>2, <2>1, <2>2, <2>3 DEF HeardAt
<1>3. CASE plan.kind # "quotes"
  <2>1. CountName = "migratorCount" /\ PlaceName = "migratorAt" /\ \A v : Entries(v) = v.migrators
    BY <1>3 DEF CountName, PlaceName, Entries
  <2>2. /\ Read(w, <<"migratorCount", x>>) = Len(w.migrators)
        /\ Read(w, <<"migratorAt", x>>) = w.migrators[x]
    BY DEF Read
  <2>3. /\ \A v : Has(v, <<"migratorAt", x>>) <=> x \in DOMAIN v.migrators
        /\ \A v : Has(v, <<"migratorCount", x>>)
    BY HasIs
  <2> QED
    BY <1>1, <1>3, <2>1, <2>2, <2>3 DEF HeardAt
<1> QED
  BY <1>2, <1>3

LEMMA FirstPagesAre ==
    ASSUME WorldsKept, plan.kind \in Lists, InPages, NEW pages
    PROVE  /\ ~PassesBy(pages)
           /\ Len(pages) = 0 => NextPage(pages) = Keys(<<CountName>>)
           /\ Len(pages) = 1 => NextPage(pages) = Indexed(PlaceName, [i \in 1 .. pages[1][1] |-> i])
<1>1. plan.kind \in {"quotes", "migrators"} /\ (By("crate") <=> ~By("ts"))
  BY ListPlan
<1>2. CASE plan.kind = "quotes"
  <2>1. ~PassesBy(pages)
    BY <1>2 DEF PassesBy
  <2>2. NextPage(pages) = IF By("ts") THEN QuotePage(pages) ELSE CrateQuotePage(pages)
    BY <1>2 DEF NextPage, Page, CratePage
  <2>3. CountName = "quoteTokenCount" /\ PlaceName = "quoteTokenAt"
    BY <1>2 DEF CountName, PlaceName
  <2>4. ASSUME Len(pages) = 0 PROVE NextPage(pages) = Keys(<<CountName>>)
    BY <2>2, <2>3, <2>4 DEF QuotePage, CrateQuotePage
  <2>5. ASSUME Len(pages) = 1
        PROVE  NextPage(pages) = Indexed(PlaceName, [i \in 1 .. pages[1][1] |-> i])
    BY <2>2, <2>3, <2>5 DEF QuotePage, CrateQuotePage
  <2> QED
    BY <2>1, <2>4, <2>5
<1>3. CASE plan.kind = "migrators"
  <2>1. By("ts") /\ ~PassesBy(pages)
    BY <1>1, <1>3 DEF PassesBy, InPages
  <2>2. NextPage(pages) = MigratorPage(pages)
    BY <1>3, <2>1 DEF NextPage, Page
  <2>3. CountName = "migratorCount" /\ PlaceName = "migratorAt"
    BY <1>3 DEF CountName, PlaceName
  <2>4. ASSUME Len(pages) = 0 PROVE NextPage(pages) = Keys(<<CountName>>)
    BY <2>2, <2>3, <2>4 DEF MigratorPage
  <2>5. ASSUME Len(pages) = 1
        PROVE  NextPage(pages) = Indexed(PlaceName, [i \in 1 .. pages[1][1] |-> i])
    BY <2>2, <2>3, <2>5 DEF MigratorPage
  <2> QED
    BY <2>1, <2>4, <2>5
<1> QED
  BY <1>1, <1>2, <1>3

\* The reads of the second page.
LEMMA PlacesAsked ==
    ASSUME NEW n \in Nat, NEW name
    PROVE  LET asked == Indexed(name, [i \in 1 .. n |-> i])
           IN  /\ asked \in Seq({name} \X (1 .. n)) /\ Len(asked) = n
               /\ \A i \in 1 .. n : asked[i] = <<name, i>>
<1> DEFINE s == [i \in 1 .. n |-> i]
<1>1. s \in Seq(1 .. n) /\ Len(s) = n /\ \A i \in 1 .. n : s[i] = i
  BY CountTo
<1> HIDE DEF s
<1>2. /\ Indexed(name, s) \in Seq({name} \X (1 .. n)) /\ Len(Indexed(name, s)) = Len(s)
      /\ \A i \in 1 .. Len(s) : Indexed(name, s)[i] = <<name, s[i]>>
  <2> SUFFICES ASSUME NEW S, S = 1 .. n
               PROVE  /\ Indexed(name, s) \in Seq({name} \X S) /\ Len(Indexed(name, s)) = Len(s)
                      /\ \A i \in 1 .. Len(s) : Indexed(name, s)[i] = <<name, s[i]>>
    OBVIOUS
  <2>1. s \in Seq(S)
    BY <1>1
  <2>2. Indexed(name, s) \in Seq({name} \X S)
    BY <2>1, IndexedIs
  <2>3. Len(Indexed(name, s)) = Len(s)
    BY <2>1, IndexedIs
  <2>4. \A i \in 1 .. Len(s) : Indexed(name, s)[i] = <<name, s[i]>>
    BY <2>1, IndexedIs, ZenonT(40)
  <2> QED
    BY <2>2, <2>3, <2>4
<1>3. \A i \in 1 .. n : Indexed(name, s)[i] = <<name, i>>
  BY <1>1, <1>2
<1> QED
  BY <1>1, <1>2, <1>3 DEF s

LEMMA CountedIs ==
    ASSUME WorldsKept, Registries, plan.kind \in Lists, InPages,
           NEW pages, NEW whole, Paged(pages, whole)
    PROVE  Counted(pages)
<1>0. Len(pages) \in Nat
  BY DEF Paged
<1>1. ASSUME Len(pages) > 0
      PROVE  /\ Len(pages[1]) = 1
             /\ \E m \in DOMAIN history : pages[1][1] = Len(Entries(history[m]))
  <2>1. 1 \in 1 .. Len(pages)
    BY <1>0, <1>1
  <2>2. PICK before : Len(before) = 1 - 1 /\ PageFits(before, pages[1], whole)
    BY <2>1, PageIs
  <2>3. NextPage(before) = Keys(<<CountName>>) /\ ~PassesBy(before)
    <3>1. Len(before) = 0
      BY <2>2
    <3> QED
      BY <3>1, FirstPagesAre
  <2>4. Answered(Keys(<<CountName>>), pages[1], whole)
    BY <2>2, <2>3 DEF PageFits
  <2>5. /\ Keys(<<CountName>>) \in Seq({CountName} \X {""}) /\ Len(Keys(<<CountName>>)) = 1
        /\ Keys(<<CountName>>)[1] = <<CountName, "">> /\ DOMAIN Keys(<<CountName>>) = 1 .. 1
    BY OneKey
  <2>6. Len(pages[1]) = 1 /\ Heard(<<CountName, "">>, pages[1][1])
    <3> SUFFICES ASSUME NEW asked, asked = Keys(<<CountName>>)
                 PROVE  Len(pages[1]) = 1 /\ Heard(<<CountName, "">>, pages[1][1])
      OBVIOUS
    <3>1. Len(asked) = 1 /\ DOMAIN asked = 1 .. 1 /\ asked[1] = <<CountName, "">>
      BY <2>5
    <3>2. Len(pages[1]) = 1 /\ \A i \in 1 .. 1 : Heard(asked[i], pages[1][i])
      <4>1. Answered(asked, pages[1], whole) /\ Len(asked) \in Nat /\ DOMAIN asked = 1 .. Len(asked)
        <5>1. Answered(asked, pages[1], whole)
          BY <2>4, Zenon
        <5>2. Len(asked) \in Nat /\ DOMAIN asked = 1 .. Len(asked)
          <6>1. 1 \in Nat
            OBVIOUS
          <6> QED
            BY <3>1, <6>1, Zenon
        <5> QED
          BY <5>1, <5>2
      <4>2. Len(pages[1]) = Len(asked) /\ \A i \in 1 .. Len(asked) : Heard(asked[i], pages[1][i])
        BY <4>1, AnsweredIs
      <4> QED
        BY <3>1, <4>2
    <3>3. 1 \in 1 .. 1
      OBVIOUS
    <3> QED
      BY <3>1, <3>2, <3>3, Zenon
  <2>7. CountName \notin {"VERSION", "poolManager"}
    BY DEF CountName
  <2>8. PICK m \in DOMAIN history : HeardAt(history[m], <<CountName, "">>, pages[1][1])
    BY <2>6, <2>7, HeardOf
  <2>9. pages[1][1] = Len(Entries(history[m]))
    BY <2>8, EntriesHeard
  <2> QED
    BY <2>6, <2>9
<1>2. ASSUME Len(pages) > 1
      PROVE  /\ pages[1][1] # 0
             /\ Len(pages[2]) = pages[1][1] /\ pages[2] \in Seq(Entry)
             /\ \A i \in 1 .. pages[1][1] : \E m \in DOMAIN history :
                    i \in DOMAIN Entries(history[m]) /\ pages[2][i] = Entries(history[m])[i]
  <2>1. 2 \in 1 .. Len(pages) /\ Len(pages) > 0 /\ 1 \in 1 .. 2 - 1
    BY <1>0, <1>2
  <2>2. PICK before : /\ Len(before) = 2 - 1 /\ \A j \in 1 .. 2 - 1 : before[j] = pages[j]
                      /\ PageFits(before, pages[2], whole)
    BY <2>1, PageIs
  <2>3. Len(before) = 1 /\ before[1] = pages[1]
    BY <2>1, <2>2
  <2>4. PICK n : n = pages[1][1] /\ n \in Nat
    BY <1>1, <2>1, EntriesAre
  <2> DEFINE asked == Indexed(PlaceName, [i \in 1 .. n |-> i])
  <2>5. NextPage(before) = asked /\ ~PassesBy(before)
    BY <2>3, <2>4, FirstPagesAre
  <2>6. asked # <<>> /\ Answered(asked, pages[2], whole)
    BY <2>2, <2>5 DEF PageFits
  <2>7. /\ asked \in Seq({PlaceName} \X (1 .. n)) /\ Len(asked) = n
        /\ \A i \in 1 .. n : asked[i] = <<PlaceName, i>>
    BY <2>4, PlacesAsked
  <2> HIDE DEF asked
  <2>8. n # 0
    BY <2>6, <2>7, AskedIs
  <2>9. /\ Len(pages[2]) = n /\ pages[2] = [i \in 1 .. n |-> pages[2][i]]
        /\ \A i \in 1 .. n : Heard(asked[i], pages[2][i])
    <3>1. DOMAIN asked = 1 .. n
      BY <2>7, AskedIs
    <3> QED
      BY <2>4, <2>6, <2>7, <3>1, AnsweredIs
  <2>10. ASSUME NEW i \in 1 .. n
         PROVE  \E m \in DOMAIN history :
                    i \in DOMAIN Entries(history[m]) /\ pages[2][i] = Entries(history[m])[i]
    <3>1. Heard(<<PlaceName, i>>, pages[2][i])
      BY <2>7, <2>9
    <3>2. PlaceName \notin {"VERSION", "poolManager"}
      BY DEF PlaceName
    <3>3. PICK m \in DOMAIN history : HeardAt(history[m], <<PlaceName, i>>, pages[2][i])
      BY <3>1, <3>2, HeardOf
    <3> QED
      BY <3>3, EntriesHeard
  <2>11. \A i \in 1 .. n : pages[2][i] \in Entry
    BY <2>10, EntriesAre
  <2>12. pages[2] \in Seq(Entry)
    BY <2>4, <2>9, <2>11, SequenceOf
  <2> QED
    BY <2>4, <2>8, <2>9, <2>10, <2>12
<1> QED
  BY <1>1, <1>2 DEF Counted

-----------------------------------------------------------------------------
(* What a call reads next is always there to be read.                      *)

Askable(asked) ==
    /\ Len(asked) \in Nat /\ DOMAIN asked = 1 .. Len(asked)
    /\ asked = <<>> <=> Len(asked) = 0
    /\ \A i \in 1 .. Len(asked) : Has(World, asked[i])

LEMMA AskableWhen ==
    ASSUME NEW N, NEW S, NEW asked \in Seq(N \X S), \A name \in N : \A x \in S : Has(World, <<name, x>>)
    PROVE  Askable(asked)
<1>1. /\ Len(asked) \in Nat /\ DOMAIN asked = 1 .. Len(asked)
      /\ asked = <<>> <=> Len(asked) = 0
  BY AskedIs
<1>2. ASSUME NEW i \in 1 .. Len(asked) PROVE Has(World, asked[i])
  <2> DEFINE P == N \X S
  <2>1. asked \in Seq(P)
    OBVIOUS
  <2>2. asked[i] \in P
    <3> HIDE DEF P
    <3> QED
      BY <2>1
  <2>3. PICK name \in N, x \in S : asked[i] = <<name, x>>
    BY <2>2
  <2>4. Has(World, <<name, x>>)
    OBVIOUS
  <2> QED
    BY <2>3, <2>4, Zenon
<1> QED
  BY <1>1, <1>2 DEF Askable

LEMMA NothingAsked == Askable(<<>>)
<1>1. Len(<<>>) = 0 /\ DOMAIN <<>> = 1 .. 0 /\ 0 \in Nat /\ 1 .. 0 = {}
  OBVIOUS
<1> QED
  BY <1>1 DEF Askable

\* Every read of these names has an answer at every moment.
LEMMA AlwaysAskable ==
    ASSUME NEW N, NEW S, NEW asked \in Seq(N \X S),
           \A name \in N : name \notin {"quoteTokenAt", "migratorAt", "quoteInfo"}
    PROVE  Askable(asked)
<1>1. \A name \in N : \A x \in S : Has(World, <<name, x>>)
  BY HasIs
<1> QED
  BY <1>1, AskableWhen

LEMMA KeyAskable ==
    ASSUME NEW name, name \notin {"quoteTokenAt", "migratorAt", "quoteInfo"}
    PROVE  Askable(Keys(<<name>>))
<1> SUFFICES ASSUME NEW asked, asked = Keys(<<name>>) PROVE Askable(asked)
  OBVIOUS
<1>1. Len(asked) = 1 /\ DOMAIN asked = 1 .. 1 /\ asked[1] = <<name, "">>
  BY OneKey
<1>2. Has(World, <<name, "">>)
  BY HasIs
<1>3. \A i \in 1 .. 1 : i = 1
  OBVIOUS
<1>4. \A i \in 1 .. 1 : Has(World, asked[i])
  BY <1>1, <1>2, <1>3, Zenon
<1>5. asked # <<>> /\ 1 \in Nat /\ 1 # 0
  <2>1. Len(<<>>) = 0 /\ 1 \in Nat /\ 1 # 0
    OBVIOUS
  <2> QED
    BY <1>1, <2>1, Zenon
<1> QED
  BY <1>1, <1>4, <1>5, Zenon DEF Askable

MigratorReadNames == <<"taxModeOf", "routerOf", "VERSION", "poolManager">>

RouterNeeded(pages) ==
    plan.routed /\ \E i \in DOMAIN pages[2] : pages[3][4 * i] \in {"served", "other"}

LEMMA LaterPagesAre ==
    ASSUME WorldsKept, plan.kind \in Lists, InPages, NEW pages, Len(pages) \in Nat
    PROVE  /\ Len(pages) = 2 =>
                 NextPage(pages) =
                     IF plan.kind = "migrators" THEN Each(pages[2], MigratorReadNames)
                     ELSE IF By("crate")
                          THEN FlattenSeq([i \in DOMAIN pages[2] |-> EntryReads(pages[2][i])])
                     ELSE IF plan.batched THEN Indexed("quoteInfo", pages[2]) \o Metadata(pages[2])
                     ELSE Indexed("quoteInfo", pages[2])
           /\ Len(pages) = 3 =>
                 NextPage(pages) =
                     IF plan.kind = "migrators"
                     THEN IF RouterNeeded(pages) THEN Keys(<<"routerManager">>) ELSE <<>>
                     ELSE IF By("crate") \/ plan.batched THEN <<>> ELSE Metadata(pages[2])
           /\ Len(pages) > 3 => NextPage(pages) = <<>>
<1>0. PICK n \in Nat : n = Len(pages)
  OBVIOUS
<1>1. plan.kind \in {"quotes", "migrators"} /\ (By("crate") <=> ~By("ts"))
  BY ListPlan
<1>2. CASE plan.kind = "quotes" /\ By("ts")
  <2>1. NextPage(pages) = QuotePage(pages)
    BY <1>2 DEF NextPage, Page
  <2>2. CASE Len(pages) = 2
    BY <1>1, <1>2, <2>1, <2>2 DEF QuotePage
  <2>3. CASE Len(pages) = 3
    BY <1>1, <1>2, <2>1, <2>3 DEF QuotePage
  <2>4. CASE Len(pages) > 3
    <3>1. Len(pages) # 0 /\ Len(pages) # 1 /\ Len(pages) # 2 /\ Len(pages) # 3
      <4>1. n > 3
        BY <1>0, <2>4, Zenon
      <4>2. \A i \in Nat : i > 3 => i # 0 /\ i # 1 /\ i # 2 /\ i # 3
        OBVIOUS
      <4> QED
        BY <1>0, <4>1, <4>2, Zenon
    <3> QED
      BY <1>1, <1>2, <2>1, <3>1 DEF QuotePage
  <2> QED
    BY <2>2, <2>3, <2>4
<1>3. CASE plan.kind = "quotes" /\ By("crate")
  <2>1. NextPage(pages) = CrateQuotePage(pages)
    BY <1>1, <1>3 DEF NextPage, CratePage
  <2>2. CASE Len(pages) = 2
    BY <1>1, <1>3, <2>1, <2>2 DEF CrateQuotePage
  <2>3. CASE Len(pages) = 3
    BY <1>1, <1>3, <2>1, <2>3 DEF CrateQuotePage
  <2>4. CASE Len(pages) > 3
    <3>1. Len(pages) # 0 /\ Len(pages) # 1 /\ Len(pages) # 2 /\ Len(pages) # 3
      <4>1. n > 3
        BY <1>0, <2>4, Zenon
      <4>2. \A i \in Nat : i > 3 => i # 0 /\ i # 1 /\ i # 2 /\ i # 3
        OBVIOUS
      <4> QED
        BY <1>0, <4>1, <4>2, Zenon
    <3> QED
      BY <1>1, <1>3, <2>1, <3>1 DEF CrateQuotePage
  <2> QED
    BY <2>2, <2>3, <2>4
<1>4. CASE plan.kind = "migrators"
  <2>0. By("ts")
    BY <1>4 DEF InPages
  <2>1. NextPage(pages) = MigratorPage(pages)
    BY <1>4, <2>0 DEF NextPage, Page
  <2>2. CASE Len(pages) = 2
    BY <1>4, <2>1, <2>2 DEF MigratorPage, MigratorReadNames
  <2>3. CASE Len(pages) = 3
    BY <1>4, <2>1, <2>3 DEF MigratorPage, RouterNeeded
  <2>4. CASE Len(pages) > 3
    <3>1. Len(pages) # 0 /\ Len(pages) # 1 /\ Len(pages) # 2 /\ Len(pages) # 3
      <4>1. n > 3
        BY <1>0, <2>4, Zenon
      <4>2. \A i \in Nat : i > 3 => i # 0 /\ i # 1 /\ i # 2 /\ i # 3
        OBVIOUS
      <4> QED
        BY <1>0, <4>1, <4>2, Zenon
    <3> QED
      BY <1>4, <2>1, <3>1 DEF MigratorPage
  <2> QED
    BY <2>2, <2>3, <2>4
<1> QED
  BY <1>1, <1>2, <1>3, <1>4

LEMMA InPagesAskable ==
    ASSUME WorldsKept, Registries, plan.kind \in Lists, InPages,
           NEW pages, NEW whole, Paged(pages, whole)
    PROVE  Askable(NextPage(pages))
<1>1. Counted(pages) /\ Len(pages) \in Nat
  BY CountedIs DEF Paged
<1>0. PICK c \in Nat : c = Len(pages)
  BY <1>1
<1>2. /\ Len(history) \in DOMAIN history /\ World = history[Len(history)]
      /\ plan.kind \in {"quotes", "migrators"} /\ (By("crate") <=> ~By("ts"))
  BY WorldIn, ListPlan
<1>3. CASE Len(pages) = 0
  <2>1. NextPage(pages) = Keys(<<CountName>>)
    BY <1>3, FirstPagesAre
  <2>2. CountName \notin {"quoteTokenAt", "migratorAt", "quoteInfo"}
    BY DEF CountName
  <2> QED
    BY <2>1, <2>2, KeyAskable
<1>4. CASE Len(pages) = 1
  <2>1. PICK n : n = pages[1][1] /\ n \in Nat /\ n <= Len(Entries(World))
    BY <1>1, <1>4, EntriesAre DEF Counted
  <2>2. NextPage(pages) = Indexed(PlaceName, [i \in 1 .. n |-> i])
    BY <1>4, <2>1, FirstPagesAre
  <2>3. Indexed(PlaceName, [i \in 1 .. n |-> i]) \in Seq({PlaceName} \X (1 .. n))
    BY <2>1, PlacesAsked
  <2>4. ASSUME NEW x \in 1 .. n PROVE Has(World, <<PlaceName, x>>)
    <3>1. DOMAIN Entries(World) = 1 .. Len(Entries(World)) /\ Len(Entries(World)) \in Nat
      BY <1>2, EntriesAre
    <3>2. x \in DOMAIN Entries(World)
      BY <2>1, <3>1
    <3> QED
      BY <1>2, <3>2, EntriesHeard
  <2> SUFFICES ASSUME NEW N, NEW S, NEW asked, N = {PlaceName}, S = 1 .. n, asked = NextPage(pages)
               PROVE  Askable(asked)
    OBVIOUS
  <2>5. asked \in Seq(N \X S) /\ \A name \in N : \A x \in S : Has(World, <<name, x>>)
    <3>1. asked \in Seq(N \X S)
      BY <2>2, <2>3, Zenon
    <3>2. \A name \in N : name = PlaceName
      OBVIOUS
    <3> QED
      BY <2>4, <3>1, <3>2, Zenon
  <2> QED
    BY <2>5, AskableWhen, Zenon
<1>5. CASE Len(pages) > 1
  <2> DEFINE n == Len(pages[2])
             Named == {pages[2][i] : i \in 1 .. n}
  <2>1. /\ pages[2] \in Seq(Entry) /\ n = pages[1][1]
        /\ \A i \in 1 .. n : \E m \in DOMAIN history :
               i \in DOMAIN Entries(history[m]) /\ pages[2][i] = Entries(history[m])[i]
    BY <1>1, <1>5 DEF Counted
  <2>2. pages[2] \in Seq(Named)
    <3>1. n \in Nat /\ pages[2] = [i \in 1 .. n |-> pages[2][i]]
      BY <2>1
    <3>2. \A i \in 1 .. n : pages[2][i] \in Named
      OBVIOUS
    <3> HIDE DEF n, Named
    <3> QED
      BY <3>1, <3>2, SequenceOf
  <2>3. ASSUME plan.kind = "quotes", NEW x \in Named PROVE Has(World, <<"quoteInfo", x>>)
    <3>1. PICK i \in 1 .. n : x = pages[2][i]
      OBVIOUS
    <3>2. PICK m \in DOMAIN history :
             i \in DOMAIN Entries(history[m]) /\ pages[2][i] = Entries(history[m])[i]
      BY <2>1
    <3>3. i \in DOMAIN Entries(World) /\ Entries(World)[i] = x
      BY <3>1, <3>2, EntriesAre
    <3>4. i \in DOMAIN World.quotes /\ World.quotes[i].token = x
      BY <2>3, <3>3 DEF Entries
    <3>5. World.quotes[i] \in Range(World.quotes)
      BY <3>4 DEF Range
    <3> QED
      BY <3>4, <3>5, HasIs
  <2> HIDE DEF n, Named
  <2>4. CASE plan.kind = "migrators"
    <3>1. MigratorReadNames \in Seq({"taxModeOf", "routerOf", "VERSION", "poolManager"})
      BY DEF MigratorReadNames
    <3>2. Len(MigratorReadNames) = 4
      BY DEF MigratorReadNames
    <3> DEFINE N == {"taxModeOf", "routerOf", "VERSION", "poolManager"}
    <3>3. \A name \in N : name \notin {"quoteTokenAt", "migratorAt", "quoteInfo"}
      OBVIOUS
    <3> HIDE DEF N
    <3>4. Each(pages[2], MigratorReadNames) \in Seq(N \X Named)
      BY <2>2, <3>1, <3>2, MigratorReads, Zenon DEF N
    <3>5. Askable(Each(pages[2], MigratorReadNames))
      BY <3>3, <3>4, AlwaysAskable
    <3>6. Askable(Keys(<<"routerManager">>))
      BY KeyAskable
    <3>7. \/ NextPage(pages) = Each(pages[2], MigratorReadNames)
          \/ NextPage(pages) = Keys(<<"routerManager">>)
          \/ NextPage(pages) = <<>>
      <4>1. CASE Len(pages) = 2
        BY <1>1, <2>4, <4>1, LaterPagesAre
      <4>2. CASE Len(pages) = 3
        BY <1>1, <2>4, <4>2, LaterPagesAre
      <4>3. CASE Len(pages) > 3
        BY <1>1, <4>3, LaterPagesAre
      <4> QED
        BY <1>0, <1>5, <4>1, <4>2, <4>3
    <3> QED
      BY <3>5, <3>6, <3>7, NothingAsked
  <2>5. CASE plan.kind = "quotes"
    <3> DEFINE infos == Indexed("quoteInfo", pages[2])
               rest == Metadata(pages[2])
               entries == FlattenSeq([i \in DOMAIN pages[2] |-> EntryReads(pages[2][i])])
               N == {"quoteInfo", "symbol", "name"}
               M == {"quoteInfo", "symbol", "name", "decimals"}
               R == {"symbol", "name"}
    <3>1. \A name \in M : \A x \in Named : Has(World, <<name, x>>)
      BY <2>3, <2>5, HasIs
    <3>2. \A name \in N : \A x \in Named : Has(World, <<name, x>>)
      BY <3>1
    <3>3. /\ infos \in Seq(N \X Named) /\ rest \in Seq(N \X Named)
          /\ infos \o rest \in Seq(N \X Named)
      BY <2>2, QuoteReads, Zenon
    <3>4. entries \in Seq(M \X Named)
      BY <2>2, CrateQuoteReads, Zenon
    <3> HIDE DEF infos, rest, entries, N, M
    <3>5. Askable(infos) /\ Askable(rest) /\ Askable(infos \o rest) /\ Askable(entries)
      BY <3>1, <3>2, <3>3, <3>4, AskableWhen
    <3>6. \/ NextPage(pages) = infos \/ NextPage(pages) = rest \/ NextPage(pages) = infos \o rest
          \/ NextPage(pages) = entries \/ NextPage(pages) = <<>>
      <4>1. CASE Len(pages) = 2
        BY <1>1, <1>2, <2>5, <4>1, LaterPagesAre DEF infos, rest, entries
      <4>2. CASE Len(pages) = 3
        BY <1>1, <1>2, <2>5, <4>2, LaterPagesAre DEF rest
      <4>3. CASE Len(pages) > 3
        BY <1>1, <4>3, LaterPagesAre
      <4> QED
        BY <1>0, <1>5, <4>1, <4>2, <4>3
    <3> QED
      BY <3>5, <3>6, NothingAsked
  <2> QED
    BY <1>2, <2>4, <2>5
<1> QED
  BY <1>0, <1>3, <1>4, <1>5

-----------------------------------------------------------------------------
(* The crate's list of migrators, one after the other.                     *)

CrateReadNames == <<"VERSION", "poolManager", "taxModeOf", "routerOf">>

LEMMA TurnIs ==
    ASSUME NEW pages
    PROVE  /\ \A t \in Nat \ {0} :
                 /\ Len(pages) = 3 * t - 2 => Turn(pages) = t /\ Part(pages) = 0
                 /\ Len(pages) = 3 * t - 1 => Turn(pages) = t /\ Part(pages) = 1
                 /\ Len(pages) = 3 * t     => Turn(pages) = t /\ Part(pages) = 2
           /\ Len(pages) \in Nat \ {0} =>
                 /\ Turn(pages) \in Nat \ {0}
                 /\ Len(pages) \in {3 * Turn(pages) - 2, 3 * Turn(pages) - 1, 3 * Turn(pages)}
<1>1. ASSUME NEW t \in Nat \ {0}
      PROVE  /\ (3 * t - 2 - 1) \div 3 + 1 = t /\ (3 * t - 2 - 1) % 3 = 0
             /\ (3 * t - 1 - 1) \div 3 + 1 = t /\ (3 * t - 1 - 1) % 3 = 1
             /\ (3 * t - 1) \div 3 + 1 = t /\ (3 * t - 1) % 3 = 2
  OBVIOUS
<1>2. ASSUME NEW n \in Nat \ {0}
      PROVE  /\ (n - 1) \div 3 + 1 \in Nat \ {0}
             /\ n \in {3 * ((n - 1) \div 3 + 1) - 2, 3 * ((n - 1) \div 3 + 1) - 1, 3 * ((n - 1) \div 3 + 1)}
  OBVIOUS
<1>3. PICK n : n = Len(pages) /\ Turn(pages) = (n - 1) \div 3 + 1 /\ Part(pages) = (n - 1) % 3
  BY DEF Turn, Part
<1>4. ASSUME NEW t \in Nat \ {0}
      PROVE  /\ n = 3 * t - 2 => Turn(pages) = t /\ Part(pages) = 0
             /\ n = 3 * t - 1 => Turn(pages) = t /\ Part(pages) = 1
             /\ n = 3 * t     => Turn(pages) = t /\ Part(pages) = 2
  BY <1>1, <1>3
<1>5. n \in Nat \ {0} => /\ Turn(pages) \in Nat \ {0}
                         /\ n \in {3 * Turn(pages) - 2, 3 * Turn(pages) - 1, 3 * Turn(pages)}
  BY <1>2, <1>3
<1> QED
  BY <1>3, <1>4, <1>5, Zenon

Told(mig) == <<mig.label, mig.manager, mig.taxMode, mig.router>>

CrateCounted(pages) ==
    Len(pages) > 0 =>
        /\ Len(pages[1]) = IF plan.routed THEN 2 ELSE 1
        /\ plan.routed => pages[1][1] = "served"
        /\ \E m \in DOMAIN history : Last(pages[1]) = Len(history[m].migrators)

\* What is known of the t-th migrator.
CrateTold(pages, t) ==
    /\ 3 * t - 1 <= Len(pages) =>
           /\ t <= Last(pages[1])
           /\ \E m \in DOMAIN history :
                  t \in DOMAIN history[m].migrators /\ pages[3 * t - 1] = <<history[m].migrators[t]>>
    /\ 3 * t <= Len(pages) =>
           \E m \in DOMAIN history : pages[3 * t] = <<pages[3 * t - 1][1] \notin history[m].retired>>
    /\ 3 * t + 1 <= Len(pages) =>
           pages[3 * t + 1] = IF pages[3 * t] = <<FALSE>> THEN <<>> ELSE Told(pages[3 * t - 1][1])

LEMMA CratePageIs ==
    ASSUME By("crate"), plan.kind = "migrators", NEW pages
    PROVE  /\ NextPage(pages) = CrateMigratorPage(pages)
           /\ PassesBy(pages) <=> Len(pages) > 1 /\ Part(pages) = 2 /\ Last(pages) = <<FALSE>>
<1>1. ~By("ts")
  BY DEF By
<1> QED
  BY <1>1 DEF NextPage, CratePage, PassesBy

\* The pages a turn has.
LEMMA TurnPages ==
    ASSUME By("crate"), plan.kind = "migrators", NEW pages, Last(pages[1]) \in Nat, NEW t \in Nat \ {0},
           Len(pages) \in {3 * t - 2, 3 * t - 1, 3 * t}
    PROVE  /\ t > Last(pages[1]) => NextPage(pages) = <<>>
           /\ t <= Last(pages[1]) =>
                 /\ Len(pages) = 3 * t - 2 => NextPage(pages) = <<<<"migratorAt", t>>>>
                 /\ Len(pages) = 3 * t - 1 => NextPage(pages) = Indexed("isRegistered", pages[3 * t - 1])
                 /\ Len(pages) = 3 * t => NextPage(pages) = Each(pages[3 * t - 1], CrateReadNames)
           /\ Len(pages) # 3 * t => ~PassesBy(pages)
           /\ Len(pages) = 3 * t => (PassesBy(pages) <=> pages[3 * t] = <<FALSE>>)
<1>1. /\ NextPage(pages) = CrateMigratorPage(pages)
      /\ PassesBy(pages) <=> Len(pages) > 1 /\ Part(pages) = 2 /\ Last(pages) = <<FALSE>>
  BY CratePageIs
<1>2. PICK n : n = Len(pages)
  OBVIOUS
<1>3. n \in {3 * t - 2, 3 * t - 1, 3 * t}
  BY <1>2, Zenon
<1>4. n \in Nat /\ n > 0 /\ n # 0
  BY <1>3
<1>5. /\ Turn(pages) = t
      /\ n = 3 * t - 2 => Part(pages) = 0
      /\ n = 3 * t - 1 => Part(pages) = 1
      /\ n = 3 * t => Part(pages) = 2
  BY <1>2, <1>3, TurnIs
<1>6. Last(pages) = pages[n]
  BY <1>2, Zenon DEF Last
<1>7. ASSUME t > Last(pages[1]) PROVE NextPage(pages) = <<>>
  <2>1. CrateMigratorPage(pages) = <<>>
    BY <1>2, <1>4, <1>5, <1>7 DEF CrateMigratorPage
  <2> QED
    BY <1>1, <2>1, Zenon
<1>8. ASSUME ~(t > Last(pages[1]))
      PROVE  /\ n = 3 * t - 2 => NextPage(pages) = <<<<"migratorAt", t>>>>
             /\ n = 3 * t - 1 => NextPage(pages) = Indexed("isRegistered", pages[3 * t - 1])
             /\ n = 3 * t => NextPage(pages) = Each(pages[3 * t - 1], CrateReadNames)
  <2>1. CASE n = 3 * t - 2
    <3>1. CrateMigratorPage(pages) = <<<<"migratorAt", t>>>>
      BY <1>2, <1>4, <1>5, <1>8, <2>1 DEF CrateMigratorPage
    <3>2. n # 3 * t - 1 /\ n # 3 * t
      BY <2>1
    <3> QED
      BY <1>1, <3>1, <3>2, Zenon
  <2>2. CASE n = 3 * t - 1
    <3>1. CrateMigratorPage(pages) = Indexed("isRegistered", pages[n])
      BY <1>2, <1>4, <1>5, <1>6, <1>8, <2>2 DEF CrateMigratorPage
    <3>2. n # 3 * t - 2 /\ n # 3 * t
      BY <2>2
    <3> QED
      BY <1>1, <2>2, <3>1, <3>2, Zenon
  <2>3. CASE n = 3 * t
    <3>1. CrateMigratorPage(pages) = Each(pages[n - 1], CrateReadNames)
      BY <1>2, <1>4, <1>5, <1>8, <2>3 DEF CrateMigratorPage, CrateReadNames
    <3>2. n # 3 * t - 2 /\ n # 3 * t - 1 /\ n - 1 = 3 * t - 1
      BY <2>3
    <3> QED
      BY <1>1, <3>1, <3>2, Zenon
  <2> QED
    BY <1>3, <2>1, <2>2, <2>3, Zenon
<1>9. n # 3 * t => ~PassesBy(pages)
  <2> SUFFICES ASSUME n # 3 * t PROVE Part(pages) # 2
    BY <1>1, Zenon
  <2>1. Part(pages) = 0 \/ Part(pages) = 1
    BY <1>3, <1>5
  <2> QED
    BY <2>1
<1>10. n = 3 * t => (PassesBy(pages) <=> pages[3 * t] = <<FALSE>>)
  <2> SUFFICES ASSUME n = 3 * t PROVE PassesBy(pages) <=> pages[3 * t] = <<FALSE>>
    OBVIOUS
  <2>1. n > 1
    OBVIOUS
  <2>2. Len(pages) > 1 /\ Part(pages) = 2 /\ Last(pages) = pages[3 * t]
    BY <1>2, <1>5, <1>6, <2>1, Zenon
  <2> QED
    BY <1>1, <2>2, Zenon
<1>11. t <= Last(pages[1]) => ~(t > Last(pages[1]))
  OBVIOUS
<1> QED
  BY <1>2, <1>7, <1>8, <1>9, <1>10, <1>11, Zenon

LEMMA OneAnswer ==
    ASSUME NEW asked, NEW key, Len(asked) = 1, DOMAIN asked = 1 .. 1, asked[1] = key,
           NEW page, NEW whole, Answered(asked, page, whole)
    PROVE  Len(page) = 1 /\ page = <<page[1]>> /\ Heard(key, page[1])
<1>1. 1 \in Nat /\ 1 \in 1 .. 1
  OBVIOUS
<1>2. Len(asked) \in Nat /\ DOMAIN asked = 1 .. Len(asked)
  BY <1>1, Zenon
<1>3. /\ Len(page) = Len(asked) /\ page = [i \in 1 .. Len(asked) |-> page[i]]
      /\ \A i \in 1 .. Len(asked) : Heard(asked[i], page[i])
  BY <1>2, AnsweredIs
<1>4. Len(page) = 1 /\ page = [i \in 1 .. 1 |-> page[i]] /\ \A i \in 1 .. 1 : Heard(asked[i], page[i])
  BY <1>3, Zenon
<1>5. Heard(key, page[1])
  BY <1>1, <1>4, Zenon
<1>6. page = <<page[1]>>
  BY <1>4
<1> QED
  BY <1>4, <1>5, <1>6

\* What the crate is told, it was told at some moment.
LEMMA CrateHeard ==
    ASSUME By("crate"), NEW key, NEW a, Heard(key, a)
    PROVE  \E m \in DOMAIN history : HeardAt(history[m], key, a)
<1>1. ~By("ts")
  BY DEF By
<1> QED
  BY <1>1 DEF Heard

LEMMA CrateAnswers ==
    ASSUME By("crate"), NEW x, NEW a
    PROVE  /\ Heard(<<"migratorCount", x>>, a) =>
                  \E m \in DOMAIN history : a = Len(history[m].migrators)
           /\ Heard(<<"migratorAt", x>>, a) =>
                  \E m \in DOMAIN history :
                      x \in DOMAIN history[m].migrators /\ a = history[m].migrators[x]
           /\ Heard(<<"isRegistered", x>>, a) =>
                  \E m \in DOMAIN history : a = (x \notin history[m].retired)
           /\ Heard(<<"VERSION", x>>, a) => a = x.label
           /\ Heard(<<"poolManager", x>>, a) => a = x.manager
           /\ Heard(<<"taxModeOf", x>>, a) => a = x.taxMode
           /\ Heard(<<"routerOf", x>>, a) => a = x.router
           /\ Heard(<<"routerManager", x>>, a) => a = "served"
<1>1. ASSUME NEW name, Heard(<<name, x>>, a)
      PROVE  \E m \in DOMAIN history : Has(history[m], <<name, x>>) /\ a = Read(history[m], <<name, x>>)
  BY <1>1, CrateHeard DEF HeardAt
<1>2. \A w : /\ Read(w, <<"migratorCount", x>>) = Len(w.migrators)
             /\ Read(w, <<"migratorAt", x>>) = w.migrators[x]
  BY ReadIs, ZenonT(40)
<1>3. \A w : /\ Read(w, <<"isRegistered", x>>) = (x \notin w.retired)
             /\ Read(w, <<"VERSION", x>>) = x.label
  BY DEF Read
<1>4. \A w : /\ Read(w, <<"poolManager", x>>) = x.manager
             /\ Read(w, <<"taxModeOf", x>>) = x.taxMode
  BY DEF Read
<1>5. \A w : /\ Read(w, <<"routerOf", x>>) = x.router
             /\ Read(w, <<"routerManager", x>>) = "served"
  BY DEF Read
<1>6. Heard(<<"migratorCount", x>>, a) => \E m \in DOMAIN history : a = Len(history[m].migrators)
  BY <1>1, <1>2
<1>7. Heard(<<"migratorAt", x>>, a) =>
          \E m \in DOMAIN history : x \in DOMAIN history[m].migrators /\ a = history[m].migrators[x]
  <2>1. \A w : Has(w, <<"migratorAt", x>>) <=> x \in DOMAIN w.migrators
    BY HasIs
  <2> QED
    BY <1>1, <1>2, <2>1
<1>8. Heard(<<"isRegistered", x>>, a) => \E m \in DOMAIN history : a = (x \notin history[m].retired)
  BY <1>1, <1>3
<1>9. Heard(<<"VERSION", x>>, a) => a = x.label
  BY <1>1, <1>3
<1>10. Heard(<<"poolManager", x>>, a) => a = x.manager
  BY <1>1, <1>4
<1>11. Heard(<<"taxModeOf", x>>, a) => a = x.taxMode
  BY <1>1, <1>4
<1>12. Heard(<<"routerOf", x>>, a) => a = x.router
  BY <1>1, <1>5
<1>13. Heard(<<"routerManager", x>>, a) => a = "served"
  BY <1>1, <1>5
<1> QED
  BY <1>6, <1>7, <1>8, <1>9, <1>10, <1>11, <1>12, <1>13

LEMMA CrateHearsCount ==
    ASSUME By("crate"), NEW a, Heard(<<"migratorCount", "">>, a)
    PROVE  \E m \in DOMAIN history : a = Len(history[m].migrators)
<1>1. PICK x : x = ""
  OBVIOUS
<1>2. Heard(<<"migratorCount", x>>, a)
  BY <1>1, Zenon
<1> QED
  BY <1>2, CrateAnswers

LEMMA CrateHearsDetails ==
    ASSUME By("crate"), NEW x, NEW page,
           Heard(<<"VERSION", x>>, page[1]), Heard(<<"poolManager", x>>, page[2]),
           Heard(<<"taxModeOf", x>>, page[3]), Heard(<<"routerOf", x>>, page[4])
    PROVE  /\ page[1] = x.label /\ page[2] = x.manager
           /\ page[3] = x.taxMode /\ page[4] = x.router
<1>0. PICK a, b, c, d : a = page[1] /\ b = page[2] /\ c = page[3] /\ d = page[4]
  OBVIOUS
<1>1. a = x.label
  <2>1. Heard(<<"VERSION", x>>, a)
    BY <1>0
  <2> QED
    BY <2>1, CrateAnswers
<1>2. b = x.manager
  <2>1. Heard(<<"poolManager", x>>, b)
    BY <1>0
  <2> QED
    BY <2>1, CrateAnswers
<1>3. c = x.taxMode
  <2>1. Heard(<<"taxModeOf", x>>, c)
    BY <1>0
  <2> QED
    BY <2>1, CrateAnswers
<1>4. d = x.router
  <2>1. Heard(<<"routerOf", x>>, d)
    BY <1>0
  <2> QED
    BY <2>1, CrateAnswers
<1> QED
  BY <1>0, <1>1, <1>2, <1>3, <1>4

\* The four reads that describe a migrator.
LEMMA Described ==
    ASSUME NEW mig
    PROVE  LET asked == Each(<<mig>>, CrateReadNames)
           IN  /\ Len(asked) = 4 /\ DOMAIN asked = 1 .. 4
               /\ \A j \in 1 .. 4 : asked[j] = <<CrateReadNames[j], mig>>
               /\ \A j \in 1 .. 4 : CrateReadNames[j] \in {"VERSION", "poolManager", "taxModeOf", "routerOf"}
<1>1. PICK S : S = {mig}
  OBVIOUS
<1>2. PICK s : s = <<mig>> /\ s \in Seq(S) /\ Len(s) = 1 /\ s[1] = mig
  <2>1. <<mig>> \in Seq(S) /\ Len(<<mig>>) = 1 /\ <<mig>>[1] = mig
    BY <1>1
  <2> QED
    BY <2>1, Zenon
<1>3. CrateReadNames \in Seq({"VERSION", "poolManager", "taxModeOf", "routerOf"})
  BY DEF CrateReadNames
<1>4. Len(CrateReadNames) = 4
  BY DEF CrateReadNames
<1>5. PICK N : CrateReadNames \in Seq(N) /\ N = {"VERSION", "poolManager", "taxModeOf", "routerOf"}
  BY <1>3
<1>6. PICK k \in Nat : k = 4
  OBVIOUS
<1>7. /\ Each(s, CrateReadNames) \in Seq(N \X S) /\ Len(Each(s, CrateReadNames)) = k * Len(s)
      /\ Spread(Each(s, CrateReadNames), s, CrateReadNames, k)
  <2>1. s \in Seq(S) /\ CrateReadNames \in Seq(N) /\ k \in Nat /\ Len(CrateReadNames) = k
    BY <1>2, <1>4, <1>5, <1>6
  <2> QED
    BY <2>1, EachAt, Zenon
<1>8. k * 1 = k /\ 1 \in 1 .. 1 /\ \A j \in 1 .. k : k * (1 - 1) + j = j
  OBVIOUS
<1>9. \A j \in 1 .. k : Each(s, CrateReadNames)[k * (1 - 1) + j] = <<CrateReadNames[j], s[1]>>
  <2>1. 1 \in 1 .. Len(s)
    BY <1>2
  <2> QED
    BY <1>7, <2>1, Zenon DEF Spread
<1>10. \A j \in 1 .. k : Each(s, CrateReadNames)[j] = <<CrateReadNames[j], mig>>
  BY <1>2, <1>8, <1>9
<1>11. Len(Each(s, CrateReadNames)) = k /\ DOMAIN Each(s, CrateReadNames) = 1 .. k
  <2>1. Len(Each(s, CrateReadNames)) = k
    BY <1>2, <1>7, <1>8
  <2>2. DOMAIN Each(s, CrateReadNames) = 1 .. Len(Each(s, CrateReadNames))
    BY <1>7, AskedIs, ZenonT(40)
  <2> QED
    BY <2>1, <2>2, Zenon
<1>12. \A j \in 1 .. 4 : CrateReadNames[j] \in N
  BY <1>4, <1>5
<1> QED
  BY <1>2, <1>5, <1>6, <1>10, <1>11, <1>12, Zenon

LEMMA CrateCountedIs ==
    ASSUME WorldsKept, By("crate"), plan.kind = "migrators", NEW pages, NEW whole, Paged(pages, whole)
    PROVE  CrateCounted(pages)
<1>0. PICK n \in Nat : n = Len(pages)
  BY DEF Paged
<1>1. ASSUME n > 0
      PROVE  /\ Len(pages[1]) = IF plan.routed THEN 2 ELSE 1
             /\ plan.routed => pages[1][1] = "served"
             /\ \E m \in DOMAIN history : Last(pages[1]) = Len(history[m].migrators)
  <2>1. 1 \in 1 .. n
    BY <1>1
  <2>2. PICK before : Len(before) = 1 - 1 /\ PageFits(before, pages[1], whole)
    BY <1>0, <2>1, PageIs, Zenon
  <2>3. Len(before) = 0
    BY <2>2
  <2>4. ~PassesBy(before) /\ NextPage(before) = CrateMigratorPage(before)
    <3>1. ~(0 > 1)
      OBVIOUS
    <3> QED
      BY <2>3, <3>1, CratePageIs, Zenon
  <2>5. Answered(CrateMigratorPage(before), pages[1], whole)
    BY <2>2, <2>4 DEF PageFits
  <2>6. CASE plan.routed
    <3> DEFINE names == <<"routerManager", "migratorCount">>
    <3>1. CrateMigratorPage(before) = Keys(names)
      BY <2>3, <2>6 DEF CrateMigratorPage
    <3>2. DOMAIN names = 1 .. 2 /\ names \in Seq({"routerManager", "migratorCount"})
          /\ Len(names) = 2 /\ names[1] = "routerManager" /\ names[2] = "migratorCount"
      OBVIOUS
    <3> HIDE DEF names
    <3>3. DOMAIN Keys(names) = 1 .. 2
      BY <3>2 DEF Keys
    <3>4. Len(Keys(names)) = 2 /\ \A i \in 1 .. 2 : Keys(names)[i] = <<names[i], "">>
      BY <3>2, KeysAre
    <3>5. 1 \in 1 .. 2 /\ 2 \in 1 .. 2 /\ 2 \in Nat
      OBVIOUS
    <3>6. PICK asked : asked = Keys(names) /\ Len(asked) \in Nat /\ DOMAIN asked = 1 .. Len(asked)
                       /\ Answered(asked, pages[1], whole)
      BY <2>5, <3>1, <3>3, <3>4, <3>5, Zenon
    <3>7. Len(pages[1]) = 2 /\ \A i \in 1 .. 2 : Heard(Keys(names)[i], pages[1][i])
      <4>1. Len(pages[1]) = Len(asked) /\ \A i \in 1 .. Len(asked) : Heard(asked[i], pages[1][i])
        BY <3>6, AnsweredIs
      <4> QED
        BY <3>4, <3>6, <4>1, Zenon
    <3>8. Heard(<<"routerManager", "">>, pages[1][1]) /\ Heard(<<"migratorCount", "">>, pages[1][2])
      <4>1. Keys(names)[1] = <<"routerManager", "">> /\ Keys(names)[2] = <<"migratorCount", "">>
        BY <3>2, <3>4, <3>5, Zenon
      <4> QED
        BY <3>5, <3>7, <4>1, Zenon
    <3>9. pages[1][1] = "served"
      BY <3>8, CrateAnswers, Zenon
    <3>10. \E m \in DOMAIN history : pages[1][2] = Len(history[m].migrators)
      BY <3>8, CrateHearsCount, Zenon
    <3>11. Last(pages[1]) = pages[1][2]
      BY <3>7, Zenon DEF Last
    <3> QED
      BY <2>6, <3>7, <3>9, <3>10, <3>11
  <2>7. CASE ~plan.routed
    <3>1. CrateMigratorPage(before) = Keys(<<"migratorCount">>)
      BY <2>3, <2>7 DEF CrateMigratorPage
    <3>2. /\ Len(Keys(<<"migratorCount">>)) = 1 /\ DOMAIN Keys(<<"migratorCount">>) = 1 .. 1
          /\ Keys(<<"migratorCount">>)[1] = <<"migratorCount", "">>
      BY OneKey
    <3>3. Len(pages[1]) = 1 /\ Heard(<<"migratorCount", "">>, pages[1][1])
      BY <2>5, <3>1, <3>2, OneAnswer, Zenon
    <3>4. \E m \in DOMAIN history : pages[1][1] = Len(history[m].migrators)
      BY <3>3, CrateHearsCount, Zenon
    <3>5. Last(pages[1]) = pages[1][1]
      BY <3>3, Zenon DEF Last
    <3> QED
      BY <2>7, <3>3, <3>4, <3>5
  <2> QED
    BY <2>6, <2>7
<1> QED
  BY <1>0, <1>1, Zenon DEF CrateCounted

LEMMA CrateToldIs ==
    ASSUME WorldsKept, By("crate"), plan.kind = "migrators", NEW pages, NEW whole, Paged(pages, whole),
           NEW t \in Nat \ {0}
    PROVE  CrateTold(pages, t)
<1>0. PICK n \in Nat : n = Len(pages)
  BY DEF Paged
<1>1. n > 0 => Last(pages[1]) \in Nat
  <2>1. CrateCounted(pages)
    BY CrateCountedIs
  <2>2. \A m \in DOMAIN history : Len(history[m].migrators) \in Nat
    BY MomentIs
  <2> QED
    BY <1>0, <2>1, <2>2, Zenon DEF CrateCounted
<1>2. ASSUME 3 * t - 1 <= n
      PROVE  /\ t <= Last(pages[1])
             /\ \E m \in DOMAIN history :
                    t \in DOMAIN history[m].migrators /\ pages[3 * t - 1] = <<history[m].migrators[t]>>
  <2> DEFINE k == 3 * t - 1
  <2>1. k \in 1 .. n /\ 1 \in 1 .. k - 1 /\ n > 0
    BY <1>2
  <2>2. PICK before : /\ Len(before) = k - 1 /\ \A j \in 1 .. k - 1 : before[j] = pages[j]
                      /\ PageFits(before, pages[k], whole)
    <3> HIDE DEF k
    <3> QED
      BY <1>0, <2>1, PageIs, Zenon
  <2>3. before[1] = pages[1] /\ Last(before[1]) \in Nat
    BY <1>1, <2>1, <2>2
  <2>4. Len(before) = 3 * t - 2 /\ 3 * t - 2 # 3 * t
    BY <2>2
  <2>5. /\ t > Last(before[1]) => NextPage(before) = <<>>
        /\ t <= Last(before[1]) => NextPage(before) = <<<<"migratorAt", t>>>>
        /\ ~PassesBy(before)
    BY <2>3, <2>4, TurnPages
  <2>6. NextPage(before) # <<>> /\ Answered(NextPage(before), pages[k], whole)
    BY <2>2, <2>5 DEF PageFits
  <2>7. t <= Last(before[1])
    BY <2>3, <2>5, <2>6
  <2>8. NextPage(before) = <<<<"migratorAt", t>>>>
    BY <2>5, <2>7
  <2>9. pages[k] = <<pages[k][1]>> /\ Heard(<<"migratorAt", t>>, pages[k][1])
    <3>1. PICK asked : asked = <<<<"migratorAt", t>>>>
      OBVIOUS
    <3>2. Len(asked) = 1 /\ DOMAIN asked = 1 .. 1 /\ asked[1] = <<"migratorAt", t>>
      BY <3>1
    <3>3. Answered(asked, pages[k], whole)
      BY <2>6, <2>8, <3>1, Zenon
    <3> QED
      BY <3>2, <3>3, OneAnswer, Zenon
  <2>11. PICK m \in DOMAIN history :
             t \in DOMAIN history[m].migrators /\ pages[k][1] = history[m].migrators[t]
    BY <2>9, CrateAnswers, Zenon
  <2> QED
    BY <2>3, <2>7, <2>9, <2>11, Zenon
<1>3. ASSUME 3 * t <= n
      PROVE  \E m \in DOMAIN history : pages[3 * t] = <<pages[3 * t - 1][1] \notin history[m].retired>>
  <2>0. 3 * t - 1 <= n
    BY <1>3
  <2> DEFINE k == 3 * t
             mig == pages[3 * t - 1][1]
  <2>1. k \in 1 .. n /\ 1 \in 1 .. k - 1 /\ n > 0 /\ 3 * t - 1 \in 1 .. k - 1
    BY <1>3
  <2>2. PICK before : /\ Len(before) = k - 1 /\ \A j \in 1 .. k - 1 : before[j] = pages[j]
                      /\ PageFits(before, pages[k], whole)
    <3> HIDE DEF k
    <3> QED
      BY <1>0, <2>1, PageIs, Zenon
  <2>3. before[1] = pages[1] /\ Last(before[1]) \in Nat /\ before[3 * t - 1] = pages[3 * t - 1]
    BY <1>1, <2>1, <2>2
  <2>4. Len(before) = 3 * t - 1 /\ 3 * t - 1 # 3 * t
    BY <2>2
  <2>5. /\ NextPage(before) = Indexed("isRegistered", before[3 * t - 1])
        /\ ~PassesBy(before)
    <3>1. t <= Last(before[1])
      BY <1>2, <2>0, <2>3
    <3> QED
      BY <2>3, <2>4, <3>1, TurnPages
  <2>6. pages[3 * t - 1] = <<mig>>
    BY <1>2, <2>0
  <2> HIDE DEF mig
  <2>7. Answered(Indexed("isRegistered", <<mig>>), pages[k], whole)
    BY <2>2, <2>3, <2>5, <2>6, Zenon DEF PageFits
  <2>8. pages[k] = <<pages[k][1]>> /\ Heard(<<"isRegistered", mig>>, pages[k][1])
    <3>1. mig \in {mig}
      OBVIOUS
    <3>2. /\ Len(Indexed("isRegistered", <<mig>>)) = 1
          /\ DOMAIN Indexed("isRegistered", <<mig>>) = 1 .. 1
          /\ Indexed("isRegistered", <<mig>>)[1] = <<"isRegistered", mig>>
      BY <3>1, OneKey
    <3> QED
      BY <2>7, <3>2, OneAnswer, Zenon
  <2>9. PICK m \in DOMAIN history : pages[k][1] = (mig \notin history[m].retired)
    BY <2>8, CrateAnswers, Zenon
  <2> QED
    BY <2>8, <2>9, Zenon DEF mig
<1>4. ASSUME 3 * t + 1 <= n
      PROVE  pages[3 * t + 1] = IF pages[3 * t] = <<FALSE>> THEN <<>> ELSE Told(pages[3 * t - 1][1])
  <2>0. 3 * t - 1 <= n
    BY <1>4
  <2> DEFINE k == 3 * t + 1
             mig == pages[3 * t - 1][1]
  <2>1. /\ k \in 1 .. n /\ 1 \in 1 .. k - 1 /\ n > 0
        /\ 3 * t - 1 \in 1 .. k - 1 /\ 3 * t \in 1 .. k - 1
    BY <1>4
  <2>2. PICK before : /\ Len(before) = k - 1 /\ \A j \in 1 .. k - 1 : before[j] = pages[j]
                      /\ PageFits(before, pages[k], whole)
    <3> HIDE DEF k
    <3> QED
      BY <1>0, <2>1, PageIs, Zenon
  <2>3. /\ before[1] = pages[1] /\ Last(before[1]) \in Nat /\ before[3 * t - 1] = pages[3 * t - 1]
        /\ before[3 * t] = pages[3 * t]
    BY <1>1, <2>1, <2>2
  <2>4. Len(before) = 3 * t
    BY <2>2
  <2>5. /\ NextPage(before) = Each(before[3 * t - 1], CrateReadNames)
        /\ PassesBy(before) <=> before[3 * t] = <<FALSE>>
    <3>1. t <= Last(before[1])
      BY <1>2, <2>0, <2>3
    <3> QED
      BY <2>3, <2>4, <3>1, TurnPages
  <2>6. pages[3 * t - 1] = <<mig>>
    BY <1>2, <2>0
  <2>7. CASE pages[3 * t] = <<FALSE>>
    BY <2>2, <2>3, <2>5, <2>7 DEF PageFits
  <2>8. CASE pages[3 * t] # <<FALSE>>
    <3> HIDE DEF mig
    <3>1. Answered(Each(<<mig>>, CrateReadNames), pages[k], whole)
      BY <2>2, <2>3, <2>5, <2>6, <2>8, Zenon DEF PageFits
    <3>14. /\ CrateReadNames[1] = "VERSION" /\ CrateReadNames[2] = "poolManager"
           /\ CrateReadNames[3] = "taxModeOf" /\ CrateReadNames[4] = "routerOf"
      BY DEF CrateReadNames
    <3> DEFINE asked == Each(<<mig>>, CrateReadNames)
    <3>5. Answered(asked, pages[k], whole)
      BY <3>1
    <3>6. /\ Len(asked) = 4 /\ DOMAIN asked = 1 .. 4
          /\ \A j \in 1 .. 4 : asked[j] = <<CrateReadNames[j], mig>>
      BY Described
    <3> HIDE DEF asked
    <3>7. /\ asked[1] = <<"VERSION", mig>> /\ asked[2] = <<"poolManager", mig>>
          /\ asked[3] = <<"taxModeOf", mig>> /\ asked[4] = <<"routerOf", mig>>
      <4>1. 1 \in 1 .. 4 /\ 2 \in 1 .. 4 /\ 3 \in 1 .. 4 /\ 4 \in 1 .. 4
        OBVIOUS
      <4> QED
        BY <3>6, <3>14, <4>1, Zenon
    <3>8. pages[k] = [i \in 1 .. 4 |-> pages[k][i]] /\ \A i \in 1 .. 4 : Heard(asked[i], pages[k][i])
      <4>1. Len(asked) \in Nat /\ DOMAIN asked = 1 .. Len(asked)
        <5>1. 4 \in Nat
          OBVIOUS
        <5> QED
          BY <3>6, <5>1, Zenon
      <4>2. /\ pages[k] = [i \in 1 .. Len(asked) |-> pages[k][i]]
            /\ \A i \in 1 .. Len(asked) : Heard(asked[i], pages[k][i])
        BY <3>5, <4>1, AnsweredIs
      <4> QED
        BY <3>6, <4>2, Zenon
    <3>9. /\ Heard(<<"VERSION", mig>>, pages[k][1]) /\ Heard(<<"poolManager", mig>>, pages[k][2])
          /\ Heard(<<"taxModeOf", mig>>, pages[k][3]) /\ Heard(<<"routerOf", mig>>, pages[k][4])
      <4>1. 1 \in 1 .. 4 /\ 2 \in 1 .. 4 /\ 3 \in 1 .. 4 /\ 4 \in 1 .. 4
        OBVIOUS
      <4> QED
        BY <3>7, <3>8, <4>1, Zenon
    <3>10. /\ pages[k][1] = mig.label /\ pages[k][2] = mig.manager
           /\ pages[k][3] = mig.taxMode /\ pages[k][4] = mig.router
      BY <3>9, CrateHearsDetails, Zenon
    <3>11. pages[k] = <<mig.label, mig.manager, mig.taxMode, mig.router>>
      <4> HIDE DEF k
      <4> QED
        BY <3>8, <3>10
    <3> QED
      BY <2>8, <3>11, Zenon DEF Told, mig
  <2> QED
    BY <2>7, <2>8
<1> QED
  BY <1>0, <1>2, <1>3, <1>4, Zenon DEF CrateTold

LEMMA OneAskable ==
    ASSUME NEW asked, NEW key, Len(asked) = 1, DOMAIN asked = 1 .. 1, asked[1] = key, Has(World, key)
    PROVE  Askable(asked)
<1>1. \A i \in 1 .. 1 : i = 1
  OBVIOUS
<1>2. \A i \in 1 .. 1 : Has(World, asked[i])
  BY <1>1, Zenon
<1>3. asked # <<>> /\ 1 \in Nat /\ 1 # 0
  <2>1. Len(<<>>) = 0 /\ 1 \in Nat /\ 1 # 0
    OBVIOUS
  <2> QED
    BY <2>1, Zenon
<1> QED
  BY <1>2, <1>3, Zenon DEF Askable

LEMMA CrateAskable ==
    ASSUME WorldsKept, Registries, By("crate"), plan.kind = "migrators",
           NEW pages, NEW whole, Paged(pages, whole), ~PassesBy(pages)
    PROVE  Askable(NextPage(pages))
<1>0. PICK n \in Nat : n = Len(pages)
  BY DEF Paged
<1>1. /\ Len(history) \in DOMAIN history /\ World = history[Len(history)]
      /\ NextPage(pages) = CrateMigratorPage(pages)
  BY WorldIn, CratePageIs
<1>2. CASE n = 0
  <2>0. Len(pages) = 0
    BY <1>0, <1>2, Zenon
  <2>1. CASE plan.routed
    <3>1. CrateMigratorPage(pages) = Keys(<<"routerManager", "migratorCount">>)
      BY <2>0, <2>1 DEF CrateMigratorPage
    <3> DEFINE N == {"routerManager", "migratorCount"}
    <3>2. <<"routerManager", "migratorCount">> \in Seq(N)
      OBVIOUS
    <3>3. \A name \in N : name \notin {"quoteTokenAt", "migratorAt", "quoteInfo"}
      OBVIOUS
    <3> HIDE DEF N
    <3>4. PICK names \in Seq(N) : names = <<"routerManager", "migratorCount">>
      BY <3>2, Zenon
    <3>5. Keys(names) \in Seq(N \X {""})
      BY KeysAre
    <3>6. PICK S : S = {""}
      OBVIOUS
    <3>7. Keys(names) \in Seq(N \X S)
      BY <3>5, <3>6
    <3>8. Askable(Keys(names))
      BY <3>3, <3>7, AlwaysAskable
    <3> QED
      BY <1>1, <3>1, <3>4, <3>8, Zenon
  <2>2. CASE ~plan.routed
    <3>1. CrateMigratorPage(pages) = Keys(<<"migratorCount">>)
      BY <2>0, <2>2 DEF CrateMigratorPage
    <3>2. Askable(Keys(<<"migratorCount">>))
      BY KeyAskable
    <3> QED
      BY <1>1, <3>1, <3>2, Zenon
  <2> QED
    BY <2>1, <2>2
<1>3. CASE n # 0
  <2>1. PICK t \in Nat \ {0} : n \in {3 * t - 2, 3 * t - 1, 3 * t}
    <3>1. Len(pages) \in Nat \ {0}
      BY <1>0, <1>3
    <3> QED
      BY <1>0, <3>1, TurnIs, Zenon
  <2>2. PICK m \in DOMAIN history : Last(pages[1]) = Len(history[m].migrators)
    <3>1. CrateCounted(pages)
      BY CrateCountedIs
    <3>2. n > 0
      BY <1>0, <1>3
    <3> QED
      BY <1>0, <3>1, <3>2, Zenon DEF CrateCounted
  <2>3. /\ Last(pages[1]) \in Nat /\ Len(World.migrators) \in Nat
        /\ DOMAIN World.migrators = 1 .. Len(World.migrators)
        /\ Last(pages[1]) <= Len(World.migrators)
    BY <1>1, <2>2, MomentIs, StillThere DEF Grown
  <2>4. CrateTold(pages, t)
    BY CrateToldIs
  <2>5. Len(pages) \in {3 * t - 2, 3 * t - 1, 3 * t}
    BY <1>0, <2>1, Zenon
  <2>6. /\ t > Last(pages[1]) => NextPage(pages) = <<>>
        /\ t <= Last(pages[1]) =>
              /\ Len(pages) = 3 * t - 2 => NextPage(pages) = <<<<"migratorAt", t>>>>
              /\ Len(pages) = 3 * t - 1 => NextPage(pages) = Indexed("isRegistered", pages[3 * t - 1])
              /\ Len(pages) = 3 * t => NextPage(pages) = Each(pages[3 * t - 1], CrateReadNames)
        /\ Len(pages) # 3 * t => ~PassesBy(pages)
        /\ Len(pages) = 3 * t => (PassesBy(pages) <=> pages[3 * t] = <<FALSE>>)
    BY <2>3, <2>5, TurnPages, Zenon
  <2>7. CASE t > Last(pages[1])
    BY <2>6, <2>7, NothingAsked
  <2>8. CASE t <= Last(pages[1])
    <3>1. CASE n = 3 * t - 2
      <4>1. NextPage(pages) = <<<<"migratorAt", t>>>>
        BY <1>0, <2>6, <2>8, <3>1, Zenon
      <4>2. t \in DOMAIN World.migrators
        BY <2>3, <2>8
      <4>3. PICK asked : asked = <<<<"migratorAt", t>>>>
        OBVIOUS
      <4>4. Len(asked) = 1 /\ DOMAIN asked = 1 .. 1 /\ asked[1] = <<"migratorAt", t>>
        BY <4>3
      <4>5. Has(World, <<"migratorAt", t>>)
        BY <4>2, HasIs
      <4>6. Askable(asked)
        BY <4>4, <4>5, OneAskable, Zenon
      <4> QED
        BY <4>1, <4>3, <4>6, Zenon
    <3>2. CASE n = 3 * t - 1
      <4>1. NextPage(pages) = Indexed("isRegistered", pages[3 * t - 1])
        BY <1>0, <2>6, <2>8, <3>2, Zenon
      <4>2. PICK mig : pages[3 * t - 1] = <<mig>>
        <5>1. 3 * t - 1 <= n
          BY <3>2
        <5> QED
          BY <1>0, <2>4, <5>1, Zenon DEF CrateTold
      <4>3. /\ Len(Indexed("isRegistered", <<mig>>)) = 1
            /\ DOMAIN Indexed("isRegistered", <<mig>>) = 1 .. 1
            /\ Indexed("isRegistered", <<mig>>)[1] = <<"isRegistered", mig>>
        <5>1. mig \in {mig}
          OBVIOUS
        <5> QED
          BY <5>1, OneKey
      <4>4. Has(World, <<"isRegistered", mig>>)
        BY HasIs
      <4>5. Askable(Indexed("isRegistered", <<mig>>))
        BY <4>3, <4>4, OneAskable, Zenon
      <4> QED
        BY <4>1, <4>2, <4>5, Zenon
    <3>3. CASE n = 3 * t
      <4>1. NextPage(pages) = Each(pages[3 * t - 1], CrateReadNames)
        BY <1>0, <2>6, <2>8, <3>3, Zenon
      <4>2. PICK mig : pages[3 * t - 1] = <<mig>>
        <5>1. 3 * t - 1 <= n
          BY <3>3
        <5> QED
          BY <1>0, <2>4, <5>1, Zenon DEF CrateTold
      <4>3. PICK asked : asked = Each(<<mig>>, CrateReadNames)
        OBVIOUS
      <4>4. /\ Len(asked) = 4 /\ DOMAIN asked = 1 .. 4
            /\ \A j \in 1 .. 4 : asked[j] = <<CrateReadNames[j], mig>>
            /\ \A j \in 1 .. 4 : CrateReadNames[j] \in {"VERSION", "poolManager", "taxModeOf", "routerOf"}
        BY <4>3, Described
      <4>5. \A j \in 1 .. 4 : Has(World, asked[j])
        <5> TAKE j \in 1 .. 4
        <5>1. CrateReadNames[j] \notin {"quoteTokenAt", "migratorAt", "quoteInfo"}
          BY <4>4
        <5>2. Has(World, <<CrateReadNames[j], mig>>)
          BY <5>1, HasIs
        <5> QED
          BY <4>4, <5>2, Zenon
      <4>6. asked # <<>> /\ 4 \in Nat /\ 4 # 0
        <5>1. Len(<<>>) = 0 /\ 4 \in Nat /\ 4 # 0
          OBVIOUS
        <5> QED
          BY <4>4, <5>1, Zenon
      <4>7. Askable(asked)
        BY <4>4, <4>5, <4>6, Zenon DEF Askable
      <4> QED
        BY <4>1, <4>2, <4>3, <4>7, Zenon
    <3> QED
      BY <2>1, <3>1, <3>2, <3>3
  <2> QED
    BY <2>3, <2>7, <2>8
<1> QED
  BY <1>2, <1>3

LEMMA NextPageAskable ==
    ASSUME WorldsKept, Registries, plan.kind \in Lists,
           NEW pages, NEW whole, Paged(pages, whole), ~PassesBy(pages)
    PROVE  Askable(NextPage(pages))
<1>1. CASE InPages
  BY <1>1, InPagesAskable
<1>2. CASE ~InPages
  <2>1. By("crate") /\ plan.kind = "migrators"
    BY <1>2, ListPlan DEF InPages
  <2> QED
    BY <2>1, CrateAskable
<1> QED
  BY <1>1, <1>2

-----------------------------------------------------------------------------
(* What a step makes of the pages.                                         *)

LEMMA NothingPaged == \A whole : Paged(<<>>, whole)
<1>1. Len(<<>>) = 0 /\ DOMAIN <<>> = {} /\ 1 .. 0 = {} /\ 0 \in Nat
  OBVIOUS
<1>2. <<>> = [k \in 1 .. 0 |-> <<>>[k]]
  OBVIOUS
<1> QED
  BY <1>1, <1>2 DEF Paged

LEMMA PageAdded ==
    ASSUME NEW pages, NEW whole, Paged(pages, whole), NEW page, PageFits(pages, page, whole)
    PROVE  LET all == Append(pages, page)
           IN  Paged(all, whole) /\ Len(all) = Len(pages) + 1 /\ Last(all) = page
<1> DEFINE all == Append(pages, page)
<1>0. /\ Len(pages) \in Nat /\ pages = [k \in 1 .. Len(pages) |-> pages[k]]
      /\ \A k \in DOMAIN pages : PageFits(SubSeq(pages, 1, k - 1), pages[k], whole)
  BY DEF Paged
<1>1. PICK n \in Nat : n = Len(pages)
  BY <1>0
<1>2. DOMAIN pages = 1 .. n /\ pages = [k \in 1 .. n |-> pages[k]]
  BY <1>0, <1>1
<1>3. /\ Len(all) = n + 1 /\ all = [k \in 1 .. n + 1 |-> all[k]]
      /\ DOMAIN all = 1 .. n + 1
      /\ \A k \in 1 .. n : all[k] = pages[k]
      /\ all[n + 1] = page
      /\ \A k \in 1 .. n + 1 : SubSeq(all, 1, k - 1) = SubSeq(pages, 1, k - 1)
  <2>1. /\ Len(all) = Len(pages) + 1 /\ all = [k \in 1 .. Len(pages) + 1 |-> all[k]]
        /\ DOMAIN all = 1 .. Len(pages) + 1
        /\ \A k \in 1 .. Len(pages) : all[k] = pages[k]
        /\ all[Len(pages) + 1] = page
        /\ \A k \in 1 .. Len(pages) + 1 : SubSeq(all, 1, k - 1) = SubSeq(pages, 1, k - 1)
    BY <1>0, AppendIs, Zenon
  <2> HIDE DEF all
  <2> QED
    BY <1>1, <2>1, Zenon
<1>4. SubSeq(pages, 1, n) = pages
  <2>1. pages \in Seq(Range(pages))
    BY <1>1, <1>2, IsSequence
  <2> QED
    BY <1>1, <2>1, SubSeqFull
<1> HIDE DEF all
<1>5. ASSUME NEW k \in 1 .. n + 1 PROVE PageFits(SubSeq(all, 1, k - 1), all[k], whole)
  <2>1. CASE k \in 1 .. n
    <3>1. PageFits(SubSeq(pages, 1, k - 1), pages[k], whole)
      BY <1>0, <1>2, <2>1
    <3> QED
      BY <1>3, <2>1, <3>1, Zenon
  <2>2. CASE k = n + 1
    <3>1. k - 1 = n
      BY <2>2
    <3>2. SubSeq(all, 1, k - 1) = pages
      BY <1>3, <1>4, <3>1, Zenon
    <3> QED
      BY <1>3, <2>2, <3>2, Zenon
  <2>3. k \in 1 .. n \/ k = n + 1
    OBVIOUS
  <2> QED
    BY <2>1, <2>2, <2>3
<1>6. Len(all) \in Nat /\ n + 1 \in Nat
  BY <1>3
<1>7. Paged(all, whole)
  BY <1>3, <1>5, <1>6, Zenon DEF Paged
<1>8. Last(all) = page
  BY <1>3, Zenon DEF Last
<1> QED
  BY <1>1, <1>3, <1>7, <1>8, Zenon DEF all

\* The moments there were are still there.
Longer ==
    /\ DOMAIN history \subseteq DOMAIN history'
    /\ \A m \in DOMAIN history : history'[m] = history[m]

LEMMA SamePage ==
    ASSUME plan' = plan
    PROVE  /\ \A c : By(c)' <=> By(c)
           /\ \A pages : NextPage(pages)' = NextPage(pages)
           /\ \A pages : PassesBy(pages)' <=> PassesBy(pages)
<1>1. \A c : By(c)' <=> By(c)
  BY DEF By
<1>2. \A pages : Page(pages)' = Page(pages)
  BY DEF Page, QuotePage, MigratorPage
<1>3. \A pages : CratePage(pages)' = CratePage(pages)
  BY DEF CratePage, CrateQuotePage, CrateMigratorPage
<1>4. \A pages : NextPage(pages)' = NextPage(pages)
  BY <1>1, <1>2, <1>3 DEF NextPage
<1>5. \A pages : PassesBy(pages)' <=> PassesBy(pages)
  BY <1>1 DEF PassesBy
<1> QED
  BY <1>1, <1>4, <1>5

LEMMA HeardStays ==
    ASSUME plan' = plan, Longer
    PROVE  /\ \A key, answer : Heard(key, answer) => Heard(key, answer)'
           /\ \A asked, page, whole : Answered(asked, page, whole) => Answered(asked, page, whole)'
           /\ \A before, page, whole : PageFits(before, page, whole) => PageFits(before, page, whole)'
           /\ \A pages, whole : Paged(pages, whole) => Paged(pages, whole)'
           /\ \A got, asked : Half(got, asked) => Half(got, asked)'
<1>0. By("ts")' <=> By("ts")
  BY SamePage
<1>1. ASSUME NEW key, NEW answer, Heard(key, answer) PROVE Heard(key, answer)'
  BY <1>0, <1>1 DEF Heard, Longer
<1>2. ASSUME NEW asked, NEW page, NEW whole, Answered(asked, page, whole)
      PROVE  Answered(asked, page, whole)'
  <2>1. /\ page = [i \in DOMAIN asked |-> page[i]]
        /\ \A i \in DOMAIN asked : Heard(asked[i], page[i])'
    BY <1>1, <1>2 DEF Answered
  <2>2. whole => \E m \in DOMAIN history' :
                     \A i \in DOMAIN asked : HeardAt(history'[m], asked[i], page[i])
    BY <1>2 DEF Answered, Longer
  <2> QED
    BY <2>1, <2>2 DEF Answered
<1>3. ASSUME NEW before, NEW page, NEW whole, PageFits(before, page, whole)
      PROVE  PageFits(before, page, whole)'
  <2>1. NextPage(before)' = NextPage(before) /\ (PassesBy(before)' <=> PassesBy(before))
    BY SamePage
  <2>2. CASE PassesBy(before)
    BY <1>3, <2>1, <2>2 DEF PageFits
  <2>3. CASE ~PassesBy(before)
    <3>1. PICK asked : asked = NextPage(before)
      OBVIOUS
    <3>2. asked # <<>> /\ Answered(asked, page, whole)
      BY <1>3, <2>3, <3>1, Zenon DEF PageFits
    <3>3. Answered(asked, page, whole)'
      BY <1>2, <3>2
    <3>4. asked = NextPage(before)'
      BY <2>1, <3>1
    <3>5. Answered(NextPage(before), page, whole)'
      BY <3>3, <3>4 DEF Answered
    <3> QED
      BY <2>1, <2>3, <3>2, <3>4, <3>5 DEF PageFits
  <2> QED
    BY <2>2, <2>3
<1>4. ASSUME NEW pages, NEW whole, Paged(pages, whole) PROVE Paged(pages, whole)'
  <2>1. \A k \in DOMAIN pages : PageFits(SubSeq(pages, 1, k - 1), pages[k], whole)'
    BY <1>3, <1>4, Zenon DEF Paged
  <2> QED
    BY <1>4, <2>1, Zenon DEF Paged
<1>5. ASSUME NEW got, NEW asked, Half(got, asked) PROVE Half(got, asked)'
  <2>1. By("crate")' <=> By("crate")
    BY SamePage
  <2>2. \A i \in DOMAIN got : Heard(asked[i], got[i])'
    BY <1>1, <1>5 DEF Half
  <2> QED
    BY <1>5, <2>1, <2>2 DEF Half
<1> QED
  BY <1>1, <1>2, <1>3, <1>4, <1>5

LEMMA TurnedListed ==
    ASSUME WorldsKept, Registries, plan.kind \in Lists, plan' = plan, history' = history,
           NEW pages, NEW whole, Paged(pages, whole), ~PassesBy(pages),
           call' = Turning(pages, NextPage(pages), whole)
    PROVE  Listed'
<1>0. Longer
  BY DEF Longer
<1>1. /\ call'.at = IF NextPage(pages) = <<>> THEN "returned" ELSE "reading"
      /\ call'.pages = pages /\ call'.whole = whole /\ call'.got = <<>>
  BY TurningIs
<1>2. Paged(pages, whole)' /\ (PassesBy(pages)' <=> PassesBy(pages)) /\ NextPage(pages)' = NextPage(pages)
  BY <1>0, HeardStays, SamePage
<1>3. Paged(call.pages, call.whole)'
  BY <1>1, <1>2 DEF Paged
<1>4. ~PassesBy(call.pages)' /\ NextPage(call.pages)' = NextPage(pages)
  <2>1. ~PassesBy(call'.pages) /\ NextPage(call'.pages) = NextPage(pages)
    BY <1>1, Zenon
  <2> QED
    BY <2>1, SamePage DEF PassesBy, NextPage, By, Page, QuotePage, MigratorPage, CratePage,
                          CrateQuotePage, CrateMigratorPage
<1>5. ASSUME NextPage(pages) # <<>> PROVE Half(call.got, NextPage(call.pages))'
  <2>1. PICK asked : asked = NextPage(pages)
    OBVIOUS
  <2>2. Len(asked) \in Nat /\ Len(asked) > 0
    <3>1. Askable(asked)
      BY <2>1, NextPageAskable, Zenon
    <3>2. Len(asked) \in Nat /\ Len(asked) # 0
      BY <1>5, <2>1, <3>1 DEF Askable
    <3> QED
      BY <3>2
  <2>3. 0 \in 0 .. Len(asked) - 1 /\ DOMAIN <<>> = 1 .. 0 /\ <<>> = [i \in DOMAIN <<>> |-> <<>>[i]]
        /\ DOMAIN <<>> = {}
    BY <2>2
  <2>4. Half(<<>>, asked)'
    BY <2>3 DEF Half
  <2> QED
    BY <1>1, <1>4, <2>1, <2>4 DEF Half
<1> QED
  BY <1>1, <1>3, <1>4, <1>5 DEF Listed

\* The crate goes past a migrator that is registered no more.
LEMMA CrateTurnedListed ==
    ASSUME WorldsKept, Registries, plan.kind \in Lists, By("crate"), plan' = plan, history' = history,
           NEW pages, NEW whole, Paged(pages, whole), call' = CrateAsking(pages, whole)
    PROVE  Listed'
<1>0. PICK n \in Nat : n = Len(pages)
  BY DEF Paged
<1>1. call' = Turning(PassedOver(pages), NextPage(PassedOver(pages)), whole)
  <2>1. ~By("ts")
    BY ListPlan
  <2> QED
    BY <2>1 DEF CrateAsking, NextPage
<1>2. PassedOver(pages) = IF PassesBy(pages) THEN Append(pages, <<>>) ELSE pages
  BY DEF PassedOver, PassesBy
<1>3. CASE PassesBy(pages)
  <2>1. PageFits(pages, <<>>, whole)
    BY <1>3 DEF PageFits
  <2>2. PICK all : all = Append(pages, <<>>)
    OBVIOUS
  <2>3. Paged(all, whole) /\ Len(all) = n + 1
    BY <1>0, <2>1, <2>2, PageAdded, Zenon
  <2>4. ~PassesBy(all)
    <3>1. (n - 1) % 3 = 2
      BY <1>0, <1>3 DEF PassesBy, Part
    <3>2. (n + 1 - 1) % 3 = 0
      BY <3>1
    <3>3. Part(all) = 0
      BY <2>3, <3>2 DEF Part
    <3> QED
      BY <3>3 DEF PassesBy
  <2>5. call' = Turning(all, NextPage(all), whole)
    BY <1>1, <1>2, <1>3, <2>2, Zenon
  <2> QED
    BY <2>3, <2>4, <2>5, TurnedListed
<1>4. CASE ~PassesBy(pages)
  <2>1. call' = Turning(pages, NextPage(pages), whole)
    BY <1>1, <1>2, <1>4, Zenon
  <2> QED
    BY <1>4, <2>1, TurnedListed
<1> QED
  BY <1>3, <1>4

LEMMA TsTurnedListed ==
    ASSUME WorldsKept, Registries, plan.kind \in Lists, By("ts"), plan' = plan, history' = history,
           NEW pages, NEW whole, Paged(pages, whole), call' = Asking(pages, whole)
    PROVE  Listed'
<1>1. call' = Turning(pages, NextPage(pages), whole)
  BY DEF Asking, NextPage
<1>2. ~PassesBy(pages)
  BY ListPlan DEF PassesBy
<1> QED
  BY <1>1, <1>2, TurnedListed

LEMMA ThrownListed ==
    ASSUME WorldsKept, Listed, plan' = plan, history' = history, call' = [call EXCEPT !.at = "thrown"]
    PROVE  Listed'
<1>0. Longer
  BY DEF Longer
<1>1. call'.at = "thrown" /\ call'.pages = call.pages /\ call'.whole = call.whole
  BY DEF WorldsKept
<1>2. PICK pages, whole : pages = call.pages /\ whole = call.whole
  OBVIOUS
<1>3. Paged(pages, whole) /\ ~PassesBy(pages)
  BY <1>2 DEF Listed
<1>4. Paged(pages, whole)' /\ ~PassesBy(pages)'
  BY <1>0, <1>3, HeardStays, SamePage
<1>5. Paged(call.pages, call.whole)'
  BY <1>1, <1>2, <1>4 DEF Paged
<1>6. ~PassesBy(call.pages)'
  BY <1>1, <1>2, <1>4 DEF PassesBy
<1> QED
  BY <1>1, <1>5, <1>6 DEF Listed

LEMMA PageThen ==
    ASSUME plan' = plan
    PROVE  NextPage(call.pages)' = NextPage(call'.pages)
  BY DEF NextPage, By, Page, QuotePage, MigratorPage, CratePage, CrateQuotePage, CrateMigratorPage

\* A read that is answered now.
LEMMA HeardNow ==
    ASSUME WorldsKept, NEW key, Has(World, key)
    PROVE  Heard(key, Read(World, key))
<1>1. Len(history) \in DOMAIN history /\ World = history[Len(history)]
  BY WorldIn
<1>2. HeardAt(history[Len(history)], key, Read(World, key))
  BY <1>1, Zenon DEF HeardAt
<1> QED
  BY <1>1, <1>2 DEF Heard

LEMMA BatchAnswered ==
    ASSUME WorldsKept, NEW asked, Askable(asked), NEW whole
    PROVE  Answered(asked, [i \in DOMAIN asked |-> Read(World, asked[i])], whole)
<1> DEFINE page == [i \in DOMAIN asked |-> Read(World, asked[i])]
<1>1. Len(history) \in DOMAIN history /\ World = history[Len(history)]
  BY WorldIn
<1>2. DOMAIN asked = 1 .. Len(asked) /\ \A i \in DOMAIN asked : Has(World, asked[i])
  BY DEF Askable
<1>3. /\ page = [i \in DOMAIN asked |-> page[i]]
      /\ \A i \in DOMAIN asked : page[i] = Read(World, asked[i])
  OBVIOUS
<1> HIDE DEF page
<1>4. \A i \in DOMAIN asked : Heard(asked[i], page[i])
  BY <1>2, <1>3, HeardNow
<1>5. \A i \in DOMAIN asked : HeardAt(history[Len(history)], asked[i], page[i])
  BY <1>1, <1>2, <1>3, Zenon DEF HeardAt
<1> QED
  BY <1>1, <1>3, <1>4, <1>5, Zenon DEF Answered, page

\* The page that is out, of a call that reads.
LEMMA PageOut ==
    ASSUME WorldsKept, Registries, plan.kind \in Lists, Listed, call.at = "reading"
    PROVE  /\ NextPage(call.pages) # <<>> /\ Askable(NextPage(call.pages))
           /\ Paged(call.pages, call.whole) /\ ~PassesBy(call.pages)
           /\ By("ts") => Asked = NextPage(call.pages)
           /\ By("crate") => CrateAsked = NextPage(call.pages)
<1>1. NextPage(call.pages) # <<>> /\ Paged(call.pages, call.whole) /\ ~PassesBy(call.pages)
  BY DEF Listed
<1>2. Askable(NextPage(call.pages))
  BY <1>1, NextPageAskable
<1>3. By("crate") => ~By("ts")
  BY ListPlan
<1> QED
  BY <1>1, <1>2, <1>3 DEF Asked, CrateAsked, NextPage

\* The pages with the page that was out, when all of it is answered.
LEMMA PageIn ==
    ASSUME WorldsKept, Registries, plan.kind \in Lists, Listed, call.at = "reading",
           NEW page, Answered(NextPage(call.pages), page, call.whole)
    PROVE  Paged(Append(call.pages, page), call.whole)
<1>1. NextPage(call.pages) # <<>> /\ Paged(call.pages, call.whole) /\ ~PassesBy(call.pages)
  BY PageOut
<1>2. PageFits(call.pages, page, call.whole)
  BY <1>1 DEF PageFits
<1> QED
  BY <1>1, <1>2, PageAdded

LEMMA AnswerBatchListed ==
    ASSUME WorldsKept, Registries, plan.kind \in Lists, Listed, By("ts"), AnswerBatch
    PROVE  Listed'
<1>1. /\ call.at = "reading" /\ call.whole /\ plan' = plan /\ history' = history
      /\ call' = Asking(Append(call.pages, [i \in DOMAIN Asked |-> Read(World, Asked[i])]), TRUE)
  BY DEF AnswerBatch
<1>2. Asked = NextPage(call.pages) /\ Askable(Asked)
  BY <1>1, PageOut
<1>3. PICK page : page = [i \in DOMAIN Asked |-> Read(World, Asked[i])]
  OBVIOUS
<1>4. Answered(Asked, page, call.whole)
  BY <1>2, <1>3, BatchAnswered, Zenon
<1>5. Paged(Append(call.pages, page), call.whole)
  BY <1>1, <1>2, <1>4, PageIn
<1>6. call.whole = TRUE
  BY <1>1 DEF WorldsKept
<1>7. call' = Asking(Append(call.pages, page), call.whole)
  BY <1>1, <1>3, <1>6
<1> QED
  BY <1>1, <1>5, <1>7, TsTurnedListed

LEMMA CrateAnswerBatchListed ==
    ASSUME WorldsKept, Registries, plan.kind \in Lists, Listed, By("crate"), CrateAnswerBatch
    PROVE  Listed'
<1>1. /\ call.at = "reading" /\ call.whole /\ plan' = plan /\ history' = history
      /\ call' = CrateAsking(Append(call.pages, [i \in DOMAIN CrateAsked |-> Read(World, CrateAsked[i])]), TRUE)
  BY DEF CrateAnswerBatch
<1>2. CrateAsked = NextPage(call.pages) /\ Askable(CrateAsked)
  BY <1>1, PageOut
<1>3. PICK page : page = [i \in DOMAIN CrateAsked |-> Read(World, CrateAsked[i])]
  OBVIOUS
<1>4. Answered(CrateAsked, page, call.whole)
  BY <1>2, <1>3, BatchAnswered, Zenon
<1>5. Paged(Append(call.pages, page), call.whole)
  BY <1>1, <1>2, <1>4, PageIn
<1>6. call.whole = TRUE
  BY <1>1 DEF WorldsKept
<1>7. call' = CrateAsking(Append(call.pages, page), call.whole)
  BY <1>1, <1>3, <1>6
<1> QED
  BY <1>1, <1>5, <1>7, CrateTurnedListed

\* One of the reads that are out in parallel is answered.
LEMMA GotListed ==
    ASSUME WorldsKept, Registries, plan.kind \in Lists, Listed, By("ts"),
           call.at = "reading", ~call.whole, plan' = plan, history' = history,
           NEW i \in DOMAIN Asked, NEW answer, Heard(Asked[i], answer), call' = Got(i, answer)
    PROVE  Listed'
<1> DEFINE got == [j \in DOMAIN call.got \cup {i} |-> IF j = i THEN answer ELSE call.got[j]]
<1>1. /\ Asked = NextPage(call.pages) /\ Asked # <<>>
      /\ Paged(call.pages, call.whole) /\ ~PassesBy(call.pages)
  BY PageOut
<1>2. /\ call.got = [j \in DOMAIN call.got |-> call.got[j]] /\ DOMAIN call.got \subseteq DOMAIN Asked
      /\ \A j \in DOMAIN call.got : Heard(Asked[j], call.got[j])
  BY <1>1 DEF Listed, Half
<1>3. /\ got = [j \in DOMAIN got |-> got[j]] /\ DOMAIN got = DOMAIN call.got \cup {i}
      /\ DOMAIN got \subseteq DOMAIN Asked
  BY <1>2
<1>4. \A j \in DOMAIN got : Heard(Asked[j], got[j])
  BY <1>2
<1>5. call.whole = FALSE
  BY DEF WorldsKept
<1>6. call' = IF DOMAIN got = DOMAIN Asked
              THEN Asking(Append(call.pages, [j \in DOMAIN Asked |-> got[j]]), FALSE)
              ELSE [call EXCEPT !.got = got]
  BY DEF Got
<1> HIDE DEF got
<1>7. CASE DOMAIN got = DOMAIN Asked
  <2>1. PICK page : page = [j \in DOMAIN Asked |-> got[j]]
    OBVIOUS
  <2>2. Answered(Asked, page, call.whole)
    <3>1. page = [j \in DOMAIN Asked |-> page[j]] /\ \A j \in DOMAIN Asked : page[j] = got[j]
      BY <2>1
    <3>2. \A j \in DOMAIN Asked : Heard(Asked[j], page[j])
      BY <1>4, <1>7, <3>1, Zenon
    <3> QED
      BY <3>1, <3>2, Zenon DEF Answered
  <2>3. Paged(Append(call.pages, page), call.whole)
    BY <1>1, <2>2, PageIn
  <2>4. call' = Asking(Append(call.pages, page), call.whole)
    BY <1>5, <1>6, <1>7, <2>1
  <2> QED
    BY <2>3, <2>4, TsTurnedListed
<1>8. CASE DOMAIN got # DOMAIN Asked
  <2>1. call' = [call EXCEPT !.got = got]
    BY <1>6, <1>8
  <2>2. /\ call'.at = "reading" /\ call'.pages = call.pages /\ call'.whole = call.whole
        /\ call'.got = got
    BY <2>1 DEF WorldsKept
  <2>3. PICK pages, whole, asked : pages = call.pages /\ whole = call.whole /\ asked = Asked
    OBVIOUS
  <2>4. Longer
    BY DEF Longer
  <2>5. PICK some : some = got
    OBVIOUS
  <2>6. Half(some, asked)
    <3>1. ~By("crate")
      BY ListPlan
    <3> QED
      BY <1>3, <1>4, <2>3, <2>5, <3>1, Zenon DEF Half
  <2>7. /\ Paged(pages, whole)' /\ ~PassesBy(pages)' /\ Half(some, asked)'
        /\ NextPage(pages)' = asked
    BY <1>1, <2>3, <2>4, <2>6, HeardStays, SamePage
  <2>8. Paged(call.pages, call.whole)'
    BY <2>2, <2>3, <2>7 DEF Paged
  <2>9. ~PassesBy(call.pages)'
    BY <2>2, <2>3, <2>7 DEF PassesBy
  <2>10. NextPage(call.pages)' = asked
    <3>1. NextPage(call'.pages) = asked
      BY <1>1, <2>2, <2>3, Zenon
    <3> QED
      BY <3>1, PageThen, Zenon
  <2>11. Half(call.got, NextPage(call.pages))'
    BY <2>2, <2>5, <2>7, <2>10 DEF Half
  <2> QED
    BY <1>1, <2>2, <2>3, <2>8, <2>9, <2>10, <2>11 DEF Listed
<1> QED
  BY <1>7, <1>8

LEMMA ReadAnswersListed ==
    ASSUME WorldsKept, Registries, plan.kind \in Lists, Listed, By("ts"), ReadAnswers
    PROVE  Listed'
<1>1. PICK i \in Outstanding :
         call' = Got(i, Read(World, Asked[i])) /\ plan' = plan /\ history' = history
  BY DEF ReadAnswers
<1>2. call.at = "reading" /\ ~call.whole /\ i \in DOMAIN Asked
  BY <1>1 DEF Outstanding
<1>3. Has(World, Asked[i])
  BY <1>2, PageOut DEF Askable
<1>4. Heard(Asked[i], Read(World, Asked[i]))
  BY <1>3, HeardNow
<1> QED
  BY <1>1, <1>2, <1>4, GotListed

LEMMA ReadFailsListed ==
    ASSUME WorldsKept, Registries, plan.kind \in Lists, Listed, By("ts"), ReadFails
    PROVE  Listed'
<1>1. PICK i \in Outstanding :
         /\ plan' = plan /\ history' = history
         /\ IF Tolerated(Asked[i][1]) = {} THEN call' = [call EXCEPT !.at = "thrown"]
            ELSE \E answer \in Tolerated(Asked[i][1]) : call' = Got(i, answer)
  BY DEF ReadFails
<1>2. call.at = "reading" /\ ~call.whole /\ i \in DOMAIN Asked
  BY <1>1 DEF Outstanding
<1>3. CASE call' = [call EXCEPT !.at = "thrown"]
  BY <1>1, <1>3, ThrownListed
<1>4. ASSUME NEW answer \in Tolerated(Asked[i][1]), call' = Got(i, answer) PROVE Listed'
  <2>1. Heard(Asked[i], answer)
    BY <1>4 DEF Heard
  <2> QED
    BY <1>1, <1>2, <1>4, <2>1, GotListed
<1> QED
  BY <1>1, <1>3, <1>4

LEMMA CrateReadAnswersListed ==
    ASSUME WorldsKept, Registries, plan.kind \in Lists, Listed, By("crate"), CrateReadAnswers
    PROVE  Listed'
<1> DEFINE got == Append(call.got, Read(World, CrateAsked[Len(call.got) + 1]))
<1>1. /\ call.at = "reading" /\ ~call.whole /\ plan' = plan /\ history' = history
      /\ call' = IF Len(got) = Len(CrateAsked) THEN CrateAsking(Append(call.pages, got), FALSE)
                 ELSE [call EXCEPT !.got = got]
  BY DEF CrateReadAnswers
<1>2. /\ CrateAsked = NextPage(call.pages) /\ CrateAsked # <<>> /\ Askable(CrateAsked)
      /\ Paged(call.pages, call.whole) /\ ~PassesBy(call.pages)
  BY <1>1, PageOut
<1>3. Half(call.got, CrateAsked)
  BY <1>1, <1>2 DEF Listed
<1>4. PICK l \in Nat : /\ l = Len(CrateAsked) /\ DOMAIN CrateAsked = 1 .. l
                       /\ \A i \in 1 .. l : Has(World, CrateAsked[i])
  BY <1>2 DEF Askable
<1>5. PICK n \in 0 .. l - 1 : /\ DOMAIN call.got = 1 .. n /\ call.got = [i \in 1 .. n |-> call.got[i]]
                              /\ \A i \in 1 .. n : Heard(CrateAsked[i], call.got[i])
  <2>1. PICK n \in 0 .. l - 1 : DOMAIN call.got = 1 .. n
    BY <1>3, <1>4 DEF Half
  <2>2. /\ call.got = [i \in DOMAIN call.got |-> call.got[i]]
        /\ \A i \in DOMAIN call.got : Heard(CrateAsked[i], call.got[i])
    BY <1>3 DEF Half
  <2> QED
    BY <2>1, <2>2, Zenon
<1>6. n \in Nat /\ n + 1 \in 1 .. l
  BY <1>5
<1>7. Len(call.got) = n
  BY <1>5, <1>6, IsSequence
<1> DEFINE now == Read(World, CrateAsked[n + 1])
<1>8. got = Append(call.got, now)
  BY <1>7
<1>9. Heard(CrateAsked[n + 1], now)
  BY <1>4, <1>6, HeardNow
<1> HIDE DEF got, now
<1>10. /\ Len(got) = n + 1 /\ got = [k \in 1 .. n + 1 |-> got[k]] /\ DOMAIN got = 1 .. n + 1
       /\ \A k \in 1 .. n : got[k] = call.got[k]
       /\ got[n + 1] = now
  <2>1. Len(call.got) \in Nat /\ call.got = [k \in 1 .. Len(call.got) |-> call.got[k]]
    BY <1>5, <1>6, <1>7, Zenon
  <2>2. LET t == Append(call.got, now)
        IN  /\ Len(t) = Len(call.got) + 1 /\ t = [k \in 1 .. Len(call.got) + 1 |-> t[k]]
            /\ DOMAIN t = 1 .. Len(call.got) + 1
            /\ \A k \in 1 .. Len(call.got) : t[k] = call.got[k]
            /\ t[Len(call.got) + 1] = now
    BY <2>1, AppendIs
  <2> QED
    BY <1>7, <1>8, <2>2, Zenon
<1>11. ASSUME NEW k \in 1 .. n + 1 PROVE Heard(CrateAsked[k], got[k])
  <2>1. k \in 1 .. n \/ k = n + 1
    BY <1>6
  <2> QED
    BY <1>5, <1>9, <1>10, <2>1, Zenon
<1>12. call.whole = FALSE
  BY <1>1 DEF WorldsKept
<1>13. CASE n + 1 = l
  <2>1. Answered(CrateAsked, got, call.whole)
    BY <1>4, <1>10, <1>11, <1>12, <1>13, Zenon DEF Answered
  <2>2. Paged(Append(call.pages, got), call.whole)
    BY <1>1, <1>2, <2>1, PageIn
  <2>3. call' = CrateAsking(Append(call.pages, got), call.whole)
    BY <1>1, <1>4, <1>10, <1>12, <1>13, Zenon
  <2> QED
    BY <1>1, <2>2, <2>3, CrateTurnedListed
<1>14. CASE n + 1 # l
  <2>1. call' = [call EXCEPT !.got = got]
    BY <1>1, <1>4, <1>10, <1>14, Zenon
  <2>2. /\ call'.at = "reading" /\ call'.pages = call.pages /\ call'.whole = call.whole
        /\ call'.got = got
    BY <1>1, <2>1 DEF WorldsKept
  <2>3. PICK pages, whole, asked : pages = call.pages /\ whole = call.whole /\ asked = CrateAsked
    OBVIOUS
  <2>4. Longer
    BY <1>1 DEF Longer
  <2>5. PICK some : some = got
    OBVIOUS
  <2>6. Half(some, asked)
    <3>1. n + 1 \in 0 .. l - 1 /\ \A k \in 1 .. n + 1 : k \in 1 .. l
      BY <1>6, <1>14
    <3>2. 1 .. n + 1 \subseteq 1 .. l
      BY <3>1
    <3>3. DOMAIN some = 1 .. n + 1 /\ some = [k \in 1 .. n + 1 |-> some[k]]
      BY <1>10, <2>5, Zenon
    <3>4. DOMAIN asked = 1 .. l /\ Len(asked) = l
      BY <1>4, <2>3, Zenon
    <3>5. \A k \in 1 .. n + 1 : Heard(asked[k], some[k])
      BY <1>11, <2>3, <2>5, Zenon
    <3> QED
      BY <3>1, <3>2, <3>3, <3>4, <3>5, Zenon DEF Half
  <2>7. /\ Paged(pages, whole)' /\ ~PassesBy(pages)' /\ Half(some, asked)'
        /\ NextPage(pages)' = asked
    BY <1>1, <1>2, <2>3, <2>4, <2>6, HeardStays, SamePage
  <2>8. Paged(call.pages, call.whole)'
    BY <2>2, <2>3, <2>7 DEF Paged
  <2>9. ~PassesBy(call.pages)'
    BY <2>2, <2>3, <2>7 DEF PassesBy
  <2>10. NextPage(call.pages)' = asked
    <3>1. NextPage(call'.pages) = asked
      BY <1>2, <2>2, <2>3, Zenon
    <3> QED
      BY <1>1, <3>1, PageThen, Zenon
  <2>11. Half(call.got, NextPage(call.pages))'
    BY <2>2, <2>5, <2>7, <2>10 DEF Half
  <2> QED
    BY <1>2, <2>2, <2>3, <2>8, <2>9, <2>10, <2>11 DEF Listed
<1> QED
  BY <1>13, <1>14

LEMMA FailureListed ==
    ASSUME WorldsKept, plan.kind \in Lists, Listed, BatchFails \/ CrateBatchFails \/ CrateReadFails
    PROVE  Listed'
<1>1. plan.kind # "state"
  BY DEF Lists
<1>2. call' = [call EXCEPT !.at = "thrown"] /\ plan' = plan /\ history' = history
  BY <1>1 DEF BatchFails, CrateBatchFails, CrateReadFails
<1> QED
  BY <1>2, ThrownListed

-----------------------------------------------------------------------------
(* The registries grow.                                                    *)

LEMMA ChangesGrow ==
    ASSUME plan \in Plans, plan.kind \in Lists, NEW w \in Moment, IsInjective(w.migrators),
           NEW v \in Changes(w)
    PROVE  Grown(w, v) /\ IsInjective(v.migrators)
<1>1. w.quotes \in Seq(QuoteRecord) /\ w.migrators \in Seq(MigratorRecord)
  BY DEF Moment
<1>2. PICK qs \in Seq(QuoteRecord), ms \in Seq(MigratorRecord) : qs = w.quotes /\ ms = w.migrators
  BY <1>1
<1>3. Len(qs) \in Nat /\ DOMAIN qs = 1 .. Len(qs) /\ Len(ms) \in Nat /\ DOMAIN ms = 1 .. Len(ms)
  OBVIOUS
<1>4. Len(qs) <= Len(qs) /\ Len(ms) <= Len(ms)
  BY <1>3
<1>5. CASE plan.kind = "quotes"
  <2>0. v \in Registered(w)
    BY <1>5 DEF Changes
  <2>1. CASE \E q \in Tokens : v = [w EXCEPT !.quotes = Append(@, Registration(q, 1, TRUE))]
    <3>1. PICK r : v = [w EXCEPT !.quotes = Append(@, r)]
      BY <2>1
    <3>2. v.quotes = Append(qs, r) /\ v.migrators = ms /\ v.retired = w.retired
      BY <1>2, <3>1 DEF Moment
    <3>3. Len(v.quotes) = Len(qs) + 1 /\ \A i \in 1 .. Len(qs) : v.quotes[i] = qs[i]
      BY <1>3, <3>2
    <3>4. Len(qs) <= Len(v.quotes) /\ \A i \in DOMAIN qs : qs[i].token = v.quotes[i].token
      BY <1>3, <3>3
    <3> QED
      BY <1>2, <1>4, <3>2, <3>4 DEF Grown
  <2>2. CASE \E i \in DOMAIN w.quotes : \/ v = [w EXCEPT !.quotes[i].launchFee = @ + 1]
                                        \/ v = [w EXCEPT !.quotes[i].active = ~@]
    <3>1. \E i \in DOMAIN qs : \E r : /\ r.token = qs[i].token
                                       /\ v = [w EXCEPT !.quotes = [qs EXCEPT ![i] = r]]
      <4>1. PICK i \in DOMAIN qs : \/ v = [w EXCEPT !.quotes[i].launchFee = @ + 1]
                                   \/ v = [w EXCEPT !.quotes[i].active = ~@]
        BY <1>2, <2>2
      <4>2. qs[i] \in QuoteRecord
        BY <4>1
      <4>3. CASE v = [w EXCEPT !.quotes[i].launchFee = @ + 1]
        <5>1. v = [w EXCEPT !.quotes = [qs EXCEPT ![i] = [qs[i] EXCEPT !.launchFee = qs[i].launchFee + 1]]]
          BY <1>2, <4>3 DEF Moment
        <5>2. [qs[i] EXCEPT !.launchFee = qs[i].launchFee + 1].token = qs[i].token
          BY <4>2 DEF QuoteRecord
        <5> QED
          BY <5>1, <5>2
      <4>4. CASE v = [w EXCEPT !.quotes[i].active = ~@]
        <5>1. v = [w EXCEPT !.quotes = [qs EXCEPT ![i] = [qs[i] EXCEPT !.active = ~qs[i].active]]]
          BY <1>2, <4>4 DEF Moment
        <5>2. [qs[i] EXCEPT !.active = ~qs[i].active].token = qs[i].token
          BY <4>2 DEF QuoteRecord
        <5> QED
          BY <5>1, <5>2
      <4> QED
        BY <4>1, <4>3, <4>4
    <3>2. PICK i \in DOMAIN qs : \E r : /\ r.token = qs[i].token
                                        /\ v = [w EXCEPT !.quotes = [qs EXCEPT ![i] = r]]
      BY <3>1
    <3>3. PICK r : r.token = qs[i].token /\ v = [w EXCEPT !.quotes = [qs EXCEPT ![i] = r]]
      BY <3>2
    <3>4. v.quotes = [qs EXCEPT ![i] = r] /\ v.migrators = ms /\ v.retired = w.retired
      BY <1>2, <3>3 DEF Moment
    <3>5. Len(v.quotes) = Len(qs) /\ \A k \in DOMAIN qs : qs[k].token = v.quotes[k].token
      BY <1>3, <3>3, <3>4
    <3> QED
      BY <1>2, <1>4, <3>4, <3>5 DEF Grown
  <2> QED
    BY <2>0, <2>1, <2>2 DEF Registered
<1>6. CASE plan.kind = "migrators"
  <2>0. v \in Vetted(w)
    BY <1>6 DEF Changes
  <2>1. CASE \E m \in plan.vetted \ Range(w.migrators) : v = [w EXCEPT !.migrators = Append(@, m)]
    <3>1. PICK m \in plan.vetted \ Range(w.migrators) : v = [w EXCEPT !.migrators = Append(@, m)]
      BY <2>1
    <3>2. v.migrators = Append(ms, m) /\ v.quotes = qs /\ v.retired = w.retired
      BY <1>2, <3>1 DEF Moment
    <3>3. m \in MigratorRecord /\ m \notin Range(ms)
      BY <1>2, <3>1, PlanFigures
    <3>4. /\ DOMAIN v.migrators = 1 .. Len(ms) + 1 /\ Len(v.migrators) = Len(ms) + 1
          /\ \A i \in 1 .. Len(ms) : v.migrators[i] = ms[i]
          /\ v.migrators[Len(ms) + 1] = m
      BY <1>3, <3>2, <3>3
    <3>5. \A i \in 1 .. Len(ms) : ms[i] # m
      BY <1>3, <3>3 DEF Range
    <3>6. \A i, j \in 1 .. Len(ms) : ms[i] = ms[j] => i = j
      BY <1>2, <1>3 DEF IsInjective
    <3>7. IsInjective(v.migrators)
      <4>1. \A i \in 1 .. Len(ms) + 1 : i \in 1 .. Len(ms) \/ i = Len(ms) + 1
        BY <1>3
      <4> QED
        BY <3>4, <3>5, <3>6, <4>1 DEF IsInjective
    <3>8. Len(ms) <= Len(v.migrators) /\ \A i \in DOMAIN ms : ms[i] = v.migrators[i]
      BY <1>3, <3>4
    <3> QED
      BY <1>2, <1>4, <3>2, <3>7, <3>8 DEF Grown
  <2>2. CASE \E m \in plan.dismissed : v = [w EXCEPT !.retired = @ \cup {m}]
    <3>1. PICK m : v = [w EXCEPT !.retired = @ \cup {m}]
      BY <2>2
    <3>2. v.migrators = ms /\ v.quotes = qs /\ w.retired \subseteq v.retired
      BY <1>2, <3>1 DEF Moment
    <3> QED
      BY <1>2, <1>4, <3>2 DEF Grown
  <2> QED
    BY <2>0, <2>1, <2>2 DEF Vetted
<1> QED
  BY <1>5, <1>6 DEF Lists

LEMMA ChainMovesListed ==
    ASSUME WorldsKept, Registries, plan.kind \in Lists, Listed, ChainMoves
    PROVE  Registries' /\ Listed'
<1>1. PICK w \in Changes(World) : history' = Append(history, w)
  BY DEF ChainMoves
<1>2. plan' = plan /\ call' = call /\ plan \in Plans /\ history \in Seq(Moment)
  BY DEF ChainMoves, WorldsKept
<1>3. /\ World \in Moment /\ OnCurve(World) /\ Len(history) \in DOMAIN history
      /\ World = history[Len(history)] /\ Len(history) \in Nat
      /\ \A m \in DOMAIN history : history[m] \in Moment
  BY WorldIn
<1>4. IsInjective(World.migrators)
  BY <1>3 DEF Registries
<1>5. Grown(World, w) /\ IsInjective(w.migrators) /\ w \in Moment
  BY <1>1, <1>2, <1>3, <1>4, ChangesGrow, ChangesKept
<1>6. PICK n \in Nat : n = Len(history)
  BY <1>3
<1>7. /\ DOMAIN history = 1 .. n /\ DOMAIN history' = 1 .. n + 1
      /\ \A m \in 1 .. n : history'[m] = history[m]
      /\ history'[n + 1] = w
  BY <1>1, <1>2, <1>5, <1>6
<1>8. Longer
  BY <1>7 DEF Longer
<1>9. Grown(w, w)
  <2>1. w.quotes \in Seq(QuoteRecord) /\ w.migrators \in Seq(MigratorRecord)
    BY <1>5 DEF Moment
  <2>2. Len(w.quotes) \in Nat /\ Len(w.migrators) \in Nat
    BY <2>1
  <2>3. Len(w.quotes) <= Len(w.quotes) /\ Len(w.migrators) <= Len(w.migrators)
    BY <2>2
  <2> QED
    BY <2>3 DEF Grown
<1>10. ASSUME NEW m \in DOMAIN history PROVE Grown(history[m], w)
  <2> DEFINE v == history[m]
  <2>1. /\ Grown(v, World)
        /\ \A i \in DOMAIN v.quotes :
               i \in DOMAIN World.quotes /\ World.quotes[i].token = v.quotes[i].token
        /\ \A i \in DOMAIN v.migrators :
               i \in DOMAIN World.migrators /\ World.migrators[i] = v.migrators[i]
        /\ v.retired \subseteq World.retired
    BY StillThere
  <2>2. /\ Len(v.quotes) \in Nat /\ Len(v.migrators) \in Nat
        /\ Len(World.quotes) \in Nat /\ Len(World.migrators) \in Nat
    BY <1>3, MomentIs
  <2>3. Len(w.quotes) \in Nat /\ Len(w.migrators) \in Nat
    <3>1. w.quotes \in Seq(QuoteRecord) /\ w.migrators \in Seq(MigratorRecord)
      BY <1>5 DEF Moment
    <3> QED
      BY <3>1
  <2>4. Len(v.quotes) <= Len(w.quotes) /\ Len(v.migrators) <= Len(w.migrators)
    BY <1>5, <2>1, <2>2, <2>3 DEF Grown
  <2>5. /\ \A i \in DOMAIN v.quotes : v.quotes[i].token = w.quotes[i].token
        /\ \A i \in DOMAIN v.migrators : v.migrators[i] = w.migrators[i]
        /\ v.retired \subseteq w.retired
    BY <1>5, <2>1 DEF Grown
  <2> QED
    BY <2>4, <2>5 DEF Grown
<1>11. Registries'
  <2>1. ASSUME NEW m \in 1 .. n + 1, NEW k \in 1 .. n + 1, m <= k PROVE Grown(history'[m], history'[k])
    <3>1. CASE m \in 1 .. n /\ k \in 1 .. n
      <4>1. Grown(history[m], history[k])
        BY <1>7, <2>1, <3>1 DEF Registries
      <4> QED
        BY <1>7, <3>1, <4>1, Zenon
    <3>2. CASE m \in 1 .. n /\ k = n + 1
      BY <1>7, <1>10, <3>2, Zenon
    <3>3. CASE m = n + 1
      <4>1. k = n + 1
        BY <1>6, <2>1, <3>3
      <4> QED
        BY <1>7, <1>9, <3>3, <4>1, Zenon
    <3>4. (m \in 1 .. n \/ m = n + 1) /\ (k \in 1 .. n \/ k = n + 1)
      BY <1>6
    <3> QED
      BY <3>1, <3>2, <3>3, <3>4
  <2>2. ASSUME NEW m \in 1 .. n + 1 PROVE IsInjective(history'[m].migrators)
    <3>1. m \in 1 .. n \/ m = n + 1
      BY <1>6
    <3>2. \A k \in 1 .. n : IsInjective(history[k].migrators)
      BY <1>7 DEF Registries
    <3> QED
      BY <1>5, <1>7, <3>1, <3>2, Zenon
  <2> QED
    BY <1>7, <2>1, <2>2, Zenon DEF Registries
<1>12. Listed'
  <2>1. PICK pages, whole, got : pages = call.pages /\ whole = call.whole /\ got = call.got
    OBVIOUS
  <2>2. PICK asked : asked = NextPage(call.pages)
    OBVIOUS
  <2>3. Paged(pages, whole)' /\ ~PassesBy(pages)' /\ NextPage(pages)' = asked
    BY <1>2, <1>8, <2>1, <2>2, HeardStays, SamePage DEF Listed
  <2>4. Paged(call.pages, call.whole)'
    BY <1>2, <2>1, <2>3 DEF Paged
  <2>5. ~PassesBy(call.pages)'
    BY <1>2, <2>1, <2>3 DEF PassesBy
  <2>6. NextPage(call.pages)' = asked
    <3>1. NextPage(call'.pages) = asked
      BY <1>2, <2>2, Zenon
    <3> QED
      BY <1>2, <3>1, PageThen, Zenon
  <2>7. ASSUME call.at = "reading", ~call.whole PROVE Half(call.got, NextPage(call.pages))'
    <3>1. Half(got, asked)
      BY <2>1, <2>2, <2>7 DEF Listed
    <3>2. Half(got, asked)'
      BY <1>2, <1>8, <3>1, HeardStays
    <3> QED
      BY <1>2, <2>1, <2>6, <3>2 DEF Half
  <2>8. /\ call.at = "returned" => asked = <<>>
        /\ call.at = "reading" => asked # <<>>
    BY <2>2 DEF Listed
  <2> QED
    BY <1>2, <2>4, <2>5, <2>6, <2>7, <2>8 DEF Listed
<1> QED
  BY <1>11, <1>12

-----------------------------------------------------------------------------
(* The invariant of the lists.                                             *)

LEMMA InitLists ==
    ASSUME Init, IInv, plan.kind \in Lists
    PROVE  Registries /\ Listed
<1>1. /\ plan \in Plans /\ history = <<plan.world>> /\ WorldsKept
      /\ call = IF By("ts") THEN Asking(<<>>, Batched) ELSE CrateAsking(<<>>, CrateBatched)
  BY DEF Init, IInv
<1>2. plan.world \in Moment /\ IsInjective(plan.world.migrators)
  BY <1>1, ViewsAssumption
<1>3. DOMAIN history = {1} /\ history[1] = plan.world
  BY <1>1
<1>4. Registries
  <2>1. plan.world.quotes \in Seq(QuoteRecord) /\ plan.world.migrators \in Seq(MigratorRecord)
    BY <1>2 DEF Moment
  <2>2. Len(plan.world.quotes) \in Nat /\ Len(plan.world.migrators) \in Nat
    BY <2>1
  <2>3. /\ Len(plan.world.quotes) <= Len(plan.world.quotes)
        /\ Len(plan.world.migrators) <= Len(plan.world.migrators)
    BY <2>2
  <2>4. Grown(plan.world, plan.world)
    BY <2>3 DEF Grown
  <2> QED
    BY <1>2, <1>3, <2>4 DEF Registries
<1>5. PassedOver(<<>>) = <<>> /\ ~PassesBy(<<>>)
  <2>1. ~(Len(<<>>) > 1)
    OBVIOUS
  <2> QED
    BY <2>1, Zenon DEF PassedOver, PassesBy
<1>6. PICK whole : call = Turning(<<>>, NextPage(<<>>), whole)
  <2>1. CASE By("ts")
    BY <1>1, <2>1 DEF Asking, NextPage
  <2>2. CASE ~By("ts")
    BY <1>1, <1>5, <2>2 DEF CrateAsking, NextPage
  <2> QED
    BY <2>1, <2>2
<1>7. /\ call.at = IF NextPage(<<>>) = <<>> THEN "returned" ELSE "reading"
      /\ call.pages = <<>> /\ call.whole = whole /\ call.got = <<>>
  BY <1>6, TurningIs
<1>8. Paged(call.pages, call.whole) /\ ~PassesBy(call.pages)
  BY <1>5, <1>7, NothingPaged
<1>9. ASSUME NextPage(call.pages) # <<>> PROVE Half(call.got, NextPage(call.pages))
  <2>1. PICK asked : asked = NextPage(call.pages)
    OBVIOUS
  <2>2. Len(asked) \in Nat /\ Len(asked) # 0
    <3>1. Askable(asked)
      BY <1>1, <1>4, <1>8, <2>1, NextPageAskable, Zenon
    <3> QED
      BY <1>9, <2>1, <3>1 DEF Askable
  <2>3. 0 \in 0 .. Len(asked) - 1 /\ DOMAIN <<>> = 1 .. 0 /\ <<>> = [i \in DOMAIN <<>> |-> <<>>[i]]
        /\ DOMAIN <<>> = {}
    BY <2>2
  <2>4. Half(<<>>, asked)
    BY <2>3 DEF Half
  <2> QED
    BY <1>7, <2>1, <2>4, Zenon
<1>10. NextPage(<<>>) = NextPage(call.pages)
  BY <1>7, Zenon
<1>11. Listed
  BY <1>7, <1>8, <1>9, <1>10 DEF Listed
<1> QED
  BY <1>4, <1>11

LEMMA InitListInv == Init => ListInv
  BY InitIInv, InitLists DEF ListInv

LEMMA StepLists ==
    ASSUME IInv, plan.kind \in Lists, Registries, Listed, [Next]_vars
    PROVE  Registries' /\ Listed'
<1>1. WorldsKept
  BY DEF IInv
<1>2. history' = history => Registries'
  BY DEF Registries
<1>3. CASE By("ts") /\ AnswerBatch
  <2>1. history' = history
    BY <1>3 DEF AnswerBatch
  <2> QED
    BY <1>1, <1>2, <1>3, <2>1, AnswerBatchListed
<1>4. CASE BatchFails \/ CrateBatchFails \/ CrateReadFails
  <2>1. history' = history
    BY <1>4 DEF BatchFails, CrateBatchFails, CrateReadFails
  <2> QED
    BY <1>1, <1>2, <1>4, <2>1, FailureListed
<1>5. CASE By("ts") /\ ReadAnswers
  <2>1. history' = history
    BY <1>5 DEF ReadAnswers
  <2> QED
    BY <1>1, <1>2, <1>5, <2>1, ReadAnswersListed
<1>6. CASE By("ts") /\ ReadFails
  <2>1. history' = history
    BY <1>6 DEF ReadFails
  <2> QED
    BY <1>1, <1>2, <1>6, <2>1, ReadFailsListed
<1>7. CASE By("crate") /\ CrateAnswerBatch
  <2>1. history' = history
    BY <1>7 DEF CrateAnswerBatch
  <2> QED
    BY <1>1, <1>2, <1>7, <2>1, CrateAnswerBatchListed
<1>8. CASE By("crate") /\ CrateReadAnswers
  <2>1. history' = history
    BY <1>8 DEF CrateReadAnswers
  <2> QED
    BY <1>1, <1>2, <1>8, <2>1, CrateReadAnswersListed
<1>9. CASE ChainMoves
  BY <1>1, <1>9, ChainMovesListed
<1>10. CASE UNCHANGED vars
  <2>1. plan' = plan /\ history' = history /\ call' = call
    BY <1>10 DEF vars
  <2>2. Longer
    BY <2>1 DEF Longer
  <2>3. PICK pages, whole, got, asked :
           pages = call.pages /\ whole = call.whole /\ got = call.got /\ asked = NextPage(call.pages)
    OBVIOUS
  <2>4. Paged(pages, whole)' /\ ~PassesBy(pages)' /\ NextPage(pages)' = asked
    BY <2>1, <2>2, <2>3, HeardStays, SamePage DEF Listed
  <2>5. Paged(call.pages, call.whole)'
    BY <2>1, <2>3, <2>4 DEF Paged
  <2>6. ~PassesBy(call.pages)'
    BY <2>1, <2>3, <2>4 DEF PassesBy
  <2>7. NextPage(call.pages)' = asked
    <3>1. NextPage(call'.pages) = asked
      BY <2>1, <2>3, Zenon
    <3> QED
      BY <2>1, <3>1, PageThen, Zenon
  <2>8. ASSUME call.at = "reading", ~call.whole PROVE Half(call.got, NextPage(call.pages))'
    <3>1. Half(got, asked)
      BY <2>3, <2>8 DEF Listed
    <3>2. Half(got, asked)'
      BY <2>1, <2>2, <3>1, HeardStays
    <3> QED
      BY <2>1, <2>3, <2>7, <3>2 DEF Half
  <2>9. /\ call.at = "returned" => asked = <<>>
        /\ call.at = "reading" => asked # <<>>
    BY <2>3 DEF Listed
  <2>10. Listed'
    BY <2>1, <2>5, <2>6, <2>7, <2>8, <2>9 DEF Listed
  <2> QED
    BY <1>2, <2>1, <2>10
<1> QED
  BY <1>3, <1>4, <1>5, <1>6, <1>7, <1>8, <1>9, <1>10 DEF Next

LEMMA StepListInv == ListInv /\ [Next]_vars => ListInv'
<1> SUFFICES ASSUME ListInv, [Next]_vars PROVE ListInv'
  OBVIOUS
<1>1. IInv /\ IInv'
  BY StepIInv DEF ListInv
<1>2. plan' = plan
  BY DEF Next, vars, AnswerBatch, BatchFails, ReadAnswers, ReadFails, CrateAnswerBatch,
         CrateBatchFails, CrateReadAnswers, CrateReadFails, ChainMoves
<1>3. plan.kind \in Lists => Registries' /\ Listed'
  BY <1>1, StepLists DEF ListInv
<1> QED
  BY <1>1, <1>2, <1>3 DEF ListInv

LEMMA ListInvariant == Spec => []ListInv
<1> QED
  BY InitListInv, StepListInv, PTL DEF Spec

-----------------------------------------------------------------------------
(* A list that was returned: its pages.                                    *)

LEMMA MetadataHeard ==
    ASSUME NEW x, NEW a
    PROVE  /\ Heard(<<"symbol", x>>, a) => a = <<"symbol", x>>
           /\ Heard(<<"name", x>>, a) => a = <<"name", x>>
           /\ Heard(<<"decimals", x>>, a) => a = <<"decimals", x>>
           /\ Heard(<<"quoteInfo", x>>, a) =>
                  \E m \in DOMAIN history : a \in Range(history[m].quotes) /\ a.token = x
<1>1. ASSUME NEW name, name \in {"symbol", "name", "decimals"}, Heard(<<name, x>>, a)
      PROVE  a = <<name, x>>
  <2>1. PICK m \in DOMAIN history : HeardAt(history[m], <<name, x>>, a)
    <3>1. name \notin {"VERSION", "poolManager"}
      BY <1>1
    <3> QED
      BY <1>1, <3>1, HeardOf
  <2>2. a = Read(history[m], <<name, x>>)
    BY <2>1, Zenon DEF HeardAt
  <2>3. Read(history[m], <<name, x>>) = <<name, x>>
    <3>1. CASE name = "symbol"
      BY <3>1 DEF Read
    <3>2. CASE name = "name"
      BY <3>2 DEF Read
    <3>3. CASE name = "decimals"
      BY <3>3 DEF Read
    <3> QED
      BY <1>1, <3>1, <3>2, <3>3
  <2> QED
    BY <2>2, <2>3, Zenon
<1>2. ASSUME Heard(<<"quoteInfo", x>>, a)
      PROVE  \E m \in DOMAIN history : a \in Range(history[m].quotes) /\ a.token = x
  <2>1. PICK m \in DOMAIN history : HeardAt(history[m], <<"quoteInfo", x>>, a)
    BY <1>2, HeardOf
  <2>2. a \in Range(history[m].quotes) /\ a.token = x
    BY <2>1, RecordIs
  <2> QED
    BY <2>2
<1>3. Heard(<<"symbol", x>>, a) => a = <<"symbol", x>>
  BY <1>1
<1>4. Heard(<<"name", x>>, a) => a = <<"name", x>>
  BY <1>1
<1>5. Heard(<<"decimals", x>>, a) => a = <<"decimals", x>>
  BY <1>1
<1> QED
  BY <1>2, <1>3, <1>4, <1>5

\* The pages before a page, of a call whose list has been read.
LEMMA NthPage ==
    ASSUME WorldsKept, plan.kind \in Lists, InPages, NEW pages, NEW whole, Paged(pages, whole),
           NEW k \in 1 .. Len(pages)
    PROVE  \E before : /\ Len(before) = k - 1 /\ \A j \in 1 .. k - 1 : before[j] = pages[j]
                       /\ NextPage(before) # <<>> /\ Answered(NextPage(before), pages[k], whole)
<1>1. PICK before : /\ Len(before) = k - 1 /\ \A j \in 1 .. k - 1 : before[j] = pages[j]
                    /\ PageFits(before, pages[k], whole)
  BY PageIs
<1>2. ~PassesBy(before)
  BY FirstPagesAre
<1>3. NextPage(before) # <<>> /\ Answered(NextPage(before), pages[k], whole)
  BY <1>1, <1>2, Zenon DEF PageFits
<1> QED
  BY <1>1, <1>3

LEMMA FourEach ==
    ASSUME NEW S, NEW subjects \in Seq(S), NEW N, NEW names \in Seq(N), Len(names) = 4
    PROVE  Len(Each(subjects, names)) = 4 * Len(subjects)
<1>1. 4 \in Nat
  OBVIOUS
<1>2. /\ Each(subjects, names) \in Seq(N \X S) /\ Len(Each(subjects, names)) = 4 * Len(subjects)
      /\ Spread(Each(subjects, names), subjects, names, 4)
  BY <1>1, EachAt, Zenon
<1> QED
  BY <1>2

\* There are no entries, or all of them were asked for.
LEMMA AllAsked ==
    ASSUME WorldsKept, Registries, plan.kind \in Lists, InPages,
           NEW pages, NEW whole, Paged(pages, whole), NextPage(pages) = <<>>
    PROVE  /\ Counted(pages) /\ Len(pages) \in Nat \ {0, 2}
           /\ Len(pages) = 1 => pages[1][1] = 0
           /\ Len(pages) <= 4
           /\ plan.kind = "quotes" /\ (By("crate") \/ plan.batched) => Len(pages) <= 3
<1>0. PICK n \in Nat : n = Len(pages)
  BY DEF Paged
<1>1. Counted(pages)
  BY CountedIs
<1>2. Askable(NextPage(pages)) /\ Len(<<>>) = 0
  BY InPagesAskable
<1>3. Len(NextPage(pages)) = 0
  BY <1>2
<1>4. Len(pages) # 0
  <2> SUFFICES ASSUME Len(pages) = 0 PROVE FALSE
    OBVIOUS
  <2>1. NextPage(pages) = Keys(<<CountName>>)
    BY FirstPagesAre
  <2>2. Len(Keys(<<CountName>>)) = 1
    BY OneKey
  <2>3. 0 # 1
    OBVIOUS
  <2> QED
    BY <1>3, <2>1, <2>2, <2>3, Zenon
<1>5. ASSUME Len(pages) = 1 PROVE pages[1][1] = 0
  <2>1. PICK c : c = pages[1][1] /\ c \in Nat
    <3>1. 1 > 0
      OBVIOUS
    <3>2. Len(pages) > 0
      BY <1>5, <3>1, Zenon
    <3>3. PICK m \in DOMAIN history : pages[1][1] = Len(Entries(history[m]))
      BY <1>1, <3>2 DEF Counted
    <3> QED
      BY <3>3, EntriesAre
  <2>2. NextPage(pages) = Indexed(PlaceName, [i \in 1 .. c |-> i])
    BY <1>5, <2>1, FirstPagesAre
  <2>3. Len(Indexed(PlaceName, [i \in 1 .. c |-> i])) = c
    BY <2>1, PlacesAsked
  <2> QED
    BY <1>3, <2>1, <2>2, <2>3, Zenon
<1>6. Len(pages) # 2
  <2> SUFFICES ASSUME Len(pages) = 2 PROVE FALSE
    OBVIOUS
  <2>1. pages[2] \in Seq(Entry) /\ Len(pages[2]) # 0
    <3>1. 2 > 1 /\ 2 > 0
      OBVIOUS
    <3>2. Len(pages) > 1
      BY <3>1, Zenon
    <3> QED
      BY <1>1, <3>2 DEF Counted
  <2>2. PICK c \in Nat : c = Len(pages[2]) /\ c > 0
    BY <2>1
  <2>3. NextPage(pages) = IF plan.kind = "migrators" THEN Each(pages[2], MigratorReadNames)
                          ELSE IF By("crate")
                               THEN FlattenSeq([i \in DOMAIN pages[2] |-> EntryReads(pages[2][i])])
                          ELSE IF plan.batched THEN Indexed("quoteInfo", pages[2]) \o Metadata(pages[2])
                          ELSE Indexed("quoteInfo", pages[2])
    <3>1. Len(pages) \in Nat
      BY <1>0
    <3> QED
      BY <3>1, LaterPagesAre
  <2>4. Len(Each(pages[2], MigratorReadNames)) = 4 * c
    <3>1. Len(MigratorReadNames) = 4
      BY DEF MigratorReadNames
    <3>2. PICK N : MigratorReadNames \in Seq(N)
      <4>1. MigratorReadNames \in Seq({"taxModeOf", "routerOf", "VERSION", "poolManager"})
        BY DEF MigratorReadNames
      <4> QED
        BY <4>1
    <3>3. Len(Each(pages[2], MigratorReadNames)) = 4 * Len(pages[2])
      BY <2>1, <3>1, <3>2, FourEach
    <3> QED
      BY <2>2, <3>3
  <2>5. /\ Len(Indexed("quoteInfo", pages[2])) = c
        /\ Len(Indexed("quoteInfo", pages[2]) \o Metadata(pages[2])) = c + Len(Metadata(pages[2]))
        /\ Len(Metadata(pages[2])) \in Nat
    BY <2>1, <2>2, QuoteReads, Zenon
  <2>6. Len(FlattenSeq([i \in DOMAIN pages[2] |-> EntryReads(pages[2][i])])) >= c
    BY <2>1, <2>2, CrateQuoteReads, Zenon
  <2>7. 0 # 4 * c /\ ~(0 >= c) /\ 0 # c /\ \A k \in Nat : 0 # c + k
    BY <2>2
  <2> QED
    BY <1>3, <2>3, <2>4, <2>5, <2>6, <2>7, Zenon
<1>7. ASSUME n > 4 PROVE FALSE
  <2>1. 5 \in 1 .. n /\ 5 - 1 = 4 /\ 4 > 3 /\ 4 \in Nat
    BY <1>7
  <2>2. PICK before : Len(before) = 4 /\ NextPage(before) # <<>>
    <3>1. PICK k \in 1 .. Len(pages) : k = 5
      BY <1>0, <2>1, Zenon
    <3>2. k - 1 = 4
      BY <3>1
    <3>3. \E before : /\ Len(before) = k - 1 /\ \A j \in 1 .. k - 1 : before[j] = pages[j]
                      /\ NextPage(before) # <<>> /\ Answered(NextPage(before), pages[k], whole)
      BY NthPage
    <3> QED
      BY <3>2, <3>3, Zenon
  <2>3. NextPage(before) = <<>>
    <3>1. Len(before) > 3 /\ Len(before) \in Nat
      BY <2>1, <2>2, Zenon
    <3> QED
      BY <3>1, LaterPagesAre
  <2> QED
    BY <2>2, <2>3
<1>8. ASSUME n > 3, plan.kind = "quotes", By("crate") \/ plan.batched PROVE FALSE
  <2>1. 4 \in 1 .. n /\ 4 - 1 = 3 /\ 3 \in Nat
    BY <1>8
  <2>2. PICK before : Len(before) = 3 /\ NextPage(before) # <<>>
    <3>1. PICK k \in 1 .. Len(pages) : k = 4
      BY <1>0, <2>1, Zenon
    <3>2. k - 1 = 3
      BY <3>1
    <3>3. \E before : /\ Len(before) = k - 1 /\ \A j \in 1 .. k - 1 : before[j] = pages[j]
                      /\ NextPage(before) # <<>> /\ Answered(NextPage(before), pages[k], whole)
      BY NthPage
    <3> QED
      BY <3>2, <3>3, Zenon
  <2>3. NextPage(before) = <<>>
    <3>1. Len(before) = 3 /\ Len(before) \in Nat /\ plan.kind # "migrators"
      BY <1>8, <2>1, <2>2, Zenon
    <3> QED
      BY <1>8, <3>1, LaterPagesAre
  <2> QED
    BY <2>2, <2>3
<1>9. Len(pages) <= 4 /\ (plan.kind = "quotes" /\ (By("crate") \/ plan.batched) => Len(pages) <= 3)
  <2>1. n <= 4 /\ (plan.kind = "quotes" /\ (By("crate") \/ plan.batched) => n <= 3)
    BY <1>7, <1>8
  <2> QED
    BY <1>0, <2>1, Zenon
<1> QED
  BY <1>0, <1>1, <1>4, <1>5, <1>6, <1>9

LEMMA ConcatIs ==
    ASSUME NEW n \in Nat, NEW k \in Nat, NEW a, NEW b,
           a = [i \in 1 .. n |-> a[i]], b = [i \in 1 .. k |-> b[i]]
    PROVE  /\ Len(a \o b) = n + k
           /\ \A i \in 1 .. n : (a \o b)[i] = a[i]
           /\ \A i \in 1 .. k : (a \o b)[n + i] = b[i]
<1> DEFINE S == Range(a) \cup Range(b)
<1>1. a \in Seq(Range(a)) /\ Len(a) = n /\ b \in Seq(Range(b)) /\ Len(b) = k
  BY IsSequence
<1>2. a \in Seq(S) /\ b \in Seq(S)
  BY <1>1, SeqMonotonic
<1> HIDE DEF S
<1>3. /\ Len(a \o b) = n + k
      /\ \A i \in 1 .. n + k : (a \o b)[i] = IF i <= n THEN a[i] ELSE b[i - n]
  BY <1>1, <1>2, ConcatProperties
<1>4. \A i \in 1 .. n : i \in 1 .. n + k /\ i <= n
  OBVIOUS
<1>5. \A i \in 1 .. k : n + i \in 1 .. n + k /\ ~(n + i <= n) /\ (n + i) - n = i
  OBVIOUS
<1>6. \A i \in 1 .. n : (a \o b)[i] = a[i]
  BY <1>3, <1>4
<1>7. \A i \in 1 .. k : (a \o b)[n + i] = b[i]
  BY <1>3, <1>5
<1> QED
  BY <1>3, <1>6, <1>7

\* The second page has the entries of some moment, in their order.
LEMMA Listing ==
    ASSUME WorldsKept, Registries, plan.kind \in Lists, NEW pages, Counted(pages),
           Len(pages) \in Nat, Len(pages) > 1
    PROVE  \E m \in DOMAIN history :
               /\ Len(pages[2]) = Len(Entries(history[m]))
               /\ \A i \in 1 .. Len(pages[2]) : pages[2][i] = Entries(history[m])[i]
<1>1. Len(pages) > 0
  OBVIOUS
<1>2. PICK m \in DOMAIN history : pages[1][1] = Len(Entries(history[m]))
  BY <1>1 DEF Counted
<1>3. /\ Len(pages[2]) = pages[1][1]
      /\ \A i \in 1 .. pages[1][1] : \E k \in DOMAIN history :
             i \in DOMAIN Entries(history[k]) /\ pages[2][i] = Entries(history[k])[i]
  BY DEF Counted
<1>4. /\ DOMAIN Entries(history[m]) = 1 .. Len(Entries(history[m]))
      /\ \A i \in DOMAIN Entries(history[m]) : Entries(World)[i] = Entries(history[m])[i]
  BY EntriesAre
<1>5. ASSUME NEW i \in 1 .. Len(pages[2]) PROVE pages[2][i] = Entries(history[m])[i]
  <2>1. PICK k \in DOMAIN history :
           i \in DOMAIN Entries(history[k]) /\ pages[2][i] = Entries(history[k])[i]
    BY <1>3
  <2>2. Entries(World)[i] = Entries(history[k])[i]
    BY <2>1, EntriesAre
  <2>3. i \in DOMAIN Entries(history[m])
    BY <1>2, <1>3, <1>4
  <2> QED
    BY <1>4, <2>1, <2>2, <2>3
<1> QED
  BY <1>2, <1>3, <1>5

\* What was answered for each of the entries, in the TypeScript SDK's list.
LEMMA TsResults ==
    ASSUME ListInv, plan.kind = "quotes", By("ts"), call.at = "returned", Len(call.pages) > 1
    PROVE  LET quotes == call.pages[2]
               all == Indexed("quoteInfo", quotes) \o Metadata(quotes)
           IN  /\ quotes \in Seq(Tokens)
               /\ \A i \in 1 .. Len(all) : Heard(all[i], Results[i])
               /\ call.whole => \E m \in DOMAIN history :
                                    \A i \in 1 .. Len(quotes) : HeardAt(history[m], all[i], Results[i])
<1> DEFINE quotes == call.pages[2]
           infos == Indexed("quoteInfo", quotes)
           rest == Metadata(quotes)
           all == infos \o rest
<1>1. WorldsKept /\ Registries /\ Listed /\ plan.kind \in Lists /\ InPages /\ ~By("crate")
  BY ListPlan DEF ListInv, IInv, Lists, InPages
<1>2. PICK pages, whole : pages = call.pages /\ whole = call.whole
  OBVIOUS
<1>3. Paged(pages, whole) /\ NextPage(pages) = <<>>
  BY <1>1, <1>2 DEF Listed
<1>4. /\ Counted(pages) /\ Len(pages) \in Nat \ {0, 2} /\ Len(pages) <= 4
      /\ plan.batched => Len(pages) <= 3
  BY <1>1, <1>3, AllAsked
<1>5. PICK n : n = Len(pages) /\ n \in {3, 4} /\ (plan.batched => n = 3)
  <2>1. PICK n : n = Len(pages)
    OBVIOUS
  <2>2. n \in Nat \ {0, 2} /\ n <= 4 /\ (plan.batched => n <= 3) /\ n > 1
    BY <1>2, <1>4, <2>1, Zenon
  <2>3. n \in {3, 4} /\ (plan.batched => n = 3)
    BY <2>2
  <2> QED
    BY <2>1, <2>3
<1>6. quotes = pages[2] /\ quotes \in Seq(Tokens)
  <2>1. Entry = Tokens
    BY DEF Entry
  <2> QED
    BY <1>2, <1>4, <2>1 DEF Counted
<1> HIDE DEF quotes
<1>7. PICK P : /\ infos \in Seq(P) /\ rest \in Seq(P) /\ all \in Seq(P)
               /\ Len(infos) = Len(quotes) /\ Len(all) = Len(quotes) + Len(rest)
               /\ \A i \in 1 .. Len(quotes) : all[i] = infos[i]
               /\ \A i \in 1 .. Len(rest) : all[Len(quotes) + i] = rest[i]
  BY <1>6, QuoteReads, Zenon
<1> HIDE DEF infos, rest, all
<1>8. PICK q \in Nat, r \in Nat :
         /\ q = Len(quotes) /\ r = Len(rest) /\ q + r = Len(all) /\ q = Len(infos)
         /\ DOMAIN infos = 1 .. q /\ DOMAIN rest = 1 .. r /\ DOMAIN all = 1 .. q + r
  <2>1. /\ Len(quotes) \in Nat /\ Len(rest) \in Nat
        /\ DOMAIN infos = 1 .. Len(infos) /\ DOMAIN rest = 1 .. Len(rest) /\ DOMAIN all = 1 .. Len(all)
    BY <1>6, <1>7
  <2> QED
    BY <1>7, <2>1, Zenon
<1>9. PICK before : /\ Len(before) = 2 /\ before[2] = pages[2]
                    /\ NextPage(before) # <<>> /\ Answered(NextPage(before), pages[3], whole)
  <2>1. PICK k \in 1 .. Len(pages) : k = 3
    BY <1>5
  <2>2. k - 1 = 2 /\ 2 \in 1 .. k - 1
    BY <2>1
  <2>3. \E before : /\ Len(before) = k - 1 /\ \A j \in 1 .. k - 1 : before[j] = pages[j]
                    /\ NextPage(before) # <<>> /\ Answered(NextPage(before), pages[k], whole)
    BY <1>1, <1>3, NthPage
  <2> QED
    BY <2>1, <2>2, <2>3, Zenon
<1>10. NextPage(before) = IF plan.batched THEN all ELSE infos
  <2>1. Len(before) = 2 /\ Len(before) \in Nat
    <3>1. 2 \in Nat
      OBVIOUS
    <3> QED
      BY <1>9, <3>1, Zenon
  <2>2. NextPage(before) = IF plan.batched THEN Indexed("quoteInfo", before[2]) \o Metadata(before[2])
                           ELSE Indexed("quoteInfo", before[2])
    BY <1>1, <2>1, LaterPagesAre
  <2> QED
    BY <1>6, <1>9, <2>2, Zenon DEF all, infos, rest
<1>11. CASE plan.batched
  <2>1. Answered(all, pages[3], whole)
    BY <1>9, <1>10, <1>11, Zenon
  <2>2. Len(all) \in Nat /\ DOMAIN all = 1 .. Len(all)
    BY <1>8
  <2>3. /\ \A i \in 1 .. Len(all) : Heard(all[i], pages[3][i])
        /\ whole => \E m \in DOMAIN history :
                        \A i \in 1 .. Len(all) : HeardAt(history[m], all[i], pages[3][i])
    BY <2>1, <2>2, AnsweredIs
  <2>4. Results = pages[3]
    BY <1>2, <1>5, <1>11, Zenon DEF Results
  <2>5. 1 .. Len(quotes) \subseteq 1 .. Len(all)
    BY <1>8
  <2>6. \A i \in 1 .. Len(all) : Heard(all[i], Results[i])
    BY <2>3, <2>4, Zenon
  <2>7. whole => \E m \in DOMAIN history :
                     \A i \in 1 .. Len(quotes) : HeardAt(history[m], all[i], Results[i])
    BY <2>3, <2>4, <2>5, Zenon
  <2> QED
    BY <1>2, <1>6, <2>6, <2>7, Zenon DEF all, infos, rest, quotes
<1>12. CASE ~plan.batched
  <2>1. Answered(infos, pages[3], whole)
    BY <1>9, <1>10, <1>12, Zenon
  <2>2. Len(infos) \in Nat /\ DOMAIN infos = 1 .. Len(infos)
    BY <1>8
  <2>3. /\ \A i \in 1 .. Len(infos) : Heard(infos[i], pages[3][i])
        /\ whole => \E m \in DOMAIN history :
                        \A i \in 1 .. Len(infos) : HeardAt(history[m], infos[i], pages[3][i])
        /\ pages[3] = [i \in 1 .. Len(infos) |-> pages[3][i]]
    BY <2>1, <2>2, AnsweredIs
  <2>4. /\ \A i \in 1 .. q : Heard(all[i], pages[3][i])
        /\ whole => \E m \in DOMAIN history :
                        \A i \in 1 .. q : HeardAt(history[m], all[i], pages[3][i])
        /\ pages[3] = [i \in 1 .. q |-> pages[3][i]]
    BY <1>7, <1>8, <2>3, Zenon
  <2>5. /\ \A i \in 1 .. q : Results[i] = pages[3][i]
        /\ \A i \in 1 .. r : Heard(rest[i], Results[q + i])
    <3>1. CASE n = 3
      <4>1. Results = pages[3]
        BY <1>2, <1>5, <3>1, Zenon DEF Results
      <4>2. NextPage(pages) = rest
        <5>1. Len(pages) = 3 /\ Len(pages) \in Nat /\ plan.kind # "migrators"
          BY <1>4, <1>5, <3>1
        <5>2. NextPage(pages) = Metadata(pages[2])
          BY <1>1, <1>12, <5>1, LaterPagesAre
        <5> QED
          BY <1>6, <5>2, Zenon DEF rest
      <4>3. r = 0
        BY <1>3, <1>8, <4>2
      <4> QED
        BY <4>1, <4>3
    <3>2. CASE n = 4
      <4>1. PICK then : /\ Len(then) = 3 /\ then[2] = pages[2]
                        /\ NextPage(then) # <<>> /\ Answered(NextPage(then), pages[4], whole)
        <5>1. PICK k \in 1 .. Len(pages) : k = 4
          BY <1>5, <3>2
        <5>2. k - 1 = 3 /\ 2 \in 1 .. k - 1
          BY <5>1
        <5>3. \E then : /\ Len(then) = k - 1 /\ \A j \in 1 .. k - 1 : then[j] = pages[j]
                        /\ NextPage(then) # <<>> /\ Answered(NextPage(then), pages[k], whole)
          BY <1>1, <1>3, NthPage
        <5> QED
          BY <5>1, <5>2, <5>3, Zenon
      <4>2. NextPage(then) = rest
        <5>1. Len(then) = 3 /\ Len(then) \in Nat /\ plan.kind # "migrators"
          <6>1. 3 \in Nat
            OBVIOUS
          <6> QED
            BY <4>1, <6>1, Zenon
        <5>2. NextPage(then) = Metadata(then[2])
          BY <1>1, <1>12, <5>1, LaterPagesAre
        <5> QED
          BY <1>6, <4>1, <5>2, Zenon DEF rest
      <4>3. Answered(rest, pages[4], whole) /\ Len(rest) \in Nat /\ DOMAIN rest = 1 .. Len(rest)
        BY <1>8, <4>1, <4>2, Zenon
      <4>4. /\ \A i \in 1 .. Len(rest) : Heard(rest[i], pages[4][i])
            /\ pages[4] = [i \in 1 .. Len(rest) |-> pages[4][i]]
        BY <4>3, AnsweredIs
      <4>5. Results = pages[3] \o pages[4]
        <5>1. 4 # 3
          OBVIOUS
        <5> QED
          BY <1>2, <1>5, <3>2, <5>1, Zenon DEF Results
      <4>6. PICK a, b : a = pages[3] /\ b = pages[4]
        OBVIOUS
      <4>7. a = [i \in 1 .. q |-> a[i]] /\ b = [i \in 1 .. r |-> b[i]]
        BY <1>8, <2>4, <4>4, <4>6, Zenon
      <4>8. /\ \A i \in 1 .. q : (a \o b)[i] = a[i]
            /\ \A i \in 1 .. r : (a \o b)[q + i] = b[i]
        BY <4>7, ConcatIs
      <4> QED
        BY <1>8, <4>4, <4>5, <4>6, <4>8, Zenon
    <3> QED
      BY <1>5, <3>1, <3>2
  <2>6. ASSUME NEW i \in 1 .. q + r PROVE Heard(all[i], Results[i])
    <3>1. CASE i \in 1 .. q
      BY <2>4, <2>5, <3>1, Zenon
    <3>2. CASE i \notin 1 .. q
      <4>1. PICK j \in 1 .. r : i = q + j
        <5>1. (i - q) \in 1 .. r /\ i = q + (i - q)
          BY <3>2
        <5> QED
          BY <5>1
      <4>2. Heard(rest[j], Results[q + j]) /\ all[q + j] = rest[j]
        BY <1>7, <1>8, <2>5, Zenon
      <4> QED
        BY <4>1, <4>2, Zenon
    <3> QED
      BY <3>1, <3>2
  <2>7. whole => \E m \in DOMAIN history : \A i \in 1 .. q : HeardAt(history[m], all[i], Results[i])
    BY <2>4, <2>5, Zenon
  <2> QED
    BY <1>2, <1>6, <1>8, <2>6, <2>7, Zenon DEF all, infos, rest, quotes
<1> QED
  BY <1>11, <1>12

\* The entries, and what was heard of each.
EntriesTold(told, quotes) ==
    /\ told = [i \in 1 .. Len(quotes) |-> told[i]]
    /\ \A i \in 1 .. Len(quotes) :
           /\ told[i].token = quotes[i]
           /\ told[i].symbol = <<"symbol", quotes[i]>>
           /\ told[i].name = <<"name", quotes[i]>>
           /\ By("crate") => told[i].decimals = <<"decimals", quotes[i]>>
           /\ Heard(<<"quoteInfo", quotes[i]>>, told[i].record)
    /\ call.whole => \E m \in DOMAIN history :
           \A i \in 1 .. Len(quotes) : HeardAt(history[m], <<"quoteInfo", quotes[i]>>, told[i].record)

LEMMA TsEntries ==
    ASSUME ListInv, plan.kind = "quotes", By("ts"), call.at = "returned", Len(call.pages) \in Nat,
           Len(call.pages) > 2
    PROVE  EntriesTold(Quotes, call.pages[2])
<1> DEFINE all == Indexed("quoteInfo", call.pages[2]) \o Metadata(call.pages[2])
<1>1. PICK quotes \in Seq(Tokens) : quotes = call.pages[2]
  <2>1. Len(call.pages) > 1
    OBVIOUS
  <2> QED
    BY <2>1, TsResults
<1>2. /\ \A i \in 1 .. Len(all) : Heard(all[i], Results[i])
      /\ call.whole => \E m \in DOMAIN history :
                           \A i \in 1 .. Len(quotes) : HeardAt(history[m], all[i], Results[i])
  <2>1. Len(call.pages) > 1
    OBVIOUS
  <2>2. /\ \A i \in 1 .. Len(all) : Heard(all[i], Results[i])
        /\ call.whole => \E m \in DOMAIN history :
                             \A i \in 1 .. Len(call.pages[2]) : HeardAt(history[m], all[i], Results[i])
    BY <2>1, TsResults, Zenon
  <2> QED
    BY <1>1, <2>2, Zenon
<1>3. all = Indexed("quoteInfo", quotes) \o Metadata(quotes)
  BY <1>1
<1> HIDE DEF all
<1>4. PICK infos, rest : infos = Indexed("quoteInfo", quotes) /\ rest = Metadata(quotes)
  OBVIOUS
<1>5. PICK unlisted : unlisted = Unlisted(quotes)
  OBVIOUS
<1>6. /\ Len(all) = Len(quotes) + Len(rest) /\ Len(quotes) \in Nat /\ Len(rest) \in Nat
      /\ \A i \in 1 .. Len(quotes) : infos[i] = <<"quoteInfo", quotes[i]>>
      /\ \A i \in 1 .. Len(quotes) : all[i] = infos[i]
      /\ \A i \in 1 .. Len(rest) : all[Len(quotes) + i] = rest[i]
      /\ \A k \in 1 .. Len(unlisted) :
             /\ 2 * (k - 1) + 1 \in 1 .. Len(rest) /\ 2 * (k - 1) + 2 \in 1 .. Len(rest)
             /\ rest[2 * (k - 1) + 1] = <<"symbol", unlisted[k]>>
             /\ rest[2 * (k - 1) + 2] = <<"name", unlisted[k]>>
  BY <1>3, <1>4, <1>5, QuoteReads, Zenon
<1>7. PICK n \in Nat : n = Len(quotes) /\ DOMAIN quotes = 1 .. n
  OBVIOUS
<1>8. Quotes = [i \in 1 .. n |-> QuoteEntry(i)]
  <2>1. ~(Len(call.pages) < 3)
    OBVIOUS
  <2>2. DOMAIN call.pages[2] = 1 .. n
    BY <1>1, <1>7, Zenon
  <2> QED
    BY <2>1, <2>2, Zenon DEF Quotes
<1>9. ASSUME NEW i \in 1 .. n
      PROVE  /\ Quotes[i].token = quotes[i]
             /\ Quotes[i].symbol = <<"symbol", quotes[i]>>
             /\ Quotes[i].name = <<"name", quotes[i]>>
             /\ Heard(<<"quoteInfo", quotes[i]>>, Quotes[i].record)
             /\ Quotes[i].record = Results[i] /\ all[i] = <<"quoteInfo", quotes[i]>>
  <2>1. PICK q : q = quotes[i] /\ q \in Tokens
    BY <1>7
  <2>2. PICK at : at = MetadataAt(quotes, q)
    OBVIOUS
  <2>3. Quotes[i] = [ token |-> q,
                      symbol |-> IF q \in ListedTokens THEN <<"symbol", q>> ELSE Results[at],
                      name |-> IF q \in ListedTokens THEN <<"name", q>> ELSE Results[at + 1],
                      record |-> Results[i] ]
    <3>1. QuoteEntry(i) = [ token |-> q,
                      symbol |-> IF q \in ListedTokens THEN <<"symbol", q>> ELSE Results[at],
                      name |-> IF q \in ListedTokens THEN <<"name", q>> ELSE Results[at + 1],
                      record |-> Results[i] ]
      BY <1>1, <2>1, <2>2, Zenon DEF QuoteEntry
    <3> QED
      BY <1>8, <3>1
  <2>4. all[i] = <<"quoteInfo", q>>
    BY <1>6, <1>7, <2>1
  <2>5. Heard(<<"quoteInfo", q>>, Results[i])
    <3>1. i \in 1 .. Len(all)
      BY <1>6, <1>7
    <3> QED
      BY <1>2, <2>4, <3>1, Zenon
  <2>6. ASSUME q \notin ListedTokens
        PROVE  Results[at] = <<"symbol", q>> /\ Results[at + 1] = <<"name", q>>
    <3>1. unlisted \in Seq(Tokens) /\ \E j \in 1 .. Len(unlisted) : unlisted[j] = q
      <4>1. /\ unlisted \in Seq(Tokens)
            /\ \A k \in 1 .. Len(quotes) : quotes[k] \notin ListedTokens =>
                   \E j \in 1 .. Len(unlisted) : unlisted[j] = quotes[k]
        BY <1>5, UnlistedIs
      <4> QED
        BY <1>7, <2>1, <2>6, <4>1
    <3>2. PICK k : k = SelectInSeq(unlisted, LAMBDA u : u = q)
      OBVIOUS
    <3>3. k \in 1 .. Len(unlisted) /\ unlisted[k] = q
      BY <3>1, <3>2, FoundAt
    <3>4. at = n + 2 * (k - 1) + 1
      BY <1>5, <1>7, <2>2, <3>2 DEF MetadataAt
    <3>5. /\ 2 * (k - 1) + 1 \in 1 .. Len(rest) /\ 2 * (k - 1) + 2 \in 1 .. Len(rest)
          /\ rest[2 * (k - 1) + 1] = <<"symbol", q>> /\ rest[2 * (k - 1) + 2] = <<"name", q>>
      BY <1>6, <3>3, Zenon
    <3>6. PICK l \in Nat : l = 2 * (k - 1)
      BY <3>1, <3>3
    <3>7. /\ at = n + (l + 1) /\ at + 1 = n + (l + 2) /\ l + 1 \in 1 .. Len(rest) /\ l + 2 \in 1 .. Len(rest)
          /\ rest[l + 1] = <<"symbol", q>> /\ rest[l + 2] = <<"name", q>>
      <4>1. at = n + (l + 1) /\ at + 1 = n + (l + 2)
        <5>1. at = n + l + 1
          BY <3>4, <3>6, Zenon
        <5> QED
          BY <5>1
      <4>2. l + 1 \in 1 .. Len(rest) /\ rest[l + 1] = <<"symbol", q>>
        BY <3>5, <3>6, Zenon
      <4>3. l + 2 \in 1 .. Len(rest) /\ rest[l + 2] = <<"name", q>>
        BY <3>5, <3>6, Zenon
      <4> QED
        BY <4>1, <4>2, <4>3
    <3>8. /\ at \in 1 .. Len(all) /\ at + 1 \in 1 .. Len(all)
          /\ all[at] = <<"symbol", q>> /\ all[at + 1] = <<"name", q>>
      <4>1. at \in 1 .. Len(all) /\ at + 1 \in 1 .. Len(all)
        BY <1>6, <1>7, <3>7
      <4>2. all[n + (l + 1)] = rest[l + 1] /\ all[n + (l + 2)] = rest[l + 2]
        BY <1>6, <1>7, <3>7, Zenon
      <4> QED
        BY <3>7, <4>1, <4>2, Zenon
    <3>9. Heard(<<"symbol", q>>, Results[at]) /\ Heard(<<"name", q>>, Results[at + 1])
      BY <1>2, <3>8, Zenon
    <3> QED
      BY <3>9, MetadataHeard, Zenon
  <2> QED
    BY <2>1, <2>3, <2>4, <2>5, <2>6
<1>10. ~By("crate")
  BY DEF By
<1>11. call.whole => \E m \in DOMAIN history :
           \A i \in 1 .. n : HeardAt(history[m], <<"quoteInfo", quotes[i]>>, Quotes[i].record)
  BY <1>2, <1>7, <1>9, Zenon
<1>12. Quotes = [i \in 1 .. n |-> Quotes[i]]
  BY <1>8
<1> QED
  BY <1>1, <1>7, <1>9, <1>10, <1>11, <1>12, Zenon DEF EntriesTold

\* The crate's third page is asked of the second.
LEMMA CrateResults ==
    ASSUME ListInv, plan.kind = "quotes", By("crate"), call.at = "returned", Len(call.pages) \in Nat,
           Len(call.pages) > 2
    PROVE  LET quotes == call.pages[2]
               all == FlattenSeq([i \in DOMAIN quotes |-> EntryReads(quotes[i])])
           IN  /\ quotes \in Seq(Tokens)
               /\ \A i \in 1 .. Len(all) : Heard(all[i], call.pages[3][i])
               /\ call.whole => \E m \in DOMAIN history :
                                    \A i \in 1 .. Len(all) : HeardAt(history[m], all[i], call.pages[3][i])
<1>1. WorldsKept /\ Registries /\ Listed /\ plan.kind \in Lists /\ InPages
  BY DEF ListInv, IInv, Lists, InPages
<1>2. PICK pages, whole : pages = call.pages /\ whole = call.whole
  OBVIOUS
<1>3. Paged(pages, whole) /\ NextPage(pages) = <<>>
  BY <1>1, <1>2 DEF Listed
<1>4. Counted(pages)
  BY <1>1, <1>3, AllAsked
<1>5. PICK n \in Nat : n = Len(pages) /\ n > 2
  BY <1>2
<1>6. pages[2] \in Seq(Tokens)
  <2>1. Entry = Tokens
    BY DEF Entry
  <2>2. Len(pages) > 1
    BY <1>5
  <2> QED
    BY <1>4, <2>1, <2>2 DEF Counted
<1>7. PICK before : /\ Len(before) = 2 /\ before[2] = pages[2]
                    /\ NextPage(before) # <<>> /\ Answered(NextPage(before), pages[3], whole)
  <2>1. PICK k \in 1 .. Len(pages) : k = 3
    BY <1>5
  <2>2. k - 1 = 2 /\ 2 \in 1 .. k - 1
    BY <2>1
  <2>3. \E before : /\ Len(before) = k - 1 /\ \A j \in 1 .. k - 1 : before[j] = pages[j]
                    /\ NextPage(before) # <<>> /\ Answered(NextPage(before), pages[k], whole)
    BY <1>1, <1>3, NthPage
  <2> QED
    BY <2>1, <2>2, <2>3, Zenon
<1>8. PICK all : all = FlattenSeq([i \in DOMAIN pages[2] |-> EntryReads(pages[2][i])])
  OBVIOUS
<1>9. NextPage(before) = all
  <2>1. Len(before) = 2 /\ Len(before) \in Nat /\ plan.kind # "migrators"
    <3>1. 2 \in Nat /\ "quotes" # "migrators"
      OBVIOUS
    <3> QED
      BY <1>7, <3>1, Zenon
  <2>2. NextPage(before) = FlattenSeq([i \in DOMAIN before[2] |-> EntryReads(before[2][i])])
    BY <1>1, <2>1, LaterPagesAre
  <2> QED
    BY <1>7, <1>8, <2>2, Zenon
<1>10. Len(all) \in Nat /\ DOMAIN all = 1 .. Len(all)
  <2>1. \E P : all \in Seq(P)
    <3>1. PICK quotes \in Seq(Tokens) : quotes = pages[2]
      BY <1>6
    <3>2. all = FlattenSeq([i \in DOMAIN quotes |-> EntryReads(quotes[i])])
      BY <1>8, <3>1, Zenon
    <3>3. FlattenSeq([i \in DOMAIN quotes |-> EntryReads(quotes[i])])
             \in Seq({"quoteInfo", "symbol", "name", "decimals"} \X Tokens)
      BY CrateQuoteReads, Zenon
    <3> QED
      BY <3>2, <3>3, Zenon
  <2> QED
    BY <2>1
<1>11. Answered(all, pages[3], whole)
  BY <1>7, <1>9, Zenon
<1>12. /\ \A i \in 1 .. Len(all) : Heard(all[i], pages[3][i])
       /\ whole => \E m \in DOMAIN history :
                       \A i \in 1 .. Len(all) : HeardAt(history[m], all[i], pages[3][i])
  BY <1>10, <1>11, AnsweredIs
<1> QED
  BY <1>2, <1>6, <1>8, <1>12, Zenon

LEMMA CrateEntries ==
    ASSUME ListInv, plan.kind = "quotes", By("crate"), call.at = "returned", Len(call.pages) \in Nat,
           Len(call.pages) > 2
    PROVE  EntriesTold(CrateQuotes, call.pages[2])
<1>1. PICK quotes \in Seq(Tokens) : quotes = call.pages[2]
  BY CrateResults
<1>2. PICK all : all = FlattenSeq([i \in DOMAIN quotes |-> EntryReads(quotes[i])])
  OBVIOUS
<1>3. PICK page : page = call.pages[3]
  OBVIOUS
<1>4. /\ \A i \in 1 .. Len(all) : Heard(all[i], page[i])
      /\ call.whole => \E m \in DOMAIN history :
                           \A i \in 1 .. Len(all) : HeardAt(history[m], all[i], page[i])
  BY <1>1, <1>2, <1>3, CrateResults, Zenon
<1>5. \A i \in 1 .. Len(quotes) :
          LET at == AnswersAt(quotes, i)
          IN  /\ at \in Nat /\ at \in 1 .. Len(all) /\ all[at] = <<"quoteInfo", quotes[i]>>
              /\ quotes[i] \notin ListedTokens =>
                    /\ {at + 1, at + 2, at + 3} \subseteq 1 .. Len(all)
                    /\ all[at + 1] = <<"symbol", quotes[i]>>
                    /\ all[at + 2] = <<"name", quotes[i]>>
                    /\ all[at + 3] = <<"decimals", quotes[i]>>
  BY <1>2, CrateQuoteReads, Zenon
<1>6. PICK n \in Nat : n = Len(quotes) /\ DOMAIN quotes = 1 .. n
  OBVIOUS
<1>7. CrateQuotes = [i \in 1 .. n |-> CrateQuoteEntry(i)]
  <2>1. ~(Len(call.pages) < 3)
    OBVIOUS
  <2>2. DOMAIN call.pages[2] = 1 .. n
    BY <1>1, <1>6, Zenon
  <2> QED
    BY <2>1, <2>2, Zenon DEF CrateQuotes
<1>8. ASSUME NEW i \in 1 .. n
      PROVE  /\ CrateQuotes[i].token = quotes[i]
             /\ CrateQuotes[i].symbol = <<"symbol", quotes[i]>>
             /\ CrateQuotes[i].name = <<"name", quotes[i]>>
             /\ CrateQuotes[i].decimals = <<"decimals", quotes[i]>>
             /\ Heard(<<"quoteInfo", quotes[i]>>, CrateQuotes[i].record)
             /\ AnswersAt(quotes, i) \in 1 .. Len(all)
             /\ CrateQuotes[i].record = page[AnswersAt(quotes, i)]
             /\ all[AnswersAt(quotes, i)] = <<"quoteInfo", quotes[i]>>
  <2>1. PICK q, at : q = quotes[i] /\ at = AnswersAt(quotes, i)
    OBVIOUS
  <2>2. CrateQuotes[i] =
           [ token |-> q,
             symbol |-> IF q \in ListedTokens THEN <<"symbol", q>> ELSE page[at + 1],
             name |-> IF q \in ListedTokens THEN <<"name", q>> ELSE page[at + 2],
             decimals |-> IF q \in ListedTokens THEN <<"decimals", q>> ELSE page[at + 3],
             record |-> page[at] ]
    <3>1. CrateQuoteEntry(i) =
           [ token |-> q,
             symbol |-> IF q \in ListedTokens THEN <<"symbol", q>> ELSE page[at + 1],
             name |-> IF q \in ListedTokens THEN <<"name", q>> ELSE page[at + 2],
             decimals |-> IF q \in ListedTokens THEN <<"decimals", q>> ELSE page[at + 3],
             record |-> page[at] ]
      BY <1>1, <1>3, <2>1, Zenon DEF CrateQuoteEntry
    <3> QED
      BY <1>7, <3>1
  <2>3. /\ at \in 1 .. Len(all) /\ all[at] = <<"quoteInfo", q>>
        /\ q \notin ListedTokens =>
              /\ at + 1 \in 1 .. Len(all) /\ at + 2 \in 1 .. Len(all) /\ at + 3 \in 1 .. Len(all)
              /\ all[at + 1] = <<"symbol", q>> /\ all[at + 2] = <<"name", q>>
              /\ all[at + 3] = <<"decimals", q>>
    BY <1>5, <1>6, <2>1
  <2>4. Heard(<<"quoteInfo", q>>, page[at])
    BY <1>4, <2>3, Zenon
  <2>5. ASSUME q \notin ListedTokens
        PROVE  page[at + 1] = <<"symbol", q>> /\ page[at + 2] = <<"name", q>> /\ page[at + 3] = <<"decimals", q>>
    <3>1. /\ Heard(<<"symbol", q>>, page[at + 1]) /\ Heard(<<"name", q>>, page[at + 2])
          /\ Heard(<<"decimals", q>>, page[at + 3])
      BY <1>4, <2>3, <2>5, Zenon
    <3>2. page[at + 1] = <<"symbol", q>>
      BY <3>1, MetadataHeard, Zenon
    <3>3. page[at + 2] = <<"name", q>>
      BY <3>1, MetadataHeard, Zenon
    <3>4. page[at + 3] = <<"decimals", q>>
      <4>1. PICK a : a = page[at + 3]
        OBVIOUS
      <4>2. Heard(<<"decimals", q>>, a)
        BY <3>1, <4>1, Zenon
      <4>3. a = <<"decimals", q>>
        BY <4>2, MetadataHeard
      <4> QED
        BY <4>1, <4>3, Zenon
    <3> QED
      BY <3>2, <3>3, <3>4
  <2> QED
    BY <2>1, <2>2, <2>3, <2>4, <2>5, SMTT(20)
<1>9. ASSUME call.whole
      PROVE  \E m \in DOMAIN history :
                 \A i \in 1 .. n : HeardAt(history[m], <<"quoteInfo", quotes[i]>>, CrateQuotes[i].record)
  <2>1. PICK m \in DOMAIN history : \A i \in 1 .. Len(all) : HeardAt(history[m], all[i], page[i])
    BY <1>4, <1>9
  <2>2. \A i \in 1 .. n : HeardAt(history[m], <<"quoteInfo", quotes[i]>>, CrateQuotes[i].record)
    BY <1>8, <2>1, Zenon
  <2> QED
    BY <2>2
<1>10. CrateQuotes = [i \in 1 .. n |-> CrateQuotes[i]]
  BY <1>7
<1> QED
  BY <1>1, <1>6, <1>8, <1>9, <1>10, Zenon DEF EntriesTold

\* What was called for a list is the whole of it.
LEMMA ReturnedList ==
    ASSUME ListInv, call.at = "returned", plan.kind \in Lists, InPages
    PROVE  /\ WorldsKept /\ Registries /\ Counted(call.pages)
           /\ Len(call.pages) \in Nat \ {0, 2}
           /\ Len(call.pages) = 1 => call.pages[1][1] = 0
<1>1. WorldsKept /\ Registries /\ Listed
  BY DEF ListInv, IInv
<1>2. Paged(call.pages, call.whole) /\ NextPage(call.pages) = <<>>
  BY <1>1 DEF Listed
<1>3. PICK pages, whole : pages = call.pages /\ whole = call.whole
  OBVIOUS
<1>4. Paged(pages, whole) /\ NextPage(pages) = <<>>
  BY <1>2, <1>3, Zenon
<1>5. /\ Counted(pages) /\ Len(pages) \in Nat \ {0, 2}
      /\ Len(pages) = 1 => pages[1][1] = 0
  BY <1>1, <1>4, AllAsked
<1> QED
  BY <1>1, <1>3, <1>5, Zenon

LEMMA QuotesToldIs ==
    ASSUME ListInv, Returned("quotes"), Len(call.pages) \in Nat, Len(call.pages) > 2
    PROVE  EntriesTold(QuotesTold, call.pages[2])
<1>1. By("ts") \/ By("crate")
  BY ListPlan DEF ListInv, IInv, Lists, Returned
<1>2. By("crate") => ~By("ts")
  BY DEF By
<1>3. CASE By("ts")
  <2>1. EntriesTold(Quotes, call.pages[2])
    BY <1>3, TsEntries DEF Returned
  <2> QED
    BY <1>3, <2>1, Zenon DEF QuotesTold
<1>4. CASE By("crate")
  <2>1. EntriesTold(CrateQuotes, call.pages[2])
    BY <1>4, CrateEntries DEF Returned
  <2> QED
    BY <1>2, <1>4, <2>1, Zenon DEF QuotesTold
<1> QED
  BY <1>1, <1>3, <1>4

\* The clients' lists of quotes.
LEMMA QuotesAreExact ==
    ASSUME ListInv, Returned("quotes")
    PROVE  QuotesExact
<1>1. plan.kind = "quotes" /\ plan.kind \in Lists /\ InPages /\ call.at = "returned"
  BY DEF Returned, Lists, InPages
<1>2. /\ WorldsKept /\ Registries /\ Counted(call.pages)
      /\ Len(call.pages) \in Nat \ {0, 2}
      /\ Len(call.pages) = 1 => call.pages[1][1] = 0
  BY <1>1, ReturnedList
<1>3. PICK told, pages : told = QuotesTold /\ pages = call.pages
  OBVIOUS
<1>4. ASSUME NEW m \in DOMAIN history, NEW i \in DOMAIN history[m].quotes
      PROVE  Entries(history[m])[i] = history[m].quotes[i].token
  BY <1>1 DEF Entries
<1>5. ASSUME NEW m \in DOMAIN history
      PROVE  /\ Len(Entries(history[m])) = Len(history[m].quotes)
             /\ DOMAIN history[m].quotes = 1 .. Len(history[m].quotes)
  BY <1>1, <1>2, EntriesAre, MomentIs
<1>6. CASE Len(pages) = 1
  <2>1. told = <<>> /\ Len(told) = 0 /\ DOMAIN told = {}
    <3>1. 1 < 3 /\ Len(<<>>) = 0 /\ DOMAIN <<>> = {}
      OBVIOUS
    <3>2. Len(call.pages) < 3
      BY <1>3, <1>6, <3>1, Zenon
    <3>3. Quotes = <<>> /\ CrateQuotes = <<>>
      BY <3>2, Zenon DEF Quotes, CrateQuotes
    <3> QED
      BY <1>3, <3>1, <3>3, Zenon DEF QuotesTold
  <2>2. PICK m \in DOMAIN history : Len(history[m].quotes) = 0
    <3>1. pages[1][1] = 0
      BY <1>2, <1>3, <1>6, Zenon
    <3>2. 1 > 0
      OBVIOUS
    <3>3. Len(pages) > 0
      BY <1>6, <3>2, Zenon
    <3>4. PICK m \in DOMAIN history : pages[1][1] = Len(Entries(history[m]))
      BY <1>2, <1>3, <3>3 DEF Counted
    <3> QED
      BY <1>5, <3>1, <3>4, Zenon
  <2>3. \E k \in DOMAIN history : /\ Len(told) = Len(history[k].quotes)
                                  /\ \A i \in DOMAIN told : told[i].token = history[k].quotes[i].token
    BY <2>1, <2>2, Zenon
  <2>4. \E k \in DOMAIN history : \A i \in DOMAIN told : told[i].record \in Range(history[k].quotes)
    BY <2>1, <2>2, Zenon
  <2> QED
    BY <1>3, <2>1, <2>3, <2>4, Zenon DEF QuotesExact
<1>7. CASE Len(pages) # 1
  <2>1. Len(pages) \in Nat /\ Len(pages) > 1 /\ Len(pages) > 2
    <3>1. PICK n : n = Len(pages)
      OBVIOUS
    <3>2. n \in Nat \ {0, 2} /\ n # 1
      BY <1>2, <1>3, <1>7, <3>1, Zenon
    <3>3. n \in Nat /\ n > 1 /\ n > 2
      BY <3>2
    <3> QED
      BY <3>1, <3>3, Zenon
  <2>2. EntriesTold(told, pages[2])
    <3>1. EntriesTold(QuotesTold, call.pages[2])
      BY <1>3, <2>1, QuotesToldIs
    <3> QED
      BY <1>3, <3>1, Zenon
  <2>3. PICK n \in Nat : n = Len(pages[2])
    <3>1. pages[2] \in Seq(Entry)
      BY <1>2, <1>3, <2>1 DEF Counted
    <3> QED
      BY <3>1
  <2>4. /\ told = [i \in 1 .. n |-> told[i]]
        /\ \A i \in 1 .. n :
               /\ told[i].token = pages[2][i]
               /\ told[i].symbol = <<"symbol", pages[2][i]>>
               /\ told[i].name = <<"name", pages[2][i]>>
               /\ By("crate") => told[i].decimals = <<"decimals", pages[2][i]>>
               /\ Heard(<<"quoteInfo", pages[2][i]>>, told[i].record)
        /\ call.whole => \E m \in DOMAIN history :
               \A i \in 1 .. n : HeardAt(history[m], <<"quoteInfo", pages[2][i]>>, told[i].record)
    BY <2>2, <2>3, Zenon DEF EntriesTold
  <2>5. Len(told) = n /\ DOMAIN told = 1 .. n
    BY <2>4, IsSequence
  <2>6. PICK m \in DOMAIN history :
           /\ Len(pages[2]) = Len(Entries(history[m]))
           /\ \A i \in 1 .. Len(pages[2]) : pages[2][i] = Entries(history[m])[i]
    BY <1>1, <1>2, <1>3, <2>1, Listing
  <2>7. \E k \in DOMAIN history : /\ Len(told) = Len(history[k].quotes)
                                  /\ \A i \in DOMAIN told : told[i].token = history[k].quotes[i].token
    <3>1. Len(told) = Len(history[m].quotes)
      BY <1>5, <2>3, <2>5, <2>6, Zenon
    <3>2. ASSUME NEW i \in DOMAIN told PROVE told[i].token = history[m].quotes[i].token
      <4>1. i \in 1 .. n /\ i \in DOMAIN history[m].quotes
        BY <1>5, <2>3, <2>5, <2>6, <3>2, Zenon
      <4>2. told[i].token = pages[2][i]
        BY <2>4, <4>1
      <4>3. pages[2][i] = Entries(history[m])[i]
        BY <2>3, <2>6, <4>1
      <4> QED
        BY <1>4, <4>1, <4>2, <4>3, Zenon
    <3> QED
      BY <3>1, <3>2
  <2>8. ASSUME NEW i \in DOMAIN told
        PROVE  /\ told[i].symbol = <<"symbol", told[i].token>>
               /\ told[i].name = <<"name", told[i].token>>
               /\ By("crate") => told[i].decimals = <<"decimals", told[i].token>>
               /\ \E k \in DOMAIN history : told[i].record \in Range(history[k].quotes)
               /\ told[i].record.token = told[i].token
    <3>1. PICK q : q = pages[2][i]
      OBVIOUS
    <3>2. /\ told[i].token = q
          /\ told[i].symbol = <<"symbol", q>>
          /\ told[i].name = <<"name", q>>
          /\ By("crate") => told[i].decimals = <<"decimals", q>>
          /\ Heard(<<"quoteInfo", q>>, told[i].record)
      BY <2>4, <2>5, <3>1, Zenon
    <3>3. PICK k \in DOMAIN history :
             told[i].record \in Range(history[k].quotes) /\ told[i].record.token = q
      BY <3>2, MetadataHeard
    <3> QED
      BY <3>2, <3>3, Zenon
  <2>9. call.whole => \E k \in DOMAIN history :
                          \A i \in DOMAIN told : told[i].record \in Range(history[k].quotes)
    <3> SUFFICES ASSUME call.whole
                 PROVE  \E k \in DOMAIN history :
                            \A i \in DOMAIN told : told[i].record \in Range(history[k].quotes)
      OBVIOUS
    <3>1. PICK k \in DOMAIN history :
             \A i \in 1 .. n : HeardAt(history[k], <<"quoteInfo", pages[2][i]>>, told[i].record)
      BY <2>4
    <3>2. ASSUME NEW i \in DOMAIN told PROVE told[i].record \in Range(history[k].quotes)
      <4>1. HeardAt(history[k], <<"quoteInfo", pages[2][i]>>, told[i].record)
        BY <2>5, <3>1
      <4> QED
        BY <4>1, RecordIs
    <3> QED
      BY <3>1, <3>2
  <2> QED
    BY <1>3, <2>7, <2>8, <2>9, Zenon DEF QuotesExact
<1> QED
  BY <1>6, <1>7

\* What was answered of each migrator, in the TypeScript SDK's list.
MigratorsTold(pages) ==
    \A i \in 1 .. Len(pages[2]) :
        LET described == SubSeq(pages[3], 4 * i - 3, 4 * i)
        IN  /\ described[1] = pages[2][i].taxMode
            /\ described[2] = pages[2][i].router
            /\ described[3] \in {pages[2][i].label, ""}

LEMMA FourReads ==
    ASSUME NEW S, NEW subjects \in Seq(S), NEW N, NEW names \in Seq(N), Len(names) = 4
    PROVE  /\ Each(subjects, names) \in Seq(N \X S) /\ Len(Each(subjects, names)) = 4 * Len(subjects)
           /\ Spread(Each(subjects, names), subjects, names, 4)
<1>1. 4 \in Nat
  OBVIOUS
<1> QED
  BY <1>1, EachAt, Zenon

LEMMA FourOf ==
    ASSUME NEW S, NEW s \in Seq(S), NEW i \in Nat \ {0}, 4 * i <= Len(s)
    PROVE  LET four == SubSeq(s, 4 * i - 3, 4 * i)
           IN  four[1] = s[4 * i - 3] /\ four[2] = s[4 * i - 2] /\ four[3] = s[4 * i - 1]
<1>1. PICK a \in Nat : a = 4 * i - 3 /\ a >= 1
  OBVIOUS
<1>2. PICK b \in Nat : b = 4 * i /\ b = a + 3 /\ b <= Len(s)
  BY <1>1
<1>3. \A j \in 1 .. (b - a) + 1 : SubSeq(s, a, b)[j] = s[(a + j) - 1]
  <2>1. a \in 1 .. Len(s) + 1 /\ b \in a - 1 .. Len(s)
    BY <1>1, <1>2
  <2> QED
    BY <2>1, SubSeqProperties
<1>4. SubSeq(s, a, b)[1] = s[a] /\ SubSeq(s, a, b)[2] = s[a + 1] /\ SubSeq(s, a, b)[3] = s[a + 2]
  <2>1. /\ 1 \in 1 .. (b - a) + 1 /\ 2 \in 1 .. (b - a) + 1 /\ 3 \in 1 .. (b - a) + 1
        /\ (a + 1) - 1 = a /\ (a + 2) - 1 = a + 1 /\ (a + 3) - 1 = a + 2
    BY <1>1, <1>2
  <2> QED
    BY <1>3, <2>1
<1>5. a + 1 = 4 * i - 2 /\ a + 2 = 4 * i - 1
  BY <1>1
<1> QED
  BY <1>1, <1>2, <1>4, <1>5, Zenon

LEMMA DetailsHeard ==
    ASSUME NEW x, NEW a
    PROVE  /\ Heard(<<"taxModeOf", x>>, a) => a = x.taxMode
           /\ Heard(<<"routerOf", x>>, a) => a = x.router
           /\ Heard(<<"VERSION", x>>, a) => a \in {x.label, ""}
<1>1. ASSUME Heard(<<"taxModeOf", x>>, a) PROVE a = x.taxMode
  <2>1. PICK m \in DOMAIN history : HeardAt(history[m], <<"taxModeOf", x>>, a)
    BY <1>1, HeardOf
  <2> QED
    BY <2>1 DEF HeardAt, Read
<1>2. ASSUME Heard(<<"routerOf", x>>, a) PROVE a = x.router
  <2>1. PICK m \in DOMAIN history : HeardAt(history[m], <<"routerOf", x>>, a)
    BY <1>2, HeardOf
  <2> QED
    BY <2>1 DEF HeardAt, Read
<1>3. ASSUME Heard(<<"VERSION", x>>, a) PROVE a \in {x.label, ""}
  <2>1. CASE \E m \in DOMAIN history : HeardAt(history[m], <<"VERSION", x>>, a)
    BY <2>1 DEF HeardAt, Read
  <2>2. CASE a \in Tolerated("VERSION")
    BY <2>2, ToleratedIs
  <2> QED
    BY <1>3, <2>1, <2>2 DEF Heard
<1> QED
  BY <1>1, <1>2, <1>3

LEMMA MigratorAnswers ==
    ASSUME ListInv, Returned("migrators"), By("ts"), NEW pages, pages = call.pages,
           Len(pages) \in Nat, Len(pages) > 2
    PROVE  MigratorsTold(pages)
<1>1. WorldsKept /\ Registries /\ Listed /\ plan.kind \in Lists /\ InPages /\ plan.kind = "migrators"
  BY DEF ListInv, IInv, Lists, InPages, Returned
<1>2. PICK whole : whole = call.whole
  OBVIOUS
<1>3. Paged(pages, whole)
  BY <1>1, <1>2, Zenon DEF Listed
<1>4. PICK n \in Nat : n = Len(pages) /\ n > 2
  OBVIOUS
<1>5. PICK subjects \in Seq(MigratorRecord) : subjects = pages[2]
  <2>1. Counted(pages)
    BY <1>1, <1>3, CountedIs
  <2>2. pages[2] \in Seq(Entry)
    <3>1. Len(pages) > 1
      BY <1>4
    <3> QED
      BY <2>1, <3>1 DEF Counted
  <2>3. Entry = MigratorRecord
    BY <1>1 DEF Entry
  <2> QED
    BY <2>2, <2>3
<1>6. PICK before : /\ Len(before) = 2 /\ before[2] = pages[2]
                    /\ Answered(NextPage(before), pages[3], whole)
  <2>1. PICK k \in 1 .. Len(pages) : k = 3
    BY <1>4
  <2>2. k - 1 = 2 /\ 2 \in 1 .. k - 1
    BY <2>1
  <2>3. \E before : /\ Len(before) = k - 1 /\ \A j \in 1 .. k - 1 : before[j] = pages[j]
                    /\ NextPage(before) # <<>> /\ Answered(NextPage(before), pages[k], whole)
    BY <1>1, <1>3, NthPage
  <2> QED
    BY <2>1, <2>2, <2>3, Zenon
<1>7. NextPage(before) = Each(subjects, MigratorReadNames)
  <2>1. Len(before) = 2 /\ Len(before) \in Nat
    <3>1. 2 \in Nat
      OBVIOUS
    <3> QED
      BY <1>6, <3>1, Zenon
  <2>2. NextPage(before) = Each(before[2], MigratorReadNames)
    BY <1>1, <2>1, LaterPagesAre
  <2> QED
    BY <1>5, <1>6, <2>2, Zenon
<1>8. PICK N, names : names \in Seq(N) /\ names = MigratorReadNames
  <2>1. MigratorReadNames \in Seq({"taxModeOf", "routerOf", "VERSION", "poolManager"})
    BY DEF MigratorReadNames
  <2> QED
    BY <2>1
<1>9. Len(names) = 4 /\ names[1] = "taxModeOf" /\ names[2] = "routerOf" /\ names[3] = "VERSION"
  BY <1>8 DEF MigratorReadNames
<1>10. PICK all : all = Each(subjects, names)
  OBVIOUS
<1>11. all \in Seq(N \X MigratorRecord) /\ Len(all) = 4 * Len(subjects) /\ Spread(all, subjects, names, 4)
  <2>1. names \in Seq(N) /\ Len(names) = 4
    BY <1>8, <1>9
  <2>2. /\ Each(subjects, names) \in Seq(N \X MigratorRecord)
        /\ Len(Each(subjects, names)) = 4 * Len(subjects)
        /\ Spread(Each(subjects, names), subjects, names, 4)
    BY <2>1, FourReads, Zenon
  <2> QED
    BY <1>10, <2>2, Zenon
<1>12. PICK c \in Nat, size \in Nat : /\ c = Len(subjects) /\ size = Len(all) /\ size = 4 * c
                                     /\ DOMAIN all = 1 .. size
  BY <1>11
<1>13. /\ pages[3] = [i \in 1 .. size |-> pages[3][i]]
       /\ \A i \in 1 .. size : Heard(all[i], pages[3][i])
  <2>1. Answered(all, pages[3], whole) /\ Len(all) \in Nat /\ DOMAIN all = 1 .. Len(all)
    BY <1>6, <1>7, <1>8, <1>10, <1>12, Zenon
  <2>2. /\ pages[3] = [i \in 1 .. Len(all) |-> pages[3][i]]
        /\ \A i \in 1 .. Len(all) : Heard(all[i], pages[3][i])
    BY <2>1, AnsweredIs
  <2> QED
    BY <1>12, <2>2, Zenon
<1>14. PICK page, S : page = pages[3] /\ page \in Seq(S) /\ Len(page) = size
  <2>1. PICK page : page = pages[3]
    OBVIOUS
  <2>2. page = [i \in 1 .. size |-> page[i]]
    BY <1>13, <2>1, Zenon
  <2>3. page \in Seq(Range(page)) /\ Len(page) = size
    BY <2>2, IsSequence
  <2> QED
    BY <2>1, <2>3, Zenon
<1>15. ASSUME NEW i \in 1 .. c
       PROVE  LET described == SubSeq(page, 4 * i - 3, 4 * i)
              IN  /\ described[1] = subjects[i].taxMode
                  /\ described[2] = subjects[i].router
                  /\ described[3] \in {subjects[i].label, ""}
  <2>1. 1 \in 1 .. 4 /\ 2 \in 1 .. 4 /\ 3 \in 1 .. 4
    OBVIOUS
  <2>2. /\ 4 * (i - 1) + 1 = 4 * i - 3 /\ 4 * (i - 1) + 2 = 4 * i - 2
        /\ 4 * (i - 1) + 3 = 4 * i - 1
    OBVIOUS
  <2>3. \A j \in 1 .. 4 : /\ 4 * (i - 1) + j \in 1 .. Len(all)
                          /\ all[4 * (i - 1) + j] = <<names[j], subjects[i]>>
    BY <1>11, <1>12, Zenon DEF Spread
  <2>4. 4 * i - 3 \in 1 .. size /\ all[4 * i - 3] = <<"taxModeOf", subjects[i]>>
    BY <1>9, <1>12, <2>1, <2>2, <2>3, Zenon
  <2>5. 4 * i - 2 \in 1 .. size /\ all[4 * i - 2] = <<"routerOf", subjects[i]>>
    BY <1>9, <1>12, <2>1, <2>2, <2>3, Zenon
  <2>6. 4 * i - 1 \in 1 .. size /\ all[4 * i - 1] = <<"VERSION", subjects[i]>>
    BY <1>9, <1>12, <2>1, <2>2, <2>3, Zenon
  <2>7. PICK described : described = SubSeq(page, 4 * i - 3, 4 * i)
    OBVIOUS
  <2>8. /\ described[1] = page[4 * i - 3] /\ described[2] = page[4 * i - 2]
        /\ described[3] = page[4 * i - 1]
    <3>1. i \in Nat \ {0} /\ 4 * i <= Len(page)
      BY <1>12, <1>14
    <3> QED
      BY <1>14, <2>7, <3>1, FourOf, Zenon
  <2>9. /\ Heard(<<"taxModeOf", subjects[i]>>, described[1])
        /\ Heard(<<"routerOf", subjects[i]>>, described[2])
        /\ Heard(<<"VERSION", subjects[i]>>, described[3])
    BY <1>13, <1>14, <2>4, <2>5, <2>6, <2>8, Zenon
  <2>10. /\ described[1] = subjects[i].taxMode
         /\ described[2] = subjects[i].router
         /\ described[3] \in {subjects[i].label, ""}
    BY <2>9, DetailsHeard
  <2> QED
    BY <2>7, <2>10, Zenon
<1> QED
  BY <1>5, <1>12, <1>14, <1>15, Zenon DEF MigratorsTold

\* The TypeScript SDK's list of migrators.
LEMMA MigratorsAreExact ==
    ASSUME ListInv, Returned("migrators"), By("ts")
    PROVE  MigratorsExact
<1>1. plan.kind = "migrators" /\ plan.kind \in Lists /\ InPages /\ call.at = "returned"
  BY DEF Returned, Lists, InPages
<1>2. /\ WorldsKept /\ Registries /\ Counted(call.pages)
      /\ Len(call.pages) \in Nat \ {0, 2}
      /\ Len(call.pages) = 1 => call.pages[1][1] = 0
  BY <1>1, ReturnedList
<1>3. PICK told, pages : told = MigratorList /\ pages = call.pages
  OBVIOUS
<1>4. \A w : Entries(w) = w.migrators
  <2>1. plan.kind # "quotes"
    BY <1>1
  <2> QED
    BY <2>1, Zenon DEF Entries
<1>5. CASE Len(pages) = 1
  <2>1. told = <<>> /\ Len(told) = 0 /\ DOMAIN told = {}
    <3>1. 1 < 3 /\ Len(<<>>) = 0 /\ DOMAIN <<>> = {}
      OBVIOUS
    <3>2. Len(call.pages) < 3
      BY <1>3, <1>5, <3>1, Zenon
    <3> QED
      BY <1>3, <3>1, <3>2, Zenon DEF MigratorList
  <2>2. PICK m \in DOMAIN history : Len(history[m].migrators) = 0
    <3>1. pages[1][1] = 0
      BY <1>2, <1>3, <1>5, Zenon
    <3>2. 1 > 0
      OBVIOUS
    <3>3. Len(pages) > 0
      BY <1>5, <3>2, Zenon
    <3>4. PICK m \in DOMAIN history : pages[1][1] = Len(Entries(history[m]))
      BY <1>2, <1>3, <3>3 DEF Counted
    <3> QED
      BY <1>4, <3>1, <3>4, Zenon
  <2> QED
    BY <1>3, <2>1, <2>2, Zenon DEF MigratorsExact
<1>6. CASE Len(pages) # 1
  <2>1. Len(pages) \in Nat /\ Len(pages) > 1 /\ Len(pages) > 2 /\ ~(Len(pages) < 3)
    <3>1. PICK n : n = Len(pages)
      OBVIOUS
    <3>2. n \in Nat \ {0, 2} /\ n # 1
      BY <1>2, <1>3, <1>6, <3>1, Zenon
    <3>3. n \in Nat /\ n > 1 /\ n > 2 /\ ~(n < 3)
      BY <3>2
    <3> QED
      BY <3>1, <3>3, Zenon
  <2>2. MigratorsTold(pages)
    BY <1>3, <2>1, MigratorAnswers
  <2>3. PICK n \in Nat : n = Len(pages[2]) /\ DOMAIN pages[2] = 1 .. n
    <3>1. pages[2] \in Seq(Entry)
      BY <1>2, <1>3, <2>1 DEF Counted
    <3> QED
      BY <3>1
  <2>4. told = [i \in 1 .. n |-> MigratorEntry(i)]
    BY <1>3, <2>1, <2>3, Zenon DEF MigratorList
  <2>5. Len(told) = n /\ DOMAIN told = 1 .. n
    BY <2>4
  <2>6. PICK m \in DOMAIN history :
           /\ Len(pages[2]) = Len(Entries(history[m]))
           /\ \A i \in 1 .. Len(pages[2]) : pages[2][i] = Entries(history[m])[i]
    BY <1>1, <1>2, <1>3, <2>1, Listing
  <2>7. PICK registered : registered = history[m].migrators
    OBVIOUS
  <2>8. Len(registered) = n /\ \A i \in 1 .. n : pages[2][i] = registered[i]
    BY <1>4, <2>3, <2>6, <2>7, Zenon
  <2>9. ASSUME NEW i \in DOMAIN told
        PROVE  /\ told[i].migrator = registered[i]
               /\ told[i].taxMode = registered[i].taxMode
               /\ told[i].router = registered[i].router
               /\ told[i].label \in {registered[i].label, ""}
    <3>1. PICK described : described = SubSeq(pages[3], 4 * i - 3, 4 * i)
      OBVIOUS
    <3>2. /\ described[1] = registered[i].taxMode /\ described[2] = registered[i].router
          /\ described[3] \in {registered[i].label, ""}
      <4>1. /\ described[1] = pages[2][i].taxMode /\ described[2] = pages[2][i].router
            /\ described[3] \in {pages[2][i].label, ""}
        BY <2>2, <2>3, <2>5, <3>1, Zenon DEF MigratorsTold
      <4> QED
        BY <2>5, <2>8, <4>1
    <3>3. told[i] = [ migrator |-> pages[2][i], taxMode |-> described[1], router |-> described[2],
                      label |-> described[3], reachable |-> Reachable(described[4]) ]
      <4>1. MigratorEntry(i) = [ migrator |-> pages[2][i], taxMode |-> described[1],
                                 router |-> described[2], label |-> described[3],
                                 reachable |-> Reachable(described[4]) ]
        BY <1>3, <3>1, Zenon DEF MigratorEntry
      <4> QED
        BY <2>4, <2>5, <4>1
    <3>4. /\ told[i].migrator = pages[2][i] /\ told[i].taxMode = described[1]
          /\ told[i].router = described[2] /\ told[i].label = described[3]
      BY <3>3
    <3> QED
      BY <2>5, <2>8, <3>2, <3>4, Zenon
  <2>10. /\ Len(told) = Len(history[m].migrators)
         /\ \A i \in DOMAIN told :
                /\ told[i].migrator = history[m].migrators[i]
                /\ told[i].taxMode = history[m].migrators[i].taxMode
                /\ told[i].router = history[m].migrators[i].router
                /\ told[i].label \in {history[m].migrators[i].label, ""}
    <3>1. Len(told) = Len(history[m].migrators)
      BY <2>5, <2>7, <2>8, Zenon
    <3> QED
      BY <2>7, <2>9, <3>1
  <2> QED
    BY <1>3, <2>6, <2>10, Zenon DEF MigratorsExact
<1> QED
  BY <1>5, <1>6

\* What the crate was told of the t-th migrator by the time it returns.
TurnTold(pages, t) ==
    LET mig == World.migrators[t]
    IN  /\ t \in DOMAIN World.migrators /\ pages[3 * t - 1] = <<mig>>
        /\ pages[3 * t + 1] \in {<<>>, Told(mig)}
        /\ \E m \in DOMAIN history : pages[3 * t + 1] # <<>> <=> mig \notin history[m].retired

\* The crate asks of every migrator that it counted.
LEMMA CrateAsksAll ==
    ASSUME WorldsKept, By("crate"), plan.kind = "migrators", NEW pages, NEW whole,
           Paged(pages, whole), NextPage(pages) = <<>>
    PROVE  \E m \in DOMAIN history :
               /\ Last(pages[1]) = Len(history[m].migrators)
               /\ Len(pages) \in Nat
               /\ Len(pages) >= 3 * Len(history[m].migrators) + 1
               /\ plan.routed => pages[1][1] = "served"
<1>0. PICK n \in Nat : n = Len(pages)
  BY DEF Paged
<1>1. Len(<<>>) = 0 /\ 0 # 1 /\ 0 # 2 /\ 0 # 4
  OBVIOUS
<1>2. n # 0
  <2> SUFFICES ASSUME n = 0 PROVE FALSE
    OBVIOUS
  <2>1. NextPage(pages) = Keys(IF plan.routed THEN <<"routerManager", "migratorCount">>
                               ELSE <<"migratorCount">>)
    <3>1. Len(pages) = 0
      BY <1>0
    <3>2. NextPage(pages) = CrateMigratorPage(pages)
      BY CratePageIs
    <3> QED
      BY <3>1, <3>2 DEF CrateMigratorPage
  <2>2. Len(Keys(<<"migratorCount">>)) = 1
    BY OneKey
  <2>3. Len(Keys(<<"routerManager", "migratorCount">>)) = 2
    <3>1. PICK N : N = {"routerManager", "migratorCount"}
      OBVIOUS
    <3>2. <<"routerManager", "migratorCount">> \in Seq(N)
      BY <3>1
    <3>3. Len(<<"routerManager", "migratorCount">>) = 2
      OBVIOUS
    <3> QED
      BY <3>2, <3>3, KeysAre, Zenon
  <2> QED
    BY <1>1, <2>1, <2>2, <2>3, Zenon
<1>3. /\ plan.routed => pages[1][1] = "served"
      /\ \E m \in DOMAIN history : Last(pages[1]) = Len(history[m].migrators)
  <2>1. Len(pages) > 0
    BY <1>0, <1>2
  <2>2. CrateCounted(pages)
    BY CrateCountedIs
  <2> QED
    BY <2>1, <2>2 DEF CrateCounted
<1>4. PICK m \in DOMAIN history : Last(pages[1]) = Len(history[m].migrators)
  BY <1>3
<1>5. PICK c \in Nat : c = Len(history[m].migrators)
  BY MomentIs
<1>6. PICK t \in Nat \ {0} : n \in {3 * t - 2, 3 * t - 1, 3 * t}
  <2>1. Len(pages) \in Nat \ {0}
    BY <1>0, <1>2
  <2>2. Turn(pages) \in Nat \ {0}
        /\ Len(pages) \in {3 * Turn(pages) - 2, 3 * Turn(pages) - 1, 3 * Turn(pages)}
    BY <2>1, TurnIs
  <2> QED
    BY <1>0, <2>2
<1>7. ASSUME t <= c PROVE FALSE
  <2>1. Last(pages[1]) \in Nat /\ t <= Last(pages[1])
        /\ Len(pages) \in {3 * t - 2, 3 * t - 1, 3 * t}
    BY <1>0, <1>4, <1>5, <1>6, <1>7, Zenon
  <2>2. /\ Len(pages) = 3 * t - 2 => NextPage(pages) = <<<<"migratorAt", t>>>>
        /\ Len(pages) = 3 * t - 1 => NextPage(pages) = Indexed("isRegistered", pages[3 * t - 1])
        /\ Len(pages) = 3 * t => NextPage(pages) = Each(pages[3 * t - 1], CrateReadNames)
    BY <2>1, TurnPages
  <2>3. CASE n = 3 * t - 2
    BY <1>0, <2>2, <2>3
  <2>4. CASE n = 3 * t - 1 \/ n = 3 * t
    <3>1. PICK mig : pages[3 * t - 1] = <<mig>>
      <4>1. CrateTold(pages, t)
        BY CrateToldIs
      <4>2. 3 * t - 1 <= Len(pages)
        BY <1>0, <2>4
      <4> QED
        BY <4>1, <4>2 DEF CrateTold
    <3>2. Len(Indexed("isRegistered", <<mig>>)) = 1
      <4>1. PICK S : S = {mig} /\ mig \in S
        OBVIOUS
      <4> QED
        BY <4>1, OneKey
    <3>3. Len(Each(<<mig>>, CrateReadNames)) = 4
      BY Described
    <3> QED
      BY <1>0, <1>1, <2>2, <2>4, <3>1, <3>2, <3>3, Zenon
  <2> QED
    BY <1>6, <2>3, <2>4
<1>8. n >= 3 * c + 1
  BY <1>5, <1>6, <1>7
<1> QED
  BY <1>0, <1>3, <1>4, <1>5, <1>8, Zenon

LEMMA CrateTurnsTold ==
    ASSUME WorldsKept, Registries, By("crate"), plan.kind = "migrators", NEW pages, NEW whole,
           Paged(pages, whole), Len(pages) \in Nat,
           NEW c \in Nat, Len(pages) >= 3 * c + 1, NEW t \in 1 .. c
    PROVE  TurnTold(pages, t)
<1>1. t \in Nat \ {0} /\ 3 * t - 1 <= Len(pages) /\ 3 * t <= Len(pages) /\ 3 * t + 1 <= Len(pages)
  OBVIOUS
<1>2. CrateTold(pages, t)
  BY <1>1, CrateToldIs
<1>3. PICK k \in DOMAIN history :
         t \in DOMAIN history[k].migrators /\ pages[3 * t - 1] = <<history[k].migrators[t]>>
  BY <1>1, <1>2 DEF CrateTold
<1>4. t \in DOMAIN World.migrators /\ World.migrators[t] = history[k].migrators[t]
  BY <1>3, StillThere
<1>5. PICK mig : mig = World.migrators[t]
  OBVIOUS
<1>6. pages[3 * t - 1] = <<mig>> /\ pages[3 * t - 1][1] = mig
  BY <1>3, <1>4, <1>5
<1>7. PICK m \in DOMAIN history : pages[3 * t] = <<mig \notin history[m].retired>>
  <2>1. PICK m \in DOMAIN history : pages[3 * t] = <<pages[3 * t - 1][1] \notin history[m].retired>>
    BY <1>1, <1>2 DEF CrateTold
  <2>2. pages[3 * t] = <<mig \notin history[m].retired>>
    BY <1>6, <2>1, Zenon
  <2> QED
    BY <2>2
<1>8. pages[3 * t + 1] = IF pages[3 * t] = <<FALSE>> THEN <<>> ELSE Told(mig)
  <2>1. pages[3 * t + 1] = IF pages[3 * t] = <<FALSE>> THEN <<>> ELSE Told(pages[3 * t - 1][1])
    BY <1>1, <1>2, Zenon DEF CrateTold
  <2> QED
    BY <1>6, <2>1, Zenon
<1>9. Told(mig) # <<>>
  BY DEF Told
<1>10. pages[3 * t] = <<FALSE>> <=> mig \in history[m].retired
  <2>1. CASE mig \in history[m].retired
    <3>1. (mig \notin history[m].retired) = FALSE
      BY <2>1
    <3> QED
      BY <1>7, <2>1, <3>1
  <2>2. CASE mig \notin history[m].retired
    <3>1. (mig \notin history[m].retired) = TRUE
      BY <2>2
    <3>2. <<TRUE>> # <<FALSE>>
      <4>1. <<TRUE>>[1] = TRUE /\ <<FALSE>>[1] = FALSE
        OBVIOUS
      <4> QED
        BY <4>1, Zenon
    <3> QED
      BY <1>7, <2>2, <3>1, <3>2
  <2> QED
    BY <2>1, <2>2
<1>11. pages[3 * t + 1] \in {<<>>, Told(mig)}
       /\ (pages[3 * t + 1] # <<>> <=> mig \notin history[m].retired)
  BY <1>8, <1>9, <1>10, Zenon
<1> QED
  BY <1>4, <1>5, <1>6, <1>11, Zenon DEF TurnTold

\* The migrators that the crate lists: those of some turns, in their order.
CrateListed(listed, turns, c) ==
    /\ Len(turns) \in Nat /\ DOMAIN turns = 1 .. Len(turns)
    /\ listed = [i \in 1 .. Len(turns) |-> listed[i]]
    /\ \A i \in 1 .. Len(turns) : turns[i] \in 1 .. c
    /\ \A i, j \in 1 .. Len(turns) : i < j => turns[i] < turns[j]
    /\ \A t \in 1 .. c : call.pages[3 * t + 1] # <<>> <=> \E i \in 1 .. Len(turns) : turns[i] = t
    /\ \A i \in 1 .. Len(turns) :
           LET mig == World.migrators[turns[i]]
           IN  /\ listed[i].migrator = mig
               /\ listed[i].taxMode = mig.taxMode /\ listed[i].router = mig.router
               /\ listed[i].label = mig.label
               /\ listed[i].reachable <=>
                      (mig.manager = "none" \/ (plan.routed /\ mig.manager = "served"))

LEMMA CrateEntryIs ==
    ASSUME NEW pages, pages = call.pages, plan.routed => pages[1][1] = "served",
           NEW t \in Nat, TurnTold(pages, t), pages[3 * t + 1] # <<>>
    PROVE  LET entry == CrateMigratorEntry(t)
               mig == World.migrators[t]
           IN  /\ entry.migrator = mig
               /\ entry.taxMode = mig.taxMode /\ entry.router = mig.router
               /\ entry.label = mig.label
               /\ entry.reachable <=> (mig.manager = "none" \/ (plan.routed /\ mig.manager = "served"))
<1>1. PICK mig : mig = World.migrators[t]
  OBVIOUS
<1>2. pages[3 * t - 1] = <<mig>> /\ pages[3 * t + 1] = Told(mig)
  BY <1>1, Zenon DEF TurnTold
<1>3. PICK described : described = pages[3 * t + 1]
  OBVIOUS
<1>4. /\ described[1] = mig.label /\ described[2] = mig.manager
      /\ described[3] = mig.taxMode /\ described[4] = mig.router
  BY <1>2, <1>3 DEF Told
<1>5. CrateMigratorEntry(t) = [ migrator |-> mig, label |-> described[1],
                                reachable |-> reachability(described[2]),
                                taxMode |-> described[3], router |-> described[4] ]
  <2>1. PICK first : first = 3 * t - 1
    OBVIOUS
  <2>2. first + 2 = 3 * t + 1
    BY <2>1
  <2>3. pages[first][1] = mig
    BY <1>2, <2>1
  <2> QED
    BY <1>3, <2>1, <2>2, <2>3, Zenon DEF CrateMigratorEntry
<1>6. reachability(mig.manager) <=> (mig.manager = "none" \/ (plan.routed /\ mig.manager = "served"))
  <2>1. plan.routed => call.pages[1][1] = "served"
    OBVIOUS
  <2> QED
    BY <2>1, Zenon DEF reachability
<1>7. PICK entry : entry = CrateMigratorEntry(t)
  OBVIOUS
<1>8. /\ entry.migrator = mig /\ entry.label = described[1]
      /\ entry.reachable = reachability(described[2])
      /\ entry.taxMode = described[3] /\ entry.router = described[4]
  BY <1>5, <1>7
<1> QED
  BY <1>1, <1>4, <1>6, <1>7, <1>8, Zenon

\* The places, one after another and each of them once.
Lined(s, places) ==
    /\ s \in Seq(places) /\ Len(s) \in Nat
    /\ DOMAIN s = 1 .. Len(s)
    /\ \A i, j \in 1 .. Len(s) : i < j => s[i] < s[j]
    /\ \A p \in places : \E i \in 1 .. Len(s) : s[i] = p

LEMMA InOrderOf ==
    ASSUME NEW n \in Nat, NEW places \in SUBSET (1 .. n)
    PROVE  Lined(InOrder(places), places)
<1>1. PICK t : t = InOrder(places)
  OBVIOUS
<1>2. /\ t \in Seq(places) /\ Len(t) = Cardinality(places) /\ Len(t) \in Nat
      /\ DOMAIN t = 1 .. Len(t)
      /\ \A i, j \in 1 .. Len(t) : i < j => t[i] < t[j]
      /\ \A p \in places : \E i \in 1 .. Len(t) : t[i] = p
  BY <1>1, InOrderIs
<1> QED
  BY <1>1, <1>2, Zenon DEF Lined

LEMMA CrateLists ==
    ASSUME NEW pages, pages = call.pages, plan.routed => pages[1][1] = "served",
           NEW c \in Nat, Last(pages[1]) = c, \A t \in 1 .. c : TurnTold(pages, t)
    PROVE  \E turns : CrateListed(CrateMigratorList, turns, c)
<1> DEFINE places == {turn \in 1 .. c : pages[3 * turn + 1] # <<>>}
<1>1. PICK turns : turns = InOrder(places)
  OBVIOUS
<1>2. CrateMigratorList = [i \in DOMAIN turns |-> CrateMigratorEntry(turns[i])]
  <2>1. InOrder({turn \in 1 .. Last(call.pages[1]) : call.pages[3 * turn + 1] # <<>>}) = turns
    BY <1>1, Zenon
  <2> QED
    BY <2>1, Zenon DEF CrateMigratorList
<1>3. PICK where : where = places /\ where \in SUBSET (1 .. c)
  OBVIOUS
<1>4. \A t \in 1 .. c : t \in where <=> pages[3 * t + 1] # <<>>
  BY <1>3
<1>5. turns = InOrder(where)
  BY <1>1, <1>3, Zenon
<1>6. /\ turns \in Seq(where) /\ Len(turns) \in Nat
      /\ DOMAIN turns = 1 .. Len(turns)
      /\ \A i, j \in 1 .. Len(turns) : i < j => turns[i] < turns[j]
      /\ \A p \in where : \E i \in 1 .. Len(turns) : turns[i] = p
  <2>1. Lined(InOrder(where), where)
    BY <1>3, InOrderOf
  <2>2. Lined(turns, where)
    BY <1>5, <2>1, Zenon
  <2> QED
    BY <2>2 DEF Lined
<1> HIDE DEF places
<1>7. PICK k \in Nat : k = Len(turns) /\ DOMAIN turns = 1 .. k
  BY <1>6
<1>8. \A i \in 1 .. k : turns[i] \in where
  BY <1>6, <1>7
<1>9. \A i \in 1 .. k : turns[i] \in 1 .. c /\ turns[i] \in Nat /\ pages[3 * turns[i] + 1] # <<>>
  <2> SUFFICES ASSUME NEW i \in 1 .. k
               PROVE  turns[i] \in 1 .. c /\ turns[i] \in Nat /\ pages[3 * turns[i] + 1] # <<>>
    OBVIOUS
  <2>1. PICK t : t = turns[i] /\ t \in where
    BY <1>8
  <2>2. t \in 1 .. c /\ t \in Nat
    BY <1>3, <2>1
  <2>3. pages[3 * t + 1] # <<>>
    BY <1>4, <2>1, <2>2
  <2> QED
    BY <2>1, <2>2, <2>3, Zenon
<1>10. \A t \in 1 .. c : pages[3 * t + 1] # <<>> <=> \E i \in 1 .. k : turns[i] = t
  BY <1>4, <1>6, <1>7, <1>8
<1>11. PICK listed : listed = CrateMigratorList
  OBVIOUS
<1>12. listed = [i \in 1 .. k |-> CrateMigratorEntry(turns[i])]
  BY <1>2, <1>7, <1>11
<1>13. ASSUME NEW i \in 1 .. k
       PROVE  LET mig == World.migrators[turns[i]]
              IN  /\ listed[i].migrator = mig
                  /\ listed[i].taxMode = mig.taxMode /\ listed[i].router = mig.router
                  /\ listed[i].label = mig.label
                  /\ listed[i].reachable <=>
                         (mig.manager = "none" \/ (plan.routed /\ mig.manager = "served"))
  <2>1. PICK t \in Nat : t = turns[i] /\ t \in 1 .. c /\ pages[3 * t + 1] # <<>>
    BY <1>9
  <2>2. listed[i] = CrateMigratorEntry(t)
    BY <1>12, <2>1
  <2>3. TurnTold(pages, t)
    BY <2>1
  <2>4. LET entry == CrateMigratorEntry(t)
            mig == World.migrators[t]
        IN  /\ entry.migrator = mig
            /\ entry.taxMode = mig.taxMode /\ entry.router = mig.router
            /\ entry.label = mig.label
            /\ entry.reachable <=> (mig.manager = "none" \/ (plan.routed /\ mig.manager = "served"))
    BY <2>1, <2>3, CrateEntryIs, SMTT(20)
  <2> QED
    BY <2>1, <2>2, <2>4, Zenon
<1>14. listed = [i \in 1 .. k |-> listed[i]]
  BY <1>12
<1>15. \A t \in 1 .. c : call.pages[3 * t + 1] # <<>> <=> \E i \in 1 .. k : turns[i] = t
  BY <1>10
<1>16. CrateListed(listed, turns, c)
  BY <1>6, <1>7, <1>9, <1>13, <1>14, <1>15, Zenon DEF CrateListed
<1> QED
  BY <1>11, <1>16

LEMMA PlaceFound ==
    ASSUME NEW S, World.migrators \in Seq(S), NEW k \in 1 .. Len(World.migrators), NEW mig,
           World.migrators[k] = mig
    PROVE  PlaceOf(mig) \in 1 .. Len(World.migrators) /\ World.migrators[PlaceOf(mig)] = mig
<1>1. PICK s : s = World.migrators /\ s \in Seq(S)
  OBVIOUS
<1>2. PICK at : at = SelectInSeq(s, LAMBDA u : u = mig)
  OBVIOUS
<1>3. k \in 1 .. Len(s) /\ s[k] = mig
  BY <1>1, Zenon
<1>4. at \in 1 .. Len(s) /\ s[at] = mig
  BY <1>1, <1>2, <1>3, FoundAt, ZenonT(40)
<1>5. PlaceOf(mig) = at
  BY <1>1, <1>2, Zenon DEF PlaceOf
<1> QED
  BY <1>1, <1>4, <1>5, Zenon

\* The crate's list of migrators.
LEMMA CrateMigratorsAreExact ==
    ASSUME ListInv, Returned("migrators"), By("crate")
    PROVE  CrateMigratorsExact
<1>1. WorldsKept /\ Registries /\ Listed /\ plan.kind = "migrators" /\ call.at = "returned"
      /\ plan.kind \in Lists
  BY DEF ListInv, IInv, Lists, Returned
<1>2. PICK pages, whole : pages = call.pages /\ whole = call.whole
  OBVIOUS
<1>3. Paged(pages, whole) /\ NextPage(pages) = <<>>
  BY <1>1, <1>2, Zenon DEF Listed
<1>4. PICK last \in DOMAIN history :
         /\ Last(pages[1]) = Len(history[last].migrators)
         /\ Len(pages) \in Nat
         /\ Len(pages) >= 3 * Len(history[last].migrators) + 1
         /\ plan.routed => pages[1][1] = "served"
  BY <1>1, <1>3, CrateAsksAll
<1>5. PICK c \in Nat : c = Len(history[last].migrators)
  BY <1>1, MomentIs
<1>6. Len(pages) \in Nat /\ Len(pages) >= 3 * c + 1
  BY <1>4, <1>5, Zenon
<1>7. \A t \in 1 .. c : TurnTold(pages, t)
  BY <1>1, <1>3, <1>6, CrateTurnsTold
<1>8. PICK listed : listed = CrateMigratorList
  OBVIOUS
<1>9. PICK turns : CrateListed(listed, turns, c)
  <2>1. Last(pages[1]) = c
    BY <1>4, <1>5
  <2>2. \E turns : CrateListed(CrateMigratorList, turns, c)
    BY <1>2, <1>4, <1>7, <2>1, CrateLists
  <2> QED
    BY <1>8, <2>2, Zenon
<1>10. PICK k \in Nat : k = Len(turns)
  BY <1>9 DEF CrateListed
<1>11. /\ listed = [i \in 1 .. k |-> listed[i]]
       /\ \A i \in 1 .. k : turns[i] \in 1 .. c
       /\ \A i, j \in 1 .. k : i < j => turns[i] < turns[j]
       /\ \A t \in 1 .. c : pages[3 * t + 1] # <<>> <=> \E i \in 1 .. k : turns[i] = t
       /\ \A i \in 1 .. k :
              LET mig == World.migrators[turns[i]]
              IN  /\ listed[i].migrator = mig
                  /\ listed[i].taxMode = mig.taxMode /\ listed[i].router = mig.router
                  /\ listed[i].label = mig.label
                  /\ listed[i].reachable <=>
                         (mig.manager = "none" \/ (plan.routed /\ mig.manager = "served"))
  BY <1>2, <1>9, <1>10, Zenon DEF CrateListed
<1>12. DOMAIN listed = 1 .. k
  BY <1>11
<1>13. PICK all \in Seq(MigratorRecord) : all = World.migrators /\ IsInjective(all)
  <2>1. Len(history) \in DOMAIN history /\ World = history[Len(history)]
    BY <1>1, WorldIn
  <2>2. World.migrators \in Seq(MigratorRecord)
    BY <1>1, <2>1, MomentIs
  <2>3. IsInjective(World.migrators)
    BY <1>1, <2>1 DEF Registries
  <2> QED
    BY <2>2, <2>3
<1>14. \A t \in 1 .. c : /\ t \in DOMAIN all /\ t \in 1 .. Len(all)
                         /\ \E m \in DOMAIN history :
                                pages[3 * t + 1] # <<>> <=> all[t] \notin history[m].retired
  <2>1. DOMAIN all = 1 .. Len(all)
    OBVIOUS
  <2>2. ASSUME NEW t \in 1 .. c
        PROVE  /\ t \in DOMAIN all
               /\ \E m \in DOMAIN history :
                      pages[3 * t + 1] # <<>> <=> all[t] \notin history[m].retired
    <3>1. TurnTold(pages, t)
      BY <1>7
    <3> QED
      BY <1>13, <3>1, Zenon DEF TurnTold
  <2> QED
    BY <2>1, <2>2
<1>15. ASSUME NEW i \in 1 .. k
       PROVE  PlaceOf(listed[i].migrator) = turns[i]
  <2>1. PICK t \in 1 .. Len(all) : t = turns[i]
    BY <1>11, <1>14
  <2>2. PICK mig : mig = listed[i].migrator
    OBVIOUS
  <2>3. all[t] = mig
    BY <1>11, <1>13, <2>1, <2>2, Zenon
  <2>4. PICK at : at = PlaceOf(mig)
    OBVIOUS
  <2>5. at \in 1 .. Len(all) /\ all[at] = mig
    BY <1>13, <2>3, <2>4, PlaceFound
  <2>6. at = t
    <3>1. \A a, b \in DOMAIN all : all[a] = all[b] => a = b
      BY <1>13 DEF IsInjective
    <3>2. at \in DOMAIN all /\ t \in DOMAIN all
      BY <2>5
    <3> QED
      BY <2>3, <2>5, <3>1, <3>2
  <2> QED
    BY <2>1, <2>2, <2>4, <2>6, Zenon
<1>16. \A m \in DOMAIN history : history[m].retired \subseteq World.retired
  BY <1>1, StillThere
<1>17. 1 \in DOMAIN history /\ \A m \in DOMAIN history : Grown(history[1], history[m])
  <2>1. history \in Seq(Moment) /\ history # <<>>
    BY <1>1 DEF WorldsKept
  <2>2. 1 \in DOMAIN history /\ \A m \in DOMAIN history : 1 <= m
    BY <2>1
  <2> QED
    BY <1>1, <2>2 DEF Registries
<1>18. \A i, j \in DOMAIN listed : i < j =>
           PlaceOf(listed[i].migrator) < PlaceOf(listed[j].migrator)
  <2> SUFFICES ASSUME NEW i \in DOMAIN listed, NEW j \in DOMAIN listed, i < j
               PROVE  PlaceOf(listed[i].migrator) < PlaceOf(listed[j].migrator)
    OBVIOUS
  <2>1. i \in 1 .. k /\ j \in 1 .. k
    BY <1>12
  <2>2. turns[i] < turns[j]
    BY <1>11, <2>1
  <2>3. PlaceOf(listed[i].migrator) = turns[i] /\ PlaceOf(listed[j].migrator) = turns[j]
    BY <1>15, <2>1
  <2> QED
    BY <2>2, <2>3, Zenon
<1> DEFINE Kept == {listed[i].migrator : i \in DOMAIN listed}
<1>19. Range(history[1].migrators) \ World.retired \subseteq Kept
  <2> SUFFICES ASSUME NEW x \in Range(history[1].migrators), x \notin World.retired
               PROVE  x \in Kept
    OBVIOUS
  <2>1. PICK t \in DOMAIN history[1].migrators : x = history[1].migrators[t]
    BY DEF Range
  <2>2. t \in 1 .. c /\ all[t] = x
    <3>1. /\ DOMAIN history[1].migrators = 1 .. Len(history[1].migrators)
          /\ Len(history[1].migrators) \in Nat
      BY <1>1, <1>17, MomentIs
    <3>2. Len(history[1].migrators) <= c
      BY <1>5, <1>17 DEF Grown
    <3>3. World.migrators[t] = history[1].migrators[t]
      BY <1>1, <1>17, StillThere
    <3> QED
      BY <1>13, <2>1, <3>1, <3>2, <3>3
  <2>3. pages[3 * t + 1] # <<>>
    <3>1. PICK m \in DOMAIN history : pages[3 * t + 1] # <<>> <=> all[t] \notin history[m].retired
      BY <1>14, <2>2
    <3> QED
      BY <1>16, <2>2, <3>1
  <2>4. PICK i \in 1 .. k : turns[i] = t
    BY <1>11, <2>2, <2>3
  <2>5. listed[i].migrator = x
    BY <1>11, <1>13, <2>2, <2>4, Zenon
  <2> QED
    BY <1>12, <2>5
<1>20. Kept \subseteq Range(World.migrators) \ history[1].retired
  <2> SUFFICES ASSUME NEW i \in DOMAIN listed
               PROVE  listed[i].migrator \in Range(World.migrators) \ history[1].retired
    OBVIOUS
  <2>1. PICK t \in 1 .. c : t = turns[i] /\ pages[3 * t + 1] # <<>>
    BY <1>11, <1>12
  <2>2. listed[i].migrator = all[t]
    BY <1>11, <1>12, <1>13, <2>1, Zenon
  <2>3. all[t] \in Range(World.migrators)
    BY <1>13, <1>14 DEF Range
  <2>4. PICK m \in DOMAIN history : all[t] \notin history[m].retired
    BY <1>14, <2>1
  <2>5. history[1].retired \subseteq history[m].retired
    BY <1>17 DEF Grown
  <2> QED
    BY <2>2, <2>3, <2>4, <2>5
<1>21. ASSUME NEW i \in DOMAIN listed
       PROVE  LET m == listed[i].migrator
              IN  /\ listed[i].taxMode = m.taxMode /\ listed[i].router = m.router
                  /\ listed[i].label = m.label
                  /\ listed[i].reachable <=>
                         (m.manager = "none" \/ (plan.routed /\ m.manager = "served"))
  BY <1>11, <1>12, Zenon
<1> HIDE DEF Kept
<1> QED
  BY <1>8, <1>18, <1>19, <1>20, <1>21, Zenon DEF CrateMigratorsExact, Kept

\* However long a registry is, and however it grows and drops migrators while either
\* client reads it: the list of quotes has the registry's entries of one moment, in its
\* order, each with the symbol and the name of its own token and with a record of its
\* own; the TypeScript SDK's migrators are those registered at one moment; and the
\* crate lists, in the registry's order, each that stayed registered and none that had
\* been deregistered before, with the reachability of its own manager.
THEOREM ListsAreExact == Spec => []ListsExact
<1>1. ListInv => ListsExact
  BY QuotesAreExact, MigratorsAreExact, CrateMigratorsAreExact DEF ListsExact
<1> QED
  BY <1>1, ListInvariant, PTL
=============================================================================
