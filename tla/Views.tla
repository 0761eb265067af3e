------------------------------- MODULE Views --------------------------------
(***************************************************************************)
(* What a client tells of the chain when it takes more than one read to    *)
(* tell it, and how the TypeScript SDK takes them: a curve's state and the *)
(* quotes priced locally from it (curve.ts), what an owner can spend       *)
(* (quote-token.ts), a platform's settings (platform-registry.ts), and the *)
(* lists of quotes and of migrators, read page by page (quote-registry.ts, *)
(* migrator-registry.ts).                                                  *)
(* A batch is answered at one moment; reads made in parallel are answered  *)
(* in any order, while transactions of others are mined in between.        *)
(*                                                                         *)
(* The versions that are asked first, and the memos that calls share, are  *)
(* in ReadCaches; here one call looks at a chain that moves.  CrateViews   *)
(* has the Rust crate's way of taking them, and ViewClients what both may  *)
(* be relied on for.                                                       *)
(***************************************************************************)
EXTENDS CurveMath, Sequences, FiniteSets, SequencesExt

CONSTANTS
    Curve,          \* the figures of the curve that is looked at
    Plans,          \* what is asked, with which client, and of what world
    BuySizes,       \* what may be bought on the chain, or priced
    SellSizes,      \* what may be sold on the chain, or priced
    Tokens,         \* the quotes there are
    ListedTokens,   \* those that the network's preset describes
    MaxMoves,       \* the most transactions mined during the call
    MaxFailures     \* how many RPCs the transport may fail

Kinds == {"state", "spendState", "settings", "quotes", "migrators"}
Managers == {"none", "zero", "served", "other"}

MigratorRecord == [name : STRING, taxMode : {"None", "HookFee"}, router : STRING, label : STRING,
                   manager : Managers]

QuoteRecord == [token : Tokens, decimals : Nat, launchFee : Nat, active : BOOLEAN]

\* What the chain holds, at a moment, of all that a call may look at.
Moment == [ reserve : Nat, sold : Nat, graduated : BOOLEAN, migrated : BOOLEAN,
            balance : Nat, allowance : Nat,
            feeRecipient : {"first", "next"}, creatorShareBps : Nat,
            quotes : Seq(QuoteRecord), migrators : Seq(MigratorRecord), retired : SUBSET MigratorRecord ]

\* Where trades bring a curve: graduated, or short of its target and of its supply,
\* with no less in reserve than the price of what was sold.
OnCurve(w) ==
    w.graduated \/
        /\ w.sold \in 0 .. Curve.supply - 1
        /\ w.reserve - Curve.r0 \in 0 .. Curve.target - 1
        /\ w.reserve >= UsdcReserveAt(Curve.r0, Curve.y0, Curve.y0 - w.sold)

\* The registry refuses a migrator that it has already (MigratorAlreadyRegistered).
ASSUME ViewsAssumption ==
    /\ Curve \in CurveRecord /\ Placed(Curve)
    /\ BuySizes \cup SellSizes \subseteq Nat \ {0}
    /\ ListedTokens \subseteq Tokens
    /\ \A p \in Plans :
        /\ p.client \in {"ts", "crate"} /\ p.kind \in Kinds
        /\ {p.batched, p.routed} \subseteq BOOLEAN
        /\ p.vetted \cup p.dismissed \subseteq MigratorRecord
        /\ p.world \in Moment /\ OnCurve(p.world)
        /\ IsInjective(p.world.migrators)
    /\ {MaxMoves, MaxFailures} \subseteq Nat

\* The figures of a curve, and what is brought to it, are of 256 bits.
ASSUME RoomAssumption ==
    /\ Wad \in Nat
    /\ Fits(BpsDenominator) /\ Fits(Curve.y0) /\ Fits(Curve.r0 + Curve.target)
    /\ \A d \in BuySizes : Fits(d)

VARIABLES
    plan,
    history,    \* what the chain has held since the call began, oldest first
    call,
    failures

vars == <<plan, history, call, failures>>

World == Last(history)

-----------------------------------------------------------------------------
(* The chain (external): what others do to what the call looks at.  A view *)
(* moves only by what it reads, so nothing else is let move.               *)

Bought(w, d) ==
    LET q == QuoteBuy(Curve, w.reserve, w.sold, d)
    IN  [w EXCEPT !.reserve = q.newReserve, !.sold = q.newSold, !.graduated = q.graduates]

Sold(w, t) ==
    LET q == QuoteSell(Curve, w.reserve, w.sold, t)
    IN  [w EXCEPT !.reserve = q.newReserve, !.sold = q.newSold]

Traded(w) ==
    IF w.graduated THEN {[w EXCEPT !.migrated = TRUE]}
    ELSE {Bought(w, d) : d \in {d \in BuySizes : ~BuyReverts(Curve, w.reserve, w.sold, d)}}
         \cup {Sold(w, t) : t \in {t \in SellSizes : ~SellReverts(Curve, w.reserve, w.sold, t)}}

\* The owner pays out of the allowance, or approves.
Spent(w) ==
    {[w EXCEPT !.allowance = @ + 1]}
    \cup (IF w.balance = 0 \/ w.allowance = 0 THEN {}
          ELSE {[w EXCEPT !.balance = @ - 1, !.allowance = @ - 1]})

Reconfigured(w) == {[w EXCEPT !.feeRecipient = "next"], [w EXCEPT !.creatorShareBps = @ + 100]}

Registration(q, fee, active) == [token |-> q, decimals |-> 6, launchFee |-> fee, active |-> active]

\* Both registries grow at the end, and never shrink.
Registered(w) ==
    LET new == Tokens \ {w.quotes[i].token : i \in DOMAIN w.quotes}
    IN  {[w EXCEPT !.quotes = Append(@, Registration(q, 1, TRUE))] : q \in new}
        \cup {[w EXCEPT !.quotes[i].launchFee = @ + 1] : i \in DOMAIN w.quotes}
        \cup {[w EXCEPT !.quotes[i].active = ~@] : i \in DOMAIN w.quotes}

\* A migrator that is deregistered stays in the index, and is never registered again.
Vetted(w) ==
    {[w EXCEPT !.migrators = Append(@, m)] : m \in plan.vetted \ Range(w.migrators)}
    \cup {[w EXCEPT !.retired = @ \cup {m}] :
             m \in (plan.dismissed \cap Range(w.migrators)) \ w.retired}

Changes(w) ==
    CASE plan.kind = "state"      -> Traded(w)
      [] plan.kind = "spendState" -> Spent(w)
      [] plan.kind = "settings"   -> Reconfigured(w)
      [] plan.kind = "quotes"     -> Registered(w)
      [] plan.kind = "migrators"  -> Vetted(w)

\* What the contracts answer to a read, told by its name and what it is of.
Read(w, key) ==
    CASE key[1] = "spotPrice"       -> SpotPriceAt(Curve, w.sold)
      [] key[1] = "tokensSold"      -> w.sold
      [] key[1] = "realReserve"     -> w.reserve - Curve.r0
      [] key[1] = "virtualReserve"  -> w.reserve
      [] key[1] = "progressBps"     -> ProgressBps(Curve, w.reserve)
      [] key[1] = "graduated"       -> w.graduated
      [] key[1] = "migrated"        -> w.migrated
      [] key[1] = "balance"         -> w.balance
      [] key[1] = "allowance"       -> w.allowance
      [] key[1] = "feeRecipient"    -> w.feeRecipient
      [] key[1] = "creatorShareBps" -> w.creatorShareBps
      [] key[1] = "platformShareBps" -> BpsDenominator - w.creatorShareBps
      [] key[1] = "quoteTokenCount" -> Len(w.quotes)
      [] key[1] = "quoteTokenAt"    -> w.quotes[key[2]].token
      [] key[1] = "quoteInfo"       -> CHOOSE r \in Range(w.quotes) : r.token = key[2]
      [] key[1] \in {"symbol", "name", "decimals"} -> key
      [] key[1] = "migratorCount"   -> Len(w.migrators)
      [] key[1] = "migratorAt"      -> w.migrators[key[2]]
      [] key[1] = "isRegistered"    -> key[2] \notin w.retired
      [] key[1] = "taxModeOf"       -> key[2].taxMode
      [] key[1] = "routerOf"        -> key[2].router
      [] key[1] = "VERSION"         -> key[2].label
      [] key[1] = "poolManager"     -> key[2].manager
      [] key[1] = "routerManager"   -> "served"

-----------------------------------------------------------------------------
(* The reads of a call: pages, each of which is asked at once when the one *)
(* before it has been answered.  A page that asks nothing ends the call.   *)

Keys(names) == [i \in DOMAIN names |-> <<names[i], "">>]
Indexed(name, subjects) == [i \in DOMAIN subjects |-> <<name, subjects[i]>>]
Each(subjects, names) ==
    FlattenSeq([i \in DOMAIN subjects |-> [j \in DOMAIN names |-> <<names[j], subjects[i]>>]])

StateReads == Keys(<<"spotPrice", "tokensSold", "realReserve", "virtualReserve", "progressBps",
                     "graduated", "migrated">>)

\* Numbers in ascending order.
InOrder(places) ==
    CHOOSE s \in [1 .. Cardinality(places) -> places] : \A i, j \in DOMAIN s : i < j => s[i] < s[j]

Unlisted(quotes) ==
    LET places == InOrder({i \in DOMAIN quotes : quotes[i] \notin ListedTokens})
    IN  [k \in DOMAIN places |-> quotes[places[k]]]

Metadata(quotes) == Each(Unlisted(quotes), <<"symbol", "name">>)

QuotePage(pages) ==
    LET infos == Indexed("quoteInfo", pages[2])
    IN  CASE Len(pages) = 0 -> Keys(<<"quoteTokenCount">>)
          [] Len(pages) = 1 -> Indexed("quoteTokenAt", [i \in 1 .. pages[1][1] |-> i])
          [] Len(pages) = 2 -> IF plan.batched THEN infos \o Metadata(pages[2]) ELSE infos
          [] Len(pages) = 3 -> IF plan.batched THEN <<>> ELSE Metadata(pages[2])
          [] OTHER -> <<>>

\* The router's manager is asked when some migrator has one to be compared with.
MigratorPage(pages) ==
    CASE Len(pages) = 0 -> Keys(<<"migratorCount">>)
      [] Len(pages) = 1 -> Indexed("migratorAt", [i \in 1 .. pages[1][1] |-> i])
      [] Len(pages) = 2 -> Each(pages[2], <<"taxModeOf", "routerOf", "VERSION", "poolManager">>)
      [] Len(pages) = 3 -> IF plan.routed /\ \E i \in DOMAIN pages[2] : pages[3][4 * i] \in {"served", "other"}
                           THEN Keys(<<"routerManager">>) ELSE <<>>
      [] OTHER -> <<>>

Page(pages) ==
    CASE plan.kind = "state"      -> IF pages = <<>> THEN StateReads ELSE <<>>
      [] plan.kind = "spendState" ->
            IF plan.batched
            THEN IF pages = <<>> THEN Keys(<<"balance", "allowance">>) ELSE <<>>
            ELSE CASE Len(pages) = 0 -> Keys(<<"balance">>)
                   [] Len(pages) = 1 -> Keys(<<"allowance">>)
                   [] OTHER -> <<>>
      [] plan.kind = "settings"   ->
            IF pages = <<>> THEN Keys(<<"feeRecipient", "creatorShareBps", "platformShareBps">>) ELSE <<>>
      [] plan.kind = "quotes"     -> QuotePage(pages)
      [] plan.kind = "migrators"  -> MigratorPage(pages)

\* Only these three are ever asked through Multicall3.
Batched == plan.batched /\ plan.kind \in {"state", "spendState", "quotes"}

\* A call that has these pages, and is to read this one next.
Turning(pages, next, whole) ==
    [ at |-> IF next = <<>> THEN "returned" ELSE "reading",
      pages |-> pages, whole |-> whole, got |-> <<>> ]

Asking(pages, whole) == Turning(pages, Page(pages), whole)

Asked == Page(call.pages)

\* multicall: every answer from the same moment.
AnswerBatch ==
    /\ call.at = "reading" /\ call.whole
    /\ call' = Asking(Append(call.pages, [i \in DOMAIN Asked |-> Read(World, Asked[i])]), TRUE)
    /\ UNCHANGED <<plan, history, failures>>

\* A state falls back to reads of their own; nothing else does.
BatchFails ==
    /\ call.at = "reading" /\ call.whole
    /\ failures < MaxFailures
    /\ failures' = failures + 1
    /\ call' = IF plan.kind = "state" THEN Asking(<<>>, FALSE) ELSE [call EXCEPT !.at = "thrown"]
    /\ UNCHANGED <<plan, history>>

\* Promise.all: one of the reads that are out is answered.
Got(i, answer) ==
    LET got == [j \in DOMAIN call.got \cup {i} |-> IF j = i THEN answer ELSE call.got[j]]
    IN  IF DOMAIN got = DOMAIN Asked
        THEN Asking(Append(call.pages, [j \in DOMAIN Asked |-> got[j]]), FALSE)
        ELSE [call EXCEPT !.got = got]

Outstanding == IF call.at = "reading" /\ ~call.whole THEN DOMAIN Asked \ DOMAIN call.got ELSE {}

ReadAnswers ==
    \E i \in Outstanding :
        /\ call' = Got(i, Read(World, Asked[i]))
        /\ UNCHANGED <<plan, history, failures>>

\* optionalLabel and optionalPoolManager take any error for an answer.
Tolerated(name) == CASE name = "VERSION" -> {""} [] name = "poolManager" -> {"none"} [] OTHER -> {}

ReadFails ==
    \E i \in Outstanding :
        /\ failures < MaxFailures
        /\ failures' = failures + 1
        /\ IF Tolerated(Asked[i][1]) = {}
           THEN call' = [call EXCEPT !.at = "thrown"]
           ELSE \E answer \in Tolerated(Asked[i][1]) : call' = Got(i, answer)
        /\ UNCHANGED <<plan, history>>

ChainMoves ==
    /\ call.at = "reading"
    /\ Len(history) <= MaxMoves
    /\ \E w \in Changes(World) : history' = Append(history, w)
    /\ UNCHANGED <<plan, call, failures>>

-----------------------------------------------------------------------------
(* What the call returns, made of its pages.                               *)

State == [tokensSold |-> call.pages[1][2], realReserve |-> call.pages[1][3],
          virtualReserve |-> call.pages[1][4], graduated |-> call.pages[1][6]]

SnapshotOfReal(state) == [reserve |-> state.realReserve, sold |-> state.tokensSold]

\* curveSnapshotOf
SnapshotOf(state) == [reserve |-> state.virtualReserve, sold |-> state.tokensSold]

\* quoteBuyLocal and quoteSellLocal: the quote, or nothing where it is refused.
BuyLocal(state, d) ==
    LET at == SnapshotOf(state)
    IN  IF state.graduated \/ BuyReverts(Curve, at.reserve, at.sold, d) THEN {}
        ELSE {QuoteBuy(Curve, at.reserve, at.sold, d)}

SellLocal(state, t) ==
    LET at == SnapshotOf(state)
    IN  IF state.graduated \/ SellReverts(Curve, at.reserve, at.sold, t) THEN {}
        ELSE {QuoteSell(Curve, at.reserve, at.sold, t)}

\* The contract's own quoteBuy and quoteSell (external).
BuyOnChain(w, d) ==
    IF w.graduated \/ BuyReverts(Curve, w.reserve, w.sold, d) THEN {}
    ELSE {QuoteBuy(Curve, w.reserve, w.sold, d)}

SellOnChain(w, t) ==
    IF w.graduated \/ SellReverts(Curve, w.reserve, w.sold, t) THEN {}
    ELSE {QuoteSell(Curve, w.reserve, w.sold, t)}

\* The pages hold the records first, then what was asked of unlisted tokens.
Results == IF Len(call.pages) = 3 THEN call.pages[3] ELSE call.pages[3] \o call.pages[4]

MetadataAtNext(quotes, q) ==
    Len(quotes) + SelectInSeq(Unlisted(quotes), LAMBDA u : u = q)

MetadataAt(quotes, q) ==
    Len(quotes) + 2 * (SelectInSeq(Unlisted(quotes), LAMBDA u : u = q) - 1) + 1

QuoteEntry(i) ==
    LET quotes == call.pages[2]
        q == quotes[i]
        at == MetadataAt(quotes, q)
        own == q \in ListedTokens
    IN  [ token |-> q,
          symbol |-> IF own THEN <<"symbol", q>> ELSE Results[at],
          name |-> IF own THEN <<"name", q>> ELSE Results[at + 1],
          record |-> Results[i] ]

Quotes == IF Len(call.pages) < 3 THEN <<>> ELSE [i \in DOMAIN call.pages[2] |-> QuoteEntry(i)]

Reachable(manager) ==
    \/ manager \in {"none", "zero"}
    \/ plan.routed /\ manager = call.pages[4][1]

MigratorEntry(i) ==
    LET described == SubSeq(call.pages[3], 4 * i - 3, 4 * i)
    IN  [ migrator |-> call.pages[2][i], taxMode |-> described[1], router |-> described[2],
          label |-> described[3], reachable |-> Reachable(described[4]) ]

MigratorList ==
    IF Len(call.pages) < 3 THEN <<>> ELSE [i \in DOMAIN call.pages[2] |-> MigratorEntry(i)]

=============================================================================
