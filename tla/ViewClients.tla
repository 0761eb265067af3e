----------------------------- MODULE ViewClients -----------------------------
(***************************************************************************)
(* A view taken by either client: a call of the TypeScript SDK (Views) or  *)
(* of the Rust crate (CrateViews), on a chain that moves meanwhile; and    *)
(* what may be relied on of its answer.                                    *)
(***************************************************************************)
EXTENDS CrateViews

By(client) == plan.client = client

Init ==
    /\ plan \in Plans
    /\ history = <<plan.world>>
    /\ call = IF By("ts") THEN Asking(<<>>, Batched) ELSE CrateAsking(<<>>, CrateBatched)
    /\ failures = 0

Next ==
    \/ By("ts") /\ (AnswerBatch \/ BatchFails \/ ReadAnswers \/ ReadFails)
    \/ By("crate") /\ (CrateAnswerBatch \/ CrateBatchFails \/ CrateReadAnswers \/ CrateReadFails)
    \/ ChainMoves

Spec == Init /\ [][Next]_vars

-----------------------------------------------------------------------------
Returned(kind) == call.at = "returned" /\ plan.kind = kind

BuyPriced(d) == IF By("ts") THEN BuyLocal(State, d) ELSE CrateBuyLocal(State, d)
SellPriced(t) == IF By("ts") THEN SellLocal(State, t) ELSE CrateSellLocal(State, t)
QuotesTold == IF By("ts") THEN Quotes ELSE CrateQuotes

\* That what was returned is what the chain held at the moment w.
TrueOf(w) ==
    CASE plan.kind = "state" ->
            /\ \A i \in DOMAIN StateReads : call.pages[1][i] = Read(w, StateReads[i])
            /\ \A d \in BuySizes : BuyPriced(d) = BuyOnChain(w, d)
            /\ \A t \in SellSizes : SellPriced(t) = SellOnChain(w, t)
      [] plan.kind = "spendState" ->
            FlattenSeq(call.pages) = <<w.balance, w.allowance>>
      [] OTHER -> \A i \in DOMAIN Page(<<>>) : call.pages[1][i] = Read(w, Page(<<>>)[i])

\* A curve's state, an owner's balance with the allowance, and a platform's
\* settings say what was true at one moment of the call whenever one batch
\* answered them, or nothing moved meanwhile; and every buy and sell that is
\* priced locally from such a state costs, or is refused, as the chain would have
\* had it at that moment (curve.ts, "can say things that were never true at once"
\* and "The same numbers the chain's quoteBuy returns, to the wei"; curve.rs,
\* "fields disagree with each other").
ViewsTrue ==
    \A kind \in {"state", "spendState", "settings"} :
        Returned(kind) /\ (call.whole \/ Len(history) = 1) =>
            \E m \in DOMAIN history : TrueOf(history[m])

QuotesExact ==
    /\ \E m \in DOMAIN history :
        /\ Len(QuotesTold) = Len(history[m].quotes)
        /\ \A i \in DOMAIN QuotesTold : QuotesTold[i].token = history[m].quotes[i].token
    /\ \A i \in DOMAIN QuotesTold :
        LET entry == QuotesTold[i]
        IN  /\ entry.symbol = <<"symbol", entry.token>>
            /\ entry.name = <<"name", entry.token>>
            /\ By("crate") => entry.decimals = <<"decimals", entry.token>>
            /\ \E m \in DOMAIN history : entry.record \in Range(history[m].quotes)
            /\ entry.record.token = entry.token
    /\ call.whole =>
        \E m \in DOMAIN history :
            \A i \in DOMAIN QuotesTold : QuotesTold[i].record \in Range(history[m].quotes)

\* The TypeScript SDK lists all that were ever registered.
MigratorsExact ==
    \E m \in DOMAIN history :
        LET registered == history[m].migrators
        IN  /\ Len(MigratorList) = Len(registered)
            /\ \A i \in DOMAIN MigratorList :
                /\ MigratorList[i].migrator = registered[i]
                /\ MigratorList[i].taxMode = registered[i].taxMode
                /\ MigratorList[i].router = registered[i].router
                /\ MigratorList[i].label \in {registered[i].label, ""}

\* Where the registry's index has a migrator.
PlaceOf(migrator) == SelectInSeq(World.migrators, LAMBDA m : m = migrator)

\* The crate lists those that a launch may choose: all that stayed registered and
\* none that was deregistered before.
CrateMigratorsExact ==
    LET listed == CrateMigratorList
        Kept == {listed[i].migrator : i \in DOMAIN listed}
    IN  /\ \A i, j \in DOMAIN listed : i < j => PlaceOf(listed[i].migrator) < PlaceOf(listed[j].migrator)
        /\ Range(history[1].migrators) \ World.retired \subseteq Kept
        /\ Kept \subseteq Range(World.migrators) \ history[1].retired
        /\ \A i \in DOMAIN listed :
            LET m == listed[i].migrator
            IN  /\ listed[i].taxMode = m.taxMode /\ listed[i].router = m.router
                /\ listed[i].label = m.label
                /\ listed[i].reachable <=>
                       (m.manager = "none" \/ (plan.routed /\ m.manager = "served"))

\* The list of quotes is the registry's at some moment of the call, in its order
\* and complete, and each entry has the symbol and the name of its own token with
\* a record of it from the call; from a batch all the records are from one moment.
\* The list of migrators keeps the registry's order and what was recorded there
\* (quote-registry.ts and quote.rs, three batches and positions in them;
\* migrator-registry.ts, "would make the indices in this array stop matching the
\* registry's own"; migrator_registry.rs, "Currently registered only", with a
\* reachability that no failed read can make up).
ListsExact ==
    /\ Returned("quotes") => QuotesExact
    /\ Returned("migrators") /\ By("ts") => MigratorsExact
    /\ Returned("migrators") /\ By("crate") => CrateMigratorsExact

\* In the TypeScript SDK's list a migrator that has a PoolManager is reachable if
\* and only if a router is configured and that router serves this manager; one
\* that has none is reachable (migrator-registry.ts, MigratorInfo.reachable).
ReachableIsTrue ==
    Returned("migrators") /\ By("ts") =>
        \A i \in DOMAIN MigratorList :
            MigratorList[i].reachable <=>
                \/ MigratorList[i].migrator.manager \in {"none", "zero"}
                \/ plan.routed /\ MigratorList[i].migrator.manager = "served"
=============================================================================
