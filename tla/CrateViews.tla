----------------------------- MODULE CrateViews -----------------------------
(***************************************************************************)
(* How the Rust crate takes the views of Views: Curve::state and the local *)
(* quotes (curve.rs), spend_state and the list of quotes (quote.rs), and   *)
(* the list of migrators (migrator_registry.rs).  A batch is the crate's   *)
(* rule; what is not batched is read one thing after another, never in     *)
(* parallel, and a failed read is no answer, not even where the answer is  *)
(* optional.                                                               *)
(***************************************************************************)
EXTENDS Views, CrateMath

CrateKinds == Kinds \ {"settings"}

ASSUME CratePlansAssumption == \A p \in Plans : p.client = "crate" => p.kind \in CrateKinds

\* Only the migrators are asked one by one.
CrateBatched == plan.kind # "migrators"

\* An entry of the registry and, right after it, what nothing described yet.
EntryReads(quote) ==
    Each(<<quote>>, IF quote \in ListedTokens THEN <<"quoteInfo">>
                    ELSE <<"quoteInfo", "symbol", "name", "decimals">>)

CrateQuotePage(pages) ==
    CASE Len(pages) = 0 -> Keys(<<"quoteTokenCount">>)
      [] Len(pages) = 1 -> Indexed("quoteTokenAt", [i \in 1 .. pages[1][1] |-> i])
      [] Len(pages) = 2 -> FlattenSeq([i \in DOMAIN pages[2] |-> EntryReads(pages[2][i])])
      [] OTHER -> <<>>

\* After the first page each migrator has three: its address, whether it is
\* registered now, and what describes it.
Turn(pages) == (Len(pages) - 1) \div 3 + 1
Part(pages) == (Len(pages) - 1) % 3

CrateMigratorPage(pages) ==
    CASE Len(pages) = 0 -> Keys(IF plan.routed THEN <<"routerManager", "migratorCount">>
                                ELSE <<"migratorCount">>)
      [] Len(pages) > 0 /\ Turn(pages) > Last(pages[1]) -> <<>>
      [] OTHER ->
            CASE Part(pages) = 0 -> <<<<"migratorAt", Turn(pages)>>>>
              [] Part(pages) = 1 -> Indexed("isRegistered", Last(pages))
              [] Part(pages) = 2 -> Each(pages[Len(pages) - 1],
                                         <<"VERSION", "poolManager", "taxModeOf", "routerOf">>)

CratePage(pages) ==
    CASE plan.kind = "state"      -> IF pages = <<>> THEN StateReads ELSE <<>>
      [] plan.kind = "spendState" -> IF pages = <<>> THEN Keys(<<"balance", "allowance">>) ELSE <<>>
      [] plan.kind = "quotes"     -> CrateQuotePage(pages)
      [] plan.kind = "migrators"  -> CrateMigratorPage(pages)

\* A migrator that is registered no more is passed over.
PassedOver(pages) ==
    IF plan.kind = "migrators" /\ Len(pages) > 1 /\ Part(pages) = 2 /\ Last(pages) = <<FALSE>>
    THEN Append(pages, <<>>) ELSE pages

CrateAsking(pages, whole) ==
    LET all == PassedOver(pages) IN Turning(all, CratePage(all), whole)

CrateAsked == CratePage(call.pages)

\* Batch::run, and the aggregate of state(): every answer from the same moment.
CrateAnswerBatch ==
    /\ call.at = "reading" /\ call.whole
    /\ call' = CrateAsking(Append(call.pages, [i \in DOMAIN CrateAsked |-> Read(World, CrateAsked[i])]), TRUE)
    /\ UNCHANGED <<plan, history, failures>>

CrateBatchFails ==
    /\ call.at = "reading" /\ call.whole
    /\ failures < MaxFailures
    /\ failures' = failures + 1
    /\ call' = IF plan.kind = "state" THEN CrateAsking(<<>>, FALSE) ELSE [call EXCEPT !.at = "thrown"]
    /\ UNCHANGED <<plan, history>>

\* Each read is awaited before the next is made.
CrateReadAnswers ==
    /\ call.at = "reading" /\ ~call.whole
    /\ LET got == Append(call.got, Read(World, CrateAsked[Len(call.got) + 1]))
       IN  call' = IF Len(got) = Len(CrateAsked) THEN CrateAsking(Append(call.pages, got), FALSE)
                   ELSE [call EXCEPT !.got = got]
    /\ UNCHANGED <<plan, history, failures>>

\* optional: a transport failure is no answer of the migrator, and is raised.
CrateReadFails ==
    /\ call.at = "reading" /\ ~call.whole
    /\ failures < MaxFailures
    /\ failures' = failures + 1
    /\ call' = [call EXCEPT !.at = "thrown"]
    /\ UNCHANGED <<plan, history>>

-----------------------------------------------------------------------------
(* What the call returns.                                                  *)

\* quote_buy_local and quote_sell_local: the quote, or nothing where it is refused.
CrateBuyLocal(state, d) ==
    LET at == SnapshotOf(state)
        quote == quote_buy(Curve, at.reserve, at.sold, d)
    IN  IF ~state.graduated /\ quote.ok THEN {quote.value} ELSE {}

CrateSellLocal(state, t) ==
    LET at == SnapshotOf(state)
        quote == quote_sell(Curve, at.reserve, at.sold, t)
    IN  IF ~state.graduated /\ t <= state.tokensSold /\ quote.ok THEN {quote.value} ELSE {}

\* Where the third batch holds the answers for an entry.
AnswersAt(quotes, i) == i + 3 * Len(Unlisted(SubSeq(quotes, 1, i - 1)))

CrateQuoteEntry(i) ==
    LET quotes == call.pages[2]
        q == quotes[i]
        at == AnswersAt(quotes, i)
        own == q \in ListedTokens
        Told(name, offset) == IF own THEN <<name, q>> ELSE call.pages[3][at + offset]
    IN  [ token |-> q, symbol |-> Told("symbol", 1), name |-> Told("name", 2),
          decimals |-> Told("decimals", 3), record |-> call.pages[3][at] ]

CrateQuotes == IF Len(call.pages) < 3 THEN <<>> ELSE [i \in DOMAIN call.pages[2] |-> CrateQuoteEntry(i)]

\* MigratorInfo::reachability: a manager that is set to nothing is compared like any.
reachability(manager) ==
    \/ manager = "none"
    \/ plan.routed /\ manager = call.pages[1][1]

CrateMigratorEntry(turn) ==
    LET first == 3 * turn - 1
        described == call.pages[first + 2]
    IN  [ migrator |-> call.pages[first][1], label |-> described[1],
          reachable |-> reachability(described[2]),
          taxMode |-> described[3], router |-> described[4] ]

CrateMigratorList ==
    LET turns == InOrder({turn \in 1 .. Last(call.pages[1]) : call.pages[3 * turn + 1] # <<>>})
    IN  [i \in DOMAIN turns |-> CrateMigratorEntry(turns[i])]
=============================================================================
