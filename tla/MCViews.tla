------------------------------- MODULE MCViews -------------------------------
(* One view at a time, of a small curve along its life, of an owner with a    *)
(* little to spend, and of registries with a few entries.                     *)
EXTENDS ViewClients

MCCurve == [r0 |-> 10, y0 |-> 20, supply |-> 15, feeBps |-> 100,
            target |-> UsdcInForTokensOut(10, 20, 20, 15)]

Escrow == [name |-> "escrow", taxMode |-> "None", router |-> "zero", label |-> "", manager |-> "none"]
Pooling(name, manager) ==
    [name |-> name, taxMode |-> "HookFee", router |-> "canonical", label |-> name, manager |-> manager]

Fresh ==
    [ reserve |-> MCCurve.r0, sold |-> 0, graduated |-> FALSE, migrated |-> FALSE,
      balance |-> 2, allowance |-> 1, feeRecipient |-> "first", creatorShareBps |-> 100,
      quotes |-> <<>>, migrators |-> <<>>, retired |-> {} ]

Plan(kind, batched, world) ==
    [ client |-> "ts", kind |-> kind, batched |-> batched, routed |-> TRUE,
      vetted |-> {}, dismissed |-> {}, world |-> world ]

Crate(p) == [p EXCEPT !.client = "crate"]

Registry(tokens) ==
    [Fresh EXCEPT !.quotes = [i \in DOMAIN tokens |-> Registration(tokens[i], 1, TRUE)]]
Migrating(migrators) == [Fresh EXCEPT !.migrators = migrators]

\* A curve at its start, half sold, one buy from graduating, and graduated.
Positions == {Fresh, Bought(Fresh, 12), Bought(Bought(Fresh, 12), 15), Bought(Fresh, 45)}

QuoteLists == {<<>>, <<"EURC">>, <<"USDC", "EURC", "BTC">>, <<"EURC", "BTC", "USDC">>}
V4 == Pooling("v4", "served")

TypeScriptPlans ==
    {Plan("state", batched, w) : batched \in BOOLEAN, w \in Positions}
    \cup {Plan("spendState", batched, Fresh) : batched \in BOOLEAN}
    \cup {Plan("settings", TRUE, Fresh)}
    \cup {Plan("quotes", batched, Registry(tokens)) : batched \in BOOLEAN, tokens \in QuoteLists}
    \cup {[Plan("migrators", TRUE, Migrating(listed)) EXCEPT !.routed = routed, !.vetted = {V4}] :
             routed \in BOOLEAN,
             listed \in {<<>>, <<Escrow>>, <<Pooling("v4old", "other")>>, <<Pooling("v4unset", "zero")>>}}

Old == Pooling("v4old", "other")
Venues ==
    {Migrating(<<>>), Migrating(<<Escrow>>)}
    \cup {[Migrating(<<Escrow, Old, Pooling("v4unset", "zero")>>) EXCEPT !.retired = r] : r \in {{}, {Old}}}

\* The crate's list also leaves out what is deregistered, before or meanwhile.
CratePlans ==
    {Crate(Plan("state", TRUE, w)) : w \in Positions}
    \cup {Crate(Plan("spendState", TRUE, Fresh))}
    \cup {Crate(Plan("quotes", TRUE, Registry(tokens))) : tokens \in QuoteLists}
    \cup {[Crate(Plan("migrators", TRUE, w))
               EXCEPT !.routed = routed, !.vetted = {V4}, !.dismissed = {Escrow, V4}] :
             routed \in BOOLEAN, w \in Venues}

MCPlans == TypeScriptPlans \cup CratePlans
=============================================================================
