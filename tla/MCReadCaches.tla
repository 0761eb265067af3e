---------------------------- MODULE MCReadCaches ----------------------------
(* Plans of two or three calls around the memos they share. *)
EXTENDS ReadCaches

Call(kind) == [kind |-> kind, tries |-> 1]
Retried(kind) == [kind |-> kind, tries |-> 2]

Plan(quote, batched, asked) ==
    [ there |-> "curve", right |-> {"chain", "launchpad", "hook"}, quote |-> quote,
      decimals |-> [curve |-> 6, listed |-> 6, erc20 |-> 6, registry |-> 6],
      batched |-> batched, errors |-> {}, calls |-> asked ]

Wrapped(layers, reason) ==
    RevertOf([i \in 1 .. layers + 1 |-> IF i <= layers THEN "WrappedError" ELSE reason])

\* Everything that a trade may throw.
TradeErrors ==
    { RevertOf(<<"empty">>), RevertOf(<<"Error">>), RevertOf(<<"Panic">>), RevertOf(<<"other">>),
      RevertOf(<<"SlippageExceeded">>), RevertOf(<<"WrappedError">>), Wrapped(1, "empty"),
      Wrapped(2, "SlippageExceeded"), Wrapped(16, "Panic"), Wrapped(17, "SlippageExceeded"),
      [about |-> "decoded", data |-> <<"SlippageExceeded">>] }

\* Three calls that share a version and a quote.
Sharing == Plan("unlisted", TRUE, <<Retried("version"), Retried("quoteToken"), Call("quoteToken")>>)
\* The same metadata from a curve, from a caller and from the registry's list.
Labelling(decimals) ==
    [Plan("unlisted", TRUE, <<Call("list"), Retried("quoteToken"), Retried("quoteTokenInfo")>>)
     EXCEPT !.decimals = decimals]
Stating(decimals, quote) ==
    [Plan(quote, FALSE, <<Call("state"), Retried("quoteToken"), Call("list")>>)
     EXCEPT !.decimals = decimals]
Agreeing == [curve |-> 6, listed |-> 6, erc20 |-> 6, registry |-> 6]
Misreported == [curve |-> 6, listed |-> 18, erc20 |-> 18, registry |-> 6]
\* Addresses that hold no curve, or another version's.
Elsewhere(there) == [Plan("native", TRUE, <<Retried("version"), Call("state")>>) EXCEPT !.there = there]
\* Writes, on what they were built for or not.
Writing(right, quote) ==
    [Plan(quote, TRUE, <<Retried("launch"), Call("poolBuy")>>)
     EXCEPT !.right = right, !.errors = TradeErrors]
Buying(quote) == [Plan(quote, TRUE, <<Retried("buy"), Call("verifyChain")>>) EXCEPT !.errors = TradeErrors]

ChainPlans == {Plan("native", TRUE, <<Retried("verifyChain"), Call("buy")>>)}

MCPlans ==
    {Sharing, Buying("native"), Buying("unlisted")}
    \cup {Labelling(d) : d \in {Agreeing, Misreported}}
    \cup {Stating(d, q) : d \in {Agreeing, Misreported}, q \in {"listed", "unlisted"}}
    \cup {Elsewhere(there) : there \in {"curve", "oldCurve", "token", "foreign", "nothing"}}
    \cup {Writing(r, "listed") : r \in {{"launchpad", "hook"}, {"chain", "hook"}, {"chain", "launchpad"},
                                        {"chain", "launchpad", "hook"}}}
=============================================================================
