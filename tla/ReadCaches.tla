----------------------------- MODULE ReadCaches -----------------------------
(***************************************************************************)
(* The promises that the client keeps and its calls share: a curve's       *)
(* version and quote (curve.ts), the process-wide metadata of quote tokens *)
(* (quote-token.ts), the checks of the launchpad, the pool's contracts and *)
(* the endpoint's chain, the router's manager and the registry's address.  *)
(* A memo holds a read, which may still be pending; a failed read is meant *)
(* to leave it, and every await is a place where another call may join.    *)
(***************************************************************************)
EXTENDS Errors, Naturals, FiniteSets

CONSTANTS
    Plans,          \* the sets of calls that may be made, and of whom
    MaxCalls,       \* the most calls a plan has
    MaxFailures     \* how many RPCs the transport may fail

Memos == {"version", "quote", "metadata", "launchpad", "registry", "router", "poolVersions", "chain"}
Kinds == {"version", "quoteToken", "state", "quoteTokenInfo", "list", "verifyChain",
          "launch", "buy", "poolBuy"}

ASSUME PlansAssumption ==
    /\ Plans \subseteq [ there : {"curve", "oldCurve", "token", "foreign", "nothing"},
                         right : SUBSET {"chain", "launchpad", "hook"},
                         quote : {"native", "listed", "unlisted"},
                         decimals : [curve : Nat, listed : Nat, erc20 : Nat, registry : Nat],
                         batched : BOOLEAN, errors : SUBSET Thrown,
                         calls : Seq([kind : Kinds, tries : Nat]) ]
    /\ \A p \in Plans : Len(p.calls) <= MaxCalls /\ \A e \in p.errors : IsContractRevert(e)
    /\ {MaxCalls, MaxFailures} \subseteq Nat

VARIABLES
    plan,
    memo,       \* for each memo the read it holds, or 0
    reads,      \* every read that was started, or recorded as answered
    handlers,   \* the evictions that calls have attached to reads they share
    calls,      \* where each call is
    failures

vars == <<plan, memo, reads, handlers, calls, failures>>

Calls == DOMAIN plan.calls
Kind(c) == plan.calls[c].kind

\* What a call waits for, one after the other: memos, and RPCs of its own.
Needs(kind) ==
    CASE kind = "version"        -> <<"version">>
      [] kind = "quoteToken"     -> <<"version", "quote">>
      [] kind = "state"          -> <<"version", "batch", "metadata">>
      [] kind = "quoteTokenInfo" -> <<"metadata">>
      [] kind = "list"           -> IF plan.batched THEN <<"registry", "page">>
                                    ELSE <<"registry", "page", "metadata">>
      [] kind = "verifyChain"    -> <<"chain">>
      [] kind = "launch"         -> <<"chain", "launchpad">>
      [] kind = "buy"            -> <<"chain", "version", "quote", "trade">>
      [] kind = "poolBuy"        -> <<"chain", "migrated", "router", "poolVersions", "metadata", "trade">>

Need(c) == Needs(Kind(c))[calls[c].at]

\* How many RPCs a read makes, in one batch or one after the other.
Rpcs(m) ==
    CASE m = "quote"        -> IF plan.batched THEN 1 ELSE 2
      [] m = "metadata"     -> IF plan.batched THEN 1 ELSE 3
      [] m = "poolVersions" -> 3
      [] OTHER -> 1

Started(m) == [memo |-> m, left |-> Rpcs(m), on |-> 0, ended |-> "pending", decimals |-> 0,
               told |-> "", cause |-> Transport]
AnsweredRead(m, decimals) == [Started(m) EXCEPT !.left = 0, !.ended = "answered", !.decimals = decimals]

-----------------------------------------------------------------------------
(* What reads end in.                                                      *)

\* readVersion: whatever answers with a revert or with no data is no curve.
VersionRefusal(e) ==
    IF IsRevert(e) \/ e.about = "noData" THEN "AddressIsNotACurve" ELSE MapError(e, FALSE)

\* assertCurveVersion, of a version that was read.
VersionRefused ==
    CASE plan.there = "oldCurve" -> "UnknownCurveVersion"
      [] plan.there = "token"    -> "AddressIsNotACurve"
      [] OTHER -> ""

\* What the contract at the curve's address answers VERSION() with.
Broken(m) ==
    CASE m = "version" /\ plan.there = "foreign" -> {RevertOf(<<"empty">>), RevertOf(<<"other">>)}
      [] m = "version" /\ plan.there = "nothing" -> {NoData}
      [] OTHER -> {}

\* The checks that are part of a memoised read.
Verdict(m) ==
    CASE m = "chain" /\ "chain" \notin plan.right -> "ChainIdMismatch"
      [] m = "launchpad" /\ "launchpad" \notin plan.right -> "UnknownCurveVersion"
      [] m = "poolVersions" /\ "hook" \notin plan.right -> "UnknownHookVersion"
      [] OTHER -> ""

\* A mistake to check against: the metadata's decimals are believed.
AnyLabel(decimals) == ""
\* labelQuote: a curve is scaled by its own decimals, or not at all.
LabelRefused(decimals) == IF decimals = plan.decimals.curve THEN "" ELSE "RpcFailure"

-----------------------------------------------------------------------------
(* The memos.                                                              *)

\* Mistakes to check against: a failed read stays, or a newer one goes with it.
Keep(m, entry, read) == entry
EvictedAnyway(m, entry, read) == IF m = "chain" THEN entry ELSE 0
\* What a memo holds once the handler of a read that failed has run.
Evicted(m, entry, read) ==
    CASE m = "chain" -> entry
      [] m = "router" -> 0
      [] OTHER -> IF entry = read THEN 0 ELSE entry

Configured(m) == m = "metadata" /\ plan.quote # "unlisted"

\* The read a caller of memo m gets: from the network's own list, the one that is
\* there, pending or not, or a new one.
Joined(m) ==
    CASE Configured(m) -> [read |-> Len(reads) + 1, memo |-> memo,
                           reads |-> Append(reads, AnsweredRead(m, plan.decimals.listed))]
      [] ~Configured(m) /\ memo[m] # 0 -> [read |-> memo[m], memo |-> memo, reads |-> reads]
      [] OTHER -> [read |-> Len(reads) + 1, memo |-> [memo EXCEPT ![m] = Len(reads) + 1],
                   reads |-> Append(reads, Started(m))]

\* A read that ends, and the first of its handlers, which was attached with it.
Fail(r, told, cause) ==
    LET m == reads[r].memo
    IN  /\ reads' = [reads EXCEPT ![r].ended = "failed", ![r].told = told, ![r].cause = cause]
        /\ memo' = [memo EXCEPT ![m] = Evicted(m, @, r)]

Answer(r, decimals) ==
    /\ reads' = [reads EXCEPT ![r].left = 0, ![r].ended = "answered", ![r].decimals = decimals]
    /\ UNCHANGED memo

\* The read of a memo whose answer is known already.
Record(m, decimals) ==
    /\ reads' = Append(reads, AnsweredRead(m, decimals))
    /\ memo' = [memo EXCEPT ![m] = Len(reads) + 1]

ReadFails(r) ==
    LET m == reads[r].memo IN
    /\ reads[r].ended = "pending"
    /\ reads[r].on = 0
    /\ \E e \in Broken(m) \cup {Transport} :
           /\ e = Transport => failures < MaxFailures
           /\ failures' = IF e = Transport THEN failures + 1 ELSE failures
           /\ Fail(r, IF m = "version" THEN VersionRefusal(e) ELSE MapError(e, FALSE), e)
    /\ UNCHANGED <<plan, handlers, calls>>

\* An RPC of a read answers: the next one is made, the check is done, or a curve's
\* quote goes on to be labelled by its metadata.
ReadAnswers(r) ==
    LET m == reads[r].memo
        joined == Joined("metadata")
    IN  /\ reads[r].ended = "pending"
        /\ reads[r].on = 0
        /\ Broken(m) = {}
        /\ CASE reads[r].left > 1 -> reads' = [reads EXCEPT ![r].left = @ - 1] /\ UNCHANGED memo
             [] reads[r].left = 1 /\ m = "quote" ->
                    /\ reads' = [joined.reads EXCEPT ![r].left = 0, ![r].on = joined.read]
                    /\ memo' = joined.memo
             [] OTHER -> IF Verdict(m) # "" THEN Fail(r, Verdict(m), Refusal(Verdict(m)))
                         ELSE Answer(r, plan.decimals.erc20)
        /\ UNCHANGED <<plan, handlers, calls, failures>>

QuoteLabelled(r) ==
    LET label == reads[reads[r].on]
        refused == LabelRefused(label.decimals)
    IN  /\ reads[r].ended = "pending"
        /\ reads[r].on # 0
        /\ label.ended # "pending"
        /\ CASE label.ended = "failed" -> Fail(r, label.told, label.cause)
             [] label.ended = "answered" /\ refused # "" -> Fail(r, refused, Refusal(refused))
             [] OTHER -> Answer(r, label.decimals)
        /\ UNCHANGED <<plan, handlers, calls, failures>>

\* Every call that shares a version or a quote has a handler of its own on it, which
\* may run after another call has started again.
LateHandler(h) ==
    /\ reads[h.read].ended # "pending"
    /\ handlers' = handlers \ {h}
    /\ memo' = IF reads[h.read].ended = "failed"
               THEN [memo EXCEPT ![reads[h.read].memo] = Evicted(reads[h.read].memo, @, h.read)]
               ELSE memo
    /\ UNCHANGED <<plan, reads, calls, failures>>

-----------------------------------------------------------------------------
(* The calls.                                                              *)

Idle == [state |-> "idle", tries |-> 0, at |-> 1, on |-> 0, stale |-> FALSE, decimals |-> 0,
         told |-> "", cause |-> Transport]

Advance(c, decimals) ==
    calls' = [calls EXCEPT ![c].on = 0, ![c].decimals = decimals,
                           ![c].at = IF @ = Len(Needs(Kind(c))) THEN @ ELSE @ + 1,
                           ![c].state = IF calls[c].at = Len(Needs(Kind(c))) THEN "done" ELSE @]

Throw(c, told, cause) ==
    calls' = [calls EXCEPT ![c].on = 0, ![c].state = "failed", ![c].told = told, ![c].cause = cause]

\* A call starts, or starts over when it has failed and its caller tries again.
Start(c) ==
    /\ calls[c].state \in {"idle", "failed"}
    /\ calls[c].tries < plan.calls[c].tries
    /\ calls' = [calls EXCEPT ![c] = [Idle EXCEPT !.state = "running", !.tries = calls[c].tries + 1]]
    /\ UNCHANGED <<plan, memo, reads, handlers, failures>>

Ask(c) ==
    LET joined == Joined(Need(c)) IN
    /\ calls[c].state = "running"
    /\ calls[c].on = 0
    /\ Need(c) \in Memos
    /\ reads' = joined.reads
    /\ memo' = joined.memo
    /\ calls' = [calls EXCEPT ![c].on = joined.read,
                              ![c].stale = joined.reads[joined.read].ended = "failed"]
    /\ handlers' = IF Need(c) \in {"version", "quote"} /\ joined.read \in DOMAIN reads
                   THEN handlers \cup {[call |-> c, read |-> joined.read]} ELSE handlers
    /\ UNCHANGED <<plan, failures>>

\* What the call was waiting for has ended.  Whoever is to price or trade checks the
\* version it got; state() labels its quote, and keeps it if none is kept yet.
Resume(c) ==
    LET read == reads[calls[c].on]
        refused == CASE read.memo = "version" /\ Kind(c) # "version" -> VersionRefused
                     [] read.memo = "metadata" /\ Kind(c) = "state" -> LabelRefused(read.decimals)
                     [] OTHER -> ""
    IN  /\ calls[c].on # 0
        /\ read.ended # "pending"
        /\ CASE read.ended = "failed" -> Throw(c, read.told, read.cause)
             [] read.ended = "answered" /\ refused # "" -> Throw(c, refused, Refusal(refused))
             [] OTHER -> Advance(c, read.decimals)
        /\ IF Kind(c) = "state" /\ calls'[c].state = "done" /\ memo["quote"] = 0
           THEN Record("quote", read.decimals)
           ELSE UNCHANGED <<memo, reads>>
        /\ UNCHANGED <<plan, handlers, failures>>

\* A call's own RPC answers.  A batched list remembers the metadata it has read of a
\* quote that the network does not list.
RpcAnswers(c) ==
    /\ calls[c].state = "running"
    /\ Need(c) \notin Memos
    /\ Advance(c, calls[c].decimals)
    /\ IF Need(c) = "page" /\ plan.batched /\ ~Configured("metadata")
       THEN Record("metadata", plan.decimals.registry)
       ELSE UNCHANGED <<memo, reads>>
    /\ UNCHANGED <<plan, handlers, failures>>

\* It fails, or it is the trade and reverts with one of the plan's errors, in which
\* case the quote it pays is known.
RpcFails(c) ==
    /\ calls[c].state = "running"
    /\ Need(c) \notin Memos
    /\ \E e \in (IF Need(c) = "trade" THEN plan.errors ELSE {}) \cup {Transport} :
           /\ e = Transport => failures < MaxFailures
           /\ failures' = IF e = Transport THEN failures + 1 ELSE failures
           /\ Throw(c, MapError(e, Need(c) = "trade" /\ plan.quote # "native"), e)
    /\ UNCHANGED <<plan, memo, reads, handlers>>

Init ==
    /\ plan \in Plans
    /\ memo = [m \in Memos |-> 0]
    /\ reads = <<>>
    /\ handlers = {}
    /\ calls = [c \in Calls |-> Idle]
    /\ failures = 0

Next ==
    \/ \E c \in Calls : Start(c) \/ Ask(c) \/ Resume(c) \/ RpcAnswers(c) \/ RpcFails(c)
    \/ \E r \in DOMAIN reads : ReadAnswers(r) \/ ReadFails(r) \/ QuoteLabelled(r)
    \/ \E h \in handlers : LateHandler(h)

Spec == Init /\ [][Next]_vars

-----------------------------------------------------------------------------
(* Properties.                                                             *)

\* What was read stays read: no failed read, whenever its handlers run, takes the
\* place of an answer that another call, or list(), has recorded meanwhile
\* (curve.ts:85-87 and 138-140, quote-token.ts:166 and 210-212).
NothingForgotten ==
    [][ \A m \in Memos :
            memo[m] # 0 /\ reads[memo[m]].ended = "answered"
            => memo'[m] # 0 /\ reads'[memo'[m]].ended = "answered" ]_vars

\* Nobody is handed a failure that was over before they asked: a call made once the
\* endpoint works again reads again.  The chain check is the exception
\* (ChainIsAsked).
FailuresAreFresh ==
    \A c \in Calls : calls[c].state = "failed" /\ Need(c) # "chain" => ~calls[c].stale

\* What a caller is told is true of what happened: an address is blamed only when no
\* curve is there, the transport whenever nothing reached a contract, and a revert is
\* called what its innermost reason is, however v4 has wrapped it (errors/map.ts
\* unwrap; curve.ts readVersion).
BlameIsTrue ==
    \A c \in Calls :
        LET call == calls[c]
            depth == Len(call.cause.data)
            reason == call.cause.data[depth]
        IN  call.state = "failed" =>
                /\ call.told = "AddressIsNotACurve" => plan.there \in {"token", "foreign", "nothing"}
                /\ call.cause.about = "transport" => call.told = "RpcFailure"
                /\ call.told = "QuoteTransferOutOfGas" => plan.quote # "native"
                /\ call.cause.about = "revert" /\ Need(c) = "trade" /\ depth <= MaxLayers + 1 =>
                       /\ reason \in DeclaredErrors => call.told = reason
                       /\ reason \notin DeclaredErrors => call.told \notin DeclaredErrors

\* Whoever gets a curve's quote gets it at the curve's own decimals, whoever had
\* filled the shared metadata, and from where (curve.ts labelQuote).
ScaledRight ==
    \A c \in Calls :
        calls[c].state = "done" /\ Kind(c) \in {"quoteToken", "state"}
        => calls[c].decimals = plan.decimals.curve

\* "Check that the endpoint really is the chain this client was configured for. Done
\* automatically before every write" (client.ts:317-319): a write that is refused by
\* the check is refused by what the endpoint has answered it.
ChainIsAsked ==
    \A c \in Calls : calls[c].state = "failed" /\ Need(c) = "chain" => ~calls[c].stale
=============================================================================
