-------------------------- MODULE ReadCachesProofs --------------------------
(***************************************************************************)
(* The promises that calls share keep their word, for any calls, plans and *)
(* failures: no answer is ever taken out of a memo, nobody is handed a     *)
(* failure that was over before they asked, and what a caller is told is   *)
(* true of what happened.                                                  *)
(*                                                                         *)
(* The inductive invariant has two halves: the memos and the reads they    *)
(* hold are sound whatever handler runs last, and every call fits the need *)
(* it has come to.  All that the calls have to know of a step of the reads *)
(* is that what has ended stays as it ended.                               *)
(***************************************************************************)
EXTENDS ReadCaches, SequenceTheorems, TLAPS

Codes == DeclaredErrors \cup SdkCodes \cup {"Error", ""}

Causes(p) == {Transport, NoData, RevertOf(<<"empty">>), RevertOf(<<"other">>)}
          \cup {Refusal(code) : code \in SdkCodes} \cup p.errors

Reads(p) == [ memo : Memos, left : Nat, on : Nat, ended : {"pending", "answered", "failed"},
           decimals : Nat, told : Codes, cause : Causes(p) ]

CallRecords(p) == [ state : {"idle", "running", "done", "failed"}, tries : Nat, at : Nat, on : Nat,
                 stale : BOOLEAN, decimals : Nat, told : Codes, cause : Causes(p) ]

\* What a failure of plan p may be told as, wherever it happened.
NoBlame(p, told, about) ==
    /\ told = "AddressIsNotACurve" => p.there \in {"token", "foreign", "nothing"}
    /\ about = "transport" => told = "RpcFailure"
    /\ told = "QuoteTransferOutOfGas" => p.quote # "native"

\* Read r of those in kept, when the memos hold held: a read that is out is still to be
\* answered, or waits for its label; the router's memo holds the one read of it that is.
ReadFits(p, held, kept, r) ==
    /\ kept[r].ended = "pending" /\ kept[r].on = 0 => kept[r].left >= 1
    /\ kept[r].on # 0 => /\ kept[r].memo = "quote"
                         /\ kept[r].on \in 1 .. Len(kept)
                         /\ kept[kept[r].on].memo = "metadata"
    /\ kept[r].ended = "pending" /\ kept[r].memo = "router" => held["router"] = r
    /\ kept[r].ended = "answered" /\ kept[r].memo = "quote" => kept[r].decimals = p.decimals.curve
    /\ kept[r].ended = "failed" => NoBlame(p, kept[r].told, kept[r].cause.about)

\* A memo holds a read of its own, and only the chain's may hold one that failed.
MemoFits(held, kept, m) ==
    held[m] # 0 => /\ held[m] \in 1 .. Len(kept)
                   /\ kept[held[m]].memo = m
                   /\ m # "chain" => kept[held[m]].ended # "failed"

Sound(p, held, kept) ==
    /\ held \in [Memos -> Nat]
    /\ kept \in Seq(Reads(p))
    /\ \A r \in 1 .. Len(kept) : ReadFits(p, held, kept, r)
    /\ \A m \in Memos : MemoFits(held, kept, m)

\* What a step of the reads leaves: what they are of, and what they ended in.
Remains(kept, next) ==
    /\ Len(kept) <= Len(next)
    /\ \A r \in 1 .. Len(kept) :
           /\ next[r].memo = kept[r].memo
           /\ kept[r].ended # "pending" => next[r] = kept[r]

Remembers(held, kept, heldNext, next) ==
    \A m \in Memos :
        held[m] # 0 /\ kept[held[m]].ended = "answered"
        => heldNext[m] # 0 /\ next[heldNext[m]].ended = "answered"

Carries(p, held, kept, heldNext, next) ==
    /\ Sound(p, heldNext, next)
    /\ Remains(kept, next)
    /\ Remembers(held, kept, heldNext, next)

\* A call of some kind with these needs, which has come to one of them: it waits for a
\* read of what it needs, and has a failure from before it asked only of the chain.
CallFits(p, kind, needs, call, kept) ==
    /\ call \in CallRecords(p)
    /\ call.at \in 1 .. Len(needs)
    /\ call.on # 0 => /\ call.state = "running"
                      /\ needs[call.at] \in Memos
                      /\ call.on \in 1 .. Len(kept)
                      /\ kept[call.on].memo = needs[call.at]
    /\ call.stale => /\ needs[call.at] = "chain"
                     /\ \/ call.on # 0 /\ kept[call.on].ended = "failed"
                        \/ call.on = 0 /\ call.state = "failed"
    /\ call.state = "done" /\ kind \in {"quoteToken", "state"} => call.decimals = p.decimals.curve
    /\ call.state = "failed" => NoBlame(p, call.told, call.cause.about)
    /\ /\ call.state = "failed"
       /\ call.cause.about = "revert"
       /\ needs[call.at] = "trade"
       /\ Len(call.cause.data) <= MaxLayers + 1
       => LET reason == call.cause.data[Len(call.cause.data)]
          IN  /\ reason \in DeclaredErrors => call.told = reason
              /\ reason \notin DeclaredErrors => call.told \notin DeclaredErrors

\* The inductive invariant.
CachesHold ==
    /\ plan \in Plans
    /\ Sound(plan, memo, reads)
    /\ \A h \in handlers : h.read \in 1 .. Len(reads) /\ reads[h.read].memo \in {"version", "quote"}
    /\ DOMAIN calls = Calls
    /\ \A c \in Calls : CallFits(plan, Kind(c), Needs(Kind(c)), calls[c], reads)

-----------------------------------------------------------------------------
(* What errors are told as.                                                *)

\* What never reached a contract is told as such, whatever the call pays in.
LEMMA TransportTold == \A pays \in BOOLEAN : MapError(Transport, pays) = "RpcFailure"
    BY DEF MapError, Transport, RevertData

\* unwrap takes off every layer that names another, as far as it goes.
LEMMA LayersTakenOff ==
    ASSUME NEW S, NEW data \in Seq(S), data # <<>>,
           \A i \in 1 .. Len(data) - 1 : data[i] = "WrappedError"
    PROVE  Layers(data) = IF Len(data) <= MaxLayers + 1 THEN Len(data) - 1 ELSE MaxLayers
<1> DEFINE all == {n \in 0 .. MaxLayers : n < Len(data) /\ \A i \in 1 .. n : data[i] = "WrappedError"}
           most == IF Len(data) <= MaxLayers + 1 THEN Len(data) - 1 ELSE MaxLayers
<1>1. Len(data) \in Nat /\ Len(data) >= 1
    BY EmptySeq
<1>2. all = 0 .. most
    <2>1. ASSUME NEW n \in 0 .. most PROVE n \in all
        BY <1>1, <2>1 DEF MaxLayers
    <2>2. ASSUME NEW n \in all PROVE n \in 0 .. most
        BY <1>1, <2>2 DEF MaxLayers
    <2> QED BY <2>1, <2>2
<1>3. most \in Nat
    BY <1>1 DEF MaxLayers
<1> HIDE DEF all, most
<1>4. most \in 0 .. most /\ \A n \in 0 .. most : most >= n
    BY <1>3
<1>5. ASSUME NEW x \in 0 .. most, \A n \in 0 .. most : x >= n PROVE x = most
    <2>1. x \in Nat /\ x <= most
        BY <1>3, <1>5
    <2>2. x >= most
        BY <1>4, <1>5, Zenon
    <2> QED BY <1>3, <2>1, <2>2
<1>6. Max(0 .. most) = most
    BY <1>4, <1>5 DEF Max
<1>7. Layers(data) = Max(all)
    BY DEF Layers, all
<1> QED BY <1>2, <1>6, <1>7 DEF most

\* No contract declares an error by one of these names.
LEMMA NotDeclared ==
    /\ "AddressIsNotACurve" \notin DeclaredErrors
    /\ "WrappedRevert" \notin DeclaredErrors
    /\ "UnknownRevert" \notin DeclaredErrors
    /\ "RevertString" \notin DeclaredErrors
    /\ "Panic" \notin DeclaredErrors
    /\ "EmptyRevert" \notin DeclaredErrors
    /\ "QuoteTransferOutOfGas" \notin DeclaredErrors
    /\ "Error" \notin DeclaredErrors
    /\ "empty" \notin DeclaredErrors
    BY DeclaredAssumption DEF SdkCodes

\* What unwrap and mapRevertData tell a reason as.
LEMMA ReasonTold ==
    ASSUME NEW reason,
           NEW told \in {IF Known(reason) THEN MapRevertData(reason) ELSE "WrappedRevert",
                         MapRevertData(reason)}
    PROVE  /\ told \in Codes \ {"AddressIsNotACurve", "QuoteTransferOutOfGas"}
           /\ reason \in DeclaredErrors => told = reason
           /\ reason \notin DeclaredErrors => told \notin DeclaredErrors
<1>1. CASE reason = "Error"
    <2>1. told = "RevertString"
        BY <1>1, NotDeclared DEF Known, MapRevertData
    <2> QED BY <1>1, <2>1, NotDeclared DEF Codes, SdkCodes
<1>2. CASE reason \in DeclaredErrors \cup {"Panic"}
    <2>1. told = reason
        BY <1>2, NotDeclared DEF Known, MapRevertData
    <2> QED BY <1>2, <2>1, NotDeclared DEF Codes, SdkCodes
<1>3. CASE reason \notin DeclaredErrors \cup {"Error", "Panic"}
    <2>1. told = "WrappedRevert" \/ told = "UnknownRevert"
        BY <1>3 DEF Known, MapRevertData
    <2>2. reason \notin DeclaredErrors
        BY <1>3
    <2> QED BY <2>1, <2>2, NotDeclared DEF Codes, SdkCodes
<1> QED BY <1>1, <1>2, <1>3

\* The arms of mapError that a revert may come to.
LEMMA RevertArms ==
    ASSUME NEW e \in Thrown, e.about = "revert", e.data # <<>>, NEW pays
    PROVE  /\ e.data = <<"empty">> =>
                  MapError(e, pays) = IF pays THEN "QuoteTransferOutOfGas" ELSE "EmptyRevert"
           /\ e.data # <<"empty">> /\ Head(e.data) = "WrappedError" /\ Len(e.data) > 1 =>
                  MapError(e, pays) = Unwrap(e.data)
           /\ e.data # <<"empty">> /\ (Head(e.data) # "WrappedError" \/ Len(e.data) = 1) =>
                  MapError(e, pays) = MapRevertData(Head(e.data))
<1>1. RevertData(e) = e.data /\ e.about \notin {"arcnow", "decoded"}
    BY DEF RevertData
<1>2. PICK data : data = e.data
    OBVIOUS
<1>3. PICK depth \in Nat : depth = Len(data)
    BY <1>2 DEF Thrown
<1>4. ASSUME data = <<"empty">>
      PROVE  MapError(e, pays) = IF pays THEN "QuoteTransferOutOfGas" ELSE "EmptyRevert"
    <2>1. Head(data) # "WrappedError"
        BY <1>4
    <2> QED BY <1>1, <1>2, <1>4, <2>1, Zenon DEF MapError
<1>5. ASSUME data # <<"empty">>, Head(data) = "WrappedError", depth > 1
      PROVE  MapError(e, pays) = Unwrap(data)
    <2>1. depth # 1
        BY <1>5
    <2> QED BY <1>1, <1>2, <1>3, <1>5, <2>1, Zenon DEF MapError
<1>6. ASSUME data # <<"empty">>, Head(data) # "WrappedError" \/ depth = 1
      PROVE  MapError(e, pays) = MapRevertData(Head(data))
    <2>1. ~(Head(data) = "WrappedError" /\ depth > 1)
        BY <1>6
    <2> QED BY <1>1, <1>2, <1>3, <1>6, <2>1, Zenon DEF MapError
<1> QED BY <1>2, <1>3, <1>4, <1>5, <1>6, Zenon

\* What mapError makes of a trade's own revert.
LEMMA RevertTold ==
    ASSUME NEW e \in Thrown, IsContractRevert(e), NEW pays \in BOOLEAN,
           NEW told, told = MapError(e, pays)
    PROVE  /\ told \in Codes \ {"AddressIsNotACurve"}
           /\ told = "QuoteTransferOutOfGas" => pays
           /\ e.about = "revert" /\ Len(e.data) <= MaxLayers + 1 =>
                  /\ e.data[Len(e.data)] \in DeclaredErrors => told = e.data[Len(e.data)]
                  /\ e.data[Len(e.data)] \notin DeclaredErrors => told \notin DeclaredErrors
<1>1. PICK data : data = e.data
    OBVIOUS
<1>2. data \in Seq(STRING) /\ data # <<>>
    BY <1>1 DEF IsContractRevert, Thrown
<1>3. PICK depth \in Nat : depth = Len(data) /\ depth >= 1
    BY <1>2, EmptySeq
<1>4. Head(data) = data[1]
    BY <1>2
<1>5. CASE e.about = "decoded"
    <2>1. MapError(e, pays) = Head(data)
        <3>1. RevertData(e) = <<>> /\ e.about \in {"arcnow", "decoded"} /\ <<>> # <<"empty">>
            BY <1>5 DEF RevertData
        <3> QED BY <1>1, <3>1, Zenon DEF MapError
    <2>2. told \in DeclaredErrors \cup {"Error", "Panic"}
        BY <1>1, <1>5, <2>1 DEF IsContractRevert
    <2>3. e.about # "revert"
        BY <1>5
    <2> QED BY <2>2, <2>3, NotDeclared DEF Codes, SdkCodes
<1>6. CASE e.about = "revert"
    <2>1. \A i \in 1 .. depth - 1 : data[i] = "WrappedError"
        BY <1>1, <1>3, <1>6 DEF IsContractRevert
    <2> DEFINE Told(reason) == /\ told \in Codes \ {"AddressIsNotACurve"}
                               /\ told = "QuoteTransferOutOfGas" => pays
                               /\ reason \in DeclaredErrors => told = reason
                               /\ reason \notin DeclaredErrors => told \notin DeclaredErrors
    <2> SUFFICES \E reason : (depth <= MaxLayers + 1 => reason = data[depth]) /\ Told(reason)
        BY <1>1, <1>3
    <2>2. CASE data = <<"empty">>
        <3>1. told = IF pays THEN "QuoteTransferOutOfGas" ELSE "EmptyRevert"
            BY <1>1, <1>2, <1>6, <2>2, RevertArms, Zenon
        <3>2. data[depth] = "empty"
            BY <1>3, <2>2
        <3>3. Told("empty")
            BY <3>1, NotDeclared DEF Codes, SdkCodes
        <3> QED BY <3>2, <3>3
    <2>3. CASE data # <<"empty">> /\ Head(data) = "WrappedError" /\ depth > 1
        <3>1. told = Unwrap(data)
            BY <1>1, <1>2, <1>3, <1>6, <2>3, RevertArms, Zenon
        <3>2. Layers(data) = IF depth <= MaxLayers + 1 THEN depth - 1 ELSE MaxLayers
            BY <1>2, <1>3, <2>1, LayersTakenOff
        <3> DEFINE reason == data[Layers(data) + 1]
        <3>3. depth <= MaxLayers + 1 => Layers(data) + 1 = depth
            BY <1>3, <3>2 DEF MaxLayers
        <3>4. told = IF Known(reason) THEN MapRevertData(reason) ELSE "WrappedRevert"
            BY <3>1 DEF Unwrap
        <3>5. depth <= MaxLayers + 1 => reason = data[depth]
            BY <3>3
        <3> HIDE DEF reason
        <3>6. Told(reason)
            BY <3>4, ReasonTold
        <3> QED BY <3>5, <3>6
    <2>4. CASE data # <<"empty">> /\ (Head(data) # "WrappedError" \/ depth = 1)
        <3>1. depth = 1
            <4>1. ASSUME depth > 1 PROVE FALSE
                <5>1. data[1] = "WrappedError"
                    BY <1>3, <2>1, <4>1
                <5> QED BY <1>4, <2>4, <4>1, <5>1
            <4> QED BY <1>3, <4>1
        <3>2. told = MapRevertData(data[1])
            BY <1>1, <1>2, <1>3, <1>4, <1>6, <2>4, RevertArms, Zenon
        <3>3. Told(data[1])
            BY <3>2, ReasonTold
        <3> QED BY <3>1, <3>3
    <2> HIDE DEF Told
    <2> QED BY <1>3, <2>2, <2>3, <2>4
<1> QED BY <1>5, <1>6 DEF IsContractRevert

-----------------------------------------------------------------------------
(* The memos and the reads they hold.                                      *)

LEMMA SoundFacts ==
    ASSUME NEW p, NEW held, NEW kept, Sound(p, held, kept)
    PROVE  /\ held \in [Memos -> Nat] /\ kept \in Seq(Reads(p))
           /\ Len(kept) \in Nat /\ DOMAIN kept = 1 .. Len(kept)
           /\ \A r \in 1 .. Len(kept) : kept[r] \in Reads(p) /\ ReadFits(p, held, kept, r)
           /\ \A m \in Memos : MemoFits(held, kept, m)
    BY LenProperties, ElementOfSeq DEF Sound

\* A new read fits at the end: it is out, and of a memo that held none, or it is one
\* whose answer was known.
LEMMA Appending ==
    ASSUME NEW p, NEW held, NEW kept, Sound(p, held, kept),
           NEW read \in Reads(p), read.on = 0,
           NEW heldNext, heldNext = held \/ heldNext = [held EXCEPT ![read.memo] = Len(kept) + 1],
           \/ /\ read.ended = "pending" /\ read.left >= 1 /\ held[read.memo] = 0
              /\ heldNext # held
           \/ /\ read.ended = "answered" /\ read.memo # "router"
              /\ read.memo = "quote" => read.decimals = p.decimals.curve
    PROVE  Carries(p, held, kept, heldNext, Append(kept, read))
<1>1. PICK next : next = Append(kept, read)
    OBVIOUS
<1>2. PICK n \in Nat : n = Len(kept)
    BY SoundFacts
<1>3. /\ held \in [Memos -> Nat] /\ read.memo \in Memos
      /\ \A r \in 1 .. n : kept[r] \in Reads(p) /\ ReadFits(p, held, kept, r)
      /\ \A m \in Memos : MemoFits(held, kept, m)
    BY <1>2, SoundFacts DEF Reads
<1>4. next \in Seq(Reads(p)) /\ Len(next) = n + 1 /\ next[n + 1] = read /\ \A r \in 1 .. n : next[r] = kept[r]
    BY <1>1, <1>2, SoundFacts, AppendProperties
<1>5. heldNext \in [Memos -> Nat] /\ \A m \in Memos : heldNext[m] = held[m] \/ (m = read.memo /\ heldNext[m] = n + 1)
    BY <1>2, <1>3
<1>6. read.ended = "pending" => heldNext[read.memo] = n + 1
    BY <1>2, <1>3
<1>7. ASSUME NEW r \in 1 .. n + 1 PROVE ReadFits(p, heldNext, next, r)
    <2>1. CASE r = n + 1
        BY <1>4, <1>6, <2>1 DEF ReadFits
    <2>2. CASE r \in 1 .. n
        <3>1. next[r] = kept[r] /\ ReadFits(p, held, kept, r) /\ kept[r].on \in Nat
            BY <1>3, <1>4, <2>2 DEF Reads
        <3>2. kept[r].on # 0 => next[kept[r].on] = kept[kept[r].on] /\ kept[r].on \in 1 .. n
            BY <1>2, <1>4, <3>1 DEF ReadFits
        <3>3. kept[r].ended = "pending" /\ kept[r].memo = "router" => heldNext["router"] = r
            <4>1. SUFFICES ASSUME kept[r].ended = "pending", kept[r].memo = "router"
                           PROVE  heldNext["router"] = held["router"]
                BY <3>1 DEF ReadFits
            <4>2. held["router"] # 0
                BY <3>1, <4>1, <2>2 DEF ReadFits
            <4> QED BY <1>2, <1>3, <4>2 DEF Memos
        <3> QED BY <1>4, <3>1, <3>2, <3>3 DEF ReadFits
    <2> QED BY <1>2, <2>1, <2>2
<1>8. ASSUME NEW m \in Memos PROVE MemoFits(heldNext, next, m)
    <2>1. CASE heldNext[m] = held[m]
        BY <1>2, <1>3, <1>4, <2>1 DEF MemoFits
    <2>2. CASE m = read.memo /\ heldNext[m] = n + 1
        BY <1>2, <1>4, <2>2 DEF MemoFits
    <2> QED BY <1>5, <2>1, <2>2
<1>9. Sound(p, heldNext, next)
    BY <1>4, <1>5, <1>7, <1>8 DEF Sound
<1>10. Remains(kept, next)
    BY <1>2, <1>4 DEF Remains
<1>11. Remembers(held, kept, heldNext, next)
    <2> SUFFICES ASSUME NEW m \in Memos, held[m] # 0, kept[held[m]].ended = "answered"
                 PROVE  heldNext[m] # 0 /\ next[heldNext[m]].ended = "answered"
        BY DEF Remembers
    <2>1. CASE heldNext[m] = held[m]
        BY <1>2, <1>3, <1>4, <2>1 DEF MemoFits
    <2>2. CASE m = read.memo /\ heldNext[m] = n + 1
        BY <1>2, <1>3, <1>4, <2>2
    <2> QED BY <1>5, <2>1, <2>2
<1> QED BY <1>1, <1>9, <1>10, <1>11 DEF Carries

\* A read that is out comes a step further, or ends; if it fails, its first handler
\* runs with that.
LEMMA Ending ==
    ASSUME NEW p, NEW held, NEW kept, Sound(p, held, kept),
           NEW r \in 1 .. Len(kept), kept[r].ended = "pending",
           NEW read \in Reads(p), read.memo = kept[r].memo,
           read.ended = "pending" /\ read.on = 0 => read.left >= 1,
           read.on # 0 => /\ read.memo = "quote"
                          /\ read.on \in 1 .. Len(kept)
                          /\ kept[read.on].memo = "metadata",
           read.ended = "answered" /\ read.memo = "quote" => read.decimals = p.decimals.curve,
           read.ended = "failed" => NoBlame(p, read.told, read.cause.about),
           NEW heldNext,
           heldNext = IF read.ended = "failed"
                      THEN [held EXCEPT ![read.memo] = Evicted(read.memo, held[read.memo], r)] ELSE held
    PROVE  Carries(p, held, kept, heldNext, [kept EXCEPT ![r] = read])
<1>1. PICK next : next = [kept EXCEPT ![r] = read]
    OBVIOUS
<1>2. PICK n \in Nat : n = Len(kept)
    BY SoundFacts
<1>3. /\ held \in [Memos -> Nat] /\ read.memo \in Memos
      /\ \A q \in 1 .. n : kept[q] \in Reads(p) /\ ReadFits(p, held, kept, q)
      /\ \A m \in Memos : MemoFits(held, kept, m)
    BY <1>2, SoundFacts DEF Reads
<1>4. next \in Seq(Reads(p)) /\ Len(next) = n /\ \A q \in 1 .. n : next[q] = IF q = r THEN read ELSE kept[q]
    BY <1>1, <1>2, SoundFacts, ExceptSeq
<1>5. \A q \in 1 .. n : next[q].memo = kept[q].memo
    BY <1>4
\* Only the memo of a read that failed changes, to nothing; if the read was its own.
<1>6. /\ heldNext \in [Memos -> Nat]
      /\ \A m \in Memos :
             \/ heldNext[m] = held[m] /\ (m = read.memo /\ read.ended = "failed" /\ m # "chain" => held[m] # r)
             \/ heldNext[m] = 0 /\ m = read.memo /\ read.ended = "failed" /\ held[m] = r
    <2>1. CASE read.ended # "failed"
        BY <1>3, <2>1
    <2>2. CASE read.ended = "failed"
        <3>1. read.memo = "router" => held["router"] = r
            <4>1. ReadFits(p, held, kept, r) /\ kept[r].ended = "pending" /\ kept[r].memo = read.memo
                BY <1>2, <1>3
            <4> QED BY <4>1 DEF ReadFits
        <3>2. /\ Evicted(read.memo, held[read.memo], r) \in Nat
              /\ \/ /\ Evicted(read.memo, held[read.memo], r) = held[read.memo]
                    /\ read.memo # "chain" => held[read.memo] # r
                 \/ Evicted(read.memo, held[read.memo], r) = 0 /\ held[read.memo] = r
            BY <1>3, <3>1 DEF Evicted
        <3>3. /\ heldNext[read.memo] = Evicted(read.memo, held[read.memo], r)
              /\ \A m \in Memos : m # read.memo => heldNext[m] = held[m]
              /\ DOMAIN heldNext = Memos
            BY <1>3, <2>2
        <3> QED BY <1>3, <2>2, <3>2, <3>3
    <2> QED BY <2>1, <2>2
<1>7. ASSUME NEW q \in 1 .. n PROVE ReadFits(p, heldNext, next, q)
    <2>1. CASE q = r
        <3>1. read.ended = "pending" /\ read.memo = "router" => heldNext["router"] = r
            <4>1. ReadFits(p, held, kept, r) /\ kept[r].ended = "pending" /\ kept[r].memo = read.memo
                BY <1>2, <1>3
            <4>2. read.ended = "pending" => heldNext = held
                OBVIOUS
            <4> QED BY <4>1, <4>2 DEF ReadFits
        <3>2. read.on # 0 => next[read.on].memo = "metadata" /\ read.on \in 1 .. n
            BY <1>2, <1>5
        <3> QED BY <1>4, <2>1, <3>1, <3>2 DEF ReadFits
    <2>2. CASE q # r
        <3>1. next[q] = kept[q] /\ ReadFits(p, held, kept, q)
            BY <1>3, <1>4, <2>2
        <3>2. kept[q].on # 0 => next[kept[q].on].memo = "metadata" /\ kept[q].on \in 1 .. n
            BY <1>2, <1>5, <3>1 DEF ReadFits
        <3>3. kept[q].ended = "pending" /\ kept[q].memo = "router" => heldNext["router"] = q
            BY <1>6, <2>2, <3>1 DEF ReadFits, Memos
        <3> QED BY <1>2, <1>4, <3>1, <3>2, <3>3 DEF ReadFits
    <2> QED BY <2>1, <2>2
<1>8. ASSUME NEW m \in Memos PROVE MemoFits(heldNext, next, m)
    <2>1. CASE heldNext[m] = 0
        BY <2>1 DEF MemoFits
    <2>2. CASE heldNext[m] # 0
        <3>1. heldNext[m] = held[m] /\ held[m] \in 1 .. n /\ kept[held[m]].memo = m
            BY <1>2, <1>3, <1>6, <2>2 DEF MemoFits
        <3>2. m # "chain" => next[held[m]].ended # "failed"
            <4>1. CASE held[m] = r
                BY <1>4, <1>6, <2>2, <3>1, <4>1
            <4>2. CASE held[m] # r
                BY <1>3, <1>4, <2>2, <3>1, <4>2 DEF MemoFits
            <4> QED BY <4>1, <4>2
        <3> QED BY <1>4, <1>5, <3>1, <3>2 DEF MemoFits
    <2> QED BY <2>1, <2>2
<1>9. Sound(p, heldNext, next)
    BY <1>4, <1>6, <1>7, <1>8 DEF Sound
<1>10. Remains(kept, next)
    BY <1>2, <1>4, <1>5 DEF Remains
<1>11. Remembers(held, kept, heldNext, next)
    <2> SUFFICES ASSUME NEW m \in Memos, held[m] # 0, kept[held[m]].ended = "answered"
                 PROVE  heldNext[m] # 0 /\ next[heldNext[m]].ended = "answered"
        BY DEF Remembers
    <2>1. held[m] # r /\ held[m] \in 1 .. n
        BY <1>2, <1>3 DEF MemoFits
    <2>2. heldNext[m] = held[m]
        BY <1>6, <2>1
    <2> QED BY <1>4, <2>1, <2>2
<1> QED BY <1>1, <1>9, <1>10, <1>11 DEF Carries

\* A handler that runs late finds its own read, which failed, or leaves the memo alone.
LEMMA LateEviction ==
    ASSUME NEW p, NEW held, NEW kept, Sound(p, held, kept),
           NEW r \in 1 .. Len(kept), kept[r].ended = "failed", kept[r].memo \in {"version", "quote"},
           NEW heldNext, heldNext = [held EXCEPT ![kept[r].memo] = Evicted(kept[r].memo, held[kept[r].memo], r)]
    PROVE  Carries(p, held, kept, heldNext, kept)
<1>1. PICK m \in Memos : m = kept[r].memo /\ m \in {"version", "quote"}
    BY DEF Memos
<1>2. held \in [Memos -> Nat] /\ MemoFits(held, kept, m)
    BY SoundFacts
<1>3. held[m] # r \/ held[m] = 0
    BY <1>1, <1>2 DEF MemoFits
<1>4. Evicted(m, held[m], r) = held[m]
    BY <1>1, <1>3 DEF Evicted
<1>5. heldNext = held
    BY <1>1, <1>2, <1>4
<1>6. Remains(kept, kept) /\ Remembers(held, kept, held, kept)
    BY SoundFacts DEF Remains, Remembers
<1> QED BY <1>5, <1>6 DEF Carries

LEMMA PlanFacts ==
    ASSUME plan \in Plans
    PROVE  /\ plan.there \in {"curve", "oldCurve", "token", "foreign", "nothing"}
           /\ plan.decimals.curve \in Nat /\ plan.decimals.listed \in Nat
           /\ plan.decimals.erc20 \in Nat /\ plan.decimals.registry \in Nat
           /\ plan.batched \in BOOLEAN
           /\ \A e \in plan.errors : e \in Thrown /\ IsContractRevert(e)
           /\ Calls = 1 .. Len(plan.calls) /\ Len(plan.calls) \in Nat
           /\ \A c \in Calls : Kind(c) \in Kinds
<1>1. plan \in [ there : {"curve", "oldCurve", "token", "foreign", "nothing"},
                 right : SUBSET {"chain", "launchpad", "hook"},
                 quote : {"native", "listed", "unlisted"},
                 decimals : [curve : Nat, listed : Nat, erc20 : Nat, registry : Nat],
                 batched : BOOLEAN, errors : SUBSET Thrown,
                 calls : Seq([kind : Kinds, tries : Nat]) ]
    BY PlansAssumption
<1>2. \A e \in plan.errors : IsContractRevert(e)
    BY PlansAssumption
<1>3. plan.calls \in Seq([kind : Kinds, tries : Nat])
    BY <1>1
<1>4. Calls = 1 .. Len(plan.calls) /\ Len(plan.calls) \in Nat
    BY <1>3, LenProperties DEF Calls
<1>5. \A c \in Calls : plan.calls[c] \in [kind : Kinds, tries : Nat]
    BY <1>3, <1>4, ElementOfSeq
<1> QED BY <1>1, <1>2, <1>4, <1>5 DEF Kind

\* What the causes of a plan are.
LEMMA CauseFacts ==
    ASSUME NEW p
    PROVE  /\ Transport \in Causes(p) /\ NoData \in Causes(p)
           /\ RevertOf(<<"empty">>) \in Causes(p) /\ RevertOf(<<"other">>) \in Causes(p)
           /\ \A code \in SdkCodes : Refusal(code) \in Causes(p) /\ code \in Codes
           /\ p.errors \subseteq Causes(p)
    BY DEF Causes, Codes

LEMMA NewReads ==
    ASSUME plan \in Plans, NEW m \in Memos
    PROVE  /\ Started(m) \in Reads(plan)
           /\ Started(m).memo = m /\ Started(m).on = 0
           /\ Started(m).ended = "pending" /\ Started(m).left >= 1
           /\ \A decimals \in Nat :
                  /\ AnsweredRead(m, decimals) \in Reads(plan)
                  /\ AnsweredRead(m, decimals).memo = m /\ AnsweredRead(m, decimals).on = 0
                  /\ AnsweredRead(m, decimals).ended = "answered"
                  /\ AnsweredRead(m, decimals).decimals = decimals
<1>1. Rpcs(m) \in Nat /\ Rpcs(m) >= 1
    BY DEF Rpcs
<1>2. PICK none : none = "" /\ none \in Codes
    BY DEF Codes
<1>3. Transport \in Causes(plan)
    BY CauseFacts
<1>4. PICK start : start = Started(m)
    OBVIOUS
<1>5. start = [memo |-> m, left |-> Rpcs(m), on |-> 0, ended |-> "pending", decimals |-> 0,
               told |-> none, cause |-> Transport]
    BY <1>2, <1>4 DEF Started
<1>6. start \in Reads(plan)
    BY <1>1, <1>2, <1>3, <1>5 DEF Reads
<1>7. ASSUME NEW decimals \in Nat, NEW read, read = AnsweredRead(m, decimals)
      PROVE  /\ read \in Reads(plan) /\ read.memo = m /\ read.on = 0
             /\ read.ended = "answered" /\ read.decimals = decimals
    <2>1. read = [start EXCEPT !.left = 0, !.ended = "answered", !.decimals = decimals]
        BY <1>4, <1>7 DEF AnsweredRead
    <2> QED BY <1>5, <1>6, <2>1 DEF Reads
<1> QED BY <1>1, <1>4, <1>5, <1>6, <1>7

\* Whoever asks for a memo gets a read of it, which has not failed before they asked
\* unless it is the chain's.
LEMMA Joining ==
    ASSUME plan \in Plans, Sound(plan, memo, reads), NEW m \in Memos, NEW joined, joined = Joined(m)
    PROVE  /\ Carries(plan, memo, reads, joined.memo, joined.reads)
           /\ \A r \in 1 .. Len(reads) : joined.reads[r] = reads[r]
           /\ joined.read \in 1 .. Len(joined.reads)
           /\ joined.reads[joined.read].memo = m
           /\ m # "chain" => joined.reads[joined.read].ended # "failed"
<1>1. Len(reads) \in Nat /\ memo \in [Memos -> Nat] /\ MemoFits(memo, reads, m) /\ reads \in Seq(Reads(plan))
    BY SoundFacts
<1>2. ASSUME NEW read \in Reads(plan), read.memo = m, read.ended # "failed",
             joined.read = Len(reads) + 1, joined.reads = Append(reads, read)
      PROVE  /\ \A r \in 1 .. Len(reads) : joined.reads[r] = reads[r]
             /\ joined.read \in 1 .. Len(joined.reads)
             /\ joined.reads[joined.read].memo = m
             /\ joined.reads[joined.read].ended # "failed"
    BY <1>1, <1>2, AppendProperties
<1>3. CASE Configured(m)
    <2>1. PICK read : read = AnsweredRead(m, plan.decimals.listed)
        OBVIOUS
    <2>2. /\ read \in Reads(plan) /\ read.memo = m /\ read.on = 0 /\ read.ended = "answered"
          /\ m = "metadata"
        BY <1>3, <2>1, NewReads, PlanFacts DEF Configured
    <2>3. joined = [read |-> Len(reads) + 1, memo |-> memo, reads |-> Append(reads, read)]
        BY <1>3, <2>1 DEF Joined
    <2>4. joined.read = Len(reads) + 1 /\ joined.memo = memo /\ joined.reads = Append(reads, read)
        BY <2>3
    <2>5. Carries(plan, memo, reads, memo, Append(reads, read))
        <3>1. read.memo # "router" /\ read.memo # "quote"
            BY <2>2
        <3> QED BY <2>2, <3>1, Appending
    <2>6. Carries(plan, memo, reads, joined.memo, joined.reads)
        BY <2>4, <2>5
    <2> QED BY <1>2, <2>2, <2>4, <2>6
<1>4. CASE ~Configured(m) /\ memo[m] # 0
    <2>1. joined = [read |-> memo[m], memo |-> memo, reads |-> reads]
        BY <1>4 DEF Joined
    <2>2. Remains(reads, reads) /\ Remembers(memo, reads, memo, reads)
        BY <1>1 DEF Remains, Remembers
    <2> QED BY <1>1, <1>4, <2>1, <2>2 DEF MemoFits, Carries
<1>5. CASE ~Configured(m) /\ memo[m] = 0
    <2>1. PICK read, heldNext : read = Started(m) /\ heldNext = [memo EXCEPT ![m] = Len(reads) + 1]
        OBVIOUS
    <2>2. read \in Reads(plan) /\ read.memo = m /\ read.on = 0 /\ read.ended = "pending" /\ read.left >= 1
        BY <2>1, NewReads
    <2>3. joined = [read |-> Len(reads) + 1, memo |-> heldNext, reads |-> Append(reads, read)]
        BY <1>5, <2>1 DEF Joined
    <2>4. joined.read = Len(reads) + 1 /\ joined.memo = heldNext /\ joined.reads = Append(reads, read)
        BY <2>3
    <2>5. Carries(plan, memo, reads, heldNext, Append(reads, read))
        <3>1. heldNext = [memo EXCEPT ![read.memo] = Len(reads) + 1] /\ memo[read.memo] = 0
            BY <1>5, <2>1, <2>2
        <3>2. heldNext # memo
            BY <1>1, <1>5, <2>1
        <3> QED BY <2>2, <3>1, <3>2, Appending
    <2>6. Carries(plan, memo, reads, joined.memo, joined.reads)
        BY <2>4, <2>5
    <2>7. read.ended # "failed"
        BY <2>2
    <2> QED BY <1>2, <2>2, <2>4, <2>6, <2>7
<1> QED BY <1>3, <1>4, <1>5

\* A step that leaves the memos and the reads, and one that records an answer.
LEMMA Staying ==
    ASSUME NEW p, NEW held, NEW kept, Sound(p, held, kept)
    PROVE  Carries(p, held, kept, held, kept)
    BY SoundFacts DEF Carries, Remains, Remembers

LEMMA Noting ==
    ASSUME plan \in Plans, Sound(plan, memo, reads), NEW m \in {"metadata", "quote"}, NEW decimals \in Nat,
           m = "quote" => decimals = plan.decimals.curve, Record(m, decimals)
    PROVE  Carries(plan, memo, reads, memo', reads')
<1>1. PICK read : read = AnsweredRead(m, decimals)
    OBVIOUS
<1>2. m \in Memos
    BY DEF Memos
<1>3. /\ read \in Reads(plan) /\ read.memo = m /\ read.on = 0 /\ read.ended = "answered"
      /\ read.decimals = decimals
    BY <1>1, <1>2, NewReads
<1>4. memo' = [memo EXCEPT ![read.memo] = Len(reads) + 1] /\ reads' = Append(reads, read)
    BY <1>1, <1>3 DEF Record
<1>5. read.memo # "router" /\ (read.memo = "quote" => read.decimals = plan.decimals.curve)
    BY <1>3
<1>6. PICK heldNext, next : heldNext = memo' /\ next = reads'
    OBVIOUS
<1>7. Carries(plan, memo, reads, heldNext, Append(reads, read))
    BY <1>3, <1>4, <1>5, <1>6, Appending
<1> QED BY <1>4, <1>6, <1>7

LEMMA Failing ==
    ASSUME plan \in Plans, Sound(plan, memo, reads), NEW r \in 1 .. Len(reads), reads[r].ended = "pending",
           NEW told \in Codes, NEW cause \in Causes(plan), NoBlame(plan, told, cause.about),
           Fail(r, told, cause)
    PROVE  Carries(plan, memo, reads, memo', reads')
<1>1. reads[r] \in Reads(plan) /\ ReadFits(plan, memo, reads, r) /\ reads \in Seq(Reads(plan))
    BY SoundFacts
<1>2. PICK read : read = [reads[r] EXCEPT !.ended = "failed", !.told = told, !.cause = cause]
    OBVIOUS
<1>3. /\ read \in Reads(plan) /\ read.memo = reads[r].memo /\ read.on = reads[r].on
      /\ read.ended = "failed" /\ read.told = told /\ read.cause = cause
    BY <1>1, <1>2 DEF Reads
<1>4. reads' = [reads EXCEPT ![r] = read]
    BY <1>1, <1>2 DEF Fail
<1>5. memo' = [memo EXCEPT ![read.memo] = Evicted(read.memo, memo[read.memo], r)]
    BY <1>3 DEF Fail
<1>6. read.on # 0 => /\ read.memo = "quote"
                     /\ read.on \in 1 .. Len(reads)
                     /\ reads[read.on].memo = "metadata"
    BY <1>1, <1>3 DEF ReadFits
<1>7. PICK heldNext : heldNext = memo'
    OBVIOUS
<1>8. Carries(plan, memo, reads, heldNext, [reads EXCEPT ![r] = read])
    BY <1>3, <1>5, <1>6, <1>7, Ending
<1> QED BY <1>4, <1>7, <1>8

LEMMA Answering ==
    ASSUME plan \in Plans, Sound(plan, memo, reads), NEW r \in 1 .. Len(reads), reads[r].ended = "pending",
           NEW decimals \in Nat, reads[r].memo = "quote" => decimals = plan.decimals.curve,
           Answer(r, decimals)
    PROVE  Carries(plan, memo, reads, memo', reads')
<1>1. reads[r] \in Reads(plan) /\ ReadFits(plan, memo, reads, r) /\ reads \in Seq(Reads(plan))
    BY SoundFacts
<1>2. PICK read : read = [reads[r] EXCEPT !.left = 0, !.ended = "answered", !.decimals = decimals]
    OBVIOUS
<1>3. /\ read \in Reads(plan) /\ read.memo = reads[r].memo /\ read.on = reads[r].on
      /\ read.ended = "answered" /\ read.decimals = decimals
    BY <1>1, <1>2 DEF Reads
<1>4. reads' = [reads EXCEPT ![r] = read] /\ memo' = memo
    BY <1>1, <1>2 DEF Answer
<1>5. read.on # 0 => /\ read.memo = "quote"
                     /\ read.on \in 1 .. Len(reads)
                     /\ reads[read.on].memo = "metadata"
    BY <1>1, <1>3 DEF ReadFits
<1>6. Carries(plan, memo, reads, memo, [reads EXCEPT ![r] = read])
    BY <1>3, <1>5, Ending
<1> QED BY <1>4, <1>6

LEMMA Following ==
    ASSUME NEW p, NEW held, NEW kept, Sound(p, held, kept),
           NEW heldNext, NEW next, Carries(p, held, kept, heldNext, next),
           NEW heldLast, NEW last, Carries(p, heldNext, next, heldLast, last)
    PROVE  Carries(p, held, kept, heldLast, last)
<1>1. /\ Sound(p, heldLast, last)
      /\ Remains(kept, next) /\ Remains(next, last)
      /\ Remembers(held, kept, heldNext, next) /\ Remembers(heldNext, next, heldLast, last)
    BY DEF Carries
<1>2. Len(kept) \in Nat /\ Len(next) \in Nat /\ Len(last) \in Nat
    BY SoundFacts DEF Carries
<1>3. Remains(kept, last)
    BY <1>1, <1>2 DEF Remains
<1>4. Remembers(held, kept, heldLast, last)
    BY <1>1 DEF Remembers
<1> QED BY <1>1, <1>3, <1>4 DEF Carries

-----------------------------------------------------------------------------
(* The reads' own steps.                                                   *)

LEMMA ReadFailsCarries ==
    ASSUME plan \in Plans, Sound(plan, memo, reads), NEW r \in DOMAIN reads, ReadFails(r)
    PROVE  Carries(plan, memo, reads, memo', reads')
<1>1. r \in 1 .. Len(reads) /\ reads[r].ended = "pending"
    BY SoundFacts DEF ReadFails
<1>2. PICK m : m = reads[r].memo
    OBVIOUS
<1>3. PICK e \in Broken(m) \cup {Transport} :
          Fail(r, IF m = "version" THEN VersionRefusal(e) ELSE MapError(e, FALSE), e)
    BY <1>2 DEF ReadFails
<1>4. PICK told : told = IF m = "version" THEN VersionRefusal(e) ELSE MapError(e, FALSE)
    OBVIOUS
<1>5. CASE e = Transport
    <2>1. MapError(e, FALSE) = "RpcFailure"
        BY <1>5, TransportTold
    <2>2. ~IsRevert(e) /\ e.about = "transport"
        BY <1>5 DEF IsRevert, RevertData, Transport
    <2>3. told = "RpcFailure"
        BY <1>4, <2>1, <2>2 DEF VersionRefusal
    <2>4. told \in Codes /\ e \in Causes(plan)
        BY <1>5, <2>3, CauseFacts DEF SdkCodes, Codes
    <2>5. NoBlame(plan, told, e.about)
        BY <2>3 DEF NoBlame
    <2> QED BY <1>1, <1>3, <1>4, <2>4, <2>5, Failing
<1>6. CASE e \in Broken(m)
    <2>1. m = "version" /\ plan.there \in {"foreign", "nothing"}
        BY <1>6 DEF Broken
    <2>2. e \in {RevertOf(<<"empty">>), RevertOf(<<"other">>), NoData}
        BY <1>6 DEF Broken
    <2>3. e.about # "transport" /\ (IsRevert(e) \/ e.about = "noData")
        BY <2>2 DEF RevertOf, NoData, IsRevert, RevertData
    <2>4. told = "AddressIsNotACurve"
        BY <1>4, <2>1, <2>3 DEF VersionRefusal
    <2>5. told \in Codes /\ e \in Causes(plan)
        BY <2>2, <2>4, CauseFacts DEF SdkCodes, Codes
    <2>6. NoBlame(plan, told, e.about)
        BY <2>1, <2>3, <2>4 DEF NoBlame
    <2> QED BY <1>1, <1>3, <1>4, <2>5, <2>6, Failing
<1> QED BY <1>3, <1>5, <1>6

\* A refusal that is part of a read blames the address only if no curve is there.
LEMMA Refusing ==
    ASSUME NEW p, NEW code \in SdkCodes, code # "QuoteTransferOutOfGas",
           code = "AddressIsNotACurve" => p.there = "token"
    PROVE  /\ code \in Codes /\ Refusal(code) \in Causes(p)
           /\ Refusal(code).about = "arcnow"
           /\ NoBlame(p, code, Refusal(code).about)
    BY CauseFacts DEF Refusal, NoBlame

LEMMA ReadAnswersCarries ==
    ASSUME plan \in Plans, Sound(plan, memo, reads), NEW r \in DOMAIN reads, ReadAnswers(r)
    PROVE  Carries(plan, memo, reads, memo', reads')
<1>1. /\ r \in 1 .. Len(reads) /\ reads[r].ended = "pending" /\ reads[r].on = 0
      /\ reads[r] \in Reads(plan) /\ ReadFits(plan, memo, reads, r) /\ reads \in Seq(Reads(plan))
    BY SoundFacts DEF ReadAnswers
<1>2. PICK m \in Memos : m = reads[r].memo
    BY <1>1 DEF Reads
<1>3. reads[r].left \in Nat /\ reads[r].left >= 1
    BY <1>1 DEF ReadFits, Reads
<1>4. CASE reads[r].left > 1
    <2>1. reads' = [reads EXCEPT ![r].left = @ - 1] /\ memo' = memo
        <3>1. reads[r].left # 1
            BY <1>3, <1>4
        <3> QED BY <1>4, <3>1, Zenon DEF ReadAnswers
    <2>2. PICK read : read = [reads[r] EXCEPT !.left = @ - 1]
        OBVIOUS
    <2>3. /\ read \in Reads(plan) /\ read.memo = reads[r].memo /\ read.on = 0
          /\ read.ended = "pending" /\ read.left >= 1
        <3>1. PICK left \in Nat : left = reads[r].left - 1 /\ left >= 1
            BY <1>3, <1>4
        <3>2. read = [reads[r] EXCEPT !.left = left]
            BY <2>2, <3>1
        <3> QED BY <1>1, <3>1, <3>2 DEF Reads
    <2>4. reads' = [reads EXCEPT ![r] = read]
        BY <1>1, <2>1, <2>2
    <2>5. Carries(plan, memo, reads, memo, [reads EXCEPT ![r] = read])
        BY <1>1, <2>3, Ending
    <2> QED BY <2>1, <2>4, <2>5
<1>5. CASE reads[r].left = 1 /\ m = "quote"
    <2>1. PICK joined : joined = Joined("metadata")
        OBVIOUS
    <2>2. reads' = [joined.reads EXCEPT ![r].left = 0, ![r].on = joined.read] /\ memo' = joined.memo
        BY <1>2, <1>5, <2>1 DEF ReadAnswers
    <2>3. PICK held, kept : held = joined.memo /\ kept = joined.reads
        OBVIOUS
    <2>4. /\ Carries(plan, memo, reads, held, kept)
          /\ \A q \in 1 .. Len(reads) : kept[q] = reads[q]
          /\ joined.read \in 1 .. Len(kept)
          /\ kept[joined.read].memo = "metadata"
        <3>1. "metadata" \in Memos
            BY DEF Memos
        <3> QED BY <2>1, <2>3, <3>1, Joining
    <2>5. Sound(plan, held, kept) /\ Len(reads) <= Len(kept)
        BY <2>4 DEF Carries, Remains
    <2>6. kept \in Seq(Reads(plan)) /\ Len(kept) \in Nat /\ Len(reads) \in Nat
        BY <2>5, SoundFacts
    <2>7. r \in 1 .. Len(kept) /\ kept[r] = reads[r]
        BY <1>1, <2>4, <2>5, <2>6
    <2>8. PICK read : read = [kept[r] EXCEPT !.left = 0, !.on = joined.read]
        OBVIOUS
    <2>9. /\ read \in Reads(plan) /\ read.memo = "quote" /\ read.on = joined.read /\ read.ended = "pending"
          /\ read.on # 0
        <3>1. joined.read \in Nat /\ joined.read # 0
            BY <2>4, <2>6
        <3>2. kept[r] \in Reads(plan) /\ kept[r].memo = "quote" /\ kept[r].ended = "pending"
            BY <1>1, <1>2, <1>5, <2>7
        <3> QED BY <2>8, <3>1, <3>2 DEF Reads
    <2>10. reads' = [kept EXCEPT ![r] = read]
        BY <2>2, <2>3, <2>6, <2>7, <2>8
    <2>11. read.memo = kept[r].memo /\ kept[r].ended = "pending"
        BY <1>1, <1>2, <1>5, <2>7, <2>9
    <2>12. Carries(plan, held, kept, held, [kept EXCEPT ![r] = read])
        BY <2>4, <2>5, <2>7, <2>9, <2>11, Ending
    <2>13. Carries(plan, memo, reads, held, [kept EXCEPT ![r] = read])
        BY <2>4, <2>12, Following
    <2> QED BY <2>2, <2>3, <2>10, <2>13
<1>6. CASE reads[r].left = 1 /\ m # "quote"
    <2>1. IF Verdict(m) # "" THEN Fail(r, Verdict(m), Refusal(Verdict(m))) ELSE Answer(r, plan.decimals.erc20)
        <3>1. ~(reads[r].left > 1) /\ ~(reads[r].left = 1 /\ m = "quote")
            BY <1>3, <1>6
        <3> QED BY <1>2, <3>1, Zenon DEF ReadAnswers
    <2>2. CASE Verdict(m) # ""
        <3>1. PICK code : code = Verdict(m)
            OBVIOUS
        <3>2. code \in {"ChainIdMismatch", "UnknownCurveVersion", "UnknownHookVersion"}
            BY <2>2, <3>1 DEF Verdict
        <3>3. code \in SdkCodes /\ code # "QuoteTransferOutOfGas" /\ code # "AddressIsNotACurve"
            BY <3>2 DEF SdkCodes
        <3>4. code \in Codes /\ Refusal(code) \in Causes(plan) /\ NoBlame(plan, code, Refusal(code).about)
            BY <3>3, Refusing
        <3>5. Fail(r, code, Refusal(code))
            BY <2>1, <2>2, <3>1
        <3> QED BY <1>1, <3>4, <3>5, Failing
    <2>3. CASE Verdict(m) = ""
        BY <1>1, <1>2, <1>6, <2>1, <2>3, Answering, PlanFacts
    <2> QED BY <2>2, <2>3
<1> QED BY <1>3, <1>4, <1>5, <1>6

\* Whatever is refused a label is refused for its decimals, and no one else is.
LEMMA Labelling ==
    ASSUME NEW decimals
    PROVE  /\ LabelRefused(decimals) = "" => decimals = plan.decimals.curve
           /\ LabelRefused(decimals) # "" => LabelRefused(decimals) = "RpcFailure"
<1>1. "RpcFailure" # ""
    OBVIOUS
<1> QED BY <1>1, Zenon DEF LabelRefused

LEMMA QuoteLabelledCarries ==
    ASSUME plan \in Plans, Sound(plan, memo, reads), NEW r \in DOMAIN reads, QuoteLabelled(r)
    PROVE  Carries(plan, memo, reads, memo', reads')
<1>1. /\ r \in 1 .. Len(reads) /\ reads[r].ended = "pending" /\ reads[r].on # 0
      /\ ReadFits(plan, memo, reads, r)
    BY SoundFacts DEF QuoteLabelled
<1>2. PICK label : label = reads[reads[r].on]
    OBVIOUS
<1>3. reads[r].memo = "quote" /\ reads[r].on \in 1 .. Len(reads)
    BY <1>1 DEF ReadFits
<1>4. label \in Reads(plan) /\ label.ended # "pending" /\ ReadFits(plan, memo, reads, reads[r].on)
    BY <1>2, <1>3, SoundFacts DEF QuoteLabelled
<1>5. PICK refused : refused = LabelRefused(label.decimals)
    OBVIOUS
<1>6. CASE label.ended = "failed"
    <2>1. Fail(r, label.told, label.cause)
        BY <1>2, <1>6, Zenon DEF QuoteLabelled
    <2>2. label.told \in Codes /\ label.cause \in Causes(plan)
        BY <1>4 DEF Reads
    <2>3. NoBlame(plan, label.told, label.cause.about)
        BY <1>2, <1>4, <1>6 DEF ReadFits
    <2> QED BY <1>1, <2>1, <2>2, <2>3, Failing
<1>7. CASE label.ended = "answered" /\ refused # ""
    <2>1. label.ended # "failed"
        BY <1>7
    <2>2. Fail(r, refused, Refusal(refused))
        BY <1>2, <1>5, <1>7, <2>1, Zenon DEF QuoteLabelled
    <2>3. refused = "RpcFailure"
        BY <1>5, <1>7, Labelling
    <2>4. refused \in SdkCodes /\ refused # "QuoteTransferOutOfGas" /\ refused # "AddressIsNotACurve"
        BY <2>3 DEF SdkCodes
    <2>5. refused \in Codes /\ Refusal(refused) \in Causes(plan) /\ NoBlame(plan, refused, Refusal(refused).about)
        BY <2>4, Refusing
    <2> QED BY <1>1, <2>2, <2>5, Failing
<1>8. CASE label.ended = "answered" /\ refused = ""
    <2>1. label.ended # "failed"
        BY <1>8
    <2>2. Answer(r, label.decimals)
        BY <1>2, <1>5, <1>8, <2>1, Zenon DEF QuoteLabelled
    <2>3. label.decimals = plan.decimals.curve /\ label.decimals \in Nat
        BY <1>4, <1>5, <1>8, Labelling DEF Reads
    <2> QED BY <1>1, <2>2, <2>3, Answering
<1>9. label.ended \in {"failed", "answered"}
    BY <1>4 DEF Reads
<1> QED BY <1>6, <1>7, <1>8, <1>9

LEMMA LateHandlerCarries ==
    ASSUME CachesHold, NEW h \in handlers, LateHandler(h)
    PROVE  Carries(plan, memo, reads, memo', reads')
<1>1. Sound(plan, memo, reads) /\ h.read \in 1 .. Len(reads) /\ reads[h.read].memo \in {"version", "quote"}
    BY DEF CachesHold
<1>2. CASE reads[h.read].ended = "failed"
    <2>1. PICK r \in 1 .. Len(reads) : r = h.read
        BY <1>1
    <2>2. PICK heldNext : heldNext = memo'
        OBVIOUS
    <2>3. heldNext = [memo EXCEPT ![reads[r].memo] = Evicted(reads[r].memo, memo[reads[r].memo], r)]
        BY <1>2, <2>1, <2>2 DEF LateHandler
    <2>4. Carries(plan, memo, reads, heldNext, reads)
        BY <1>1, <1>2, <2>1, <2>3, LateEviction
    <2> QED BY <2>2, <2>4 DEF LateHandler
<1>3. CASE reads[h.read].ended # "failed"
    BY <1>1, <1>3, Staying DEF LateHandler
<1> QED BY <1>2, <1>3

-----------------------------------------------------------------------------
(* The calls, which live on reads that only ever end.                      *)

CallsFit(now, kept) ==
    /\ DOMAIN now = Calls
    /\ \A c \in Calls : CallFits(plan, Kind(c), Needs(Kind(c)), now[c], kept)

LEMMA NeedFacts ==
    ASSUME NEW kind \in Kinds
    PROVE  /\ Len(Needs(kind)) \in Nat /\ Len(Needs(kind)) >= 1
           /\ kind = "quoteToken" => Needs(kind) = <<"version", "quote">>
           /\ kind = "state" => Needs(kind) = <<"version", "batch", "metadata">>
<1>1. Needs(kind) \in {<<"version">>, <<"version", "quote">>, <<"version", "batch", "metadata">>,
                       <<"metadata">>, <<"registry", "page">>, <<"registry", "page", "metadata">>,
                       <<"chain">>, <<"chain", "launchpad">>,
                       <<"chain", "version", "quote", "trade">>,
                       <<"chain", "migrated", "router", "poolVersions", "metadata", "trade">>}
    BY DEF Needs, Kinds
<1>2. Len(Needs(kind)) \in Nat /\ Len(Needs(kind)) >= 1
    BY <1>1
<1> QED BY <1>2 DEF Needs

\* A call that does nothing goes on fitting.
LEMMA CallStays ==
    ASSUME NEW p, NEW kind, NEW needs, NEW call, NEW kept, CallFits(p, kind, needs, call, kept),
           NEW next, Remains(kept, next), Len(kept) \in Nat, Len(next) \in Nat
    PROVE  CallFits(p, kind, needs, call, next)
<1>1. call.on # 0 => /\ call.on \in 1 .. Len(kept) /\ call.on \in 1 .. Len(next)
                     /\ next[call.on].memo = kept[call.on].memo
                     /\ kept[call.on].ended = "failed" => next[call.on].ended = "failed"
    <2> SUFFICES ASSUME call.on # 0
                 PROVE  /\ call.on \in 1 .. Len(kept) /\ call.on \in 1 .. Len(next)
                        /\ next[call.on].memo = kept[call.on].memo
                        /\ kept[call.on].ended = "failed" => next[call.on].ended = "failed"
        OBVIOUS
    <2>1. call.on \in 1 .. Len(kept)
        BY DEF CallFits
    <2> QED BY <2>1 DEF Remains
<1> QED BY <1>1 DEF CallFits

LEMMA CallThrows ==
    ASSUME NEW p, NEW kind, NEW needs, NEW call, NEW kept, CallFits(p, kind, needs, call, kept),
           NEW told \in Codes, NEW cause \in Causes(p), NoBlame(p, told, cause.about),
           /\ cause.about = "revert"
           /\ needs[call.at] = "trade"
           /\ Len(cause.data) <= MaxLayers + 1
           => LET reason == cause.data[Len(cause.data)]
              IN  /\ reason \in DeclaredErrors => told = reason
                  /\ reason \notin DeclaredErrors => told \notin DeclaredErrors,
           NEW call2, call2 = [call EXCEPT !.on = 0, !.state = "failed", !.told = told, !.cause = cause],
           NEW next
    PROVE  CallFits(p, kind, needs, call2, next)
<1>1. call \in CallRecords(p)
    BY DEF CallFits
<1>2. /\ call2 \in CallRecords(p)
      /\ call2.on = 0 /\ call2.state = "failed" /\ call2.told = told /\ call2.cause = cause
      /\ call2.at = call.at
      /\ call2.stale = call.stale
    BY <1>1 DEF CallRecords
<1>3. call.at \in 1 .. Len(needs) /\ (call.stale => needs[call.at] = "chain")
    BY DEF CallFits
<1>4. call2.stale => needs[call2.at] = "chain"
    BY <1>2, <1>3
<1> QED BY <1>2, <1>3, <1>4 DEF CallFits

LEMMA CallAdvances ==
    ASSUME NEW p, NEW kind, NEW needs, NEW call, NEW kept, CallFits(p, kind, needs, call, kept),
           Len(needs) \in Nat, call.state = "running", ~call.stale,
           NEW decimals \in Nat,
           call.at = Len(needs) /\ kind \in {"quoteToken", "state"} => decimals = p.decimals.curve,
           NEW call2,
           call2 = [call EXCEPT !.on = 0, !.decimals = decimals,
                                !.at = IF @ = Len(needs) THEN @ ELSE @ + 1,
                                !.state = IF call.at = Len(needs) THEN "done" ELSE @],
           NEW next
    PROVE  CallFits(p, kind, needs, call2, next)
<1>1. call \in CallRecords(p) /\ call.at \in 1 .. Len(needs)
    BY DEF CallFits
<1>2. PICK at \in 1 .. Len(needs) : at = IF call.at = Len(needs) THEN call.at ELSE call.at + 1
    BY <1>1
<1>3. PICK state \in {"running", "done"} : state = IF call.at = Len(needs) THEN "done" ELSE call.state
    OBVIOUS
<1>4. call2 = [call EXCEPT !.on = 0, !.decimals = decimals, !.at = at, !.state = state]
    BY <1>2, <1>3
<1>5. /\ call2 \in CallRecords(p)
      /\ call2.on = 0 /\ call2.state = state /\ call2.decimals = decimals /\ call2.at = at
      /\ call2.stale = call.stale
    <2>1. at \in Nat /\ state \in {"idle", "running", "done", "failed"}
        BY <1>2, <1>3
    <2>2. call2 \in CallRecords(p)
        <3>1. PICK half : half = [call EXCEPT !.on = 0, !.decimals = decimals]
            OBVIOUS
        <3>2. half \in CallRecords(p)
            BY <1>1, <3>1 DEF CallRecords
        <3>3. call2 = [half EXCEPT !.at = at, !.state = state]
            BY <1>4, <3>1
        <3> QED BY <2>1, <3>2, <3>3 DEF CallRecords
    <2>3. /\ call2.on = 0 /\ call2.state = state /\ call2.decimals = decimals /\ call2.at = at
          /\ call2.stale = call.stale
        BY <1>1, <1>4 DEF CallRecords
    <2> QED BY <2>2, <2>3
<1>6. ~call2.stale
    BY <1>5
<1>7. state = "done" => call.at = Len(needs)
    BY <1>3
<1>8. state # "failed"
    BY <1>3
<1> QED BY <1>5, <1>6, <1>7, <1>8 DEF CallFits

\* One call moves, and the others go on fitting.
LEMMA OneCall ==
    ASSUME CachesHold, NEW c \in Calls, NEW call2, calls' = [calls EXCEPT ![c] = call2],
           NEW heldNext, NEW next, Carries(plan, memo, reads, heldNext, next),
           CallFits(plan, Kind(c), Needs(Kind(c)), call2, next)
    PROVE  CallsFit(calls', next)
<1>1. DOMAIN calls = Calls /\ Remains(reads, next) /\ Len(reads) \in Nat /\ Len(next) \in Nat
    BY SoundFacts DEF CachesHold, Carries
<1>2. ASSUME NEW d \in Calls PROVE CallFits(plan, Kind(d), Needs(Kind(d)), calls'[d], next)
    <2>1. CASE d = c
        BY <1>1, <2>1
    <2>2. CASE d # c
        <3>1. calls'[d] = calls[d] /\ CallFits(plan, Kind(d), Needs(Kind(d)), calls[d], reads)
            BY <1>1, <2>2 DEF CachesHold
        <3> QED BY <1>1, <3>1, CallStays
    <2> QED BY <2>1, <2>2
<1> QED BY <1>1, <1>2 DEF CallsFit

LEMMA NoCall ==
    ASSUME CachesHold, UNCHANGED calls,
           NEW heldNext, NEW next, Carries(plan, memo, reads, heldNext, next)
    PROVE  CallsFit(calls', next)
<1>1. DOMAIN calls = Calls /\ Remains(reads, next) /\ Len(reads) \in Nat /\ Len(next) \in Nat
    BY SoundFacts DEF CachesHold, Carries
<1>2. ASSUME NEW d \in Calls PROVE CallFits(plan, Kind(d), Needs(Kind(d)), calls[d], next)
    BY <1>1, CallStays DEF CachesHold
<1> QED BY <1>1, <1>2 DEF CallsFit

LEMMA IdleFits ==
    ASSUME NEW p, NEW kind \in Kinds, NEW tries \in Nat, NEW state \in {"idle", "running"}, NEW kept,
           NEW told \in Codes, NEW call,
           call = [state |-> state, tries |-> tries, at |-> 1, on |-> 0, stale |-> FALSE, decimals |-> 0,
                   told |-> told, cause |-> Transport]
    PROVE  CallFits(p, kind, Needs(kind), call, kept)
<1>1. Transport \in Causes(p)
    BY CauseFacts
<1>2. call \in CallRecords(p)
    BY <1>1 DEF CallRecords
<1>3. call.state # "failed" /\ call.state # "done" /\ call.on = 0 /\ call.at = 1 /\ ~call.stale
    OBVIOUS
<1>4. 1 \in 1 .. Len(Needs(kind))
    BY NeedFacts
<1> QED BY <1>2, <1>3, <1>4 DEF CallFits

LEMMA StartFits ==
    ASSUME CachesHold, NEW c \in Calls, Start(c)
    PROVE  CallsFit(calls', reads) /\ Carries(plan, memo, reads, memo, reads)
<1>1. PICK tries : tries = calls[c].tries + 1
    OBVIOUS
<1>2. calls[c] \in CallRecords(plan) /\ plan \in Plans /\ Sound(plan, memo, reads)
    BY DEF CachesHold, CallFits
<1>3. tries \in Nat
    BY <1>1, <1>2 DEF CallRecords
<1>4. PICK call2 : call2 = [Idle EXCEPT !.state = "running", !.tries = tries]
    OBVIOUS
<1>5. calls' = [calls EXCEPT ![c] = call2]
    BY <1>1, <1>4 DEF Start
<1>6. Kind(c) \in Kinds
    BY <1>2, PlanFacts
<1>7. CallFits(plan, Kind(c), Needs(Kind(c)), call2, reads)
    <2>1. PICK state \in {"idle", "running"} : state = "running"
        OBVIOUS
    <2>2. PICK told \in Codes : told = ""
        BY DEF Codes
    <2>3. call2 = [state |-> state, tries |-> tries, at |-> 1, on |-> 0, stale |-> FALSE, decimals |-> 0,
                   told |-> told, cause |-> Transport]
        BY <1>4, <2>1, <2>2 DEF Idle
    <2> QED BY <1>3, <1>6, <2>3, IdleFits
<1>8. Carries(plan, memo, reads, memo, reads)
    BY <1>2, Staying
<1> QED BY <1>5, <1>7, <1>8, OneCall

LEMMA AskFits ==
    ASSUME CachesHold, NEW c \in Calls, Ask(c)
    PROVE  CallsFit(calls', reads') /\ Carries(plan, memo, reads, memo', reads')
<1>1. PICK need, joined : need = Need(c) /\ joined = Joined(need)
    OBVIOUS
<1>2. PICK held, kept : held = joined.memo /\ kept = joined.reads
    OBVIOUS
<1>3. /\ plan \in Plans /\ Sound(plan, memo, reads) /\ DOMAIN calls = Calls
      /\ CallFits(plan, Kind(c), Needs(Kind(c)), calls[c], reads)
    BY DEF CachesHold
<1>4. need \in Memos /\ need = Needs(Kind(c))[calls[c].at] /\ calls[c].state = "running"
    BY <1>1 DEF Ask, Need
<1>5. /\ Carries(plan, memo, reads, held, kept)
      /\ joined.read \in 1 .. Len(kept)
      /\ kept[joined.read].memo = need
      /\ need # "chain" => kept[joined.read].ended # "failed"
    BY <1>1, <1>2, <1>3, <1>4, Joining
<1>6. memo' = held /\ reads' = kept
    BY <1>1, <1>2 DEF Ask
<1>7. PICK stale \in BOOLEAN : stale = (kept[joined.read].ended = "failed")
    OBVIOUS
<1>8. PICK call2 : call2 = [calls[c] EXCEPT !.on = joined.read, !.stale = stale]
    OBVIOUS
<1>9. calls' = [calls EXCEPT ![c] = call2]
    <2>1. calls' = [calls EXCEPT ![c].on = joined.read,
                                 ![c].stale = joined.reads[joined.read].ended = "failed"]
        BY <1>1 DEF Ask
    <2> QED BY <1>2, <1>3, <1>7, <1>8, <2>1
<1>10. calls[c] \in CallRecords(plan) /\ joined.read \in Nat
    BY <1>5, SoundFacts DEF Carries, CallFits, CachesHold
<1>11. /\ call2 \in CallRecords(plan)
       /\ call2.on = joined.read /\ call2.stale = stale
       /\ call2.state = "running" /\ call2.at = calls[c].at
    BY <1>4, <1>7, <1>8, <1>10 DEF CallRecords
<1>12. CallFits(plan, Kind(c), Needs(Kind(c)), call2, kept)
    <2>1. call2.stale => need = "chain" /\ kept[call2.on].ended = "failed"
        BY <1>5, <1>7, <1>11
    <2>2. call2.at \in 1 .. Len(Needs(Kind(c))) /\ Needs(Kind(c))[call2.at] = need
        BY <1>3, <1>4, <1>11 DEF CallFits
    <2>3. call2.on \in 1 .. Len(kept) /\ kept[call2.on].memo = need /\ call2.on # 0
        BY <1>5, <1>10, <1>11
    <2> QED BY <1>4, <1>11, <2>1, <2>2, <2>3 DEF CallFits
<1> QED BY <1>5, <1>6, <1>9, <1>12, OneCall

\* A version is refused by its name only, which blames the address if it is a token's.
LEMMA VersionRefusing ==
    VersionRefused # "" =>
        /\ VersionRefused \in SdkCodes /\ VersionRefused # "QuoteTransferOutOfGas"
        /\ VersionRefused = "AddressIsNotACurve" => plan.there = "token"
<1>1. CASE plan.there = "oldCurve"
    <2>1. VersionRefused = "UnknownCurveVersion"
        BY <1>1 DEF VersionRefused
    <2> QED BY <2>1 DEF SdkCodes
<1>2. CASE plan.there = "token"
    <2>1. VersionRefused = "AddressIsNotACurve"
        BY <1>2 DEF VersionRefused
    <2> QED BY <1>2, <2>1 DEF SdkCodes
<1>3. CASE plan.there # "oldCurve" /\ plan.there # "token"
    BY <1>3, Zenon DEF VersionRefused
<1> QED BY <1>1, <1>2, <1>3

LEMMA ResumeFits ==
    ASSUME CachesHold, NEW c \in Calls, Resume(c)
    PROVE  CallsFit(calls', reads') /\ Carries(plan, memo, reads, memo', reads')
<1>1. PICK call, needs, kind : call = calls[c] /\ needs = Needs(Kind(c)) /\ kind = Kind(c)
    OBVIOUS
<1>2. PICK read : read = reads[call.on]
    OBVIOUS
<1>3. /\ plan \in Plans /\ Sound(plan, memo, reads) /\ DOMAIN calls = Calls
      /\ CallFits(plan, kind, needs, call, reads)
      /\ kind \in Kinds
    BY <1>1, PlanFacts DEF CachesHold
<1>4. /\ call.on # 0 /\ call.on \in 1 .. Len(reads) /\ call.state = "running"
      /\ read.memo = needs[call.at] /\ read.memo \in Memos
      /\ read.ended # "pending" /\ call \in CallRecords(plan) /\ call.at \in 1 .. Len(needs)
    BY <1>1, <1>2, <1>3 DEF Resume, CallFits
<1>5. read \in Reads(plan) /\ ReadFits(plan, memo, reads, call.on) /\ read.decimals \in Nat
    BY <1>2, <1>3, <1>4, SoundFacts DEF Reads
<1>6. needs[call.at] # "trade"
    BY <1>4 DEF Memos
<1>7. PICK refused : refused = CASE read.memo = "version" /\ Kind(c) # "version" -> VersionRefused
                                 [] read.memo = "metadata" /\ Kind(c) = "state" -> LabelRefused(read.decimals)
                                 [] OTHER -> ""
    OBVIOUS
<1>8. CASE read.ended = "failed" \/ (read.ended = "answered" /\ refused # "")
    <2>1. PICK told, cause :
              /\ told \in Codes /\ cause \in Causes(plan) /\ NoBlame(plan, told, cause.about)
              /\ Throw(c, told, cause)
        <3>1. CASE read.ended = "failed"
            <4>1. Throw(c, read.told, read.cause)
                BY <1>1, <1>2, <3>1, Zenon DEF Resume
            <4>2. read.told \in Codes /\ read.cause \in Causes(plan)
                BY <1>5 DEF Reads
            <4>3. NoBlame(plan, read.told, read.cause.about)
                BY <1>2, <1>5, <3>1 DEF ReadFits
            <4> QED BY <4>1, <4>2, <4>3
        <3>2. CASE read.ended = "answered" /\ refused # ""
            <4>1. read.ended # "failed"
                BY <3>2
            <4>2. Throw(c, refused, Refusal(refused))
                BY <1>1, <1>2, <1>7, <3>2, <4>1, Zenon DEF Resume
            <4>3. /\ refused \in SdkCodes /\ refused # "QuoteTransferOutOfGas"
                  /\ refused = "AddressIsNotACurve" => plan.there = "token"
                <5>1. CASE read.memo = "version" /\ Kind(c) # "version"
                    <6>1. refused = VersionRefused
                        BY <1>7, <5>1
                    <6> QED BY <3>2, <6>1, VersionRefusing
                <5>2. CASE read.memo = "metadata" /\ Kind(c) = "state"
                    <6>1. refused = LabelRefused(read.decimals)
                        BY <1>7, <5>2
                    <6>2. refused = "RpcFailure"
                        BY <3>2, <6>1, Labelling
                    <6> QED BY <6>2 DEF SdkCodes
                <5>3. ~(read.memo = "version" /\ Kind(c) # "version")
                      /\ ~(read.memo = "metadata" /\ Kind(c) = "state") => refused = ""
                    BY <1>7, Zenon
                <5> QED BY <3>2, <5>1, <5>2, <5>3
            <4> QED BY <4>2, <4>3, Refusing
        <3> QED BY <1>8, <3>1, <3>2
    <2>2. PICK call2 : call2 = [call EXCEPT !.on = 0, !.state = "failed", !.told = told, !.cause = cause]
        OBVIOUS
    <2>3. calls' = [calls EXCEPT ![c] = call2]
        BY <1>1, <1>3, <2>1, <2>2 DEF Throw
    <2>4. CallFits(plan, kind, needs, call2, reads)
        BY <1>3, <1>6, <2>1, <2>2, CallThrows
    <2>5. calls'[c].state # "done"
        BY <1>3, <1>4, <2>2, <2>3 DEF CallRecords
    <2>6. memo' = memo /\ reads' = reads
        BY <2>5 DEF Resume
    <2>7. Carries(plan, memo, reads, memo, reads)
        BY <1>3, Staying
    <2> QED BY <1>1, <2>3, <2>4, <2>6, <2>7, OneCall
<1>9. CASE read.ended = "answered" /\ refused = ""
    <2>1. Advance(c, read.decimals)
        <3>1. read.ended # "failed"
            BY <1>9
        <3> QED BY <1>1, <1>2, <1>7, <1>9, <3>1, Zenon DEF Resume
    <2>2. call.at = Len(needs) /\ kind \in {"quoteToken", "state"} => read.decimals = plan.decimals.curve
        <3>1. CASE kind = "quoteToken" /\ call.at = Len(needs)
            <4>1. needs = <<"version", "quote">>
                BY <1>1, <1>3, <3>1, NeedFacts
            <4>2. read.memo = "quote"
                BY <1>4, <3>1, <4>1
            <4> QED BY <1>2, <1>5, <1>9, <4>2 DEF ReadFits
        <3>2. CASE kind = "state" /\ call.at = Len(needs)
            <4>1. needs = <<"version", "batch", "metadata">>
                BY <1>1, <1>3, <3>2, NeedFacts
            <4>2. read.memo = "metadata"
                BY <1>4, <3>2, <4>1
            <4>3. refused = LabelRefused(read.decimals)
                BY <1>1, <1>7, <3>2, <4>2
            <4> QED BY <1>9, <4>3, Labelling
        <3> QED BY <3>1, <3>2
    <2>3. PICK call2 :
              call2 = [call EXCEPT !.on = 0, !.decimals = read.decimals,
                                   !.at = IF @ = Len(needs) THEN @ ELSE @ + 1,
                                   !.state = IF call.at = Len(needs) THEN "done" ELSE @]
        OBVIOUS
    <2>4. calls' = [calls EXCEPT ![c] = call2]
        BY <1>1, <1>3, <2>1, <2>3 DEF Advance
    <2>5. ~call.stale
        <3>1. call.stale => read.ended = "failed"
            BY <1>2, <1>3, <1>4 DEF CallFits
        <3> QED BY <1>9, <3>1
    <2>6. Len(needs) \in Nat
        BY <1>1, <1>3, NeedFacts
    <2>7. CallFits(plan, kind, needs, call2, reads')
        BY <1>3, <1>4, <1>5, <2>2, <2>3, <2>5, <2>6, CallAdvances
    <2>8. Carries(plan, memo, reads, memo', reads')
        <3>1. CASE Kind(c) = "state" /\ calls'[c].state = "done" /\ memo["quote"] = 0
            <4>1. Record("quote", read.decimals)
                BY <1>1, <1>2, <3>1 DEF Resume
            <4>2. call.at = Len(needs)
                <5>1. calls'[c].state = "done" /\ calls'[c] = call2
                    BY <1>3, <2>4, <3>1
                <5>2. call2.state = IF call.at = Len(needs) THEN "done" ELSE call.state
                    BY <1>4, <2>3 DEF CallRecords
                <5> QED BY <1>4, <5>1, <5>2
            <4> QED BY <1>1, <1>3, <1>5, <2>2, <3>1, <4>1, <4>2, Noting
        <3>2. CASE ~(Kind(c) = "state" /\ calls'[c].state = "done" /\ memo["quote"] = 0)
            BY <1>3, <3>2, Staying DEF Resume
        <3> QED BY <3>1, <3>2
    <2> QED BY <1>1, <2>4, <2>7, <2>8, OneCall
<1>10. read.ended \in {"failed", "answered"}
    BY <1>4, <1>5 DEF Reads
<1> QED BY <1>8, <1>9, <1>10

\* A call that is about to make an RPC of its own waits for nothing, and is not stale.
LEMMA OnItsOwn ==
    ASSUME CachesHold, NEW c \in Calls, calls[c].state = "running", Need(c) \notin Memos
    PROVE  /\ calls[c].on = 0 /\ ~calls[c].stale
           /\ calls[c].at = Len(Needs(Kind(c))) => Kind(c) \notin {"quoteToken", "state"}
<1>1. PICK call, needs, kind : call = calls[c] /\ needs = Needs(Kind(c)) /\ kind = Kind(c)
    OBVIOUS
<1>2. CallFits(plan, kind, needs, call, reads) /\ kind \in Kinds
    BY <1>1, PlanFacts DEF CachesHold
<1>3. needs[call.at] \notin Memos /\ {"chain", "quote", "metadata"} \subseteq Memos
    BY <1>1 DEF Need, Memos
<1>4. call.at = Len(needs) => kind \notin {"quoteToken", "state"}
    <2>1. CASE kind = "quoteToken"
        <3>1. needs = <<"version", "quote">>
            BY <1>1, <1>2, <2>1, NeedFacts
        <3> QED BY <1>3, <3>1
    <2>2. CASE kind = "state"
        <3>1. needs = <<"version", "batch", "metadata">>
            BY <1>1, <1>2, <2>2, NeedFacts
        <3> QED BY <1>3, <3>1
    <2> QED BY <2>1, <2>2
<1> QED BY <1>1, <1>2, <1>3, <1>4 DEF CallFits

LEMMA RpcAnswersFits ==
    ASSUME CachesHold, NEW c \in Calls, RpcAnswers(c)
    PROVE  CallsFit(calls', reads') /\ Carries(plan, memo, reads, memo', reads')
<1>1. PICK call, needs, kind : call = calls[c] /\ needs = Needs(Kind(c)) /\ kind = Kind(c)
    OBVIOUS
<1>2. /\ plan \in Plans /\ Sound(plan, memo, reads) /\ DOMAIN calls = Calls
      /\ CallFits(plan, kind, needs, call, reads)
      /\ kind \in Kinds
    BY <1>1, PlanFacts DEF CachesHold
<1>3. call.state = "running" /\ ~call.stale /\ (call.at = Len(needs) => kind \notin {"quoteToken", "state"})
    BY <1>1, OnItsOwn DEF RpcAnswers
<1>4. call.decimals \in Nat /\ Len(needs) \in Nat
    BY <1>1, <1>2, NeedFacts DEF CallFits, CallRecords
<1>5. PICK call2 :
          call2 = [call EXCEPT !.on = 0, !.decimals = call.decimals,
                               !.at = IF @ = Len(needs) THEN @ ELSE @ + 1,
                               !.state = IF call.at = Len(needs) THEN "done" ELSE @]
    OBVIOUS
<1>6. calls' = [calls EXCEPT ![c] = call2]
    BY <1>1, <1>2, <1>5 DEF RpcAnswers, Advance
<1>7. CallFits(plan, kind, needs, call2, reads')
    BY <1>2, <1>3, <1>4, <1>5, CallAdvances
<1>8. Carries(plan, memo, reads, memo', reads')
    <2>1. CASE Need(c) = "page" /\ plan.batched /\ ~Configured("metadata")
        <3>1. Record("metadata", plan.decimals.registry)
            BY <2>1 DEF RpcAnswers
        <3> QED BY <1>2, <3>1, PlanFacts, Noting
    <2>2. CASE ~(Need(c) = "page" /\ plan.batched /\ ~Configured("metadata"))
        BY <1>2, <2>2, Staying DEF RpcAnswers
    <2> QED BY <2>1, <2>2
<1> QED BY <1>1, <1>6, <1>7, <1>8, OneCall

LEMMA RpcFailsFits ==
    ASSUME CachesHold, NEW c \in Calls, RpcFails(c)
    PROVE  CallsFit(calls', reads') /\ Carries(plan, memo, reads, memo', reads')
<1>1. PICK call, needs, kind : call = calls[c] /\ needs = Needs(Kind(c)) /\ kind = Kind(c)
    OBVIOUS
<1>2. /\ plan \in Plans /\ Sound(plan, memo, reads) /\ DOMAIN calls = Calls
      /\ CallFits(plan, kind, needs, call, reads)
    BY <1>1 DEF CachesHold
<1>3. PICK e \in (IF Need(c) = "trade" THEN plan.errors ELSE {}) \cup {Transport} :
          Throw(c, MapError(e, Need(c) = "trade" /\ plan.quote # "native"), e)
    BY DEF RpcFails
<1>4. PICK pays \in BOOLEAN : pays = (Need(c) = "trade" /\ plan.quote # "native")
    OBVIOUS
<1>5. PICK told : told = MapError(e, pays)
    OBVIOUS
<1>6. Throw(c, told, e)
    BY <1>3, <1>4, <1>5
<1>7. /\ told \in Codes /\ e \in Causes(plan)
      /\ NoBlame(plan, told, e.about)
      /\ e.about = "revert" /\ Len(e.data) <= MaxLayers + 1
         => LET reason == e.data[Len(e.data)]
            IN  /\ reason \in DeclaredErrors => told = reason
                /\ reason \notin DeclaredErrors => told \notin DeclaredErrors
    <2>1. CASE e = Transport
        <3>1. told = "RpcFailure"
            BY <1>5, <2>1, TransportTold
        <3>2. e.about = "transport" /\ e \in Causes(plan)
            BY <2>1, CauseFacts DEF Transport
        <3> QED BY <3>1, <3>2 DEF NoBlame, Codes, SdkCodes
    <2>2. CASE e \in plan.errors
        <3>1. e \in Thrown /\ IsContractRevert(e) /\ e \in Causes(plan)
            BY <1>2, <2>2, PlanFacts, CauseFacts
        <3>2. /\ told \in Codes \ {"AddressIsNotACurve"}
              /\ told = "QuoteTransferOutOfGas" => pays
              /\ e.about = "revert" /\ Len(e.data) <= MaxLayers + 1 =>
                     /\ e.data[Len(e.data)] \in DeclaredErrors => told = e.data[Len(e.data)]
                     /\ e.data[Len(e.data)] \notin DeclaredErrors => told \notin DeclaredErrors
            BY <1>5, <3>1, RevertTold
        <3>3. e.about # "transport"
            BY <3>1 DEF IsContractRevert
        <3>4. NoBlame(plan, told, e.about)
            BY <1>4, <3>2, <3>3 DEF NoBlame
        <3> QED BY <3>1, <3>2, <3>4
    <2> QED BY <1>3, <2>1, <2>2
<1>8. PICK call2 : call2 = [call EXCEPT !.on = 0, !.state = "failed", !.told = told, !.cause = e]
    OBVIOUS
<1>9. calls' = [calls EXCEPT ![c] = call2]
    BY <1>1, <1>2, <1>6, <1>8 DEF Throw
<1>10. CallFits(plan, kind, needs, call2, reads)
    BY <1>2, <1>7, <1>8, CallThrows
<1>11. Carries(plan, memo, reads, memo, reads)
    BY <1>2, Staying
<1>12. memo' = memo /\ reads' = reads
    BY DEF RpcFails
<1> QED BY <1>1, <1>9, <1>10, <1>11, <1>12, OneCall

-----------------------------------------------------------------------------
(* The theorems.                                                           *)

LEMMA InitHolds == Init => CachesHold
<1> SUFFICES ASSUME Init PROVE CachesHold
    OBVIOUS
<1>1. /\ plan \in Plans /\ memo = [m \in Memos |-> 0] /\ reads = <<>> /\ handlers = {}
      /\ calls = [c \in Calls |-> Idle]
    BY DEF Init
<1>2. Sound(plan, memo, reads)
    <2>1. Len(reads) = 0 /\ reads \in Seq(Reads(plan))
        BY <1>1
    <2>2. memo \in [Memos -> Nat] /\ \A m \in Memos : MemoFits(memo, reads, m)
        BY <1>1 DEF MemoFits
    <2> QED BY <2>1, <2>2 DEF Sound
<1>3. ASSUME NEW c \in Calls PROVE CallFits(plan, Kind(c), Needs(Kind(c)), calls[c], reads)
    <2>1. Kind(c) \in Kinds
        BY <1>1, PlanFacts
    <2>2. PICK told \in Codes : told = ""
        BY DEF Codes
    <2>3. PICK call, state, tries : call = Idle /\ state = "idle" /\ tries = 0
        OBVIOUS
    <2>4. call = [state |-> state, tries |-> tries, at |-> 1, on |-> 0, stale |-> FALSE, decimals |-> 0,
                  told |-> told, cause |-> Transport]
        BY <2>2, <2>3 DEF Idle
    <2>5. CallFits(plan, Kind(c), Needs(Kind(c)), call, reads)
        BY <2>1, <2>3, <2>4, IdleFits
    <2> QED BY <1>1, <2>3, <2>5
<1> QED BY <1>1, <1>2, <1>3 DEF CachesHold

\* What every step does to the shared reads, whoever takes it, and to the calls.
LEMMA StepCarries ==
    ASSUME CachesHold, [Next]_vars
    PROVE  /\ Carries(plan, memo, reads, memo', reads')
           /\ CallsFit(calls', reads')
           /\ plan' = plan
           /\ \A h \in handlers' : h \in handlers
                  \/ (h.read \in 1 .. Len(reads) /\ reads'[h.read].memo \in {"version", "quote"})
<1>1. plan \in Plans /\ Sound(plan, memo, reads)
    BY DEF CachesHold
<1>2. ASSUME NEW c \in Calls, Start(c) \/ Resume(c) \/ RpcAnswers(c) \/ RpcFails(c)
      PROVE  /\ Carries(plan, memo, reads, memo', reads') /\ CallsFit(calls', reads')
             /\ plan' = plan /\ handlers' = handlers
    <2>1. CASE Start(c)
        <3>1. memo' = memo /\ reads' = reads
            BY <2>1 DEF Start
        <3> QED BY <2>1, <3>1, StartFits DEF Start
    <2>2. CASE Resume(c)
        BY <2>2, ResumeFits DEF Resume
    <2>3. CASE RpcAnswers(c)
        BY <2>3, RpcAnswersFits DEF RpcAnswers
    <2>4. CASE RpcFails(c)
        BY <2>4, RpcFailsFits DEF RpcFails
    <2> QED BY <1>2, <2>1, <2>2, <2>3, <2>4
<1>3. ASSUME NEW c \in Calls, Ask(c)
      PROVE  /\ Carries(plan, memo, reads, memo', reads') /\ CallsFit(calls', reads')
             /\ plan' = plan
             /\ \A h \in handlers' : h \in handlers
                    \/ (h.read \in 1 .. Len(reads) /\ reads'[h.read].memo \in {"version", "quote"})
    <2>1. Carries(plan, memo, reads, memo', reads') /\ CallsFit(calls', reads')
        BY <1>3, AskFits
    <2>2. PICK joined : joined = Joined(Need(c))
        OBVIOUS
    <2>3. Need(c) \in Memos /\ reads' = joined.reads /\ plan' = plan
        BY <1>3, <2>2 DEF Ask
    <2>4. reads'[joined.read].memo = Need(c)
        BY <1>1, <2>2, <2>3, Joining
    <2>5. handlers' = IF Need(c) \in {"version", "quote"} /\ joined.read \in DOMAIN reads
                      THEN handlers \cup {[call |-> c, read |-> joined.read]} ELSE handlers
        BY <1>3, <2>2 DEF Ask
    <2>6. DOMAIN reads = 1 .. Len(reads)
        BY <1>1, SoundFacts
    <2> QED BY <2>1, <2>3, <2>4, <2>5, <2>6
<1>4. ASSUME NEW r \in DOMAIN reads, ReadAnswers(r) \/ ReadFails(r) \/ QuoteLabelled(r)
      PROVE  /\ Carries(plan, memo, reads, memo', reads') /\ CallsFit(calls', reads')
             /\ plan' = plan /\ handlers' = handlers
    <2>1. Carries(plan, memo, reads, memo', reads')
        BY <1>1, <1>4, ReadAnswersCarries, ReadFailsCarries, QuoteLabelledCarries
    <2>2. UNCHANGED <<plan, handlers, calls>>
        BY <1>4 DEF ReadAnswers, ReadFails, QuoteLabelled
    <2> QED BY <2>1, <2>2, NoCall
<1>5. ASSUME NEW h \in handlers, LateHandler(h)
      PROVE  /\ Carries(plan, memo, reads, memo', reads') /\ CallsFit(calls', reads')
             /\ plan' = plan /\ handlers' \subseteq handlers
    <2>1. Carries(plan, memo, reads, memo', reads')
        BY <1>5, LateHandlerCarries
    <2>2. UNCHANGED <<plan, calls>> /\ handlers' \subseteq handlers
        BY <1>5 DEF LateHandler
    <2> QED BY <2>1, <2>2, NoCall
<1>6. CASE UNCHANGED vars
    <2>1. UNCHANGED <<plan, memo, reads, handlers, calls>>
        BY <1>6 DEF vars
    <2>2. Carries(plan, memo, reads, memo', reads')
        BY <1>1, <2>1, Staying
    <2> QED BY <2>1, <2>2, NoCall
<1> QED BY <1>2, <1>3, <1>4, <1>5, <1>6 DEF Next

LEMMA NextHolds == CachesHold /\ [Next]_vars => CachesHold'
<1> SUFFICES ASSUME CachesHold, [Next]_vars PROVE CachesHold'
    OBVIOUS
<1>1. /\ Carries(plan, memo, reads, memo', reads') /\ CallsFit(calls', reads') /\ plan' = plan
      /\ \A h \in handlers' : h \in handlers
             \/ (h.read \in 1 .. Len(reads) /\ reads'[h.read].memo \in {"version", "quote"})
    BY StepCarries
<1>2. Sound(plan, memo', reads') /\ Remains(reads, reads')
    BY <1>1 DEF Carries
<1>3. Len(reads) \in Nat /\ Len(reads') \in Nat
    BY <1>2, SoundFacts DEF CachesHold
<1>4. \A h \in handlers' : h.read \in 1 .. Len(reads') /\ reads'[h.read].memo \in {"version", "quote"}
    BY <1>1, <1>2, <1>3 DEF CachesHold, Remains
<1>5. \A k \in Kinds : Needs(k)' = Needs(k)
    BY <1>1 DEF Needs
<1>6. Calls' = Calls /\ \A c \in Calls : Kind(c)' = Kind(c)
    BY <1>1 DEF Calls, Kind
<1>7. ASSUME NEW c \in Calls'
      PROVE  CallFits(plan', Kind(c)', Needs(Kind(c))', calls'[c], reads')
    <2>1. CallFits(plan, Kind(c), Needs(Kind(c)), calls'[c], reads')
        BY <1>1, <1>6 DEF CallsFit
    <2>2. Needs(Kind(c))' = Needs(Kind(c))
        BY <1>1 DEF Needs, Kind
    <2> QED BY <1>1, <1>6, <2>1, <2>2
<1>8. plan' \in Plans /\ Sound(plan', memo', reads') /\ DOMAIN calls' = Calls'
    BY <1>1, <1>2, <1>6 DEF CachesHold, CallsFit
<1> QED BY <1>4, <1>7, <1>8 DEF CachesHold

\* The memos, their reads, the handlers and the calls fit each other in every state.
THEOREM CachesAlwaysHold == Spec => []CachesHold
    BY InitHolds, NextHolds, PTL DEF Spec

\* What was read stays read, whatever fails beside it and whenever its handlers run
\* (curve.ts:85-87 and 138-140, quote-token.ts:166 and 210-212).
THEOREM NothingIsForgotten == Spec => NothingForgotten
<1>1. ASSUME CachesHold, [Next]_vars
      PROVE  [ \A m \in Memos :
                   memo[m] # 0 /\ reads[memo[m]].ended = "answered"
                   => memo'[m] # 0 /\ reads'[memo'[m]].ended = "answered" ]_vars
    <2>1. Remembers(memo, reads, memo', reads')
        BY <1>1, StepCarries DEF Carries
    <2> QED BY <2>1 DEF Remembers
<1> QED BY <1>1, CachesAlwaysHold, PTL DEF Spec, NothingForgotten

\* A call that fails was handed no failure from before it asked, unless it is the chain
\* check's: the memos let go of every other (curve.ts, quote-token.ts, launchpad.ts).
THEOREM FailuresStayFresh == Spec => []FailuresAreFresh
<1>1. CachesHold => FailuresAreFresh
    BY DEF CachesHold, CallFits, FailuresAreFresh, Need
<1> QED BY <1>1, CachesAlwaysHold, PTL

\* Whoever gets a curve's quote gets it at the curve's own decimals (curve.ts
\* labelQuote), whatever the shared metadata holds.
THEOREM QuotesScaledRight == Spec => []ScaledRight
<1>1. CachesHold => ScaledRight
    BY DEF CachesHold, CallFits, ScaledRight
<1> QED BY <1>1, CachesAlwaysHold, PTL

\* What a caller is told of a failure is true of what happened, whichever call's read
\* it was that failed (errors/map.ts, curve.ts readVersion).
THEOREM BlameStaysTrue == Spec => []BlameIsTrue
<1>1. ASSUME CachesHold, NEW c \in Calls, calls[c].state = "failed"
      PROVE  LET call == calls[c]
                 depth == Len(call.cause.data)
                 reason == call.cause.data[depth]
             IN  /\ call.told = "AddressIsNotACurve" => plan.there \in {"token", "foreign", "nothing"}
                 /\ call.cause.about = "transport" => call.told = "RpcFailure"
                 /\ call.told = "QuoteTransferOutOfGas" => plan.quote # "native"
                 /\ call.cause.about = "revert" /\ Need(c) = "trade" /\ depth <= MaxLayers + 1 =>
                        /\ reason \in DeclaredErrors => call.told = reason
                        /\ reason \notin DeclaredErrors => call.told \notin DeclaredErrors
    <2>1. CallFits(plan, Kind(c), Needs(Kind(c)), calls[c], reads)
        BY <1>1 DEF CachesHold
    <2> QED BY <1>1, <2>1 DEF CallFits, NoBlame, Need
<1>2. CachesHold => BlameIsTrue
    BY <1>1 DEF BlameIsTrue
<1> QED BY <1>2, CachesAlwaysHold, PTL
=============================================================================
