------------------------------- MODULE Errors -------------------------------
(***************************************************************************)
(* errors/map.ts and errors/registry.ts: what an error thrown by viem is   *)
(* told to a caller as.  Words and arguments are left out; what is kept is *)
(* the code a caller dispatches on.                                        *)
(***************************************************************************)
EXTENDS FiniteSetsExt, Sequences

CONSTANT DeclaredErrors     \* the errors the ABIs declare, WrappedError among them

\* A thrown error: "transport" never reached a contract, "noData" was answered by
\* none, "decoded" is a revert whose bytes viem did not keep, "revert" one with its
\* data, outermost layer first, and "arcnow" an error of this SDK.
Thrown == [about : {"transport", "noData", "decoded", "revert", "arcnow"}, data : Seq(STRING)]

\* The codes this SDK has of its own, as far as they are told here: none is spelled
\* like an error that a contract declares (error-code-collisions.test.ts).
SdkCodes == {"AddressIsNotACurve", "UnknownCurveVersion", "UnknownHookVersion", "ChainIdMismatch",
             "WrappedRevert", "UnknownRevert", "RevertString", "Panic", "EmptyRevert",
             "QuoteTransferOutOfGas", "RpcFailure"}

ASSUME DeclaredAssumption ==
    /\ DeclaredErrors \subseteq STRING
    /\ "WrappedError" \in DeclaredErrors
    /\ DeclaredErrors \cap (SdkCodes \cup {"Error", "empty"}) = {}

\* A revert of a contract: its layers are WrappedErrors, all but the innermost.
IsContractRevert(e) ==
    \/ /\ e.about = "revert"
       /\ e.data # <<>>
       /\ \A i \in 1 .. Len(e.data) - 1 : e.data[i] = "WrappedError"
    \/ /\ e.about = "decoded"
       /\ e.data # <<>>
       /\ Head(e.data) \in DeclaredErrors \cup {"Error", "Panic"}

Transport == [about |-> "transport", data |-> <<>>]
NoData == [about |-> "noData", data |-> <<>>]
Refusal(code) == [about |-> "arcnow", data |-> <<code>>]
RevertOf(data) == [about |-> "revert", data |-> data]

MaxLayers == 16

\* findRevertData: no data at all is a revert too.
RevertData(e) == IF e.about = "revert" THEN e.data ELSE <<>>

\* decodeRevertData, on the innermost data: a layer whose arguments do not decode is
\* a declared error like any other.
Known(reason) == reason \in DeclaredErrors \cup {"Error", "Panic"}

MapRevertData(reason) ==
    CASE reason = "Error" -> "RevertString"
      [] reason \in DeclaredErrors \cup {"Panic"} -> reason
      [] OTHER -> "UnknownRevert"

\* The layers that unwrap takes off, each of which names the next as its reason.
Layers(data) ==
    Max({n \in 0 .. MaxLayers : n < Len(data) /\ \A i \in 1 .. n : data[i] = "WrappedError"})

\* A mistake to check against: one layer is taken off, whatever is inside.
UnwrapOnce(data) == IF Known(data[2]) THEN MapRevertData(data[2]) ELSE "WrappedRevert"
Unwrap(data) ==
    LET reason == data[Layers(data) + 1]
    IN  IF Known(reason) THEN MapRevertData(reason) ELSE "WrappedRevert"

\* mapError: idempotent, and a revert without data where an ERC-20 is paid is the
\* gas guard of the fee pushes.
MapError(e, paysErc20) ==
    LET data == RevertData(e)
    IN  CASE e.about \in {"arcnow", "decoded"} -> Head(e.data)
          [] data = <<"empty">> -> IF paysErc20 THEN "QuoteTransferOutOfGas" ELSE "EmptyRevert"
          [] data # <<>> /\ Head(data) = "WrappedError" /\ Len(data) > 1 -> Unwrap(data)
          [] data # <<>> /\ data # <<"empty">> /\ (Head(data) # "WrappedError" \/ Len(data) = 1) ->
                 MapRevertData(Head(data))
          [] OTHER -> "RpcFailure"

\* ArcNowError.isRevert: there is data, or a selector.
IsRevert(e) == RevertData(e) # <<>>
=============================================================================
