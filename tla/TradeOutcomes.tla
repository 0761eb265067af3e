---------------------------- MODULE TradeOutcomes ----------------------------
(***************************************************************************)
(* What a client promises of a trade (curve.ts buy and sell, curve.rs buy  *)
(* and sell), whichever of its calls fail: the trade happens once at most; *)
(* a call that returns tells what happened; one that throws has done       *)
(* nothing and never will; and one is lost, so that its caller can tell    *)
(* neither, only by an RPC that failed.                                    *)
(***************************************************************************)
EXTENDS Naturals

CONSTANT Slots

VARIABLES
    stage,      \* open until the call ends: done, failed or lost
    fills,      \* what the trade has done
    told,       \* what its caller was told that it has done
    faults      \* how many RPCs have failed

vars == <<stage, fills, told, faults>>

Init ==
    /\ stage = [p \in Slots |-> "open"]
    /\ fills = [p \in Slots |-> {}]
    /\ told = [p \in Slots |-> {}]
    /\ faults = 0

\* The trade happens, while its call waits or after that was lost.
Happen(p) ==
    /\ stage[p] \in {"open", "lost"}
    /\ fills[p] = {}
    /\ \E fill \in fills'[p] : fills' = [fills EXCEPT ![p] = {fill}]
    /\ UNCHANGED <<stage, told, faults>>

Return(p) ==
    /\ stage[p] = "open"
    /\ fills[p] # {}
    /\ stage' = [stage EXCEPT ![p] = "done"]
    /\ told' = [told EXCEPT ![p] = fills[p]]
    /\ UNCHANGED <<fills, faults>>

Throw(p) ==
    /\ stage[p] = "open"
    /\ fills[p] = {}
    /\ stage' = [stage EXCEPT ![p] = "failed"]
    /\ faults' \in {faults, faults + 1}
    /\ UNCHANGED <<fills, told>>

Lose(p) ==
    /\ stage[p] = "open"
    /\ stage' = [stage EXCEPT ![p] = "lost"]
    /\ faults' = faults + 1
    /\ UNCHANGED <<fills, told>>

\* An RPC of something else fails.
Fault == faults' = faults + 1 /\ UNCHANGED <<stage, fills, told>>

Next ==
    \/ \E p \in Slots : Happen(p) \/ Return(p) \/ Throw(p) \/ Lose(p)
    \/ Fault

Spec == Init /\ [][Next]_vars
=============================================================================
