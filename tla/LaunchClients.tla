---------------------------- MODULE LaunchClients ----------------------------
(***************************************************************************)
(* Both clients at work: calls of the TypeScript client (Launches) and of  *)
(* the Rust crate (CrateLaunches) side by side, on one chain; and what     *)
(* either may be relied on for.                                            *)
(***************************************************************************)
EXTENDS CrateLaunches

Of(client) == {c \in Calls : Request(c).client = client}

Next ==
    \/ \E c \in Of("ts") : Step(c)
    \/ \E c \in Of("crate") : CrateStep(c)
    \/ \E c \in Calls : RpcFails(c) \/ Rescue(c)
    \/ \E a \in Accounts : Mine(a)
    \/ SettingsChange

Spec == Init /\ [][Next]_vars

-----------------------------------------------------------------------------
\* "A raise while this waits in the mempool reverts rather than overcharging"
\* (launchpad.ts:417): no launch pays more fee than the caller's own cap or, without
\* one, than the fee it was quoted; and in the native quote it pays exactly that.
NeverOvercharged ==
    \A c \in Calls : chain.curves[c].launched =>
        /\ Request(c).capping => chain.curves[c].fee <= Request(c).maxFee
        /\ ~Request(c).capping => chain.curves[c].fee <= quoted[c].fee
        /\ Native => chain.curves[c].fee = quoted[c].fee

\* A launch that returns says what its own transaction did, whatever a stranger's
\* migrate() has made of the curve since (types.ts, migratedInThisTransaction); and
\* while every RPC answers, one that throws has launched nothing, so that a caller
\* who tries again does not launch twice.
LaunchesToldTrue ==
    \A c \in Calls : Request(c).kind = "launch" =>
        /\ pc[c] = "done" =>
             /\ chain.curves[c].launched
             /\ result[c].tokens = chain.curves[c].tokens
             /\ result[c].graduated <=> chain.curves[c].graduated
             /\ result[c].migrated <=> chain.curves[c].migrated /\ ~chain.curves[c].rescued
             /\ result[c].migrationFailed <=>
                  chain.curves[c].graduated /\ (chain.curves[c].migrated => chain.curves[c].rescued)
        /\ pc[c] = "failed" /\ failures = 0 => ~chain.curves[c].launched

\* While the template stays, the quote tells exactly whether the launch graduates:
\* computed from the input, the fee and the fill, none of which is the reserve that
\* the curve goes by when it caps the buy (launchpad.ts:307-324).
GraduationForeseen ==
    "template" \notin plan.moving =>
        \A c \in Calls :
            Request(c).kind = "launch" /\ pc[c] \notin {"idle", "quote", "template", "failed"} =>
                (quoted[c].graduates <=> GraduatesAtOnce(settings, Request(c)))

\* No launch in an ERC-20 quote is ever on its way with too little gas for the fee
\* pushes, although they may come to need more after its limit was settled.
LaunchPushesHaveGas ==
    ~Native =>
        \A a \in Accounts : \A i \in DOMAIN mempool[a] :
            mempool[a][i].kind = "launch" => mempool[a][i].gas >= LaunchGas + PushGas

\* The limit is the clients' doing: no launch but one in the native quote is sent with
\* the limit its caller gave.
LimitChosen(c) == Request(c).gasLimit = 0 \/ ~Native

\* A launch that was quoted to graduate, and does, migrates in its own transaction if
\* the migrator works, wherever a client chose its gas or the caller gave enough: the
\* token has a market the moment it exists (launchpad.ts:78-101).  A caller's limit
\* between the floor and what a migration takes is "the caller's call"
\* (launchpad.ts:74), and promises nothing.
ForeseenGraduationMigrates ==
    [][ \A c \in Calls :
          /\ ~chain.curves[c].launched /\ chain'.curves[c].launched
          /\ chain'.curves[c].graduated
          /\ quoted[c].graduates
          /\ LimitChosen(c) \/ Request(c).gasLimit >= InstantLaunchGas
          /\ settings.migratorUp
          => chain'.curves[c].migrated ]_vars
=============================================================================
