----------------------------- MODULE MCAmounts -----------------------------
(* Wads of three decimals: a native quote, two ERC-20s that are coarser and *)
(* one without any fraction, and amounts to past twice the 125 raw units    *)
(* after which the hook charges its first unit.                             *)
EXTENDS CrateAmounts

MCTen == [n \in 0 .. 3 |-> 10^n]
Quote(address, decimals) ==
    [address |-> address, decimals |-> decimals, isNative |-> address = "zero"]
MCQuotes == {Quote("zero", 3), Quote("eurc", 2), Quote("yen", 0), Quote("fine", 3)}

\* Whole parts with fractions of up to four digits, one that does not fit the crate's
\* integers, a signed number, and something that is no number.
MCTexts ==
    { Text(whole, f[1], f[2]) :
        whole \in {0, 1}, f \in {<<0, 0>>, <<1, 1>>, <<2, 10>>, <<2, 7>>, <<3, 124>>, <<4, 1240>>} }
    \cup { Text(100001, 0, 0), [Text(1, 0, 0) EXCEPT !.negative = TRUE], [Text(0, 0, 0) EXCEPT !.decimal = FALSE] }

MCBalances == 0 .. 260
MCShares == {0, 50, 3333, 9999, 10000, 10050}
=============================================================================
