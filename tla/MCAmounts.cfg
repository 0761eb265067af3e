CONSTANTS
    WadDecimals = 3
    Ten <- MCTen
    Erc20Decimals = 1
    NativeQuote = "zero"
    Refused = Refused
    QuoteTokens <- MCQuotes
    Texts <- MCTexts
    Balances <- MCBalances
    Shares <- MCShares
    MaxWad = 1300
    U256Max = 100000000
SPECIFICATION Spec
INVARIANTS
    TextRoundTrip
    FloorsHold
    FeesRecovered
    ClientsAgree
