------------------------------ MODULE MCInputs -----------------------------
EXTENDS AgenticSignal, TLC

CONSTANTS ETH, XRP, USDC

MCSettings ==
  { (USDC :> "a") @@ (ETH :> "b") @@ (XRP :> NoAddress),
    (ETH :> NoAddress) @@ (XRP :> "b") }

\* XRP falls fast in fear: a purchase of it is laddered.
MCReading ==
  (USDC :> [change |-> 0, fear |-> "fear", rsi |-> 50, macd |-> "none", trend |-> "none"])
  @@ (ETH :> [change |-> 100, fear |-> "fear", rsi |-> 75, macd |-> "up", trend |-> "above"])
  @@ (XRP :> [change |-> -400, fear |-> "fear", rsi |-> 25, macd |-> "none", trend |-> "below"])

MCDrift == (ETH :> -700) @@ (XRP :> 900)

Row(t, clean, dir, bps) ==
  [kind |-> "row", token |-> t, clean |-> clean, dir |-> dir, bps |-> bps]
Line(kind) == [kind |-> kind, token |-> USDC, clean |-> FALSE, dir |-> "hold", bps |-> 0]

Lines == { Line("header"), Line("prose"),
           Row(ETH, TRUE, "buy", 500), Row(ETH, FALSE, "sell", 9000),
           Row(XRP, TRUE, "buy", 1000), Row(XRP, TRUE, "sell", 10) }

\* Any answer of at most two lines; and some of three.
MCAnswers ==
  UNION {[1 .. n -> Lines] : n \in 0 .. 2}
  \cup {<<Row(ETH, TRUE, "sell", 9000), Row(USDC, TRUE, "buy", 800), Row(XRP, TRUE, "buy", 1000)>>,
        <<Row(XRP, TRUE, "buy", 1000), Row(XRP, TRUE, "sell", 500), Row(ETH, TRUE, "sell", 300)>>,
        <<Row(USDC, TRUE, "hold", 300), Row(ETH, TRUE, "buy", 500), Row(USDC, TRUE, "sell", 90)>>}
=============================================================================
