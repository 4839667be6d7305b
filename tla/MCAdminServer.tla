--------------------------- MODULE MCAdminServer ---------------------------
EXTENDS AdminServer

CONSTANTS c1, c2

MCClients == {c1, c2}

Number(n, len) == [txt |-> "number", len |-> len, num |-> n]

\* Symbols: of a stock, of an option (the longest in use), and one whose reference
\* data fits the buffer only until it is regenerated.
Stock == Str("AAPL", 4)
Option == Str("SPXW  251219C06500000", 21)
Spread == Str("SPXW  251219C06500000/C06600000x", 32)

\* Commands with and without parameters, numbers at the limits of vectors and
\* deltas, requests that just fit the buffer, and do not.  A text is logged by the server if it
\* has up to 228 characters; by its client up to 219 always, up to 223 with a short latency.
AllLines ==
  {[cmd |-> "s", params |-> p] : p \in {<<>>, <<Option>>, <<Option, Option>>, <<Option, Spread>>}}
    \cup {[cmd |-> "t", params |-> p] :
            p \in {<<>>, <<Str("a", 100), Str("b", 120)>>,
                   <<Str("logged", 228)>>, <<Str("longer", 229)>>, <<Str("full", 2018)>>,
                   <<Str("over", 2019)>>, <<Str("wraps", 66000)>>}}
    \cup {[cmd |-> "u", params |-> p] :
            p \in {<<>>, <<Number(0, 1)>>, <<Number(7, 1), Str("i", 1)>>,
                   <<Number(19, 2), Str("l", 1)>>, <<Number(5, 1), Str("s", 1)>>,
                   <<Number(5, 1), Str("x", 1)>>}}
    \cup {[cmd |-> v, params |-> <<Number(n, 3)>>] : v \in {"n", "b", "l"}, n \in {-1, 0, 200, 300}}

\* The second client only disturbs the first.
MCLines == (c1 :> AllLines) @@ (c2 :> {[cmd |-> "s", params |-> <<>>]})

\* One client that subscribes to the same stock again and again.
MCOne == {c1}
MCSubscribe == c1 :> {[cmd |-> "s", params |-> <<Stock>>]}

\* What the theorems suppose of the lines holds of these.
ASSUME LinesAssumption == SizesAnnounced /\ ShortSymbols
=============================================================================
