---------------------------- MODULE MCMarketStore ----------------------------
(* Four days of which three are traded; "a" is listed all the time, "b" is   *)
(* delisted on day 3.  TLC keeps the value of The..., and MC... = The... is   *)
(* what the configuration gives the constant, so that it is not evaluated    *)
(* again in every state.                                                    *)
EXTENDS MarketStore

TheInstruments == {"a", "b"}
TheProviders == {"p", "q", "s"}
TheTradingDays == {1, 2, 4}

Symbol(p) == [provider |-> p, from |-> 1, to |-> Missing]

TheMaster ==
    {[inst |-> "a", from |-> 1, to |-> Missing, active |-> TRUE,
      symbols |-> {Symbol("p"), Symbol("q")}],
     [inst |-> "b", from |-> 1, to |-> 3, active |-> TRUE,
      symbols |-> {Symbol("p")}]}

Bar(i, day, p, close) ==
    [inst |-> i, day |-> day, provider |-> p, open |-> close, high |-> close,
     low |-> close, close |-> close, volume |-> 1, currency |-> 1,
     sourceTime |-> 1]

Batch(freshUntil, quality, records) ==
    [fails |-> FALSE, freshUntil |-> freshUntil, quality |-> quality, records |-> records]

Fails == [fails |-> TRUE]

\* p is asked before q and s, which is neither configured for the dataset, and
\* its closes may be 50% off those of q.
ThePolicy ==
    [priority |-> <<"s", "p", "q">>, supporting |-> {"p", "q"}, cross |-> "q",
     maxDiff |-> 5000]

QBar(day) == Bar("a", day, "q", 4)

\* A long batch of p while q is down; a restatement without a currency, which
\* is not requested; what q has, short of a day, instead of a stale batch, one
\* without closes and one of bad quality; a close of p that q contradicts, and
\* one that it does not, being out of date; bars that the dataset refuses.
TheAnswers ==
    {("p" :> Batch(2, "passed",
         <<Bar("a", 1, "p", 4), Bar("a", 2, "p", 4), Bar("b", 1, "p", 4),
           [Bar("a", 4, "p", 2) EXCEPT !.sourceTime = Missing]>>))
        @@ ("q" :> Fails),
     ("p" :> Batch(2, "warning", <<[Bar("a", 2, "p", 3) EXCEPT !.currency = Missing]>>))
        @@ ("s" :> Batch(2, "passed", <<Bar("a", 2, "s", 9)>>))
        @@ ("q" :> Batch(2, "none", <<[QBar(2) EXCEPT !.close = 9], QBar(2)>>)),
     ("p" :> Batch(0, "none", <<Bar("a", 1, "p", 3)>>))
        @@ ("q" :> Batch(1, "none", <<QBar(1), Bar("a", 4, "q", 2)>>)),
     ("p" :> Batch(2, "none", <<[Bar("a", 1, "p", 3) EXCEPT !.close = Missing]>>))
        @@ ("q" :> Batch(1, "none", <<QBar(2)>>)),
     ("p" :> Batch(2, "quarantine", <<Bar("a", 2, "p", 3)>>)),
     ("p" :> Batch(2, "none", <<[Bar("a", 2, "p", 3) EXCEPT !.currency = Missing]>>))
        @@ ("q" :> Batch(0, "none", <<[QBar(2) EXCEPT !.close = 5, !.high = 5]>>)),
     "q" :> Batch(2, "none", <<[QBar(2) EXCEPT !.high = 3]>>),
     "p" :> Batch(2, "none", <<Bar("b", 4, "p", 4)>>),
     "p" :> Batch(2, "none", <<Bar("b", 3, "p", 4)>>)}

Event(day, type, p) ==
    [inst |-> "a", exDate |-> day, type |-> type, provider |-> p, cash |-> 0,
     bonus |-> 0, split |-> 1, rights |-> 0, price |-> Missing]

Split(day, p) == [Event(day, "share_split", p) EXCEPT !.split = 2]
Cash(day, p) == [Event(day, "cash_dividend", p) EXCEPT !.cash = 1]

TheActionLists ==
    {<<Split(4, "p"), Cash(4, "p"), Cash(2, "p")>>,
     <<Cash(2, "q"), [Split(2, "p") EXCEPT !.inst = "b"],
       [Event(4, "bonus_share", "p") EXCEPT !.bonus = 1],
       [Event(2, "rights_issue", "p") EXCEPT !.rights = 1, !.price = 2]>>,
     <<[Event(2, "rights_issue", "p") EXCEPT !.rights = 1]>>}

Word(intent) == [intent |-> intent, negated |-> FALSE]
Not(intent) == [intent |-> intent, negated |-> TRUE]

Signal(advice, days) ==
    [inst |-> "a", provider |-> "p", day |-> 1, start |-> 4, advice |-> advice,
     stop |-> Missing, take |-> Missing, days |-> days]

TheSignals ==
    <<Signal(<<Word("buy")>>, 2), [Signal(<<Word("hold"), Word("wait")>>, 1) EXCEPT !.day = 0],
      [Signal(<<Not("sell"), Word("buy")>>, 2) EXCEPT !.stop = 2, !.take = 4],
      [Signal(<<Word("hold")>>, 1) EXCEPT !.stop = 3, !.take = 5],
      [Signal(<<Word("wait"), Word("buy")>>, 1) EXCEPT !.provider = "q"],
      Signal(<<Word("buy"), Word("sell")>>, 2),
      [Signal(<<>>, 1) EXCEPT !.start = 0]>>

Row(period, revision, value, available) ==
    [inst |-> "a", period |-> period, item |-> "eps", revision |-> revision,
     provider |-> "p", value |-> value, announced |-> available,
     available |-> available, ingested |-> Missing]

TheFundamentalRows ==
    {Row(1, Missing, 10, 0), [Row(1, 2, 20, 1) EXCEPT !.announced = Missing],
     Row(1, 1, 30, 1)}

Field(type, nullable, meaning) ==
    [type |-> type, nullable |-> nullable, meaning |-> meaning]

Schema(major, minor, fields) ==
    [major |-> major, minor |-> minor, fields |-> fields, key |-> {"x"}]

Base == "x" :> Field("int64", FALSE, "")
With(nullable, type, meaning) == Base @@ "y" :> Field(type, nullable, meaning)

TheDeclarations ==
    {Schema(1, 0, Base), Schema(1, 1, With(FALSE, "utf8", "")), Schema(2, 0, Base)}

MCInstruments == TheInstruments
MCProviders == TheProviders
MCTradingDays == TheTradingDays
MCMaster == TheMaster
MCPolicy == ThePolicy
MCAnswers == TheAnswers
MCActionLists == TheActionLists
MCFundamentalRows == TheFundamentalRows
MCSignals == TheSignals
MCDeclarations == TheDeclarations
====
