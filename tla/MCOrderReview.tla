--------------------------- MODULE MCOrderReview ----------------------------
(* Leads of two keys; bundles of two inputs with two outcomes.             *)
EXTENDS OrderReview

MCHaircut == [bid |-> <<0, 100>>, float_sale |-> <<3, 100>>, sale |-> <<5, 100>>,
              ask |-> <<12, 100>>, reference |-> <<18, 100>>, fallback |-> <<25, 100>>]
MCDaysToSale == [bid |-> 0, float_sale |-> 5, sale |-> 7, ask |-> 14, reference |-> 21, fallback |-> 30]
MCConfidence == [bid |-> 3, float_sale |-> 3, sale |-> 2, ask |-> 1, reference |-> 1, fallback |-> 1]
MCWeight == [c \in 0..3 |-> CASE c = 0 -> <<0, 1>> [] c = 1 -> <<70, 100>>
                              [] c = 2 -> <<85, 100>> [] OTHER -> <<95, 100>>]
MCQuantile == <<1, 4>>
MCCarryRate == <<12, 100>>
MCSalvageRate == <<80, 100>>
MCVolatility == <<2, 100>>

MCLimits == [discoveryRoi |-> <<10, 100>>, finalRoi |-> <<2, 25>>, contractCost |-> 400,
             quoteAge |-> 2, unvaluable |-> <<10, 100>>, profit |-> 5, worstCase |-> 60,
             orphan |-> 21, capitalDays |-> 21, dailySpend |-> 0, live |-> FALSE]

Rule(venue, operation, rate, fixed, lower, upper) ==
  [venue |-> venue, operation |-> operation, rate |-> <<rate, 100>>, fixed |-> fixed, from |-> 0,
   until |-> {}, lower |-> lower, upper |-> upper, minimum |-> {}, maximum |-> {}]

(* Two exit venues (1, 2), the chain (8) and the funding venue (9), whose  *)
(* stickers are cheaper from 10 up; then with a gap in each part. *)
MCRules ==
  {Rule(1, "sale", 2, 0, 0, {}), Rule(2, "sale", 8, 0, 0, {}),
   [Rule(1, "withdrawal", 2, 1, 0, {}) EXCEPT !.maximum = {5}], Rule(2, "withdrawal", 0, 0, 0, {}),
   Rule(9, "deposit", 1, 0, 0, {}), Rule(9, "withdrawal", 0, 1, 0, {}), Rule(9, "conversion", 0, 0, 0, {}),
   Rule(8, "transfer", 0, 0, 0, {}), Rule(9, "purchase", 30, 0, 1, {10}), Rule(9, "purchase", 5, 0, 10, {})}
MCSchedules ==
  {MCRules,
   {r \in MCRules : <<r.venue, r.operation>> \notin {<<2, "sale">>, <<8, "transfer">>} /\ r.upper = {}}}

MCQuotes == {[rate |-> <<3, 1>>, age |-> 0], [rate |-> <<7, 2>>, age |-> 0], [rate |-> <<3, 1>>, age |-> 5]}
MCCapitals == {100}

Input(id, price, fee, age) ==
  [id |-> id, price |-> price, cost |-> price + fee, asset |-> id, float |-> id, age |-> age,
   lock |-> 0, reliability |-> {}, usable |-> TRUE]

Seen(of, source, venue, gross, evidence) ==
  [of |-> of, source |-> source, venue |-> venue, gross |-> gross, cash |-> TRUE, age |-> 0, evidence |-> evidence]

Good == <<Seen("o1", "sale", 1, 345, 3), Seen("o1", "sale", 1, 360, 3), Seen("o1", "ask", 2, 400, 1),
          Seen("o2", "float_sale", 1, 280, 3), Seen("o2", "sale", 2, 400, 3),
          [Seen("o2", "bid", 1, 900, 1) EXCEPT !.cash = FALSE]>>
Capped == <<Seen("o1", "sale", 1, 290, 3), Seen("o1", "ask", 2, 280, 1), Seen("o1", "ask", 1, 300, 1),
            Seen("o2", "sale", 1, 210, 3)>>
Poor == <<Seen("o1", "bid", 1, 450, 1), Seen("o1", "ask", 1, 250, 1), Seen("o2", "reference", 1, 3, 1)>>
Unknown == <<Seen("o1", "sale", 1, 367, 1)>>

Outcomes == <<[item |-> "o1", share |-> 1], [item |-> "o2", share |-> 2]>>

Made(lead, bundle, obs) ==
  [lead |-> lead, inputs |-> bundle, outcomes |-> Outcomes, obs |-> obs, expired |-> FALSE, approvable |-> TRUE]

k1 == <<"k1", "MIL_SPEC">>
k1r == <<"k1", "RESTRICTED">>
k2 == <<"k2", "MIL_SPEC">>

MCCandidates ==
  {Made(k1, <<Input(1, 98, 2, 0), Input(2, 100, 0, 2)>>, Good),
   Made(k1, <<Input(1, 90, 0, 1), [Input(3, 85, 0, 0) EXCEPT !.lock = 7]>>, Capped),
   Made(k1r, <<Input(4, 60, 0, 2), [Input(5, 40, 1, 1) EXCEPT !.reliability = {<<1, 2>>}]>>, Poor),
   [Made(k2, <<Input(6, 50, 0, 0), Input(7, 50, 0, 3)>>, Unknown) EXCEPT !.expired = TRUE]}

Says(id, price) == [present |-> TRUE, price |-> {price}, float |-> {id}, asset |-> {id}]
PriceOf(id) == CHOOSE p \in {98, 100, 90, 85, 60, 40, 50} :
                 \E c \in MCCandidates : \E i \in DOMAIN c.inputs : c.inputs[i].id = id /\ c.inputs[i].price = p
MCSaid == [id \in 1..7 |->
             {Says(id, PriceOf(id)), [Says(id, PriceOf(id)) EXCEPT !.asset = {0}],
              [present |-> id = 1, price |-> {}, float |-> {}, asset |-> {}]}]

MCOrder(lead, price) == [lead |-> lead, price |-> price, currency |-> Base]
MCOrderLists == {<<MCOrder(k1, p), MCOrder(k1r, p - 48)>> : p \in {88, 118}} \cup
                {<<[MCOrder(k2, 50) EXCEPT !.currency = "EUR"], MCOrder(k1, 105)>>}
MCBoards == {{}, {[lead |-> k1r, roi |-> 2, ceiling |-> 150], [lead |-> k1, roi |-> 1, ceiling |-> 110],
                  [lead |-> k2, roi |-> 1, ceiling |-> 60]}}
MCMeasures == {<< >>}
MCPrices == 0..200
MCHeadrooms == {0, 1, 250} \cup 106..112
MCTargets == {<<27, 25>>, <<3, 4>>}
MCRates == {<<0, 1>>, <<1, 12>>}
=============================================================================
