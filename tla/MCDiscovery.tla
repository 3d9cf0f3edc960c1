----------------------------- MODULE MCDiscovery -----------------------------
(* Classified paints 1-5 make Covert ones 11-16, Covert ones make the      *)
(* extraordinary 21, which only the later ruleset allows.  Collection 1    *)
(* has an output that asks 100, collection 2 two inputs and two outputs;   *)
(* 3 is thin and cheap and its output has no StatTrak; 4 shares a paint    *)
(* with 1.  23 has the name of 13, another paint.  A second snapshot       *)
(* states no range for an output of 2 and for 23.                          *)
EXTENDS Discovery, TLC

N == "NORMAL"
S == "STATTRAK"
Span(a, b) == [min |-> a, max |-> b]
Paint(id, rarity, range, collections) ==
  [id |-> id, name |-> id, paint |-> {id}, rarity |-> {rarity}, range |-> {range}, collections |-> collections, qualities |-> {N, S}]

Stated == {Paint(1, 5, Span(0, 100), {1}), Paint(2, 5, Span(0, 50), {2}), Paint(3, 5, Span(0, 100), {2}),
           Paint(4, 5, Span(0, 100), {3}), Paint(5, 5, Span(0, 100), {1, 4}),
           Paint(11, 6, Span(0, 100), {1}), Paint(12, 6, Span(0, 50), {2}), Paint(13, 6, Span(10, 60), {2}),
           [Paint(14, 6, Span(0, 100), {3}) EXCEPT !.qualities = {N}],
           Paint(15, 6, Span(0, 100), {4}), Paint(21, 7, Span(0, 50), {1}),
           Paint(22, 7, Span(0, 100), {}),
           [Paint(23, 6, Span(0, 100), {5}) EXCEPT !.name = 13]}
MCPayloads == {Stated, {IF e.id \in {12, 23} THEN [e EXCEPT !.range = {}] ELSE e : e \in Stated}}

MCRuleSets == {[version |-> "legacy", from |-> 1, until |-> {5}, counts |-> 5 :> 3],
               [version |-> "later", from |-> 5, until |-> {}, counts |-> 5 :> 3 @@ 6 :> 2]}

At(price, units) == [price |-> price, units |-> units]

(* Both qualities ask the same. *)
Both(prices) == [n \in {<<k[1], q, k[2]>> : k \in DOMAIN prices, q \in {N, S}} |-> prices[<<n[1], n[3]>>]]

Base == Both(<<1, 3>> :> At(10, 3) @@ <<1, 2>> :> At(20, 1)
             @@ <<2, 3>> :> At(8, 2) @@ <<3, 3>> :> At(12, 2)
             @@ <<4, 3>> :> At(3, 1) @@ <<3, 2>> :> At(16, 2)
             @@ <<11, 3>> :> At(100, 0) @@ <<11, 4>> :> At(16, 2) @@ <<11, 2>> :> At(120, 2)
             @@ <<12, 3>> :> At(61, 1) @@ <<13, 3>> :> At(37, 1) @@ <<12, 1>> :> At(130, 1)
             @@ <<14, 3>> :> At(25, 4) @@ <<15, 3>> :> At(31, 1) @@ <<21, 1>> :> At(400, 0) @@ <<21, 3>> :> At(40, 1))

Without(asks, y) == [n \in {m \in DOMAIN asks : m[1] # y} |-> asks[n]]
Changed(asks, s, price, units) ==
  [n \in DOMAIN asks |-> IF n[1] = s THEN At(price, units) ELSE asks[n]]
Shared == Both(<<5, 3>> :> At(4, 2)) @@ Base

MCCatalogues == {[at |-> 4, asks |-> Base], [at |-> 4, asks |-> Without(Base, 13)],
                 [at |-> 5, asks |-> Changed(Changed(Base, 3, 8, 1), 1, 10, 1)],
                 [at |-> 6, asks |-> Shared], [at |-> 0, asks |-> Base]}

Offer(id, skin, cost) == [id |-> id, skin |-> skin, quality |-> N, usable |-> TRUE, purse |-> "eur",
                          float |-> 20, cost |-> cost, venue |-> id % 2]

MCListings == LET one == <<1, 1>> IN
  {{Offer(1, one, 26), Offer(2, one, 26), Offer(3, one, 27), Offer(4, one, 40)},
   {Offer(1, one, 24), Offer(2, one, 24), [Offer(3, one, 5) EXCEPT !.float = 60],
    [Offer(4, one, 5) EXCEPT !.usable = FALSE], [Offer(5, one, 5) EXCEPT !.purse = "balance"]},
   {Offer(1, one, 20), Offer(2, one, 20), Offer(3, one, 24), Offer(4, one, 24)}}

MCMaxUnpriced == <<1, 5>>
MCFloors == {<<1, 1>>, <<11, 10>>}

MCSchedule == {[id |-> "sale", venue |-> "skinport", operation |-> "SALE", from |-> 0, until |-> {},
                lower |-> 0, upper |-> {}, rate |-> <<8, 100>>, fixed |-> 0,
                minimum |-> {}, maximum |-> {}]}
=============================================================================
