----------------------------- MODULE Settlement -----------------------------
(***************************************************************************)
(* The crypto rail: what moving a block of capital to a venue and back     *)
(* loses, and the share of that a contract is charged                      *)
(* (valuation/settlement.py, domain/conversion.py).  A quote is            *)
(*   [rate, age]: minor units of fiat per minor unit of crypto, and how    *)
(* old it is.                                                              *)
(***************************************************************************)
EXTENDS Fees

CONSTANTS Venue, Network,     \* where the fee rules of the rail are filed
          MaxQuoteAge,        \* of a conversion quote
          VolatilityHaircut,  \* a ratio
          Contracts           \* that one round trip is to support

ASSUME SettlementAssumption ==
  /\ Contracts \in Nat \ {0}
  /\ VolatilityHaircut \in Fraction /\ VolatilityHaircut[1] < VolatilityHaircut[2]

IsQuote(quote) == quote.rate \in (Nat \ {0}) \X (Nat \ {0})

(* Mutant: what we must pay is rounded down. *)
CostInCryptoRoundedDown(quote, fiat) == RoundDown(fiat * quote.rate[2], quote.rate[1])

CostInCrypto(quote, fiat) == RoundUp(fiat * quote.rate[2], quote.rate[1])
ProceedsInCrypto(quote, fiat) == RoundDown(fiat * quote.rate[2], quote.rate[1])
CostInFiat(quote, crypto) == RoundUp(crypto * quote.rate[1], quote.rate[2])
ProceedsInFiat(quote, crypto) == RoundDown(crypto * quote.rate[1], quote.rate[2])

OnRail(schedule, operation, basis) == Fee(schedule, Venue, operation, basis, 0)
NetworkFee(schedule, crypto) == Fee(schedule, Network, "transfer", crypto, 0)

(* What goes over the network to place the capital, and to bring it back.  *)
Sent(schedule, capital, quote) ==
  CostInCrypto(quote, capital + OnRail(schedule, "deposit", capital)
                              + OnRail(schedule, "conversion", capital))
Returned(schedule, proceeds, quote) ==
  ProceedsInCrypto(quote, proceeds - OnRail(schedule, "withdrawal", proceeds)
                                   - OnRail(schedule, "conversion", proceeds))

(* Everything that leaves the wallet, and what it is credited. *)
Outlay(schedule, capital, quote) ==
  Sent(schedule, capital, quote) + NetworkFee(schedule, Sent(schedule, capital, quote))
Received(schedule, proceeds, quote) ==
  Returned(schedule, proceeds, quote) - NetworkFee(schedule, Returned(schedule, proceeds, quote))

AfterHaircut(crypto) ==
  ScaledDown(crypto, <<VolatilityHaircut[2] - VolatilityHaircut[1], VolatilityHaircut[2]>>)

Drag(schedule, capital, quote) ==
  CostInFiat(quote, Outlay(schedule, capital, quote))
    - ProceedsInFiat(quote, AfterHaircut(Received(schedule, capital, quote)))

(* No plan on an old quote or with a fee that is not known. *)
Plannable(schedule, capital, quote) ==
  /\ capital > 0 /\ quote.age <= MaxQuoteAge
  /\ \A op \in {"deposit", "conversion", "withdrawal"} :
       FeeKnown(schedule, Venue, op, capital, 0)
  /\ \A crypto \in {Sent(schedule, capital, quote), Returned(schedule, capital, quote)} :
       FeeKnown(schedule, Network, "transfer", crypto, 0)

(* Mutant: the round trip is shared by one contract too many. *)
ChargeRateDiluted(schedule, capital, quote) == <<Drag(schedule, capital, quote), capital * (Contracts + 1)>>

(* The share of its acquisition cost a contract is charged. *)
ChargeRate(schedule, capital, quote) == <<Drag(schedule, capital, quote), capital * Contracts>>
=============================================================================
