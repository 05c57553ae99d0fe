----------------------------- MODULE LandedCost -----------------------------
(***************************************************************************)
(* The landed-cost engine (internal/landedcost): what a watch costs once   *)
(* it is in the buyer's country, line by line.  Amounts are in hundredths, *)
(* rates in hundredths of a unit per euro, percentages in thousandths; a   *)
(* line is rounded once, when it is made, half away from zero.             *)
(***************************************************************************)
EXTENDS Integers

CONSTANT NoAmount   \* an error instead of an amount

CardSpread      == 15      \* CardSpreadPct
DefaultShipping == 18000   \* in whatever the currency of the buyer is

Round(n, d) == (2 * n + d) \div (2 * d)

EuroCountry == {"PT", "DE", "FR", "IT", "ES", "NL", "AT", "BE", "IE"}

CurrencyFor(country) ==
  CASE country = "JP"           -> "JPY"
    [] country = "US"           -> "USD"
    [] country \in {"GB", "UK"} -> "GBP"
    [] country = "CH"           -> "CHF"
    [] country = "HK"           -> "HKD"
    [] country \in EuroCountry  -> "EUR"
    [] OTHER                    -> NoAmount

\* FX.Rate: rates is a function on the currencies of the table.
HasRate(rates, ccy) == ccy \in DOMAIN rates /\ rates[ccy] > 0

Convert(rates, from, to, amount) ==
  IF HasRate(rates, from) /\ HasRate(rates, to)
  THEN Round(amount * rates[to], rates[from]) ELSE NoAmount

\* ConvertToUSD and evaluate.toUSD.
ConvertToUSD(rates, ccy, amount) == Convert(rates, ccy, "USD", amount)

PerThousand(amount, rate) == Round(amount * rate, 1000)

\* The lines of Compute from the item's price at the destination on.
Lines(rule, item) ==
  LET spread    == PerThousand(item, CardSpread)
      insurance == PerThousand(item, rule.insurance)
      cif       == item + spread + DefaultShipping + insurance
      duty      == PerThousand(cif, rule.duty)
      vat       == PerThousand(cif + duty, rule.vat)
  IN  [item |-> item, spread |-> spread, shipping |-> DefaultShipping,
       insurance |-> insurance, duty |-> duty, vat |-> vat,
       total |-> cif + duty + vat]

\* Compute: shipping is not given, as in an evaluation.  An item without a
\* positive price, a country or a currency without a rate are errors.
Compute(rule, rates, price, ccy) ==
  LET item == Convert(rates, ccy, CurrencyFor(rule.to), price)
  IN  IF CurrencyFor(rule.to) = NoAmount \/ item = NoAmount \/ price <= 0
      THEN NoAmount ELSE Lines(rule, item)
=============================================================================
