------------------------------- MODULE Money --------------------------------
(***************************************************************************)
(* Amounts of money.  Requests carry decimals; the ledger stores integers, *)
(* the minor units of the currency; answers carry decimals again.  Here a  *)
(* decimal is a whole number of ten-thousandths of the major unit, a tenth *)
(* of the smallest minor unit any currency has.                            *)
(***************************************************************************)
EXTENDS Integers

(* _MINOR_UNIT_EXPONENTS: the currencies whose exponent is not 2.          *)
NoMinorUnit == {"JPY", "KRW", "ISK", "HUF", "CLP"}
ThreeDigits == {"BHD", "KWD", "OMR", "TND"}

minor_unit_exponent(currency) ==
  IF currency \in NoMinorUnit THEN 0 ELSE IF currency \in ThreeDigits THEN 3 ELSE 2

(* The minor unit of a currency, in ten-thousandths of the major one: four *)
(* digits less the exponent.                                               *)
Quantum(currency) ==
  IF minor_unit_exponent(currency) = 0 THEN 10000
  ELSE IF minor_unit_exponent(currency) = 2 THEN 100 ELSE 10

(* Mutant: what is beyond the minor unit is cut. *)
QuantizeDown(n, q) == n \div q

(* Decimal.quantize with ROUND_HALF_EVEN: n in units of q, halves to even. *)
Quantize(n, q) ==
  LET whole == n \div q
      twice == 2 * (n % q) IN
  IF twice < q \/ (twice = q /\ whole % 2 = 0) THEN whole ELSE whole + 1

from_decimal(amount, currency) == Quantize(amount, Quantum(currency))

to_decimal(minor, currency) == minor * Quantum(currency)

=============================================================================
