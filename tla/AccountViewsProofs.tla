------------------------- MODULE AccountViewsProofs -------------------------
(***************************************************************************)
(* Proofs about AccountViews, for any number of banks, customers, accounts *)
(* and entries and for amounts of any size: what was sent is shown to the  *)
(* nearest minor unit, batches are seen whole, statements add up, and an   *)
(* answer is true of one moment of its request.  First what rounding to    *)
(* the minor unit does to an amount, for every amount and every unit.      *)
(***************************************************************************)
EXTENDS AccountViews, FiniteSetTheorems, WellFoundedInduction, TLAPS

-----------------------------------------------------------------------------
(* Rounding *)

(* Division by a positive number, with its remainder. *)
LEMMA Division ==
  ASSUME NEW n \in Int, NEW q \in Nat \ {0}
  PROVE  /\ n \div q \in Int /\ n % q \in Int
         /\ n = q * (n \div q) + (n % q)
         /\ 0 <= n % q /\ n % q < q
<1>1. n \div q \in Int /\ n % q \in Int
  BY SMT
<1>2. n = q * (n \div q) + (n % q)
  BY SMT
<1>3. 0 <= n % q /\ n % q < q
  BY SMT
<1> QED BY <1>1, <1>2, <1>3

(* There is only one way to divide: a remainder less than the divisor      *)
(* determines the quotient.                                                *)
LEMMA QuotientIsUnique ==
  ASSUME NEW q \in Nat \ {0}, NEW w \in Int, NEW v \in Int,
         NEW r \in 0 .. q - 1, NEW s \in 0 .. q - 1,
         q * w + r = q * v + s
  PROVE  w = v /\ r = s
<1>1. q * (w - v) = s - r
  BY SMT
<1>2. CASE w > v
  <2>1. q * (w - v) >= q
    BY <1>2, SMT
  <2> QED BY <1>1, <2>1, SMT
<1>3. CASE w < v
  <2>1. q * (v - w) >= q /\ q * (v - w) = r - s
    BY <1>3, <1>1, SMT
  <2> QED BY <2>1, SMT
<1> QED BY <1>1, <1>2, <1>3, SMT

(* The amount booked is nearest to the amount sent: it is at most half a   *)
(* minor unit away.                                                        *)
THEOREM QuantizeIsNearest ==
  ASSUME NEW n \in Int, NEW q \in Nat \ {0}
  PROVE  /\ Quantize(n, q) \in Int
         /\ 2 * (q * Quantize(n, q) - n) <= q
         /\ 2 * (n - q * Quantize(n, q)) <= q
<1> DEFINE w == n \div q  r == n % q
<1>1. w \in Int /\ r \in Int /\ n = q * w + r /\ 0 <= r /\ r < q
  BY Division
<1>2. q * (w + 1) = q * w + q
  BY <1>1
<1>3. Quantize(n, q) = IF 2 * r < q \/ (2 * r = q /\ w % 2 = 0) THEN w ELSE w + 1
  BY DEF Quantize
<1> HIDE DEF w, r
<1>4. CASE 2 * r < q \/ (2 * r = q /\ w % 2 = 0)
  BY <1>1, <1>2, <1>3, <1>4
<1>5. CASE ~(2 * r < q \/ (2 * r = q /\ w % 2 = 0))
  <2>1. 2 * r >= q
    BY <1>1, <1>5
  <2> QED BY <1>1, <1>2, <1>3, <1>5, <2>1
<1> QED BY <1>4, <1>5

(* A credit never books a debit, nor a debit a credit. *)
LEMMA QuantizeKeepsSide ==
  ASSUME NEW n \in Int, NEW q \in Nat \ {0}
  PROVE  /\ n >= 0 => Quantize(n, q) >= 0
         /\ n <= 0 => Quantize(n, q) <= 0
<1> DEFINE k == Quantize(n, q)
<1>1. k \in Int /\ 2 * (q * k - n) <= q /\ 2 * (n - q * k) <= q
  BY QuantizeIsNearest
<1> HIDE DEF k
<1>2. ASSUME n >= 0, k <= -1 PROVE FALSE
  <2>1. q * k <= -q
    BY <1>1, <1>2, SMT
  <2> QED BY <1>1, <1>2, <2>1, SMT
<1>3. ASSUME n <= 0, k >= 1 PROVE FALSE
  <2>1. q * k >= q
    BY <1>1, <1>3, SMT
  <2> QED BY <1>1, <1>3, <2>1, SMT
<1> QED BY <1>1, <1>2, <1>3, SMT DEF k

(* The minor unit of every currency is positive. *)
LEMMA QuantumIsPositive ==
  ASSUME NEW currency
  PROVE  Quantum(currency) \in Nat \ {0}
<1>1. minor_unit_exponent(currency) \in {0, 2, 3}
  BY DEF minor_unit_exponent
<1> QED BY <1>1 DEF Quantum

(* An amount that is a whole number of minor units is booked as it is, so  *)
(* what an answer shows may be sent again unchanged.                       *)
THEOREM QuantizeIsExact ==
  ASSUME NEW m \in Int, NEW q \in Nat \ {0}
  PROVE  Quantize(q * m, q) = m
<1> DEFINE w == (q * m) \div q  r == (q * m) % q
<1>1. q * m \in Int
  BY SMT
<1>2. w \in Int /\ r \in 0 .. q - 1 /\ q * m = q * w + r
  <2>1. \A n \in Int : n \div q \in Int /\ n % q \in 0 .. q - 1 /\ n = q * (n \div q) + (n % q)
    BY Division
  <2> QED BY <1>1, <2>1
<1>3. q * w + r = q * m + 0
  BY <1>1, <1>2
<1>4. w = m /\ r = 0
  <2> HIDE DEF w, r
  <2> QED BY <1>2, <1>3, QuotientIsUnique
<1> QED BY <1>4 DEF Quantize

(* A debit of an amount books the opposite of a credit of that amount:     *)
(* rounding does not favour a side.                                        *)
THEOREM QuantizeIsOdd ==
  ASSUME NEW n \in Int, NEW q \in Nat \ {0}
  PROVE  Quantize(-n, q) = -Quantize(n, q)
<1> DEFINE w == n \div q  r == n % q  v == (-n) \div q  s == (-n) % q
<1>1. w \in Int /\ r \in 0 .. q - 1 /\ n = q * w + r
  BY Division
<1>2. v \in Int /\ s \in 0 .. q - 1 /\ -n = q * v + s
  BY Division
<1>3. Quantize(n, q) = IF 2 * r < q \/ (2 * r = q /\ w % 2 = 0) THEN w ELSE w + 1
  BY DEF Quantize
<1>4. Quantize(-n, q) = IF 2 * s < q \/ (2 * s = q /\ v % 2 = 0) THEN v ELSE v + 1
  BY DEF Quantize
<1> HIDE DEF w, r, v, s
<1>5. CASE r = 0
  <2>1. q * v + s = q * (-w) + 0
    BY <1>1, <1>2, <1>5, SMT
  <2>2. v = -w /\ s = 0
    BY <1>1, <1>2, <2>1, QuotientIsUnique
  <2> QED BY <1>1, <1>3, <1>4, <1>5, <2>2
<1>6. CASE r # 0
  <2>1. q * v + s = q * (-w - 1) + (q - r)
    BY <1>1, <1>2, SMT
  <2>2. q - r \in 0 .. q - 1 /\ -w - 1 \in Int
    BY <1>1, <1>6
  <2>3. v = -w - 1 /\ s = q - r
    <3>1. \A z \in Int, t \in 0 .. q - 1 : q * v + s = q * z + t => v = z /\ s = t
      BY <1>2, QuotientIsUnique
    <3> QED BY <2>1, <2>2, <3>1
  <2>4. w % 2 = 0 <=> v % 2 # 0
    BY <1>1, <2>3, SMT
  <2>5. CASE 2 * r < q
    BY <1>1, <1>3, <1>4, <2>3, <2>5
  <2>6. CASE 2 * r > q
    BY <1>1, <1>3, <1>4, <2>3, <2>6
  <2>7. CASE 2 * r = q
    BY <1>1, <1>3, <1>4, <2>3, <2>4, <2>7
  <2> QED BY <1>1, <2>5, <2>6, <2>7
<1> QED BY <1>5, <1>6

-----------------------------------------------------------------------------
(* Doubles *)

(* Every set of natural numbers that is not empty has a least element.     *)
LEMMA LeastNatural ==
  ASSUME NEW T \in SUBSET Nat, T # {}
  PROVE  \E n \in T : \A m \in T : n <= m
<1> DEFINE Less == {p \in Nat \X Nat : p[1] < p[2]}
<1>1. IsWellFoundedOn(Less, Nat)
  BY NatLessThanWellFounded DEF OpToRel
<1>2. PICK n \in T : \A m \in T : ~(<<m, n>> \in Less)
  BY <1>1, WFMin
<1>3. ASSUME NEW m \in T PROVE n <= m
  <2>1. ~(<<m, n>>[1] < <<m, n>>[2]) /\ m \in Nat /\ n \in Nat
    BY <1>2
  <2> QED BY <2>1
<1> QED BY <1>3

LEMMA SizeIsNat ==
  ASSUME NEW n \in Int
  PROVE  /\ Size(n) \in Nat /\ Size(-n) = Size(n)
         /\ Size(n) = n \/ Size(n) = -n
         /\ n <= Size(n) /\ -n <= Size(n)
BY DEF Size

(* A number with more than FloatExact has a largest distance that fits it. *)
LEMMA SpacingFits ==
  ASSUME NEW size \in Nat, size > FloatExact
  PROVE  Spacing(size) \in Nat \ {0} /\ Spacing(size) * Precision <= size
<1> DEFINE Fits1(g) == g * Precision <= size
           T == {size - g : g \in {h \in Spacings : Fits1(h)}}
<1>1. /\ Spacings \subseteq Nat \ {0} /\ 1 \in Spacings
      /\ Precision \in Nat \ {0} /\ FloatExact \in Nat /\ Precision <= FloatExact
  BY FloatAssumption
<1>2. Fits1(1)
  BY <1>1
<1>3. ASSUME NEW g \in Spacings, Fits1(g) PROVE g \in Nat \ {0} /\ g <= size
  <2>1. g \in Nat \ {0}
    BY <1>1
  <2>2. \A x, y \in Nat \ {0} : x <= x * y
    BY SMT
  <2>3. g <= g * Precision /\ g * Precision \in Int
    BY <1>1, <2>1, <2>2, SMT
  <2> QED BY <1>3, <2>1, <2>3
<1> HIDE DEF Fits1
<1>4. T \in SUBSET Nat /\ T # {}
  <2>1. T # {}
    BY <1>1, <1>2
  <2>2. \A g \in {h \in Spacings : Fits1(h)} : size - g \in Nat
    BY <1>3
  <2> QED BY <2>1, <2>2
<1>5. PICK n \in T : \A m \in T : n <= m
  BY <1>4, LeastNatural
<1>6. PICK g \in Spacings : Fits1(g) /\ n = size - g
  BY <1>5
<1>7. ASSUME NEW h \in Spacings, Fits1(h) PROVE h <= g
  <2>1. size - g <= size - h
    BY <1>5, <1>6, <1>7
  <2> QED BY <1>3, <1>6, <1>7, <2>1
<1>8. /\ Spacing(size) \in Spacings /\ Fits1(Spacing(size))
  BY <1>6, <1>7 DEF Spacing, Fits1
<1> QED BY <1>1, <1>8 DEF Fits1

(* What a double makes of an amount: the sign stays, amounts up to         *)
(* FloatExact stay, and beyond that the error is one in Precision at most. *)
THEOREM FloatIsNear ==
  ASSUME NEW n \in Int
  PROVE  /\ Float(n) \in Int /\ Float(-n) = -Float(n)
         /\ n > 0 <=> Float(n) > 0
         /\ n < 0 <=> Float(n) < 0
         /\ Size(n) <= FloatExact => Float(n) = n
         /\ Precision * Size(Float(n) - n) <= Size(n)
<1> DEFINE z == Size(n)  g == Spacing(z)  k == Quantize(z, g)
<1>1. /\ z \in Nat /\ Size(-n) = z /\ -n \in Int
      /\ z = IF n < 0 THEN -n ELSE n
  BY DEF Size
<1>2. Precision \in Nat \ {0} /\ FloatExact \in Nat
  BY FloatAssumption
<1>3. Float(n) = IF z <= FloatExact THEN n ELSE IF n < 0 THEN -(g * k) ELSE g * k
  BY DEF Float
<1>4. Float(-n) = IF z <= FloatExact THEN -n ELSE IF -n < 0 THEN -(g * k) ELSE g * k
  BY <1>1 DEF Float
<1>5. CASE z <= FloatExact
  <2>1. Float(n) = n /\ Float(-n) = -n
    BY <1>3, <1>4, <1>5
  <2>2. Size(Float(n) - n) = 0
    BY <2>1 DEF Size
  <2>3. Precision * 0 = 0
    BY <1>2
  <2> QED BY <1>1, <1>5, <2>1, <2>2, <2>3
<1>6. CASE ~(z <= FloatExact)
  <2>1. g \in Nat \ {0} /\ g * Precision <= z
    BY <1>1, <1>2, <1>6, SpacingFits
  <2> HIDE DEF g
  <2>2. k \in Int /\ 2 * (g * k - z) <= g /\ 2 * (z - g * k) <= g
    BY <1>1, <2>1, QuantizeIsNearest
  <2> HIDE DEF k, z
  <2> DEFINE near == g * k  off == Size(near - z)
  <2>3. near \in Int
    BY <2>1, <2>2, SMT
  <2>4. g <= z
    <3>1. g <= g * Precision /\ g * Precision \in Int
      BY <1>2, <2>1, SMT
    <3> QED BY <1>1, <2>1, <3>1
  <2>5. near > 0 /\ z > 0 /\ off \in Nat /\ 2 * off <= g
    <3>1. 2 * (near - z) <= g /\ 2 * (z - near) <= g
      BY <2>2
    <3> HIDE DEF near
    <3> QED BY <1>1, <2>1, <2>3, <2>4, <3>1 DEF Size
  <2> HIDE DEF near
  <2>6. Precision * off <= z
    <3>0. off \in Nat /\ off <= g
      BY <2>1, <2>5
    <3> HIDE DEF off
    <3>1. Precision * off <= g * Precision /\ Precision * off \in Int /\ g * Precision \in Int
      BY <1>2, <2>1, <3>0, SMT
    <3> QED BY <1>1, <2>1, <3>1
  <2>7. Float(n) = (IF n < 0 THEN -near ELSE near) /\ Float(-n) = (IF -n < 0 THEN -near ELSE near)
    BY <1>3, <1>4, <1>6 DEF near
  <2>8. n # 0
    BY <1>1, <2>5
  <2>9. Size(Float(n) - n) = off
    <3>1. CASE n < 0
      <4>1. Float(n) - n = -(near - z) /\ near - z \in Int
        BY <1>1, <2>3, <2>7, <3>1
      <4> QED BY <4>1, SizeIsNat
    <3>2. CASE ~(n < 0)
      BY <1>1, <2>7, <3>2
    <3> QED BY <3>1, <3>2
  <2>10. /\ Float(n) \in Int /\ Float(-n) = -Float(n)
         /\ n > 0 <=> Float(n) > 0
         /\ n < 0 <=> Float(n) < 0
    <3> HIDE DEF off
    <3> QED BY <2>3, <2>5, <2>7, <2>8
  <2>11. Precision * Size(Float(n) - n) <= z
    BY <2>6, <2>9
  <2> QED BY <1>6, <2>10, <2>11 DEF z
<1> QED BY <1>5, <1>6

-----------------------------------------------------------------------------
(* Which steps a request goes through. *)

Fields ==
  {"pc", "by", "of", "bank", "holder", "account", "window", "branches", "people", "todo",
   "rows", "ledger", "began"}

IsRequest(q) == DOMAIN q = Fields /\ q = [f \in DOMAIN q |-> q[f]]

StatsSteps == {"list_customers", "list_accounts", "count"}
ParticipantsSteps == {"next_bank", "list_accounts", "next_row"}
AccountSteps == {"find_account", "list_accounts", "country", "read_account", "read_entries"}

Fits(of, label) ==
  /\ of = "stats" => label \in StatsSteps
  /\ of = "participants" => label \in ParticipantsSteps
  /\ of = "transactions" => label \in AccountSteps
  /\ label = "count" => of = "stats"
  /\ label \in {"next_bank", "next_row"} => of = "participants"

StepsInv == IsRequest(request) /\ (request.pc # "idle" => Fits(request.of, request.pc))

-----------------------------------------------------------------------------
(* What was sent is shown. *)

Near(shown, sent, unit) ==
  /\ 2 * (shown - sent) <= unit /\ 2 * (sent - shown) <= unit
  /\ sent > 0 => shown >= 0
  /\ sent < 0 => shown <= 0

(* A posting is near what was sent.                                        *)
PostingOK(p) ==
  /\ p.account \in Accounts /\ p.minor \in Int /\ p.sent \in Int
  /\ Near(Decimal(p.minor, p.account), p.sent, Quantum(Row[p.account].currency))

Shows(by, r, p) ==
  LET shown == Moved(by, r)
      unit == Quantum(Row[r.account].currency) IN
  /\ p.id = r.entry /\ p.leg = r.leg /\ p.account = r.account
  /\ CloseTo(by, shown, p.sent, unit)
  /\ (p.sent > 0 => shown >= 0) /\ (2 * p.sent > unit => shown > 0)
  /\ (p.sent < 0 => shown <= 0) /\ (2 * p.sent < -unit => shown < 0)
  /\ r.side # "none" => (r.side = "credit" <=> shown > 0)

RowOK(by, r, ledger) == \E p \in ledger : Shows(by, r, p)

RowsNear(q) == q.of = "transactions" => \A r \in q.rows : RowOK(q.by, r, q.ledger)

SentInv ==
  /\ \A p \in journal : PostingOK(p)
  /\ RowsNear(request)
  /\ \A x \in answers : RowsNear(x)

(* Booking rounds to the nearest minor unit and keeps the side. *)
LEMMA BookedIsNear ==
  ASSUME NEW amount \in Nat \ {0}, NEW currency
  PROVE  /\ from_decimal(amount, currency) \in Int
         /\ Near(to_decimal(from_decimal(amount, currency), currency), amount, Quantum(currency))
         /\ Near(to_decimal(-from_decimal(amount, currency), currency), -amount, Quantum(currency))
<1> DEFINE q == Quantum(currency)  k == Quantize(amount, q)
<1>1. q \in Nat \ {0}
  BY QuantumIsPositive
<1> HIDE DEF q
<1>2. /\ k \in Int /\ 2 * (q * k - amount) <= q /\ 2 * (amount - q * k) <= q /\ k >= 0
  BY <1>1, QuantizeIsNearest, QuantizeKeepsSide
<1>3. from_decimal(amount, currency) = k
  BY DEF from_decimal, q
<1>4. to_decimal(k, currency) = k * q /\ to_decimal(-k, currency) = (-k) * q
  BY DEF to_decimal, q
<1> HIDE DEF k
<1>5. k * q = q * k /\ (-k) * q = -(q * k) /\ q * k \in Int /\ q * k >= 0
  BY <1>1, <1>2, SMT
<1>6. Near(k * q, amount, q) /\ Near((-k) * q, -amount, q)
  BY <1>1, <1>2, <1>5 DEF Near
<1> QED BY <1>2, <1>3, <1>4, <1>6 DEF q

(* A row shows what the posting did, as the protocol writes it. *)
LEMMA RowMoves ==
  ASSUME NEW by, NEW P, NEW a, NEW p, p.minor \in Int
  PROVE  LET r == TransactionRow(by, a, P, p) IN
         /\ r.account = a /\ r.entry = p.id /\ r.leg = p.leg
         /\ Decimal(p.minor, a) \in Int
         /\ Moved(by, r) = Written(by, Decimal(p.minor, a))
         /\ r.side # "none" => (r.side = "credit" <=> Decimal(p.minor, a) > 0)
         /\ by # "fdx" => r.amount = Decimal(p.minor, a)
<1> DEFINE signed == Decimal(p.minor, a)
           r == TransactionRow(by, a, P, p)
<1>1. signed \in Int
  BY QuantumIsPositive, SMT DEF Decimal, to_decimal
<1>2. /\ r.account = a /\ r.entry = p.id /\ r.leg = p.leg
      /\ r.side = IF by \notin {"fdx", "management"} THEN "none"
                  ELSE IF signed > 0 THEN "credit" ELSE "debit"
      /\ r.amount = Written(by, IF by = "fdx" /\ signed < 0 THEN -signed ELSE signed)
  BY DEF TransactionRow
<1> HIDE DEF signed, r
<1>3. /\ Float(signed) \in Int /\ Float(-signed) = -Float(signed)
      /\ signed = 0 => Float(signed) = 0
  BY <1>1, FloatIsNear
<1>4. Moved(by, r) = Written(by, signed)
  <2>1. CASE by = "fdx"
    <3>1. CASE signed > 0
      BY <1>1, <1>2, <2>1, <3>1 DEF Moved, Written
    <3>2. CASE signed = 0
      <4>1. Moved(by, r) = -Float(signed) /\ Written(by, signed) = Float(signed)
        BY <1>2, <2>1, <3>2 DEF Moved, Written
      <4> QED BY <1>3, <3>2, <4>1
    <3>3. CASE signed < 0
      <4>1. Moved(by, r) = -Float(-signed) /\ Written(by, signed) = Float(signed)
        BY <1>1, <1>2, <2>1, <3>3 DEF Moved, Written
      <4> QED BY <1>3, <4>1
    <3> QED BY <1>1, <3>1, <3>2, <3>3
  <2>2. CASE by # "fdx"
    BY <1>2, <2>2 DEF Moved, Written
  <2> QED BY <2>1, <2>2
<1>5. /\ by # "fdx" => r.amount = signed
      /\ r.side # "none" => (r.side = "credit" <=> signed > 0)
  BY <1>2 DEF Written
<1> QED BY <1>1, <1>2, <1>4, <1>5 DEF signed, r

(* What is within half a unit of what was sent is close to it as a double. *)
LEMMA WrittenIsClose ==
  ASSUME NEW by, NEW n \in Int, NEW sent \in Int, NEW unit \in Nat \ {0}, Near(n, sent, unit)
  PROVE  CloseTo(by, Written(by, n), sent, unit)
<1>1. 2 * Size(n - sent) <= unit /\ Size(n - sent) \in Nat
  BY DEF Near, Size
<1>2. CASE by # "fdx" \/ Size(n) <= FloatExact
  <2>1. Written(by, n) = n
    BY <1>2, FloatIsNear DEF Written
  <2> QED BY <1>1, <2>1 DEF CloseTo
<1>3. CASE by = "fdx" /\ ~(Size(n) <= FloatExact)
  <2> DEFINE f == Float(n)  d == Size(f - n)  off == Size(f - sent)
  <2>1. f \in Int /\ Precision * d <= Size(n)
    BY FloatIsNear
  <2>2. Written(by, n) = f
    BY <1>3 DEF Written
  <2> HIDE DEF f
  <2>3. /\ d \in Nat /\ off \in Nat /\ Size(n) \in Nat /\ Size(sent) \in Nat
        /\ off <= d + Size(n - sent) /\ Size(n) <= Size(sent) + Size(n - sent)
    BY <2>1 DEF Size
  <2>4. Precision \in Nat \ {0} /\ FloatExact \in Nat
    BY FloatAssumption
  <2> HIDE DEF d, off
  <2>5. 2 * off - unit <= 2 * d /\ 2 * Size(n) <= 2 * Size(sent) + unit
    BY <1>1, <2>3
  <2>6. Precision * (2 * off - unit) <= 2 * (Precision * d)
    <3> DEFINE x == 2 * off - unit
    <3>1. x \in Int /\ x <= 2 * d
      BY <2>3, <2>5
    <3> HIDE DEF x
    <3>2. Precision * x <= Precision * (2 * d)
      BY <2>3, <2>4, <3>1, SMT
    <3>3. Precision * (2 * d) = 2 * (Precision * d)
      BY <2>3, <2>4, SMT
    <3> QED BY <3>2, <3>3 DEF x
  <2>7. Precision * d \in Int /\ Precision * (2 * off - unit) \in Int
    BY <2>3, <2>4, SMT
  <2>8. Precision * (2 * off - unit) <= 2 * Size(sent) + unit
    <3> DEFINE y == Precision * (2 * off - unit)  v == Precision * d
    <3>1. y \in Int /\ v \in Int /\ y <= 2 * v /\ v <= Size(n)
      BY <2>1, <2>6, <2>7
    <3> HIDE DEF y, v
    <3>2. y <= 2 * Size(sent) + unit
      BY <2>3, <2>5, <3>1
    <3> QED BY <3>2 DEF y
  <2>9. 2 * Size(sent) + unit > 2 * FloatExact
    BY <1>3, <2>3, <2>4, <2>5
  <2> QED BY <1>3, <2>2, <2>8, <2>9 DEF CloseTo, off
<1> QED BY <1>2, <1>3

LEMMA RowShowsPosting ==
  ASSUME NEW by, NEW P, NEW p \in P, PostingOK(p), NEW a, a = p.account,
         NEW ledger, P \subseteq ledger
  PROVE  RowOK(by, TransactionRow(by, a, P, p), ledger)
<1> DEFINE unit == Quantum(Row[a].currency)
           signed == Decimal(p.minor, a)
           r == TransactionRow(by, a, P, p)
<1>1. unit \in Nat \ {0}
  BY QuantumIsPositive
<1>2. /\ p.minor \in Int /\ p.sent \in Int /\ Near(signed, p.sent, unit)
  BY DEF PostingOK
<1>3. /\ r.account = a /\ r.entry = p.id /\ r.leg = p.leg /\ signed \in Int
      /\ Moved(by, r) = Written(by, signed)
      /\ r.side # "none" => (r.side = "credit" <=> signed > 0)
  BY <1>2, RowMoves
<1> HIDE DEF unit, signed, r
<1>4. CloseTo(by, Written(by, signed), p.sent, unit)
  BY <1>1, <1>2, <1>3, WrittenIsClose
<1>5. /\ Written(by, signed) \in Int
      /\ signed > 0 <=> Written(by, signed) > 0
      /\ signed < 0 <=> Written(by, signed) < 0
  BY <1>3, FloatIsNear DEF Written
<1>6. /\ p.sent > 0 => signed >= 0
      /\ p.sent < 0 => signed <= 0
      /\ 2 * p.sent > unit => signed > 0
      /\ 2 * p.sent < -unit => signed < 0
  BY <1>1, <1>2, <1>3 DEF Near
<1>7. Shows(by, r, p)
  BY <1>2, <1>3, <1>4, <1>5, <1>6 DEF Shows, unit
<1> QED BY <1>7 DEF RowOK, r

-----------------------------------------------------------------------------
(* Each step goes on to a step of its own kind of request, with rows that  *)
(* show what was sent.                                                     *)
SentIInv == StepsInv /\ SentInv

LEMMA SentInit == Init => SentIInv
BY DEF Init, SentIInv, StepsInv, SentInv, NoRequest, IsRequest, Fields, RowsNear

LEMMA GotoKeeps ==
  ASSUME SentIInv, NEW q, IsRequest(q), RowsNear(q), NEW label, Fits(q.of, label),
         Goto(q, label), UNCHANGED journal
  PROVE  SentIInv'
<1>1. /\ IsRequest(request') /\ request'.pc = label /\ request'.of = q.of
      /\ request'.by = q.by /\ request'.rows = q.rows /\ request'.ledger = q.ledger
  BY DEF Goto, IsRequest, Fields
<1>2. RowsNear(request') /\ answers' = answers
  BY <1>1 DEF Goto, RowsNear
<1> QED BY <1>1, <1>2 DEF SentIInv, StepsInv, SentInv

LEMMA NoRequestKeeps ==
  ASSUME SentIInv, request' = NoRequest, UNCHANGED journal,
         \A x \in answers' : RowsNear(x)
  PROVE  SentIInv'
<1>1. IsRequest(request') /\ request'.pc = "idle" /\ request'.of = "none"
  BY DEF NoRequest, IsRequest, Fields
<1> QED BY <1>1 DEF SentIInv, StepsInv, SentInv, RowsNear

LEMMA AnswerKeeps ==
  ASSUME SentIInv, NEW q, RowsNear(q), Answer(q), UNCHANGED journal
  PROVE  SentIInv'
<1>1. request' = NoRequest
  BY DEF Answer
<1>2. ASSUME NEW x \in answers' PROVE RowsNear(x)
  <2>1. \/ x \in answers
        \/ x.of = q.of /\ x.by = q.by /\ x.rows = q.rows /\ x.ledger = q.ledger
    BY DEF Answer
  <2> QED BY <2>1 DEF SentIInv, SentInv, RowsNear
<1> QED BY <1>1, <1>2, NoRequestKeeps

LEMMA RefuseKeeps ==
  ASSUME SentIInv, Refuse, UNCHANGED journal PROVE SentIInv'
BY NoRequestKeeps DEF Refuse, SentIInv, SentInv

LEMMA ListCustomersKeeps ==
  ASSUME SentIInv, ListCustomers PROVE SentIInv'
<1> DEFINE q == request
           found == {c \in CustomersOf(q.bank) : q.holder # None => c = q.holder}
<1>1. /\ IsRequest(q) /\ Fits(q.of, "list_customers") /\ UNCHANGED journal
      /\ q.of # "transactions"
  BY DEF ListCustomers, At, SentIInv, StepsInv, tables, Fits, AccountSteps
<1>2. CASE q.of = "stats"
  <2> DEFINE p == [q EXCEPT !.people = found]
  <2>1. IsRequest(p) /\ p.of = q.of
    BY <1>1 DEF IsRequest, Fields
  <2>2. Goto(p, "list_accounts")
    BY <1>2 DEF ListCustomers
  <2>3. Fits(p.of, "list_accounts") /\ RowsNear(p)
    BY <1>2, <2>1 DEF Fits, StatsSteps, RowsNear
  <2> QED BY <1>1, <2>1, <2>2, <2>3, GotoKeeps
<1>3. CASE Refuse
  BY <1>1, <1>3, RefuseKeeps
<1>4. CASE \E R : Answer([q EXCEPT !.rows = R])
  <2>1. PICK R : Answer([q EXCEPT !.rows = R])
    BY <1>4
  <2> DEFINE p == [q EXCEPT !.rows = R]
  <2>2. p.of = q.of
    BY <1>1 DEF IsRequest, Fields
  <2> QED BY <1>1, <2>1, <2>2, AnswerKeeps DEF RowsNear
<1> QED BY <1>2, <1>3, <1>4 DEF ListCustomers

LEMMA ListAccountsKeeps ==
  ASSUME SentIInv, ListAccounts PROVE SentIInv'
<1> DEFINE q == request
           next(T) == [q EXCEPT !.todo = T]
<1>1. /\ IsRequest(q) /\ RowsNear(q) /\ UNCHANGED journal
  BY DEF ListAccounts, At, SentIInv, StepsInv, SentInv, tables
<1>2. ASSUME NEW T PROVE IsRequest(next(T)) /\ next(T).of = q.of /\ RowsNear(next(T))
  BY <1>1 DEF IsRequest, Fields, RowsNear
<1>3. CASE \E T, label : Fits(q.of, label) /\ Goto(next(T), label)
  <2>1. PICK T, label : Fits(q.of, label) /\ Goto(next(T), label)
    BY <1>3
  <2> HIDE DEF next
  <2> QED BY <1>1, <1>2, <2>1, GotoKeeps
<1>4. CASE Answer(q)
  BY <1>1, <1>4, AnswerKeeps
<1>5. CASE Refuse
  BY <1>1, <1>5, RefuseKeeps
<1>6. Fits("stats", "count") /\ Fits("participants", "next_row")
  BY DEF Fits, StatsSteps, ParticipantsSteps
<1>7. \A label \in {"country", "read_account"} :
        q.of \in {"accounts", "account", "balances", "transactions"} => Fits(q.of, label)
  BY DEF Fits, AccountSteps
<1> QED BY <1>3, <1>4, <1>5, <1>6, <1>7 DEF ListAccounts

LEMMA CountKeeps ==
  ASSUME SentIInv, Count PROVE SentIInv'
<1> DEFINE q == request
<1>1. IsRequest(q) /\ q.of = "stats" /\ UNCHANGED journal
  BY DEF Count, At, SentIInv, StepsInv, tables, Fits
<1>2. PICK R : Answer([q EXCEPT !.rows = R])
  BY DEF Count
<1> DEFINE p == [q EXCEPT !.rows = R]
<1>3. p.of = q.of
  BY <1>1 DEF IsRequest, Fields
<1> QED BY <1>1, <1>2, <1>3, AnswerKeeps DEF RowsNear

LEMMA NextBankKeeps ==
  ASSUME SentIInv, NextBank PROVE SentIInv'
<1> DEFINE q == request
<1>1. IsRequest(q) /\ RowsNear(q) /\ q.of = "participants" /\ UNCHANGED journal
  BY DEF NextBank, At, SentIInv, StepsInv, SentInv, tables, Fits
<1>2. CASE Answer(q)
  BY <1>1, <1>2, AnswerKeeps
<1>3. CASE \E b, B : Goto([q EXCEPT !.bank = b, !.branches = B], "list_accounts")
  <2>1. PICK b, B : Goto([q EXCEPT !.bank = b, !.branches = B], "list_accounts")
    BY <1>3
  <2> DEFINE p == [q EXCEPT !.bank = b, !.branches = B]
  <2>2. IsRequest(p) /\ p.of = q.of
    BY <1>1 DEF IsRequest, Fields
  <2>3. Fits(p.of, "list_accounts") /\ RowsNear(p)
    BY <1>1, <2>2 DEF Fits, ParticipantsSteps, RowsNear
  <2> QED BY <1>1, <2>1, <2>2, <2>3, GotoKeeps
<1> QED BY <1>2, <1>3 DEF NextBank

LEMMA NextRowKeeps ==
  ASSUME SentIInv, NextRow PROVE SentIInv'
<1> DEFINE q == request
<1>1. IsRequest(q) /\ RowsNear(q) /\ q.of = "participants" /\ UNCHANGED journal
  BY DEF NextRow, At, SentIInv, StepsInv, SentInv, tables, Fits
<1>2. CASE Goto(q, "next_bank")
  BY <1>1, <1>2, GotoKeeps DEF Fits, ParticipantsSteps
<1>3. CASE \E T, R : Goto([q EXCEPT !.todo = T, !.rows = R], "next_row")
  <2>1. PICK T, R : Goto([q EXCEPT !.todo = T, !.rows = R], "next_row")
    BY <1>3
  <2> DEFINE p == [q EXCEPT !.todo = T, !.rows = R]
  <2>2. IsRequest(p) /\ p.of = q.of
    BY <1>1 DEF IsRequest, Fields
  <2>3. Fits(p.of, "next_row") /\ RowsNear(p)
    BY <1>1, <2>2 DEF Fits, ParticipantsSteps, RowsNear
  <2> QED BY <1>1, <2>1, <2>2, <2>3, GotoKeeps
<1> QED BY <1>2, <1>3 DEF NextRow

LEMMA FindAccountKeeps ==
  ASSUME SentIInv, FindAccount PROVE SentIInv'
<1> DEFINE q == request  p == [q EXCEPT !.todo = {q.account}]
<1>1. /\ IsRequest(q) /\ RowsNear(q) /\ UNCHANGED journal
      /\ q.of \notin {"stats", "participants"}
  BY DEF FindAccount, At, SentIInv, StepsInv, SentInv, tables, Fits, StatsSteps, ParticipantsSteps
<1>2. IsRequest(p) /\ p.of = q.of /\ RowsNear(p)
  BY <1>1 DEF IsRequest, Fields, RowsNear
<1>3. Fits(p.of, "read_account")
  BY <1>1, <1>2 DEF Fits, AccountSteps
<1>4. Goto(p, "read_account") \/ Refuse
  BY DEF FindAccount
<1> HIDE DEF p
<1> QED BY <1>1, <1>2, <1>3, <1>4, GotoKeeps, RefuseKeeps

LEMMA CountryKeeps ==
  ASSUME SentIInv, Country PROVE SentIInv'
<1> DEFINE q == request
           listed == [q EXCEPT !.todo = @ \ {Min(q.todo)},
                               !.rows = @ \union {[account |-> Min(q.todo)]}]
<1>1. /\ IsRequest(q) /\ RowsNear(q) /\ UNCHANGED journal
      /\ q.of \notin {"stats", "participants"}
  BY DEF Country, At, SentIInv, StepsInv, SentInv, tables, Fits, StatsSteps, ParticipantsSteps
<1>2. IsRequest(listed) /\ listed.of = q.of
  BY <1>1 DEF IsRequest, Fields
<1>3. \/ Refuse \/ Answer(q)
      \/ q.of = "transactions" /\ Goto(q, "read_account")
      \/ q.of # "transactions" /\ (Answer(listed) \/ Goto(listed, "country"))
  BY DEF Country
<1> HIDE DEF listed
<1>4. CASE Refuse \/ Answer(q)
  BY <1>1, <1>4, RefuseKeeps, AnswerKeeps
<1>5. CASE q.of = "transactions" /\ Goto(q, "read_account")
  <2>1. Fits(q.of, "read_account")
    BY <1>5 DEF Fits, AccountSteps
  <2> QED BY <1>1, <1>5, <2>1, GotoKeeps
<1>6. CASE q.of # "transactions" /\ (Answer(listed) \/ Goto(listed, "country"))
  <2>1. Fits(listed.of, "country") /\ RowsNear(listed)
    BY <1>1, <1>2, <1>6 DEF Fits, AccountSteps, RowsNear
  <2> QED BY <1>1, <1>2, <1>6, <2>1, GotoKeeps, AnswerKeeps
<1> QED BY <1>3, <1>4, <1>5, <1>6

LEMMA ReadAccountKeeps ==
  ASSUME SentIInv, ReadAccount PROVE SentIInv'
<1>1. /\ IsRequest(request) /\ RowsNear(request) /\ UNCHANGED journal
      /\ request.of \notin {"stats", "participants"}
  BY DEF ReadAccount, At, SentIInv, StepsInv, SentInv, tables, Fits, StatsSteps, ParticipantsSteps
<1>2. Fits(request.of, "read_entries")
  BY <1>1 DEF Fits, AccountSteps
<1>3. Goto(request, "read_entries") \/ Refuse
  BY DEF ReadAccount
<1> QED BY <1>1, <1>2, <1>3, GotoKeeps, RefuseKeeps

LEMMA ReadEntriesKeeps ==
  ASSUME SentIInv, ReadEntries PROVE SentIInv'
<1> DEFINE q == request
           a == Min(q.todo)
           P == PostingsOf(journal, a)
           shown == {x \in P : InWindow(q.by, q.window, x.at)}
           new == IF q.of = "transactions"
                  THEN {TransactionRow(q.by, a, P, p) : p \in shown}
                  ELSE {BalanceRow(q.by, a, Decimal(Total(P), a))}
           read == [q EXCEPT !.todo = @ \ {a}, !.ledger = @ \union P, !.rows = @ \union new]
<1>1. /\ IsRequest(q) /\ RowsNear(q) /\ UNCHANGED journal
      /\ q.of \notin {"stats", "participants"}
      /\ \A p \in journal : PostingOK(p)
  BY DEF ReadEntries, At, SentIInv, StepsInv, SentInv, tables, Fits, StatsSteps, ParticipantsSteps
<1>2. \/ Refuse \/ Goto(read, "country") \/ Goto(read, "read_account") \/ Answer(read)
  BY DEF ReadEntries
<1>3. /\ IsRequest(read) /\ read.of = q.of /\ read.by = q.by
      /\ read.ledger = q.ledger \union P /\ read.rows = q.rows \union new
  <2> HIDE DEF new, P, a
  <2> QED BY <1>1 DEF IsRequest, Fields
<1>4. ASSUME q.of = "transactions", NEW r \in q.rows \union new
      PROVE  RowOK(q.by, r, q.ledger \union P)
  <2>1. CASE r \in q.rows
    <3>1. RowOK(q.by, r, q.ledger)
      BY <1>1, <1>4, <2>1 DEF RowsNear
    <3> QED BY <3>1 DEF RowOK
  <2>2. CASE r \in new
    <3>1. PICK p \in P : r = TransactionRow(q.by, a, P, p)
      BY <1>4, <2>2
    <3>2. p \in journal /\ a = p.account
      BY DEF PostingsOf
    <3>3. PostingOK(p)
      BY <1>1, <3>2
    <3> QED BY <3>1, <3>2, <3>3, RowShowsPosting
  <2> QED BY <2>1, <2>2
<1>5. RowsNear(read)
  <2> HIDE DEF read, new, P
  <2> QED BY <1>3, <1>4 DEF RowsNear
<1>6. Fits(read.of, "country") /\ Fits(read.of, "read_account")
  BY <1>1, <1>3 DEF Fits, AccountSteps
<1> HIDE DEF read
<1> QED BY <1>1, <1>2, <1>3, <1>5, <1>6, GotoKeeps, AnswerKeeps, RefuseKeeps

LEMMA AskKeeps ==
  ASSUME SentIInv, Ask PROVE SentIInv'
<1>1. PICK v \in Views : \E b, range, a : \E c \in Holders(v[1], v[2]) :
        request' = Asked(v[1], v[2], b, c, a, range)
  BY DEF Ask
<1>2. /\ IsRequest(request') /\ request'.pc = FirstStep(v[1], v[2]) /\ request'.of = v[2]
      /\ request'.rows = {}
  BY <1>1 DEF Asked, NoRequest, IsRequest, Fields
<1>3. Fits(v[2], FirstStep(v[1], v[2]))
  BY DEF FirstStep, Views, Fits, StatsSteps, ParticipantsSteps, AccountSteps
<1>4. StepsInv' /\ RowsNear(request')
  BY <1>2, <1>3 DEF StepsInv, RowsNear
<1> QED BY <1>4 DEF Ask, tables, SentIInv, SentInv

-----------------------------------------------------------------------------
(* Customers and their accounts come and go together. *)
Rows == [customers |-> customers, accounts |-> accounts]

TablesInv == banks \subseteq Banks /\ Whole(Rows)

LEMMA TablesInit == Init => TablesInv
BY AccountViewsAssumption DEF Init, TablesInv, Rows, Whole

LEMMA TablesKept == TablesInv /\ [Next]_vars => TablesInv'
<1> SUFFICES ASSUME TablesInv, [Next]_vars PROVE TablesInv'
  OBVIOUS
<1> USE DEF TablesInv, Rows, Whole
<1>1. CASE UNCHANGED <<banks, customers, accounts>>
  BY <1>1
<1>2. CASE AddBatch
  BY <1>2, AccountViewsAssumption DEF AddBatch
<1>3. CASE RemoveBank
  BY <1>3 DEF RemoveBank
<1>4. CASE RemoveRows
  <2>1. PICK b \in Banks \ banks :
          /\ customers' = {c \in customers : Home[c] # b}
          /\ accounts' = {a \in accounts : Row[a].bank # b}
    BY <1>4 DEF RemoveRows
  <2>2. \A a \in Accounts : Row[a].customer # None => Home[Row[a].customer] = Row[a].bank
    BY AccountViewsAssumption
  <2> QED BY <1>4, <2>1, <2>2 DEF RemoveRows
<1> QED
  BY <1>1, <1>2, <1>3, <1>4
     DEF Next, Done, Writes, Reads, Book, vars, tables, At, Ask, ListCustomers, ListAccounts,
         Count, NextBank, NextRow, FindAccount, Country, ReadAccount, ReadEntries

(* An entry is two postings to accounts of one currency.                   *)
Posting(n, x, minor, sent, at) ==
  [id |-> booked + 1, leg |-> n, bank |-> Row[x].bank, account |-> x, minor |-> minor,
   sent |-> sent, at |-> at]

LEMMA BookAddsTwo ==
  ASSUME TablesInv, Book
  PROVE  \E x, y \in Accounts, amount \in Nat \ {0}, at \in Nat :
           LET money == from_decimal(amount, Row[x].currency) IN
           /\ Row[y].currency = Row[x].currency
           /\ journal' = journal \union {Posting(1, x, -money, -amount, at),
                                       Posting(2, y, money, amount, at)}
<1>1. PICK a \in accounts, amount \in Sent, side \in {"credit", "debit"}, at \in Times,
          external \in accounts :
        /\ Row[external].bank = Row[a].bank /\ Row[external].currency = Row[a].currency
        /\ LET money == from_decimal(amount, Row[a].currency)
               legs == IF side = "credit" THEN <<external, a>> ELSE <<a, external>>
               posting(n, sign) ==
                 [id |-> booked + 1, leg |-> n, bank |-> Row[a].bank, account |-> legs[n],
                  minor |-> sign * money, sent |-> sign * amount, at |-> at] IN
           journal' = journal \union {posting(1, -1), posting(2, 1)}
  BY DEF Book
<1>2. a \in Accounts /\ external \in Accounts /\ amount \in Nat \ {0} /\ at \in Nat
  BY AccountViewsAssumption DEF TablesInv, Rows, Whole
<1> DEFINE money == from_decimal(amount, Row[a].currency)
           x == IF side = "credit" THEN external ELSE a
           y == IF side = "credit" THEN a ELSE external
           legs == IF side = "credit" THEN <<external, a>> ELSE <<a, external>>
<1>3. money \in Int
  BY <1>2, BookedIsNear
<1>4. legs[1] = x /\ legs[2] = y
  OBVIOUS
<1>5. /\ x \in Accounts /\ y \in Accounts
      /\ Row[x].currency = Row[a].currency /\ Row[y].currency = Row[a].currency
      /\ Row[x].bank = Row[a].bank /\ Row[y].bank = Row[a].bank
  BY <1>1, <1>2
<1>6. journal' = journal \union
        {[id |-> booked + 1, leg |-> 1, bank |-> Row[a].bank, account |-> legs[1],
          minor |-> (-1) * money, sent |-> (-1) * amount, at |-> at],
         [id |-> booked + 1, leg |-> 2, bank |-> Row[a].bank, account |-> legs[2],
          minor |-> 1 * money, sent |-> 1 * amount, at |-> at]}
  BY <1>1
<1> HIDE DEF legs, money, x, y
<1>7. (-1) * money = -money /\ 1 * money = money /\ (-1) * amount = -amount /\ 1 * amount = amount
  BY <1>2, <1>3
<1>8. journal' = journal \union {Posting(1, x, -money, -amount, at), Posting(2, y, money, amount, at)}
  BY <1>4, <1>5, <1>6, <1>7 DEF Posting
<1>9. money = from_decimal(amount, Row[x].currency) /\ Row[y].currency = Row[x].currency
  BY <1>5 DEF money
<1> QED BY <1>2, <1>5, <1>8, <1>9

(* Writers leave requests alone; what they book is near what was sent. *)
LEMMA BookKeeps ==
  ASSUME SentIInv, TablesInv, Book PROVE SentIInv'
<1>1. PICK x \in Accounts, y \in Accounts, amount \in Nat \ {0}, at \in Nat :
        LET money == from_decimal(amount, Row[x].currency) IN
        /\ Row[y].currency = Row[x].currency
        /\ journal' = journal \union {Posting(1, x, -money, -amount, at),
                                    Posting(2, y, money, amount, at)}
  BY BookAddsTwo
<1> DEFINE money == from_decimal(amount, Row[x].currency)
<1>2. /\ money \in Int
      /\ Near(to_decimal(money, Row[x].currency), amount, Quantum(Row[x].currency))
      /\ Near(to_decimal(-money, Row[x].currency), -amount, Quantum(Row[x].currency))
  BY BookedIsNear
<1> HIDE DEF money
<1>3. PostingOK(Posting(1, x, -money, -amount, at)) /\ PostingOK(Posting(2, y, money, amount, at))
  BY <1>1, <1>2 DEF PostingOK, Posting, Decimal
<1>4. journal' = journal \union {Posting(1, x, -money, -amount, at), Posting(2, y, money, amount, at)}
  BY <1>1 DEF money
<1>5. UNCHANGED <<request, answers>>
  BY DEF Book
<1> QED BY <1>3, <1>4, <1>5 DEF SentIInv, SentInv, StepsInv

LEMMA SentKept == TablesInv /\ SentIInv /\ [Next]_vars => SentIInv'
<1> SUFFICES ASSUME TablesInv, SentIInv, [Next]_vars PROVE SentIInv'
  OBVIOUS
<1>1. CASE AddBatch \/ RemoveBank \/ UNCHANGED vars
  BY <1>1 DEF AddBatch, RemoveBank, vars, SentIInv, SentInv, StepsInv
<1>2. CASE RemoveRows
  BY <1>2 DEF RemoveRows, SentIInv, SentInv, StepsInv
<1> QED
  BY <1>1, <1>2, BookKeeps, AskKeeps, ListCustomersKeeps, ListAccountsKeeps, CountKeeps,
     NextBankKeeps, NextRowKeeps, FindAccountKeeps, CountryKeeps, ReadAccountKeeps,
     ReadEntriesKeeps
     DEF Next, Done, Writes, Reads

LEMMA SentInvShows == SentIInv => WhatWasSentIsShown
BY DEF SentIInv, SentInv, RowsNear, RowOK, Shows, WhatWasSentIsShown, TransactionsIn

(* A client that posts an amount, of any size and in any currency, to any  *)
(* account, internal or not, finds it to the nearest minor unit in the     *)
(* transactions that FDX, Open Finance, Berlin Group and the bank's pages  *)
(* answer with, but for the digits a double of FDX has not; never in the   *)
(* other direction, and in its own unless it was rounded to nothing.       *)
THEOREM SentIsShown == Spec => []WhatWasSentIsShown
<1>1. Init => TablesInv /\ SentIInv
  BY TablesInit, SentInit
<1>2. TablesInv /\ SentIInv /\ [Next]_vars => (TablesInv /\ SentIInv)'
  BY TablesKept, SentKept
<1> QED BY <1>1, <1>2, SentInvShows, PTL DEF Spec

-----------------------------------------------------------------------------
(* Readers see whole batches: while its bank is open, whoever has been     *)
(* read stays, and so do the accounts created with them.                   *)
SeenAt(q, label) ==
  /\ q.of \in {"stats", "participants"} => q.holder = None /\ q.by = "management"
  /\ q.of = "stats" /\ q.bank \in banks =>
       /\ label = "list_accounts" => q.people \subseteq CustomersOf(q.bank)
       /\ label = "count" =>
            \A a \in Accounts : Row[a].customer \in q.people /\ ~is_internal(a) => a \in q.todo
  /\ q.of = "participants" =>
       /\ label = "next_row" /\ q.bank \in banks =>
            \A a \in q.todo : Row[a].customer \in CustomersOf(q.bank)
       /\ \A r \in q.rows : r.open => r.known

AnswerWhole(x) ==
  \A r \in x.rows :
    /\ x.of = "stats" /\ x.open =>
         \A a \in Accounts :
           Row[a].customer \in r.customers /\ ~is_internal(a) => a \in r.accounts
    /\ x.of = "participants" /\ r.open => r.known

SeenInv ==
  /\ SeenAt(request, request.pc)
  /\ \A x \in answers : AnswerWhole(x)

SeenIInv == TablesInv /\ StepsInv /\ SeenInv

LEMMA SeenInit == Init => SeenInv
BY DEF Init, SeenInv, NoRequest, SeenAt

LEMMA GotoSees ==
  ASSUME SeenInv, NEW q, IsRequest(q), NEW label, SeenAt(q, label), Goto(q, label),
         UNCHANGED tables
  PROVE  SeenInv'
<1>1. /\ request'.pc = label /\ request'.of = q.of /\ request'.bank = q.bank
      /\ request'.by = q.by /\ request'.holder = q.holder /\ request'.people = q.people
      /\ request'.todo = q.todo /\ request'.rows = q.rows
  BY DEF Goto, IsRequest, Fields
<1>2. SeenAt(request, request.pc)'
  BY <1>1 DEF SeenAt, CustomersOf, tables
<1> QED BY <1>2 DEF SeenInv, Goto, AnswerWhole

LEMMA NoRequestSees ==
  ASSUME SeenInv, request' = NoRequest, \A x \in answers' : AnswerWhole(x)
  PROVE  SeenInv'
BY DEF SeenInv, SeenAt, NoRequest, AnswerWhole

LEMMA RefuseSees == ASSUME SeenInv, Refuse PROVE SeenInv'
BY NoRequestSees DEF Refuse, SeenInv

LEMMA AnswerSees ==
  ASSUME SeenInv, NEW q, Answer(q),
         \A r \in q.rows :
           /\ q.of = "stats" /\ q.bank \in banks =>
                \A a \in Accounts :
                  Row[a].customer \in r.customers /\ ~is_internal(a) => a \in r.accounts
           /\ q.of = "participants" /\ r.open => r.known
  PROVE  SeenInv'
<1>1. request' = NoRequest
  BY DEF Answer
<1>2. ASSUME NEW x \in answers' PROVE AnswerWhole(x)
  <2>1. x \in answers \/ (x.of = q.of /\ x.rows = q.rows /\ x.open = (q.bank \in banks))
    BY DEF Answer
  <2> QED BY <2>1 DEF SeenInv, AnswerWhole
<1> QED BY <1>1, <1>2, NoRequestSees

(* Requests for anything else have nothing to see. *)
LEMMA OthersSee ==
  ASSUME SeenInv, NEW q, IsRequest(q), q.of \notin {"stats", "participants"},
         UNCHANGED tables, (\E label : Goto(q, label)) \/ Answer(q) \/ Refuse
  PROVE  SeenInv'
<1>1. \A label : SeenAt(q, label)
  BY DEF SeenAt
<1> QED BY <1>1, GotoSees, AnswerSees, RefuseSees

LEMMA OtherReadsSee ==
  ASSUME SeenIInv, FindAccount \/ Country \/ ReadAccount \/ ReadEntries PROVE SeenInv'
<1> DEFINE q == request
<1>1. /\ SeenInv /\ IsRequest(q) /\ UNCHANGED tables
      /\ q.of \notin {"stats", "participants"}
  BY DEF FindAccount, Country, ReadAccount, ReadEntries, At, SeenIInv, StepsInv, Fits,
         StatsSteps, ParticipantsSteps
<1>2. \/ Refuse
      \/ \E T, label : Goto([q EXCEPT !.todo = T], label)
      \/ \E T, R : LET p == [q EXCEPT !.todo = T, !.rows = R] IN
                     Answer(p) \/ Goto(p, "country")
      \/ \E T, L, R : LET p == [q EXCEPT !.todo = T, !.ledger = L, !.rows = R] IN
                        Answer(p) \/ \E label : Goto(p, label)
      \/ Answer(q) \/ \E label : Goto(q, label)
  BY DEF FindAccount, Country, ReadAccount, ReadEntries
<1>3. ASSUME NEW T, NEW label, Goto([q EXCEPT !.todo = T], label) PROVE SeenInv'
  <2> DEFINE p == [q EXCEPT !.todo = T]
  <2>1. IsRequest(p) /\ p.of = q.of
    BY <1>1 DEF IsRequest, Fields
  <2> HIDE DEF p
  <2> QED BY <1>1, <1>3, <2>1, OthersSee DEF p
<1>4. ASSUME NEW T, NEW R,
             LET p == [q EXCEPT !.todo = T, !.rows = R] IN Answer(p) \/ Goto(p, "country")
      PROVE  SeenInv'
  <2> DEFINE p == [q EXCEPT !.todo = T, !.rows = R]
  <2>1. IsRequest(p) /\ p.of = q.of
    BY <1>1 DEF IsRequest, Fields
  <2>2. Answer(p) \/ Goto(p, "country")
    BY <1>4
  <2> HIDE DEF p
  <2> QED BY <1>1, <2>1, <2>2, OthersSee
<1>5. ASSUME NEW T, NEW L, NEW R,
             LET p == [q EXCEPT !.todo = T, !.ledger = L, !.rows = R] IN
             Answer(p) \/ \E label : Goto(p, label)
      PROVE  SeenInv'
  <2> DEFINE p == [q EXCEPT !.todo = T, !.ledger = L, !.rows = R]
  <2>1. IsRequest(p) /\ p.of = q.of
    BY <1>1 DEF IsRequest, Fields
  <2>2. Answer(p) \/ \E label : Goto(p, label)
    BY <1>5
  <2> HIDE DEF p
  <2> QED BY <1>1, <2>1, <2>2, OthersSee
<1>6. CASE Refuse \/ Answer(q) \/ \E label : Goto(q, label)
  BY <1>1, <1>6, OthersSee
<1> QED BY <1>2, <1>3, <1>4, <1>5, <1>6

LEMMA ListCustomersSees ==
  ASSUME SeenIInv, ListCustomers PROVE SeenInv'
<1> DEFINE q == request
           found == {c \in CustomersOf(q.bank) : q.holder # None => c = q.holder}
<1>1. /\ SeenInv /\ IsRequest(q) /\ UNCHANGED tables /\ q.of # "participants"
      /\ SeenAt(q, q.pc)
  BY DEF ListCustomers, At, SeenIInv, SeenInv, StepsInv, Fits, ParticipantsSteps
<1>2. CASE q.of = "stats"
  <2> DEFINE p == [q EXCEPT !.people = found]
  <2>1. /\ IsRequest(p) /\ p.of = q.of /\ p.people = found /\ p.holder = q.holder
        /\ p.bank = q.bank /\ p.by = q.by
    BY <1>1 DEF IsRequest, Fields
  <2>2. Goto(p, "list_accounts")
    BY <1>2 DEF ListCustomers
  <2>3. SeenAt(p, "list_accounts")
    BY <1>1, <1>2, <2>1 DEF SeenAt
  <2> QED BY <1>1, <2>1, <2>2, <2>3, GotoSees
<1>3. CASE Refuse
  BY <1>1, <1>3, RefuseSees
<1>4. CASE q.of # "stats" /\ \E R : Answer([q EXCEPT !.rows = R])
  <2>1. PICK R : Answer([q EXCEPT !.rows = R])
    BY <1>4
  <2> DEFINE p == [q EXCEPT !.rows = R]
  <2>2. IsRequest(p) /\ p.of = q.of
    BY <1>1 DEF IsRequest, Fields
  <2> QED BY <1>1, <1>4, <2>1, <2>2, OthersSee
<1> QED BY <1>2, <1>3, <1>4 DEF ListCustomers

(* The owners of the participants' accounts are among the customers, and   *)
(* all the accounts of customers are listed but the internal ones.         *)
LEMMA ListedOwners ==
  ASSUME TablesInv, NEW q, q.holder = None
  PROVE  /\ q.of = "participants" =>
              \A a \in Listed(q) : Row[a].customer \in CustomersOf(q.bank)
         /\ q.of = "stats" /\ q.by = "management" =>
              \A a \in Accounts : Row[a].customer \in CustomersOf(q.bank) /\ ~is_internal(a)
                                   => a \in Listed(q)
<1>1. \A a \in Accounts : Row[a].customer # None => Home[Row[a].customer] = Row[a].bank
  BY AccountViewsAssumption
<1>2. None \notin Customers
  BY AccountViewsAssumption
<1> QED BY <1>1, <1>2 DEF TablesInv, Rows, Whole, Listed, CustomersOf

LEMMA ListAccountsSees ==
  ASSUME SeenIInv, ListAccounts PROVE SeenInv'
<1> DEFINE q == request
           next(T) == [q EXCEPT !.todo = T]
<1>1. /\ TablesInv /\ SeenInv /\ IsRequest(q) /\ UNCHANGED tables
      /\ SeenAt(q, "list_accounts")
  BY DEF ListAccounts, At, SeenIInv, SeenInv, StepsInv
<1>2. ASSUME NEW T
      PROVE  /\ IsRequest(next(T)) /\ next(T).of = q.of /\ next(T).todo = T
             /\ next(T).people = q.people /\ next(T).by = q.by /\ next(T).holder = q.holder
             /\ next(T).bank = q.bank /\ next(T).rows = q.rows
  BY <1>1 DEF IsRequest, Fields
<1> DEFINE p == next(Listed(q))
<1>3. CASE q.of = "stats" /\ Goto(p, "count")
  <2>1. q.holder = None /\ q.by = "management" /\ (q.bank \in banks => q.people \subseteq CustomersOf(q.bank))
    BY <1>1, <1>3 DEF SeenAt
  <2>2. \A a \in Accounts : Row[a].customer \in CustomersOf(q.bank) /\ ~is_internal(a)
                             => a \in Listed(q)
    BY <1>1, <1>3, <2>1, ListedOwners
  <2> HIDE DEF next
  <2>3. SeenAt(p, "count")
    BY <1>2, <1>3, <2>1, <2>2 DEF SeenAt
  <2> QED BY <1>1, <1>2, <1>3, <2>3, GotoSees
<1>4. CASE q.of = "participants" /\ Goto(p, "next_row")
  <2>1. q.holder = None /\ q.by = "management" /\ \A r \in q.rows : r.open => r.known
    BY <1>1, <1>4 DEF SeenAt
  <2>2. \A a \in Listed(q) : Row[a].customer \in CustomersOf(q.bank)
    BY <1>1, <1>4, <2>1, ListedOwners
  <2> HIDE DEF next
  <2>3. SeenAt(p, "next_row")
    BY <1>2, <1>4, <2>1, <2>2 DEF SeenAt
  <2> QED BY <1>1, <1>2, <1>4, <2>3, GotoSees
<1>5. CASE /\ q.of \notin {"stats", "participants"}
           /\ Answer(q) \/ Refuse \/ \E T, label : Goto(next(T), label)
  <2> HIDE DEF next
  <2> QED BY <1>1, <1>2, <1>5, OthersSee
<1> QED BY <1>3, <1>4, <1>5 DEF ListAccounts

LEMMA CountSees ==
  ASSUME SeenIInv, Count PROVE SeenInv'
<1> DEFINE q == request
           row == [customers |-> q.people, accounts |-> q.todo,
                   entries |-> Cardinality({p.id : p \in {r \in journal : r.bank = q.bank}})]
           p == [q EXCEPT !.rows = {row}]
<1>1. /\ SeenInv /\ IsRequest(q) /\ q.of = "stats" /\ SeenAt(q, "count")
  BY DEF Count, At, SeenIInv, SeenInv, StepsInv, Fits
<1>2. Answer(p)
  BY DEF Count
<1>3. row.customers = q.people /\ row.accounts = q.todo
  OBVIOUS
<1> HIDE DEF row
<1>4. p.of = q.of /\ p.bank = q.bank /\ p.rows = {row}
  BY <1>1 DEF IsRequest, Fields
<1> HIDE DEF p
<1>5. q.bank \in banks =>
        \A a \in Accounts : Row[a].customer \in q.people /\ ~is_internal(a) => a \in q.todo
  BY <1>1 DEF SeenAt
<1> QED BY <1>1, <1>2, <1>3, <1>4, <1>5, AnswerSees

LEMMA NextBankSees ==
  ASSUME SeenIInv, NextBank PROVE SeenInv'
<1> DEFINE q == request
<1>1. /\ SeenInv /\ IsRequest(q) /\ q.of = "participants" /\ UNCHANGED tables
      /\ q.holder = None /\ q.by = "management" /\ \A r \in q.rows : r.open => r.known
  BY DEF NextBank, At, SeenIInv, SeenInv, SeenAt, StepsInv, Fits
<1>2. CASE Answer(q)
  BY <1>1, <1>2, AnswerSees
<1>3. CASE \E b, B : Goto([q EXCEPT !.bank = b, !.branches = B], "list_accounts")
  <2>1. PICK b, B : Goto([q EXCEPT !.bank = b, !.branches = B], "list_accounts")
    BY <1>3
  <2> DEFINE p == [q EXCEPT !.bank = b, !.branches = B]
  <2>2. /\ IsRequest(p) /\ p.of = q.of /\ p.by = q.by /\ p.holder = q.holder
        /\ p.rows = q.rows
    BY <1>1 DEF IsRequest, Fields
  <2>3. SeenAt(p, "list_accounts")
    BY <1>1, <2>2 DEF SeenAt
  <2> QED BY <1>1, <2>1, <2>2, <2>3, GotoSees
<1> QED BY <1>2, <1>3 DEF NextBank

LEMMA NextRowSees ==
  ASSUME SeenIInv, NextRow PROVE SeenInv'
<1> DEFINE q == request
           row(a) == [account |-> a, known |-> Row[a].customer \in CustomersOf(q.bank),
                      open |-> q.bank \in banks]
           p(a) == [q EXCEPT !.todo = @ \ {a}, !.rows = @ \union {row(a)}]
<1>1. /\ SeenInv /\ IsRequest(q) /\ q.of = "participants" /\ UNCHANGED tables
      /\ q.holder = None /\ q.by = "management" /\ \A r \in q.rows : r.open => r.known
      /\ q.bank \in banks => \A a \in q.todo : Row[a].customer \in CustomersOf(q.bank)
  BY DEF NextRow, At, SeenIInv, SeenInv, SeenAt, StepsInv, Fits
<1>2. CASE Goto(q, "next_bank")
  <2>1. SeenAt(q, "next_bank")
    BY <1>1 DEF SeenAt
  <2> QED BY <1>1, <1>2, <2>1, GotoSees
<1>3. ASSUME NEW a \in q.todo, Goto(p(a), "next_row") PROVE SeenInv'
  <2>1. row(a).open => row(a).known
    BY <1>1
  <2> HIDE DEF row
  <2>2. /\ IsRequest(p(a)) /\ p(a).of = q.of /\ p(a).by = q.by /\ p(a).holder = q.holder /\ p(a).bank = q.bank
        /\ p(a).todo = q.todo \ {a} /\ p(a).rows = q.rows \union {row(a)}
    BY <1>1 DEF IsRequest, Fields
  <2> HIDE DEF p
  <2>3. SeenAt(p(a), "next_row")
    BY <1>1, <2>1, <2>2 DEF SeenAt
  <2> QED BY <1>1, <1>3, <2>2, <2>3, GotoSees
<1> QED BY <1>2, <1>3 DEF NextRow

LEMMA AskSees ==
  ASSUME SeenInv, Ask PROVE SeenInv'
<1>1. PICK v \in Views : \E b, range, a : \E c \in Holders(v[1], v[2]) :
        request' = Asked(v[1], v[2], b, c, a, range)
  BY DEF Ask
<1>2. v[2] \in {"stats", "participants"} => Holders(v[1], v[2]) = {None} /\ v[1] = "management"
  BY DEF Views, Holders
<1>3. /\ request'.pc = FirstStep(v[1], v[2]) /\ request'.of = v[2] /\ request'.rows = {}
      /\ request'.by = v[1]
      /\ request'.holder \in Holders(v[1], v[2])
  BY <1>1 DEF Asked, NoRequest
<1>4. FirstStep(v[1], v[2]) # "next_row"
      /\ (v[2] = "stats" => FirstStep(v[1], v[2]) = "list_customers")
  BY DEF FirstStep
<1>5. SeenAt(request, request.pc)'
  BY <1>2, <1>3, <1>4 DEF SeenAt
<1> QED BY <1>5 DEF Ask, SeenInv, AnswerWhole

(* The rows of an open bank stay. *)
LEMMA WritesSee ==
  ASSUME SeenInv, AddBatch \/ RemoveBank \/ RemoveRows PROVE SeenInv'
<1>1. /\ UNCHANGED <<request, answers>> /\ banks' \subseteq banks
      /\ \A b \in banks' : CustomersOf(b) \subseteq CustomersOf(b)'
  BY DEF AddBatch, RemoveBank, RemoveRows, CustomersOf
<1> DEFINE q == request
<1>2. /\ q' = q
      /\ q.bank \in banks' => q.bank \in banks /\ CustomersOf(q.bank) \subseteq CustomersOf(q.bank)'
  BY <1>1
<1>3. SeenAt(request, request.pc)'
  BY <1>1, <1>2 DEF SeenInv, SeenAt
<1> QED BY <1>1, <1>3 DEF SeenInv, AnswerWhole

LEMMA SeenKept == SeenIInv /\ SentIInv /\ [Next]_vars => SeenIInv'
<1> SUFFICES ASSUME SeenIInv, SentIInv, [Next]_vars PROVE SeenIInv'
  OBVIOUS
<1>1. TablesInv' /\ SentIInv'
  BY TablesKept, SentKept DEF SeenIInv
<1>2. ASSUME Book \/ UNCHANGED vars PROVE SeenInv'
  BY <1>2 DEF Book, vars, SeenIInv, SeenInv, SeenAt, AnswerWhole, CustomersOf
<1>3. SeenInv /\ SeenInv'
  BY <1>2, WritesSee, AskSees, ListCustomersSees, ListAccountsSees, CountSees, NextBankSees,
     NextRowSees, OtherReadsSee
     DEF Next, Done, Writes, Reads, SeenIInv
<1> QED BY <1>1, <1>3 DEF SeenIInv, SentIInv

LEMMA SeenInvWhole == SeenIInv => ReadersSeeWholeBatches
BY DEF SeenIInv, SeenInv, AnswerWhole, ReadersSeeWholeBatches

(* However many batches, banks and accounts of whatever types there are,   *)
(* the statistics of an open bank count every account that is not of an    *)
(* internal type of each customer they count, and participants are shown   *)
(* with their names.                                                       *)
THEOREM BatchesAreSeenWhole == Spec => []ReadersSeeWholeBatches
<1>1. Init => SeenIInv /\ SentIInv
  BY TablesInit, SentInit, SeenInit DEF SeenIInv, SentIInv
<1>2. SeenIInv /\ SentIInv /\ [Next]_vars => (SeenIInv /\ SentIInv)'
  BY SeenKept, SentKept DEF SeenIInv
<1> QED BY <1>1, <1>2, SeenInvWhole, PTL DEF Spec

-----------------------------------------------------------------------------
(* Sums over finite sets, as in CoreBankingProofs: totals of an account and *)
(* of a statement are MapThenSumSet of the community modules, a recursive   *)
(* function over the subsets of a set.  Sum is the same for the values of a *)
(* function, which a lemma can take as a parameter.                         *)

Chosen(s) == CHOOSE y \in s : TRUE

(* One unfolding of the recursion. *)
Adding(i, g, S) ==
  [s \in SUBSET S |-> IF s = {} THEN 0 ELSE g[Chosen(s)] + i[s \ {Chosen(s)}]]

Sum(g, S) == (CHOOSE i : i = Adding(i, g, S))[S]

(* The element the recursion takes next is one of the set. *)
LEMMA ChosenIsMember ==
  ASSUME NEW s, s # {}
  PROVE  Chosen(s) \in s
BY DEF Chosen

(* What is left without it is smaller. *)
LEMMA Smaller ==
  ASSUME NEW s, IsFiniteSet(s), s # {}
  PROVE  /\ Cardinality(s) \in Nat \ {0}
         /\ IsFiniteSet(s \ {Chosen(s)})
         /\ Cardinality(s \ {Chosen(s)}) = Cardinality(s) - 1
BY ChosenIsMember, FS_RemoveElement, FS_CardinalityType, FS_EmptySet

(* The recursion has a solution: CHOOSE has something to choose. *)
LEMMA AddingExists ==
  ASSUME NEW S, IsFiniteSet(S), NEW g, \A x \in S : g[x] \in Int
  PROVE  \E i \in [SUBSET S -> Int] : i = Adding(i, g, S)
<1> DEFINE P(n) == \E i \in [SUBSET S -> Int] : \A s \in SUBSET S :
                     Cardinality(s) <= n => i[s] = Adding(i, g, S)[s]
           Bad == {n \in Nat : ~P(n)}
<1>0. \A s \in SUBSET S : IsFiniteSet(s) /\ Cardinality(s) \in Nat
  BY FS_Subset, FS_CardinalityType
<1>1. Bad = {}
  <2> SUFFICES ASSUME Bad # {} PROVE FALSE
    OBVIOUS
  <2>1. PICK n \in Bad : \A m \in Bad : n <= m
    BY LeastNatural
  <2>2. CASE n = 0
    <3> DEFINE i == [s \in SUBSET S |-> 0]
    <3>1. i \in [SUBSET S -> Int]
      OBVIOUS
    <3>2. ASSUME NEW s \in SUBSET S, Cardinality(s) <= 0
          PROVE  i[s] = Adding(i, g, S)[s]
      <4>1. s = {}
        BY <1>0, <3>2, FS_EmptySet
      <4> QED BY <4>1 DEF Adding
    <3> HIDE DEF i
    <3> QED BY <2>1, <2>2, <3>1, <3>2
  <2>3. CASE n # 0
    <3>0. Bad \subseteq Nat
      OBVIOUS
    <3>1. n - 1 \in Nat /\ n \in Nat /\ ~(n <= n - 1) /\ 0 <= n - 1
      <4> HIDE DEF Bad
      <4> QED BY <2>1, <2>3, <3>0
    <3>9. n - 1 \notin Bad
      <4> HIDE DEF Bad
      <4> QED BY <2>1, <3>1
    <3>2. PICK i \in [SUBSET S -> Int] : \A s \in SUBSET S :
                     Cardinality(s) <= n - 1 => i[s] = Adding(i, g, S)[s]
      BY <3>1, <3>9
    <3> DEFINE j == [s \in SUBSET S |-> IF Cardinality(s) <= n - 1 THEN i[s]
                                        ELSE g[Chosen(s)] + i[s \ {Chosen(s)}]]
    <3>3. \A s \in SUBSET S : s # {} =>
            /\ Chosen(s) \in S /\ s \ {Chosen(s)} \in SUBSET S
            /\ Cardinality(s) \in Nat \ {0} /\ Cardinality(s \ {Chosen(s)}) = Cardinality(s) - 1
      BY <1>0, ChosenIsMember, Smaller
    <3>4. Cardinality({}) = 0
      BY FS_EmptySet
    <3>5. j \in [SUBSET S -> Int]
      <4>1. ASSUME NEW s \in SUBSET S PROVE j[s] \in Int
        <5>1. CASE Cardinality(s) <= n - 1
          BY <5>1
        <5>2. CASE ~(Cardinality(s) <= n - 1)
          <6>1. s # {}
            BY <5>2, <3>4, <3>1
          <6> QED BY <6>1, <3>3, <5>2
        <5> QED BY <5>1, <5>2
      <4> QED BY <4>1
    <3>6. ASSUME NEW s \in SUBSET S, Cardinality(s) <= n
          PROVE  j[s] = Adding(j, g, S)[s]
      <4>1. CASE s = {}
        <5>1. i[s] = 0
          BY <3>1, <3>2, <3>4, <4>1 DEF Adding
        <5> QED BY <5>1, <3>1, <3>4, <4>1 DEF Adding
      <4>2. CASE s # {}
        <5> DEFINE r == s \ {Chosen(s)}
        <5>1. r \in SUBSET S /\ Cardinality(r) <= n - 1 /\ Cardinality(s) \in Nat
          BY <1>0, <3>3, <3>1, <3>6, <4>2
        <5>2. j[r] = i[r]
          BY <5>1
        <5>3. j[s] = g[Chosen(s)] + i[r]
          <6>1. CASE Cardinality(s) <= n - 1
            <7>1. i[s] = Adding(i, g, S)[s]
              BY <6>1, <3>2
            <7> QED BY <6>1, <7>1, <4>2 DEF Adding
          <6>2. CASE ~(Cardinality(s) <= n - 1)
            BY <6>2
          <6> QED BY <6>1, <6>2
        <5>4. Adding(j, g, S)[s] = g[Chosen(s)] + j[r]
          BY <4>2 DEF Adding
        <5> QED BY <5>2, <5>3, <5>4
      <4> QED BY <4>1, <4>2
    <3> HIDE DEF j
    <3> QED BY <3>1, <3>5, <3>6, <2>1
  <2> QED BY <2>2, <2>3
<1>2. PICK i \in [SUBSET S -> Int] : \A s \in SUBSET S :
         Cardinality(s) <= Cardinality(S) => i[s] = Adding(i, g, S)[s]
  BY <1>1, <1>0
<1>3. \A s \in SUBSET S : i[s] = Adding(i, g, S)[s]
  BY <1>2, <1>0, FS_Subset
<1>4. i = Adding(i, g, S)
  BY <1>3 DEF Adding
<1> QED BY <1>4

(* Solutions for two sets and functions agree where these do. *)
LEMMA AddingUnique ==
  ASSUME NEW S1, NEW S2, NEW g1, NEW g2, NEW i1, NEW i2,
         i1 = Adding(i1, g1, S1), i2 = Adding(i2, g2, S2),
         NEW s, IsFiniteSet(s), s \subseteq S1, s \subseteq S2,
         \A x \in s : g1[x] = g2[x]
  PROVE  i1[s] = i2[s]
<1> DEFINE Bad == {n \in Nat : \E r \in SUBSET s : Cardinality(r) = n /\ i1[r] # i2[r]}
<1>1. \A r \in SUBSET s : IsFiniteSet(r) /\ Cardinality(r) \in Nat
  BY FS_Subset, FS_CardinalityType
<1>2. Bad = {}
  <2> SUFFICES ASSUME Bad # {} PROVE FALSE
    OBVIOUS
  <2>1. PICK n \in Bad : \A m \in Bad : n <= m
    BY LeastNatural
  <2>2. PICK r \in SUBSET s : Cardinality(r) = n /\ i1[r] # i2[r]
    BY <2>1
  <2>3. CASE r = {}
    BY <2>2, <2>3 DEF Adding
  <2>4. CASE r # {}
    <3> DEFINE c == Chosen(r)
    <3>1. /\ c \in r /\ r \ {c} \in SUBSET s
          /\ n \in Nat \ {0} /\ Cardinality(r \ {c}) = n - 1
      BY <1>1, <2>2, <2>4, ChosenIsMember, Smaller
    <3>2. n - 1 \in Nat /\ ~(n <= n - 1)
      BY <3>1
    <3>3. n - 1 \notin Bad
      <4> HIDE DEF Bad
      <4> QED BY <2>1, <3>2
    <3>4. i1[r \ {c}] = i2[r \ {c}]
      BY <3>1, <3>2, <3>3
    <3>5. i1[r] = g1[c] + i1[r \ {c}]
      BY <2>4 DEF Adding
    <3>6. i2[r] = g2[c] + i2[r \ {c}]
      BY <2>4 DEF Adding
    <3> QED BY <2>2, <3>1, <3>4, <3>5, <3>6
  <2> QED BY <2>3, <2>4
<1> QED BY <1>1, <1>2

(* A sum is the value of any solution over a larger set. *)
LEMMA SumIsAdding ==
  ASSUME NEW S, IsFiniteSet(S), NEW g, \A x \in S : g[x] \in Int,
         NEW i, NEW T, i = Adding(i, g, T), S \subseteq T
  PROVE  Sum(g, S) = i[S]
<1> DEFINE it == CHOOSE j : j = Adding(j, g, S)
<1>1. it = Adding(it, g, S)
  BY AddingExists
<1>2. Sum(g, S) = it[S]
  BY DEF Sum
<1> HIDE DEF it
<1> QED BY <1>1, <1>2, AddingUnique

(* A sum is a number, and adds the chosen element to the rest. *)
LEMMA SumUnfolds ==
  ASSUME NEW S, IsFiniteSet(S), NEW g, \A x \in S : g[x] \in Int
  PROVE  /\ Sum(g, S) \in Int
         /\ S = {} => Sum(g, S) = 0
         /\ S # {} => Sum(g, S) = g[Chosen(S)] + Sum(g, S \ {Chosen(S)})
<1>1. PICK i \in [SUBSET S -> Int] : i = Adding(i, g, S)
  BY AddingExists
<1>2. Sum(g, S) = i[S]
  BY <1>1, SumIsAdding
<1>3. S = {} => i[S] = 0
  BY <1>1 DEF Adding
<1>4. ASSUME S # {} PROVE i[S] = g[Chosen(S)] + Sum(g, S \ {Chosen(S)})
  <2>1. IsFiniteSet(S \ {Chosen(S)})
    BY FS_RemoveElement
  <2>2. Sum(g, S \ {Chosen(S)}) = i[S \ {Chosen(S)}]
    BY <1>1, <2>1, SumIsAdding
  <2>3. i[S] = g[Chosen(S)] + i[S \ {Chosen(S)}]
    BY <1>1, <1>4 DEF Adding
  <2> QED BY <2>2, <2>3
<1> QED BY <1>1, <1>2, <1>3, <1>4

(* A new element adds its value: the order of the recursion is of no       *)
(* consequence.                                                            *)
LEMMA SumAdd ==
  ASSUME NEW S, IsFiniteSet(S), NEW x, x \notin S,
         NEW g, \A y \in S \union {x} : g[y] \in Int
  PROVE  Sum(g, S \union {x}) = g[x] + Sum(g, S)
<1> DEFINE U == S \union {x}
           Fails(r, y) == y \notin r /\ Sum(g, r \union {y}) # g[y] + Sum(g, r)
           Bad == {n \in Nat : \E r \in SUBSET U, y \in U : Cardinality(r) = n /\ Fails(r, y)}
<1>1. \A r \in SUBSET U : IsFiniteSet(r) /\ Cardinality(r) \in Nat
  BY FS_Subset, FS_CardinalityType, FS_AddElement
<1>2. Bad = {}
  <2> SUFFICES ASSUME Bad # {} PROVE FALSE
    OBVIOUS
  <2>1. PICK n \in Bad : \A m \in Bad : n <= m
    BY LeastNatural
  <2>2. PICK r \in SUBSET U, y \in U : Cardinality(r) = n /\ Fails(r, y)
    BY <2>1
  <2> DEFINE R == r \union {y}
             c == Chosen(R)
  <2>3. /\ IsFiniteSet(r) /\ IsFiniteSet(R) /\ R # {} /\ n \in Nat
        /\ \A z \in R : g[z] \in Int
    BY <1>1, <2>2
  <2>4. c \in R
    BY <2>3, ChosenIsMember
  <2>5. Sum(g, R) = g[c] + Sum(g, R \ {c})
    BY <2>3, SumUnfolds
  <2>6. CASE c = y
    <3>1. R \ {c} = r
      BY <2>2, <2>6
    <3> QED BY <2>2, <2>5, <2>6, <3>1
  <2>7. CASE c # y
    <3> DEFINE q == r \ {c}
    <3>1. c \in r /\ q \in SUBSET U /\ R \ {c} = q \union {y} /\ r = q \union {c} /\ y \notin q
      BY <2>2, <2>4, <2>7
    <3>2. Cardinality(q) = n - 1 /\ IsFiniteSet(q)
      <4> HIDE DEF c
      <4> QED BY <2>2, <2>3, <3>1, FS_RemoveElement
    <3>3. n - 1 \in Nat /\ ~(n <= n - 1)
      BY <1>1, <2>3, <3>1, <3>2
    <3>4. n - 1 \notin Bad
      <4> HIDE DEF Bad
      <4> QED BY <2>1, <3>3
    <3>5. \A z \in U : ~Fails(q, z)
      BY <3>1, <3>2, <3>3, <3>4
    <3>6. Sum(g, q \union {y}) = g[y] + Sum(g, q)
      BY <3>1, <3>5
    <3>7. Sum(g, q \union {c}) = g[c] + Sum(g, q)
      BY <3>1, <3>5
    <3>8. Sum(g, q) \in Int
      BY <2>3, <3>1, <3>2, SumUnfolds
    <3>9. g[c] \in Int /\ g[y] \in Int
      BY <2>2, <2>4
    <3>10. Sum(g, R) = g[y] + Sum(g, r)
      <4>1. Sum(g, R) = g[c] + Sum(g, q \union {y}) /\ Sum(g, r) = Sum(g, q \union {c})
        BY <2>5, <3>1
      <4> HIDE DEF c, q, R
      <4> QED BY <4>1, <3>6, <3>7, <3>8, <3>9
    <3> QED BY <2>2, <3>10
  <2> QED BY <2>6, <2>7
<1>3. ~Fails(S, x)
  <2> HIDE DEF Fails
  <2> QED BY <1>1, <1>2
<1> QED BY <1>3

(* Induction over a finite set, for the family F of the sets that have the *)
(* property.                                                               *)
LEMMA FiniteInduction ==
  ASSUME NEW U, IsFiniteSet(U), NEW F, {} \in F,
         \A r \in SUBSET U : \A x \in U : r \in F /\ x \notin r => r \union {x} \in F
  PROVE  U \in F
<1> DEFINE Bad == {n \in Nat : \E r \in SUBSET U : Cardinality(r) = n /\ r \notin F}
<1>1. \A r \in SUBSET U : IsFiniteSet(r) /\ Cardinality(r) \in Nat
  BY FS_Subset, FS_CardinalityType
<1>2. Bad = {}
  <2> SUFFICES ASSUME Bad # {} PROVE FALSE
    OBVIOUS
  <2>1. PICK n \in Bad : \A m \in Bad : n <= m
    BY LeastNatural
  <2>2. PICK r \in SUBSET U : Cardinality(r) = n /\ r \notin F
    BY <2>1
  <2>3. PICK x \in r : TRUE
    BY <2>2
  <2> DEFINE q == r \ {x}
  <2>4. q \in SUBSET U /\ x \in U /\ x \notin q /\ r = q \union {x}
    BY <2>3
  <2>5. Cardinality(q) = n - 1 /\ n \in Nat /\ Cardinality(q) \in Nat
    BY <1>1, <2>2, <2>3, <2>4, FS_RemoveElement
  <2>6. n - 1 \notin Bad
    <3>1. ~(n <= n - 1)
      BY <2>5
    <3> HIDE DEF Bad
    <3> QED BY <2>1, <3>1
  <2>7. q \in F
    BY <2>4, <2>5, <2>6
  <2> HIDE DEF q
  <2> QED BY <2>2, <2>4, <2>7
<1> QED BY <1>1, <1>2

(* Sums of integers are integers. *)
LEMMA SumInt ==
  ASSUME NEW S, IsFiniteSet(S), NEW g, \A x \in S : g[x] \in Int
  PROVE  Sum(g, S) \in Int
BY SumUnfolds

(* Nothing adds up to zero. *)
LEMMA SumEmpty == ASSUME NEW g PROVE Sum(g, {}) = 0
BY SumUnfolds, FS_EmptySet

(* What a function makes of a finite set is finite. *)
LEMMA ImageIsFinite ==
  ASSUME NEW S, IsFiniteSet(S), NEW f
  PROVE  IsFiniteSet({f[x] : x \in S})
<1> DEFINE F == {r \in SUBSET S : IsFiniteSet({f[x] : x \in r})}
<1>1. {} \in F
  <2>1. {f[x] : x \in {}} = {}
    OBVIOUS
  <2> QED BY <2>1, FS_EmptySet
<1>2. ASSUME NEW r \in SUBSET S, NEW y \in S, r \in F, y \notin r
      PROVE  r \union {y} \in F
  <2>1. {f[x] : x \in r \union {y}} = {f[x] : x \in r} \union {f[y]}
    OBVIOUS
  <2> DEFINE T == {f[x] : x \in r}
  <2>2. IsFiniteSet(T)
    BY <1>2
  <2> HIDE DEF T
  <2>3. IsFiniteSet(T \union {f[y]})
    BY <2>2, FS_AddElement
  <2> QED BY <2>1, <2>3 DEF T
<1>3. S \in F
  <2> HIDE DEF F
  <2> QED BY <1>1, <1>2, FiniteInduction
<1> QED BY <1>3

(* A sum over a set is one over the part in W and one over the rest, also  *)
(* when those in W are counted by a row of their own, in units of q.       *)
LEMMA SumSplit ==
  ASSUME NEW E, IsFiniteSet(E), NEW g, \A e \in E : g[e] \in Int,
         NEW q \in Int, NEW W \in SUBSET E,
         NEW row, \A e, f \in E : row[e] = row[f] => e = f,
         NEW h, \A e \in E : h[row[e]] = g[e] * q,
         NEW R, \A r : r \in R <=> \E e \in W : r = row[e]
  PROVE  Sum(g, E) * q = Sum(h, R) + Sum(g, E \ W) * q
<1> DEFINE Shown(r) == {row[e] : e \in r \cap W}
           Adds(r) == Sum(g, r) * q = Sum(h, Shown(r)) + Sum(g, r \ W) * q
           F == {r \in SUBSET E : Adds(r)}
<1>1. {} \in F
  <2>1. Shown({}) = {} /\ {} \ W = {}
    OBVIOUS
  <2>2. Sum(g, {}) = 0 /\ Sum(h, {}) = 0
    BY SumEmpty
  <2> HIDE DEF Shown
  <2>3. 0 * q = 0 + 0 * q
    OBVIOUS
  <2> QED BY <2>1, <2>2, <2>3
<1>2. ASSUME NEW r \in SUBSET E, NEW x \in E, Adds(r), x \notin r
      PROVE  Adds(r \union {x})
  <2>1. IsFiniteSet(r) /\ IsFiniteSet(r \ W) /\ IsFiniteSet(Shown(r))
    <3>1. IsFiniteSet(r) /\ IsFiniteSet(r \ W) /\ IsFiniteSet(r \cap W)
      BY FS_Subset
    <3> QED BY <3>1, ImageIsFinite
  <2>2. /\ g[x] \in Int /\ g[x] * q \in Int
        /\ Sum(g, r) \in Int /\ Sum(g, r \union {x}) = g[x] + Sum(g, r)
    <3>1. g[x] \in Int /\ \A y \in r \union {x} : g[y] \in Int
      OBVIOUS
    <3>2. g[x] * q \in Int
      BY <3>1, SMT
    <3> QED BY <1>2, <2>1, <3>1, <3>2, SumAdd, SumInt
  <2>3. \A e \in E : g[e] \in Int /\ h[row[e]] \in Int
    BY SMT
  <2>4. Sum(h, Shown(r)) \in Int /\ Sum(g, r \ W) \in Int
    <3>1. \A y \in Shown(r) : h[y] \in Int
      BY <2>3
    <3> HIDE DEF Shown
    <3> QED BY <2>1, <2>3, <3>1, SumInt
  <2>5. (g[x] + Sum(g, r)) * q = g[x] * q + Sum(g, r) * q
    BY <2>2, SMT
  <2>6. CASE x \in W
    <3>1. Shown(r \union {x}) = Shown(r) \union {row[x]} /\ (r \union {x}) \ W = r \ W
      BY <2>6
    <3>2. row[x] \notin Shown(r)
      BY <1>2
    <3>3. \A y \in Shown(r) \union {row[x]} : h[y] \in Int
      BY <2>3
    <3> HIDE DEF Shown
    <3>9. Sum(h, Shown(r) \union {row[x]}) = h[row[x]] + Sum(h, Shown(r))
      BY <2>1, <3>2, <3>3, SumAdd
    <3>4. Sum(h, Shown(r) \union {row[x]}) = g[x] * q + Sum(h, Shown(r))
      BY <3>9
    <3> DEFINE A == Sum(g, r) * q  B == Sum(g, r \ W) * q  D == g[x] * q
    <3>5. A \in Int /\ B \in Int /\ D \in Int
      BY <2>2, <2>4, SMT
    <3>6. D + A = (D + Sum(h, Shown(r))) + B
      <4>1. A = Sum(h, Shown(r)) + B
        BY <1>2
      <4> HIDE DEF A, B, D
      <4> QED BY <2>4, <3>5, <4>1
    <3> QED BY <2>2, <2>5, <3>1, <3>4, <3>6
  <2>7. CASE x \notin W
    <3>1. Shown(r \union {x}) = Shown(r) /\ (r \union {x}) \ W = (r \ W) \union {x}
      BY <2>7
    <3>2. Sum(g, (r \ W) \union {x}) = g[x] + Sum(g, r \ W)
      BY <1>2, <2>1, <2>3, SumAdd
    <3> HIDE DEF Shown
    <3>3. (g[x] + Sum(g, r \ W)) * q = g[x] * q + Sum(g, r \ W) * q
      BY <2>2, <2>4, SMT
    <3> DEFINE A == Sum(g, r) * q  B == Sum(g, r \ W) * q  D == g[x] * q
    <3>5. A \in Int /\ B \in Int /\ D \in Int
      BY <2>2, <2>4, SMT
    <3>6. D + A = Sum(h, Shown(r)) + (D + B)
      <4>1. A = Sum(h, Shown(r)) + B
        BY <1>2
      <4> HIDE DEF A, B, D
      <4> QED BY <2>4, <3>5, <4>1
    <3> QED BY <2>2, <2>5, <3>1, <3>2, <3>3, <3>6
  <2> QED BY <2>6, <2>7
<1>3. E \in F
  <2> HIDE DEF Adds
  <2>1. \A r \in SUBSET E : \A x \in E : r \in F /\ x \notin r => r \union {x} \in F
    BY <1>2
  <2> HIDE DEF F
  <2> QED BY <1>1, <2>1, FiniteInduction
<1>4. E \cap W = W /\ R = Shown(E)
  OBVIOUS
<1> QED BY <1>3, <1>4

(* The total of some of a set of postings, and of the amounts of some rows. *)
LEMMA TotalIsSum ==
  ASSUME NEW E, IsFiniteSet(E), \A e \in E : e.minor \in Int, NEW C \in SUBSET E
  PROVE  /\ Total(C) = Sum([e \in E |-> e.minor], C)
         /\ Total(C) \in Int
<1> DEFINE g == [e \in E |-> e.minor]
           F(i) == [s \in SUBSET C |-> IF s = {} THEN 0
                      ELSE LET x == CHOOSE y \in s : TRUE IN x.minor + i[s \ {x}]]
           it == CHOOSE i : i = F(i)
<1>1. Total(C) = it[C]
  BY DEF Total, MapThenSumSet, MapThenFoldSet
<1>2. IsFiniteSet(C) /\ \A e \in C : g[e] \in Int
  BY FS_Subset
<1>3. ASSUME NEW i PROVE F(i) = Adding(i, g, C)
  <2>1. ASSUME NEW s \in SUBSET C, s # {} PROVE Chosen(s).minor = g[Chosen(s)]
    BY <2>1, ChosenIsMember
  <2> QED BY <2>1 DEF Adding, Chosen
<1>4. PICK j : j = Adding(j, g, C)
  BY <1>2, AddingExists
<1>5. it = Adding(it, g, C)
  BY <1>3, <1>4
<1> HIDE DEF it
<1> QED BY <1>1, <1>2, <1>5, SumIsAdding, SumInt

LEMMA AmountIsSum ==
  ASSUME NEW S, IsFiniteSet(S), \A r \in S : r.amount \in Int, NEW R \in SUBSET S
  PROVE  MapThenSumSet(LAMBDA s : s.amount, R) = Sum([r \in S |-> r.amount], R)
<1> DEFINE g == [r \in S |-> r.amount]
           F(i) == [s \in SUBSET R |-> IF s = {} THEN 0
                      ELSE LET x == CHOOSE y \in s : TRUE IN x.amount + i[s \ {x}]]
           it == CHOOSE i : i = F(i)
<1>1. MapThenSumSet(LAMBDA s : s.amount, R) = it[R]
  BY DEF MapThenSumSet, MapThenFoldSet
<1>2. IsFiniteSet(R) /\ \A r \in R : g[r] \in Int
  BY FS_Subset
<1>3. ASSUME NEW i PROVE F(i) = Adding(i, g, R)
  <2>1. ASSUME NEW s \in SUBSET R, s # {} PROVE Chosen(s).amount = g[Chosen(s)]
    BY <2>1, ChosenIsMember
  <2> QED BY <2>1 DEF Adding, Chosen
<1>4. PICK j : j = Adding(j, g, R)
  BY <1>2, AddingExists
<1>5. it = Adding(it, g, R)
  BY <1>3, <1>4
<1> HIDE DEF it
<1> QED BY <1>1, <1>2, <1>5, SumIsAdding

-----------------------------------------------------------------------------
(* Statements *)

(* What is read of an account: finitely many postings, told apart by the   *)
(* id of the entry and the place in it.                                    *)
Entries(E) ==
  /\ IsFiniteSet(E)
  /\ \A e \in E : e.id \in Nat /\ e.leg \in Nat /\ e.at \in Nat /\ e.minor \in Int
  /\ \A e, f \in E : e.id = f.id /\ e.leg = f.leg => e = f

Shown(x) == {e \in x.ledger : InWindow(x.by, x.window, e.at)}

(* The answer to a request for transactions shows those of one reading.    *)
IsStatement(x) ==
  x.of = "transactions" =>
    /\ Entries(x.ledger)
    /\ x.window \in Windows \union {None}
    /\ x.by = "management" => x.window = None
    /\ x.rows = {TransactionRow(x.by, x.account, x.ledger, e) : e \in Shown(x)}

LEMMA DivisionIsMonotone ==
  ASSUME NEW n \in Nat, NEW m \in Nat, n <= m, NEW q \in Nat \ {0}
  PROVE  n \div q <= m \div q
<1> DEFINE w == n \div q  v == m \div q
<1>1. w \in Int /\ v \in Int /\ q * w <= n /\ m < q * v + q
  BY Division
<1> HIDE DEF w, v
<1>2. q * w < q * v + q
  BY <1>1
<1>3. CASE w > v
  <2>1. q * (w - v) >= q
    BY <1>1, <1>3, SMT
  <2>2. q * (w - v) = q * w - q * v
    BY <1>1, SMT
  <2>3. q * w \in Int /\ q * v \in Int
    BY <1>1, SMT
  <2> QED BY <1>2, <2>1, <2>2, <2>3
<1> QED BY <1>1, <1>3 DEF w, v

(* A range of days has no gaps. *)
LEMMA WindowHasNoGaps ==
  ASSUME NEW by \in {"openfinance", "management"}, NEW w \in Windows \union {None},
         NEW n \in Nat, NEW m \in Nat, NEW k \in Nat, n <= m, m <= k,
         InWindow(by, w, n), InWindow(by, w, k)
  PROVE  InWindow(by, w, m)
<1>1. CASE w = None
  BY <1>1 DEF InWindow
<1>2. CASE w # None
  <2>1. w.from \in Nat /\ w.to \in Nat /\ DayLength \in Nat \ {0}
    BY <1>2, AccountViewsAssumption
  <2>2. /\ n \div DayLength <= m \div DayLength /\ m \div DayLength <= k \div DayLength
        /\ \A t \in Nat : t \div DayLength \in Int
    <3>1. n \div DayLength <= m \div DayLength /\ m \div DayLength <= k \div DayLength
      BY <2>1, DivisionIsMonotone
    <3>2. ASSUME NEW t \in Nat PROVE t \div DayLength \in Int
      BY <2>1, Division
    <3> QED BY <3>1, <3>2
  <2>3. /\ w.from \div DayLength <= n \div DayLength
        /\ k \div DayLength <= w.to \div DayLength
    BY <1>2 DEF InWindow
  <2>4. /\ w.from \div DayLength <= m \div DayLength
        /\ m \div DayLength <= w.to \div DayLength
    <3> DEFINE d(t) == t \div DayLength
    <3>1. /\ d(w.from) \in Int /\ d(n) \in Int /\ d(m) \in Int /\ d(k) \in Int
          /\ d(w.to) \in Int
      BY <2>1, <2>2
    <3>2. d(w.from) <= d(n) /\ d(n) <= d(m) /\ d(m) <= d(k) /\ d(k) <= d(w.to)
      BY <2>2, <2>3
    <3> HIDE DEF d
    <3>3. d(w.from) <= d(m) /\ d(m) <= d(w.to)
      BY <3>1, <3>2
    <3> QED BY <3>3 DEF d
  <2> QED BY <1>2, <2>4 DEF InWindow
<1> QED BY <1>1, <1>2

(* What the balances of a statement start from: what the entries before    *)
(* those shown add up to.                                                  *)
LEMMA StatementAddsUp ==
  ASSUME NEW x, IsStatement(x), x.of = "transactions", x.by \in {"openfinance", "management"}
  PROVE  LET posting(r) == CHOOSE p \in x.ledger : p.id = r.entry /\ p.leg = r.leg
             upto(r) == {s \in x.rows : NotAfter(posting(s), posting(r))}
             opening(r) == r.after - MapThenSumSet(LAMBDA s : s.amount, upto(r)) IN
         \A r, s \in x.rows : /\ opening(r) = opening(s)
                              /\ x.window = None => opening(r) = 0
<1> DEFINE posting(r) == CHOOSE p \in x.ledger : p.id = r.entry /\ p.leg = r.leg
           upto(r) == {s \in x.rows : NotAfter(posting(s), posting(r))}
           opening(r) == r.after - MapThenSumSet(LAMBDA s : s.amount, upto(r))
           E == x.ledger
           a == x.account
           W == Shown(x)
           q == Quantum(Row[a].currency)
           row == [e \in E |-> TransactionRow(x.by, a, E, e)]
           g == [e \in E |-> e.minor]
           S == {row[e] : e \in E}
           h == [r \in S |-> r.amount]
           C(e) == {f \in E : NotAfter(f, e)}
<1>1. /\ Entries(E) /\ W \in SUBSET E /\ x.rows = {row[e] : e \in W}
      /\ x.window \in Windows \union {None}
  BY DEF IsStatement, Shown
<1>2. q \in Nat \ {0}
  BY QuantumIsPositive
<1>3. ASSUME NEW e \in E
      PROVE  /\ row[e].entry = e.id /\ row[e].leg = e.leg /\ row[e].amount = g[e] * q
             /\ e.minor \in Int /\ g[e] \in Int /\ row[e].amount \in Int
             /\ row[e].after = Total(C(e)) * q
  <2>1. e.minor \in Int
    BY <1>1 DEF Entries
  <2>2. row[e] = TransactionRow(x.by, a, E, e)
    OBVIOUS
  <2>3. /\ row[e].entry = e.id /\ row[e].leg = e.leg /\ row[e].amount = g[e] * q
        /\ row[e].amount \in Int
    BY <2>1, <2>2, RowMoves DEF Decimal, to_decimal
  <2>4. row[e].after = Decimal(RunningBalance(E, e), a)
    BY <2>2 DEF TransactionRow
  <2> QED BY <2>1, <2>3, <2>4 DEF Decimal, to_decimal, RunningBalance
<1>4. ASSUME NEW e \in W PROVE posting(row[e]) = e
  <2>1. e \in E /\ row[e].entry = e.id /\ row[e].leg = e.leg
    BY <1>1, <1>3
  <2>2. \A f \in E : e.id = f.id /\ e.leg = f.leg => e = f
    BY <1>1, <2>1 DEF Entries
  <2>3. \A p \in E : (p.id = row[e].entry /\ p.leg = row[e].leg) <=> p = e
    <3> HIDE DEF row, E
    <3> QED BY <2>1, <2>2
  <2> HIDE DEF row
  <2> QED BY <2>1, <2>3
<1>5. ASSUME NEW e \in E, NEW f \in E, row[e] = row[f] PROVE e = f
  <2>1. row[e].entry = e.id /\ row[e].leg = e.leg /\ row[f].entry = f.id /\ row[f].leg = f.leg
    BY <1>3
  <2>2. e.id = f.id /\ e.leg = f.leg
    <3> HIDE DEF row
    <3> QED BY <1>5, <2>1
  <2> QED BY <1>1, <2>2 DEF Entries
<1>6. IsFiniteSet(S) /\ \A r \in S : r.amount \in Int
  <2>1. IsFiniteSet(E)
    BY <1>1 DEF Entries
  <2>2. \A r \in S : r.amount \in Int
    BY <1>3
  <2> HIDE DEF row, E
  <2> QED BY <2>1, <2>2, ImageIsFinite
(* The balance after an entry, less what was shown until then. *)
<1>7. ASSUME NEW e \in W
      PROVE  opening(row[e]) = Sum(g, C(e) \ W) * q
  <2> DEFINE R == {row[f] : f \in C(e) \cap W}
  <2>0. e \in E
    BY <1>1
  <2>1. upto(row[e]) = R
    <3>1. \A f \in W : posting(row[f]) = f
      BY <1>4
    <3>2. \A f \in W : NotAfter(f, e) <=> f \in C(e)
      BY <1>1
    <3>3. x.rows = {row[f] : f \in W}
      BY <1>1
    <3> HIDE DEF posting, C, row, W
    <3> QED BY <3>1, <3>2, <3>3
  <2>2. MapThenSumSet(LAMBDA s : s.amount, R) = Sum(h, R)
    <3>1. R \in SUBSET S
      BY <1>1
    <3> HIDE DEF R, S
    <3> QED BY <1>6, <3>1, AmountIsSum
  <2>3. IsFiniteSet(E) /\ IsFiniteSet(C(e)) /\ C(e) \in SUBSET E
    <3>1. IsFiniteSet(E) /\ C(e) \in SUBSET E
      BY <1>1 DEF Entries
    <3> QED BY <3>1, FS_Subset
  <2>4. row[e].after = Sum(g, C(e)) * q
    <3>1. \A f \in E : f.minor \in Int
      BY <1>3
    <3>2. Total(C(e)) = Sum(g, C(e))
      <4> HIDE DEF C, E, a
      <4> QED BY <2>3, <3>1, TotalIsSum
    <3> HIDE DEF C, row, g
    <3> QED BY <1>3, <2>0, <3>2
  <2>5. /\ Sum(g, C(e)) * q = Sum(h, R) + Sum(g, C(e) \ (C(e) \cap W)) * q
        /\ Sum(h, R) \in Int /\ Sum(g, C(e) \ W) \in Int
    <3>1. \A f \in C(e) : g[f] \in Int /\ h[row[f]] = g[f] * q
      <4> HIDE DEF g, row
      <4> QED BY <1>3, <2>3
    <3>2. \A f, d \in C(e) : row[f] = row[d] => f = d
      BY <1>5, <2>3
    <3>3. C(e) \cap W \in SUBSET C(e) /\ q \in Int
      BY <1>2
    <3>4. IsFiniteSet(R) /\ \A y \in R : h[y] \in Int
      <4>1. R \in SUBSET S
        BY <1>1
      <4> HIDE DEF R, S
      <4> QED BY <1>6, <4>1, FS_Subset
    <3>5. IsFiniteSet(C(e) \ W)
      BY <2>3, FS_Subset
    <3>6. Sum(h, R) \in Int /\ Sum(g, C(e) \ W) \in Int
      <4>1. \A f \in C(e) \ W : g[f] \in Int
        BY <3>1
      <4> HIDE DEF C, h, g, W, R
      <4> QED BY <3>4, <3>5, <4>1, SumInt
    <3> DEFINE D == C(e)  V == D \cap W
    <3>7. Sum(g, D) * q = Sum(h, R) + Sum(g, D \ V) * q
      <4>1. /\ IsFiniteSet(D) /\ V \in SUBSET D /\ q \in Int /\ \A f \in D : g[f] \in Int
            /\ \A f, d \in D : row[f] = row[d] => f = d
            /\ \A f \in D : h[row[f]] = g[f] * q
        BY <2>3, <3>1, <3>2, <3>3
      <4>2. \A r : r \in R <=> \E f \in V : r = row[f]
        OBVIOUS
      <4> HIDE DEF D, V, R, row, h, g, q, C, E, W, S, a, posting, upto, opening
      <4> QED BY <4>1, <4>2, SumSplit, SMTT(60)
    <3> QED BY <3>6, <3>7
  <2>6. C(e) \ (C(e) \cap W) = C(e) \ W
    OBVIOUS
  <2>7. opening(row[e]) = Sum(g, C(e)) * q - Sum(h, R)
    BY <2>1, <2>2, <2>4
  <2>8. Sum(g, C(e) \ W) * q \in Int
    BY <1>2, <2>5, SMT
  <2> HIDE DEF opening, R, C, g, h, q, W, row
  <2> QED BY <2>5, <2>6, <2>7, <2>8
(* Nothing between two entries shown is left out. *)
<1>8. ASSUME NEW e \in W, NEW f \in W, NEW d \in C(e) \ W PROVE d \in C(f) \ W
  <2>1. /\ d \in E /\ e \in E /\ f \in E
        /\ d.at \in Nat /\ e.at \in Nat /\ f.at \in Nat /\ d.id \in Nat /\ f.id \in Nat
    BY <1>1 DEF Entries
  <2>2. d.at <= e.at
    BY <2>1 DEF NotAfter
  <2>3. f.at <= d.at \/ NotAfter(d, f)
    BY <2>1 DEF NotAfter
  <2>4. CASE f.at <= d.at
    <3>1. InWindow(x.by, x.window, f.at) /\ InWindow(x.by, x.window, e.at)
      BY DEF Shown
    <3>2. InWindow(x.by, x.window, d.at)
      BY <1>1, <2>1, <2>2, <2>4, <3>1, WindowHasNoGaps
    <3> QED BY <2>1, <3>2 DEF Shown
  <2> QED BY <2>1, <2>3, <2>4
<1>9. \A e, f \in W : C(e) \ W = C(f) \ W
  BY <1>8
<1>10. ASSUME x.window = None, NEW e \in W PROVE Sum(g, C(e) \ W) * q = 0
  <2>1. C(e) \ W = {}
    BY <1>10 DEF Shown, InWindow
  <2>2. Sum(g, C(e) \ W) = 0
    BY <2>1, SumEmpty
  <2> HIDE DEF C, W, g
  <2> QED BY <1>2, <2>2
<1>11. ASSUME NEW r \in x.rows, NEW s \in x.rows
       PROVE  opening(r) = opening(s) /\ (x.window = None => opening(r) = 0)
  <2>1. PICK e \in W, f \in W : r = row[e] /\ s = row[f]
    BY <1>1
  <2>2. C(e) \ W = C(f) \ W
    BY <1>9
  <2> HIDE DEF opening, row, C, W, g, q
  <2> QED BY <1>7, <1>10, <2>1, <2>2
<1> HIDE DEF opening
<1> QED BY <1>11 DEF opening

-----------------------------------------------------------------------------
(* An answer is of a moment.  While a request runs, "past" holds today's   *)
(* journal, and each of its journals has what was booked before the        *)
(* request for a bank that is still open; so each moment of the past will  *)
(* do, and what is read is of today's.                                     *)
JournalInv ==
  /\ Entries(journal)
  /\ booked \in Nat
  /\ \A e \in journal : e.id <= booked

PastInv(q) ==
  /\ journal \in past
  /\ \A j \in past : \A e \in q.began : e.bank \in banks => e \in j

(* What was read of one account at a moment of the past. *)
BalanceOfPast(by, r) ==
  \E j \in past : Held(r) = Written(by, Decimal(Total(PostingsOf(j, r.account)), r.account))

BalancesOfPast(q) == HasBalances(q) => \A r \in q.rows : BalanceOfPast(q.by, r)

(* Who asks for an account's details, and what a request for transactions  *)
(* has before it reads the entries: the account, and nothing else.         *)
AskedAt(q, label) ==
  /\ label = "list_customers" => q.of \in {"customers", "stats"}
  /\ label = "country" \/ q.of = "balances" => q.by = "berlin"
  /\ label = "list_accounts" =>
       q.of \in {"stats", "participants", "accounts"} \/ q.by = "berlin"
  /\ q.of = "transactions" =>
       /\ q.account \in Accounts
       /\ q.rows = {} /\ q.ledger = {}
       /\ label \in {"country", "read_account", "read_entries"} => q.todo = {q.account}
       /\ q.window \in Windows \union {None}
       /\ q.by = "management" => q.window = None

MomentAt(q, label) == PastInv(q) /\ BalancesOfPast(q) /\ AskedAt(q, label)

MomentInv ==
  /\ request.pc # "idle" => MomentAt(request, request.pc)
  /\ \A x \in answers : IsStatement(x)

MomentIInv == SentIInv /\ JournalInv /\ MomentInv

(* What AnswersAreOfAMoment says of a step. *)
NewOfAMoment == \A x \in answers' \ answers : OfAMoment(x)

LEMMA MomentInit == Init => JournalInv /\ MomentInv
<1>1. IsFiniteSet({})
  BY FS_EmptySet
<1> QED BY <1>1 DEF Init, JournalInv, Entries, MomentInv, NoRequest

LEMMA GotoMoment ==
  ASSUME MomentIInv, NEW q, IsRequest(q), NEW label, MomentAt(q, label), Goto(q, label),
         UNCHANGED <<tables, past>>
  PROVE  MomentInv' /\ NewOfAMoment
<1>1. /\ request'.pc = label /\ request'.by = q.by /\ request'.of = q.of
      /\ request'.account = q.account /\ request'.window = q.window
      /\ request'.todo = q.todo /\ request'.rows = q.rows
      /\ request'.ledger = q.ledger /\ request'.began = q.began
  BY DEF Goto, IsRequest, Fields
<1>2. answers' = answers /\ journal' = journal /\ banks' = banks /\ past' = past
  BY DEF Goto, tables
<1>3. PastInv(request)'
  BY <1>1, <1>2 DEF MomentAt, PastInv
<1>4. BalancesOfPast(request)'
  <2>1. (HasBalances(request)' <=> HasBalances(q)) /\ request'.by = q.by
    BY <1>1 DEF HasBalances
  <2> QED BY <1>1, <1>2, <2>1 DEF MomentAt, BalancesOfPast, BalanceOfPast
<1>5. AskedAt(request, request.pc)'
  BY <1>1 DEF MomentAt, AskedAt
<1>6. \A x \in answers' : IsStatement(x)
  BY <1>2 DEF MomentIInv, MomentInv
<1> QED BY <1>2, <1>3, <1>4, <1>5, <1>6 DEF MomentInv, MomentAt, NewOfAMoment

LEMMA RefuseMoment ==
  ASSUME MomentIInv, Refuse PROVE MomentInv' /\ NewOfAMoment
BY DEF Refuse, NoRequest, MomentIInv, MomentInv, NewOfAMoment

(* Any moment of the past will do for an answer. *)
LEMMA AnswerMoment ==
  ASSUME MomentIInv, NEW q, Answer(q), PastInv(q), BalancesOfPast(q), IsStatement(q),
         q.of = "transactions" => q.ledger = PostingsOf(journal, q.account)
  PROVE  MomentInv' /\ NewOfAMoment
<1>1. request' = NoRequest
  BY DEF Answer
<1> DEFINE x == [by |-> q.by, of |-> q.of, bank |-> q.bank, holder |-> q.holder,
                 account |-> q.account, window |-> q.window, rows |-> q.rows,
                 ledger |-> q.ledger, began |-> q.began, open |-> q.bank \in banks]
<1>2. answers' = answers \union {x}
  BY DEF Answer
<1>3. /\ x.by = q.by /\ x.of = q.of /\ x.bank = q.bank /\ x.account = q.account
      /\ x.window = q.window /\ x.rows = q.rows /\ x.ledger = q.ledger /\ x.began = q.began
      /\ x.open = (q.bank \in banks)
  OBVIOUS
<1> HIDE DEF x
<1>4. Shown(x) = Shown(q)
  BY <1>3 DEF Shown
<1>5. IsStatement(x)
  BY <1>3, <1>4 DEF IsStatement
<1>6. MomentInv'
  BY <1>1, <1>2, <1>5 DEF MomentIInv, MomentInv, NoRequest
<1> DEFINE moments == {j \in past : x.open => \A e \in x.began : e.bank = x.bank => e \in j}
<1>7. moments = past /\ journal \in past
  BY <1>3 DEF PastInv
<1>8. \A r \in BalancesIn(x) : \E j \in past :
        Held(r) = Written(x.by, Decimal(Total(PostingsOf(j, r.account)), r.account))
  BY <1>3 DEF BalancesOfPast, BalanceOfPast, BalancesIn, HasBalances
<1>9. ASSUME x.of = "transactions"
      PROVE  {<<r.entry, r.leg, Moved(x.by, r)>> : r \in x.rows} =
             {<<p.id, p.leg, Written(x.by, Decimal(p.minor, x.account))>> :
                p \in {s \in PostingsOf(journal, x.account) : InWindow(x.by, x.window, s.at)}}
  <2> DEFINE E == x.ledger  W == Shown(x)  row(e) == TransactionRow(x.by, x.account, E, e)
  <2>1. /\ Entries(E) /\ x.rows = {row(e) : e \in W}
        /\ W = {f \in PostingsOf(journal, x.account) : InWindow(x.by, x.window, f.at)}
    BY <1>3, <1>5, <1>9 DEF IsStatement, Shown
  <2>2. ASSUME NEW e \in W
        PROVE  /\ row(e).entry = e.id /\ row(e).leg = e.leg
               /\ Moved(x.by, row(e)) = Written(x.by, Decimal(e.minor, x.account))
    <3>1. e.minor \in Int
      BY <2>1 DEF Entries, Shown
    <3> QED BY <3>1, RowMoves
  <2> HIDE DEF W, row
  <2> QED BY <2>1, <2>2
<1>10. OfAMoment(x)
  BY <1>7, <1>8, <1>9 DEF OfAMoment
<1> QED BY <1>2, <1>6, <1>10 DEF NewOfAMoment

LEMMA ListCustomersMoment ==
  ASSUME MomentIInv, ListCustomers PROVE MomentInv' /\ NewOfAMoment
<1> DEFINE q == request
           found == {c \in CustomersOf(q.bank) : q.holder # None => c = q.holder}
<1>1. /\ IsRequest(q) /\ UNCHANGED <<tables, past>>
      /\ MomentAt(q, "list_customers") /\ q.of \in {"customers", "stats"}
  BY DEF ListCustomers, At, MomentIInv, MomentInv, MomentAt, AskedAt, SentIInv, StepsInv
<1>2. CASE q.of = "stats"
  <2> DEFINE p == [q EXCEPT !.people = found]
  <2>1. IsRequest(p) /\ p.of = q.of /\ p.began = q.began
    BY <1>1 DEF IsRequest, Fields
  <2>2. Goto(p, "list_accounts")
    BY <1>2 DEF ListCustomers
  <2> HIDE DEF p
  <2>3. MomentAt(p, "list_accounts")
    BY <1>1, <1>2, <2>1 DEF MomentAt, PastInv, BalancesOfPast, HasBalances, AskedAt
  <2> QED BY <1>1, <2>1, <2>2, <2>3, GotoMoment
<1>3. CASE Refuse
  BY <1>3, RefuseMoment
<1>4. CASE \E R : Answer([q EXCEPT !.rows = R])
  <2>1. PICK R : Answer([q EXCEPT !.rows = R])
    BY <1>4
  <2> DEFINE p == [q EXCEPT !.rows = R]
  <2>2. p.of = q.of /\ p.began = q.began
    BY <1>1 DEF IsRequest, Fields
  <2>3. Answer(p)
    BY <2>1
  <2> HIDE DEF p
  <2>4. PastInv(p) /\ BalancesOfPast(p) /\ IsStatement(p) /\ p.of # "transactions"
    BY <1>1, <2>2 DEF MomentAt, PastInv, BalancesOfPast, HasBalances, IsStatement
  <2> QED BY <2>3, <2>4, AnswerMoment
<1> QED BY <1>2, <1>3, <1>4 DEF ListCustomers

LEMMA ListAccountsMoment ==
  ASSUME MomentIInv, ListAccounts PROVE MomentInv' /\ NewOfAMoment
<1> DEFINE q == request
           next(T) == [q EXCEPT !.todo = T]
<1>1. /\ IsRequest(q) /\ UNCHANGED <<tables, past>> /\ MomentAt(q, "list_accounts")
  BY DEF ListAccounts, At, MomentIInv, MomentInv, SentIInv, StepsInv
<1>2. ASSUME NEW T
      PROVE  /\ IsRequest(next(T)) /\ next(T).of = q.of /\ next(T).by = q.by
             /\ next(T).todo = T /\ next(T).rows = q.rows /\ next(T).ledger = q.ledger
             /\ next(T).account = q.account /\ next(T).window = q.window
             /\ next(T).began = q.began
  BY <1>1 DEF IsRequest, Fields
<1>3. ASSUME NEW T, NEW label,
             label # "list_customers", label # "list_accounts",
             label = "country" => q.by = "berlin",
             q.of = "transactions" => T = {q.account},
             Goto(next(T), label)
      PROVE  MomentInv' /\ NewOfAMoment
  <2> HIDE DEF next
  <2>1. HasBalances(next(T)) <=> HasBalances(q)
    BY <1>2 DEF HasBalances
  <2>2. PastInv(next(T)) /\ BalancesOfPast(next(T))
    BY <1>1, <1>2, <2>1 DEF MomentAt, PastInv, BalancesOfPast
  <2>3. AskedAt(next(T), label)
    BY <1>1, <1>2, <1>3 DEF MomentAt, AskedAt
  <2> QED BY <1>1, <1>2, <1>3, <2>2, <2>3, GotoMoment DEF MomentAt
<1>4. CASE q.of # "transactions" /\ Answer(q)
  BY <1>1, <1>4, AnswerMoment DEF MomentAt, IsStatement
<1>5. CASE Refuse
  BY <1>5, RefuseMoment
<1>6. q.of \in {"account", "balances", "transactions"} => q.by = "berlin"
  BY <1>1 DEF MomentAt, AskedAt
<1> HIDE DEF next
<1> QED BY <1>3, <1>4, <1>5, <1>6 DEF ListAccounts, next

LEMMA CountMoment ==
  ASSUME MomentIInv, Count PROVE MomentInv' /\ NewOfAMoment
<1> DEFINE q == request
<1>1. IsRequest(q) /\ q.of = "stats" /\ MomentAt(q, "count")
  BY DEF Count, At, MomentIInv, MomentInv, SentIInv, StepsInv, Fits
<1>2. PICK R : Answer([q EXCEPT !.rows = R])
  BY DEF Count
<1> DEFINE p == [q EXCEPT !.rows = R]
<1>3. p.of = q.of /\ p.began = q.began
  BY <1>1 DEF IsRequest, Fields
<1> HIDE DEF p
<1>4. PastInv(p) /\ BalancesOfPast(p) /\ IsStatement(p) /\ p.of # "transactions"
  BY <1>1, <1>3 DEF MomentAt, PastInv, BalancesOfPast, HasBalances, IsStatement
<1> QED BY <1>2, <1>4, AnswerMoment DEF p

LEMMA ParticipantsMoment ==
  ASSUME MomentIInv, NextBank \/ NextRow PROVE MomentInv' /\ NewOfAMoment
<1> DEFINE q == request
<1>1. /\ IsRequest(q) /\ q.of = "participants" /\ UNCHANGED <<tables, past>> /\ PastInv(q)
  BY DEF NextBank, NextRow, At, MomentIInv, MomentInv, MomentAt, SentIInv, StepsInv, Fits
<1>2. \/ Answer(q)
      \/ \E b, B : Goto([q EXCEPT !.bank = b, !.branches = B], "list_accounts")
      \/ Goto(q, "next_bank")
      \/ \E T, R : Goto([q EXCEPT !.todo = T, !.rows = R], "next_row")
  BY DEF NextBank, NextRow
<1>3. ASSUME NEW p, IsRequest(p), p.of = "participants", p.began = q.began,
             NEW label \in {"list_accounts", "next_bank", "next_row"}, Goto(p, label)
      PROVE  MomentInv' /\ NewOfAMoment
  <2>1. MomentAt(p, label)
    BY <1>1, <1>3 DEF MomentAt, PastInv, BalancesOfPast, HasBalances, AskedAt
  <2> QED BY <1>1, <1>3, <2>1, GotoMoment
<1>4. CASE Answer(q)
  <2>1. BalancesOfPast(q) /\ IsStatement(q) /\ q.of # "transactions"
    BY <1>1 DEF BalancesOfPast, HasBalances, IsStatement
  <2> QED BY <1>1, <1>4, <2>1, AnswerMoment
<1>5. ASSUME NEW b, NEW B, Goto([q EXCEPT !.bank = b, !.branches = B], "list_accounts")
      PROVE  MomentInv' /\ NewOfAMoment
  <2> DEFINE p == [q EXCEPT !.bank = b, !.branches = B]
  <2>1. IsRequest(p) /\ p.of = q.of /\ p.began = q.began
    BY <1>1 DEF IsRequest, Fields
  <2> QED BY <1>1, <1>3, <1>5, <2>1
<1>6. ASSUME NEW T, NEW R, Goto([q EXCEPT !.todo = T, !.rows = R], "next_row")
      PROVE  MomentInv' /\ NewOfAMoment
  <2> DEFINE p == [q EXCEPT !.todo = T, !.rows = R]
  <2>1. IsRequest(p) /\ p.of = q.of /\ p.began = q.began
    BY <1>1 DEF IsRequest, Fields
  <2> QED BY <1>1, <1>3, <1>6, <2>1
<1> QED BY <1>1, <1>2, <1>3, <1>4, <1>5, <1>6

LEMMA FindAccountMoment ==
  ASSUME MomentIInv, FindAccount PROVE MomentInv' /\ NewOfAMoment
<1> DEFINE q == request  p == [q EXCEPT !.todo = {q.account}]
<1>1. IsRequest(q) /\ MomentAt(q, q.pc) /\ UNCHANGED <<tables, past>>
  BY DEF FindAccount, At, MomentIInv, MomentInv, SentIInv, StepsInv
<1>2. /\ IsRequest(p) /\ p.of = q.of /\ p.by = q.by /\ p.account = q.account
      /\ p.todo = {q.account} /\ p.rows = q.rows /\ p.ledger = q.ledger
      /\ p.window = q.window /\ p.began = q.began
  BY <1>1 DEF IsRequest, Fields
<1>3. Goto(p, "read_account") \/ Refuse
  BY DEF FindAccount
<1> HIDE DEF p
<1>4. MomentAt(p, "read_account")
  <2>1. HasBalances(p) <=> HasBalances(q)
    BY <1>2 DEF HasBalances
  <2> QED BY <1>1, <1>2, <2>1 DEF MomentAt, PastInv, BalancesOfPast, AskedAt
<1> QED BY <1>1, <1>2, <1>3, <1>4, GotoMoment, RefuseMoment

LEMMA CountryMoment ==
  ASSUME MomentIInv, Country PROVE MomentInv' /\ NewOfAMoment
<1> DEFINE q == request
           listed == [q EXCEPT !.todo = @ \ {Min(q.todo)},
                               !.rows = @ \union {[account |-> Min(q.todo)]}]
<1>1. /\ IsRequest(q) /\ UNCHANGED <<tables, past>> /\ MomentAt(q, "country")
      /\ q.by = "berlin"
  BY DEF Country, At, MomentIInv, MomentInv, MomentAt, AskedAt, SentIInv, StepsInv
<1>2. /\ IsRequest(listed) /\ listed.of = q.of /\ listed.by = q.by
      /\ listed.began = q.began
  BY <1>1 DEF IsRequest, Fields
<1>3. \/ Refuse
      \/ q.of = "balances" /\ Answer(q)
      \/ q.of = "transactions" /\ Goto(q, "read_account")
      \/ q.of \notin {"balances", "transactions"} /\ (Answer(listed) \/ Goto(listed, "country"))
  BY DEF Country
<1> HIDE DEF listed
<1>4. CASE q.of = "balances" /\ Answer(q)
  BY <1>1, <1>4, AnswerMoment DEF MomentAt, IsStatement
<1>5. CASE q.of = "transactions" /\ Goto(q, "read_account")
  <2>1. MomentAt(q, "read_account")
    BY <1>1, <1>5 DEF MomentAt, AskedAt
  <2> QED BY <1>1, <1>5, <2>1, GotoMoment
<1>6. CASE q.of \notin {"balances", "transactions"} /\ (Answer(listed) \/ Goto(listed, "country"))
  <2>1. MomentAt(listed, "country")
    BY <1>1, <1>2, <1>6 DEF MomentAt, PastInv, BalancesOfPast, HasBalances, AskedAt
  <2>2. IsStatement(listed) /\ listed.of # "transactions"
    BY <1>2, <1>6 DEF IsStatement
  <2> QED BY <1>1, <1>2, <1>6, <2>1, <2>2, GotoMoment, AnswerMoment DEF MomentAt
<1> QED BY <1>3, <1>4, <1>5, <1>6, RefuseMoment

LEMMA ReadAccountMoment ==
  ASSUME MomentIInv, ReadAccount PROVE MomentInv' /\ NewOfAMoment
<1>1. /\ IsRequest(request) /\ UNCHANGED <<tables, past>>
      /\ MomentAt(request, "read_account")
  BY DEF ReadAccount, At, MomentIInv, MomentInv, SentIInv, StepsInv
<1>2. MomentAt(request, "read_entries")
  BY <1>1 DEF MomentAt, AskedAt
<1>3. Goto(request, "read_entries") \/ Refuse
  BY DEF ReadAccount
<1> QED BY <1>1, <1>2, <1>3, GotoMoment, RefuseMoment

(* The balance shown is that of today's journal. *)
LEMMA BalanceIsToday ==
  ASSUME JournalInv, journal \in past, NEW by, NEW a,
         NEW r, r = BalanceRow(by, a, Decimal(Total(PostingsOf(journal, a)), a))
  PROVE  BalanceOfPast(by, r)
<1> DEFINE E == PostingsOf(journal, a)
           balance == Decimal(Total(E), a)
<1>1. IsFiniteSet(E) /\ \A e \in E : e.minor \in Int
  <2>1. E \subseteq journal
    BY DEF PostingsOf
  <2> QED BY <2>1, FS_Subset DEF JournalInv, Entries
<1>2. balance \in Int
  <2>1. Total(E) \in Int
    <3> HIDE DEF E
    <3> QED BY <1>1, TotalIsSum
  <2> QED BY <2>1, QuantumIsPositive, SMT DEF Decimal, to_decimal
<1> HIDE DEF balance
<1>3. r.account = a /\ Held(r) = Written(by, balance)
  <2> DEFINE turned == by \in {"fdx", "openfinance"} /\ is_card(a)
  <2>1. /\ r.account = a
        /\ r.balance = Written(by, IF turned THEN -balance ELSE balance)
        /\ turned <=> r.kind \in {"loc", "creditCard"}
    BY DEF BalanceRow, balance
  <2>2. Written(by, balance) \in Int /\ Written(by, -balance) = -Written(by, balance)
    BY <1>2, FloatIsNear DEF Written
  <2> HIDE DEF turned
  <2> QED BY <2>1, <2>2 DEF Held
<1> QED BY <1>3 DEF BalanceOfPast, balance

LEMMA MinOfOne == ASSUME NEW n \in Accounts PROVE Min({n}) = n
<1>1. Accounts \subseteq Nat
  BY AccountViewsAssumption
<1>2. n \in Nat
  BY <1>1
<1> QED BY <1>2 DEF Min

LEMMA ReadEntriesMoment ==
  ASSUME MomentIInv, ReadEntries PROVE MomentInv' /\ NewOfAMoment
<1> DEFINE q == request
           a == Min(q.todo)
           E == PostingsOf(journal, a)
           shown == {x \in E : InWindow(q.by, q.window, x.at)}
           new == IF q.of = "transactions"
                  THEN {TransactionRow(q.by, a, E, e) : e \in shown}
                  ELSE {BalanceRow(q.by, a, Decimal(Total(E), a))}
           read == [q EXCEPT !.todo = @ \ {a}, !.ledger = @ \union E, !.rows = @ \union new]
<1>1. /\ IsRequest(q) /\ UNCHANGED <<tables, past>> /\ MomentAt(q, "read_entries")
      /\ JournalInv
  BY DEF ReadEntries, At, MomentIInv, MomentInv, SentIInv, StepsInv
<1>2. \/ Refuse
      \/ q.of = "balances" /\ Goto(read, "country")
      \/ q.of # "balances" /\ read.todo # {} /\ Goto(read, "read_account")
      \/ q.of # "balances" /\ read.todo = {} /\ Answer(read)
  BY DEF ReadEntries
<1>3. /\ IsRequest(read) /\ read.of = q.of /\ read.by = q.by /\ read.began = q.began
      /\ read.account = q.account /\ read.window = q.window /\ read.todo = q.todo \ {a}
      /\ read.ledger = q.ledger \union E /\ read.rows = q.rows \union new
  <2> HIDE DEF new, E, a
  <2> QED BY <1>1 DEF IsRequest, Fields
<1>4. PastInv(read)
  <2> HIDE DEF read
  <2> QED BY <1>1, <1>3 DEF MomentAt, PastInv
<1>5. BalancesOfPast(read)
  <2>1. ASSUME HasBalances(q) PROVE \A r \in new : BalanceOfPast(q.by, r)
    <3>1. q.of # "transactions"
      BY <2>1 DEF HasBalances
    <3>2. ASSUME NEW r, r = BalanceRow(q.by, a, Decimal(Total(E), a)) PROVE BalanceOfPast(q.by, r)
      BY <1>1, <3>2, BalanceIsToday DEF MomentAt, PastInv
    <3> QED BY <3>1, <3>2
  <2>2. HasBalances(read) <=> HasBalances(q)
    <3> HIDE DEF read
    <3> QED BY <1>3 DEF HasBalances
  <2> HIDE DEF read, new
  <2> QED BY <1>1, <1>3, <2>1, <2>2 DEF MomentAt, BalancesOfPast
<1>6. ASSUME q.of = "transactions"
      PROVE  /\ a = q.account /\ read.todo = {}
             /\ IsStatement(read) /\ read.ledger = PostingsOf(journal, read.account)
  <2>1. /\ q.todo = {q.account} /\ q.account \in Accounts
        /\ q.rows = {} /\ q.ledger = {}
        /\ q.window \in Windows \union {None} /\ (q.by = "management" => q.window = None)
    BY <1>1, <1>6 DEF MomentAt, AskedAt
  <2>2. a = q.account
    BY <2>1, MinOfOne
  <2>3. read.todo = {} /\ read.ledger = E /\ read.rows = new
    <3> HIDE DEF read, new, a
    <3> QED BY <1>3, <2>1, <2>2
  <2>4. Entries(E)
    <3>1. E \subseteq journal
      BY DEF PostingsOf
    <3> QED BY <1>1, <3>1, FS_Subset DEF JournalInv, Entries
  <2>5. new = {TransactionRow(read.by, read.account, E, e) : e \in Shown(read)}
    <3>1. Shown(read) = shown
      <4> HIDE DEF read
      <4> QED BY <1>3, <2>3 DEF Shown
    <3> HIDE DEF read, a
    <3> QED BY <1>3, <1>6, <2>2, <3>1
  <2> HIDE DEF read, new, a
  <2>6. IsStatement(read)
    BY <1>3, <2>1, <2>3, <2>4, <2>5 DEF IsStatement
  <2> QED BY <1>3, <2>2, <2>3, <2>6
<1>7. q.of # "transactions" => IsStatement(read)
  <2> HIDE DEF read
  <2> QED BY <1>3 DEF IsStatement
<1>8. CASE q.of = "balances" /\ Goto(read, "country")
  <2> HIDE DEF read
  <2>1. AskedAt(read, "country")
    BY <1>1, <1>3, <1>8 DEF MomentAt, AskedAt
  <2> QED BY <1>1, <1>3, <1>4, <1>5, <1>8, <2>1, GotoMoment DEF MomentAt
<1>9. CASE q.of # "balances" /\ read.todo # {} /\ Goto(read, "read_account")
  <2>1. q.of # "transactions"
    BY <1>6, <1>9
  <2> HIDE DEF read
  <2>2. AskedAt(read, "read_account")
    BY <1>1, <1>3, <2>1 DEF MomentAt, AskedAt
  <2> QED BY <1>1, <1>3, <1>4, <1>5, <1>9, <2>2, GotoMoment DEF MomentAt
<1>10. CASE q.of # "balances" /\ read.todo = {} /\ Answer(read)
  <2> HIDE DEF read
  <2> QED BY <1>3, <1>4, <1>5, <1>6, <1>7, <1>10, AnswerMoment
<1> QED BY <1>2, <1>8, <1>9, <1>10, RefuseMoment

LEMMA AskMoment ==
  ASSUME MomentIInv, Ask PROVE MomentInv' /\ NewOfAMoment
<1>0. PICK v \in Views : \E a \in Named(v[2]), range \in Ranges(v[1], v[2]) :
        \E b, c : request' = Asked(v[1], v[2], b, c, a, range)
  BY DEF Ask
<1>1. PICK a \in Named(v[2]), range \in Ranges(v[1], v[2]) :
        \E b, c : request' = Asked(v[1], v[2], b, c, a, range)
  BY <1>0
<1>2. /\ request'.pc = FirstStep(v[1], v[2]) /\ request'.by = v[1] /\ request'.of = v[2]
      /\ request'.account = a /\ request'.window = range
      /\ request'.todo = IF FirstStep(v[1], v[2]) = "read_account" THEN {a} ELSE {}
      /\ request'.rows = {} /\ request'.ledger = {} /\ request'.began = journal
  BY <1>1 DEF Asked, NoRequest
<1>3. past' = {journal} /\ UNCHANGED <<tables, answers>>
  BY DEF Ask
<1>4. PastInv(request)' /\ BalancesOfPast(request)'
  BY <1>2, <1>3 DEF PastInv, BalancesOfPast, tables
<1>5. v[2] = "transactions" =>
        /\ a \in Accounts
        /\ range \in Windows \union {None}
        /\ v[1] = "management" => range = None
  BY <1>1 DEF Named, Ranges
<1>6. /\ FirstStep(v[1], v[2]) = "list_customers" => v[2] \in {"customers", "stats"}
      /\ FirstStep(v[1], v[2]) # "country" /\ FirstStep(v[1], v[2]) # "read_entries"
      /\ FirstStep(v[1], v[2]) = "list_accounts" => v[2] = "accounts" \/ v[1] = "berlin"
      /\ v[2] = "balances" => v[1] = "berlin"
  BY DEF FirstStep, Views
<1>7. AskedAt(request, request.pc)'
  BY <1>2, <1>5, <1>6 DEF AskedAt
<1> QED BY <1>3, <1>4, <1>7 DEF MomentIInv, MomentInv, MomentAt, NewOfAMoment

(* The journal loses what it has of banks that are gone, and gains what is *)
(* booked.                                                                 *)
LEMMA BookedEntries ==
  ASSUME JournalInv, TablesInv, Book PROVE JournalInv' /\ journal \subseteq journal'
<1>1. PICK x \in Accounts, y \in Accounts, amount \in Nat \ {0}, at \in Nat :
        LET money == from_decimal(amount, Row[x].currency) IN
        journal' = journal \union {Posting(1, x, -money, -amount, at),
                                  Posting(2, y, money, amount, at)}
  BY BookAddsTwo
<1> DEFINE money == from_decimal(amount, Row[x].currency)
           one == Posting(1, x, -money, -amount, at)
           two == Posting(2, y, money, amount, at)
<1>2. money \in Int
  BY BookedIsNear
<1>3. /\ one.id = booked + 1 /\ one.leg = 1 /\ one.at \in Nat /\ one.minor \in Int
      /\ two.id = booked + 1 /\ two.leg = 2 /\ two.at \in Nat /\ two.minor \in Int
  BY <1>2 DEF Posting
<1>4. journal' = journal \union {one, two} /\ booked' = booked + 1
  BY <1>1 DEF Book
<1> HIDE DEF one, two
<1>5. IsFiniteSet(journal')
  <2>1. IsFiniteSet(journal \union {one}) /\ journal' = (journal \union {one}) \union {two}
    BY <1>4, FS_AddElement DEF JournalInv, Entries
  <2> QED BY <2>1, FS_AddElement
<1> QED BY <1>3, <1>4, <1>5 DEF JournalInv, Entries

LEMMA JournalKept ==
  ASSUME JournalInv, TablesInv, [Next]_vars PROVE JournalInv'
<1>1. CASE Book
  BY <1>1, BookedEntries
<1>2. CASE RemoveRows
  <2>1. journal' \subseteq journal /\ booked' = booked
    BY <1>2 DEF RemoveRows
  <2>2. IsFiniteSet(journal')
    BY <2>1, FS_Subset DEF JournalInv, Entries
  <2> QED BY <2>1, <2>2 DEF JournalInv, Entries
<1>3. CASE UNCHANGED <<journal, booked>>
  BY <1>3 DEF JournalInv, Entries
<1> QED
  BY <1>1, <1>2, <1>3
     DEF Next, Done, Writes, Reads, AddBatch, RemoveBank, vars, tables, At, Ask, ListCustomers,
         ListAccounts, Count, NextBank, NextRow, FindAccount, Country, ReadAccount, ReadEntries

LEMMA WritesMoment ==
  ASSUME MomentIInv, TablesInv, Writes PROVE MomentInv' /\ NewOfAMoment
<1>1. UNCHANGED <<request, answers>>
  BY DEF Writes, Book, AddBatch, RemoveBank, RemoveRows
<1>2. \/ banks' \subseteq banks /\ UNCHANGED <<journal, past>>
      \/ UNCHANGED banks /\ past' = past \union {journal'} /\
           \A e \in journal : e.bank \in banks => e \in journal'
  <2>1. CASE Book
    BY <2>1, BookedEntries DEF MomentIInv, Book
  <2>2. CASE AddBatch \/ RemoveBank
    BY <2>2 DEF AddBatch, RemoveBank
  <2>3. CASE RemoveRows
    BY <2>3 DEF RemoveRows
  <2> QED BY <2>1, <2>2, <2>3 DEF Writes
<1>3. past \subseteq past' /\ banks' \subseteq banks
  BY <1>2
<1>4. ASSUME request.pc # "idle" PROVE MomentAt(request, request.pc)'
  <2>1. PastInv(request) /\ BalancesOfPast(request) /\ AskedAt(request, request.pc)
    BY <1>4 DEF MomentIInv, MomentInv, MomentAt
  <2>2. PastInv(request)'
    BY <1>1, <1>2, <2>1 DEF PastInv
  <2>3. BalancesOfPast(request)'
    BY <1>1, <1>3, <2>1 DEF BalancesOfPast, BalanceOfPast
  <2>4. AskedAt(request, request.pc)'
    BY <1>1, <2>1 DEF AskedAt
  <2> QED BY <2>2, <2>3, <2>4 DEF MomentAt
<1> QED BY <1>1, <1>4 DEF MomentIInv, MomentInv, NewOfAMoment

LEMMA MomentKept ==
  ASSUME MomentIInv, TablesInv, [Next]_vars PROVE MomentInv' /\ NewOfAMoment
<1>1. CASE UNCHANGED vars
  BY <1>1 DEF vars, MomentIInv, MomentInv, MomentAt, PastInv, BalancesOfPast, BalanceOfPast,
              AskedAt, NewOfAMoment
<1> QED
  BY <1>1, WritesMoment, AskMoment, ListCustomersMoment, ListAccountsMoment, CountMoment,
     ParticipantsMoment, FindAccountMoment, CountryMoment, ReadAccountMoment, ReadEntriesMoment
     DEF Next, Done, Reads

LEMMA MomentStep ==
  TablesInv /\ MomentIInv /\ [Next]_vars => (TablesInv /\ MomentIInv)' /\ NewOfAMoment
<1> SUFFICES ASSUME TablesInv, MomentIInv, [Next]_vars
             PROVE  (TablesInv /\ MomentIInv)' /\ NewOfAMoment
  OBVIOUS
<1>1. TablesInv' /\ SentIInv'
  BY TablesKept, SentKept DEF MomentIInv
<1>2. JournalInv'
  BY JournalKept DEF MomentIInv
<1> QED BY <1>1, <1>2, MomentKept DEF MomentIInv

LEMMA MomentFirst == Init => TablesInv /\ MomentIInv
BY TablesInit, SentInit, MomentInit DEF MomentIInv

LEMMA StatementsOfAnswers == MomentIInv => StatementsAddUp
BY StatementAddsUp DEF MomentIInv, MomentInv, StatementsAddUp

(* Whatever is booked, with whatever dates, and whatever days are asked    *)
(* for: the balances after each transaction of an Open Finance statement   *)
(* or of the bank's own pages start from one opening balance and follow    *)
(* the amounts; from zero if all days are asked for.                       *)
THEOREM BalancesFollowAmounts == Spec => []StatementsAddUp
<1>1. TablesInv /\ MomentIInv /\ [Next]_vars => (TablesInv /\ MomentIInv)'
  BY MomentStep
<1> QED BY <1>1, MomentFirst, StatementsOfAnswers, PTL DEF Spec

(* However many entries are booked, batches created and banks deleted      *)
(* while a request runs, each balance and the list of transactions in its  *)
(* answer is that of one moment since the request, and while the bank is   *)
(* open it leaves out nothing booked before.                               *)
THEOREM AnswersHaveAMoment == Spec => AnswersAreOfAMoment
<1>1. TablesInv /\ MomentIInv /\ [Next]_vars => (TablesInv /\ MomentIInv)'
  BY MomentStep
<1>2. TablesInv /\ MomentIInv /\ [Next]_vars => [\A x \in answers' \ answers : OfAMoment(x)]_vars
  BY MomentStep DEF NewOfAMoment
<1> QED BY <1>1, <1>2, MomentFirst, PTL DEF Spec, AnswersAreOfAMoment

=============================================================================
