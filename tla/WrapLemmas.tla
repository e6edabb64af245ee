----------------------------- MODULE WrapLemmas -----------------------------
(***************************************************************************)
(* Facts on % and \div by a positive number W: the arithmetic of a counter  *)
(* that starts again at 0 every W ticks, as millis() does, and of seconds.  *)
(***************************************************************************)
EXTENDS Integers, TLAPS

(* Quotient and remainder, ... *)
LEMMA ModDiv ==
  ASSUME NEW W \in Nat \ {0}, NEW x \in Int
  PROVE  /\ x \div W \in Int /\ x % W \in 0..(W - 1)
         /\ x = W * (x \div W) + (x % W)
OBVIOUS

(* ... which are the only ones. *)
LEMMA ModUnique ==
  ASSUME NEW W \in Nat \ {0}, NEW q \in Int, NEW r \in 0..(W - 1)
  PROVE  (W * q + r) % W = r /\ (W * q + r) \div W = q
OBVIOUS

(* A whole round of the counter changes nothing. *)
LEMMA ModRound ==
  ASSUME NEW W \in Nat \ {0}, NEW x \in Int, NEW k \in Int
  PROVE  (x + W * k) % W = x % W
<1>1. PICK q \in Int, r \in 0..(W - 1) : x = W * q + r /\ x % W = r
  BY ModDiv
<1>2. x + W * k = W * (q + k) + r
  BY <1>1
<1>. QED
  BY <1>1, <1>2, ModUnique

(* The difference of two readings, reduced, is that of the times, reduced. *)
LEMMA ModDifference ==
  ASSUME NEW W \in Nat \ {0}, NEW a \in Int, NEW b \in Int
  PROVE  ((a % W) - (b % W)) % W = (a - b) % W
<1>1. PICK p \in Int, r \in 0..(W - 1) : a = W * p + r /\ a % W = r
  BY ModDiv
<1>2. PICK q \in Int, s \in 0..(W - 1) : b = W * q + s /\ b % W = s
  BY ModDiv
<1>3. r - s \in Int /\ p - q \in Int /\ a - b = (r - s) + W * (p - q)
  BY <1>1, <1>2
<1>4. (a - b) % W = (r - s) % W
  BY <1>3, ModRound
<1>. QED
  BY <1>1, <1>2, <1>4

(* Less than a round needs no reduction, and reduction never adds. *)
LEMMA ModSmall ==
  ASSUME NEW W \in Nat \ {0}, NEW x \in Nat
  PROVE  x % W <= x /\ (x < W => x % W = x)
OBVIOUS

(* A reading a while after one that is that far from the wrap. *)
LEMMA ModLater ==
  ASSUME NEW W \in Nat \ {0}, NEW x \in Int, NEW e \in Nat, (x % W) + e < W
  PROVE  (x + e) % W = (x % W) + e
<1>1. PICK q \in Int, r \in 0..(W - 1) : x = W * q + r /\ x % W = r
  BY ModDiv
<1>2. x + e = W * q + (r + e) /\ r + e \in 0..(W - 1)
  BY <1>1
<1>. QED
  BY <1>1, <1>2, ModUnique

(* A time added to a reading, reduced, is the later reading.                *)
LEMMA ModAdvance ==
  ASSUME NEW W \in Nat \ {0}, NEW x \in Int, NEW e \in Int
  PROVE  ((x % W) + e) % W = (x + e) % W
<1>1. PICK q \in Int, r \in 0..(W - 1) : x = W * q + r /\ x % W = r
  BY ModDiv
<1>2. r + e \in Int /\ x + e = (r + e) + W * q
  BY <1>1
<1>3. (x + e) % W = (r + e) % W
  BY <1>2, ModRound
<1>. QED
  BY <1>1, <1>3

(* Whole seconds of a sum: no less than those of the parts, and no more by  *)
(* more than the second part takes when a second begun counts.              *)
LEMMA DivSum ==
  ASSUME NEW W \in Nat \ {0}, NEW a \in Int, NEW b \in Int
  PROVE  /\ (a \div W) + (b \div W) <= (a + b) \div W
         /\ (a + b) \div W <= (a \div W) + ((b + W - 1) \div W)
OBVIOUS

(* Whole seconds do not go back.                                            *)
LEMMA DivMonotone ==
  ASSUME NEW W \in Nat \ {0}, NEW a \in Int, NEW b \in Int, a <= b
  PROVE  a \div W <= b \div W
OBVIOUS
=============================================================================
