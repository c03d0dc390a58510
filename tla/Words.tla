------------------------------- MODULE Words -------------------------------
(***************************************************************************)
(* The one value type of minipy: a two's complement word, 64 bits in the   *)
(* code, here of four chunks so that both its wraparound and the way       *)
(* constants are assembled from chunks show in a small one.                *)
(***************************************************************************)
EXTENDS Integers

CONSTANT ChunkSize   \* the values of a quarter of a word; 2^16 in the code
ASSUME ChunkIsEven == ChunkSize \in Nat \ {0} /\ ChunkSize % 2 = 0

Modulus == ChunkSize * ChunkSize * ChunkSize * ChunkSize
MinInt == -(Modulus \div 2)
Word == MinInt .. -MinInt - 1

(* The word congruent to n: what a cast through uint64_t leaves of it. *)
Wrap(n) == ((n - MinInt) % Modulus) + MinInt

FromBool(b) == IF b THEN 1 ELSE 0

-----------------------------------------------------------------------------
(* The interpreter's arithmetic *)

wrap_add(a, b) == Wrap(a + b)
wrap_sub(a, b) == Wrap(a - b)
wrap_mul(a, b) == Wrap(a * b)

wrap_neg(a) == IF a = MinInt THEN MinInt ELSE -a

Magnitude(a) == IF a < 0 THEN -a ELSE a

(* a / b of C++: the quotient truncated toward zero, for b # 0. *)
Truncated(a, b) ==
    LET q == Magnitude(a) \div Magnitude(b)
    IN  IF (a < 0) = (b < 0) THEN q ELSE -q

(* Their divisor is not zero: eval_binary has aborted by then. *)
trunc_div(a, b) ==
    IF a = MinInt /\ b = -1 THEN MinInt ELSE Truncated(a, b)

trunc_mod(a, b) ==
    IF a = MinInt /\ b = -1 THEN 0 ELSE a - Truncated(a, b) * b

(* What the two unary operators make of a value. *)
Apply(op, a) == IF op = "Neg" THEN wrap_neg(a) ELSE FromBool(a = 0)

(* The operators that stop at a divisor of zero, *)
Divisions == {"Div", "Mod"}

(* and what each operator makes of two values otherwise.                   *)
Combine(op, a, b) ==
    CASE op = "Add" -> wrap_add(a, b)
      [] op = "Sub" -> wrap_sub(a, b)
      [] op = "Mul" -> wrap_mul(a, b)
      [] op = "Div" -> trunc_div(a, b)
      [] op = "Mod" -> trunc_mod(a, b)
      [] op = "Eq" -> FromBool(a = b)
      [] op = "Ne" -> FromBool(a # b)
      [] op = "Lt" -> FromBool(a < b)
      [] op = "Le" -> FromBool(a <= b)
      [] op = "Gt" -> FromBool(a > b)
      [] op = "Ge" -> FromBool(a >= b)
=============================================================================
