------------------------------- MODULE Money --------------------------------
(***************************************************************************)
(* util/money.go and val.ValidateAmount: amounts cross the API as float64  *)
(* major units and are stored as int64 cents.                              *)
(*                                                                         *)
(* A float amount is modelled by the integer number of tenths of a cent it *)
(* stands for (10 is one cent), or by NaN: enough to tell apart amounts    *)
(* that are whole cents, that are rounded, that vanish in the rounding,    *)
(* and that do not fit in an int64.                                        *)
(***************************************************************************)
EXTENDS Integers

CONSTANTS
  MaxInt,   \* the largest int64, scaled down so that overflow is reachable
  NaN       \* the float64 that is not a number

ASSUME MoneyAssumption == /\ MaxInt \in Nat \ {0}
                          /\ NaN \notin Int

MinInt == -MaxInt - 1

Int64 == MinInt..MaxInt

Float == Int \cup {NaN}

\* Two's complement negation: Go's -x, which leaves the smallest int64 alone.
Neg(x) == IF x = MinInt THEN MinInt ELSE -x

\* math.Round(amount*100).  The product of two binary floats can fall on
\* either side of an exact half, so a half cent may go both ways.
Nearest(x) == LET q == x \div 10
                  r == x % 10
              IN  IF r < 5 THEN {q} ELSE IF r = 5 THEN {q, q + 1} ELSE {q + 1}

\* MUTANT, Bank's TypeOK: amounts of any size.
FloatToCentsWide(x) == IF x = NaN THEN {MinInt, 0} ELSE Nearest(x)

\* int64(math.Round(amount*100)): the conversion of a float that does not fit
\* is left to the implementation (amd64 gives the smallest int64, arm64
\* saturates and turns NaN into 0).
FloatToCents(x) == IF x = NaN
                   THEN {MinInt, 0}
                   ELSE IF Nearest(x) \subseteq Int64
                        THEN Nearest(x)
                        ELSE {MinInt, MaxInt}

\* A comparison with NaN is false, so NaN is neither <= 0 nor < 0.
LeqZero(x) == x # NaN /\ x <= 0
LtZero(x)  == x # NaN /\ x < 0

\* val.ValidateAmount
ValidateAmount(x) == ~LeqZero(x)
=============================================================================
