------------------------------ MODULE Formats ------------------------------
(***************************************************************************)
(* The formats that stub::pack chooses, for integers and for the lengths   *)
(* of strings, bytes and arrays, and what a type makes of a number that    *)
(* was read.                                                               *)
(*                                                                         *)
(* An integer is its sign and its 64 bits, in two's complement, the most   *)
(* significant byte first, so that all widths can be told apart.           *)
(***************************************************************************)
EXTENDS Integers, Sequences

Number(neg, bytes) == [neg |-> neg, bytes |-> bytes]

Low(n, d) == SubSeq(d.bytes, 9 - n, 8)

\* d is a number of n bytes: what is cut off repeats the sign.
Fits(n, d) ==
    /\ \A i \in 1..(8 - n) : d.bytes[i] = (IF d.neg THEN 255 ELSE 0)
    /\ d.neg => d.bytes[9 - n] >= 128

\* Lexicographic, hence numeric order of two numbers with the same sign.
LessOrEqual(a, b) ==
    \/ a = b
    \/ \E i \in 1..8 : a[i] < b[i] /\ \A j \in 1..(i - 1) : a[j] = b[j]

\* numeric_limits<T>::max() and min() of the integers of n bytes
MaxOf(signed, n) ==
    [i \in 1..8 |-> IF i < 9 - n THEN 0 ELSE IF signed /\ i = 9 - n THEN 127 ELSE 255]
MinOf(n) == [i \in 1..8 |-> IF i < 9 - n THEN 255 ELSE IF i = 9 - n THEN 128 ELSE 0]

-----------------------------------------------------------------------------
(* Packing.                                                                *)

\* pack_imp_uint8 .. pack_imp_int64: each takes the shortest format.
PackInt(d) ==
    IF Fits(1, d) /\ (d.bytes[8] \in 0..127 \/ (d.neg /\ d.bytes[8] >= 224)) THEN Low(1, d)
    ELSE LET n == CHOOSE n \in {1, 2, 4, 8} : Fits(n, d) /\ \A m \in {1, 2, 4, 8} : m < n => ~Fits(m, d)
         IN  <<(IF d.neg THEN 208 ELSE 204)
                 + (CASE n = 1 -> 0 [] n = 2 -> 1 [] n = 4 -> 2 [] n = 8 -> 3)>> \o Low(n, d)

Of(n, bytes) == SubSeq(<<0, 0, 0, 0>> \o bytes, Len(bytes) + 5 - n, Len(bytes) + 4)

\* A number below 2^16 in n bytes.
Store(n, x) == Of(n, <<(x \div 256) % 256, x % 256>>)

PackArray(n) ==
    IF n < 16 THEN <<144 + n>> ELSE <<220>> \o Store(2, n)

PackStr(n) ==
    IF n < 32 THEN <<160 + n>> ELSE IF n < 256 THEN <<217, n>> ELSE <<218>> \o Store(2, n)

PackBin(n) ==
    IF n < 256 THEN <<196, n>> ELSE <<197>> \o Store(2, n)

-----------------------------------------------------------------------------
(* object::as<T>(): a value, or type_error is thrown.                      *)

Value(v) == [refused |-> FALSE, value |-> v]
Refused  == [refused |-> TRUE]

\* Mutant: the limit itself is refused.
AsIntBelow(o, signed, n) ==
    CASE o.type = "POSITIVE_INTEGER" /\ ~LessOrEqual(MaxOf(signed, n), o.bytes) ->
           Value(Number(FALSE, o.bytes))
      [] o.type = "NEGATIVE_INTEGER" /\ signed /\ LessOrEqual(MinOf(n), o.bytes) ->
           Value(Number(TRUE, o.bytes))
      [] OTHER -> Refused

\* convert_integer_sign
AsInt(o, signed, n) ==
    CASE o.type = "POSITIVE_INTEGER" /\ LessOrEqual(o.bytes, MaxOf(signed, n)) ->
           Value(Number(FALSE, o.bytes))
      [] o.type = "NEGATIVE_INTEGER" /\ signed /\ LessOrEqual(MinOf(n), o.bytes) ->
           Value(Number(TRUE, o.bytes))
      [] OTHER -> Refused

-----------------------------------------------------------------------------
(* Reference.                                                              *)

\* A number is one of a type.
InRange(d, signed, n) ==
    IF signed THEN Fits(n, d) /\ (d.bytes[9 - n] >= 128 <=> d.neg)
    ELSE ~d.neg /\ Fits(n, d)
=============================================================================
