------------------------------ MODULE MCArith -------------------------------
(***************************************************************************)
(* The instance of Arith for TLC: words of seven bits, so that every size  *)
(* and every checkpoint record a word can hold is tried.                   *)
(***************************************************************************)
EXTENDS Arith

\* The operators on words compute what C's do on the numbers they stand for.
ASSUME WordsAreNumbers ==
  /\ \A x \in SUBSET Bit :
       /\ \A i \in Bit : i \in x <=> (Value[x] \div 2 ^ i) % 2 = 1
       /\ Value[Inc(x)] = (Value[x] + 1) % Words
       /\ Value[Dec(x)] = (Value[x] - 1) % Words
       /\ \A k \in 0 .. Width : /\ Value[shiftL(x, k)] = (Value[x] * 2 ^ k) % Words
                                /\ Value[shiftR(x, k)] = Value[x] \div 2 ^ k
=============================================================================
