-------------------------------- MODULE Arith --------------------------------
(* The integer functions of math.c that the allocators size their tables   *)
(* with, for the arguments they accept: a base of at least 2.              *)
EXTENDS Integers

(* log: divides until nothing is left and returns one less than the number *)
(* of divisions.                                                           *)
Log(base, arg) ==
  LET exp[tmp \in Nat] == IF tmp = 0 THEN 0 ELSE exp[tmp \div base] + 1
  IN  exp[arg] - 1

(* power: multiplies exp times; the callers' results fit an int.           *)
Power(base, exp) ==
  LET ret[n \in Nat] == IF n = 0 THEN 1 ELSE ret[n - 1] * base
  IN  ret[exp]

(* log is the exponent of the greatest power that does not exceed its      *)
(* argument.                                                               *)
ASSUME LogInvertsPower ==
  \A base \in 2 .. 3, arg \in 1 .. 40 :
    /\ Power(base, Log(base, arg)) <= arg
    /\ arg < Power(base, Log(base, arg) + 1)
=============================================================================
