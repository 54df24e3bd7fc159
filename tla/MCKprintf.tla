----------------------------- MODULE MCKprintf ------------------------------
(* Values for the constants of Kprintf.                                    *)
EXTENDS Kprintf

Letter(c) == [fmt |-> <<c>>, word |-> 0, str |-> <<>>, text |-> <<c>>]
Tab       == [fmt |-> <<9>>, word |-> 0, str |-> <<>>, text |-> <<>>]

Dec(n, text)  == [fmt |-> <<37, 100>>, word |-> n, str |-> <<>>, text |-> text]
Hex(n, text)  == [fmt |-> <<37, 120>>, word |-> n, str |-> <<>>, text |-> text]
Ch(n, text)   == [fmt |-> <<37, 99>>, word |-> n, str |-> <<>>, text |-> text]
String(address, s) == [fmt |-> <<37, 115>>, word |-> address, str |-> s, text |-> s]

(* "%s%d" with the string "B" at an address whose low byte is a C, and 0;  *)
(* "\t%x%c\n" with 175 and nothing; "%d" with -70.                         *)
MCCall == {<<String(67, <<66>>), Dec(0, <<48>>)>>,
           <<Tab, Hex(175, <<65, 70>>), Ch(0, <<>>), Letter(NewLine)>>,
           <<Dec(-70, <<45, 55, 48>>)>>}

(* An ordinary key, one with a name, and one without a character. *)
MCKey == {[label |-> <<>>, code |-> 97], [label |-> <<110>>, code |-> 0]}

MCPlain == {<<NewLine>>, <<98, NewLine, 98>>}

MCText ==
  MCPlain \cup UNION {{Expected(call, hits) : hits \in SUBSET (1 .. 2)} : call \in MCCall}
    \cup {Append(key.label, NewLine) : key \in MCKey}
    \cup {Char(key.code) : key \in MCKey}

(* itoa and itoh write the numeral of their argument, without zeros in     *)
(* front (stdlib.c).                                                       *)
Value(s, base) ==
  FoldLeft(LAMBDA n, c : n * base + (IF c < 65 THEN c - 48 ELSE c - 55), 0, s)

ASSUME ItoaExact ==
  \A n \in 0 .. 1200 :
    /\ Value(Itoa(n), 10) = n /\ Value(Itoh(n), 16) = n
    /\ n > 0 => Head(Itoa(n)) # 48 /\ Head(Itoh(n)) # 48 /\ Itoa(-n) = <<Minus>> \o Itoa(n)
=============================================================================
