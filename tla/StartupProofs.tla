--------------------------- MODULE StartupProofs ----------------------------
(***************************************************************************)
(* Theorems about Startup, for any memory, any information of loaders that *)
(* keep to the Multiboot specification, and any tables.                    *)
(***************************************************************************)
EXTENDS Startup, TLAPS, SequenceTheorems, FiniteSetTheorems, WellFoundedInduction

-----------------------------------------------------------------------------
(* Numbers *)

(* A nonempty set of naturals has a least element. *)
LEMMA LeastNat ==
  ASSUME NEW S \in SUBSET Nat, NEW x \in S
  PROVE  \E m \in S : \A n \in S : m <= n
<1>1. IsWellFoundedOn(OpToRel(<, Nat), Nat)
  BY NatLessThanWellFounded
<1>2. PICK m \in S : \A n \in S : <<n, m>> \notin OpToRel(<, Nat)
  BY <1>1, WFMin, S # {}
<1>3. \A n \in S : ~ (n < m)
  BY <1>2 DEF OpToRel
<1> QED
  BY <1>3

(* Induction, in terms of the set of the numbers for which something holds. *)
LEMMA Inductive ==
  ASSUME NEW S \in SUBSET Nat, 0 \in S, \A n \in S : n + 1 \in S
  PROVE  \A n \in Nat : n \in S
<1> DEFINE Bad == Nat \ S
<1> SUFFICES ASSUME NEW x \in Bad
             PROVE  FALSE
  OBVIOUS
<1>1. PICK m \in Bad : \A n \in Bad : m <= n
  BY LeastNat
<1>2. m # 0 /\ m - 1 \in Nat
  BY <1>1
<1>3. m - 1 \in S /\ (m - 1) + 1 = m
  BY <1>1, <1>2
<1> QED
  BY <1>1, <1>3

LEMMA MinIs ==
  ASSUME NEW S \in SUBSET Nat, S # {}
  PROVE  Min(S) \in S /\ \A y \in S : Min(S) <= y
<1>1. \E x \in S : \A y \in S : x <= y
  BY LeastNat
<1>2. Min(S) = CHOOSE x \in S : \A y \in S : x =< y
  BY DEF Min
<1> QED
  BY <1>1, <1>2

LEMMA MinOfTwo ==
  ASSUME NEW a \in Nat, NEW b \in Nat
  PROVE  Min({a, b}) = IF a <= b THEN a ELSE b
<1>1. {a, b} \in SUBSET Nat /\ {a, b} # {}
  OBVIOUS
<1>2. Min({a, b}) \in {a, b} /\ Min({a, b}) <= a /\ Min({a, b}) <= b
  BY <1>1, MinIs
<1> QED
  BY <1>2

LEMMA RoundedIs ==
  ASSUME NEW n \in Nat
  PROVE  /\ Rounded(n) \in Nat /\ Rounded(n) >= n
         /\ \A k \in Nat : n = 8 * k => Rounded(n) = n
         /\ \A a, b \in Nat :
              a % 8 = 0 /\ b % 8 = 0 /\ b - (a + n) \in 0 .. 7 => b = a + Rounded(n)
<1> DEFINE q == (n + 7) \div 8
           r == (n + 7) % 8
<1>1. q \in Nat /\ r \in 0 .. 7 /\ n + 7 = 8 * q + r
  OBVIOUS
<1>2. Rounded(n) = q * 8
  BY DEF Rounded
<1> HIDE DEF q, r
<1>3. ASSUME NEW k \in Nat, n = 8 * k
      PROVE  Rounded(n) = n
  <2>1. q = k
    BY <1>1, <1>3
  <2> QED
    BY <1>2, <1>3, <2>1
<1>4. ASSUME NEW a \in Nat, NEW b \in Nat, a % 8 = 0, b % 8 = 0, b - (a + n) \in 0 .. 7
      PROVE  b = a + Rounded(n)
  <2> DEFINE j == a \div 8
             k == b \div 8
  <2>1. j \in Int /\ a = 8 * j /\ k \in Int /\ b = 8 * k
    BY ONLY <1>4
  <2> HIDE DEF j, k
  <2>2. k = j + q
    BY ONLY <1>1, <1>4, <2>1
  <2> QED
    BY ONLY <1>1, <1>2, <2>1, <2>2
<1> QED
  BY <1>1, <1>2, <1>3, <1>4

-----------------------------------------------------------------------------
(* The walk of parse_multiboot *)

(* One round of the loop: the tag at q, if there is one. *)
Round(info, walk, q) ==
  LET here == {tag \in info : tag.offset = q}
      tag  == CHOOSE t \in here : TRUE
      rest == walk[q + Rounded(tag.size)]
  IN  CASE here = {}               -> [ret |-> Garbage, seen |-> <<Garbage>>]
        [] here # {} /\ tag.type = END   -> [ret |-> 0, seen |-> <<>>]
        [] here # {} /\ tag.type = MMAP  -> [rest EXCEPT !.seen = Entries(tag) \o @]
        [] here # {} /\ tag.type > 21    -> [ret |-> -5, seen |-> <<>>]
        [] here # {} /\ tag.type \notin {END, MMAP} /\ tag.type <= 21 -> rest

(* The rounds come to an end, for each moves on and there are no tags      *)
(* beyond the last.                                                        *)
LEMMA WalkSteps ==
  ASSUME NEW info, NEW last \in Nat,
         \A tag \in info : /\ tag.offset \in 0 .. last /\ tag.size \in Nat \ {0}
  PROVE  \E walk : /\ Walk(info) = walk[BasicSize]
                   /\ \A q \in Nat : walk[q] = Round(info, walk, q)
<1> DEFINE Good == {k \in Nat : \E g : \A q \in Nat : q + k > last => g[q] = Round(info, g, q)}
           walk[q \in Nat] == Round(info, walk, q)
<1>1. ASSUME NEW q \in Nat, NEW g, NEW h,
             \A s \in Nat : s > q => g[s] = h[s]
      PROVE  Round(info, g, q) = Round(info, h, q)
  <2> DEFINE here == {tag \in info : tag.offset = q}
             tag == CHOOSE t \in here : TRUE
             s == q + Rounded(tag.size)
  <2>1. CASE here = {}
    BY <2>1 DEF Round
  <2>2. CASE here # {}
    <3>1. tag \in info
      BY <2>2
    <3>2. tag.size \in Nat \ {0}
      BY <3>1
    <3> HIDE DEF tag
    <3>3. s \in Nat /\ s > q
      BY <3>2, RoundedIs
    <3>4. g[s] = h[s]
      BY <1>1, <3>3
    <3> QED
      BY <3>4 DEF Round, tag
  <2> QED
    BY <2>1, <2>2
<1>2. 0 \in Good
  <2> DEFINE g == [q \in Nat |-> [ret |-> Garbage, seen |-> <<Garbage>>]]
  <2>1. ASSUME NEW q \in Nat, q + 0 > last
        PROVE  g[q] = Round(info, g, q)
    <3>1. {tag \in info : tag.offset = q} = {}
      BY <2>1
    <3> QED
      BY <3>1 DEF Round
  <2> HIDE DEF g
  <2>2. \E f : \A q \in Nat : q + 0 > last => f[q] = Round(info, f, q)
    BY <2>1
  <2> QED
    BY <2>2
<1>3. ASSUME NEW k \in Good
      PROVE  k + 1 \in Good
  <2>1. PICK g : \A q \in Nat : q + k > last => g[q] = Round(info, g, q)
    OBVIOUS
  <2> DEFINE h == [q \in Nat |-> IF q + k > last THEN g[q] ELSE Round(info, g, q)]
  <2>2. ASSUME NEW q \in Nat, q + (k + 1) > last
        PROVE  h[q] = Round(info, h, q)
    <3>1. h[q] = Round(info, g, q)
      BY <2>1
    <3>2. \A s \in Nat : s > q => g[s] = h[s]
      BY <2>2
    <3> HIDE DEF h
    <3>3. Round(info, g, q) = Round(info, h, q)
      BY <1>1, <3>2
    <3> QED
      BY <3>1, <3>3
  <2> HIDE DEF h
  <2>3. \E f : \A q \in Nat : q + (k + 1) > last => f[q] = Round(info, f, q)
    BY <2>2
  <2>4. k + 1 \in Nat
    OBVIOUS
  <2> QED
    BY <2>3, <2>4
<1>4. PICK g : \A q \in Nat : g[q] = Round(info, g, q)
  <2>1. Good \in SUBSET Nat
    OBVIOUS
  <2>2. last + 1 \in Good
    <3> HIDE DEF Good
    <3> QED
      BY <1>2, <1>3, <2>1, Inductive
  <2>3. PICK g : \A q \in Nat : q + (last + 1) > last => g[q] = Round(info, g, q)
    BY <2>2
  <2>4. \A q \in Nat : q + (last + 1) > last
    OBVIOUS
  <2> QED
    BY <2>3, <2>4
<1> DEFINE h == [q \in Nat |-> g[q]]
<1>5. h = [q \in Nat |-> Round(info, h, q)]
  <2>1. ASSUME NEW q \in Nat
        PROVE  g[q] = Round(info, h, q)
    <3>1. \A s \in Nat : s > q => g[s] = h[s]
      OBVIOUS
    <3> HIDE DEF h
    <3> QED
      BY <1>1, <1>4, <3>1
  <2>2. [q \in Nat |-> g[q]] = [q \in Nat |-> Round(info, h, q)]
    BY <2>1
  <2> QED
    BY <2>2
<1>6. walk = [q \in Nat |-> Round(info, walk, q)]
  <2> HIDE DEF h
  <2> QED
    BY <1>5
<1>7. Walk(info) = walk[BasicSize]
  BY DEF Walk, Round
<1> HIDE DEF walk
<1>8. \A q \in Nat : walk[q] = Round(info, walk, q)
  BY <1>6
<1> QED
  BY <1>7, <1>8

(* The entries of a map whose size and whose size of an entry are right. *)
LEMMA EntriesIs ==
  ASSUME NEW tag, tag.entries \in Seq(Desc), tag.entry = EntrySize,
         tag.size = 16 + EntrySize * Len(tag.entries)
  PROVE  Entries(tag) = tag.entries
<1> DEFINE n == Len(tag.entries)
<1>1. n \in Nat /\ DOMAIN tag.entries = 1 .. n
  OBVIOUS
<1>2. tag.entries = [k \in 1 .. n |-> tag.entries[k]]
  OBVIOUS
<1> HIDE DEF n
<1>3. (tag.size - 16 + tag.entry - 1) \div tag.entry = n
  <2>1. tag.size - 16 + tag.entry - 1 = 24 * n + 23 /\ tag.entry = 24
    BY <1>1 DEF EntrySize, n
  <2>2. (24 * n + 23) \div 24 = n
    BY ONLY <1>1
  <2> QED
    BY <2>1, <2>2
<1>4. Entries(tag) = [k \in 1 .. n |->
        IF k = 1 \/ (tag.entry = EntrySize /\ k \in 1 .. n) THEN tag.entries[k] ELSE Garbage]
  BY ONLY <1>1, <1>3 DEF Entries
<1> QED
  BY <1>2, <1>4

(* If the loader's size of an entry is not right, the loop ends after one. *)
LEMMA EntriesOfJunk ==
  ASSUME NEW tag, tag.entries \in Seq(Desc), tag.entry = EntrySize + Upper,
         tag.size = 16 + EntrySize * Len(tag.entries), tag.size < Upper,
         Len(tag.entries) > 0
  PROVE  Entries(tag) = <<tag.entries[1]>> /\ tag.entries[1] \in Desc
<1> DEFINE n == Len(tag.entries)
<1>1. n \in Nat /\ DOMAIN tag.entries = 1 .. n /\ n > 0
  OBVIOUS
<1>2. tag.entries[1] \in Desc
  BY <1>1
<1> HIDE DEF n
<1>3. (tag.size - 16 + tag.entry - 1) \div tag.entry = 1
  <2>1. /\ tag.size - 16 + tag.entry - 1 = 24 * n + 65559 /\ tag.entry = 65560
        /\ 24 * n < 65520
    BY <1>1 DEF EntrySize, Upper, n
  <2>2. (24 * n + 65559) \div 65560 = 1
    BY ONLY <1>1, <2>1
  <2> QED
    BY <2>1, <2>2
<1>4. Entries(tag) = [k \in 1 .. 1 |->
        IF k = 1 \/ (tag.entry = EntrySize /\ k \in 1 .. n) THEN tag.entries[k] ELSE Garbage]
  BY ONLY <1>1, <1>3 DEF Entries
<1>5. Entries(tag) = [k \in 1 .. 1 |-> tag.entries[k]]
  BY <1>4
<1> QED
  BY ONLY <1>2, <1>5

(* The two tags of the second loader, where the halves of the type and of  *)
(* an entry's size hold what they may: see EndTag.                         *)
LEMMA OwnWalk ==
  ASSUME NEW D \in Seq(Desc), Len(D) > 0, NEW type \in {MMAP, MMAP + Upper},
         NEW entry \in {EntrySize, EntrySize + Upper}, NEW end \in {END, END + Upper},
         NEW size, size = 16 + EntrySize * Len(D), size < Upper,
         NEW info, info = {Tag(BasicSize, type, size, entry, D),
                           Tag(BasicSize + size, end, BasicSize, 0, <<>>)}
  PROVE  /\ type # MMAP => Walk(info).seen = <<>>
         /\ type = MMAP =>
              /\ Walk(info).seen = IF entry = EntrySize THEN D ELSE <<D[1]>>
              /\ end = END => Walk(info).ret = 0
<1> DEFINE n == Len(D)
           first == Tag(BasicSize, type, size, entry, D)
           last == Tag(BasicSize + size, end, BasicSize, 0, <<>>)
<1>1. n \in Nat /\ n > 0 /\ size \in Nat /\ size > 0
  BY DEF EntrySize
<1>2. /\ first.offset = 8 /\ first.type = type /\ first.size = size
      /\ first.entry = entry /\ first.entries = D
      /\ last.offset = 8 + size /\ last.type = end /\ last.size = 8
  BY DEF Tag, BasicSize
<1>3. info = {first, last}
  OBVIOUS
<1> HIDE DEF first, last
<1>4. Rounded(size) = size
  <2>1. 2 + 3 * n \in Nat /\ size = 8 * (2 + 3 * n)
    BY <1>1 DEF EntrySize, n
  <2> QED
    BY <1>1, <2>1, RoundedIs
<1>5. \A tag \in info : tag.offset \in 0 .. 8 + size /\ tag.size \in Nat \ {0}
  BY ONLY <1>1, <1>2, <1>3
<1>6. PICK walk : /\ Walk(info) = walk[BasicSize]
                  /\ \A q \in Nat : walk[q] = Round(info, walk, q)
  <2>1. 8 + size \in Nat
    BY <1>1
  <2> QED
    BY <1>5, <2>1, WalkSteps
<1>7. {tag \in info : tag.offset = 8} = {first} /\ {tag \in info : tag.offset = 8 + size} = {last}
  BY ONLY <1>1, <1>2, <1>3
<1>8. /\ end = END => walk[8 + size] = [ret |-> 0, seen |-> <<>>]
      /\ end # END => walk[8 + size] = [ret |-> -5, seen |-> <<>>]
  <2>1. walk[8 + size] = Round(info, walk, 8 + size)
    <3>1. 8 + size \in Nat
      BY ONLY <1>1
    <3> QED
      BY ONLY <1>6, <3>1
  <2>2. (CHOOSE t \in {last} : TRUE) = last
    OBVIOUS
  <2> DEFINE rest == walk[8 + size + Rounded(last.size)]
  <2>3. Round(info, walk, 8 + size) =
          CASE {last} = {} -> [ret |-> Garbage, seen |-> <<Garbage>>]
            [] {last} # {} /\ last.type = END   -> [ret |-> 0, seen |-> <<>>]
            [] {last} # {} /\ last.type = MMAP  -> [rest EXCEPT !.seen = Entries(last) \o @]
            [] {last} # {} /\ last.type > 21    -> [ret |-> -5, seen |-> <<>>]
            [] {last} # {} /\ last.type \notin {END, MMAP} /\ last.type <= 21 -> rest
    BY ONLY <1>7, <2>2 DEF Round
  <2> HIDE DEF rest
  <2>4. {last} # {}
    OBVIOUS
  <2>5. CASE end = END
    BY <1>2, <2>1, <2>3, <2>4, <2>5 DEF END, MMAP
  <2>6. CASE end # END
    <3>1. last.type = 65536
      BY <1>2, <2>6 DEF END, Upper
    <3> QED
      BY <2>1, <2>3, <2>4, <2>6, <3>1 DEF END, MMAP
  <2> QED
    BY <2>5, <2>6
<1>9. /\ type = MMAP => walk[8] = [walk[8 + size] EXCEPT !.seen = Entries(first) \o @]
      /\ type # MMAP => walk[8] = [ret |-> -5, seen |-> <<>>]
  <2>1. walk[8] = Round(info, walk, 8)
    BY <1>6
  <2>2. (CHOOSE t \in {first} : TRUE) = first /\ first.size = size
    BY <1>2
  <2> DEFINE rest == walk[8 + size]
  <2>3. Round(info, walk, 8) =
          CASE {first} = {} -> [ret |-> Garbage, seen |-> <<Garbage>>]
            [] {first} # {} /\ first.type = END   -> [ret |-> 0, seen |-> <<>>]
            [] {first} # {} /\ first.type = MMAP  -> [rest EXCEPT !.seen = Entries(first) \o @]
            [] {first} # {} /\ first.type > 21    -> [ret |-> -5, seen |-> <<>>]
            [] {first} # {} /\ first.type \notin {END, MMAP} /\ first.type <= 21 -> rest
    BY ONLY <1>4, <1>7, <2>2 DEF Round
  <2>4. {first} # {}
    OBVIOUS
  <2>5. CASE type = MMAP
    <3>1. first.type = 6
      BY <1>2, <2>5 DEF MMAP
    <3>2. Round(info, walk, 8) = [rest EXCEPT !.seen = Entries(first) \o @]
      <4> HIDE DEF rest
      <4> QED
        BY <2>3, <2>4, <3>1 DEF END, MMAP
    <3> QED
      BY <2>1, <2>5, <3>2
  <2>6. CASE type # MMAP
    <3>1. first.type = 65542
      BY <1>2, <2>6 DEF MMAP, Upper
    <3> HIDE DEF rest
    <3> QED
      BY <2>1, <2>3, <2>4, <2>6, <3>1 DEF END, MMAP
  <2> QED
    BY <2>5, <2>6
<1>10. Walk(info) = walk[8]
  BY <1>6 DEF BasicSize
<1>11. /\ Entries(first) = IF entry = EntrySize THEN D ELSE <<D[1]>>
       /\ Entries(first) \in Seq(Desc)
  <2>1. CASE entry = EntrySize
    BY <1>2, <2>1, EntriesIs
  <2>2. CASE entry = EntrySize + Upper
    <3>1. entry # EntrySize
      BY <2>2 DEF EntrySize, Upper
    <3>2. Entries(first) = <<D[1]>> /\ D[1] \in Desc
      BY <1>2, <2>2, EntriesOfJunk
    <3> QED
      BY <3>1, <3>2
  <2> QED
    BY <2>1, <2>2
<1>13. CASE type # MMAP
  BY <1>9, <1>10, <1>13
<1>14. CASE type = MMAP
  <2>1. Entries(first) \o <<>> = Entries(first)
    BY <1>11
  <2> DEFINE rest == walk[8 + size]
             own == Entries(first)
  <2>2. Walk(info) = [rest EXCEPT !.seen = own \o @] /\ own \o <<>> = own
    BY <1>9, <1>10, <1>14, <2>1
  <2>3. rest = [ret |-> 0, seen |-> <<>>] \/ rest = [ret |-> -5, seen |-> <<>>]
    BY <1>8
  <2>4. end = END => rest = [ret |-> 0, seen |-> <<>>]
    BY <1>8
  <2> HIDE DEF rest, own
  <2>5. \A r : [[ret |-> r, seen |-> <<>>] EXCEPT !.seen = own \o @] = [ret |-> r, seen |-> own]
    BY ONLY <2>2
  <2>6. Walk(info) = [ret |-> 0, seen |-> own] \/ Walk(info) = [ret |-> -5, seen |-> own]
    <3>1. CASE rest = [ret |-> 0, seen |-> <<>>]
      BY ONLY <2>2, <2>5, <3>1
    <3>2. CASE rest = [ret |-> -5, seen |-> <<>>]
      BY ONLY <2>2, <2>5, <3>2
    <3> QED
      BY ONLY <2>3, <3>1, <3>2
  <2>7. Walk(info).seen = own
    BY ONLY <2>6
  <2>8. end = END => Walk(info).ret = 0
    BY ONLY <2>2, <2>4, <2>5
  <2> USE DEF own
  <2> QED
    BY <1>11, <1>14, <2>7, <2>8
<1> QED
  BY <1>13, <1>14

Strays(entries) == \E k \in DOMAIN entries : entries[k] \notin Desc

(* With an upper half in the size of the map the walk goes on where there  *)
(* is no tag.                                                              *)
LEMMA OwnWalkWide ==
  ASSUME NEW D \in Seq(Desc), NEW type \in {MMAP, MMAP + Upper},
         NEW entry \in {EntrySize, EntrySize + Upper}, NEW end \in {END, END + Upper},
         NEW size \in Nat \ {0},
         NEW info, info = {Tag(BasicSize, type, size + Upper, entry, D),
                           Tag(BasicSize + size, end, BasicSize, 0, <<>>)}
  PROVE  /\ type # MMAP => Walk(info).seen = <<>>
         /\ type = MMAP => Strays(Walk(info).seen)
<1> DEFINE first == Tag(BasicSize, type, size + Upper, entry, D)
           last == Tag(BasicSize + size, end, BasicSize, 0, <<>>)
           wide == size + 65536
<1>1. wide \in Nat /\ wide > size /\ size \in Nat /\ size > 0
  OBVIOUS
<1>2. /\ first.offset = 8 /\ first.type = type /\ first.size = wide
      /\ first.entry = entry /\ first.entries = D
      /\ last.offset = 8 + size /\ last.size = 8
  BY DEF Tag, BasicSize, Upper
<1>3. info = {first, last}
  OBVIOUS
<1> HIDE DEF first, last, wide
<1>4. Rounded(wide) \in Nat /\ Rounded(wide) >= wide
  BY <1>1, RoundedIs
<1>5. \A tag \in info : tag.offset \in 0 .. 8 + size /\ tag.size \in Nat \ {0}
  BY ONLY <1>1, <1>2, <1>3
<1>6. PICK walk : /\ Walk(info) = walk[BasicSize]
                  /\ \A q \in Nat : walk[q] = Round(info, walk, q)
  <2>1. 8 + size \in Nat
    BY <1>1
  <2> QED
    BY <1>5, <2>1, WalkSteps
<1>7. {tag \in info : tag.offset = 8} = {first}
  BY ONLY <1>1, <1>2, <1>3
<1>8. walk[8 + Rounded(wide)] = [ret |-> Garbage, seen |-> <<Garbage>>]
  <2>1. 8 + Rounded(wide) \in Nat /\ {tag \in info : tag.offset = 8 + Rounded(wide)} = {}
    BY ONLY <1>1, <1>2, <1>3, <1>4
  <2> DEFINE q == 8 + Rounded(wide)
  <2> HIDE DEF q
  <2>2. q \in Nat /\ {tag \in info : tag.offset = q} = {}
    BY ONLY <2>1 DEF q
  <2>3. Round(info, walk, q) = [ret |-> Garbage, seen |-> <<Garbage>>]
    BY ONLY <2>2 DEF Round
  <2> QED
    BY <1>6, <2>2, <2>3 DEF q
<1>9. /\ type = MMAP =>
           walk[8] = [walk[8 + Rounded(wide)] EXCEPT !.seen = Entries(first) \o @]
      /\ type # MMAP => walk[8] = [ret |-> -5, seen |-> <<>>]
  <2>1. walk[8] = Round(info, walk, 8)
    BY <1>6
  <2>2. (CHOOSE t \in {first} : TRUE) = first /\ first.size = wide
    BY <1>2
  <2> DEFINE rest == walk[8 + Rounded(wide)]
  <2>3. Round(info, walk, 8) =
          CASE {first} = {} -> [ret |-> Garbage, seen |-> <<Garbage>>]
            [] {first} # {} /\ first.type = END   -> [ret |-> 0, seen |-> <<>>]
            [] {first} # {} /\ first.type = MMAP  -> [rest EXCEPT !.seen = Entries(first) \o @]
            [] {first} # {} /\ first.type > 21    -> [ret |-> -5, seen |-> <<>>]
            [] {first} # {} /\ first.type \notin {END, MMAP} /\ first.type <= 21 -> rest
    BY ONLY <1>7, <2>2 DEF Round
  <2>4. {first} # {}
    OBVIOUS
  <2> HIDE DEF rest
  <2>5. CASE type = MMAP
    <3>1. first.type = 6
      BY <1>2, <2>5 DEF MMAP
    <3>2. Round(info, walk, 8) = [rest EXCEPT !.seen = Entries(first) \o @]
      BY <2>3, <2>4, <3>1 DEF END, MMAP
    <3> QED
      BY <2>1, <2>5, <3>2 DEF rest
  <2>6. CASE type # MMAP
    <3>1. first.type = 65542
      BY <1>2, <2>6 DEF MMAP, Upper
    <3> QED
      BY <2>1, <2>3, <2>4, <2>6, <3>1 DEF END, MMAP
  <2> QED
    BY <2>5, <2>6
<1>10. Walk(info) = walk[8]
  BY <1>6 DEF BasicSize
<1>11. CASE type # MMAP
  BY <1>9, <1>10, <1>11
<1>12. CASE type = MMAP
  <2> DEFINE own == Entries(first)
             n == (first.size - 16 + first.entry - 1) \div first.entry
  <2>1. \E f : own = [k \in 1 .. n |-> f[k]]
    <3> DEFINE f == [k \in 1 .. n |-> own[k]]
    <3>1. own = f
      BY DEF Entries
    <3> QED
      BY <3>1
  <2>2. n \in Int
    <3>1. first.size \in Int /\ first.entry \in Nat \ {0}
      BY <1>1, <1>2 DEF EntrySize, Upper
    <3> HIDE DEF first
    <3> QED
      BY ONLY <3>1
  <2> HIDE DEF own, n
  <2>3. Walk(info).seen = own \o <<Garbage>>
    <3> DEFINE rest == walk[8 + Rounded(wide)]
    <3>1. Walk(info) = [rest EXCEPT !.seen = own \o @] /\ rest = [ret |-> Garbage, seen |-> <<Garbage>>]
      BY <1>8, <1>9, <1>10, <1>12 DEF own
    <3> HIDE DEF rest
    <3> QED
      BY ONLY <3>1
  <2>4. \E m \in Nat : own \in [1 .. m -> {own[k] : k \in 1 .. n}]
    <3>1. PICK f : own = [k \in 1 .. n |-> f[k]]
      BY <2>1
    <3>2. CASE n >= 0
      BY <2>2, <3>1, <3>2
    <3>3. CASE n < 0
      <4>1. 1 .. n = 1 .. 0
        BY <2>2, <3>3
      <4> QED
        BY <3>1, <4>1
    <3> QED
      BY <2>2, <3>2, <3>3
  <2>5. PICK m \in Nat : own \in [1 .. m -> {own[k] : k \in 1 .. n}]
    BY <2>4
  <2>6. Len(own) = m /\ own \in Seq({own[k] : k \in 1 .. n} \cup {Garbage})
    BY <2>5
  <2>7. /\ m + 1 \in DOMAIN (own \o <<Garbage>>)
        /\ (own \o <<Garbage>>)[m + 1] = Garbage
    BY <2>6
  <2>8. Garbage \notin Desc
    BY StartupAssumption
  <2> QED
    BY <1>12, <2>3, <2>7, <2>8 DEF Strays
<1> QED
  BY <1>11, <1>12

(* Information that keeps to the specification: the map is what the walk   *)
(* sees, and it comes to the end tag.                                      *)
LEMMA OtherWalk ==
  ASSUME NEW info, info.descs \in Seq(Desc), WellFormed(info)
  PROVE  Walk(info.table).seen = info.descs
<1> DEFINE n == Cardinality(info.table)
           D == info.descs
           T == info.table
<1>1. n \in Nat
  BY FS_CardinalityType DEF WellFormed
<1> HIDE DEF n
<1>2. PICK tags \in [1 .. n -> T], m \in 1 .. n - 1 :
        /\ T = {tags[k] : k \in 1 .. n}
        /\ \A k \in 1 .. n : /\ tags[k].offset \in Nat /\ tags[k].offset % 8 = 0
                            /\ tags[k].size \in Nat \ {0}
        /\ tags[1].offset = BasicSize
        /\ \A k \in 1 .. n - 1 :
             /\ tags[k].type \in 1 .. 21
             /\ tags[k].type = MMAP <=> k = m
             /\ tags[k + 1].offset - (tags[k].offset + tags[k].size) \in 0 .. 7
        /\ tags[m].entry = EntrySize /\ tags[m].entries = D
        /\ tags[m].size = 16 + EntrySize * Len(D)
        /\ tags[n].type = END
  BY DEF WellFormed, n
<1> HIDE DEF T, D
<1> DEFINE off(k) == tags[k].offset
           Good == {d \in Nat : d + 1 <= n =>
                      /\ \A j \in 1 .. d + 1 : off(j) \in Nat
                      /\ \A j \in 1 .. d : off(j) < off(d + 1)}
<1>3. \A k \in 1 .. n - 1 : /\ Rounded(tags[k].size) \in Nat \ {0}
                            /\ off(k + 1) = off(k) + Rounded(tags[k].size)
  <2> SUFFICES ASSUME NEW k \in 1 .. n - 1
               PROVE  /\ Rounded(tags[k].size) \in Nat \ {0}
                      /\ off(k + 1) = off(k) + Rounded(tags[k].size)
    OBVIOUS
  <2>1. k \in 1 .. n /\ k + 1 \in 1 .. n
    BY ONLY <1>1
  <2>2. /\ tags[k].size \in Nat \ {0}
        /\ off(k) \in Nat /\ off(k) % 8 = 0
        /\ off(k + 1) \in Nat /\ off(k + 1) % 8 = 0
        /\ off(k + 1) - (off(k) + tags[k].size) \in 0 .. 7
    BY ONLY <1>2, <2>1
  <2> HIDE DEF off
  <2>3. /\ Rounded(tags[k].size) \in Nat
        /\ Rounded(tags[k].size) >= tags[k].size
        /\ off(k + 1) = off(k) + Rounded(tags[k].size)
    BY <2>2, RoundedIs
  <2>4. Rounded(tags[k].size) \in Nat \ {0}
    <3> DEFINE size == tags[k].size
               r == Rounded(size)
    <3>1. size \in Nat \ {0} /\ r \in Nat /\ r >= size
      BY ONLY <2>2, <2>3
    <3> HIDE DEF size, r
    <3>2. r \in Nat \ {0}
      BY ONLY <3>1
    <3> QED
      BY ONLY <3>2 DEF r, size
  <2> QED
    BY ONLY <2>3, <2>4
<1>4. off(1) = 8
  BY <1>2 DEF BasicSize
<1> HIDE DEF off
<1>5. \A d \in Nat : d \in Good
  <2>1. 0 \in Good
    BY <1>4
  <2>2. ASSUME NEW d \in Good, d + 2 <= n
        PROVE  /\ \A j \in 1 .. d + 2 : off(j) \in Nat
               /\ \A j \in 1 .. d + 1 : off(j) < off(d + 2)
    <3>1. d + 1 \in 1 .. n - 1 /\ (d + 1) + 1 = d + 2
      BY <1>1, <2>2
    <3>2. off(d + 2) = off(d + 1) + Rounded(tags[d + 1].size)
      BY <1>3, <3>1
    <3>3. Rounded(tags[d + 1].size) \in Nat \ {0}
      BY <1>3, <3>1
    <3>4. /\ d \in Nat /\ \A j \in 1 .. d + 1 : off(j) \in Nat
          /\ \A j \in 1 .. d : off(j) < off(d + 1)
      BY <1>1, <2>2
    <3>5. off(d + 2) \in Nat /\ off(d + 1) < off(d + 2)
      BY ONLY <3>2, <3>3, <3>4
    <3> QED
      BY ONLY <3>4, <3>5
  <2>3. ASSUME NEW d \in Good
        PROVE  d + 1 \in Good
    BY <1>1, <2>2
  <2>4. Good \in SUBSET Nat
    OBVIOUS
  <2> HIDE DEF Good
  <2> QED
    BY ONLY <2>1, <2>3, <2>4, Inductive
<1>6. \A k \in 1 .. n : off(k) \in Nat /\ \A j \in 1 .. k - 1 : off(j) < off(k)
  <2> SUFFICES ASSUME NEW k \in 1 .. n
               PROVE  off(k) \in Nat /\ \A j \in 1 .. k - 1 : off(j) < off(k)
    OBVIOUS
  <2>1. k \in Nat /\ k - 1 \in Nat /\ k <= n /\ (k - 1) + 1 = k
    BY ONLY <1>1
  <2>2. k - 1 \in Good
    BY ONLY <1>5, <2>1
  <2> QED
    BY ONLY <1>1, <2>1, <2>2
<1>7. \A j, k \in 1 .. n : off(j) = off(k) => j = k
  BY ONLY <1>1, <1>6
<1>8. ASSUME NEW k \in 1 .. n
      PROVE  {tag \in T : tag.offset = off(k)} = {tags[k]}
  BY <1>2, <1>7 DEF off
<1>9. \A k \in 1 .. n : off(k) <= off(n) /\ tags[k].size \in Nat \ {0}
  <2> SUFFICES ASSUME NEW k \in 1 .. n
               PROVE  off(k) <= off(n) /\ tags[k].size \in Nat \ {0}
    OBVIOUS
  <2>1. CASE k = n
    <3>1. off(n) \in Nat
      BY ONLY <1>6, <2>1
    <3>2. off(n) <= off(n)
      BY ONLY <3>1
    <3> QED
      BY <1>2, <2>1, <3>2
  <2>2. CASE k # n
    <3>1. k \in 1 .. n - 1 /\ n \in 1 .. n
      BY ONLY <1>1, <2>2
    <3>2. off(k) < off(n) /\ off(k) \in Nat /\ off(n) \in Nat
      BY ONLY <1>1, <1>6, <3>1
    <3> QED
      BY <1>2, <3>1, <3>2
  <2> QED
    BY <2>1, <2>2
<1>10. off(n) \in Nat
  <2>1. n \in 1 .. n
    BY ONLY <1>1
  <2> QED
    BY ONLY <1>6, <2>1
<1>11. PICK walk : /\ Walk(T) = walk[BasicSize]
                   /\ \A q \in Nat : walk[q] = Round(T, walk, q)
  <2>1. \A tag \in T : tag.offset \in 0 .. off(n) /\ tag.size \in Nat \ {0}
    <3> SUFFICES ASSUME NEW k \in 1 .. n
                 PROVE  tags[k].offset \in 0 .. off(n) /\ tags[k].size \in Nat \ {0}
      BY <1>2
    <3>1. off(k) \in Nat /\ off(k) <= off(n) /\ tags[k].size \in Nat \ {0}
      BY ONLY <1>6, <1>9
    <3> QED
      BY <1>10, <3>1 DEF off
  <2> QED
    BY ONLY <1>10, <2>1, WalkSteps
<1>12. ASSUME NEW k \in 1 .. n
       PROVE  LET rest == walk[off(k) + Rounded(tags[k].size)] IN
              /\ tags[k].type = END => walk[off(k)] = [ret |-> 0, seen |-> <<>>]
              /\ tags[k].type = MMAP => walk[off(k)] = [rest EXCEPT !.seen = Entries(tags[k]) \o @]
              /\ tags[k].type \in (1 .. 21) \ {MMAP} => walk[off(k)] = rest
  <2> DEFINE tag == tags[k]
             rest == walk[off(k) + Rounded(tag.size)]
  <2>1. walk[off(k)] = Round(T, walk, off(k))
    BY ONLY <1>6, <1>11
  <2>2. {t \in T : t.offset = off(k)} = {tag} /\ (CHOOSE t \in {tag} : TRUE) = tag /\ {tag} # {}
    BY <1>8
  <2> HIDE DEF tag
  <2>3. Round(T, walk, off(k)) =
          CASE {tag} = {} -> [ret |-> Garbage, seen |-> <<Garbage>>]
            [] {tag} # {} /\ tag.type = END   -> [ret |-> 0, seen |-> <<>>]
            [] {tag} # {} /\ tag.type = MMAP  -> [rest EXCEPT !.seen = Entries(tag) \o @]
            [] {tag} # {} /\ tag.type > 21    -> [ret |-> -5, seen |-> <<>>]
            [] {tag} # {} /\ tag.type \notin {END, MMAP} /\ tag.type <= 21 -> rest
    BY ONLY <2>2 DEF Round
  <2> HIDE DEF rest
  <2>4. /\ tag.type = END => walk[off(k)] = [ret |-> 0, seen |-> <<>>]
        /\ tag.type = MMAP => walk[off(k)] = [rest EXCEPT !.seen = Entries(tag) \o @]
        /\ tag.type \in (1 .. 21) \ {MMAP} => walk[off(k)] = rest
    <3>1. CASE tag.type = 0
      BY ONLY <2>1, <2>2, <2>3, <3>1 DEF END, MMAP
    <3>2. CASE tag.type = 6
      <4>1. tag.type # 0 /\ ~ (tag.type > 21)
        BY ONLY <3>2
      <4> QED
        BY ONLY <2>1, <2>2, <2>3, <3>2, <4>1 DEF END, MMAP
    <3>3. CASE tag.type \in (1 .. 21) \ {MMAP}
      <4>1. \A x \in 1 .. 21 : x # 0 /\ ~ (x > 21) /\ x <= 21
        OBVIOUS
      <4>2. tag.type \in 1 .. 21 /\ tag.type # MMAP
        BY ONLY <3>3
      <4>3. tag.type # END /\ tag.type # MMAP /\ ~ (tag.type > 21) /\ tag.type <= 21
        BY ONLY <4>1, <4>2 DEF END
      <4> QED
        BY ONLY <2>1, <2>2, <2>3, <3>3, <4>3
    <3> QED
      BY ONLY <3>1, <3>2, <3>3 DEF END, MMAP
  <2> QED
    BY ONLY <2>4 DEF rest, tag
<1> DEFINE Back == {d \in Nat : d < n =>
                      walk[off(n - d)] = [ret |-> 0, seen |-> IF n - d <= m THEN D ELSE <<>>]}
<1>13. \A d \in Nat : d \in Back
  <2>1. 0 \in Back
    <3>1. n \in 1 .. n /\ n - 0 = n /\ ~ (n <= m)
      BY ONLY <1>1
    <3>2. walk[off(n)] = [ret |-> 0, seen |-> <<>>]
      BY <1>2, <1>12, <3>1
    <3> HIDE DEF off
    <3> QED
      BY <3>1, <3>2
  <2>2. ASSUME NEW d \in Back, d + 1 < n
        PROVE  walk[off(n - (d + 1))] =
                 [ret |-> 0, seen |-> IF n - (d + 1) <= m THEN D ELSE <<>>]
    <3> DEFINE k == n - (d + 1)
               tag == tags[k]
               rest == walk[off(k + 1)]
    <3>1. k \in 1 .. n - 1 /\ k \in 1 .. n /\ k + 1 = n - d /\ d < n
      BY ONLY <1>1, <2>2
    <3>2. rest = [ret |-> 0, seen |-> IF k + 1 <= m THEN D ELSE <<>>]
      BY <2>2, <3>1
    <3>3. off(k + 1) = off(k) + Rounded(tag.size)
      BY ONLY <1>3, <3>1
    <3>4. /\ tag.type = MMAP => walk[off(k)] = [rest EXCEPT !.seen = Entries(tag) \o @]
          /\ tag.type \in (1 .. 21) \ {MMAP} => walk[off(k)] = rest
      BY ONLY <1>12, <3>1, <3>3
    <3>5. tag.type \in 1 .. 21 /\ (tag.type = MMAP <=> k = m)
      BY ONLY <1>2, <3>1
    <3> HIDE DEF rest, k
    <3>6. CASE k = m
      <4>1. tag.entries = D /\ tag.entry = EntrySize /\ tag.size = 16 + EntrySize * Len(D)
        BY ONLY <1>2, <3>6
      <4>2. D \in Seq(Desc)
        BY DEF D
      <4>3. Entries(tag) = D
        BY ONLY <4>1, <4>2, EntriesIs
      <4>4. D \o <<>> = D
        BY <4>2
      <4>5. rest = [ret |-> 0, seen |-> <<>>]
        BY ONLY <1>1, <3>1, <3>2, <3>6
      <4>6. walk[off(k)] = [rest EXCEPT !.seen = D \o @]
        BY ONLY <3>4, <3>5, <3>6, <4>3
      <4>7. walk[off(k)] = [ret |-> 0, seen |-> D]
        BY ONLY <4>4, <4>5, <4>6
      <4>8. k <= m
        BY ONLY <3>1, <3>6
      <4> QED
        BY ONLY <4>7, <4>8 DEF k
    <3>7. CASE k # m
      <4>1. walk[off(k)] = rest
        BY ONLY <3>4, <3>5, <3>7
      <4>2. (k + 1 <= m) = (k <= m)
        BY ONLY <3>1, <3>7, <1>1
      <4> QED
        BY ONLY <3>2, <4>1, <4>2 DEF k
    <3> QED
      BY ONLY <3>6, <3>7
  <2>3. ASSUME NEW d \in Back
        PROVE  d + 1 \in Back
    BY ONLY <2>2, <2>3
  <2>4. Back \in SUBSET Nat
    OBVIOUS
  <2> HIDE DEF Back
  <2> QED
    BY ONLY <2>1, <2>3, <2>4, Inductive
<1>14. n - 1 \in Back /\ n - 1 < n /\ n - (n - 1) = 1 /\ 1 <= m
  BY ONLY <1>1, <1>13
<1>15. walk[off(1)] = [ret |-> 0, seen |-> D]
  BY ONLY <1>14
<1>16. Walk(T).seen = D
  BY ONLY <1>4, <1>11, <1>15 DEF BasicSize
<1> QED
  BY <1>16 DEF T, D

-----------------------------------------------------------------------------
(* The inductive invariant *)

(* The loader: what the BIOS reported is in descs, and then in the table;  *)
(* another loader's information is as the assumption has it.               *)
MapInv ==
  /\ descs \in Seq(Desc)
  /\ at \in {"fbl", "ext", "read"} => descs = <<>>
  /\ at = "mm" => Len(descs) < MaxDesc
  /\ at \in {"end", "load"} => Len(descs) \in 1 .. MaxDesc
  /\ at = "load" => table = OwnTable
  /\ at = "main" => \E info \in OtherInfo : table = info.table /\ descs = info.descs
  /\ at = "mp_search" => seen = IF handed = "ok" THEN descs ELSE <<>>

(* Where a valid structure is: nowhere before the area that mp_search is   *)
(* in; and when it is done, it has one, if there is one.                   *)
ValidIn(a) == {k \in DOMAIN machine.areas[a] : FpsValid(machine.areas[a], k)}
Found(place) == \E a \in 1 .. 3 : \E k \in ValidIn(a) : place = machine.areas[a][k]
NoneValid == \A a \in 1 .. 3 : ValidIn(a) = {}

SearchInv ==
  /\ machine \in Machine
  /\ at = "main" => area = 1
  /\ at = "mp_search" => \A a \in 1 .. area - 1 : ValidIn(a) = {}
  /\ at = "mp_config" => \/ fps = {} /\ NoneValid
                         \/ \E place : fps = {place} /\ Found(place)
  /\ at = "wild" /\ reads = 0 =>
       \/ NoneValid
       \/ \E place : Found(place) /\ ~ (place.phys /\ ConfValid(machine.conf))

(* The loop over the entries has the identifiers of the processors so far, *)
(* each at its rank, up to the limit.                                      *)
EntriesInv ==
  /\ cpus \in Seq(Nat)
  /\ at \notin {"mp_init", "apic", "pic"} => i = 0 /\ p = 1 /\ cpus = <<>>
  /\ at = "mp_init" => /\ i \in 0 .. Len(machine.conf.entries) /\ p \in 1 .. i + 1
                       /\ \A k \in 1 .. p - 1 : Known(k)
                       /\ p <= i => ~ Known(p)
  /\ at \in {"apic", "pic"} => i = Len(machine.conf.entries)
  /\ at \in {"mp_init", "apic", "pic"} =>
       /\ Len(cpus) = Min({Rank(i), MaxCpu})
       /\ \A k \in Processors :
            k <= i /\ Rank(k) <= MaxCpu => cpus[Rank(k)] = machine.conf.entries[k].id

StartupInv == Types /\ MapInv /\ SearchInv /\ EntriesInv

-----------------------------------------------------------------------------
(* The structure *)

(* A string is equal, to strcmp, to what it begins with. *)
LEMMA StrcmpPrefix ==
  ASSUME NEW s \in Seq(Nat), NEW t \in Seq(Nat), Len(t) > 0, IsPrefix(t, s)
  PROVE  Strcmp(s, t) = 0
<1>1. Len(s) \in Nat /\ Len(t) \in Nat /\ Len(t) <= Len(s)
  BY DEF IsPrefix
<1>2. Min({Len(s), Len(t)}) = Len(t)
  BY <1>1, MinOfTwo
<1> DEFINE diffs == {k \in 0 .. Len(t) - 1 : CharAt(s, k) # CharAt(t, k)}
<1>3. diffs = {}
  <2> SUFFICES ASSUME NEW k \in 0 .. Len(t) - 1
               PROVE  CharAt(s, k) = CharAt(t, k)
    OBVIOUS
  <2>1. k < Len(t) /\ k < Len(s) /\ k + 1 \in 1 .. Len(t)
    BY <1>1
  <2>2. SubSeq(t, 1, Len(t))[k + 1] = t[k + 1] /\ SubSeq(s, 1, Len(t))[k + 1] = s[k + 1]
    BY <1>1, <2>1
  <2>3. s[k + 1] = t[k + 1]
    BY <2>2 DEF IsPrefix
  <2> QED
    BY <2>1, <2>3 DEF CharAt
<1> HIDE DEF diffs
<1>4. Len(t) # 0
  BY <1>1
<1> QED
  BY <1>2, <1>3, <1>4 DEF Strcmp, diffs

(* The sum of a structure of one unit is that of its place. *)
LEMMA SumOfOne ==
  ASSUME NEW places \in Seq(Place), NEW k \in DOMAIN places
  PROVE  SumOf(places, k, 1) = places[k].sum
<1>1. k \in Nat /\ k >= 1 /\ k <= Len(places) /\ Len(places) \in Nat /\ places[k] \in Place
  OBVIOUS
<1>2. k + 1 - 1 = k /\ Min({k, Len(places)}) = k
  BY <1>1, MinOfTwo
<1> DEFINE seq == SubSeq(places, k, k)
           sum == places[k].sum
<1>3. DOMAIN seq = {1} /\ seq[1] = places[k]
  BY <1>1
<1>4. (0 + sum) % 256 = sum
  <2>1. sum \in 0 .. 255
    BY <1>1 DEF Place
  <2> HIDE DEF sum
  <2> QED
    BY <2>1
<1> HIDE DEF seq
<1> DEFINE iter[s \in SUBSET (DOMAIN seq)] ==
             IF s = {} THEN 0 ELSE (iter[s \ {Max(s)}] + seq[Max(s)].sum) % 256
           Value(h, s) == IF s = {} THEN 0 ELSE (h[s \ {Max(s)}] + seq[Max(s)].sum) % 256
           h == [s \in SUBSET (DOMAIN seq) |-> IF s = {} THEN 0 ELSE sum]
<1>5. Max({1}) = 1
  BY DEF Max
<1>6. h = [s \in SUBSET (DOMAIN seq) |-> Value(h, s)]
  <2>1. ASSUME NEW s \in SUBSET (DOMAIN seq), s # {}
        PROVE  Value(h, s) = sum
    <3>1. s = {1} /\ s \ {Max(s)} = {} /\ {} \in SUBSET (DOMAIN seq)
      BY <1>3, <1>5, <2>1
    <3>2. Max(s) = 1 /\ h[{}] = 0
      BY <1>5, <3>1
    <3> HIDE DEF h
    <3> QED
      BY <1>3, <1>4, <2>1, <3>1, <3>2
  <2>2. ASSUME NEW s \in SUBSET (DOMAIN seq)
        PROVE  (IF s = {} THEN 0 ELSE sum) = Value(h, s)
    <3> HIDE DEF h, sum
    <3> QED
      BY <2>1
  <2> HIDE DEF Value
  <2>3. [s \in SUBSET (DOMAIN seq) |-> IF s = {} THEN 0 ELSE sum]
          = [s \in SUBSET (DOMAIN seq) |-> Value(h, s)]
    BY <2>2
  <2> QED
    BY <2>3
<1>7. iter = [s \in SUBSET (DOMAIN seq) |-> Value(iter, s)]
  <2> HIDE DEF h
  <2> QED
    BY <1>6
<1>8. SumOf(places, k, 1) = iter[DOMAIN seq]
  <2>1. SubSeq(places, k, Min({k + 1 - 1, Len(places)})) = seq
    BY <1>2 DEF seq
  <2>2. FoldLeft(LAMBDA acc, place : (acc + place.sum) % 256, 0, seq) = iter[DOMAIN seq]
    BY DEF FoldLeft, MapThenFoldSet
  <2> HIDE DEF iter
  <2> QED
    BY <2>1, <2>2 DEF SumOf
<1> HIDE DEF iter
<1>9. iter[{1}] = (iter[{}] + seq[1].sum) % 256 /\ iter[{}] = 0
  <2>1. {1} \in SUBSET (DOMAIN seq) /\ {} \in SUBSET (DOMAIN seq) /\ {1} # {}
    BY <1>3
  <2>2. {1} \ {1} = {}
    OBVIOUS
  <2>3. iter[{1}] = Value(iter, {1}) /\ iter[{}] = Value(iter, {})
    <3> HIDE DEF Value
    <3> QED
      BY ONLY <1>7, <2>1
  <2>4. Value(iter, {1}) = (iter[{1} \ {Max({1})}] + seq[Max({1})].sum) % 256
    BY ONLY <2>1
  <2>5. Value(iter, {}) = 0
    OBVIOUS
  <2> QED
    BY ONLY <1>5, <2>2, <2>3, <2>4, <2>5
<1> QED
  BY <1>3, <1>4, <1>8, <1>9

(* What the specification describes is valid to mp_validate. *)
LEMMA GenuineIsValid ==
  ASSUME NEW places \in Seq(Place), NEW k \in DOMAIN places, Genuine(places, k)
  PROVE  FpsValid(places, k)
<1>1. places[k] \in Place
  OBVIOUS
<1>2. places[k].text \in Seq(Nat)
  BY <1>1 DEF Place
<1>3. FpsSig \in Seq(Nat) /\ Len(FpsSig) = 4
  BY DEF FpsSig
<1>4. Strcmp(places[k].text, FpsSig) = 0
  <2>1. IsPrefix(FpsSig, places[k].text) /\ Len(FpsSig) > 0
    BY <1>3 DEF Genuine
  <2> QED
    BY ONLY <1>2, <1>3, <2>1, StrcmpPrefix
<1>5. SumOf(places, k, places[k].units) = 0
  BY SumOfOne DEF Genuine
<1> QED
  BY <1>4, <1>5 DEF FpsValid

LEMMA ConfSigIsValid == Strcmp(ConfSig, ConfSig) = 0
<1>1. ConfSig \in Seq(Nat) /\ Len(ConfSig) = 4
  BY DEF ConfSig
<1>2. IsPrefix(ConfSig, ConfSig)
  BY <1>1 DEF IsPrefix
<1>3. Len(ConfSig) > 0
  BY <1>1
<1> QED
  BY ONLY <1>1, <1>2, <1>3, StrcmpPrefix

-----------------------------------------------------------------------------
(* The ranks of processors *)

LEMMA RankIs ==
  ASSUME machine \in Machine
  PROVE  /\ IsFiniteSet(Processors) /\ Processors \subseteq 1 .. Len(machine.conf.entries)
         /\ \A n \in Nat : Rank(n) \in Nat
         /\ Rank(0) = 0
         /\ Rank(Len(machine.conf.entries)) = Cardinality(Processors)
         /\ \A n \in Nat : Rank(n + 1) = IF n + 1 \in Processors THEN Rank(n) + 1 ELSE Rank(n)
         /\ \A n \in Nat : \A k \in Processors : k <= n => Rank(k) \in 1 .. Rank(n)
<1> DEFINE n == Len(machine.conf.entries)
           Upto(k) == {j \in Processors : j <= k}
<1>1. n \in Nat /\ \A k \in Processors : k \in 1 .. n /\ k \in Nat /\ k >= 1 /\ k <= n
  <2>1. machine.conf.entries \in Seq(Entry)
    BY StartupAssumption
  <2> QED
    BY <2>1 DEF Processors
<1> HIDE DEF n
<1>2. IsFiniteSet(Processors)
  <2>1. IsFiniteSet(1 .. n) /\ Processors \in SUBSET (1 .. n)
    BY <1>1, FS_Interval
  <2> QED
    BY <2>1, FS_Subset
<1>3. ASSUME NEW k \in Nat
      PROVE  IsFiniteSet(Upto(k)) /\ Rank(k) = Cardinality(Upto(k)) /\ Rank(k) \in Nat
  <2>1. Upto(k) \in SUBSET Processors
    OBVIOUS
  <2>2. IsFiniteSet(Upto(k))
    BY <1>2, <2>1, FS_Subset
  <2> QED
    BY <2>2, FS_CardinalityType DEF Rank
<1>4. Rank(0) = 0
  <2>1. Upto(0) = {}
    BY <1>1
  <2> QED
    BY <1>3, <2>1, FS_EmptySet
<1>5. Rank(n) = Cardinality(Processors)
  <2>1. Upto(n) = Processors
    BY <1>1
  <2> QED
    BY <1>1, <1>3, <2>1
<1>6. ASSUME NEW k \in Nat
      PROVE  Rank(k + 1) = IF k + 1 \in Processors THEN Rank(k) + 1 ELSE Rank(k)
  <2>1. k + 1 \in Nat /\ k + 1 \notin Upto(k)
    BY <1>1
  <2>2. CASE k + 1 \in Processors
    <3>1. Upto(k + 1) = Upto(k) \cup {k + 1}
      <4>1. \A j \in Nat : j <= k + 1 <=> j <= k \/ j = k + 1
        OBVIOUS
      <4> QED
        BY <1>1, <2>1, <2>2, <4>1
    <3>2. Cardinality(Upto(k) \cup {k + 1}) = Cardinality(Upto(k)) + 1
      BY <1>3, <2>1, FS_AddElement
    <3> QED
      BY <1>3, <2>1, <2>2, <3>1, <3>2
  <2>3. CASE k + 1 \notin Processors
    <3>1. Upto(k + 1) = Upto(k)
      <4>1. \A j \in Nat : j <= k + 1 <=> j <= k \/ j = k + 1
        OBVIOUS
      <4> QED
        BY <1>1, <2>3, <4>1
    <3> QED
      BY <1>3, <2>1, <2>3, <3>1
  <2> QED
    BY <2>2, <2>3
<1>7. ASSUME NEW m \in Nat, NEW k \in Processors, k <= m
      PROVE  Rank(k) \in 1 .. Rank(m)
  <2>1. k \in Nat /\ k \in Upto(k) /\ Upto(k) \in SUBSET Upto(m)
    <3>1. k \in Nat /\ k <= k
      BY <1>1
    <3>2. \A j \in Nat : j <= k => j <= m
      BY <1>7, <3>1
    <3> QED
      BY <1>1, <3>1, <3>2
  <2>2. Rank(k) <= Rank(m)
    <3>1. IsFiniteSet(Upto(m)) /\ Rank(k) = Cardinality(Upto(k)) /\ Rank(m) = Cardinality(Upto(m))
      BY <1>3, <2>1
    <3> HIDE DEF Upto
    <3> QED
      BY <2>1, <3>1, FS_Subset
  <2>3. Rank(k) # 0
    <3>1. IsFiniteSet(Upto(k)) /\ Rank(k) = Cardinality(Upto(k)) /\ Upto(k) # {}
      BY <1>3, <2>1
    <3> QED
      BY ONLY <3>1, FS_EmptySet
  <2>4. Rank(k) \in Nat /\ Rank(m) \in Nat
    BY <1>3, <2>1
  <2> QED
    BY ONLY <2>2, <2>3, <2>4
<1> QED
  BY <1>1, <1>2, <1>3, <1>4, <1>5, <1>6, <1>7 DEF n

-----------------------------------------------------------------------------
(* The theorems *)

(* A structure that mp_search can find leads to a configuration, if there  *)
(* is a genuine one and no place only looks like one.                      *)
LEMMA FoundIsGenuine ==
  ASSUME machine \in Machine, NoDecoys, GenuineSomewhere
  PROVE  ~ NoneValid /\ \A place : Found(place) => place.phys
<1>1. \A a \in 1 .. 3 : machine.areas[a] \in Seq(Place)
  BY StartupAssumption
<1>2. PICK a \in 1 .. 3 : \E k \in DOMAIN machine.areas[a] : Genuine(machine.areas[a], k)
  BY DEF GenuineSomewhere
<1>3. PICK k \in DOMAIN machine.areas[a] : Genuine(machine.areas[a], k)
  BY <1>2
<1>4. FpsValid(machine.areas[a], k)
  BY <1>1, <1>3, GenuineIsValid
<1>5. ~ NoneValid
  BY <1>4 DEF NoneValid, ValidIn
<1>6. ASSUME NEW b \in 1 .. 3, NEW j \in ValidIn(b)
      PROVE  machine.areas[b][j].phys
  BY DEF ValidIn, NoDecoys, Genuine
<1> QED
  BY <1>5, <1>6 DEF Found

(* MapInv is about the loader's half and the walk over the information. *)
LEMMA MapSteps ==
  ASSUME Types, MapInv, [Next]_vars
  PROVE  MapInv'
<1> USE DEF MapInv
<1>1. MaxDesc \in Nat \ {0} /\ Len(descs) \in Nat
  BY StartupAssumption
<1>2. CASE DiskInfos
  BY <1>2 DEF DiskInfos, Goto, loading, OwnTable
<1>3. CASE DiskExtInfos
  BY <1>3 DEF DiskExtInfos, Goto, OwnTable
<1>4. CASE DiskRead
  <2>1. descs = <<>> /\ UNCHANGED descs
    BY <1>4 DEF DiskRead, loading
  <2>2. Len(<<>>) = 0
    OBVIOUS
  <2> QED
    BY <1>1, <1>4, <2>1, <2>2 DEF DiskRead, Goto
<1>5. CASE \E desc \in Desc : Detect(desc)
  <2>1. PICK desc \in Desc : Detect(desc)
    BY <1>5
  <2>2. descs' \in Seq(Desc) /\ Len(descs') = Len(descs) + 1
    BY <2>1 DEF Detect
  <2>3. /\ Len(descs') \in 1 .. MaxDesc
        /\ \/ at' = "mm" /\ Len(descs') < MaxDesc
           \/ at' = "end"
    BY <1>1, <2>1, <2>2 DEF Detect, Goto
  <2> QED
    BY <2>2, <2>3
<1>6. CASE DetectFails
  BY <1>6 DEF DetectFails, Goto, loading
<1>7. CASE EndTag
  <2>1. /\ descs' = descs /\ junk' = junk /\ at = "end" /\ at' = "load"
        /\ table' = OwnTable
    BY <1>7 DEF EndTag, Goto
  <2>2. table' = OwnTable'
    BY <2>1 DEF OwnTable, MapSize, High
  <2> QED
    BY <2>1, <2>2
<1>8. CASE Load
  <2>1. /\ descs' = descs /\ junk' = junk /\ table' = table
        /\ at = "load" /\ at' \in {"load", "stuck", "wild"}
    BY <1>8 DEF Load, Goto
  <2>2. OwnTable' = OwnTable
    BY <2>1 DEF OwnTable, MapSize, High
  <2> QED
    BY <2>1, <2>2
<1>9. CASE ParseMultiboot
  <2>1. PICK info \in OtherInfo : table = info.table /\ descs = info.descs
    BY <1>9 DEF ParseMultiboot
  <2>2. Walk(table).seen = descs
    <3>1. info.descs \in Seq(Desc) /\ WellFormed(info)
      BY StartupAssumption
    <3> QED
      BY <2>1, <3>1, OtherWalk
  <2>3. descs' = descs /\ handed' = handed /\ at' = "mp_search" /\ seen' = Parsed.seen
    BY <1>9 DEF ParseMultiboot, Goto, loading
  <2>4. Parsed.seen = IF handed = "ok" THEN descs ELSE <<>>
    BY <2>2 DEF Parsed, Types
  <2> QED
    BY <2>3, <2>4
<1>10. ASSUME descs' = descs, seen' = seen, handed' = handed,
              at' \in {"mp_search", "mp_config", "mp_init", "wild", "apic", "pic"},
              at' = "mp_search" => at = "mp_search"
       PROVE  MapInv'
  BY <1>10
<1>11. CASE MpParse
  BY <1>10, <1>11 DEF MpParse, Goto, loading
<1>12. CASE MpConfig
  BY <1>10, <1>12 DEF MpConfig, Goto, loading
<1>13. CASE MpProcessor
  BY <1>10, <1>13 DEF MpProcessor, MoreEntries, loading
<1>14. CASE MpOther
  BY <1>10, <1>14 DEF MpOther, MoreEntries, loading
<1>15. CASE MpDone
  BY <1>10, <1>15 DEF MpDone, Goto, loading
<1>17. CASE MpUnknown
  BY <1>10, <1>17 DEF MpUnknown, MoreEntries, loading
<1>16. CASE UNCHANGED vars
  BY <1>16 DEF vars, loading, OwnTable, MapSize, High
<1> QED
  BY <1>2, <1>3, <1>4, <1>5, <1>6, <1>7, <1>8, <1>9, <1>11, <1>12, <1>13, <1>14, <1>15,
     <1>16, <1>17 DEF Next

(* SearchInv is about mp_search and mp_config. *)
LEMMA SearchSteps ==
  ASSUME Types, SearchInv, [Next]_vars
  PROVE  SearchInv'
<1> USE DEF SearchInv
<1>1. machine' = machine
  BY DEF Next, vars, mp, DiskInfos, DiskExtInfos, DiskRead, Detect, DetectFails, EndTag, Load,
         ParseMultiboot, MpParse, MpConfig, MpProcessor, MpOther, MpUnknown, MpDone
<1>2. /\ \A a : ValidIn(a)' = ValidIn(a)
      /\ NoneValid' = NoneValid
      /\ \A place : Found(place)' = Found(place)
  BY <1>1 DEF ValidIn, NoneValid, Found
<1>3. area \in 1 .. 3 /\ reads \in 0 .. 2
  BY DEF Types
<1>4. CASE DiskInfos \/ DiskExtInfos \/ DiskRead \/ (\E desc \in Desc : Detect(desc))
           \/ DetectFails \/ EndTag \/ MpProcessor \/ MpOther \/ MpUnknown \/ MpDone
  <2>1. at' \notin {"main", "mp_search", "mp_config", "wild"}
    BY <1>4 DEF DiskInfos, DiskExtInfos, DiskRead, Detect, DetectFails, EndTag,
                MpProcessor, MpOther, MpUnknown, MpDone, MoreEntries, Goto
  <2> QED
    BY <1>1, <2>1
<1>5. CASE Load
  <2>1. at' \in {"load", "stuck", "wild"} /\ (at' = "wild" => reads' = 2)
    BY <1>5 DEF Load, Goto
  <2> QED
    BY <1>1, <2>1
<1>6. CASE ParseMultiboot
  <2>1. at' = "mp_search" /\ area' = area /\ area = 1
    BY <1>6 DEF ParseMultiboot, Goto, mp
  <2> QED
    BY <1>1, <2>1
<1>7. CASE MpParse
  <2> DEFINE places == machine.areas[area]
             valid == ValidIn(area)
  <2>1. /\ at = "mp_search"
        /\ IF valid # {} THEN fps' = {places[Min(valid)]} ELSE fps' = {}
        /\ IF valid # {} \/ area = 3
           THEN at' = "mp_config" /\ UNCHANGED area
           ELSE area' = area + 1 /\ UNCHANGED at
    BY <1>7 DEF MpParse, Goto, ValidIn
  <2>2. \A a \in 1 .. area - 1 : ValidIn(a) = {}
    BY <2>1
  <2>3. CASE valid # {}
    <3>1. valid \in SUBSET Nat
      <4>1. machine.areas[area] \in Seq(Place)
        BY <1>3, StartupAssumption
      <4>2. DOMAIN machine.areas[area] \in SUBSET Nat
        BY <4>1
      <4> QED
        BY <4>2 DEF ValidIn
    <3>2. Min(valid) \in valid
      BY <2>3, <3>1, MinIs
    <3>3. Found(places[Min(valid)])
      BY <1>3, <3>2 DEF Found
    <3>4. fps' = {places[Min(valid)]} /\ at' = "mp_config"
      BY <2>1, <2>3
    <3> HIDE DEF places, valid
    <3> QED
      BY <1>1, <1>2, <3>3, <3>4
  <2>4. CASE valid = {} /\ area = 3
    <3>1. NoneValid
      BY <2>2, <2>4 DEF NoneValid
    <3> QED
      BY <1>1, <1>2, <2>1, <2>4, <3>1
  <2>5. CASE valid = {} /\ area # 3
    <3>1. area' = area + 1 /\ at' = "mp_search"
      BY <2>1, <2>5
    <3>2. \A a \in 1 .. area : ValidIn(a) = {}
      BY <1>3, <2>2, <2>5
    <3>3. \A a \in 1 .. area' - 1 : ValidIn(a)' = {}
      BY <1>2, <1>3, <3>1, <3>2
    <3> QED
      BY <1>1, <3>1, <3>3
  <2> QED
    BY <2>3, <2>4, <2>5
<1>8. CASE MpConfig
  <2>1. /\ at = "mp_config" /\ reads' = reads
        /\ IF (\E f \in fps : f.phys) /\ ConfValid(machine.conf)
           THEN at' = "mp_init" ELSE at' = "wild"
    BY <1>8 DEF MpConfig, Goto, loading
  <2>2. ConfValid(machine.conf)' = ConfValid(machine.conf)
    BY <1>1 DEF ConfValid
  <2>3. CASE fps = {} /\ NoneValid
    BY <1>1, <1>2, <2>1, <2>3
  <2>4. CASE \E place : fps = {place} /\ Found(place)
    BY <1>1, <1>2, <2>1, <2>2, <2>4
  <2> QED
    BY <2>1, <2>3, <2>4
<1>9. CASE UNCHANGED vars
  <2>1. UNCHANGED <<at, reads, area, fps>>
    BY <1>9 DEF vars, loading, mp
  <2>2. ConfValid(machine.conf)' = ConfValid(machine.conf)
    BY <1>1 DEF ConfValid
  <2> QED
    BY <1>1, <1>2, <2>1, <2>2
<1> QED
  BY <1>4, <1>5, <1>6, <1>7, <1>8, <1>9 DEF Next

(* EntriesInv is about mp_init. *)
LEMMA EntriesSteps ==
  ASSUME Types, machine \in Machine, EntriesInv, [Next]_vars
  PROVE  EntriesInv'
<1> USE DEF EntriesInv
<1> DEFINE entries == machine.conf.entries
           n == Len(entries)
<1>1. machine' = machine
  BY DEF Next, vars, mp, DiskInfos, DiskExtInfos, DiskRead, Detect, DetectFails, EndTag, Load,
         ParseMultiboot, MpParse, MpConfig, MpProcessor, MpOther, MpUnknown, MpDone
<1>2. Processors' = Processors /\ (\A k : Rank(k)' = Rank(k)) /\ \A k : Known(k)' = Known(k)
  BY <1>1 DEF Processors, Rank, Known
<1>3. entries \in Seq(Entry) /\ n \in Nat /\ MaxCpu \in Nat \ {0}
  BY StartupAssumption
<1>4. \A k \in 1 .. n : entries[k] \in Entry /\ entries[k].id \in Nat
  <2>1. \A k \in 1 .. n : entries[k] \in Entry
    BY <1>3
  <2> QED
    BY <2>1 DEF Entry
<1>5. CASE UNCHANGED <<i, p, cpus>> /\ (at' \in {"mp_init", "apic", "pic"} => at' = at)
  <2>1. CASE at \in {"mp_init", "apic", "pic"} \/ at' \notin {"mp_init", "apic", "pic"}
    <3>1. CASE at' \in {"mp_init", "apic", "pic"}
      BY <1>1, <1>2, <1>5, <3>1
    <3>2. CASE at' \notin {"mp_init", "apic", "pic"} /\ at \notin {"mp_init", "apic", "pic"}
      BY <1>1, <1>5, <3>2
    <3>3. CASE at' \notin {"mp_init", "apic", "pic"} /\ at \in {"mp_init", "apic", "pic"}
      BY <3>3 DEF Next, vars, DiskInfos, DiskExtInfos, DiskRead, Detect, DetectFails, EndTag, Load,
           ParseMultiboot, MpParse, MpConfig, MpProcessor, MpOther, MpUnknown, MpDone, MoreEntries, Goto
    <3> QED
      BY <2>1, <3>1, <3>2, <3>3
  <2> QED
    BY <1>5, <2>1
<1>6. CASE DiskInfos \/ DiskExtInfos \/ DiskRead \/ (\E desc \in Desc : Detect(desc))
           \/ DetectFails \/ EndTag \/ Load \/ ParseMultiboot \/ MpParse
  <2>1. UNCHANGED <<i, p, cpus>> /\ at' \notin {"mp_init", "apic", "pic"}
    BY <1>6 DEF mp, DiskInfos, DiskExtInfos, DiskRead, Detect, DetectFails, EndTag, Load,
                ParseMultiboot, MpParse, Goto
  <2> QED
    BY <1>5, <2>1
<1>7. CASE MpConfig
  <2>1. UNCHANGED <<i, p, cpus>> /\ at = "mp_config" /\ at' \in {"mp_init", "wild"}
    BY <1>7 DEF MpConfig, Goto, mp
  <2>2. i = 0 /\ p = 1 /\ cpus = <<>> /\ Len(<<>>) = 0
    BY <2>1
  <2>3. Rank(0) = 0 /\ \A k \in Processors : ~ (k <= 0)
    BY RankIs
  <2>4. Min({0, MaxCpu}) = 0
    BY <1>3, MinOfTwo
  <2>5. cpus' \in Seq(Nat) /\ i' = 0 /\ p' = 1 /\ cpus' = <<>> /\ Len(cpus') = 0
    BY <2>1, <2>2
  <2>6. CASE at' = "wild"
    BY <2>5, <2>6
  <2>7. CASE at' = "mp_init"
    <3>1. /\ i' \in 0 .. Len(machine'.conf.entries) /\ p' \in 1 .. i' + 1
          /\ \A k \in 1 .. p' - 1 : Known(k)'
          /\ ~ (p' <= i')
      BY <1>1, <1>3, <2>5
    <3>2. Rank(i)' = 0
      BY <1>2, <2>3, <2>5
    <3>3. (Len(cpus) = Min({Rank(i), MaxCpu}))'
      BY <2>4, <2>5, <3>2
    <3>4. \A k \in Processors' : ~ (k <= i')
      BY <1>2, <2>3, <2>5
    <3> QED
      BY <2>5, <2>7, <3>1, <3>3, <3>4
  <2> QED
    BY <2>1, <2>6, <2>7
<1>8. CASE MpProcessor \/ MpOther \/ MpUnknown
  <2>1. /\ at = "mp_init" /\ at' = at /\ i < n
        /\ i' = i + 1 /\ i \in 0 .. n /\ p \in 1 .. i + 1
        /\ \A k \in 1 .. p - 1 : Known(k)
        /\ p <= i => ~ Known(p)
        /\ p' = IF Known(p) THEN p + 1 ELSE p
    BY <1>8 DEF MpProcessor, MpOther, MpUnknown, MoreEntries, EntryHere, Known
  <2>2. i \in Nat /\ i + 1 \in 1 .. n
    BY <1>3, <2>1
  <2> DEFINE r == Rank(i)
             next == Rank(i + 1)
  <2>3. r \in Nat /\ next = IF i + 1 \in Processors THEN r + 1 ELSE r
    BY <2>2, RankIs
  <2>4. Len(cpus) = Min({r, MaxCpu})
    BY <2>1
  <2>5. \A k \in Processors : k <= i => Rank(k) \in 1 .. r
    BY <2>2, RankIs
  <2>6. \A k \in Processors : k \in 1 .. n
    BY RankIs
  <2>7. \A k \in Processors : k <= i /\ Rank(k) <= MaxCpu => cpus[Rank(k)] = entries[k].id
    BY <2>1
  <2> HIDE DEF r
  <2>8. Min({r, MaxCpu}) = IF r <= MaxCpu THEN r ELSE MaxCpu
    BY <1>3, <2>3, MinOfTwo
  <2>9. /\ i + 1 \in Processors <=> MpProcessor
        /\ i + 1 \in Processors => p = i + 1
    <3>1. CASE Known(p)
      <4>1. p = i + 1
        BY <2>1, <2>2, <3>1
      <4>2. \A k \in 1 .. i + 1 : Known(k)
        BY <2>1, <2>2, <3>1, <4>1
      <4>3. i + 1 \in Processors <=> EntryHere.type = "proc"
        BY <1>3, <2>2, <4>1, <4>2 DEF Processors, EntryHere
      <4> QED
        BY <1>8, <4>1, <4>3 DEF MpProcessor, MpOther, MpUnknown, SteppedOver
    <3>2. CASE ~ Known(p)
      <4>1. i + 1 \notin Processors
        BY <2>1, <3>2 DEF Processors
      <4>2. EntryHere.type # "proc"
        BY <3>2 DEF Known, EntryHere
      <4> QED
        BY <4>1, <4>2 DEF MpProcessor
    <3> QED
      BY <3>1, <3>2
  <2>10. next \in Nat /\ Min({next, MaxCpu}) = IF next <= MaxCpu THEN next ELSE MaxCpu
    BY <1>3, <2>3, MinOfTwo
  <2>11. /\ cpus' \in Seq(Nat)
         /\ Len(cpus') = Min({next, MaxCpu})
         /\ \A k \in 1 .. Len(cpus) : cpus'[k] = cpus[k]
         /\ i + 1 \in Processors /\ next <= MaxCpu => cpus'[next] = entries[i + 1].id
    <3>1. CASE i + 1 \in Processors /\ ~ Full
      <4>1. cpus' = Append(cpus, entries[i + 1].id) /\ entries[i + 1].id \in Nat
        BY <1>4, <2>1, <2>2, <2>9, <3>1 DEF MpProcessor, EntryHere
      <4>2. Len(cpus) = r /\ next = r + 1 /\ next <= MaxCpu
        BY <1>3, <2>3, <2>4, <2>8, <3>1 DEF Full
      <4> HIDE DEF next
      <4> QED
        BY <2>3, <2>10, <4>1, <4>2
    <3>2. CASE i + 1 \in Processors /\ Full
      <4>1. cpus' = cpus
        BY <2>9, <3>2 DEF MpProcessor
      <4>2. Len(cpus) = MaxCpu /\ next = r + 1 /\ r >= MaxCpu
        BY <1>3, <2>3, <2>4, <2>8, <3>2 DEF Full
      <4> HIDE DEF next
      <4> QED
        BY <1>3, <2>3, <2>10, <4>1, <4>2
    <3>3. CASE i + 1 \notin Processors
      <4>1. cpus' = cpus
        BY <1>8, <2>9, <3>3 DEF MpOther, MpUnknown
      <4> HIDE DEF next
      <4> QED
        BY <2>3, <2>4, <3>3, <4>1
    <3> QED
      BY <3>1, <3>2, <3>3
  <2>12. ASSUME NEW k \in Processors, k <= i + 1, Rank(k) <= MaxCpu
         PROVE  cpus'[Rank(k)] = entries[k].id
    <3>1. CASE k = i + 1
      BY <2>11, <2>12, <3>1
    <3>2. CASE k # i + 1
      <4>1. k <= i
        BY <2>2, <2>6, <2>12, <3>2
      <4>2. Rank(k) \in 1 .. r
        BY <2>5, <4>1
      <4>3. Rank(k) \in 1 .. Len(cpus)
        BY <1>3, <2>3, <2>4, <2>8, <2>12, <4>2
      <4> QED
        BY <2>7, <2>11, <2>12, <4>1, <4>3
    <3> QED
      BY <3>1, <3>2
  <2>13. Len(cpus') = Min({Rank(i'), MaxCpu})
    BY <2>1, <2>11
  <2>14. /\ i' \in 0 .. n /\ p' \in 1 .. i' + 1
         /\ \A k \in 1 .. p' - 1 : Known(k)
         /\ p' <= i' => ~ Known(p')
    <3>1. i \in Int /\ p \in Int /\ n \in Int
      BY <1>3, <2>1
    <3>2. CASE Known(p)
      <4>1. p = i + 1 /\ p' = p + 1
        BY <2>1, <2>2, <3>2
      <4>2. \A k \in 1 .. p' - 1 : k \in 1 .. p - 1 \/ k = p
        BY ONLY <3>1, <4>1
      <4>3. i' \in 0 .. n /\ p' \in 1 .. i' + 1 /\ ~ (p' <= i')
        BY ONLY <2>1, <3>1, <4>1
      <4> QED
        BY <2>1, <3>2, <4>2, <4>3
    <3>3. CASE ~ Known(p)
      BY <2>1, <2>2, <3>1, <3>3
    <3> QED
      BY <3>2, <3>3
  <2> HIDE DEF next, entries, n
  <2>15. entries' = entries /\ n' = n
    BY <1>1 DEF entries, n
  <2> QED
    BY <1>2, <2>1, <2>11, <2>12, <2>13, <2>14, <2>15 DEF entries, n
<1>9. CASE MpDone
  <2>1. UNCHANGED <<i, p, cpus>> /\ at = "mp_init" /\ i = n /\ at' \in {"apic", "pic"}
    BY <1>9 DEF MpDone, Goto, mp
  <2> QED
    BY <1>1, <1>2, <2>1
<1>10. CASE UNCHANGED vars
  BY <1>5, <1>10 DEF vars, mp
<1> QED
  BY <1>6, <1>7, <1>8, <1>9, <1>10 DEF Next

LEMMA TypesSteps ==
  ASSUME Types, EntriesInv, EntriesInv', machine' \in Machine, [Next]_vars
  PROVE  Types'
<1> USE DEF Types
<1>1. CASE DiskInfos \/ DiskRead \/ DetectFails
  BY <1>1 DEF DiskInfos, DiskRead, DetectFails, Goto, loading, mp
<1>2. CASE DiskExtInfos
  BY <1>2 DEF DiskExtInfos, Goto, mp, Field
<1>3. CASE (\E desc \in Desc : Detect(desc)) \/ EndTag
  BY <1>3 DEF Detect, EndTag, Goto, mp
<1>4. CASE Load
  <2>1. at' \in {"load", "stuck", "wild"} /\ UNCHANGED <<junk, handed, area, cpus>>
    BY ONLY <1>4 DEF Load, Goto, mp
  <2>2. reads \in 0 .. 2 /\ (reads' = reads \/ (reads < 2 /\ reads' = reads + 1))
    BY ONLY <1>4, Types DEF Load, Types
  <2>3. reads' \in 0 .. 2
    BY ONLY <2>2
  <2> QED
    BY <2>1, <2>3
<1>5. CASE ParseMultiboot
  BY <1>5 DEF ParseMultiboot, Goto, loading, mp
<1>6. CASE MpParse
  <2>1. /\ at' \in {"mp_search", "mp_config"} /\ UNCHANGED <<junk, handed, reads, cpus>>
        /\ area' = area \/ (area # 3 /\ area' = area + 1)
    BY ONLY <1>6 DEF MpParse, Goto, loading
  <2>2. area \in 1 .. 3
    OBVIOUS
  <2>3. area' \in 1 .. 3
    BY ONLY <2>1, <2>2
  <2> QED
    BY <2>1, <2>3
<1>7. CASE MpConfig
  BY <1>7 DEF MpConfig, Goto, loading, mp
<1>8. CASE MpProcessor \/ MpOther \/ MpUnknown
  <2>1. UNCHANGED <<at, junk, reads, area, handed>> /\ at = "mp_init"
    BY <1>8 DEF MpProcessor, MpOther, MpUnknown, MoreEntries, loading
  <2>2. Len(cpus') <= MaxCpu
    <3>1. CASE cpus' = cpus
      BY <3>1
    <3>2. CASE ~ Full /\ cpus' = Append(cpus, EntryHere.id)
      <4>1. cpus \in Seq(Nat) /\ MaxCpu \in Nat
        BY StartupAssumption DEF EntriesInv
      <4>2. Len(cpus') = Len(cpus) + 1 /\ Len(cpus) \in Nat
        BY ONLY <3>2, <4>1
      <4> QED
        BY ONLY <3>2, <4>1, <4>2 DEF Full
    <3> QED
      BY <1>8, <3>1, <3>2 DEF MpProcessor, MpOther, MpUnknown
  <2> QED
    BY <2>1, <2>2
<1>9. CASE MpDone
  BY <1>9 DEF MpDone, Goto, loading, mp
<1>10. CASE UNCHANGED vars
  BY <1>10 DEF vars, loading, mp
<1> QED
  BY <1>1, <1>2, <1>3, <1>4, <1>5, <1>6, <1>7, <1>8, <1>9, <1>10 DEF Next

(* Both ways to start. *)
LEMMA StartsWell == Init => StartupInv
<1> SUFFICES ASSUME Init
             PROVE  StartupInv
  OBVIOUS
<1>1. machine \in Machine
  BY StartupAssumption DEF Init
<1>2. <<>> \in Seq(Desc) /\ <<>> \in Seq(Nat) /\ Len(<<>>) = 0 /\ MaxCpu \in Nat
  BY StartupAssumption
<1>3. at \in {"fbl", "main"} /\ reads = 0 /\ area = 1 /\ i = 0 /\ p = 1 /\ cpus = <<>>
  BY DEF Init
<1>4. junk \subseteq Field /\ handed \in {"ok", "no magic", "unaligned"}
  BY DEF Init
<1>5. Types
  <2>1. reads \in 0 .. 2 /\ area \in 1 .. 3 /\ Len(cpus) <= MaxCpu
    BY ONLY <1>2, <1>3
  <2> QED
    BY ONLY <1>3, <1>4, <2>1 DEF Types
<1>6. MapInv
  <2>1. CASE at = "fbl"
    BY <1>2, <2>1 DEF Init, MapInv
  <2>2. CASE at = "main"
    <3>1. \E info \in OtherInfo : table = info.table /\ descs = info.descs
      BY <2>2 DEF Init
    <3>2. descs \in Seq(Desc)
      BY <3>1, StartupAssumption
    <3> QED
      BY <2>2, <3>1, <3>2 DEF MapInv
  <2> QED
    BY <1>3, <2>1, <2>2
<1>7. SearchInv
  BY <1>1, <1>3 DEF SearchInv
<1>8. EntriesInv
  BY <1>2, <1>3 DEF EntriesInv
<1> QED
  BY <1>5, <1>6, <1>7, <1>8 DEF StartupInv

(* What the stages of a start have established (the loaders, main,         *)
(* mp_init) is an inductive invariant.                                     *)
THEOREM StartupInvHolds == Spec => []StartupInv
<1>1. Init => StartupInv
  BY StartsWell
<1>2. StartupInv /\ [Next]_vars => StartupInv'
  <2> SUFFICES ASSUME StartupInv, [Next]_vars
               PROVE  StartupInv'
    OBVIOUS
  <2>1. Types /\ MapInv /\ SearchInv /\ EntriesInv /\ machine \in Machine
    BY DEF StartupInv, SearchInv
  <2>2. MapInv'
    BY <2>1, MapSteps
  <2>3. SearchInv' /\ machine' \in Machine
    BY <2>1, SearchSteps DEF SearchInv
  <2>4. EntriesInv'
    BY <2>1, EntriesSteps
  <2>5. Types'
    BY <2>1, <2>3, <2>4, TypesSteps
  <2> QED
    BY <2>2, <2>3, <2>4, <2>5 DEF StartupInv
<1> QED
  BY <1>1, <1>2, PTL DEF Spec

(* What parse_multiboot sees of the second loader's information, with any  *)
(* upper halves in the fields the loader half writes; and of any           *)
(* well-formed information that it accepts it sees the map.                *)
THEOREM MapSeenHolds == Spec => []MapSeen
<1>1. StartupInv => MapSeen
  <2> SUFFICES ASSUME StartupInv
               PROVE  MapSeen
    OBVIOUS
  <2>1. Types /\ MapInv
    BY DEF StartupInv
  <2>2. ASSUME at = "load"
        PROVE  LET walk == Walk(table) IN
               /\ junk = {} => walk.ret = 0
               /\ "type" \in junk => walk.seen = <<>>
               /\ "type" \notin junk /\ "size" \in junk =>
                    \E k \in DOMAIN walk.seen : walk.seen[k] \notin Desc
               /\ {"type", "size"} \cap junk = {} =>
                    walk.seen = IF "entry_size" \in junk THEN <<descs[1]>> ELSE descs
    <3> DEFINE type == MMAP + High("type")
               entry == EntrySize + High("entry_size")
               end == END + High("end")
    <3>1. /\ descs \in Seq(Desc) /\ Len(descs) \in 1 .. MaxDesc
          /\ table = OwnTable
      BY <2>1, <2>2 DEF MapInv
    <3>2. /\ type \in {MMAP, MMAP + Upper} /\ entry \in {EntrySize, EntrySize + Upper}
          /\ end \in {END, END + Upper}
          /\ High("size") = IF "size" \in junk THEN Upper ELSE 0
          /\ "type" \in junk <=> type # MMAP
          /\ "entry_size" \in junk <=> entry # EntrySize
          /\ "end" \notin junk => end = END
      BY DEF High, MMAP, END, EntrySize, Upper
    <3>3. /\ Len(descs) > 0 /\ MapSize \in Nat \ {0} /\ MapSize < Upper
          /\ MapSize + 0 = MapSize
      <4>1. MaxDesc \in Nat /\ 16 + EntrySize * MaxDesc < Upper
        BY StartupAssumption
      <4>2. Len(descs) \in Nat /\ Len(descs) > 0 /\ Len(descs) <= MaxDesc
        BY <3>1, <4>1
      <4>3. \A l, m \in Nat : l <= m /\ 16 + 24 * m < 65536 =>
              /\ 16 + 24 * l < 65536 /\ 16 + 24 * l + 0 = 16 + 24 * l
              /\ 16 + 24 * l \in Nat \ {0}
        OBVIOUS
      <4> QED
        BY <4>1, <4>2, <4>3 DEF MapSize, EntrySize, Upper
    <3>4. table = {Tag(BasicSize, type, MapSize + High("size"), entry, descs),
                   Tag(BasicSize + MapSize, end, BasicSize, 0, <<>>)}
      BY <3>1 DEF OwnTable
    <3>5. MapSize = 16 + EntrySize * Len(descs)
      BY DEF MapSize
    <3> HIDE DEF type, entry, end
    <3>6. CASE "size" \in junk
      <4>1. table = {Tag(BasicSize, type, MapSize + Upper, entry, descs),
                     Tag(BasicSize + MapSize, end, BasicSize, 0, <<>>)}
        BY <3>2, <3>4, <3>6
      <4>2. /\ type # MMAP => Walk(table).seen = <<>>
            /\ type = MMAP => Strays(Walk(table).seen)
        <5>1. /\ descs \in Seq(Desc) /\ type \in {MMAP, MMAP + Upper}
              /\ entry \in {EntrySize, EntrySize + Upper} /\ end \in {END, END + Upper}
              /\ MapSize \in Nat \ {0}
          BY <3>1, <3>2, <3>3
        <5> QED
          BY ONLY <5>1, <4>1, OwnWalkWide, Zenon
      <4> QED
        BY <3>2, <3>6, <4>2 DEF Strays
    <3>7. CASE "size" \notin junk
      <4>1. table = {Tag(BasicSize, type, MapSize, entry, descs),
                     Tag(BasicSize + MapSize, end, BasicSize, 0, <<>>)}
        BY <3>2, <3>3, <3>4, <3>7
      <4>2. /\ type # MMAP => Walk(table).seen = <<>>
            /\ type = MMAP =>
                 /\ Walk(table).seen = IF entry = EntrySize THEN descs ELSE <<descs[1]>>
                 /\ end = END => Walk(table).ret = 0
        BY <3>1, <3>2, <3>3, <3>5, <4>1, OwnWalk
      <4> QED
        BY <3>2, <3>7, <4>2
    <3> QED
      BY <3>6, <3>7
  <2>3. OwnMapSeen
    BY <2>2 DEF OwnMapSeen
  <2> QED
    BY <2>1, <2>3 DEF MapSeen, MapInv
<1> QED
  BY <1>1, StartupInvHolds, PTL

(* mp_init has the identifiers of the processors that come before an entry *)
(* of an unknown type, in the order of their entries, as many as           *)
(* SYS_MAX_CPU, and gives up only if the machine has no structure or no    *)
(* configuration that the specification describes, or a decoy.             *)
THEOREM CpusFoundHolds == Spec => []CpusFound
<1>1. StartupInv => CpusFound
  <2> SUFFICES ASSUME StartupInv
               PROVE  CpusFound
    OBVIOUS
  <2>1. SearchInv /\ EntriesInv /\ machine \in Machine
    BY DEF StartupInv, SearchInv
  <2>2. ASSUME at \in {"apic", "pic"}
        PROVE  /\ Len(cpus) = Min({Cardinality(Processors), MaxCpu})
               /\ \A k \in Processors :
                    Rank(k) <= MaxCpu => cpus[Rank(k)] = machine.conf.entries[k].id
    <3>1. i = Len(machine.conf.entries) /\ Rank(i) = Cardinality(Processors)
      BY <2>1, <2>2, RankIs DEF EntriesInv
    <3>2. Processors \subseteq 1 .. i
      BY <2>1, <3>1, RankIs
    <3>3. \A k \in Processors : k <= i
      <4>1. i \in Nat
        <5>1. machine.conf.entries \in Seq(Entry)
          BY <2>1, StartupAssumption
        <5> QED
          BY <3>1, <5>1
      <4> QED
        BY <3>2, <4>1
    <3> QED
      BY <2>1, <2>2, <3>1, <3>3 DEF EntriesInv
  <2>3. ASSUME at = "wild", reads = 0, NoDecoys, GenuineSomewhere,
               machine.conf.sum = 0, machine.conf.text = ConfSig
        PROVE  FALSE
    <3>1. ConfValid(machine.conf)
      BY <2>3, ConfSigIsValid DEF ConfValid
    <3>2. ~ NoneValid /\ \A place : Found(place) => place.phys
      BY <2>1, <2>3, FoundIsGenuine
    <3> QED
      BY <2>1, <2>3, <3>1, <3>2 DEF SearchInv
  <2> QED
    BY <2>2, <2>3 DEF CpusFound
<1> QED
  BY <1>1, StartupInvHolds, PTL
=============================================================================
