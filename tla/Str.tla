-------------------------------- MODULE Str ---------------------------------
(***************************************************************************)
(* The functions of string.c that search, split, compare and copy.  A string is   *)
(* the sequence of its characters, positive numbers, without the zero that *)
(* ends it; memory that holds one is a sequence of bytes.  A pointer into  *)
(* a string is an offset, Null when the function returns NULL.             *)
(***************************************************************************)
EXTENDS Integers, Sequences, FiniteSetsExt, SequencesExt

Null == -1

(* What a reader of memory takes for a string: up to the first zero, or    *)
(* all of it (strlen).                                                     *)
CString(mem) ==
  LET ends == {i \in DOMAIN mem : mem[i] = 0}
  IN  IF ends = {} THEN mem ELSE SubSeq(mem, 1, Min(ends) - 1)

(* The character at an offset, the terminator included. *)
CharAt(s, i) == IF i < Len(s) THEN s[i + 1] ELSE 0

Offsets(s, ch) == {i \in 0 .. Len(s) - 1 : CharAt(s, i) = ch}

(* The terminator is not found, not even in an empty string. *)
Strchr(s, ch) == IF Offsets(s, ch) = {} THEN Null ELSE Min(Offsets(s, ch))

(* The search begins at the terminator. *)
Strrchr(s, ch) ==
  IF ch = 0 THEN Len(s)
  ELSE IF Offsets(s, ch) = {} THEN Null ELSE Max(Offsets(s, ch))

From(s, i) == SubSeq(s, i + 1, Len(s))

(* strtok keeps the string and how far it has got in its static variables; *)
(* the first character that delimits, from there on, becomes a zero.       *)
StrtokStart(str) == [stk |-> str, i |-> 0]

Token(tk) == IF tk.i < Len(tk.stk) THEN tk.i ELSE Null

StrtokNext(tk, delim) ==
  LET ends == {j \in Offsets(tk.stk, delim) : j >= tk.i}
  IN  IF ends = {} THEN [tk EXCEPT !.i = Len(tk.stk)]
      ELSE [stk |-> [tk.stk EXCEPT ![Min(ends) + 1] = 0], i |-> Min(ends) + 1]

(* What string_test_strtok prints: each token, until there is none.        *)
Tokens(str, delim) ==
  LET after[n \in 0 .. Len(str) + 1] ==
        IF n = 0 THEN StrtokStart(str) ELSE StrtokNext(after[n - 1], delim)
      calls == {n \in 1 .. Len(str) + 1 : Token(after[n - 1]) # Null}
  IN  [n \in 1 .. Cardinality(calls) |->
         CString(From(after[n].stk, Token(after[n - 1])))]

(* The tokens, an empty one before each delimiter that follows another,    *)
(* make the string again; nothing stands for a delimiter at its end.       *)
ASSUME TokensSplit ==
  \A n \in 0 .. 4 : \A str \in [1 .. n -> {1, 2, 47}] :
    LET tokens == Tokens(str, 47)
        joined == FlattenSeq([k \in DOMAIN tokens |-> tokens[k] \o <<47>>])
    IN  /\ joined \in {str, str \o <<47>>}
        /\ \A k \in DOMAIN tokens : Offsets(tokens[k], 47) = {}

(* Only as many characters as the shorter string has are compared: a       *)
(* string is "equal" to each of its beginnings, except to the empty one.   *)
Strcmp(s1, s2) ==
  LET len   == Min({Len(s1), Len(s2)})
      diffs == {i \in 0 .. len - 1 : CharAt(s1, i) # CharAt(s2, i)}
  IN  CASE len = 0    -> CharAt(s1, 0) - CharAt(s2, 0)
        [] diffs = {} -> 0
        [] OTHER      -> CharAt(s1, Min(diffs)) - CharAt(s2, Min(diffs))

(* The terminator is not copied. *)
Strncpy(dst, src, cnt) ==
  [i \in DOMAIN dst |-> IF i <= Min({Len(src), cnt}) THEN src[i] ELSE dst[i]]

Memcpy(dst, src, cnt) == [i \in DOMAIN dst |-> IF i <= cnt THEN src[i] ELSE dst[i]]

Memset(dst, ch, cnt) == [i \in DOMAIN dst |-> IF i <= cnt THEN ch ELSE dst[i]]

Reversed(s) == [i \in DOMAIN s |-> s[Len(s) - i + 1]]
=============================================================================
