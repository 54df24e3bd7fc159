------------------------------ MODULE Kprintf -------------------------------
(***************************************************************************)
(* kprintf (P/io.c) above the console: a format is read character by       *)
(* character, and a conversion is first chosen, in the static pointer      *)
(* parse, and then called.  The keyboard's handler prints with the same    *)
(* function between any two steps of the program's kprintf.                *)
(*                                                                         *)
(* What a caller means to print is a sequence of pieces.  A piece is one   *)
(* character of a format or a conversion in it, with the argument: the     *)
(* word on the stack, what it points to, and the text that should come     *)
(* out.  Characters are ASCII codes.                                       *)
(*                                                                         *)
(* A faulty variant, which nothing uses, stands in front of its            *)
(* definition: DigitsOfRest.                                               *)
(***************************************************************************)
EXTENDS Console

CONSTANTS
  Call,     \* what the program prints: sequences of pieces
  Key,      \* keys: a record of the label that goes before it, and its code
  Plain     \* what is written to the console directly

VARIABLES
  parse,    \* the conversion chosen last, by whatever kprintf
  pi,       \* the program's call: vkprintf's variables
  pending   \* the calls the keyboard's handler has still to make

kprintfVars == <<console, parse, pi, pending>>

Percent == 37

(* The table printable, by the state it makes of the normal one. *)
Printable(c) ==
  CASE c = Percent                       -> "format"
    [] c = NewLine                       -> "char"
    [] c \in 32 .. 126 \ {Percent}       -> "char"
    [] OTHER                             -> "not"

IsConversion(piece) == Head(piece.fmt) = Percent

Format(call)      == FlattenSeq([i \in DOMAIN call |-> call[i].fmt])
Conversions(call) ==
  FlattenSeq([i \in DOMAIN call |-> IF IsConversion(call[i]) THEN <<call[i]>> ELSE <<>>])

NoCall == [at |-> "idle", call |-> <<>>, i |-> 0, args |-> <<>>,
           state |-> "normal", buf |-> <<>>, hits |-> {}]

KprintfInit ==
  /\ ConsoleInit
  /\ parse = "none"
  /\ pi = NoCall
  /\ pending = <<>>

-----------------------------------------------------------------------------
(* The conversions *)

Digit(d) == IF d < 10 THEN 48 + d ELSE 55 + d

(* The loop of itoa and itoh: it turns once for zero. *)
DigitsOfRest(n, base) ==
  LET f[k \in Nat] == IF k = 0 THEN <<>> ELSE Append(f[k \div base], Digit(k % base))
  IN  f[n]
Digits(n, base) ==
  LET f[k \in Nat] ==
        IF k < base THEN <<Digit(k)>> ELSE Append(f[k \div base], Digit(k % base))
  IN  f[n]

Minus == 45
Itoa(n) == IF n < 0 THEN <<Minus>> \o Digits(-n, 10) ELSE Digits(n, 10)
Itoh(n) == Digits(n, 16)

(* The low byte of a word; the zero that ends a string adds nothing. *)
Char(word) == IF word % 256 = 0 THEN <<>> ELSE <<word % 256>>

Converted(conversion, arg) ==
  CASE conversion = "int"  -> Itoa(arg.word)
    [] conversion = "char" -> Char(arg.word)
    [] conversion = "str"  -> arg.str
    [] conversion = "hex"  -> Itoh(arg.word)

(* d, c, s, x and X; no format of the kernel has another letter there. *)
Chosen(c) ==
  CASE c = 100        -> "int"
    [] c = 99         -> "char"
    [] c = 115        -> "str"
    [] c \in {88, 120} -> "hex"

-----------------------------------------------------------------------------
(* The program: nothing of it runs while the handler does. *)

Runs == pending = <<>>
Fmt  == Format(pi.call)
C    == Fmt[pi.i]

Reads == Runs /\ pi.at = "read" /\ pi.i <= Len(Fmt)

Begin(call) ==
  /\ Runs /\ pi.at = "idle" /\ InReach
  /\ pi' = [NoCall EXCEPT !.at = "read", !.call = call, !.i = 1,
                          !.args = Conversions(call)]
  /\ UNCHANGED <<console, parse, pending>>

Skip ==
  /\ Reads /\ Printable(C) = "not"
  /\ pi' = [pi EXCEPT !.i = @ + 1]
  /\ UNCHANGED <<console, parse, pending>>

Copy ==
  /\ Reads /\ pi.state = "normal" /\ Printable(C) = "char"
  /\ pi' = [pi EXCEPT !.i = @ + 1, !.buf = Append(@, C)]
  /\ UNCHANGED <<console, parse, pending>>

FormatMark ==
  /\ Reads /\ pi.state = "normal" /\ Printable(C) = "format"
  /\ pi' = [pi EXCEPT !.i = @ + 1, !.state = "format"]
  /\ UNCHANGED <<console, parse, pending>>

Choose ==
  /\ Reads /\ pi.state = "format" /\ Printable(C) # "not"
  /\ parse' = Chosen(C)
  /\ pi' = [pi EXCEPT !.at = "call"]
  /\ UNCHANGED <<console, pending>>

(* parse(&pi, pi.len), whatever parse is by now *)
CallParse ==
  /\ Runs /\ pi.at = "call"
  /\ pi' = [pi EXCEPT !.at = "read", !.i = @ + 1, !.state = "normal",
                      !.buf = @ \o Converted(parse, Head(pi.args)),
                      !.args = Tail(@)]
  /\ UNCHANGED <<console, parse, pending>>

FlushOut ==
  /\ Runs /\ pi.at = "read" /\ pi.i > Len(Fmt)
  /\ VtFlushWithBuf(pi.buf)
  /\ pi' = NoCall
  /\ UNCHANGED <<parse, pending>>

-----------------------------------------------------------------------------
(* The keyboard's handler: some keys are announced by name. *)

Printing(conversion, text) == [conversion |-> conversion, text |-> text]

Announcement(key) ==
  IF key.label = <<>> THEN <<>> ELSE <<Printing("str", Append(key.label, NewLine))>>

Hit == IF pi.at = "call" THEN {Len(Conversions(pi.call)) - Len(pi.args) + 1} ELSE {}

KeyPressed(key) ==
  /\ Runs /\ InReach
  /\ pending' = Append(Announcement(key), Printing("char", Char(key.code)))
  /\ pi' = [pi EXCEPT !.hits = @ \cup Hit]
  /\ UNCHANGED <<console, parse>>

HandlerPrints ==
  /\ pending # <<>>
  /\ VtFlushWithBuf(Head(pending).text)
  /\ parse' = Head(pending).conversion
  /\ pending' = Tail(pending)
  /\ UNCHANGED pi

-----------------------------------------------------------------------------
(* The rest of the console's interface, which has no caller but the        *)
(* handlers of faults (vt_cls).                                            *)
Direct ==
  /\ Runs /\ pi.at = "idle"
  /\ \/ \E text \in Plain : VgaTextWrite(text) \/ VtNewLine(text)
     \/ VtFlush
     \/ VtCls
  /\ UNCHANGED <<parse, pi, pending>>

KprintfNext ==
  \/ \E call \in Call : Begin(call)
  \/ Skip \/ Copy \/ FormatMark \/ Choose \/ CallParse \/ FlushOut
  \/ \E key \in Key : KeyPressed(key)
  \/ HandlerPrints
  \/ Direct

KprintfSpec == KprintfInit /\ [][KprintfNext]_kprintfVars

-----------------------------------------------------------------------------
(* What is printed, and how much of it there is room for *)

(* The text of a call, given which of its conversions have been hit: these *)
(* come out as one character.                                              *)
Expected(call, hits) ==
  LET Number(i) == Len(Conversions(SubSeq(call, 1, i)))
      IsHit(i) == IsConversion(call[i]) /\ Number(i) \in hits
  IN  FlattenSeq([i \in DOMAIN call |-> IF IsHit(i) THEN Char(call[i].word) ELSE call[i].text])

(* What a key prints. *)
Announced(key) == IF key.label = <<>> THEN 0 ELSE Len(key.label) + 1
Echoed(key)    == Announced(key) + Len(Char(key.code))

Character == 1 .. 255

(* A format has characters, and conversions of five letters. *)
FormatPiece ==
  {piece \in [fmt : Seq(Character), word : Int, str : Seq(Character), text : Seq(Character)] :
     \/ \E c \in Character \ {Percent} : piece.fmt = <<c>>
     \/ \E c \in {100, 99, 115, 88, 120} : piece.fmt = <<Percent, c>>}

(* Text has whatever kprintf is called for.  A call and a key, from a row  *)
(* in reach, do not come to the end of the buffer: a character ends a line *)
(* at most.                                                                *)
ASSUME KprintfAssumption ==
  /\ \A text \in Text : text \in Seq(Character)
  /\ \A key \in Key :
       /\ key.label \in Seq(Character) /\ key.code \in Nat
       /\ key.label # <<>> => Append(key.label, NewLine) \in Text
       /\ Char(key.code) \in Text
       /\ LastRow + Echoed(key) < BufRows
  /\ \A text \in Plain : text \in Text /\ LastRow + Len(text) + 1 < BufRows
  /\ \A call \in Call :
       /\ call \in Seq(FormatPiece)
       /\ \A hits \in SUBSET (1 .. Len(Conversions(call))) :
            /\ Expected(call, hits) \in Text
            /\ LastRow + Len(Expected(call, hits)) < BufRows
            /\ \A key \in Key :
                 LastRow + Echoed(key) + Len(Expected(call, hits)) < BufRows

-----------------------------------------------------------------------------
(* Properties *)

KprintfTypes ==
  /\ buffer \in [0 .. BufRows - 1 -> [0 .. Cols - 1 -> 0 .. 255]]
  /\ screen \in [0 .. Rows - 1 -> [0 .. Cols - 1 -> 0 .. 255]]
  /\ {cur, pre} \subseteq [row : 0 .. BufRows - 1, col : 0 .. Cols]
  /\ parse \in {"none", "int", "char", "str", "hex"}
  /\ pi.at \in {"idle", "read", "call"} /\ pi.state \in {"normal", "format"}

(* kprintf prints its format, every conversion of it as its argument       *)
(* demands, whatever keys are pressed meanwhile; only a conversion that    *)
(* has been chosen and not been called yet when a key is pressed comes out *)
(* as the handler's own, a character (vkprintf).                           *)
Printed ==
  /\ KprintfTypes
  /\ pi.at = "read" /\ pi.i > Len(Fmt) => pi.buf = Expected(pi.call, pi.hits)

(* The screen is a terminal: after a flush it shows the last rows of the   *)
(* buffer, although _vt_flush draws only what it takes to be new until the *)
(* first screen is full, and callers may write without a flush (_vt_flush, *)
(* _vt_new_line).                                                          *)
ImplementsTerminal == TheTerminal!Spec
=============================================================================
