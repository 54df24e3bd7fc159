----------------------------- MODULE IrqProofs ------------------------------
(***************************************************************************)
(* Theorems about Irq for any keys, any number of handlers on the stack    *)
(* and any width of time_ticks.                                            *)
(***************************************************************************)
EXTENDS Irq, TLAPS, SequenceTheorems, FiniteSetTheorems

USE IrqAssumption

-----------------------------------------------------------------------------
(* The inductive invariant *)

FullTypes ==
  /\ done \in 0 .. 5 /\ halted \in BOOLEAN /\ early \in BOOLEAN
  /\ mask \subseteq Line /\ gate \in [Line -> {"none", "common", "own"}]
  /\ irr \subseteq Line /\ isr \subseteq Line
  /\ stack \in Seq(Handler) /\ Len(stack) <= MaxDepth
  /\ ticks \in 0 .. TickMod - 1 /\ accepted \in 0 .. TickMod - 1
  /\ port = {} \/ \E code \in Code : port = {code}
  /\ echo \in Seq(Key) /\ typed \in Seq(Key)

(* The gates are those of the steps that main has taken, and no handler    *)
(* runs before the last of them.                                           *)
Gates ==
  /\ done >= 3 => gate[Timer] = "own"
  /\ done >= 4 => gate[Keyboard] = "own"
  /\ done < 5 => stack = <<>>

(* The interrupts in service are those of the handlers that have not ended *)
(* theirs, and each of these interrupted handlers of lower priority only.  *)
Service ==
  /\ isr = {stack[i].line : i \in Unfinished}
  /\ \A i, j \in Unfinished : i < j => stack[j].line < stack[i].line

(* Handlers are where their line can be, and what one has loaded of        *)
(* time_ticks is still its value.                                          *)
Places ==
  \A i \in DOMAIN stack :
    /\ stack[i].at = "hung" => stack[i].line = Other
    /\ stack[i].at = "store" => stack[i].line = Timer /\ stack[i].loaded = ticks
    /\ stack[i].at = "print" => stack[i].line = Keyboard

(* The handlers that have not counted their tick: at most one. *)
Late == {i \in DOMAIN stack : stack[i].line = Timer /\ stack[i].at \in {"entry", "store"}}

Counted ==
  accepted = IF Late = {} THEN ticks ELSE (ticks + 1) % TickMod

(* A key that was typed is printed, in the hands of the handler that       *)
(* prints it, or in the keyboard controller, in this order.                *)
Printing == {i \in DOMAIN stack : stack[i].at = "print"}
Waiting  == {code \in port : code[2] = "pressed"}

Keys ==
  /\ Len(typed) = Len(echo) + (IF Printing = {} THEN 0 ELSE 1)
                            + (IF Waiting = {} THEN 0 ELSE 1)
  /\ \A i \in DOMAIN echo : echo[i] = typed[i]
  /\ \A i \in Printing : \E code \in Code :
       stack[i].code = {code} /\ code[1] = typed[Len(echo) + 1]
  /\ \A code \in Waiting : code[1] = typed[Len(typed)]

IInv == FullTypes /\ Gates /\ Service /\ Places /\ Counted /\ Keys

-----------------------------------------------------------------------------
(* Main's steps *)

(* The order of the steps, by number. *)
LEMMA OrderIs ==
  /\ Len(Order) = 5
  /\ \A n \in 0 .. 4 : /\ Order[n + 1] = "pic" => n = 0
                       /\ Order[n + 1] = "idt" => n = 1
                       /\ Order[n + 1] = "pit" => n = 2
                       /\ Order[n + 1] = "keyboard" => n = 3
                       /\ Order[n + 1] = "sti" => n = 4
<1>1. Len(Order) = 5
  BY DEF Order
<1>2. /\ Order[1] = "pic" /\ Order[2] = "idt" /\ Order[3] = "pit"
      /\ Order[4] = "keyboard" /\ Order[5] = "sti"
  BY DEF Order
<1>3. \A n \in 0 .. 4 : n = 0 \/ n = 1 \/ n = 2 \/ n = 3 \/ n = 4
  OBVIOUS
<1> HIDE DEF Order
<1>4. ASSUME NEW n \in 0 .. 4
      PROVE  /\ Order[n + 1] = "pic" => n = 0
             /\ Order[n + 1] = "idt" => n = 1
             /\ Order[n + 1] = "pit" => n = 2
             /\ Order[n + 1] = "keyboard" => n = 3
             /\ Order[n + 1] = "sti" => n = 4
  <2>1. CASE n = 0
    <3>1. n + 1 = 1
      BY <2>1
    <3> QED
      BY <1>2, <2>1, <3>1
  <2>2. CASE n = 1
    <3>1. n + 1 = 2
      BY <2>2
    <3> QED
      BY <1>2, <2>2, <3>1
  <2>3. CASE n = 2
    <3>1. n + 1 = 3
      BY <2>3
    <3> QED
      BY <1>2, <2>3, <3>1
  <2>4. CASE n = 3
    <3>1. n + 1 = 4
      BY <2>4
    <3> QED
      BY <1>2, <2>4, <3>1
  <2>5. CASE n = 4
    <3>1. n + 1 = 5
      BY <2>5
    <3> QED
      BY <1>2, <2>5, <3>1
  <2> QED
    BY <1>3, <2>1, <2>2, <2>3, <2>4, <2>5
<1> QED
  BY <1>1, <1>4

(* Interrupts are enabled when main has taken all steps. *)
LEMMA EnabledLast == FullTypes /\ Enabled => done = 5
<1> SUFFICES ASSUME FullTypes, Enabled
             PROVE  done = 5
  OBVIOUS
<1>1. done \in 0 .. 5
  BY DEF FullTypes
<1>2. PICK i \in 1 .. done : Order[i] = "sti"
  BY DEF Enabled, Passed
<1>3. i - 1 \in 0 .. 4 /\ (i - 1) + 1 = i
  BY <1>1
<1>4. i - 1 = 4
  <2>1. \A n \in 0 .. 4 : Order[n + 1] = "sti" => n = 4
    BY OrderIs
  <2> QED
    BY <1>2, <1>3, <2>1
<1> QED
  BY <1>1, <1>4

-----------------------------------------------------------------------------
(* The stack *)

(* What the invariant says of the stack. *)
LEMMA StackTypes ==
  ASSUME IInv
  PROVE  /\ stack \in Seq(Handler)
         /\ Depth \in Nat /\ DOMAIN stack = 1 .. Depth
         /\ \A i \in DOMAIN stack :
              /\ stack[i] \in Handler /\ stack[i].line \in Line
              /\ stack[i].line \in Nat
         /\ Depth > 0 => Depth \in DOMAIN stack
<1>1. stack \in Seq(Handler)
  BY DEF IInv, FullTypes
<1>2. Depth \in Nat /\ DOMAIN stack = 1 .. Depth
  BY <1>1, LenProperties DEF Depth
<1>3. \A i \in DOMAIN stack : stack[i] \in Handler
  BY <1>1, <1>2, ElementOfSeq DEF Depth
<1> QED
  BY <1>1, <1>2, <1>3 DEF Handler, Line, Timer, Keyboard, Other

(* A step of the handler that runs. *)
LEMMA TopChanges ==
  ASSUME IInv, Depth > 0, NEW r \in Handler, r.line = Top.line,
         stack' = [stack EXCEPT ![Depth] = r]
  PROVE  /\ stack' \in Seq(Handler) /\ Len(stack') = Len(stack)
         /\ DOMAIN stack' = DOMAIN stack
         /\ \A i \in DOMAIN stack : /\ stack'[i] = IF i = Depth THEN r ELSE stack[i]
                                   /\ stack'[i].line = stack[i].line
         /\ Unfinished' = IF r.at = "iret" THEN Unfinished \ {Depth}
                          ELSE Unfinished \cup {Depth}
         /\ Late' = IF r.line = Timer /\ r.at \in {"entry", "store"}
                    THEN Late \cup {Depth} ELSE Late \ {Depth}
         /\ Printing' = IF r.at = "print" THEN Printing \cup {Depth}
                        ELSE Printing \ {Depth}
<1>1. stack \in Seq(Handler) /\ DOMAIN stack = 1 .. Depth /\ Depth \in 1 .. Depth /\ Depth = Len(stack)
  BY StackTypes DEF Depth
<1>2. /\ stack' \in Seq(Handler) /\ Len(stack') = Len(stack)
      /\ \A i \in 1 .. Len(stack) : stack'[i] = IF i = Depth THEN r ELSE stack[i]
  BY <1>1, ExceptSeq
<1>3. DOMAIN stack' = DOMAIN stack
  BY <1>1, <1>2, LenProperties
<1>4. \A i \in DOMAIN stack : stack'[i].line = stack[i].line
  BY <1>1, <1>2 DEF Top
<1>5. Unfinished' = {i \in DOMAIN stack' : stack'[i].at # "iret"}
  BY DEF Unfinished
<1>6. Late' = {i \in DOMAIN stack' : stack'[i].line = Timer /\ stack'[i].at \in {"entry", "store"}}
  BY DEF Late
<1>7. Printing' = {i \in DOMAIN stack' : stack'[i].at = "print"}
  BY DEF Printing
<1>8. Unfinished' = IF r.at = "iret" THEN Unfinished \ {Depth} ELSE Unfinished \cup {Depth}
  BY <1>1, <1>2, <1>3, <1>5 DEF Unfinished
<1>9. Late' = IF r.line = Timer /\ r.at \in {"entry", "store"}
              THEN Late \cup {Depth} ELSE Late \ {Depth}
  BY <1>1, <1>2, <1>3, <1>6 DEF Late
<1>10. Printing' = IF r.at = "print" THEN Printing \cup {Depth} ELSE Printing \ {Depth}
  BY <1>1, <1>2, <1>3, <1>7 DEF Printing
<1> QED
  BY <1>1, <1>2, <1>3, <1>4, <1>8, <1>9, <1>10

(* What runs has the highest priority of the handlers in service: none of  *)
(* those it interrupted counts a tick, unless it is one of the keyboard's, *)
(* or prints, unless it is one of the timer's.                             *)
LEMMA TopAlone ==
  ASSUME IInv, Depth > 0, Top.at # "iret"
  PROVE  /\ Depth \in Unfinished /\ Top.line \in isr
         /\ \A i \in Unfinished : i # Depth => Top.line < stack[i].line
         /\ \A l \in isr : Top.line <= l
         /\ Late \subseteq {Depth}
         /\ Top.line = Keyboard => Late = {} /\ Printing \subseteq {Depth}
<1>1. Depth \in Unfinished
  BY StackTypes DEF Unfinished, Top
<1>2. \A i \in Unfinished : i # Depth => Top.line < stack[i].line
  <2>1. ASSUME NEW i \in Unfinished, i # Depth
        PROVE  Top.line < stack[i].line
    <3>1. i < Depth
      BY <2>1, StackTypes DEF Unfinished
    <3> QED
      BY <1>1, <3>1 DEF IInv, Service, Top
  <2> QED
    BY <2>1
<1>3. /\ Top.line \in isr
      /\ \A l \in isr : \E i \in Unfinished : l = stack[i].line
  BY <1>1 DEF IInv, Service, Top
<1>4. \A l \in isr : Top.line <= l
  <2>1. ASSUME NEW l \in isr
        PROVE  Top.line <= l
    <3>1. PICK i \in Unfinished : l = stack[i].line
      BY <1>3
    <3>2. CASE i = Depth
      BY <1>1, <3>1, <3>2, StackTypes DEF Top, Unfinished
    <3>3. CASE i # Depth
      BY <1>1, <1>2, <3>1, <3>3, StackTypes DEF Top, Unfinished
    <3> QED
      BY <3>2, <3>3
  <2> QED
    BY <2>1
<1>5. /\ Late \subseteq Unfinished /\ Printing \subseteq Unfinished
      /\ \A i \in Late : stack[i].line = Timer
      /\ \A i \in Printing : stack[i].line = Keyboard
  BY DEF Late, Printing, Unfinished, IInv, Places
<1>6. Top.line \in Line
  BY <1>1, StackTypes DEF Top, Unfinished
<1>7. Late \subseteq {Depth}
  <2>1. ASSUME NEW i \in Late, i # Depth
        PROVE  FALSE
    <3>1. Top.line < 0
      BY <1>2, <1>5, <2>1 DEF Timer
    <3> QED
      BY <1>6, <3>1 DEF Line, Timer, Keyboard, Other
  <2> QED
    BY <2>1
<1>8. ASSUME Top.line = Keyboard
      PROVE  Late = {} /\ Printing \subseteq {Depth}
  <2>1. Depth \notin Late
    BY <1>5, <1>8 DEF Top, Timer, Keyboard
  <2>2. ASSUME NEW i \in Printing, i # Depth
        PROVE  FALSE
    <3>1. Top.line < stack[i].line /\ stack[i].line = Keyboard
      BY <1>2, <1>5, <2>2
    <3> QED
      BY <1>8, <3>1 DEF Keyboard
  <2> QED
    BY <1>7, <2>1, <2>2
<1> QED
  BY <1>1, <1>2, <1>3, <1>4, <1>7, <1>8

(* The interrupts in service stay what they are while the handler that     *)
(* runs has not ended its own.                                             *)
LEMMA ServiceStays ==
  ASSUME IInv, Depth > 0, NEW r \in Handler, r.line = Top.line,
         stack' = [stack EXCEPT ![Depth] = r],
         Top.at # "iret", r.at # "iret", isr' = isr
  PROVE  Service'
<1>1. Unfinished' = Unfinished
  BY TopChanges, TopAlone
<1>2. Unfinished \subseteq DOMAIN stack
  BY DEF Unfinished
<1>3. \A i \in Unfinished : stack'[i].line = stack[i].line
  BY <1>2, TopChanges
<1>4. {stack'[i].line : i \in Unfinished} = {stack[i].line : i \in Unfinished}
  BY <1>3
<1> QED
  BY <1>1, <1>3, <1>4 DEF IInv, Service

-----------------------------------------------------------------------------
(* The invariant is inductive *)

LEMMA InitIInv == Init => IInv
<1> SUFFICES ASSUME Init
             PROVE  IInv
  OBVIOUS
<1>1. /\ done = 0 /\ halted = FALSE /\ early = FALSE
      /\ mask \in SUBSET Line /\ gate = [line \in Line |-> "none"]
      /\ irr = {} /\ isr = {} /\ stack = <<>> /\ ticks = 0 /\ accepted = 0
      /\ port = {} /\ echo = <<>> /\ typed = <<>>
  BY DEF Init
<1>2. DOMAIN stack = {} /\ Len(stack) = 0
  BY <1>1
<1>3. FullTypes
  <2>1. stack \in Seq(Handler) /\ echo \in Seq(Key) /\ typed \in Seq(Key)
    BY <1>1
  <2>2. gate \in [Line -> {"none", "common", "own"}] /\ mask \subseteq Line
    BY <1>1
  <2>3. Len(stack) <= MaxDepth
    BY <1>2
  <2>4. ticks \in 0 .. TickMod - 1 /\ accepted \in 0 .. TickMod - 1
    BY <1>1
  <2>5. halted \in BOOLEAN /\ early \in BOOLEAN
    BY <1>1
  <2>6. done \in 0 .. 5 /\ irr \subseteq Line /\ isr \subseteq Line /\ port = {}
    BY <1>1
  <2> QED
    BY <2>1, <2>2, <2>3, <2>4, <2>5, <2>6 DEF FullTypes
<1>4. Gates
  BY <1>1 DEF Gates
<1>5. Unfinished = {} /\ Late = {} /\ Printing = {} /\ Waiting = {}
  BY <1>1, <1>2 DEF Unfinished, Late, Printing, Waiting
<1>6. Service
  BY <1>1, <1>5 DEF Service
<1>7. Places /\ Counted
  BY <1>1, <1>2, <1>5 DEF Places, Counted
<1>8. Keys
  BY <1>1, <1>5 DEF Keys
<1> QED
  BY <1>3, <1>4, <1>6, <1>7, <1>8 DEF IInv

(* What does not change as long as the stack does not. *)
LEMMA SameStack ==
  ASSUME IInv, stack' = stack
  PROVE  /\ Unfinished' = Unfinished /\ Late' = Late /\ Printing' = Printing
         /\ UNCHANGED isr => Service'
         /\ UNCHANGED ticks => Places'
         /\ UNCHANGED <<ticks, accepted>> => Counted'
<1>1. Unfinished' = Unfinished /\ Late' = Late /\ Printing' = Printing
  BY DEF Unfinished, Late, Printing
<1> QED
  BY <1>1 DEF IInv, Service, Places, Counted

LEMMA SameKeys ==
  ASSUME IInv, stack' = stack, UNCHANGED <<port, echo, typed>>
  PROVE  Keys'
<1>1. Printing' = Printing /\ Waiting' = Waiting
  BY DEF Printing, Waiting
<1> QED
  BY <1>1 DEF IInv, Keys

(* A step of main, which runs while no handler does. *)
LEMMA StartsInv ==
  ASSUME IInv, NEW step, Starts(step), mask' \subseteq Line, irr' \subseteq Line,
         early' \in BOOLEAN, gate' \in [Line -> {"none", "common", "own"}],
         done' >= 3 => gate'[Timer] = "own",
         done' >= 4 => gate'[Keyboard] = "own"
  PROVE  IInv'
<1>1. /\ stack = <<>> /\ done' = done + 1 /\ done < Len(Order)
      /\ UNCHANGED <<halted, isr, stack, ticks, port, echo, accepted, typed>>
  BY DEF Starts
<1>2. done' \in 0 .. 5
  BY <1>1, OrderIs DEF IInv, FullTypes
<1>3. FullTypes'
  BY <1>1, <1>2 DEF IInv, FullTypes
<1>4. Gates'
  BY <1>1 DEF Gates
<1>5. Service' /\ Places' /\ Counted' /\ Keys'
  BY <1>1, SameStack, SameKeys
<1> QED
  BY <1>3, <1>4, <1>5 DEF IInv

LEMMA StartupInv == ASSUME IInv, Startup PROVE IInv'
<1>1. /\ done \in 0 .. 5 /\ mask \subseteq Line /\ irr \subseteq Line /\ early \in BOOLEAN
      /\ gate \in [Line -> {"none", "common", "own"}]
      /\ done >= 3 => gate[Timer] = "own"
      /\ done >= 4 => gate[Keyboard] = "own"
  BY DEF IInv, FullTypes, Gates
<1>2. ASSUME NEW step, Starts(step)
      PROVE  done \in 0 .. 4 /\ Order[done + 1] = step /\ done' = done + 1
  BY <1>1, <1>2, OrderIs DEF Starts
<1>3. Timer \in Line /\ Keyboard \in Line /\ Timer # Keyboard
  BY DEF Line, Timer, Keyboard
<1>4. ASSUME PicInit
      PROVE  IInv'
  <2>1. Starts("pic") /\ irr' = {} /\ early' \in BOOLEAN /\ mask' = mask /\ gate' = gate
    BY <1>4 DEF PicInit
  <2>2. done' = 1
    BY <1>2, <2>1, OrderIs
  <2> QED
    BY <1>1, <2>1, <2>2, StartsInv
<1>5. ASSUME InterruptInit
      PROVE  IInv'
  <2>1. /\ Starts("idt") /\ gate' = [line \in Line |-> "common"]
        /\ mask' = mask /\ irr' = irr /\ early' = early
    BY <1>5 DEF InterruptInit
  <2>2. done' = 2
    BY <1>2, <2>1, OrderIs
  <2>3. gate' \in [Line -> {"none", "common", "own"}]
    BY <2>1
  <2> QED
    BY <1>1, <2>1, <2>2, <2>3, StartsInv
<1>6. ASSUME PitInit
      PROVE  IInv'
  <2>1. /\ Starts("pit") /\ gate' = [gate EXCEPT ![Timer] = "own"]
        /\ mask' = mask /\ irr' = irr /\ early' = early
    BY <1>6 DEF PitInit
  <2>2. done' = 3
    BY <1>2, <2>1, OrderIs
  <2>3. gate' \in [Line -> {"none", "common", "own"}] /\ gate'[Timer] = "own"
    BY <1>1, <1>3, <2>1
  <2> QED
    BY <1>1, <2>1, <2>2, <2>3, StartsInv
<1>7. ASSUME KeyboardInit
      PROVE  IInv'
  <2>1. /\ Starts("keyboard") /\ gate' = [gate EXCEPT ![Keyboard] = "own"]
        /\ mask' = mask \ {Keyboard} /\ irr' = irr /\ early' = early
    BY <1>7 DEF KeyboardInit
  <2>2. done = 3 /\ done' = 4
    BY <1>2, <2>1, OrderIs
  <2>3. /\ gate' \in [Line -> {"none", "common", "own"}]
        /\ gate'[Timer] = "own" /\ gate'[Keyboard] = "own"
    BY <1>1, <1>3, <2>1, <2>2
  <2> QED
    BY <1>1, <2>1, <2>2, <2>3, StartsInv
<1>8. ASSUME Sti
      PROVE  IInv'
  <2>1. Starts("sti") /\ mask' = mask /\ gate' = gate /\ irr' = irr /\ early' = early
    BY <1>8 DEF Sti
  <2>2. done = 4
    BY <1>2, <2>1, OrderIs
  <2> QED
    BY <1>1, <2>1, <2>2, StartsInv
<1> QED
  BY <1>4, <1>5, <1>6, <1>7, <1>8 DEF Startup

(* The timer's line rises. *)
LEMMA TimerRisesInv == ASSUME IInv, TimerRises PROVE IInv'
<1>1. /\ irr' = irr \cup {Timer}
      /\ UNCHANGED <<start, isr, stack, ticks, port, echo, accepted, typed>>
  BY DEF TimerRises
<1>2. FullTypes' /\ Gates'
  BY <1>1 DEF IInv, FullTypes, Gates, start, Line
<1>3. Service' /\ Places' /\ Counted' /\ Keys'
  BY <1>1, SameStack, SameKeys
<1> QED
  BY <1>2, <1>3 DEF IInv

(* The line of a device without a driver rises. *)
LEMMA OtherRisesInv == ASSUME IInv, OtherRises PROVE IInv'
<1>1. /\ irr' = irr \cup {Other}
      /\ UNCHANGED <<start, isr, stack, ticks, port, echo, accepted, typed>>
  BY DEF OtherRises
<1>2. FullTypes' /\ Gates'
  BY <1>1 DEF IInv, FullTypes, Gates, start, Line
<1>3. Service' /\ Places' /\ Counted' /\ Keys'
  BY <1>1, SameStack, SameKeys
<1> QED
  BY <1>2, <1>3 DEF IInv

(* A key is pressed or released. *)
LEMMA KeyEventInv == ASSUME IInv, NEW code \in Code, KeyEvent(code) PROVE IInv'
<1>1. /\ port = {} /\ port' = {code} /\ irr' = irr \cup {Keyboard}
      /\ UNCHANGED <<start, isr, stack, ticks, echo, accepted>>
      /\ IF code[2] = "pressed" THEN typed' = Append(typed, code[1]) ELSE typed' = typed
  BY DEF KeyEvent
<1>2. code[1] \in Key /\ typed \in Seq(Key) /\ echo \in Seq(Key)
  BY DEF Code, IInv, FullTypes
<1>3. typed' \in Seq(Key)
  BY <1>1, <1>2, AppendProperties
<1>4. FullTypes' /\ Gates'
  BY <1>1, <1>3 DEF IInv, FullTypes, Gates, start, Line
<1>5. Service' /\ Places' /\ Counted' /\ Printing' = Printing
  BY <1>1, SameStack
<1>6. Waiting = {} /\ Waiting' = IF code[2] = "pressed" THEN {code} ELSE {}
  BY <1>1 DEF Waiting
<1>7. Keys'
  <2> DEFINE held == IF Printing = {} THEN 0 ELSE 1
  <2>1. /\ Len(typed) = Len(echo) + held
        /\ \A i \in DOMAIN echo : echo[i] = typed[i]
        /\ \A i \in Printing : \E c \in Code :
             stack[i].code = {c} /\ c[1] = typed[Len(echo) + 1]
    BY <1>2, <1>6 DEF IInv, Keys
  <2>2. CASE code[2] = "pressed"
    <3>1. /\ Len(typed') = Len(typed) + 1 /\ typed'[Len(typed')] = code[1]
          /\ \A i \in 1 .. Len(typed) : typed'[i] = typed[i]
      BY <1>1, <1>2, <2>2, AppendProperties
    <3>2. Len(echo) \in Nat /\ DOMAIN echo = 1 .. Len(echo) /\ held \in {0, 1}
      BY <1>2, LenProperties
    <3>3. \A i \in DOMAIN echo : echo[i] = typed'[i]
      BY <2>1, <3>1, <3>2
    <3>4. \A i \in Printing : \E c \in Code :
            stack[i].code = {c} /\ c[1] = typed'[Len(echo) + 1]
      <4>1. Printing # {} => Len(echo) + 1 \in 1 .. Len(typed)
        BY <2>1, <3>2
      <4> QED
        BY <2>1, <3>1, <4>1
    <3>5. Len(typed') = Len(echo) + held + 1
      BY <2>1, <3>1
    <3> QED
      BY <1>1, <1>5, <1>6, <2>2, <3>1, <3>3, <3>4, <3>5 DEF Keys
  <2>3. CASE code[2] # "pressed"
    <3>1. Len(typed) = Len(echo) + held + 0
      BY <1>2, <2>1
    <3> QED
      BY <1>1, <1>5, <1>6, <2>1, <2>3, <3>1 DEF Keys
  <2> QED
    BY <2>2, <2>3
<1> QED
  BY <1>4, <1>5, <1>7 DEF IInv

(* An interrupt is delivered. *)
LEMMA DeliverInv == ASSUME IInv, NEW line \in Line, Deliver(line) PROVE IInv'
<1> DEFINE d == Depth
           own == gate[line] = "own"
           r == [line |-> line, loaded |-> 0, code |-> {},
                 at |-> IF own THEN "entry" ELSE "hung"]
<1>1. /\ done = 5 /\ gate[Timer] = "own" /\ gate[Keyboard] = "own"
  BY EnabledLast DEF Deliver, IInv, Gates, FullTypes
<1>2. /\ \A l \in isr : line < l
      /\ d < MaxDepth
      /\ irr' = irr \ {line} /\ isr' = isr \cup {line}
      /\ stack' = Append(stack, r)
      /\ accepted' = IF line = Timer THEN (accepted + 1) % TickMod ELSE accepted
      /\ UNCHANGED <<start, ticks, port, echo, typed>>
  BY StackTypes DEF Deliver, Depth
<1>3. r \in Handler /\ r.line = line /\ r.at = IF own THEN "entry" ELSE "hung"
  BY DEF Handler
<1>4. ~ own => line = Other
  BY <1>1 DEF Line
<1> HIDE DEF r
<1>5. /\ stack \in Seq(Handler) /\ Len(stack) = d /\ d \in Nat /\ DOMAIN stack = 1 .. d
  BY StackTypes DEF Depth
<1>6. /\ stack' \in Seq(Handler) /\ Len(stack') = d + 1
      /\ DOMAIN stack' = 1 .. d + 1
      /\ \A i \in 1 .. d : stack'[i] = stack[i]
      /\ stack'[d + 1] = r
  BY <1>2, <1>3, <1>5, AppendProperties, LenProperties
<1> HIDE DEF d
<1>7. DOMAIN stack' = DOMAIN stack \cup {d + 1} /\ d + 1 \notin DOMAIN stack
  BY <1>5, <1>6
<1>8. Unfinished' = Unfinished \cup {d + 1}
  <2>1. Unfinished' = {i \in DOMAIN stack' : stack'[i].at # "iret"}
    BY DEF Unfinished
  <2> QED
    BY <1>3, <1>5, <1>6, <1>7, <2>1 DEF Unfinished
<1>9. Late' = IF line = Timer THEN Late \cup {d + 1} ELSE Late
  <2>1. Late' = {i \in DOMAIN stack' : stack'[i].line = Timer /\ stack'[i].at \in {"entry", "store"}}
    BY DEF Late
  <2>2. line = Timer => own
    BY <1>1
  <2> QED
    BY <1>3, <1>5, <1>6, <1>7, <2>1, <2>2 DEF Late
<1>10. Printing' = Printing
  <2>1. Printing' = {i \in DOMAIN stack' : stack'[i].at = "print"}
    BY DEF Printing
  <2> QED
    BY <1>3, <1>5, <1>6, <1>7, <2>1 DEF Printing
<1>11. FullTypes'
  <2>1. accepted' \in 0 .. TickMod - 1
    BY <1>2 DEF IInv, FullTypes
  <2>2. Len(stack') <= MaxDepth
    BY <1>2, <1>5, <1>6
  <2> QED
    BY <1>2, <1>6, <2>1, <2>2 DEF IInv, FullTypes, start
<1>12. Gates'
  BY <1>1, <1>2 DEF Gates, start
<1>13. \A i \in Unfinished : i \in 1 .. d /\ stack[i].line \in isr
  BY <1>5 DEF Unfinished, IInv, Service
<1>14. Service'
  <2>1. isr' = {stack'[i].line : i \in Unfinished'}
    <3>1. \A i \in Unfinished : stack'[i].line = stack[i].line
      BY <1>6, <1>13
    <3>2. stack'[d + 1].line = line
      BY <1>3, <1>6
    <3>3. isr = {stack[i].line : i \in Unfinished}
      BY DEF IInv, Service
    <3> QED
      BY <1>2, <1>8, <3>1, <3>2, <3>3
  <2>2. ASSUME NEW i \in Unfinished', NEW j \in Unfinished', i < j
        PROVE  stack'[j].line < stack'[i].line
    <3>1. CASE j \in Unfinished
      <4>1. i \in Unfinished
        BY <1>5, <1>8, <1>13, <2>2, <3>1
      <4> QED
        BY <1>6, <1>13, <2>2, <3>1, <4>1 DEF IInv, Service
    <3>2. CASE j = d + 1
      <4>1. i \in Unfinished
        BY <1>8, <2>2, <3>2
      <4> QED
        BY <1>2, <1>3, <1>6, <1>13, <3>2, <4>1
    <3> QED
      BY <1>8, <3>1, <3>2
  <2> QED
    BY <2>1, <2>2 DEF Service
<1>15. Places'
  BY <1>2, <1>3, <1>4, <1>5, <1>6, <1>7 DEF IInv, Places
<1>16. Counted'
  <2>1. CASE line = Timer
    <3>1. Late = {}
      <4>1. ASSUME NEW i \in Late
            PROVE  FALSE
        <5>1. i \in Unfinished /\ stack[i].line = Timer
          BY DEF Late, Unfinished
        <5>2. Timer < Timer
          BY <1>2, <1>13, <2>1, <5>1
        <5> QED
          BY <5>2 DEF Timer
      <4> QED
        BY <4>1
    <3>2. accepted = ticks
      BY <3>1 DEF IInv, Counted
    <3> QED
      BY <1>2, <1>9, <2>1, <3>2 DEF Counted
  <2>2. CASE line # Timer
    BY <1>2, <1>9, <2>2 DEF IInv, Counted
  <2> QED
    BY <2>1, <2>2
<1>17. Keys'
  <2>1. Waiting' = Waiting
    BY <1>2 DEF Waiting
  <2>2. \A i \in Printing : stack'[i].code = stack[i].code
    BY <1>5, <1>6 DEF Printing
  <2> QED
    BY <1>2, <1>10, <2>1, <2>2 DEF IInv, Keys
<1> QED
  BY <1>11, <1>12, <1>14, <1>15, <1>16, <1>17 DEF IInv

(* A non-maskable interrupt. *)
LEMMA NmiInv == ASSUME IInv, Nmi PROVE IInv'
<1>1. /\ halted' = TRUE
      /\ UNCHANGED <<done, mask, gate, early, irr, isr, stack, ticks, port, echo, accepted, typed>>
  BY DEF Nmi
<1>2. halted' \in BOOLEAN
  BY <1>1
<1>3. FullTypes' /\ Gates'
  BY <1>1, <1>2 DEF IInv, FullTypes, Gates
<1>4. Service' /\ Places' /\ Counted' /\ Keys'
  BY <1>1, SameStack, SameKeys
<1> QED
  BY <1>3, <1>4 DEF IInv

-----------------------------------------------------------------------------
(* The handlers *)

(* The record of the handler that runs, once it is at another statement.   *)
At(at) == [Top EXCEPT !.at = at, !.loaded = 0, !.code = {}]

(* What the handlers' steps make of their records. *)
LEMMA MovedEmpty ==
  ASSUME NEW h \in Handler, NEW at \in {"eoi", "iret"}
  PROVE  LET r == [h EXCEPT !.at = at, !.loaded = 0, !.code = {}] IN
         r \in Handler /\ r.line = h.line /\ r.at = at
<1>1. 0 \in 0 .. TickMod - 1 /\ {} \in SUBSET Code
  OBVIOUS
<1> QED
  BY <1>1 DEF Handler

LEMMA MovedLoaded ==
  ASSUME NEW h \in Handler, NEW n \in 0 .. TickMod - 1
  PROVE  LET r == [[h EXCEPT !.at = "store"] EXCEPT !.loaded = n] IN
         r \in Handler /\ r.line = h.line /\ r.at = "store" /\ r.loaded = n
BY DEF Handler

LEMMA MovedCode ==
  ASSUME NEW h \in Handler, NEW c \in SUBSET Code
  PROVE  LET r == [[h EXCEPT !.at = "print"] EXCEPT !.code = c] IN
         r \in Handler /\ r.line = h.line /\ r.at = "print" /\ r.code = c
BY DEF Handler

LEMMA GotoIs ==
  ASSUME IInv, Depth > 0, NEW at \in {"eoi", "iret"}, Goto(at)
  PROVE  /\ At(at) \in Handler /\ At(at).line = Top.line /\ At(at).at = at
         /\ stack' = [stack EXCEPT ![Depth] = At(at)]
<1>1. /\ Top \in Handler /\ Depth \in DOMAIN stack /\ stack[Depth] = Top
  BY StackTypes DEF Top
<1>2. At(at) \in Handler /\ At(at).line = Top.line /\ At(at).at = at
  BY <1>1, MovedEmpty DEF At
<1>3. stack' = [stack EXCEPT ![Depth] = [stack[Depth] EXCEPT !.at = at, !.loaded = 0, !.code = {}]]
  BY DEF Goto
<1> QED
  BY <1>1, <1>2, <1>3 DEF At

(* A step of the handler that runs keeps the types and the gates. *)
LEMMA TopTypes ==
  ASSUME IInv, Depth > 0, NEW r \in Handler, r.line = Top.line,
         stack' = [stack EXCEPT ![Depth] = r],
         UNCHANGED <<start, irr, accepted, typed>>, isr' \subseteq Line,
         ticks' \in 0 .. TickMod - 1, port' \in {port, {}}, echo' \in Seq(Key)
  PROVE  FullTypes' /\ Gates'
<1>1. stack' \in Seq(Handler) /\ Len(stack') = Len(stack)
  BY TopChanges
<1>2. FullTypes'
  BY <1>1 DEF IInv, FullTypes, start
<1>3. stack # <<>>
  BY DEF Depth
<1>4. ~ (done < 5) /\ done' = done /\ gate' = gate
  BY <1>3 DEF IInv, Gates, start
<1> QED
  BY <1>2, <1>4 DEF IInv, Gates

(* Handlers below the one that runs are where they were. *)
LEMMA TopPlaces ==
  ASSUME IInv, Depth > 0, NEW r \in Handler, r.line = Top.line,
         stack' = [stack EXCEPT ![Depth] = r],
         r.at = "hung" => r.line = Other,
         r.at = "store" => r.line = Timer /\ r.loaded = ticks',
         r.at = "print" => r.line = Keyboard,
         ticks' = ticks \/ Late \subseteq {Depth}
  PROVE  Places'
<1>1. /\ DOMAIN stack' = DOMAIN stack
      /\ \A i \in DOMAIN stack : stack'[i] = IF i = Depth THEN r ELSE stack[i]
  BY TopChanges
<1>2. \A i \in DOMAIN stack : stack[i].at = "store" => i \in Late
  BY DEF IInv, Places, Late
<1> QED
  BY <1>1, <1>2 DEF IInv, Places

(* What is typed is where it was while the handler that runs does not      *)
(* touch it.                                                               *)
LEMMA TopKeys ==
  ASSUME IInv, Depth > 0, NEW r \in Handler, r.line = Top.line,
         stack' = [stack EXCEPT ![Depth] = r],
         UNCHANGED <<port, echo, typed>>, Top.at # "print", r.at # "print"
  PROVE  Keys'
<1>1. /\ \A i \in DOMAIN stack : stack'[i] = IF i = Depth THEN r ELSE stack[i]
      /\ Printing' = Printing \ {Depth}
  BY TopChanges
<1>2. Depth \notin Printing /\ Printing \subseteq DOMAIN stack
  BY DEF Printing, Top
<1>3. Printing' = Printing /\ \A i \in Printing : stack'[i] = stack[i]
  BY <1>1, <1>2
<1>4. Waiting' = Waiting
  BY DEF Waiting
<1> QED
  BY <1>3, <1>4 DEF IInv, Keys

(* time_ticks is loaded. *)
LEMMA TickLoadInv == ASSUME IInv, TickLoad PROVE IInv'
<1> DEFINE r == [[Top EXCEPT !.at = "store"] EXCEPT !.loaded = ticks]
<1>1. /\ Depth > 0 /\ Top.line = Timer /\ Top.at = "entry"
      /\ isr' = isr
      /\ UNCHANGED <<start, irr, ticks, port, echo, accepted, typed>>
  BY DEF TickLoad, Running, AfterEntry
<1>2. /\ Top \in Handler /\ Depth \in DOMAIN stack /\ stack[Depth] = Top
      /\ ticks \in 0 .. TickMod - 1 /\ isr \subseteq Line /\ echo \in Seq(Key)
      /\ stack \in Seq(Handler)
  BY <1>1, StackTypes DEF Top, IInv, FullTypes
<1>3. stack' = [stack EXCEPT ![Depth] = r]
  BY <1>2 DEF TickLoad
<1>4. r \in Handler
  BY <1>2, MovedLoaded
<1>5. r.line = Top.line /\ r.at = "store" /\ r.loaded = ticks
  BY <1>2 DEF Handler
<1> HIDE DEF r
<1>6. FullTypes' /\ Gates'
  BY <1>1, <1>2, <1>3, <1>4, <1>5, TopTypes
<1>7. Service'
  BY <1>1, <1>3, <1>4, <1>5, ServiceStays
<1>8. Places'
  BY <1>1, <1>3, <1>4, <1>5, TopPlaces
<1>9. Counted'
  <2>1. Late' = Late \cup {Depth} /\ Depth \in Late
    BY <1>1, <1>2, <1>3, <1>4, <1>5, TopChanges DEF Late
  <2>2. Late # {} /\ Late' # {}
    BY <2>1
  <2>3. accepted = (ticks + 1) % TickMod
    BY <2>2 DEF IInv, Counted
  <2> QED
    BY <1>1, <2>2, <2>3 DEF Counted
<1>10. Keys'
  BY <1>1, <1>3, <1>4, <1>5, TopKeys
<1> QED
  BY <1>6, <1>7, <1>8, <1>9, <1>10 DEF IInv

(* time_ticks is stored. *)
LEMMA TickStoreInv == ASSUME IInv, TickStore PROVE IInv'
<1> DEFINE r == At("eoi")
<1>1. /\ Depth > 0 /\ Top.line = Timer /\ Top.at = "store"
      /\ ticks' = (Top.loaded + 1) % TickMod
      /\ Goto("eoi") /\ isr' = isr
      /\ UNCHANGED <<start, irr, isr, port, echo, accepted, typed>>
  BY DEF TickStore, Running, Wrapped
<1>2. r \in Handler /\ r.line = Top.line /\ r.at = "eoi" /\ stack' = [stack EXCEPT ![Depth] = r]
  BY <1>1, GotoIs
<1> HIDE DEF r
<1>3. /\ Depth \in DOMAIN stack /\ stack[Depth] = Top
      /\ ticks \in 0 .. TickMod - 1 /\ isr \subseteq Line /\ echo \in Seq(Key)
  BY <1>1, StackTypes DEF Top, IInv, FullTypes
<1>4. Top.loaded = ticks
  BY <1>1, <1>3 DEF IInv, Places
<1>5. ticks' = (ticks + 1) % TickMod /\ ticks' \in 0 .. TickMod - 1
  BY <1>1, <1>3, <1>4
<1>6. Late \subseteq {Depth} /\ Depth \in Late
  BY <1>1, <1>3, TopAlone DEF Late
<1>7. FullTypes' /\ Gates'
  BY <1>1, <1>2, <1>3, <1>5, TopTypes
<1>8. Service'
  BY <1>1, <1>2, ServiceStays
<1>9. Places'
  BY <1>1, <1>2, <1>6, TopPlaces
<1>10. Counted'
  <2>1. Late' = {}
    BY <1>1, <1>2, <1>6, TopChanges
  <2>2. accepted = (ticks + 1) % TickMod
    <3>1. Late # {}
      BY <1>6
    <3> QED
      BY <3>1 DEF IInv, Counted
  <2> QED
    BY <1>1, <1>5, <2>1, <2>2 DEF Counted
<1>11. Keys'
  BY <1>1, <1>2, TopKeys
<1> QED
  BY <1>7, <1>8, <1>9, <1>10, <1>11 DEF IInv

(* The handler that runs does not count ticks. *)
LEMMA TopCounts ==
  ASSUME IInv, Depth > 0, NEW r \in Handler, r.line = Top.line,
         stack' = [stack EXCEPT ![Depth] = r],
         Depth \notin Late, r.at \notin {"entry", "store"}, UNCHANGED <<ticks, accepted>>
  PROVE  Counted'
<1>1. Late' = Late
  BY TopChanges
<1> QED
  BY <1>1 DEF IInv, Counted

(* The code is read from the keyboard controller. *)
LEMMA KeyReadInv == ASSUME IInv, KeyRead PROVE IInv'
<1>1. /\ Depth > 0 /\ Top.line = Keyboard /\ Top.at = "entry"
      /\ port' = {} /\ isr' = isr
      /\ UNCHANGED <<start, irr, ticks, echo, accepted, typed>>
  BY DEF KeyRead, Running, AfterRead
<1>2. PICK code \in port :
        IF code[2] = "released" THEN Goto("eoi")
        ELSE stack' = [stack EXCEPT ![Depth].at = "print", ![Depth].code = port]
  BY DEF KeyRead, Released
<1>3. /\ Top \in Handler /\ Depth \in DOMAIN stack /\ stack[Depth] = Top
      /\ ticks \in 0 .. TickMod - 1 /\ isr \subseteq Line
      /\ echo \in Seq(Key) /\ typed \in Seq(Key)
  BY <1>1, StackTypes DEF Top, IInv, FullTypes
<1>4. code \in Code /\ port = {code} /\ code[2] \in {"pressed", "released"}
  BY <1>2 DEF IInv, FullTypes, Code
<1>5. Late = {} /\ Printing = {}
  <2>1. Depth \notin Printing
    BY <1>1 DEF Printing, Top
  <2> QED
    BY <1>1, <2>1, TopAlone
<1>6. /\ Len(typed) = Len(echo) + (IF Waiting = {} THEN 0 ELSE 1)
      /\ \A i \in DOMAIN echo : echo[i] = typed[i]
      /\ \A c \in Waiting : c[1] = typed[Len(typed)]
  BY <1>3, <1>5 DEF IInv, Keys
<1>7. Waiting' = {}
  BY <1>1 DEF Waiting
<1>8. ASSUME NEW r \in Handler, r.line = Top.line, r.at \in {"eoi", "print"},
             stack' = [stack EXCEPT ![Depth] = r], Keys'
      PROVE  IInv'
  <2>1. FullTypes' /\ Gates'
    BY <1>1, <1>3, <1>8, TopTypes
  <2>2. Service'
    BY <1>1, <1>8, ServiceStays
  <2>3. Places'
    BY <1>1, <1>8, TopPlaces
  <2>4. Counted'
    BY <1>1, <1>5, <1>8, TopCounts
  <2> QED
    BY <1>8, <2>1, <2>2, <2>3, <2>4 DEF IInv
<1>9. CASE code[2] = "released"
  <2> DEFINE r == At("eoi")
  <2>1. r \in Handler /\ r.line = Top.line /\ r.at = "eoi" /\ stack' = [stack EXCEPT ![Depth] = r]
    BY <1>1, <1>2, <1>9, GotoIs
  <2> HIDE DEF r
  <2>2. Printing' = {}
    BY <1>1, <1>5, <2>1, TopChanges
  <2>3. Waiting = {}
    BY <1>4, <1>9 DEF Waiting
  <2>4. Keys'
    BY <1>1, <1>3, <1>6, <1>7, <2>2, <2>3 DEF Keys
  <2> QED
    BY <1>8, <2>1, <2>4
<1>10. CASE code[2] # "released"
  <2> DEFINE r == [[Top EXCEPT !.at = "print"] EXCEPT !.code = port]
  <2>1. stack' = [stack EXCEPT ![Depth] = r]
    BY <1>2, <1>3, <1>10
  <2>2. r \in Handler
    BY <1>3, <1>4, MovedCode
  <2>3. r.line = Top.line /\ r.at = "print" /\ r.code = {code}
    BY <1>3, <1>4 DEF Handler
  <2> HIDE DEF r
  <2>4. Printing' = {Depth} /\ stack'[Depth] = r
    BY <1>1, <1>3, <1>5, <2>1, <2>2, <2>3, TopChanges
  <2>5. Waiting = {code}
    BY <1>4, <1>10 DEF Waiting
  <2>6. Len(typed) = Len(echo) + 1 /\ code[1] = typed[Len(echo) + 1]
    BY <1>6, <2>5
  <2>7. Keys'
    BY <1>1, <1>4, <1>6, <1>7, <2>3, <2>4, <2>6 DEF Keys
  <2> QED
    BY <1>8, <2>1, <2>2, <2>3, <2>7
<1> QED
  BY <1>9, <1>10

(* The key is printed. *)
LEMMA KeyPrintInv == ASSUME IInv, KeyPrint PROVE IInv'
<1> DEFINE r == At("eoi")
<1>1. /\ Depth > 0 /\ Top.line = Keyboard /\ Top.at = "print"
      /\ Goto("eoi")
      /\ UNCHANGED <<start, irr, isr, ticks, port, accepted, typed>>
  BY DEF KeyPrint, Running
<1>2. r \in Handler /\ r.line = Top.line /\ r.at = "eoi" /\ stack' = [stack EXCEPT ![Depth] = r]
  BY <1>1, GotoIs
<1> HIDE DEF r
<1>3. /\ Depth \in DOMAIN stack /\ stack[Depth] = Top
      /\ ticks \in 0 .. TickMod - 1 /\ isr \subseteq Line
      /\ echo \in Seq(Key) /\ typed \in Seq(Key)
  BY <1>1, StackTypes DEF Top, IInv, FullTypes
<1>4. Late = {} /\ Printing = {Depth}
  <2>1. Depth \in Printing
    BY <1>1, <1>3 DEF Printing
  <2> QED
    BY <1>1, <2>1, TopAlone
<1>5. PICK code \in Code : Top.code = {code} /\ code[1] = typed[Len(echo) + 1]
  BY <1>3, <1>4 DEF IInv, Keys
<1>6. code[1] \in Key /\ echo' = Append(echo, code[1])
  BY <1>5 DEF KeyPrint, Code
<1>7. /\ echo' \in Seq(Key) /\ Len(echo') = Len(echo) + 1
      /\ DOMAIN echo' = 1 .. Len(echo) + 1 /\ DOMAIN echo = 1 .. Len(echo)
      /\ \A i \in 1 .. Len(echo) : echo'[i] = echo[i]
      /\ echo'[Len(echo) + 1] = code[1]
      /\ Len(echo) \in Nat
  BY <1>3, <1>6, AppendProperties, LenProperties
<1>8. FullTypes' /\ Gates'
  BY <1>1, <1>2, <1>3, <1>7, TopTypes
<1>9. Service'
  BY <1>1, <1>2, ServiceStays
<1>10. Places'
  BY <1>1, <1>2, TopPlaces
<1>11. Counted'
  BY <1>1, <1>2, <1>4, TopCounts
<1>12. Keys'
  <2>1. Printing' = {} /\ Waiting' = Waiting
    <3>1. Printing' = {}
      BY <1>1, <1>2, <1>4, TopChanges
    <3> QED
      BY <1>1, <3>1 DEF Waiting
  <2>2. /\ Len(typed) = Len(echo) + 1 + (IF Waiting = {} THEN 0 ELSE 1)
        /\ \A i \in DOMAIN echo : echo[i] = typed[i]
        /\ \A c \in Waiting : c[1] = typed[Len(typed)]
    BY <1>4 DEF IInv, Keys
  <2>3. \A i \in DOMAIN echo' : echo'[i] = typed[i]
    BY <1>5, <1>7, <2>2
  <2>4. Len(typed) = Len(echo') + 0 + (IF Waiting = {} THEN 0 ELSE 1)
    BY <1>7, <2>2
  <2> QED
    BY <1>1, <2>1, <2>2, <2>3, <2>4 DEF Keys
<1> QED
  BY <1>8, <1>9, <1>10, <1>11, <1>12 DEF IInv

(* The end of interrupt takes the handler's own interrupt out of service.  *)
LEMMA EoiInv == ASSUME IInv, NEW line \in Line, Eoi(line) PROVE IInv'
<1> DEFINE r == At("iret")
<1>1. /\ Depth > 0 /\ Top.line = line /\ Top.at = "eoi"
      /\ isr' = isr \ Highest /\ Goto("iret")
      /\ UNCHANGED <<start, irr, ticks, port, echo, accepted, typed>>
  BY DEF Eoi, Running
<1>2. r \in Handler /\ r.line = Top.line /\ r.at = "iret" /\ stack' = [stack EXCEPT ![Depth] = r]
  BY <1>1, GotoIs
<1> HIDE DEF r
<1>3. /\ Depth \in DOMAIN stack /\ stack[Depth] = Top
      /\ ticks \in 0 .. TickMod - 1 /\ isr \subseteq Line /\ echo \in Seq(Key)
  BY <1>1, StackTypes DEF Top, IInv, FullTypes
<1>4. /\ Depth \in Unfinished /\ line \in isr
      /\ \A i \in Unfinished : i # Depth => line < stack[i].line
      /\ \A l \in isr : line <= l
  BY <1>1, TopAlone
<1>5. Highest = {line}
  <2>1. \A l \in isr : l \in Nat
    BY <1>3 DEF Line, Timer, Keyboard, Other
  <2>2. line \in Highest
    BY <1>4 DEF Highest
  <2>3. ASSUME NEW l \in Highest
        PROVE  l = line
    <3>1. l \in isr /\ l <= line /\ line <= l
      BY <1>4 DEF Highest
    <3> QED
      BY <1>4, <2>1, <3>1
  <2> QED
    BY <2>2, <2>3
<1>6. FullTypes' /\ Gates'
  <2>1. isr' \subseteq Line
    BY <1>1, <1>3
  <2> QED
    BY <1>1, <1>2, <1>3, <2>1, TopTypes
<1>7. Service'
  <2>1. /\ Unfinished' = Unfinished \ {Depth} /\ Unfinished \subseteq DOMAIN stack
        /\ \A i \in DOMAIN stack : stack'[i].line = stack[i].line
    BY <1>1, <1>2, TopChanges DEF Unfinished
  <2>2. isr = {stack[i].line : i \in Unfinished}
    BY DEF IInv, Service
  <2>3. \A i \in Unfinished \ {Depth} : stack[i].line # line
    <3>1. \A i \in Unfinished : stack[i].line \in Nat
      BY <2>1, StackTypes
    <3>2. line \in Nat
      BY DEF Line, Timer, Keyboard, Other
    <3> QED
      BY <1>4, <3>1, <3>2
  <2>4. isr \ {line} = {stack[i].line : i \in Unfinished \ {Depth}}
    BY <1>1, <1>3, <2>2, <2>3
  <2>5. {stack'[i].line : i \in Unfinished \ {Depth}} = {stack[i].line : i \in Unfinished \ {Depth}}
    BY <2>1
  <2> QED
    BY <1>1, <1>5, <2>1, <2>4, <2>5 DEF IInv, Service
<1>8. Places'
  BY <1>1, <1>2, TopPlaces
<1>9. Counted'
  <2>1. Depth \notin Late
    BY <1>1, <1>3 DEF Late
  <2> QED
    BY <1>1, <1>2, <2>1, TopCounts
<1>10. Keys'
  BY <1>1, <1>2, TopKeys
<1> QED
  BY <1>6, <1>7, <1>8, <1>9, <1>10 DEF IInv

(* The handler returns to what it interrupted. *)
LEMMA IretInv == ASSUME IInv, NEW line \in Line, Iret(line) PROVE IInv'
<1> DEFINE d == Depth
<1>1. /\ d > 0 /\ Top.at = "iret" /\ stack' = SubSeq(stack, 1, d - 1)
      /\ UNCHANGED <<start, irr, isr, ticks, port, echo, accepted, typed>>
  BY DEF Iret, Running
<1>2. /\ stack \in Seq(Handler) /\ d \in Nat /\ DOMAIN stack = 1 .. d
      /\ stack[d] = Top /\ Len(stack) = d
      /\ \A i \in DOMAIN stack : stack[i] \in Handler
  BY StackTypes DEF Top, Depth
<1> HIDE DEF d
<1>3. /\ stack' \in Seq(Handler) /\ Len(stack') = d - 1 /\ DOMAIN stack' = 1 .. d - 1
      /\ \A i \in 1 .. d - 1 : stack'[i] = stack[i]
  <2>1. 1 \in Int /\ d - 1 \in Int /\ \A i \in 1 .. d - 1 : stack[i] \in Handler
    BY <1>2
  <2>2. /\ stack' \in Seq(Handler)
        /\ Len(stack') = IF 1 <= d - 1 THEN (d - 1) - 1 + 1 ELSE 0
        /\ \A i \in 1 .. (d - 1) - 1 + 1 : stack'[i] = stack[1 + i - 1]
    BY <1>1, <2>1, SubSeqProperties
  <2>3. Len(stack') = d - 1
    BY <1>1, <1>2, <2>2
  <2>4. DOMAIN stack' = 1 .. d - 1
    BY <2>2, <2>3, LenProperties
  <2> QED
    BY <1>2, <2>2, <2>3, <2>4
<1>4. DOMAIN stack = DOMAIN stack' \cup {d} /\ DOMAIN stack' \subseteq DOMAIN stack
  BY <1>1, <1>2, <1>3
<1>5. \A i \in DOMAIN stack' : stack'[i] = stack[i]
  BY <1>3
<1>6. Unfinished' = Unfinished
  <2>1. Unfinished' = {i \in DOMAIN stack' : stack'[i].at # "iret"}
    BY DEF Unfinished
  <2> QED
    BY <1>1, <1>2, <1>4, <1>5, <2>1 DEF Unfinished
<1>7. Late' = Late
  <2>1. Late' = {i \in DOMAIN stack' : stack'[i].line = Timer /\ stack'[i].at \in {"entry", "store"}}
    BY DEF Late
  <2> QED
    BY <1>1, <1>2, <1>4, <1>5, <2>1 DEF Late
<1>8. Printing' = Printing
  <2>1. Printing' = {i \in DOMAIN stack' : stack'[i].at = "print"}
    BY DEF Printing
  <2> QED
    BY <1>1, <1>2, <1>4, <1>5, <2>1 DEF Printing
<1>9. /\ \A i \in Unfinished : stack'[i] = stack[i]
      /\ \A i \in Printing : stack'[i] = stack[i]
  <2>1. Unfinished \subseteq DOMAIN stack' /\ Printing \subseteq DOMAIN stack'
    BY <1>6, <1>8 DEF Unfinished, Printing
  <2> QED
    BY <1>5, <2>1
<1>10. FullTypes' /\ Gates'
  <2>1. Len(stack') <= MaxDepth /\ stack # <<>>
    BY <1>1, <1>2, <1>3 DEF IInv, FullTypes
  <2> QED
    BY <1>1, <1>3, <2>1 DEF IInv, FullTypes, Gates, start
<1>11. Service'
  <2>1. {stack'[i].line : i \in Unfinished} = {stack[i].line : i \in Unfinished}
    BY <1>9
  <2> QED
    BY <1>1, <1>6, <1>9, <2>1 DEF IInv, Service
<1>12. Places'
  BY <1>1, <1>4, <1>5 DEF IInv, Places
<1>13. Counted'
  BY <1>1, <1>7 DEF IInv, Counted
<1>14. Keys'
  <2>1. Waiting' = Waiting
    BY <1>1 DEF Waiting
  <2> QED
    BY <1>1, <1>8, <1>9, <2>1 DEF IInv, Keys
<1> QED
  BY <1>10, <1>11, <1>12, <1>13, <1>14 DEF IInv

LEMMA NextIInv == IInv /\ [Next]_vars => IInv'
<1> SUFFICES ASSUME IInv, [Next]_vars
             PROVE  IInv'
  OBVIOUS
<1>1. CASE UNCHANGED vars
  <2>1. UNCHANGED <<start, irr, isr, stack, ticks, port, echo, accepted, typed>>
    BY <1>1 DEF vars
  <2>2. Service' /\ Places' /\ Counted' /\ Keys'
    BY <2>1, SameStack, SameKeys
  <2> QED
    BY <2>1, <2>2 DEF IInv, FullTypes, Gates, start
<1>2. CASE Step
  BY <1>2, TickLoadInv, TickStoreInv, KeyReadInv, KeyPrintInv, EoiInv, IretInv DEF Step
<1> QED
  BY <1>1, <1>2, TimerRisesInv, OtherRisesInv, KeyEventInv, DeliverInv, NmiInv, StartupInv DEF Next

(* Gates, interrupts in service, handlers, ticks and keys fit together at  *)
(* every statement of every handler (P/isr.asm, P/pic.c).                  *)
THEOREM InterruptInv == Spec => []IInv
BY InitIInv, NextIInv, PTL DEF Spec

-----------------------------------------------------------------------------
(* The properties *)

LEMMA IInvTypes == IInv => Types
<1> SUFFICES ASSUME IInv
             PROVE  Types
  OBVIOUS
<1>1. Cardinality(port) <= 1
  <2>1. CASE port = {}
    <3>1. Cardinality(port) = 0
      BY <2>1, FS_EmptySet
    <3> QED
      BY <3>1
  <2>2. ASSUME NEW code \in Code, port = {code}
        PROVE  Cardinality(port) <= 1
    <3>1. Cardinality(port) = 1
      BY <2>2, FS_Singleton
    <3> QED
      BY <3>1
  <2> QED
    BY <2>1, <2>2 DEF IInv, FullTypes
<1>2. port \subseteq Code
  BY DEF IInv, FullTypes
<1> QED
  BY <1>1, <1>2, OrderIs DEF IInv, FullTypes, Types

(* However handlers interrupt one another, the end of interrupt, which     *)
(* names no line, ends the interrupt of the handler that sends it          *)
(* (pic_eoi).                                                              *)
THEOREM EoiOwnHolds == Spec => []EoiOwn
<1>1. ASSUME IInv
      PROVE  EoiOwn
  <2>1. ASSUME NEW i \in Unfinished, NEW j \in Unfinished, stack[i].line = stack[j].line
        PROVE  i = j
    <3>1. /\ i \in Int /\ j \in Int
          /\ stack[i].line \in Nat /\ stack[j].line \in Nat
      BY <1>1, StackTypes DEF Unfinished
    <3>2. ~ (i < j) /\ ~ (j < i)
      BY <1>1, <2>1, <3>1 DEF IInv, Service
    <3> QED
      BY <3>1, <3>2
  <2> QED
    BY <1>1, <2>1, IInvTypes DEF IInv, Service, EoiOwn
<1> QED
  BY <1>1, InterruptInv, PTL

(* No timer or keyboard interrupt ever meets isr_common_handler, which     *)
(* does not return: main enables interrupts when their own handlers are    *)
(* behind the gates (main.c, 124-130).                                     *)
THEOREM NoStrayHolds == Spec => []NoStray
<1>1. IInv => NoStray
  BY DEF IInv, Places, NoStray
<1> QED
  BY <1>1, InterruptInv, PTL

(* time_ticks counts every timer interrupt delivered, but for the one      *)
(* whose handler has not stored it yet, in whatever statement handlers are *)
(* interrupted (isr_system_timer_handler).                                 *)
THEOREM TicksExactHolds == Spec => []TicksExact
<1>1. ASSUME IInv
      PROVE  TicksExact
  <2>1. Late \subseteq {i \in Unfinished : stack[i].line = Timer}
    BY DEF Late, Unfinished
  <2>2. \A i, j \in Late : i = j
    <3>1. ASSUME NEW i \in Late, NEW j \in Late
          PROVE  ~ (i < j)
      <4>1. i \in Unfinished /\ j \in Unfinished /\ stack[i].line = Timer /\ stack[j].line = Timer
        BY <2>1
      <4>2. ASSUME i < j
            PROVE  FALSE
        <5>1. stack[j].line < stack[i].line
          BY <1>1, <4>1, <4>2 DEF IInv, Service
        <5> QED
          BY <4>1, <5>1 DEF Timer
      <4> QED
        BY <4>2
    <3>2. \A i \in Late : i \in Int
      BY <1>1, StackTypes DEF Late
    <3> QED
      BY <3>1, <3>2
  <2>3. CASE Late = {}
    <3>1. Cardinality(Late) = 0
      BY <2>3, FS_EmptySet
    <3>2. accepted = ticks /\ ticks \in 0 .. TickMod - 1
      BY <1>1, <2>3 DEF IInv, Counted, FullTypes
    <3>3. (ticks + 0) % TickMod = ticks
      BY <3>2
    <3> QED
      BY <3>1, <3>2, <3>3 DEF TicksExact, Late
  <2>4. CASE Late # {}
    <3>1. \E i \in Late : Late = {i}
      BY <2>2, <2>4
    <3>2. Cardinality(Late) = 1
      BY <3>1, FS_Singleton
    <3>3. accepted = (ticks + 1) % TickMod
      BY <1>1, <2>4 DEF IInv, Counted
    <3> QED
      BY <3>2, <3>3 DEF TicksExact, Late
  <2> QED
    BY <2>3, <2>4
<1> QED
  BY <1>1, InterruptInv, PTL

(* Keys are printed once each and in the order in which they were pressed, *)
(* although the keyboard's handler is interrupted and interrupts others    *)
(* (isr_ps2_keyboard_interrupt_handler).                                   *)
THEOREM KeysInOrderHolds == Spec => []KeysInOrder
<1>1. ASSUME IInv
      PROVE  KeysInOrder
  <2>1. Len(echo) \in Nat /\ Len(typed) \in Nat
    BY <1>1, LenProperties DEF IInv, FullTypes
  <2>2. Len(typed) = Len(echo) + (IF Printing = {} THEN 0 ELSE 1)
                               + (IF Waiting = {} THEN 0 ELSE 1)
    BY <1>1 DEF IInv, Keys
  <2>3. \E more \in Nat : Len(typed) = Len(echo) + more
    <3>1. CASE Printing = {}
      <4>1. CASE Waiting = {}
        BY <2>1, <2>2, <3>1, <4>1
      <4>2. CASE Waiting # {}
        BY <2>1, <2>2, <3>1, <4>2
      <4> QED
        BY <4>1, <4>2
    <3>2. CASE Printing # {}
      <4>1. CASE Waiting = {}
        BY <2>1, <2>2, <3>2, <4>1
      <4>2. CASE Waiting # {}
        <5>1. Len(typed) = Len(echo) + 1 + 1
          BY <2>2, <3>2, <4>2
        <5>2. Len(typed) = Len(echo) + 2
          BY <2>1, <5>1
        <5> QED
          BY <5>2
      <4> QED
        BY <4>1, <4>2
    <3> QED
      BY <3>1, <3>2
  <2>4. Len(echo) <= Len(typed)
    BY <2>1, <2>3
  <2> QED
    BY <1>1, <2>4 DEF IInv, Keys, KeysInOrder
<1> QED
  BY <1>1, InterruptInv, PTL
=============================================================================
