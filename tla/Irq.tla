-------------------------------- MODULE Irq ---------------------------------
(***************************************************************************)
(* Hardware interrupts of the 32-bit kernel: how main sets them up         *)
(* (pic_init, interrupt_init, pit_init, keyboard_init, sti), the handlers  *)
(* of the timer (P/pit.c) and of the keyboard (P/keyboard.c) behind trap   *)
(* gates, which leave interrupts enabled, the end of interrupt they send   *)
(* (P/pic.c), and the handlers from which the kernel does not return       *)
(* (P/interrupt.c).                                                        *)
(* A handler is therefore interrupted itself, by any line the interrupt    *)
(* controller lets through: one of higher priority at once, its own and    *)
(* lower ones as soon as it has sent its end of interrupt.                 *)
(*                                                                         *)
(* The interrupt controller and the keyboard's are the hardware and        *)
(* external.  Line 0 is the timer, line 1 the keyboard, line 7 any line of *)
(* a device without a driver; the second interrupt controller is idle.     *)
(* kprintf of a key is one step: Kprintf models it.                        *)
(*                                                                         *)
(* Faulty variants, which nothing uses, stand in front of their            *)
(* definitions: OrderStiFirst, AfterEntryEoi, AfterReadEoi,                *)
(* ReleasedReturns.                                                        *)
(***************************************************************************)
EXTENDS Integers, Sequences, FiniteSets

CONSTANTS
  Key,        \* the keys
  MaxKeys,    \* bound: keys pressed
  MaxDepth,   \* bound: handlers on the stack
  TickMod     \* time_ticks is counted modulo this: 2^32

Timer    == 0
Keyboard == 1
Other    == 7
Line     == {Timer, Keyboard, Other}

(* A scan code: a key pressed, or released (codes from 128 on). *)
Code == Key \X {"pressed", "released"}

ASSUME IrqAssumption ==
  /\ MaxKeys \in Nat
  /\ MaxDepth \in Nat \ 0 .. 2
  /\ TickMod \in Nat \ {0}

VARIABLES
  done,      \* how many steps of Order main has taken
  halted,    \* a handler hangs with interrupts disabled
  mask,      \* the lines the interrupt controller does not let through
  gate,      \* what the gate of a line leads to
  irr,       \* lines that request an interrupt
  isr,       \* lines whose interrupt is in service
  stack,     \* the handlers that run, each interrupting the one before it
  ticks,     \* time_ticks
  port,      \* the scan code in the keyboard controller, or none: a set
  echo,      \* the keys printed
  early,     \* auxiliary: a code was waiting when pic_init reset the controller
  accepted,  \* auxiliary: timer interrupts delivered, modulo TickMod
  typed      \* auxiliary: the keys pressed, in their order

start == <<done, halted, mask, gate, early>>
vars  == <<start, irr, isr, stack, ticks, port, echo, accepted, typed>>

(* A running handler: its line, the statement it is at, and what it has    *)
(* read and not used yet, of time_ticks or of the keyboard controller.     *)
Handler == [line : Line, at : {"entry", "store", "print", "eoi", "iret", "hung"},
            loaded : 0 .. TickMod - 1, code : SUBSET Code]

(* The loader leaves interrupts disabled, and the masks of the BIOS. *)
Init ==
  /\ done = 0 /\ halted = FALSE /\ early = FALSE
  /\ mask \in SUBSET Line
  /\ gate = [line \in Line |-> "none"]
  /\ irr = {} /\ isr = {}
  /\ stack = <<>>
  /\ ticks = 0 /\ accepted = 0
  /\ port = {}
  /\ echo = <<>> /\ typed = <<>>

-----------------------------------------------------------------------------
(* How main sets interrupts up *)

OrderStiFirst == <<"pic", "idt", "pit", "sti", "keyboard">>
Order == <<"pic", "idt", "pit", "keyboard", "sti">>

Passed(step) == \E i \in 1 .. done : Order[i] = step
Enabled      == Passed("sti") /\ ~halted

(* main takes its next step: it runs when no handler does. *)
Starts(step) ==
  /\ ~halted /\ stack = <<>>
  /\ done < Len(Order) /\ Order[done + 1] = step
  /\ done' = done + 1
  /\ UNCHANGED <<halted, isr, stack, ticks, port, echo, accepted, typed>>

(* pic_init maps the lines to their vectors and puts the masks back.  The  *)
(* controller forgets the requests it has seen and waits for a line to     *)
(* rise again.                                                             *)
PicInit ==
  /\ Starts("pic")
  /\ irr' = {}
  /\ early' = (port # {})
  /\ UNCHANGED <<mask, gate>>

(* interrupt_init: the gates of all lines lead to isr_common_handler. *)
InterruptInit ==
  /\ Starts("idt")
  /\ gate' = [line \in Line |-> "common"]
  /\ UNCHANGED <<mask, irr, early>>

PitInit ==
  /\ Starts("pit")
  /\ gate' = [gate EXCEPT ![Timer] = "own"]
  /\ UNCHANGED <<mask, irr, early>>

(* keyboard_init also lets the line through; the timer's stays as it is. *)
KeyboardInit ==
  /\ Starts("keyboard")
  /\ mask' = mask \ {Keyboard}
  /\ gate' = [gate EXCEPT ![Keyboard] = "own"]
  /\ UNCHANGED <<irr, early>>

Sti == Starts("sti") /\ UNCHANGED <<mask, gate, irr, early>>

Startup == PicInit \/ InterruptInit \/ PitInit \/ KeyboardInit \/ Sti

-----------------------------------------------------------------------------
(* The hardware *)

(* The timer's line rises; a request that is pending already is not        *)
(* counted twice.                                                          *)
TimerRises ==
  /\ irr' = irr \cup {Timer}
  /\ UNCHANGED <<start, isr, stack, ticks, port, echo, accepted, typed>>

(* So does the line of a device that the kernel has no driver for. *)
OtherRises ==
  /\ irr' = irr \cup {Other}
  /\ UNCHANGED <<start, isr, stack, ticks, port, echo, accepted, typed>>

(* The keyboard controller holds one code until it is read. *)
KeyEvent(code) ==
  /\ port = {}
  /\ port' = {code}
  /\ IF code[2] = "pressed"
     THEN Len(typed) < MaxKeys /\ typed' = Append(typed, code[1])
     ELSE UNCHANGED typed
  /\ irr' = irr \cup {Keyboard}
  /\ UNCHANGED <<start, isr, stack, ticks, echo, accepted>>

(* A line gets through when it and all lines of higher priority are out of *)
(* service.  Behind its gate is the stub of P/isr.asm, or                  *)
(* isr_common_handler, which hangs and never ends the interrupt.           *)
Deliver(line) ==
  /\ Enabled
  /\ line \in irr \ mask
  /\ \A l \in isr : line < l
  /\ Len(stack) < IF gate[line] = "own" THEN MaxDepth ELSE MaxDepth - 2
  /\ irr' = irr \ {line}
  /\ isr' = isr \cup {line}
  /\ stack' = Append(stack, [line |-> line, loaded |-> 0, code |-> {},
                             at |-> IF gate[line] = "own" THEN "entry" ELSE "hung"])
  /\ accepted' = IF line = Timer THEN (accepted + 1) % TickMod ELSE accepted
  /\ UNCHANGED <<start, ticks, port, echo, typed>>

(* A non-maskable interrupt: its stub disables interrupts, and its handler *)
(* hangs.                                                                  *)
Nmi ==
  /\ Passed("idt") /\ ~halted
  /\ halted' = TRUE
  /\ UNCHANGED <<done, mask, gate, early, irr, isr, stack, ticks, port, echo, accepted, typed>>

(* What an end of interrupt that names no line takes out of service. *)
Highest == {l \in isr : \A m \in isr : l <= m}

-----------------------------------------------------------------------------
(* The handlers: only the last one on the stack runs. *)

Depth == Len(stack)
Top   == stack[Depth]
Running(line, at) == ~halted /\ Depth > 0 /\ Top.line = line /\ Top.at = at

Goto(at) ==
  stack' = [stack EXCEPT ![Depth] = [@ EXCEPT !.at = at, !.loaded = 0, !.code = {}]]

(* time_ticks++ is a load and a store; the counter has 32 bits. *)
Wrapped(n) == n % TickMod

AfterEntryEoi == isr \ {Timer}
AfterEntry == isr

TickLoad ==
  /\ Running(Timer, "entry")
  /\ stack' = [stack EXCEPT ![Depth].at = "store", ![Depth].loaded = ticks]
  /\ isr' = AfterEntry
  /\ UNCHANGED <<start, irr, ticks, port, echo, accepted, typed>>

TickStore ==
  /\ Running(Timer, "store")
  /\ ticks' = Wrapped(Top.loaded + 1)
  /\ Goto("eoi")
  /\ UNCHANGED <<start, irr, isr, port, echo, accepted, typed>>

(* inb(0x60); a release is not printed. *)
AfterReadEoi == isr \ {Keyboard}
AfterRead == isr

ReleasedReturns == "iret"
Released == "eoi"

KeyRead ==
  /\ Running(Keyboard, "entry")
  /\ \E code \in port :
       IF code[2] = "released" THEN Goto(Released)
       ELSE stack' = [stack EXCEPT ![Depth].at = "print", ![Depth].code = port]
  /\ port' = {}
  /\ isr' = AfterRead
  /\ UNCHANGED <<start, irr, ticks, echo, accepted, typed>>

KeyPrint ==
  /\ Running(Keyboard, "print")
  /\ \E code \in Top.code : echo' = Append(echo, code[1])
  /\ Goto("eoi")
  /\ UNCHANGED <<start, irr, isr, ticks, port, accepted, typed>>

(* pic_eoi *)
Eoi(line) ==
  /\ Running(line, "eoi")
  /\ isr' = isr \ Highest
  /\ Goto("iret")
  /\ UNCHANGED <<start, irr, ticks, port, echo, accepted, typed>>

Iret(line) ==
  /\ Running(line, "iret")
  /\ stack' = SubSeq(stack, 1, Depth - 1)
  /\ UNCHANGED <<start, irr, isr, ticks, port, echo, accepted, typed>>

Step ==
  \/ TickLoad \/ TickStore
  \/ KeyRead \/ KeyPrint
  \/ \E line \in Line : Eoi(line) \/ Iret(line)

Next ==
  \/ TimerRises \/ OtherRises
  \/ \E code \in Code : KeyEvent(code)
  \/ \E line \in Line : Deliver(line)
  \/ Nmi
  \/ Startup
  \/ Step

(* The processor goes on, and interrupts do not come so fast that the      *)
(* handlers from some depth on are interrupted before every statement, or  *)
(* the keyboard's line never gets through: the timer ticks about once in a *)
(* millisecond (pit_init), a handler takes microseconds.                   *)
StepAt(d) == Depth = d /\ Step

Fairness ==
  /\ WF_vars(Startup)
  /\ \A d \in 1 .. MaxDepth : SF_vars(StepAt(d))
  /\ SF_vars(Deliver(Keyboard))

Spec == Init /\ [][Next]_vars /\ Fairness

-----------------------------------------------------------------------------
(* Properties *)

Types ==
  /\ done \in 0 .. Len(Order) /\ halted \in BOOLEAN /\ early \in BOOLEAN
  /\ mask \subseteq Line /\ gate \in [Line -> {"none", "common", "own"}]
  /\ irr \subseteq Line /\ isr \subseteq Line
  /\ stack \in Seq(Handler) /\ Len(stack) <= MaxDepth
  /\ ticks \in 0 .. TickMod - 1 /\ accepted \in 0 .. TickMod - 1
  /\ port \subseteq Code /\ Cardinality(port) <= 1
  /\ echo \in Seq(Key) /\ typed \in Seq(Key)

Unfinished == {i \in DOMAIN stack : stack[i].at # "iret"}

(* The lines in service are those of the handlers that have not sent their *)
(* end of interrupt, one handler each: the end of interrupt, which names   *)
(* no line, always ends the handler's own interrupt, however handlers      *)
(* interrupt one another (pic_eoi).                                        *)
EoiOwn ==
  /\ Types
  /\ isr = {stack[i].line : i \in Unfinished}
  /\ \A i, j \in Unfinished : stack[i].line = stack[j].line => i = j

(* The only handlers that hang are those of devices without a driver: no   *)
(* timer or keyboard interrupt comes before its own handler is behind the  *)
(* gate, whatever was pending or masked when main began (main, 124-130).   *)
NoStray == \A i \in DOMAIN stack : stack[i].at = "hung" => stack[i].line = Other

(* No tick is lost between the load and the store of time_ticks++: it      *)
(* counts every timer interrupt but the one whose handler is not there yet *)
(* (isr_system_timer_handler).                                             *)
TicksExact ==
  LET late == {i \in DOMAIN stack : stack[i].line = Timer /\ stack[i].at \in {"entry", "store"}}
  IN  (ticks + Cardinality(late)) % TickMod = accepted

(* Keys are printed in the order in which they were pressed, each once     *)
(* (isr_ps2_keyboard_interrupt_handler).                                   *)
KeysInOrder ==
  /\ Len(echo) <= Len(typed)
  /\ \A i \in DOMAIN echo : echo[i] = typed[i]

(* Every key is printed in the end, also while the program is stuck in a   *)
(* handler of a device without a driver: no code stays in the keyboard     *)
(* controller, whose line rises only once for it.  Two things stop it: a   *)
(* non-maskable interrupt, and a code that was waiting when pic_init reset *)
(* the interrupt controller, which nothing reads (keyboard_init).          *)
EveryKeyPrinted ==
  \A n \in 1 .. MaxKeys : Len(typed) >= n ~> Len(echo) >= n \/ early \/ halted
=============================================================================
