------------------------------- MODULE MCAhci -------------------------------
(* Values for the constants of Ahci. *)
EXTENDS Ahci, TLC

CONSTANT Counts    \* the sector counts callers ask for

MCRequest ==
  [write : BOOLEAN, lba : {0, 2}, count : Counts, buf : {0, 1}]

PortWith(sig) ==
  [implemented |-> TRUE, det |-> "present", ipm |-> "active", sig |-> sig]
Sata == PortWith("SATA")

(* Registers of the functions of a PC: ids and last bar.                  *)
Func(ids, bar) == 0 :> ids @@ 9 :> bar

AhciAt(bar) == Func(<<134, 128, 34, 41>>, bar)
Bridge      == Func(<<134, 128, 192, 41>>, <<0, 0, 0, 0>>)
Usb         == Func(<<134, 128, 24, 41>>, <<0, 0, 0, 0>>)

(* The space of the functions at the places <<bus, dev, func>>.            *)
Space(at) ==
  [r \in {p \o <<n>> : p \in DOMAIN at, n \in {0, 9}} |-> at[<<r[1], r[2], r[3]>>][r[4]]]

High == AhciAt(<<0, 64, 189, 254>>)
Low  == AhciAt(<<0, 16, 189, 254>>)

(* No controller but one behind other functions; one or two drives among   *)
(* other ports; two controllers.                                           *)
MCMachine ==
  {[config |-> Space(<<0, 0, 0>> :> Bridge @@ <<0, 31, 0>> :> Usb @@ <<0, 31, 2>> :> Low),
    ports |-> <<Sata>>],
   [config |-> Space(<<0, 0, 0>> :> Bridge @@ <<0, 3, 0>> :> High),
    ports |-> <<[Sata EXCEPT !.implemented = FALSE], Sata, PortWith("PM")>>],
   [config |-> Space(<<1, 2, 0>> :> Low @@ <<0, 31, 0>> :> High @@ <<0, 31, 2>> :> Low),
    ports |-> <<Sata, [Sata EXCEPT !.ipm = "asleep"], Sata>>]}
=============================================================================
