----------------------------- MODULE MCStartup ------------------------------
(* Values for the constants of Startup.                                    *)
EXTENDS Startup

MCGeometry == {[secs |-> 7, large |-> FALSE], [secs |-> 63, large |-> FALSE],
               [secs |-> 63, large |-> TRUE]}

(* Information with a name of the loader in front of the map or behind it, *)
(* whose size is not a multiple of eight.                                  *)
MCOtherInfo ==
  {[descs |-> <<"ram", "rom">>,
    table |-> {Tag(8, 2, 21, 0, <<>>), Tag(32, 6, 64, 24, <<"ram", "rom">>),
               Tag(96, 0, 8, 0, <<>>)}],
   [descs |-> <<"ram">>,
    table |-> {Tag(8, 6, 40, 24, <<"ram">>), Tag(48, 4, 16, 0, <<>>), Tag(64, 21, 12, 0, <<>>),
               Tag(80, 0, 8, 0, <<>>)}]}

MCPlace(text, units, sum, phys, info2) ==
  [text |-> text, units |-> units, sum |-> sum, phys |-> phys, info2 |-> info2]

Nothing   == MCPlace(<<>>, 0, 0, FALSE, FALSE)
Structure == MCPlace(FpsSig \o <<16>>, 1, 0, TRUE, FALSE)
Imcr      == MCPlace(FpsSig \o <<16>>, 1, 0, TRUE, TRUE)
Damaged   == MCPlace(FpsSig, 1, 3, TRUE, FALSE)
Beginning == MCPlace(<<95>>, 0, 95, FALSE, FALSE)
Places    == {Nothing, Structure, Imcr, Damaged, Beginning}

MCEntry(type, id) == [type |-> type, id |-> id]
MCConf ==
  {[text |-> ConfSig, sum |-> sum, entries |-> entries] : sum \in {0, 1}, entries \in
     {<<MCEntry("proc", 0), MCEntry("bus", 0), MCEntry("proc", 2), MCEntry("ioapic", 3)>>,
      <<MCEntry("proc", 1), MCEntry("proc", 0), MCEntry("proc", 3), MCEntry("iointr", 0)>>,
      <<MCEntry("proc", 1), MCEntry("unknown", 0), MCEntry("proc", 3), MCEntry("bus", 0)>>}}

MCMachine == [areas : {<<a, b, c>> : a \in {<<x, y>> : x, y \in Places},
                                     b \in {<<x>> : x \in Places},
                                     c \in {<<x>> : x \in Places}},
              conf : MCConf]
=============================================================================
