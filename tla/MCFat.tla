------------------------------- MODULE MCFat --------------------------------
(* Values for the constants of Fat.                                        *)
EXTENDS Fat

(* Four clusters: two FATs of four sectors behind one reserved sector,     *)
(* then two clusters and the system directory's, at one sector each.       *)
MCBpb == [f16_ts |-> 0, f32_ts |-> 16, bps |-> 512, spc |-> 1,
          reserved_sector_count |-> 1, fat_num |-> 2,
          fat16_region_size |-> 0, fat32_region_size |-> 4]

(* With pieces of two characters: one piece with and without room for the  *)
(* zero, and five pieces, of which three files fill the cluster's sixteen  *)
(* slots.  One name begins another; one path has a slash, and one ends in  *)
(* it.  One is the name of the root directory.                             *)
MCRootName == <<8>>
MCPath == {<<1>>, <<9, 1, 2>>, <<2, 1, 1, 1, 1, 1, 1, 1, 1>>, <<2, 2>>, <<8>>, <<2, 9>>}
=============================================================================
