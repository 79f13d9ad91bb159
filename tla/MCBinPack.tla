------------------------------ MODULE MCBinPack ------------------------------
(***************************************************************************)
(* BinPack for TLC: four packs, media with and without room for parity and *)
(* metadata.                                                               *)
(***************************************************************************)
EXTENDS BinPack

MCPacks == 1..4

\* Empty packs, equal packs, and packs of nearly a volume.
MCSizes == {0, 1, 2, 3, 5}

\* From no reserve to one that takes the whole medium.
MCReserves == {0, 2, 6, 7}

=============================================================================
