--------------------------- MODULE MC_PlaceSelect ---------------------------
(* The Place Selector over the instantiations of MC_PlaceTable.            *)
EXTENDS MC_PlaceTable, PlaceSelect
=============================================================================
