---------------------------- MODULE MCCdfMemTrack ----------------------------
(* Five addresses, one of them a preallocated-pool block, and multi-page  *)
(* sets of up to two elements.                                             *)
EXTENDS CdfMemTrack

MCNBlocks == 5
MCPool == {5}
MCMaxElem == 2
====
