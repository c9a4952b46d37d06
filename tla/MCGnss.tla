------------------------------- MODULE MCGnss -------------------------------
(***************************************************************************)
(* Gnss for TLC, up to the first race: what the properties of this run say *)
(* ends there, and no step takes a race back.  Every other interleaving of *)
(* the two tasks in the list is explored; GnssOverlap.cfg goes on after a  *)
(* race.                                                                   *)
(***************************************************************************)
EXTENDS Gnss

NotRaced == ~raced
=============================================================================
