------------------------ MODULE MCObservationStream ------------------------
(***************************************************************************)
(* Small instances of ObservationStream for TLC.  Two result times and     *)
(* nodes that are full with one or two members stand for the clock and the *)
(* 50 of the default filter.                                               *)
(***************************************************************************)
EXTENDS ObservationStream, TLC

CONSTANTS o1, o2, o3, o4, c1, c2

MCTimes == 1..2
============================================================================
