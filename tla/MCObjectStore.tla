--------------------------- MODULE MCObjectStore ---------------------------
(***************************************************************************)
(* Small instances of ObjectStore for TLC: a and b share a document, which *)
(* is that of the URL of a; c has a document of its own.                   *)
(***************************************************************************)
EXTENDS ObjectStore

CONSTANTS a, b, c, d1, d2, i1, i2, i3, x1, x2, x3

MCDocOf == [o \in Objects |-> IF o = c THEN d2 ELSE d1]

(* The calls i3 and x3 are for the second object, all others for a. *)
MCObjectOf ==
    [k \in Calls |->
        IF k \notin {i3, x3} THEN a ELSE CHOOSE o \in Objects : o # a]
============================================================================
