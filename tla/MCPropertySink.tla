--------------------------- MODULE MCPropertySink ---------------------------
(***************************************************************************)
(* Small instances of PropertySink for TLC.  c1 is a frame of the objects  *)
(* o1 and o2, c2 a frame of the others.                                    *)
(***************************************************************************)
EXTENDS PropertySink

CONSTANTS o1, o2, o3, c1, c2, p1, p2

MCOneTime == {1}

MCFrameOf == [o \in Obs |-> IF o \in {o1, o2} THEN c1 ELSE c2]

(* One onPush of an array of frames, or one for each frame. *)
TogetherPushOf == [f \in Creations |-> p1]
ApartPushOf == [f \in Creations |-> IF f = c1 THEN p1 ELSE p2]
=============================================================================
