------------------------------ MODULE ObjectMap ------------------------------
(***************************************************************************)
(* What SolidDataDriver promises a client that awaits each call for an     *)
(* object before the next one for it, with no document, link or request in *)
(* sight: a map from objects to what was inserted of them.  A call takes   *)
(* effect in one step, the one in which it ends: it is resolved, rejected, *)
(* or never answered, because it hangs or its application has ended.  One  *)
(* that is not resolved may have taken effect, wholly, as the answer to a  *)
(* request may be lost.  Objects may lie within others, as the fragments   *)
(* of a document do in what has the URL of the document, and may be        *)
(* deleted with them.  ObjectStore implements it.                          *)
(***************************************************************************)
CONSTANTS
    Inserts, Deletes,   \* calls
    ObjectOf,           \* ObjectOf[c]: the object of a call
    Within              \* Within[o]: the objects that may go when o is deleted

VARIABLES
    data,     \* the inserts whose data is held
    answer    \* how each call has ended

vars == <<data, answer>>

Init ==
    /\ data = {}
    /\ answer = [c \in Inserts \union Deletes |-> "none"]

End(c, a) ==
    /\ answer[c] = "none"
    /\ answer' = [answer EXCEPT ![c] = a]

(* What was inserted before stays beside it. *)
Insert(i) ==
    /\ \E a \in {"resolved", "rejected", "never"} : End(i, a)
    /\ data' = data \union {i}

(* Everything of the object goes. *)
Delete(x) ==
    /\ \E a \in {"resolved", "rejected", "never"} : End(x, a)
    /\ \E gone \in SUBSET data :
        /\ \A i \in data : ObjectOf[i] = ObjectOf[x] => i \in gone
        /\ \A i \in gone : ObjectOf[i] \in Within[ObjectOf[x]]
        /\ data' = data \ gone

Fail(c) ==
    /\ End(c, "rejected") \/ End(c, "never")
    /\ UNCHANGED data

Next ==
    \/ \E i \in Inserts : Insert(i)
    \/ \E x \in Deletes : Delete(x)
    \/ \E c \in Inserts \union Deletes : Fail(c)

Spec == Init /\ [][Next]_vars
==============================================================================
