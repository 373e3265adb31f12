------------------------------- MODULE TreeNode -------------------------------
(***************************************************************************)
(* tree:Node.getChildNode and the relations of a node, which grow at their *)
(* end: the relations whose test a value passes are sorted by their own    *)
(* value, and the last one leads to the child.                             *)
(* A value is a number or a Date; one that is 0 is no value to the code.   *)
(***************************************************************************)
EXTENDS Integers, FiniteSets, Sequences, SequencesExt

CONSTANTS
    Numbers,        \* the numbers, or times, that relations and lookups are for
    MaxRelations

ASSUME NumbersAssumption == Numbers \subseteq Nat /\ MaxRelations \in Nat

VARIABLE treeRelations    \* the relations of the node, in order

RelationKinds == {"GreaterThanOrEqualTo", "GreaterThan", "LessThanOrEqualTo", "LessThan"}
Value == [type : {"number", "Date"}, n : Numbers]
Relation == [kind : RelationKinds, value : Value, node : 1..MaxRelations]

TreeNodeTypeOK == treeRelations \in Seq(Relation) /\ Len(treeRelations) <= MaxRelations

TreeNodeInit == treeRelations = <<>>

----------------------------------------------------------------------------
(* test: a Date compares as its time, also with a number. *)
Test(r, v) ==
    CASE r.kind = "GreaterThanOrEqualTo" -> v.n >= r.value.n
      [] r.kind = "GreaterThan" -> v.n > r.value.n
      [] r.kind = "LessThanOrEqualTo" -> v.n <= r.value.n
      [] r.kind = "LessThan" -> v.n < r.value.n

(* `r.value && r.test(value)`: 0 is falsy, the Date of time 0 is not. *)
Truthy(v) == v.type = "Date" \/ v.n # 0

(* The comparison of sort: in one type by number or time; as strings, the  *)
(* digits of a number come before the weekday of a Date.                   *)
Before(v, w) == IF v.type = w.type THEN v.n < w.n ELSE v.type = "number"

(* A stable sort leaves what compares as equal in the order it was in. *)
Precedes(i, j) ==
    LET v == treeRelations[i].value
        w == treeRelations[j].value
    IN  Before(v, w) \/ (~Before(w, v) /\ i < j)

(* What sort may make of the relations at some positions. *)
Sorted(S) ==
    {order \in [1..Cardinality(S) -> S] :
        /\ \A j, k \in DOMAIN order : j < k => Precedes(order[j], order[k])
        /\ \A i \in S : \E j \in DOMAIN order : order[j] = i}

(* Mutant of Passing: what a value is not tested for passes as well. *)
PassingUntested(v) == {i \in DOMAIN treeRelations : Truthy(treeRelations[i].value)}

(* The positions of the relations that are filtered out for v. *)
Passing(v) ==
    {i \in DOMAIN treeRelations : Truthy(treeRelations[i].value) /\ Test(treeRelations[i], v)}

(* Mutant of GetChildNode: the relations stay in the order they were added. *)
GetLastAdded(v) ==
    IF Passing(v) = {} THEN <<>>
    ELSE <<treeRelations[CHOOSE i \in Passing(v) : \A j \in Passing(v) : j <= i]>>

(* The relation that is chosen, if any is: the last one. *)
GetChildNode(v) ==
    LET order == CHOOSE order \in Sorted(Passing(v)) : TRUE
    IN  IF Passing(v) = {} THEN <<>> ELSE <<treeRelations[order[Cardinality(Passing(v))]]>>

(* Mutant of AddRelation: the node is numbered from zero. *)
AddRelationFromZero ==
    /\ Len(treeRelations) < MaxRelations
    /\ \E k \in RelationKinds, v \in Value :
          treeRelations' = Append(treeRelations,
                             [kind |-> k, value |-> v, node |-> Len(treeRelations)])

(* The service pushes a relation to a new node, or a node is read. *)
AddRelation ==
    /\ Len(treeRelations) < MaxRelations
    /\ \E k \in RelationKinds, v \in Value :
          treeRelations' = Append(treeRelations,
                             [kind |-> k, value |-> v, node |-> Len(treeRelations) + 1])

TreeNodeNext == AddRelation

TreeNodeSpec == TreeNodeInit /\ [][TreeNodeNext]_treeRelations

----------------------------------------------------------------------------
OfOneType(type) == \A r \in ToSet(treeRelations) : r.value.type = type

(* While all relations have values of one type, the child is the one with  *)
(* the greatest value of those whose test the value passes, whatever the   *)
(* order they were added in; of two with one value it is the later one.    *)
(* The reference is a definition by maximum, the code sorts.               *)
GreatestChosen ==
    \A type \in {"number", "Date"} : OfOneType(type) =>
        \A v \in Value :
            LET passing == {r \in ToSet(treeRelations) : Truthy(r.value) /\ Test(r, v)}
                greatest == {r \in passing : \A q \in passing : q.value.n <= r.value.n}
            IN  GetChildNode(v) = IF passing = {} THEN <<>>
                                  ELSE <<CHOOSE r \in greatest :
                                            \A q \in greatest : q.node <= r.node>>

(* A relation that is added takes lookups to its own node and moves no     *)
(* other: with values of any types, what was found at an old node before   *)
(* stays there or goes to the new one, and only if it passes its test.     *)
LookupsStay ==
    [][\A v \in Value :
         LET new == Last(treeRelations')
         IN  GetChildNode(v)' # GetChildNode(v) =>
                 GetChildNode(v)' = <<new>> /\ Test(new, v)]_treeRelations
============================================================================
