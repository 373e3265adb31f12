------------------------------ MODULE MCService ------------------------------
(***************************************************************************)
(* Small instances, for TLC, of the parts of SolidService and its models   *)
(* that share no state: a behaviour is one of the module that `part` names.*)
(***************************************************************************)
EXTENDS DatasetSubscription, RecursiveDelete, AccessControl, TreeNode, PodReads, TLC

CONSTANTS
    n1, n2, n3, n4,
    root, sub, leaf, extra, file, d1, d2, d3,
    c1, c2, c3, c4, c5, alice, bob, carol, a1, a2, a3,
    q1, f1, g1, st1, t1, page,
    MaxReads    \* bound: calls of PodReads in one behaviour

VARIABLE part

serviceVars ==
    <<part, subscriptionVars, deleteVars, accessVars, treeRelations, readVars>>

(* root holds sub and file; sub holds leaf, and extra when it is created. *)
MCParentOf == sub :> root @@ file :> root @@ leaf :> sub @@ extra :> sub
MCTargetOf == d1 :> root @@ d2 :> sub @@ d3 :> sub

(* c1 is for everyone, with the access object of c2; c5 has no session. *)
MCGranteeOf == c1 :> Everyone @@ c2 :> bob @@ c3 :> carol @@ c4 :> alice @@ c5 :> bob
MCOwnerOf == c1 :> alice @@ c2 :> alice @@ c3 :> alice @@ c4 :> bob @@ c5 :> NoSession
MCAccessOf == c1 :> a1 @@ c2 :> a1 @@ c3 :> a2 @@ c4 :> a3 @@ c5 :> a2

MCPageOf == [c \in Reads |-> page]

MCServiceInit ==
    /\ part \in {"subscription", "deletion", "access", "tree", "reads"}
    /\ SubscriptionInit /\ DeleteInit /\ AccessInit /\ TreeNodeInit /\ PodReadsInit
    /\ part # "reads" => pages = {}

MCServiceNext ==
    /\ UNCHANGED part
    /\ \/ /\ part = "subscription" /\ SubscriptionNext
          /\ UNCHANGED <<deleteVars, accessVars, treeRelations, readVars>>
       \/ /\ part = "deletion" /\ DeleteNext
          /\ UNCHANGED <<subscriptionVars, accessVars, treeRelations, readVars>>
       \/ /\ part = "access" /\ AccessNext
          /\ UNCHANGED <<subscriptionVars, deleteVars, treeRelations, readVars>>
       \/ /\ part = "tree" /\ TreeNodeNext
          /\ UNCHANGED <<subscriptionVars, deleteVars, accessVars, readVars>>
       \/ /\ part = "reads" /\ PodReadsNext
          /\ Cardinality({c \in Reads : readPc'[c] # "new"}) <= MaxReads
          /\ UNCHANGED <<subscriptionVars, deleteVars, accessVars, treeRelations>>

MCServiceSpec ==
    /\ MCServiceInit /\ [][MCServiceNext]_serviceVars
    /\ SubscriptionFairness /\ DeleteFairness /\ PodReadsFairness

(* The type invariants of all. *)
ServiceTypeOK ==
    SubscriptionTypeOK /\ DeleteTypeOK /\ AccessTypeOK /\ TreeNodeTypeOK /\ PodReadsTypeOK
============================================================================
