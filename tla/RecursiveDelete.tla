---------------------------- MODULE RecursiveDelete ----------------------------
(***************************************************************************)
(* SolidService.deleteRecursively, deleteContainer and deleteDataset on a  *)
(* tree of containers: what a container holds is read, all of it at once,  *)
(* and what is not a dataset is deleted; then each dataset below is        *)
(* deleted in the same way, all at once; then the container itself.  The   *)
(* server deletes a container only when it is empty.                       *)
(***************************************************************************)
EXTENDS Naturals, FiniteSets

CONSTANTS
    Resources,
    Root,
    Files,            \* resources that are not datasets
    ParentOf,         \* the container of each resource but the root
    Newcomers,        \* resources that another client creates
    Deleters,         \* calls that delete
    Direct,           \* those of deleteDataset and deleteContainer
    TargetOf,         \* what each call deletes
    MaxRefusals       \* bound: requests the server refuses or does not answer

ASSUME TreeAssumption ==
    /\ Root \in Resources \ (Files \union Newcomers)
    /\ Files \subseteq Resources /\ Newcomers \subseteq Resources
    /\ ParentOf \in [Resources \ {Root} -> Resources \ Files]
    /\ \A r \in Resources \ (Newcomers \union {Root}) : ParentOf[r] \notin Newcomers
    /\ TargetOf \in [Deleters -> Resources \ Newcomers]
    /\ Direct \subseteq Deleters
    /\ MaxRefusals \in Nat

(* A resource lies deeper than its container: its URL is longer. *)
Deepens(depth) == \A r \in Resources \ {Root} : depth[ParentOf[r]] < depth[r]

ASSUME NestingAssumption ==
    /\ IsFiniteSet(Resources)
    /\ \E depth \in [Resources -> 0..Cardinality(Resources)] : Deepens(depth)

VARIABLES
    tree,        \* the resources that exist
    step,        \* step[d][r]: what call d does with r
    listing,     \* listing[d][r]: what r held when d read it
    refusals,    \* requests refused or lost so far
    created,     \* newcomers that were created
    unanswered   \* calls whose first read got no response

deleteVars == <<tree, step, listing, refusals, created, unanswered>>

ChildrenOf(r) == {c \in tree \ {Root} : ParentOf[c] = r}

(* "read": r is to be fetched; "file": to be deleted without being read;   *)
(* "listed": fetched; "reading": what it holds is being fetched; "below":  *)
(* being deleted; "last": r is being deleted itself.                       *)
Steps == {"idle", "read", "file", "listed", "reading", "below", "last", "deleted", "failed"}

DeleteTypeOK ==
    /\ tree \subseteq Resources
    /\ step \in [Deleters -> [Resources -> Steps]]
    /\ listing \in [Deleters -> [Resources -> SUBSET Resources]]
    /\ refusals \in 0..MaxRefusals
    /\ created \subseteq Newcomers
    /\ unanswered \subseteq Deleters

DeleteInit ==
    /\ tree = Resources \ Newcomers
    /\ step = [d \in Deleters |-> [r \in Resources |-> "idle"]]
    /\ listing = [d \in Deleters |-> [r \in Resources |-> {}]]
    /\ refusals = 0
    /\ created = {}
    /\ unanswered = {}

Refuse ==
    /\ refusals < MaxRefusals
    /\ refusals' = refusals + 1

Take(d, r, next) == step' = [step EXCEPT ![d][r] = next]

----------------------------------------------------------------------------
(* deleteRecursively of the datasets rs: what they hold is requested. *)
Enter(d, rs) ==
    [r \in Resources |->
        IF r \in rs THEN "reading"
        ELSE IF \E q \in rs : r \in listing'[d][q] THEN "read"
        ELSE step[d][r]]

(* deleteDataset and deleteContainer make the one request. *)
BeginDelete(d) ==
    /\ \A r \in Resources : step[d][r] = "idle"
    /\ Take(d, TargetOf[d], IF d \in Direct THEN "last" ELSE "read")
    /\ UNCHANGED <<tree, listing, refusals, created, unanswered>>

(* Mutant of ReadTarget: what cannot be read is taken for deleted. *)
ReadTargetOrNothing(d) ==
    LET r == TargetOf[d] IN
    /\ step[d][r] = "read" /\ d \notin unanswered
    /\ \/ /\ listing' = [listing EXCEPT ![d][r] = ChildrenOf(r)]
          /\ step' = [step EXCEPT ![d] = IF r \in tree THEN Enter(d, {r}) ELSE [@ EXCEPT ![r] = "deleted"]]
          /\ UNCHANGED refusals
       \/ Refuse /\ Take(d, r, "deleted") /\ UNCHANGED listing
    /\ UNCHANGED <<tree, created, unanswered>>

(* With a URL, getDataset comes first: what is not there needs no deletion. *)
ReadTarget(d) ==
    LET r == TargetOf[d] IN
    /\ step[d][r] = "read" /\ d \notin unanswered
    /\ \/ /\ listing' = [listing EXCEPT ![d][r] = ChildrenOf(r)]
          /\ step' = [step EXCEPT ![d] = IF r \in tree THEN Enter(d, {r}) ELSE [@ EXCEPT ![r] = "deleted"]]
          /\ UNCHANGED refusals
       \/ Refuse /\ Take(d, r, "failed") /\ UNCHANGED listing
    /\ UNCHANGED <<tree, created, unanswered>>

(* getDataset takes the status of a failure from its response: without one *)
(* that throws, and the promise is not settled any more.  Nor is it where  *)
(* the URL of a path cannot be asked for.                                  *)
LoseRead(d) ==
    /\ step[d][TargetOf[d]] = "read" /\ d \notin unanswered
    /\ Refuse
    /\ unanswered' = unanswered \union {d}
    /\ UNCHANGED <<tree, step, listing, created>>

(* Below the target, whatever cannot be read is deleted as a file. *)
ReadContained(d, r) ==
    /\ step[d][r] = "read" /\ r # TargetOf[d]
    /\ \/ /\ Take(d, r, IF r \in tree \ Files THEN "listed" ELSE "file")
          /\ listing' = [listing EXCEPT ![d][r] = ChildrenOf(r)]
          /\ UNCHANGED refusals
       \/ Refuse /\ Take(d, r, "file") /\ UNCHANGED listing
    /\ UNCHANGED <<tree, created, unanswered>>

(* The server deletes what is there and empty. *)
RemoveResource(d, r, from) ==
    /\ step[d][r] = from
    /\ \/ /\ r \in tree /\ ChildrenOf(r) = {}
          /\ tree' = tree \ {r}
          /\ Take(d, r, "deleted")
          /\ UNCHANGED refusals
       \/ /\ r \notin tree \/ ChildrenOf(r) # {}
          /\ Take(d, r, "failed")
          /\ UNCHANGED <<tree, refusals>>
       \/ Refuse /\ Take(d, r, "failed") /\ UNCHANGED tree
    /\ UNCHANGED <<listing, created, unanswered>>

DeleteFile(d, r) == RemoveResource(d, r, "file")

(* Everything r holds was read, or deleted as a file: the datasets below   *)
(* are deleted, all at once.                                               *)
Descend(d, r) ==
    /\ step[d][r] = "reading"
    /\ \A c \in listing[d][r] : step[d][c] \in {"listed", "deleted"}
    /\ UNCHANGED listing
    /\ step' = [step EXCEPT ![d] =
                  [Enter(d, {c \in listing[d][r] : step[d][c] = "listed"}) EXCEPT ![r] = "below"]]
    /\ UNCHANGED <<tree, refusals, created, unanswered>>

(* Mutant of DeleteLast: the deletions below are not waited for. *)
DeleteAtOnce(d, r) ==
    /\ step[d][r] = "below"
    /\ Take(d, r, "last")
    /\ UNCHANGED <<tree, listing, refusals, created, unanswered>>

DeleteLast(d, r) ==
    /\ step[d][r] = "below"
    /\ \A c \in listing[d][r] : step[d][c] = "deleted"
    /\ Take(d, r, "last")
    /\ UNCHANGED <<tree, listing, refusals, created, unanswered>>

(* Mutant of PassFailure: a failed deletion below is ignored. *)
PassNoFailure(d, r) ==
    /\ step[d][r] = "reading"
    /\ \E c \in listing[d][r] : step[d][c] = "failed"
    /\ Take(d, r, "failed")
    /\ UNCHANGED <<tree, listing, refusals, created, unanswered>>

(* The first failure below is that of the container; the rest goes on. *)
PassFailure(d, r) ==
    /\ step[d][r] \in {"reading", "below"}
    /\ \E c \in listing[d][r] : step[d][c] = "failed"
    /\ Take(d, r, "failed")
    /\ UNCHANGED <<tree, listing, refusals, created, unanswered>>

DeleteDataset(d, r) == RemoveResource(d, r, "last")

----------------------------------------------------------------------------
(* Another client puts a resource into a container that is there. *)
Create(n) ==
    /\ n \in Newcomers \ created
    /\ ParentOf[n] \in tree
    /\ tree' = tree \union {n}
    /\ created' = created \union {n}
    /\ UNCHANGED <<step, listing, refusals, unanswered>>
----------------------------------------------------------------------------
DeleteStep(d) ==
    /\ step[d][TargetOf[d]] # "idle"
    /\ \/ ReadTarget(d)
       \/ \E r \in Resources :
           \/ ReadContained(d, r) \/ Descend(d, r) \/ DeleteLast(d, r) \/ PassFailure(d, r)
           \/ DeleteFile(d, r) \/ DeleteDataset(d, r)

DeleteNext ==
    \/ \E d \in Deleters : BeginDelete(d) \/ DeleteStep(d) \/ LoseRead(d)
    \/ \E n \in Newcomers : Create(n)

DeleteSpec == DeleteInit /\ [][DeleteNext]_deleteVars

(* Requests are answered, if they are not lost, and callbacks run. *)
DeleteFairness == \A d \in Deleters : WF_deleteVars(DeleteStep(d))

----------------------------------------------------------------------------
Outcome(d) == step[d][TargetOf[d]]

(* A deletion fails for a reason: a request was refused, another client    *)
(* created something, or another call deleted some of the same tree.       *)
FailsForAReason ==
    \A d \in Deleters \ Direct : Outcome(d) = "failed" =>
        \/ refusals > 0 \/ created # {}
        \/ \E e \in Deleters \ {d} : Outcome(e) # "idle"

(* When a deletion resolves, nothing is left of its target, nor below it:  *)
(* what is left in the tree is still in a container that is left.  What    *)
(* another client has put there meanwhile makes the deletion fail.         *)
ResolvedIsGone ==
    \A d \in Deleters : Outcome(d) = "deleted" =>
        /\ TargetOf[d] \notin tree
        /\ \A r \in tree \ {Root} : ParentOf[r] \in tree

(* Every deletion is answered, whatever is refused and whoever else        *)
(* deletes, unless its own first read got no response.                     *)
DeletesSettle ==
    \A d \in Deleters :
        Outcome(d) # "idle" ~> Outcome(d) \in {"deleted", "failed"} \/ d \in unanswered
============================================================================
