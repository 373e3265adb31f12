------------------------ MODULE RecursiveDeleteProofs ------------------------
(* What is proved of RecursiveDelete, for any tree, calls and newcomers. *)
EXTENDS RecursiveDelete, FiniteSetTheorems, WellFoundedInduction, TLAPS

(* Nothing is left without its container. *)
Whole == \A r \in tree \ {Root} : ParentOf[r] \in tree

(* A resolved call has deleted its target. *)
TargetGone == \A d \in Deleters : Outcome(d) = "deleted" => TargetOf[d] \notin tree

DeleteInv == DeleteTypeOK /\ Whole /\ TargetGone

----------------------------------------------------------------------------
LEMMA DeleteInitial == DeleteInit => DeleteInv
<1> SUFFICES ASSUME DeleteInit PROVE DeleteInv
    OBVIOUS
<1> USE TreeAssumption DEF DeleteInit
<1>1. DeleteTypeOK
    BY DEF DeleteTypeOK, Steps
<1>2. Whole
    BY DEF Whole
<1>3. TargetGone
    BY DEF TargetGone, Outcome
<1> QED BY <1>1, <1>2, <1>3 DEF DeleteInv

(* What a call has listed is made of resources. *)
LEMMA Listed ==
    ASSUME DeleteTypeOK, NEW d \in Deleters, NEW r \in Resources
    PROVE  [listing EXCEPT ![d][r] = ChildrenOf(r)] \in [Deleters -> [Resources -> SUBSET Resources]]
<1>1. ChildrenOf(r) \in SUBSET Resources
    BY DEF DeleteTypeOK, ChildrenOf
<1>2. listing[d] \in [Resources -> SUBSET Resources]
    BY DEF DeleteTypeOK
<1>3. [listing[d] EXCEPT ![r] = ChildrenOf(r)] \in [Resources -> SUBSET Resources]
    BY <1>1, <1>2
<1> QED BY <1>3 DEF DeleteTypeOK

(* A call that only moves on keeps the invariant, unless it takes its      *)
(* target for deleted without cause.                                       *)
LEMMA MoveKeeps ==
    ASSUME DeleteInv, NEW d \in Deleters, DeleteTypeOK', tree' = tree,
           \A e \in Deleters \ {d} : step'[e] = step[e],
           Outcome(d)' = "deleted" => Outcome(d) = "deleted" \/ TargetOf[d] \notin tree
    PROVE  DeleteInv'
BY DEF DeleteInv, Whole, TargetGone, Outcome

LEMMA BeginKeeps ==
    ASSUME DeleteInv, NEW d \in Deleters, BeginDelete(d)
    PROVE  DeleteInv'
<1> USE TreeAssumption DEF DeleteInv, DeleteTypeOK
<1>1. PICK s \in {"last", "read"} : step' = [step EXCEPT ![d][TargetOf[d]] = s]
    BY DEF BeginDelete, Take
<1>2. DeleteTypeOK'
    BY <1>1 DEF BeginDelete, Steps
<1>3. Outcome(d)' # "deleted"
    BY <1>1 DEF Outcome
<1> QED BY <1>1, <1>2, <1>3, MoveKeeps DEF BeginDelete

(* Entering datasets takes nothing for deleted. *)
LEMMA Entered ==
    ASSUME DeleteTypeOK, NEW d \in Deleters, NEW rs
    PROVE  /\ Enter(d, rs) \in [Resources -> Steps]
           /\ \A r \in Resources : Enter(d, rs)[r] = "deleted" => step[d][r] = "deleted"
BY DEF DeleteTypeOK, Enter, Steps

LEMMA ReadTargetKeeps ==
    ASSUME DeleteInv, NEW d \in Deleters, ReadTarget(d)
    PROVE  DeleteInv'
<1> USE TreeAssumption DEF DeleteInv, DeleteTypeOK
<1> DEFINE r == TargetOf[d]
<1>0. r \in Resources /\ step[d][r] = "read"
    BY DEF ReadTarget
<1>1. [listing EXCEPT ![d][r] = ChildrenOf(r)] \in [Deleters -> [Resources -> SUBSET Resources]]
    BY <1>0, Listed
<1>2. Enter(d, {r}) \in [Resources -> Steps]
      /\ \A q \in Resources : Enter(d, {r})[q] = "deleted" => step[d][q] = "deleted"
    BY Entered
<1>3. /\ refusals' \in 0..MaxRefusals
      /\ UNCHANGED <<tree, created, unanswered>>
      /\ listing' = listing \/ listing' = [listing EXCEPT ![d][r] = ChildrenOf(r)]
    BY DEF ReadTarget, Refuse
<1>4. CASE r \in tree /\ step' = [step EXCEPT ![d] = Enter(d, {r})]
    <2>1. DeleteTypeOK'
        BY <1>1, <1>2, <1>3, <1>4
    <2>2. Outcome(d)' # "deleted"
        BY <1>0, <1>2, <1>4 DEF Outcome
    <2> QED BY <1>3, <1>4, <2>1, <2>2, MoveKeeps
<1>5. CASE r \notin tree /\ step' = [step EXCEPT ![d] = [@ EXCEPT ![r] = "deleted"]]
    <2>1. DeleteTypeOK'
        BY <1>0, <1>1, <1>3, <1>5 DEF Steps
    <2> QED BY <1>3, <1>5, <2>1, MoveKeeps
<1>6. CASE step' = [step EXCEPT ![d][r] = "failed"]
    <2>1. DeleteTypeOK'
        BY <1>0, <1>1, <1>3, <1>6 DEF Steps
    <2>2. Outcome(d)' # "deleted"
        BY <1>0, <1>6 DEF Outcome
    <2> QED BY <1>3, <1>6, <2>1, <2>2, MoveKeeps
<1> QED BY <1>4, <1>5, <1>6 DEF ReadTarget, Take

LEMMA ReadContainedKeeps ==
    ASSUME DeleteInv, NEW d \in Deleters, NEW r \in Resources, ReadContained(d, r)
    PROVE  DeleteInv'
<1> USE TreeAssumption DEF DeleteInv, DeleteTypeOK
<1>1. PICK s \in {"listed", "file"} : step' = [step EXCEPT ![d][r] = s]
    BY DEF ReadContained, Take
<1>2. [listing EXCEPT ![d][r] = ChildrenOf(r)] \in [Deleters -> [Resources -> SUBSET Resources]]
    BY Listed
<1>3. /\ refusals' \in 0..MaxRefusals
      /\ UNCHANGED <<tree, created, unanswered>>
      /\ listing' = listing \/ listing' = [listing EXCEPT ![d][r] = ChildrenOf(r)]
    BY DEF ReadContained, Refuse
<1>4. DeleteTypeOK'
    BY <1>1, <1>2, <1>3 DEF Steps
<1>5. Outcome(d)' = "deleted" => Outcome(d) = "deleted"
    BY <1>1 DEF Outcome
<1> QED BY <1>1, <1>3, <1>4, <1>5, MoveKeeps

LEMMA DescendKeeps ==
    ASSUME DeleteInv, NEW d \in Deleters, NEW r \in Resources, Descend(d, r)
    PROVE  DeleteInv'
<1> USE TreeAssumption DEF DeleteInv, DeleteTypeOK
<1> DEFINE rs == {c \in listing[d][r] : step[d][c] = "listed"}
<1>1. Enter(d, rs) \in [Resources -> Steps]
      /\ \A q \in Resources : Enter(d, rs)[q] = "deleted" => step[d][q] = "deleted"
    BY Entered
<1>2. step' = [step EXCEPT ![d] = [Enter(d, rs) EXCEPT ![r] = "below"]]
    BY DEF Descend
<1> HIDE DEF rs
<1>3. DeleteTypeOK'
    <2>1. [Enter(d, rs) EXCEPT ![r] = "below"] \in [Resources -> Steps]
        BY <1>1 DEF Steps
    <2>2. step' \in [Deleters -> [Resources -> Steps]]
        BY <1>2, <2>1
    <2> QED BY <2>2 DEF Descend
<1>4. Outcome(d)' = "deleted" => Outcome(d) = "deleted"
    BY <1>1, <1>2 DEF Outcome
<1> QED BY <1>2, <1>3, <1>4, MoveKeeps DEF Descend

LEMMA CallbackKeeps ==
    ASSUME DeleteInv, NEW d \in Deleters, NEW r \in Resources,
           DeleteLast(d, r) \/ PassFailure(d, r)
    PROVE  DeleteInv'
<1> USE TreeAssumption DEF DeleteInv, DeleteTypeOK
<1>1. PICK s \in {"last", "failed"} : step' = [step EXCEPT ![d][r] = s]
    BY DEF DeleteLast, PassFailure, Take
<1>2. UNCHANGED <<tree, listing, refusals, created, unanswered>>
    BY DEF DeleteLast, PassFailure
<1>3. DeleteTypeOK'
    BY <1>1, <1>2 DEF Steps
<1>4. Outcome(d)' = "deleted" => Outcome(d) = "deleted"
    BY <1>1 DEF Outcome
<1> QED BY <1>1, <1>2, <1>3, <1>4, MoveKeeps

(* The server removes what holds nothing, so the tree stays whole. *)
LEMMA RemoveKeeps ==
    ASSUME DeleteInv, NEW d \in Deleters, NEW r \in Resources, NEW from,
           RemoveResource(d, r, from)
    PROVE  DeleteInv'
<1> USE TreeAssumption DEF DeleteInv, DeleteTypeOK
<1>1. PICK s \in {"deleted", "failed"} : step' = [step EXCEPT ![d][r] = s]
    BY DEF RemoveResource, Take
<1>2. /\ refusals' \in 0..MaxRefusals
      /\ UNCHANGED <<listing, created, unanswered>>
      /\ tree' \subseteq tree
    BY DEF RemoveResource, Refuse
<1>3. DeleteTypeOK'
    BY <1>1, <1>2 DEF Steps
<1>4. CASE tree' = tree
    <2>1. Outcome(d)' = "deleted" => Outcome(d) = "deleted"
        BY <1>1, <1>4 DEF RemoveResource, Take, Outcome
    <2> QED BY <1>1, <1>3, <1>4, <2>1, MoveKeeps
<1>5. CASE tree' = tree \ {r} /\ ChildrenOf(r) = {}
    <2>1. Whole'
        BY <1>5 DEF Whole, ChildrenOf
    <2>2. TargetGone'
        BY <1>1, <1>5 DEF TargetGone, Outcome
    <2> QED BY <1>3, <2>1, <2>2
<1> QED BY <1>4, <1>5 DEF RemoveResource

LEMMA LoseKeeps ==
    ASSUME DeleteInv, NEW d \in Deleters, LoseRead(d)
    PROVE  DeleteInv'
<1>1. DeleteTypeOK'
    BY TreeAssumption DEF LoseRead, Refuse, DeleteInv, DeleteTypeOK
<1>2. Whole' /\ TargetGone'
    BY DEF LoseRead, DeleteInv, Whole, TargetGone, Outcome
<1> QED BY <1>1, <1>2 DEF DeleteInv

LEMMA CreateKeeps ==
    ASSUME DeleteInv, NEW n \in Newcomers, Create(n)
    PROVE  DeleteInv'
<1> USE TreeAssumption DEF DeleteInv, DeleteTypeOK
<1>1. DeleteTypeOK'
    BY DEF Create
<1>2. Whole'
    BY DEF Create, Whole
<1>3. TargetGone'
    BY DEF Create, TargetGone, Outcome
<1> QED BY <1>1, <1>2, <1>3

----------------------------------------------------------------------------
(* Every request and callback of every call, and every creation by another *)
(* client, keeps the invariant.                                            *)
THEOREM DeleteInvariance == DeleteSpec => []DeleteInv
<1>1. DeleteInv /\ [DeleteNext]_deleteVars => DeleteInv'
    <2> SUFFICES ASSUME DeleteInv, [DeleteNext]_deleteVars PROVE DeleteInv'
        OBVIOUS
    <2>1. CASE UNCHANGED deleteVars
        BY <2>1 DEF deleteVars, DeleteInv, DeleteTypeOK, Whole, TargetGone, Outcome
    <2>2. ASSUME NEW d \in Deleters, BeginDelete(d) \/ ReadTarget(d) \/ LoseRead(d)
          PROVE  DeleteInv'
        BY <2>2, BeginKeeps, ReadTargetKeeps, LoseKeeps
    <2>3. ASSUME NEW d \in Deleters, NEW r \in Resources,
                 ReadContained(d, r) \/ Descend(d, r) \/ DeleteLast(d, r) \/ PassFailure(d, r)
          PROVE  DeleteInv'
        BY <2>3, ReadContainedKeeps, DescendKeeps, CallbackKeeps
    <2>4. ASSUME NEW d \in Deleters, NEW r \in Resources,
                 DeleteFile(d, r) \/ DeleteDataset(d, r)
          PROVE  DeleteInv'
        BY <2>4, RemoveKeeps DEF DeleteFile, DeleteDataset
    <2>5. ASSUME NEW n \in Newcomers, Create(n) PROVE DeleteInv'
        BY <2>5, CreateKeeps
    <2> QED BY <2>1, <2>2, <2>3, <2>4, <2>5 DEF DeleteNext, DeleteStep
<1> QED BY <1>1, DeleteInitial, PTL DEF DeleteSpec

(* A deletion that resolves leaves nothing of its target, nor below it,    *)
(* however many calls delete and create in the same tree.                  *)
THEOREM ResolvedIsGoneCorrect == DeleteSpec => []ResolvedIsGone
<1>1. DeleteInv => ResolvedIsGone
    BY DEF DeleteInv, Whole, TargetGone, ResolvedIsGone
<1> QED BY <1>1, DeleteInvariance, PTL
----------------------------------------------------------------------------
(* A deletion that nothing interferes with.                                *)

Depth == CHOOSE depth \in [Resources -> 0..Cardinality(Resources)] : Deepens(depth)

(* No request was refused, nobody has created anything, no other call has  *)
(* begun.                                                                  *)
Alone(d) ==
    /\ refusals = 0 /\ created = {}
    /\ \A e \in Deleters \ {d} : Outcome(e) = "idle"

Begun == {"reading", "below", "last", "deleted"}

(* What is gone is what the call has deleted. *)
TreeIsRest(d) ==
    \A r \in Resources : r \in tree <=> r \notin Newcomers /\ step[d][r] # "deleted"

(* The call works below its target, downwards: what a container holds is   *)
(* not touched before the container is entered.                            *)
TopDown(d) ==
    \A r \in Resources : step[d][r] # "idle" =>
        /\ r \notin Newcomers
        /\ r # TargetOf[d] =>
             /\ r # Root /\ step[d][ParentOf[r]] \in Begun
             /\ Depth[TargetOf[d]] < Depth[r]

(* What was read of a container is all that it still holds, and each       *)
(* request is made of what can be deleted.                                 *)
NothingMissed(d) ==
    \A r \in Resources :
        /\ \A c \in listing[d][r] : c # Root /\ ParentOf[c] = r /\ c \notin Newcomers
        /\ step[d][r] \in {"listed", "reading", "below"} => ChildrenOf(r) \subseteq listing[d][r]
        /\ step[d][r] = "last" => ChildrenOf(r) = {}
        /\ step[d][r] = "file" => r \in Files
        /\ step[d][r] # "failed"

Progress(d) == TreeIsRest(d) /\ TopDown(d) /\ NothingMissed(d)

AloneInv == \A d \in Deleters \ Direct : Alone(d) => Progress(d)

LEMMA DepthDeepens ==
    /\ Deepens(Depth)
    /\ \A r \in Resources : Depth[r] \in Nat
<1>1. Cardinality(Resources) \in Nat
    BY NestingAssumption, FS_CardinalityType
<1>2. Depth \in [Resources -> 0..Cardinality(Resources)] /\ Deepens(Depth)
    BY NestingAssumption DEF Depth
<1> QED BY <1>1, <1>2

(* What a call that is alone holds on to is there, or was deleted by it. *)
LEMMA StillThere ==
    ASSUME NEW d, Progress(d), NEW r \in Resources, step[d][r] \notin {"idle", "deleted"}
    PROVE  r \in tree
BY DEF Progress, TreeIsRest, TopDown

(* A step that moves one resource on, without losing what is known of it.  *)
LEMMA OneMoves ==
    ASSUME DeleteTypeOK, NEW d \in Deleters, Progress(d), NEW r \in Resources, NEW s \in Steps,
           step' = [step EXCEPT ![d][r] = s],
           UNCHANGED <<tree, listing>>,
           s \notin {"idle", "deleted", "failed"}, step[d][r] # "deleted",
           step[d][r] = "idle" => r = TargetOf[d] /\ r \notin Newcomers,
           step[d][r] \in Begun => s \in Begun,
           s \in {"listed", "reading", "below"} => ChildrenOf(r) \subseteq listing[d][r],
           s = "last" => ChildrenOf(r) = {},
           s = "file" => r \in Files
    PROVE  Progress(d)'
<1> USE DEF DeleteTypeOK, Progress
<1>1. \A q \in Resources : step'[d][q] = IF q = r THEN s ELSE step[d][q]
    OBVIOUS
<1>2. TreeIsRest(d)'
    BY <1>1 DEF TreeIsRest
<1>3. TopDown(d)'
    <2> SUFFICES ASSUME NEW q \in Resources, step'[d][q] # "idle"
                 PROVE  /\ q \notin Newcomers
                        /\ q # TargetOf[d] =>
                             /\ q # Root /\ step'[d][ParentOf[q]] \in Begun
                             /\ Depth[TargetOf[d]] < Depth[q]
        BY DEF TopDown
    <2>1. q \notin Newcomers /\ (q # TargetOf[d] => step[d][q] # "idle")
        BY <1>1 DEF TopDown
    <2>2. q # Root => ParentOf[q] \in Resources
        BY TreeAssumption
    <2> QED BY <1>1, <2>1, <2>2 DEF TopDown
<1>4. NothingMissed(d)'
    BY <1>1 DEF NothingMissed, ChildrenOf
<1> QED BY <1>2, <1>3, <1>4

LEMMA BeginProgress ==
    ASSUME DeleteTypeOK, NEW d \in Deleters \ Direct, Progress(d), BeginDelete(d)
    PROVE  Progress(d)'
<1>1. /\ TargetOf[d] \in Resources /\ TargetOf[d] \notin Newcomers
      /\ step[d][TargetOf[d]] = "idle"
    BY TreeAssumption DEF BeginDelete
<1>2. step' = [step EXCEPT ![d][TargetOf[d]] = "read"] /\ UNCHANGED <<tree, listing>>
    BY DEF BeginDelete, Take
<1> QED BY <1>1, <1>2, OneMoves DEF Begun, Steps

(* Datasets that are entered all at once: they were to be entered, and     *)
(* what they hold was not touched.                                         *)
LEMMA EnterMoves ==
    ASSUME DeleteTypeOK, NEW d \in Deleters, Progress(d), NEW rs \in SUBSET Resources,
           listing' \in [Deleters -> [Resources -> SUBSET Resources]],
           \A q \in rs : step[d][q] \in {"read", "listed"},
           \A q \in rs : \A c \in listing'[d][q] : c # Root /\ ParentOf[c] = q /\ c \notin Newcomers
    PROVE  \A q \in Resources :
               \/ q \in rs /\ Enter(d, rs)[q] = "reading"
               \/ /\ q \notin rs /\ Enter(d, rs)[q] = "read" /\ step[d][q] = "idle"
                  /\ q # Root /\ ParentOf[q] \in rs /\ q \notin Newcomers
                  /\ Depth[TargetOf[d]] < Depth[q]
               \/ q \notin rs /\ Enter(d, rs)[q] = step[d][q]
<1> USE DEF DeleteTypeOK
<1> TAKE q \in Resources
<1>1. CASE q \in rs
    BY <1>1 DEF Enter
<1>2. CASE q \notin rs /\ ~\E p \in rs : q \in listing'[d][p]
    BY <1>2 DEF Enter
<1>3. ASSUME q \notin rs, NEW p \in rs, q \in listing'[d][p]
      PROVE  /\ Enter(d, rs)[q] = "read" /\ step[d][q] = "idle"
             /\ q # Root /\ ParentOf[q] \in rs /\ q \notin Newcomers
             /\ Depth[TargetOf[d]] < Depth[q]
    <2>1. q # Root /\ ParentOf[q] = p /\ q \notin Newcomers
        BY <1>3
    <2>2. p \in Resources /\ step[d][p] \in {"read", "listed"}
        BY <1>3
    <2>3. p = TargetOf[d] \/ Depth[TargetOf[d]] < Depth[p]
        BY <2>2 DEF Progress, TopDown
    <2>4. Depth[p] < Depth[q]
        BY <2>1, DepthDeepens DEF Deepens
    <2>5. Depth[TargetOf[d]] < Depth[q]
        <3>1. Depth[TargetOf[d]] \in Nat /\ Depth[p] \in Nat /\ Depth[q] \in Nat
            BY <2>2, TreeAssumption, DepthDeepens
        <3> QED BY <2>3, <2>4, <3>1
    <2>6. q # TargetOf[d]
        <3>1. Depth[q] \in Nat
            BY DepthDeepens
        <3> QED BY <2>5, <3>1
    <2>7. step[d][q] = "idle"
        BY <2>1, <2>2, <2>6 DEF Progress, TopDown, Begun
    <2>8. Enter(d, rs)[q] = "read"
        BY <1>3 DEF Enter
    <2> QED BY <1>3, <2>1, <2>5, <2>7, <2>8
<1> QED BY <1>1, <1>2, <1>3

LEMMA ReadTargetProgress ==
    ASSUME DeleteTypeOK, NEW d \in Deleters, Progress(d), ReadTarget(d), refusals' = 0
    PROVE  Progress(d)'
<1> USE DEF DeleteTypeOK, Progress
<1> DEFINE r == TargetOf[d]
<1>0. r \in Resources /\ r \notin Newcomers /\ step[d][r] = "read"
    BY TreeAssumption DEF ReadTarget
<1>1. r \in tree
    BY <1>0, StillThere
<1>2. /\ listing' = [listing EXCEPT ![d][r] = ChildrenOf(r)]
      /\ step' = [step EXCEPT ![d] = Enter(d, {r})]
      /\ tree' = tree
    BY <1>1 DEF ReadTarget, Refuse
<1>3. listing' \in [Deleters -> [Resources -> SUBSET Resources]]
    BY <1>0, <1>2, Listed
<1>4. \A q \in Resources : listing'[d][q] = IF q = r THEN ChildrenOf(r) ELSE listing[d][q]
    BY <1>2
<1>5. \A c \in ChildrenOf(r) : c \in Resources /\ c # Root /\ ParentOf[c] = r /\ c \notin Newcomers
    BY DEF ChildrenOf, TreeIsRest
<1> HIDE DEF r
<1>6. \A q \in Resources :
          \/ q = r /\ step'[d][q] = "reading"
          \/ /\ q # r /\ step'[d][q] = "read" /\ step[d][q] = "idle"
             /\ q # Root /\ ParentOf[q] = r /\ q \notin Newcomers
             /\ Depth[TargetOf[d]] < Depth[q]
          \/ q # r /\ step'[d][q] = step[d][q]
    <2>1. step'[d] = Enter(d, {r})
        BY <1>2
    <2>2. \A q \in {r} : \A c \in listing'[d][q] : c # Root /\ ParentOf[c] = q /\ c \notin Newcomers
        BY <1>0, <1>4, <1>5
    <2>3. \A q \in {r} : step[d][q] \in {"read", "listed"}
        BY <1>0
    <2>4. {r} \in SUBSET Resources
        BY <1>0
    <2> HIDE DEF DeleteTypeOK, Progress
    <2>5. \A q \in Resources :
              \/ q \in {r} /\ Enter(d, {r})[q] = "reading"
              \/ /\ q \notin {r} /\ Enter(d, {r})[q] = "read" /\ step[d][q] = "idle"
                 /\ q # Root /\ ParentOf[q] \in {r} /\ q \notin Newcomers
                 /\ Depth[TargetOf[d]] < Depth[q]
              \/ q \notin {r} /\ Enter(d, {r})[q] = step[d][q]
        BY <1>3, <2>2, <2>3, <2>4, EnterMoves
    <2> QED BY <2>1, <2>5
<1>7. TreeIsRest(d)'
    BY <1>0, <1>2, <1>6 DEF TreeIsRest
<1>8. TopDown(d)'
    <2> SUFFICES ASSUME NEW q \in Resources, step'[d][q] # "idle"
                 PROVE  /\ q \notin Newcomers
                        /\ q # TargetOf[d] =>
                             /\ q # Root /\ step'[d][ParentOf[q]] \in Begun
                             /\ Depth[TargetOf[d]] < Depth[q]
        BY DEF TopDown
    <2>1. q # Root => ParentOf[q] \in Resources
        BY TreeAssumption
    <2> QED BY <1>0, <1>6, <2>1 DEF TopDown, Begun, r
<1>9. NothingMissed(d)'
    <2>1. \A q \in Resources : ChildrenOf(q)' = ChildrenOf(q)
        BY <1>2 DEF ChildrenOf
    <2> QED BY <1>4, <1>5, <1>6, <2>1 DEF NothingMissed
<1> QED BY <1>7, <1>8, <1>9

LEMMA ReadContainedProgress ==
    ASSUME DeleteTypeOK, NEW d \in Deleters, Progress(d), NEW r \in Resources,
           ReadContained(d, r), refusals' = 0
    PROVE  Progress(d)'
<1> USE DEF DeleteTypeOK, Progress
<1>1. step[d][r] = "read" /\ r \in tree
    BY StillThere DEF ReadContained
<1>2. /\ step' = [step EXCEPT ![d][r] = IF r \in Files THEN "file" ELSE "listed"]
      /\ listing' = [listing EXCEPT ![d][r] = ChildrenOf(r)]
      /\ tree' = tree
    BY <1>1 DEF ReadContained, Refuse, Take
<1>3. \A q \in Resources :
          /\ step'[d][q] = IF q # r THEN step[d][q] ELSE IF r \in Files THEN "file" ELSE "listed"
          /\ listing'[d][q] = IF q = r THEN ChildrenOf(r) ELSE listing[d][q]
    BY <1>2
<1>4. TreeIsRest(d)'
    BY <1>1, <1>2, <1>3 DEF TreeIsRest
<1>5. TopDown(d)'
    <2> SUFFICES ASSUME NEW q \in Resources, step'[d][q] # "idle"
                 PROVE  /\ q \notin Newcomers
                        /\ q # TargetOf[d] =>
                             /\ q # Root /\ step'[d][ParentOf[q]] \in Begun
                             /\ Depth[TargetOf[d]] < Depth[q]
        BY DEF TopDown
    <2>1. q # Root => ParentOf[q] \in Resources
        BY TreeAssumption
    <2> QED BY <1>1, <1>3, <2>1 DEF TopDown, Begun
<1>6. NothingMissed(d)'
    <2>1. \A q \in Resources : ChildrenOf(q)' = ChildrenOf(q)
        BY <1>2 DEF ChildrenOf
    <2>2. \A c \in ChildrenOf(r) : c # Root /\ ParentOf[c] = r /\ c \notin Newcomers
        BY DEF ChildrenOf, TreeIsRest
    <2> QED BY <1>3, <2>1, <2>2 DEF NothingMissed
<1> QED BY <1>4, <1>5, <1>6

LEMMA DescendProgress ==
    ASSUME DeleteTypeOK, NEW d \in Deleters, Progress(d), NEW r \in Resources, Descend(d, r)
    PROVE  Progress(d)'
<1> USE DEF DeleteTypeOK, Progress
<1> DEFINE rs == {c \in listing[d][r] : step[d][c] = "listed"}
<1>1. /\ step[d][r] = "reading"
      /\ step' = [step EXCEPT ![d] = [Enter(d, rs) EXCEPT ![r] = "below"]]
      /\ UNCHANGED <<tree, listing>>
    BY DEF Descend
<1>2. rs \in SUBSET Resources /\ (\A q \in rs : step[d][q] = "listed")
    OBVIOUS
<1> HIDE DEF rs
<1>3. \A q \in Resources :
          \/ q \in rs /\ Enter(d, rs)[q] = "reading"
          \/ /\ q \notin rs /\ Enter(d, rs)[q] = "read" /\ step[d][q] = "idle"
             /\ q # Root /\ ParentOf[q] \in rs /\ q \notin Newcomers
             /\ Depth[TargetOf[d]] < Depth[q]
          \/ q \notin rs /\ Enter(d, rs)[q] = step[d][q]
    <2>1. \A q \in rs : \A c \in listing'[d][q] : c # Root /\ ParentOf[c] = q /\ c \notin Newcomers
        BY <1>1, <1>2 DEF NothingMissed
    <2>2. \A q \in rs : step[d][q] \in {"read", "listed"}
        BY <1>2
    <2>3. listing' \in [Deleters -> [Resources -> SUBSET Resources]]
        BY <1>1
    <2> QED BY <1>2, <2>1, <2>2, <2>3, EnterMoves
<1>4. Enter(d, rs) \in [Resources -> Steps]
    BY Entered
<1>5. \A q \in Resources : step'[d][q] = IF q = r THEN "below" ELSE Enter(d, rs)[q]
    BY <1>1, <1>4
<1>6. TreeIsRest(d)'
    <2>1. \A q \in Resources : step'[d][q] = "deleted" <=> step[d][q] = "deleted"
        BY <1>1, <1>2, <1>3, <1>5
    <2> QED BY <1>1, <2>1 DEF TreeIsRest
<1>7. TopDown(d)'
    <2> SUFFICES ASSUME NEW q \in Resources, step'[d][q] # "idle"
                 PROVE  /\ q \notin Newcomers
                        /\ q # TargetOf[d] =>
                             /\ q # Root /\ step'[d][ParentOf[q]] \in Begun
                             /\ Depth[TargetOf[d]] < Depth[q]
        BY DEF TopDown
    <2>1. q # Root => ParentOf[q] \in Resources
        BY TreeAssumption
    <2>2. \A p \in Resources : step[d][p] \in Begun \/ p \in rs => step'[d][p] \in Begun
        BY <1>3, <1>5 DEF Begun
    <2>3. CASE step[d][q] # "idle"
        BY <2>1, <2>2, <2>3 DEF TopDown
    <2>4. CASE step[d][q] = "idle"
        BY <1>1, <1>2, <1>3, <1>5, <2>2, <2>4
    <2> QED BY <2>3, <2>4
<1>8. NothingMissed(d)'
    <2> SUFFICES ASSUME NEW q \in Resources
                 PROVE  /\ \A c \in listing'[d][q] : c # Root /\ ParentOf[c] = q /\ c \notin Newcomers
                        /\ step'[d][q] \in {"listed", "reading", "below"} =>
                               ChildrenOf(q)' \subseteq listing'[d][q]
                        /\ step'[d][q] = "last" => ChildrenOf(q)' = {}
                        /\ step'[d][q] = "file" => q \in Files
                        /\ step'[d][q] # "failed"
        BY DEF NothingMissed
    <2>1. ChildrenOf(q)' = ChildrenOf(q) /\ listing' = listing
        BY <1>1 DEF ChildrenOf
    <2>2. CASE q = r
        BY <1>1, <1>5, <2>1, <2>2 DEF NothingMissed
    <2>3. CASE q # r
        BY <1>2, <1>3, <1>5, <2>1, <2>3 DEF NothingMissed
    <2> QED BY <2>2, <2>3
<1> QED BY <1>6, <1>7, <1>8

LEMMA DeleteLastProgress ==
    ASSUME DeleteTypeOK, NEW d \in Deleters, Progress(d), NEW r \in Resources, DeleteLast(d, r)
    PROVE  Progress(d)'
<1>1. /\ step[d][r] = "below" /\ step' = [step EXCEPT ![d][r] = "last"]
      /\ UNCHANGED <<tree, listing>>
    BY DEF DeleteLast, Take
<1>2. ChildrenOf(r) = {}
    <2>1. ChildrenOf(r) \subseteq listing[d][r]
        BY <1>1 DEF Progress, NothingMissed
    <2>2. \A c \in ChildrenOf(r) : c \in Resources /\ c \in tree
        BY DEF ChildrenOf, DeleteTypeOK
    <2>3. \A c \in ChildrenOf(r) : step[d][c] = "deleted"
        BY <2>1 DEF DeleteLast
    <2> QED BY <2>2, <2>3 DEF Progress, TreeIsRest
<1> QED BY <1>1, <1>2, OneMoves DEF Begun, Steps

(* What the call deletes is there and empty. *)
LEMMA RemoveProgress ==
    ASSUME DeleteTypeOK, NEW d \in Deleters, Progress(d), NEW r \in Resources,
           DeleteFile(d, r) \/ DeleteDataset(d, r), refusals' = 0
    PROVE  Progress(d)'
<1> USE DEF DeleteTypeOK, Progress
<1>1. step[d][r] \in {"file", "last"} /\ UNCHANGED listing
    BY DEF DeleteFile, DeleteDataset, RemoveResource
<1>2. r \in tree
    BY <1>1, StillThere
<1>3. ChildrenOf(r) = {}
    <2>1. r \in Files => ChildrenOf(r) = {}
        BY TreeAssumption DEF ChildrenOf
    <2> QED BY <1>1, <2>1 DEF NothingMissed
<1>4. step' = [step EXCEPT ![d][r] = "deleted"] /\ tree' = tree \ {r}
    BY <1>2, <1>3 DEF DeleteFile, DeleteDataset, RemoveResource, Refuse, Take
<1>5. \A q \in Resources : step'[d][q] = IF q = r THEN "deleted" ELSE step[d][q]
    BY <1>4
<1>6. TreeIsRest(d)'
    BY <1>4, <1>5 DEF TreeIsRest
<1>7. TopDown(d)'
    <2> SUFFICES ASSUME NEW q \in Resources, step'[d][q] # "idle"
                 PROVE  /\ q \notin Newcomers
                        /\ q # TargetOf[d] =>
                             /\ q # Root /\ step'[d][ParentOf[q]] \in Begun
                             /\ Depth[TargetOf[d]] < Depth[q]
        BY DEF TopDown
    <2>1. q # Root => ParentOf[q] \in Resources
        BY TreeAssumption
    <2> QED BY <1>1, <1>5, <2>1 DEF TopDown, Begun
<1>8. NothingMissed(d)'
    <2>1. \A q \in Resources : ChildrenOf(q)' \subseteq ChildrenOf(q)
        BY <1>4 DEF ChildrenOf
    <2> QED BY <1>1, <1>5, <2>1 DEF NothingMissed
<1> QED BY <1>6, <1>7, <1>8

(* What a call has begun, it does not forget. *)
LEMMA BegunStays ==
    ASSUME DeleteTypeOK, [DeleteNext]_deleteVars, NEW e \in Deleters, Outcome(e) # "idle"
    PROVE  Outcome(e)' # "idle"
<1> USE DEF DeleteTypeOK, Outcome
<1>0. TargetOf[e] \in Resources
    BY TreeAssumption
<1>1. CASE step'[e] = step[e]
    BY <1>1
<1>2. ASSUME NEW d \in Deleters, NEW rs, step' = [step EXCEPT ![d] = Enter(d, rs)]
      PROVE  Outcome(e)' # "idle"
    BY <1>0, <1>2 DEF Enter
<1>3. ASSUME NEW d \in Deleters, NEW r \in Resources, NEW s \in Steps \ {"idle"},
             step' = [step EXCEPT ![d][r] = s]
      PROVE  Outcome(e)' # "idle"
    BY <1>0, <1>3
<1>4. ASSUME NEW d \in Deleters, NEW r \in Resources, Descend(d, r) PROVE Outcome(e)' # "idle"
    BY <1>0, <1>4 DEF Descend, Enter
<1>5. ASSUME NEW d \in Deleters, BeginDelete(d) \/ ReadTarget(d) PROVE Outcome(e)' # "idle"
    <2>1. TargetOf[d] \in Resources
        BY TreeAssumption
    <2> QED BY <1>2, <1>3, <1>5, <2>1 DEF BeginDelete, ReadTarget, Take, Steps
<1>6. ASSUME NEW d \in Deleters, NEW r \in Resources,
             ReadContained(d, r) \/ DeleteLast(d, r) \/ PassFailure(d, r)
             \/ DeleteFile(d, r) \/ DeleteDataset(d, r)
      PROVE  Outcome(e)' # "idle"
    <2>1. PICK s \in Steps \ {"idle"} : step' = [step EXCEPT ![d][r] = s]
        BY <1>6 DEF ReadContained, DeleteLast, PassFailure, DeleteFile, DeleteDataset,
                    RemoveResource, Take, Steps
    <2> QED BY <1>3, <2>1
<1>7. CASE UNCHANGED step
    BY <1>7
<1> QED BY <1>4, <1>5, <1>6, <1>7 DEF DeleteNext, DeleteStep, LoseRead, Create, deleteVars

LEMMA AloneStep ==
    ASSUME DeleteTypeOK, AloneInv, [DeleteNext]_deleteVars,
           NEW d \in Deleters \ Direct, Alone(d)'
    PROVE  Progress(d)'
<1>1. Alone(d) /\ refusals' = 0
    <2>1. refusals' = 0 => refusals = 0
        <3>1. refusals' = refusals \/ refusals' = refusals + 1
            BY DEF DeleteNext, DeleteStep, BeginDelete, ReadTarget, ReadContained,
                   Descend, DeleteLast, PassFailure, DeleteFile, DeleteDataset, RemoveResource,
                   Refuse, LoseRead, Create, deleteVars
        <3>2. refusals \in Nat
            BY TreeAssumption DEF DeleteTypeOK
        <3> QED BY <3>1, <3>2
    <2>2. created' = {} => created = {}
        BY DEF DeleteNext, DeleteStep, BeginDelete, ReadTarget, ReadContained,
               Descend, DeleteLast, PassFailure, DeleteFile, DeleteDataset, RemoveResource,
               LoseRead, Create, deleteVars
    <2> QED BY <2>1, <2>2, BegunStays DEF Alone
<1>2. Progress(d)
    BY <1>1 DEF AloneInv
<1>3. CASE UNCHANGED deleteVars
    BY <1>2, <1>3 DEF deleteVars, Progress, TreeIsRest, TopDown, NothingMissed, ChildrenOf
<1>4. ASSUME NEW e \in Deleters, e # d PROVE ~BeginDelete(e) /\ ~DeleteStep(e)
    <2>1. Outcome(e) = "idle" /\ Outcome(e)' = "idle"
        BY <1>1, <1>4 DEF Alone
    <2> QED BY <2>1, TreeAssumption DEF BeginDelete, DeleteStep, Take, Outcome, DeleteTypeOK
<1>5. ASSUME NEW n \in Newcomers, Create(n) PROVE FALSE
    BY <1>5 DEF Create, Alone
<1>6. CASE BeginDelete(d)
    BY <1>2, <1>6, BeginProgress
<1>7. CASE DeleteStep(d)
    <2>1. ASSUME NEW r \in Resources, PassFailure(d, r) PROVE FALSE
        <3>1. \A c \in listing[d][r] : step[d][c] # "failed"
            BY <1>2 DEF Progress, NothingMissed, DeleteTypeOK
        <3> QED BY <2>1, <3>1 DEF PassFailure
    <2> QED BY <1>1, <1>2, <1>7, <2>1, ReadTargetProgress, ReadContainedProgress,
               DescendProgress, DeleteLastProgress, RemoveProgress DEF DeleteStep
<1>8. ASSUME NEW e \in Deleters, LoseRead(e) PROVE FALSE
    <2>1. refusals \in Nat /\ refusals' = refusals + 1
        BY <1>8, TreeAssumption DEF LoseRead, Refuse, DeleteTypeOK
    <2> QED BY <1>1, <2>1
<1> QED BY <1>3, <1>4, <1>5, <1>6, <1>7, <1>8 DEF DeleteNext

(* A deletion fails only for a reason: a request was refused, another      *)
(* client created something, or another call deletes as well.              *)
THEOREM FailsForAReasonCorrect == DeleteSpec => []FailsForAReason
<1>1. DeleteInit => AloneInv
    <2> SUFFICES ASSUME DeleteInit, NEW d \in Deleters PROVE Progress(d)
        BY DEF AloneInv
    <2>1. TreeIsRest(d) /\ TopDown(d)
        BY DEF DeleteInit, TreeIsRest, TopDown
    <2>2. NothingMissed(d)
        BY DEF DeleteInit, NothingMissed
    <2> QED BY <2>1, <2>2 DEF Progress
<1>2. DeleteInv /\ AloneInv /\ [DeleteNext]_deleteVars => AloneInv'
    <2> SUFFICES ASSUME DeleteInv, AloneInv, [DeleteNext]_deleteVars,
                        NEW d \in Deleters \ Direct, Alone(d)'
                 PROVE  Progress(d)'
        BY DEF AloneInv
    <2> QED BY AloneStep DEF DeleteInv
<1>3. DeleteInv /\ AloneInv => FailsForAReason
    <2> SUFFICES ASSUME DeleteInv, AloneInv, NEW d \in Deleters \ Direct, Outcome(d) = "failed",
                        ~(refusals > 0), Alone(d) \/ refusals # 0
                 PROVE  FALSE
        BY DEF FailsForAReason, Alone
    <2>1. Alone(d)
        BY TreeAssumption DEF DeleteInv, DeleteTypeOK
    <2>2. TargetOf[d] \in Resources
        BY TreeAssumption
    <2> QED BY <2>1, <2>2 DEF AloneInv, Progress, NothingMissed, Outcome
<1> QED BY <1>1, <1>2, <1>3, DeleteInvariance, PTL DEF DeleteSpec
----------------------------------------------------------------------------
(* A deletion that always goes on, whatever interferes with it.  This is   *)
(* what DeletesSettle rests on besides fairness: no call waits for what    *)
(* will not happen, and no call turns back.                                *)

Past == Begun \union {"failed"}

(* The shape of the recursion: a call works downwards from its target, and *)
(* what a container waits for is under way or was entered with it.         *)
Structured(d) ==
    /\ \A r \in Resources :
        /\ step[d][r] # "idle" /\ r # TargetOf[d] =>
             /\ r # Root /\ step[d][ParentOf[r]] \in Past
             /\ Depth[TargetOf[d]] < Depth[r]
        /\ \A c \in listing[d][r] : c # Root /\ ParentOf[c] = r
        /\ step[d][r] = "reading" => \A c \in listing[d][r] : step[d][c] # "idle"
        /\ step[d][r] = "below" => \A c \in listing[d][r] : step[d][c] \in Past
    /\ step[d][TargetOf[d]] \notin {"file", "listed"}

(* A request of the call is under way, or a callback can run: the guards   *)
(* of DeleteStep.                                                          *)
CanGoOn(d) ==
    \E r \in Resources :
        \/ step[d][r] \in {"read", "file", "last"}
        \/ step[d][r] = "reading" /\ \A c \in listing[d][r] : step[d][c] \in {"listed", "deleted"}
        \/ step[d][r] = "below" /\ \A c \in listing[d][r] : step[d][c] = "deleted"
        \/ step[d][r] \in {"reading", "below"} /\ \E c \in listing[d][r] : step[d][c] = "failed"

(* A deletion that is not answered yet can go on.                          *)
NeverStuck ==
    \A d \in Deleters \ unanswered :
        Outcome(d) \notin {"idle", "deleted", "failed"} => CanGoOn(d)

Rank(s) ==
    CASE s = "idle" -> 0
      [] s = "read" -> 1
      [] s \in {"file", "listed"} -> 2
      [] s = "reading" -> 3
      [] s = "below" -> 4
      [] s = "last" -> 5
      [] s \in {"deleted", "failed"} -> 6

Onward(d) == \A r \in Resources : Rank(step[d][r]) <= Rank(step'[d][r])
Forward(d) == Onward(d) /\ \E r \in Resources : Rank(step[d][r]) < Rank(step'[d][r])

(* No step takes a resource back to an earlier one, in any call, and each  *)
(* step of a call takes one of its resources further; so a call makes at   *)
(* most six for each resource.                                             *)
AlwaysForward == [][\A d \in Deleters : Onward(d) /\ (DeleteStep(d) => Forward(d))]_deleteVars

----------------------------------------------------------------------------
LEMMA RankTyped == \A s \in Steps : Rank(s) \in 0..6
BY DEF Steps, Rank

(* A step that moves one resource, and does not enter it. *)
LEMMA OneMovesOn ==
    ASSUME DeleteTypeOK, NEW d \in Deleters, Structured(d), NEW r \in Resources,
           NEW s \in {"read", "file", "listed", "last", "deleted", "failed"},
           step' = [step EXCEPT ![d][r] = s],
           \/ listing' = listing
           \/ listing' = [listing EXCEPT ![d][r] = ChildrenOf(r)],
           step[d][r] = "idle" => r = TargetOf[d],
           r = TargetOf[d] => s \notin {"file", "listed"},
           step[d][r] \in Past => s \in Past,
           Rank(step[d][r]) < Rank(s)
    PROVE  Structured(d)' /\ Forward(d)
<1> USE DEF DeleteTypeOK
<1>1. \A q \in Resources : step'[d][q] = IF q = r THEN s ELSE step[d][q]
    OBVIOUS
<1>2. \A q \in Resources : q # Root => ParentOf[q] \in Resources
    BY TreeAssumption
<1>3. \A q \in Resources :
          \/ listing'[d][q] = listing[d][q]
          \/ q = r /\ listing'[d][q] = ChildrenOf(r)
    OBVIOUS
<1>4. ASSUME NEW q \in Resources
      PROVE  /\ step'[d][q] # "idle" /\ q # TargetOf[d] =>
                  /\ q # Root /\ step'[d][ParentOf[q]] \in Past
                  /\ Depth[TargetOf[d]] < Depth[q]
             /\ \A c \in listing'[d][q] : c # Root /\ ParentOf[c] = q
             /\ step'[d][q] = "reading" => \A c \in listing'[d][q] : step'[d][c] # "idle"
             /\ step'[d][q] = "below" => \A c \in listing'[d][q] : step'[d][c] \in Past
    <2>1. step'[d][q] # "idle" /\ q # TargetOf[d] =>
              /\ q # Root /\ step'[d][ParentOf[q]] \in Past
              /\ Depth[TargetOf[d]] < Depth[q]
        BY <1>1, <1>2 DEF Structured
    <2>2. \A c \in listing'[d][q] : c # Root /\ ParentOf[c] = q
        BY <1>3 DEF Structured, ChildrenOf
    <2>3. step'[d][q] \in {"reading", "below"} =>
              q # r /\ step'[d][q] = step[d][q] /\ listing'[d][q] = listing[d][q]
        BY <1>1, <1>3
    <2>4. \A c \in listing[d][q] : c \in Resources
        OBVIOUS
    <2> QED BY <1>1, <2>1, <2>2, <2>3, <2>4 DEF Structured
<1>5. step'[d][TargetOf[d]] \notin {"file", "listed"}
    BY <1>1, TreeAssumption DEF Structured
<1>6. Structured(d)'
    BY <1>4, <1>5 DEF Structured
<1>7. Forward(d)
    <2>1. \A q \in Resources : Rank(step[d][q]) \in 0..6
        BY RankTyped
    <2>2. ASSUME NEW q \in Resources PROVE Rank(step[d][q]) <= Rank(step'[d][q])
        <3>1. CASE q = r
            <4>1. Rank(step'[d][q]) = Rank(s) /\ Rank(s) \in 0..6
                BY <1>1, <3>1, RankTyped DEF Steps
            <4> QED BY <2>1, <3>1, <4>1
        <3>2. CASE q # r
            <4>1. Rank(step'[d][q]) = Rank(step[d][q])
                BY <1>1, <3>2
            <4> QED BY <2>1, <4>1
        <3> QED BY <3>1, <3>2
    <2>3. Rank(step[d][r]) < Rank(step'[d][r])
        BY <1>1
    <2> QED BY <2>2, <2>3 DEF Forward, Onward
<1> QED BY <1>6, <1>7

(* Datasets that are entered all at once. *)
LEMMA EnterMovesOn ==
    ASSUME DeleteTypeOK, NEW d \in Deleters, Structured(d), NEW rs \in SUBSET Resources,
           listing' \in [Deleters -> [Resources -> SUBSET Resources]],
           \A q \in rs : step[d][q] \in {"read", "listed"},
           \A q \in rs : \A c \in listing'[d][q] : c # Root /\ ParentOf[c] = q
    PROVE  \A q \in Resources :
               \/ q \in rs /\ Enter(d, rs)[q] = "reading"
               \/ /\ q \notin rs /\ Enter(d, rs)[q] = "read" /\ step[d][q] = "idle"
                  /\ q # Root /\ ParentOf[q] \in rs
                  /\ Depth[TargetOf[d]] < Depth[q]
               \/ /\ q \notin rs /\ Enter(d, rs)[q] = step[d][q]
                  /\ \A p \in rs : q \notin listing'[d][p]
<1> USE DEF DeleteTypeOK
<1> TAKE q \in Resources
<1>1. CASE q \in rs
    BY <1>1 DEF Enter
<1>2. CASE q \notin rs /\ ~\E p \in rs : q \in listing'[d][p]
    BY <1>2 DEF Enter
<1>3. ASSUME q \notin rs, NEW p \in rs, q \in listing'[d][p]
      PROVE  /\ Enter(d, rs)[q] = "read" /\ step[d][q] = "idle"
             /\ q # Root /\ ParentOf[q] \in rs
             /\ Depth[TargetOf[d]] < Depth[q]
    <2>1. q # Root /\ ParentOf[q] = p
        BY <1>3
    <2>2. p \in Resources /\ step[d][p] \in {"read", "listed"}
        BY <1>3
    <2>3. p = TargetOf[d] \/ Depth[TargetOf[d]] < Depth[p]
        BY <2>2 DEF Structured
    <2>4. Depth[p] < Depth[q]
        BY <2>1, DepthDeepens DEF Deepens
    <2>5. Depth[TargetOf[d]] < Depth[q] /\ q # TargetOf[d]
        <3>1. Depth[p] \in Nat /\ Depth[q] \in Nat /\ Depth[TargetOf[d]] \in Nat
            BY <2>2, TreeAssumption, DepthDeepens
        <3> QED BY <2>3, <2>4, <3>1
    <2>6. step[d][q] = "idle"
        BY <2>1, <2>2, <2>5 DEF Structured, Past, Begun
    <2>7. Enter(d, rs)[q] = "read"
        BY <1>3 DEF Enter
    <2> QED BY <1>3, <2>1, <2>5, <2>6, <2>7
<1> QED BY <1>1, <1>2, <1>3

(* What entering datasets makes of the structure: ReadTarget enters the    *)
(* target, Descend what was listed of a container.                         *)
Entering(d, rs, into, below) ==
    /\ rs \in SUBSET Resources /\ below \in SUBSET Resources /\ rs \union below # {}
    /\ into \in [Resources -> Steps] /\ step' = [step EXCEPT ![d] = into]
    /\ \A q \in Resources : into[q] = IF q \in below THEN "below" ELSE Enter(d, rs)[q]
    /\ \A q \in rs : step[d][q] \in {"read", "listed"}
    /\ TargetOf[d] \in rs \/ step[d][TargetOf[d]] \notin {"file", "listed"}
    /\ listing' \in [Deleters -> [Resources -> SUBSET Resources]]
    /\ \A q \in Resources : \A c \in listing'[d][q] : c # Root /\ ParentOf[c] = q
    /\ \A q \in Resources : q \notin rs => listing'[d][q] = listing[d][q]
    /\ \A q \in below : /\ step[d][q] = "reading"
                        /\ \A c \in listing[d][q] : step[d][c] = "deleted" \/ c \in rs

LEMMA EnterKeepsOn ==
    ASSUME DeleteTypeOK, NEW d \in Deleters, Structured(d),
           NEW rs, NEW into, NEW below, Entering(d, rs, into, below)
    PROVE  Structured(d)' /\ Forward(d)
<1> USE DEF DeleteTypeOK, Entering
<1>1. \A q \in Resources :
          \/ q \in rs /\ Enter(d, rs)[q] = "reading"
          \/ /\ q \notin rs /\ Enter(d, rs)[q] = "read" /\ step[d][q] = "idle"
             /\ q # Root /\ ParentOf[q] \in rs
             /\ Depth[TargetOf[d]] < Depth[q]
          \/ /\ q \notin rs /\ Enter(d, rs)[q] = step[d][q]
             /\ \A p \in rs : q \notin listing'[d][p]
    BY EnterMovesOn
<1>2. \A q \in Resources :
          \/ q \in below /\ q \notin rs /\ step'[d][q] = "below" /\ step[d][q] = "reading"
          \/ q \in rs /\ q \notin below /\ step'[d][q] = "reading"
          \/ /\ q \notin rs \union below /\ step'[d][q] = "read" /\ step[d][q] = "idle"
             /\ q # Root /\ ParentOf[q] \in rs
             /\ Depth[TargetOf[d]] < Depth[q]
          \/ /\ q \notin rs \union below /\ step'[d][q] = step[d][q]
             /\ \A p \in rs : q \notin listing'[d][p]
    <2> TAKE q \in Resources
    <2>1. step'[d][q] = IF q \in below THEN "below" ELSE Enter(d, rs)[q]
        BY DEF DeleteTypeOK, Entering
    <2>2. q \in below => q \notin rs /\ step[d][q] = "reading"
        BY DEF Entering
    <2>3. CASE q \in below
        BY <2>1, <2>2, <2>3
    <2>4. CASE q \notin below
        BY <1>1, <2>1, <2>4
    <2> QED BY <2>3, <2>4
<1>3. /\ \A q \in Resources : step[d][q] # "idle" => step'[d][q] # "idle"
      /\ \A q \in Resources : step[d][q] \in Past \/ q \in rs => step'[d][q] \in Past
    BY <1>2 DEF Past, Begun
<1>4. ASSUME NEW q \in Resources
      PROVE  /\ step'[d][q] # "idle" /\ q # TargetOf[d] =>
                  /\ q # Root /\ step'[d][ParentOf[q]] \in Past
                  /\ Depth[TargetOf[d]] < Depth[q]
             /\ step'[d][q] = "reading" => \A c \in listing'[d][q] : step'[d][c] # "idle"
             /\ step'[d][q] = "below" => \A c \in listing'[d][q] : step'[d][c] \in Past
    <2>1. q # Root => ParentOf[q] \in Resources
        BY TreeAssumption
    <2>2. step[d][q] # "idle" /\ q # TargetOf[d] =>
              /\ q # Root /\ step'[d][ParentOf[q]] \in Past
              /\ Depth[TargetOf[d]] < Depth[q]
        BY <1>3, <2>1 DEF Structured
    <2>3. step[d][q] = "idle" /\ step'[d][q] # "idle" =>
              /\ q # Root /\ step'[d][ParentOf[q]] \in Past
              /\ Depth[TargetOf[d]] < Depth[q]
        BY <1>2, <1>3, <2>1
    <2>4. \A c \in listing'[d][q] : c \in Resources
        OBVIOUS
    <2>5. step'[d][q] = "reading" => \A c \in listing'[d][q] : step'[d][c] # "idle"
        <3>1. CASE q \in rs
            BY <1>2, <2>4, <3>1
        <3>2. CASE q \notin rs
            BY <1>2, <1>3, <2>4, <3>2 DEF Structured
        <3> QED BY <3>1, <3>2
    <2>6. step'[d][q] = "below" => \A c \in listing'[d][q] : step'[d][c] \in Past
        <3>1. CASE q \in below
            BY <1>2, <1>3, <2>4, <3>1 DEF Past, Begun
        <3>2. CASE q \notin below
            BY <1>2, <1>3, <2>4, <3>2 DEF Structured
        <3> QED BY <3>1, <3>2
    <2> QED BY <2>2, <2>3, <2>5, <2>6
<1>5. step'[d][TargetOf[d]] \notin {"file", "listed"}
    BY <1>2, TreeAssumption DEF Structured
<1>6. Structured(d)'
    BY <1>4, <1>5 DEF Structured
<1>7. Forward(d)
    <2>1. \A q \in Resources : step[d][q] \in Steps /\ Rank(step[d][q]) \in 0..6
        BY RankTyped
    <2>2. \A q \in Resources :
              /\ Rank(step[d][q]) <= Rank(step'[d][q])
              /\ q \in rs \union below => Rank(step[d][q]) < Rank(step'[d][q])
        <3> TAKE q \in Resources
        <3>1. CASE q \in below
            BY <1>2, <3>1 DEF Rank
        <3>2. CASE q \in rs
            BY <1>2, <3>2 DEF Rank
        <3>3. CASE q \notin rs \union below /\ step[d][q] = "idle" /\ step'[d][q] = "read"
            BY <3>3 DEF Rank
        <3>4. CASE q \notin rs \union below /\ step'[d][q] = step[d][q]
            <4>1. PICK k \in 0..6 : k = Rank(step[d][q])
                BY <2>1
            <4>2. k = Rank(step'[d][q])
                BY <3>4, <4>1
            <4>3. Rank(step[d][q]) <= Rank(step'[d][q])
                BY ONLY <4>1, <4>2, k \in 0..6
            <4> QED BY <3>4, <4>3
        <3> QED BY <1>2, <3>1, <3>2, <3>3, <3>4
    <2> QED BY <2>2 DEF Forward, Onward
<1> QED BY <1>6, <1>7

----------------------------------------------------------------------------
LEMMA BeginStructured ==
    ASSUME DeleteTypeOK, NEW d \in Deleters, Structured(d), BeginDelete(d)
    PROVE  Structured(d)' /\ Forward(d)
<1>1. PICK s \in {"last", "read"} : step' = [step EXCEPT ![d][TargetOf[d]] = s]
    BY DEF BeginDelete, Take
<1>2. TargetOf[d] \in Resources /\ step[d][TargetOf[d]] = "idle" /\ listing' = listing
    BY TreeAssumption DEF BeginDelete
<1>3. Rank("idle") < Rank(s) /\ "idle" \notin Past
    BY DEF Rank, Past, Begun
<1> QED BY <1>1, <1>2, <1>3, OneMovesOn

LEMMA ReadTargetStructured ==
    ASSUME DeleteTypeOK, NEW d \in Deleters, Structured(d), ReadTarget(d)
    PROVE  Structured(d)' /\ Forward(d)
<1>0. PICK r \in Resources : r = TargetOf[d]
    BY TreeAssumption
<1>1. step[d][r] = "read"
    BY <1>0 DEF ReadTarget
<1>2. CASE step' = [step EXCEPT ![d] = Enter(d, {r})] /\ listing' = [listing EXCEPT ![d][r] = ChildrenOf(r)]
    <2>1. listing' \in [Deleters -> [Resources -> SUBSET Resources]]
        BY <1>2, Listed
    <2>2. PICK into : into = Enter(d, {r})
        OBVIOUS
    <2>3. PICK rs \in SUBSET Resources : rs = {r}
        OBVIOUS
    <2>4. PICK below \in SUBSET Resources : below = {}
        OBVIOUS
    <2>5. /\ into \in [Resources -> Steps] /\ step' = [step EXCEPT ![d] = into]
          /\ \A q \in Resources : into[q] = IF q \in below THEN "below" ELSE Enter(d, rs)[q]
        BY <1>2, <2>2, <2>3, <2>4, Entered
    <2>6. \A q \in Resources : \A c \in listing'[d][q] : c # Root /\ ParentOf[c] = q
        BY <1>2 DEF Structured, DeleteTypeOK, ChildrenOf
    <2>7. \A q \in Resources : q \notin rs => listing'[d][q] = listing[d][q]
        BY <1>2, <2>3 DEF DeleteTypeOK
    <2>8. /\ \A q \in rs : step[d][q] \in {"read", "listed"}
          /\ TargetOf[d] \in rs
          /\ \A q \in below : /\ step[d][q] = "reading"
                              /\ \A c \in listing[d][q] : step[d][c] = "deleted" \/ c \in rs
          /\ rs \union below # {}
        BY <1>0, <1>1, <2>3, <2>4
    <2>9. Entering(d, rs, into, below)
        BY <2>1, <2>5, <2>6, <2>7, <2>8 DEF Entering
    <2> QED BY <2>9, EnterKeepsOn
<1>3. ASSUME NEW s \in {"deleted", "failed"}, step' = [step EXCEPT ![d][r] = s],
             listing' = listing \/ listing' = [listing EXCEPT ![d][r] = ChildrenOf(r)]
      PROVE  Structured(d)' /\ Forward(d)
    <2>1. Rank("read") < Rank(s) /\ s \in Past
        BY DEF Rank, Past, Begun
    <2> QED BY <1>0, <1>1, <1>3, <2>1, OneMovesOn
<1>4. step[d] = [q \in Resources |-> step[d][q]]
    BY DEF DeleteTypeOK
<1> QED BY <1>0, <1>2, <1>3, <1>4 DEF ReadTarget, Take

LEMMA RequestStructured ==
    ASSUME DeleteTypeOK, NEW d \in Deleters, Structured(d), NEW r \in Resources,
           \/ ReadContained(d, r) \/ DeleteLast(d, r) \/ PassFailure(d, r)
           \/ DeleteFile(d, r) \/ DeleteDataset(d, r)
    PROVE  Structured(d)' /\ Forward(d)
<1>1. CASE ReadContained(d, r)
    <2>1. PICK s \in {"listed", "file"} : step' = [step EXCEPT ![d][r] = s]
        BY <1>1 DEF ReadContained, Take
    <2>2. /\ step[d][r] = "read" /\ r # TargetOf[d]
          /\ listing' = listing \/ listing' = [listing EXCEPT ![d][r] = ChildrenOf(r)]
        BY <1>1 DEF ReadContained
    <2>3. Rank("read") < Rank(s) /\ "read" \notin Past
        BY DEF Rank, Past, Begun
    <2> QED BY <2>1, <2>2, <2>3, OneMovesOn
<1>2. CASE DeleteLast(d, r) \/ PassFailure(d, r)
    <2>1. PICK s \in {"last", "failed"} : step' = [step EXCEPT ![d][r] = s]
        BY <1>2 DEF DeleteLast, PassFailure, Take
    <2>2. step[d][r] \in {"reading", "below"} /\ listing' = listing
        BY <1>2 DEF DeleteLast, PassFailure
    <2>3. Rank(step[d][r]) < Rank(s) /\ s \in Past
        BY <2>2 DEF Rank, Past, Begun
    <2> QED BY <2>1, <2>2, <2>3, OneMovesOn
<1>3. CASE DeleteFile(d, r) \/ DeleteDataset(d, r)
    <2>1. PICK s \in {"deleted", "failed"} : step' = [step EXCEPT ![d][r] = s]
        BY <1>3 DEF DeleteFile, DeleteDataset, RemoveResource, Take
    <2>2. step[d][r] \in {"file", "last"} /\ listing' = listing
        BY <1>3 DEF DeleteFile, DeleteDataset, RemoveResource
    <2>3. Rank(step[d][r]) < Rank(s) /\ s \in Past
        BY <2>2 DEF Rank, Past, Begun
    <2> QED BY <2>1, <2>2, <2>3, OneMovesOn
<1> QED BY <1>1, <1>2, <1>3

LEMMA DescendStructured ==
    ASSUME DeleteTypeOK, NEW d \in Deleters, Structured(d), NEW r \in Resources, Descend(d, r)
    PROVE  Structured(d)' /\ Forward(d)
<1>0. PICK rs : rs = {c \in listing[d][r] : step[d][c] = "listed"}
    OBVIOUS
<1>1. /\ rs \in SUBSET Resources /\ r \notin rs
      /\ \A q \in rs : step[d][q] = "listed"
      /\ step[d][r] = "reading" /\ listing' = listing
      /\ \A c \in listing[d][r] : step[d][c] = "deleted" \/ c \in rs
    BY <1>0 DEF Descend, DeleteTypeOK
<1>2. PICK into : into = [Enter(d, rs) EXCEPT ![r] = "below"]
    OBVIOUS
<1>3. PICK below \in SUBSET Resources : below = {r}
    OBVIOUS
<1>4. /\ into \in [Resources -> Steps] /\ step' = [step EXCEPT ![d] = into]
      /\ \A q \in Resources : into[q] = IF q \in below THEN "below" ELSE Enter(d, rs)[q]
    <2>1. Enter(d, rs) \in [Resources -> Steps]
        BY Entered
    <2>2. step' = [step EXCEPT ![d] = into]
        BY <1>0, <1>2 DEF Descend
    <2> QED BY <1>2, <1>3, <2>1, <2>2 DEF Steps
<1>5. /\ listing' \in [Deleters -> [Resources -> SUBSET Resources]]
      /\ \A q \in Resources : q \notin rs => listing'[d][q] = listing[d][q]
    BY <1>1 DEF DeleteTypeOK
<1>6. \A q \in Resources : \A c \in listing'[d][q] : c # Root /\ ParentOf[c] = q
    BY <1>1 DEF Structured
<1>7. step[d][TargetOf[d]] \notin {"file", "listed"}
    BY DEF Structured
<1>8. /\ \A q \in rs : step[d][q] \in {"read", "listed"}
      /\ \A q \in below : /\ step[d][q] = "reading"
                          /\ \A c \in listing[d][q] : step[d][c] = "deleted" \/ c \in rs
      /\ rs \union below # {}
    BY <1>1, <1>3
<1>9. Entering(d, rs, into, below)
    BY <1>1, <1>4, <1>5, <1>6, <1>7, <1>8 DEF Entering
<1> QED BY <1>9, EnterKeepsOn

(* What other calls do leaves a call where it is. *)
LEMMA OthersMove ==
    ASSUME DeleteTypeOK, NEW d \in Deleters, Structured(d),
           step'[d] = step[d], listing'[d] = listing[d]
    PROVE  Structured(d)' /\ Onward(d)
<1>1. Structured(d)'
    BY DEF Structured
<1>2. \A r \in Resources : Rank(step[d][r]) \in 0..6
    BY RankTyped DEF DeleteTypeOK
<1> QED BY <1>1, <1>2 DEF Onward

LEMMA StepStructured ==
    ASSUME DeleteTypeOK, NEW d \in Deleters, Structured(d), DeleteStep(d)
    PROVE  Structured(d)' /\ Forward(d)
BY ReadTargetStructured, RequestStructured, DescendStructured DEF DeleteStep

LEMMA StructuredStep ==
    ASSUME DeleteTypeOK, NEW d \in Deleters, Structured(d), [DeleteNext]_deleteVars
    PROVE  Structured(d)' /\ Onward(d)
<1>1. CASE DeleteStep(d) \/ BeginDelete(d)
    BY <1>1, StepStructured, BeginStructured DEF Forward
<1>2. ASSUME NEW e \in Deleters \ {d}, BeginDelete(e) \/ DeleteStep(e)
      PROVE  step'[d] = step[d] /\ listing'[d] = listing[d]
    BY <1>2 DEF BeginDelete, DeleteStep, ReadTarget, ReadContained, Descend, DeleteLast,
                PassFailure, DeleteFile, DeleteDataset, RemoveResource, Take, DeleteTypeOK
<1>3. ASSUME NEW n \in Newcomers, Create(n) PROVE step'[d] = step[d] /\ listing'[d] = listing[d]
    BY <1>3 DEF Create
<1>4. ASSUME NEW e \in Deleters, LoseRead(e) PROVE step'[d] = step[d] /\ listing'[d] = listing[d]
    BY <1>4 DEF LoseRead
<1>5. CASE UNCHANGED deleteVars
    BY <1>5, OthersMove DEF deleteVars
<1> QED BY <1>1, <1>2, <1>3, <1>4, <1>5, OthersMove DEF DeleteNext

(* A call that has begun can go on: of the containers it waits at, one     *)
(* that lies deepest has nothing below it left to wait for.                *)
LEMMA DeepestGoesOn ==
    ASSUME DeleteTypeOK, NEW d \in Deleters, Structured(d),
           Outcome(d) \notin {"idle", "deleted", "failed"}
    PROVE  CanGoOn(d)
<1> DEFINE waiting == {r \in Resources : step[d][r] \in {"reading", "below"}}
           n == Cardinality(Resources)
<1>0. TargetOf[d] \in Resources /\ \A r \in Resources : step[d][r] \in Steps
    BY TreeAssumption DEF DeleteTypeOK
<1>1. CASE waiting = {}
    <2>1. step[d][TargetOf[d]] \in {"read", "last"}
        BY <1>0, <1>1 DEF Outcome, Structured, Steps
    <2> QED BY <1>0, <2>1 DEF CanGoOn
<1>2. CASE waiting # {}
    <2>1. n \in Nat /\ \A r \in Resources : Depth[r] \in 0..n
        <3>1. n \in Nat
            BY NestingAssumption, FS_CardinalityType
        <3>2. Depth \in [Resources -> 0..n]
            BY NestingAssumption DEF Depth
        <3> QED BY <3>1, <3>2
    <2> HIDE DEF n
    <2>2. PICK r \in waiting : \A q \in waiting : ~(Depth[r] < Depth[q])
        <3> DEFINE Heights == {n - Depth[q] : q \in waiting}
        <3>1. Heights \subseteq Nat /\ Heights # {}
            BY <1>2, <2>1
        <3>2. PICK h \in Heights : \A i \in Heights : <<i, h>> \notin OpToRel(<, Nat)
            BY <3>1, WFMin, NatLessThanWellFounded
        <3>3. \A i \in Heights : ~(i < h)
            BY <3>1, <3>2 DEF OpToRel
        <3>4. PICK r \in waiting : h = n - Depth[r]
            OBVIOUS
        <3>5. ASSUME NEW q \in waiting PROVE ~(Depth[r] < Depth[q])
            <4>1. ~(n - Depth[q] < n - Depth[r])
                BY <3>3, <3>4
            <4> QED BY <2>1, <4>1
        <3> QED BY <3>5
    <2>3. \A c \in listing[d][r] : c \in Resources /\ c \notin waiting
        <3> TAKE c \in listing[d][r]
        <3>1. c \in Resources
            BY DEF DeleteTypeOK
        <3>2. c # Root /\ ParentOf[c] = r
            BY DEF Structured
        <3>3. Depth[r] < Depth[c]
            BY <3>1, <3>2, DepthDeepens DEF Deepens
        <3> QED BY <2>2, <3>1, <3>3
    <2>4. CASE \E c \in listing[d][r] : step[d][c] \in {"read", "file", "last"}
        BY <2>3, <2>4 DEF CanGoOn
    <2>5. CASE \E c \in listing[d][r] : step[d][c] = "failed"
        BY <2>5 DEF CanGoOn
    <2>6. CASE \A c \in listing[d][r] : step[d][c] \notin {"read", "file", "last", "failed"}
        <3>1. \A c \in listing[d][r] : step[d][c] # "idle"
            BY <2>3 DEF Structured, Past, Begun
        <3>2. \A c \in listing[d][r] : step[d][c] \in {"listed", "deleted"}
            BY <1>0, <2>3, <2>6, <3>1 DEF Steps
        <3>3. step[d][r] = "below" => \A c \in listing[d][r] : step[d][c] = "deleted"
            BY <3>2 DEF Structured, Past, Begun
        <3> QED BY <3>2, <3>3 DEF CanGoOn
    <2> QED BY <2>4, <2>5, <2>6
<1> QED BY <1>1, <1>2

LEMMA AllStructured == DeleteSpec => [](\A d \in Deleters : Structured(d))
<1>1. DeleteInit => \A d \in Deleters : Structured(d)
    BY TreeAssumption DEF DeleteInit, Structured, Past, Begun
<1>2. DeleteInv /\ (\A d \in Deleters : Structured(d)) /\ [DeleteNext]_deleteVars
          => (\A d \in Deleters : Structured(d))'
    BY StructuredStep DEF DeleteInv
<1> QED BY <1>1, <1>2, DeleteInvariance, PTL DEF DeleteSpec

(* No deletion waits for what will not happen, unless its own first read   *)
(* got no response: whatever other requests fail, and whatever other calls *)
(* delete and create in the same tree, one that is not answered has a      *)
(* request under way or a callback to run.                                 *)
THEOREM NeverStuckCorrect == DeleteSpec => []NeverStuck
<1>1. DeleteInv /\ (\A d \in Deleters : Structured(d)) => NeverStuck
    BY DeepestGoesOn DEF DeleteInv, NeverStuck
<1> QED BY <1>1, AllStructured, DeleteInvariance, PTL

(* No deletion turns back, and each of its steps takes it further, so the  *)
(* number of its steps is bounded by that of the resources.                *)
THEOREM AlwaysForwardCorrect == DeleteSpec => AlwaysForward
<1>1. DeleteInv /\ (\A d \in Deleters : Structured(d)) /\ [DeleteNext]_deleteVars
          => \A d \in Deleters : Onward(d) /\ (DeleteStep(d) => Forward(d))
    BY StructuredStep, StepStructured DEF DeleteInv
<1>2. DeleteInv /\ (\A d \in Deleters : Structured(d)) /\ [DeleteNext]_deleteVars
          => [\A d \in Deleters : Onward(d) /\ (DeleteStep(d) => Forward(d))]_deleteVars
    BY <1>1
<1> QED BY <1>2, AllStructured, DeleteInvariance, PTL DEF DeleteSpec, AlwaysForward
============================================================================
