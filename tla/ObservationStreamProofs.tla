---------------------- MODULE ObservationStreamProofs ----------------------
(***************************************************************************)
(* Proofs about ObservationStream for any number of calls, observations,   *)
(* times, concurrent calls and faults, and any limit of the filter.        *)
(*                                                                         *)
(* The argument is one inductive invariant, IInv: what the Pod holds, what *)
(* each stage of a call relies on, and the two counts.  One lemma per part *)
(* shows that a step keeps it; each has one step per action.               *)
(***************************************************************************)
EXTENDS ObservationStream, FiniteSetTheorems,
        WellFoundedInduction, TLAPS

(* getChildNode picks an element: a set of times with an upper bound has a *)
(* latest one, the one whose distance to the bound is least.               *)
LEMMA LatestExists ==
    ASSUME NEW S, S \subseteq Nat, S # {}, NEW n \in Nat, \A s \in S : s <= n
    PROVE  Latest(S) \in S /\ \A s \in S : s <= Latest(S)
<1> DEFINE Distances == {n - s : s \in S}
<1>0. \A s \in S : s \in Nat /\ n - s \in Nat
  OBVIOUS
<1>1. Distances \subseteq Nat /\ Distances # {}
  BY <1>0
<1>2. PICK d \in Distances : \A e \in Distances : <<e, d>> \notin OpToRel(<, Nat)
  BY <1>1, WFMin, NatLessThanWellFounded
<1>3. \A e \in Distances : ~(e < d)
  BY <1>1, <1>2 DEF OpToRel
<1>4. PICK t \in S : d = n - t
  OBVIOUS
<1>5. \A s \in S : s <= t
  <2> TAKE s \in S
  <2>1. ~(n - s < n - t)
    BY <1>3, <1>4
  <2> QED
    BY <1>0, <2>1
<1> QED
  BY <1>4, <1>5 DEF Latest

LEMMA LatestCandidate ==
    ASSUME TypeOK, NEW o \in Obs, Candidates(o) # {}
    PROVE  Latest(Candidates(o)) \in Candidates(o)
<1>1. Candidates(o) \subseteq Nat /\ resultTime[o] \in Nat
  BY TimesAssumption DEF TypeOK, Candidates
<1>2. \A s \in Candidates(o) : s <= resultTime[o]
  BY DEF Candidates
<1> QED
  BY <1>1, <1>2, LatestExists

----------------------------------------------------------------------------
(* Types.                                                                  *)

LEMMA TypeInit == Init => TypeOK
<1> SUFFICES ASSUME Init PROVE TypeOK
  OBVIOUS
<1>1. pc \in [Calls -> {"new"} \union InFlight \union Ended]
  BY DEF Init
<1>2. faults \in 0..MaxFaults
  BY FaultsAssumption DEF Init
<1> QED
  BY <1>1, <1>2 DEF Init, TypeOK

LEMMA TypeStep == TypeOK /\ [Next]_vars => TypeOK'
<1> SUFFICES ASSUME TypeOK, [Next]_vars PROVE TypeOK'
  OBVIOUS
<1> USE DEF TypeOK, Goto, pod, Calls
<1>1. ASSUME NEW c \in Calls, Start(c) PROVE TypeOK'
  BY <1>1 DEF Start, InFlight, Searching, Creating
<1>2. ASSUME NEW c \in Calls, CreateStep(c) PROVE TypeOK'
  BY <1>2 DEF CreateStep, LinkProfile, CheckContainer, RecheckContainer,
     PutContainer, PutContainerConflict, InFlight, Searching, Creating, Ended,
     Settled, Rejected, TailStages
<1>3. ASSUME NEW c \in Calls, TailStep(c) PROVE TypeOK'
  BY <1>3 DEF TailStep, ReadTtl, CreateTtl, CreateTtlConflict, PatchTtl,
     SaveMeta, EndTail, InFlight, Searching, Ended, Settled, Rejected, TailStages
<1>4. ASSUME NEW c \in Calls, FaultStep(c) PROVE TypeOK'
  <2>1. faults' = faults + 1 /\ faults < MaxFaults
    BY <1>4 DEF FaultStep, Fault, RequestRefused, NetworkFailure, TailRefused,
       TailNetworkFailure, Crash
  <2>2. faults' \in 0..MaxFaults
    BY <2>1, FaultsAssumption
  <2> QED
    <3>1. CASE RequestRefused(c) \/ NetworkFailure(c)
      BY <2>2, <3>1 DEF RequestRefused, NetworkFailure, Ended, Settled, Rejected
    <3>2. CASE TailRefused(c)
      BY <2>2, <3>2 DEF TailRefused, EndTail, Ended, Settled, Rejected
    <3>3. CASE TailNetworkFailure(c)
      BY <2>2, <3>3 DEF TailNetworkFailure, EndTail, Ended, Settled, Rejected
    <3>4. CASE Crash(c)
      BY <2>2, <3>4 DEF Crash, Ended
    <3> QED
      BY <1>4, <3>1, <3>2, <3>3, <3>4 DEF FaultStep
<1>5. ASSUME NEW o \in Obs, AddStep(o) PROVE TypeOK'
  <2>1. CASE FindFragment(o)
    BY <2>1, LatestCandidate DEF FindFragment, InFlight, Placing, Candidates
  <2> QED
    BY <1>5, <2>1 DEF AddStep, FindNoFragment, FindNoRoot, FetchNode,
       FetchFullNode, FetchNothing, CheckChild, PutChild, PutChildConflict,
       SaveRoot, SaveChild, SaveObs, Reply, InFlight, Creating, Placing, Storing,
       Ended, Settled, Rejected
<1>6. CASE UNCHANGED vars
  BY <1>6 DEF vars
<1> QED
  BY <1>1, <1>2, <1>3, <1>4, <1>5, <1>6 DEF Next, Finished

----------------------------------------------------------------------------
(* The Pod.                                                                *)

(* The steps that write nothing to the Pod. *)
LEMMA PodUnchanged ==
    ASSUME \/ UNCHANGED vars
           \/ \E c \in Calls :
               \/ Start(c) \/ CheckContainer(c) \/ RecheckContainer(c)
               \/ PutContainerConflict(c) \/ ReadTtl(c) \/ CreateTtlConflict(c)
               \/ RequestRefused(c) \/ NetworkFailure(c) \/ TailRefused(c)
               \/ Crash(c)
           \/ \E o \in Obs :
               \/ FindFragment(o) \/ FindNoFragment(o) \/ FindNoRoot(o)
               \/ FetchNode(o) \/ FetchFullNode(o) \/ FetchNothing(o)
               \/ CheckChild(o) \/ PutChildConflict(o) \/ Reply(o)
    PROVE  UNCHANGED <<pod, resultTime>>
  BY DEF vars, Start, CheckContainer, RecheckContainer, PutContainerConflict,
     ReadTtl, CreateTtlConflict, RequestRefused, NetworkFailure, TailRefused,
     Crash, FindFragment, FindNoFragment, FindNoRoot, FetchNode, FetchFullNode,
     FetchNothing, CheckChild, PutChildConflict, Reply

(* Each write of a call comes after the writes it depends on. *)
LEMMA PodOrderStep ==
    ASSUME TypeOK, PodOrder, AddStages, CreateStages, [Next]_vars
    PROVE  PodOrder'
<1> USE DEF PodOrder, Described, pod
<1>1. CASE UNCHANGED pod
  BY <1>1
<1>2. ASSUME NEW c \in Calls, LinkProfile(c) PROVE PodOrder'
  BY <1>2 DEF LinkProfile
<1>3. ASSUME NEW c \in Calls, PutContainer(c) PROVE PodOrder'
  BY <1>3 DEF PutContainer, CreateStages, CreateStage
<1>4. ASSUME NEW c \in Calls, CreateTtl(c) \/ PatchTtl(c) PROVE PodOrder'
  BY <1>4 DEF CreateTtl, PatchTtl, CreateStages, CreateStage
<1>5. ASSUME NEW c \in Calls, SaveMeta(c) \/ TailNetworkFailure(c) PROVE PodOrder'
  BY <1>5 DEF SaveMeta, TailNetworkFailure, CreateStages, CreateStage
<1>6. ASSUME NEW o \in Obs, PutChild(o) PROVE PodOrder'
  BY <1>6 DEF PutChild, AddStages, AddStage
<1>7. ASSUME NEW o \in Obs, SaveRoot(o) PROVE PodOrder'
  BY <1>7 DEF SaveRoot, AddStages, AddStage
<1>8. ASSUME NEW o \in Obs, SaveChild(o) PROVE PodOrder'
  BY <1>8 DEF SaveChild, AddStages, AddStage, TypeOK
<1>9. ASSUME NEW o \in Obs, SaveObs(o) PROVE PodOrder'
  BY <1>9 DEF SaveObs, AddStages, AddStage, Storing, TypeOK
<1> QED
  BY <1>1, <1>2, <1>3, <1>4, <1>5, <1>6, <1>7, <1>8, <1>9, PodUnchanged
  DEF Next, CreateStep, TailStep, FaultStep, AddStep, Finished

(* No observation is older than its fragment: members only change in       *)
(* SaveChild, for a fragment the call has checked or has made itself.      *)
LEMMA TreeSoundStep ==
    ASSUME TypeOK, TreeSound, AddStages, [Next]_vars
    PROVE  TreeSound'
<1>1. ASSUME NEW o \in Obs, SaveChild(o) PROVE TreeSound'
  BY <1>1 DEF SaveChild, TreeSound, AddStages, AddStage, TypeOK
<1>2. CASE UNCHANGED <<members, resultTime>>
  BY <1>2 DEF TreeSound
<1>3. \/ UNCHANGED <<members, resultTime>>
      \/ \E o \in Obs : SaveChild(o)
  BY PodUnchanged DEF pod, Next, CreateStep, TailStep, FaultStep, AddStep, Finished,
     LinkProfile, PutContainer, CreateTtl, PatchTtl, SaveMeta, TailNetworkFailure,
     PutChild, SaveRoot, SaveObs
<1> QED
  BY <1>1, <1>2, <1>3

----------------------------------------------------------------------------
(* The calls.                                                              *)

(* Nothing in the Pod goes away, and an observation is only stored by the  *)
(* POST of its own call.                                                   *)
LEMMA PodGrows ==
    ASSUME TypeOK, [Next]_vars
    PROVE  /\ linked => linked'
           /\ container => container'
           /\ ttl => ttl'
           /\ relations \subseteq relations'
           /\ children \subseteq children'
           /\ resultTime' = resultTime
           /\ \A t \in Times : members[t] \subseteq members'[t]
           /\ \A t \in Times, o \in Obs :
                  o \in docs[t] => o \in docs'[t]
           /\ \A t \in Times, o \in Obs :
                  o \in docs'[t] => o \in docs[t] \/ SaveObs(o)
<1> USE DEF pod
<1>1. CASE UNCHANGED <<pod, resultTime>>
  BY <1>1
<1>2. ASSUME NEW c \in Calls,
             LinkProfile(c) \/ PutContainer(c) \/ CreateTtl(c) \/ PatchTtl(c)
                \/ SaveMeta(c) \/ TailNetworkFailure(c)
      PROVE  UNCHANGED <<relations, children, members, docs, resultTime>>
             /\ (linked => linked') /\ (container => container') /\ (ttl => ttl')
  BY <1>2 DEF LinkProfile, PutContainer, CreateTtl, PatchTtl, SaveMeta,
     TailNetworkFailure
<1>3. ASSUME NEW o \in Obs, PutChild(o) \/ SaveRoot(o)
      PROVE  UNCHANGED <<linked, container, ttl, members, docs, resultTime>>
             /\ relations \subseteq relations' /\ children \subseteq children'
  BY <1>3 DEF PutChild, SaveRoot
<1>4. ASSUME NEW o \in Obs, SaveChild(o)
      PROVE  UNCHANGED <<linked, container, ttl, relations, children, docs, resultTime>>
             /\ \A t \in Times : members[t] \subseteq members'[t]
  BY <1>4 DEF SaveChild, TypeOK
<1>5. ASSUME NEW o \in Obs, SaveObs(o)
      PROVE  UNCHANGED <<linked, container, ttl, relations, children, members, resultTime>>
             /\ \A t \in Times : docs[t] \subseteq docs'[t] /\ docs'[t] \subseteq docs[t] \union {o}
  BY <1>5 DEF SaveObs, TypeOK
<1> QED
  BY <1>1, <1>2, <1>3, <1>4, <1>5, PodUnchanged
  DEF Next, CreateStep, TailStep, FaultStep, AddStep, Finished

(* A step is the step of one call: the others are where they were. *)
LEMMA OneCallMoves ==
    ASSUME TypeOK, [Next]_vars, NEW c \in Calls
    PROVE  \/ UNCHANGED <<pc[c], tail[c]>> /\ (c \in Obs => UNCHANGED child[c])
           \/ Start(c) \/ CreateStep(c) \/ TailStep(c) \/ FaultStep(c)
           \/ c \in Obs /\ AddStep(c)
<1> USE DEF TypeOK, Goto, Calls
<1>1. ASSUME NEW d \in Calls, d # c, Start(d) \/ CreateStep(d)
      PROVE  UNCHANGED <<pc[c], tail[c], child>>
  BY <1>1 DEF Start, CreateStep, LinkProfile, CheckContainer, RecheckContainer,
     PutContainer, PutContainerConflict
<1>2. ASSUME NEW d \in Calls, d # c, TailStep(d)
      PROVE  UNCHANGED <<pc[c], tail[c], child>>
  BY <1>2 DEF TailStep, ReadTtl, CreateTtl, CreateTtlConflict, PatchTtl, SaveMeta,
     EndTail
<1>3. ASSUME NEW d \in Calls, d # c, FaultStep(d)
      PROVE  UNCHANGED <<pc[c], tail[c], child>>
  BY <1>3 DEF FaultStep, RequestRefused, NetworkFailure, TailRefused,
     TailNetworkFailure, Crash, EndTail
<1>4. ASSUME NEW o \in Obs, o # c, AddStep(o)
      PROVE  UNCHANGED <<pc[c], tail[c]>> /\ (c \in Obs => UNCHANGED child[c])
  <2>1. CASE FindFragment(o) \/ FindNoFragment(o) \/ FetchFullNode(o)
    BY <1>4, <2>1 DEF FindFragment, FindNoFragment, FetchFullNode
  <2>2. CASE ~(FindFragment(o) \/ FindNoFragment(o) \/ FetchFullNode(o))
    BY <1>4, <2>2 DEF AddStep, FindNoRoot, FetchNode, FetchNothing, CheckChild,
       PutChild, PutChildConflict, SaveRoot, SaveChild, SaveObs, Reply
  <2> QED
    BY <2>1, <2>2
<1> QED
  BY <1>1, <1>2, <1>3, <1>4 DEF Next, Finished, vars

(* What a stage relies on is true when the call gets there, and no other   *)
(* call takes it away.                                                     *)
LEMMA AddStageStep ==
    ASSUME TypeOK, PodOrder, AddStages, CreateStages, [Next]_vars, NEW o \in Obs
    PROVE  AddStage(o)'
<1> USE DEF TypeOK, AddStage, Calls
<1>1. AddStage(o) /\ CreateStage(o)
  BY DEF AddStages, CreateStages
<1>2. /\ ttl => ttl'
      /\ relations \subseteq relations'
      /\ children \subseteq children'
      /\ resultTime' = resultTime
      /\ \A t \in Times : members[t] \subseteq members'[t]
      /\ \A t \in Times : o \in docs[t] => o \in docs'[t]
      /\ Described \subseteq Described'
  BY PodGrows DEF Described
<1>3. \A t \in Times : o \in docs'[t] => o \in docs[t] \/ pc'[o] = "reply"
  BY PodGrows DEF SaveObs, Goto
<1> DEFINE Unstored == {"new", "saveObs"} \union Searching \union Creating \union Placing
<1>4. pc[o] \in Unstored /\ pc'[o] # "reply" => \A t \in Times : o \notin docs'[t]
  BY <1>1, <1>3
<1>5. "reply" \notin Unstored
  BY DEF Searching, Creating, Placing
<1>6. CASE UNCHANGED <<pc[o], child[o]>>
  BY <1>1, <1>2, <1>4, <1>5, <1>6
<1>7. CASE Start(o)
  BY <1>1, <1>4, <1>7 DEF Start, Goto, Searching, Creating, Placing, Storing
<1>8. CASE CreateStep(o)
  BY <1>1, <1>4, <1>8 DEF CreateStep, LinkProfile, CheckContainer, RecheckContainer,
     PutContainer, PutContainerConflict, Goto, Searching, Creating, Placing, Storing
<1>9. CASE TailStep(o)
  <2>1. \/ UNCHANGED <<pc[o], child[o]>>
        \/ pc[o] = "tail" /\ pc'[o] \in {"conflict", "refind"}
    BY <1>9 DEF TailStep, ReadTtl, CreateTtl, CreateTtlConflict, PatchTtl, SaveMeta,
       EndTail
  <2> QED
    BY <1>1, <1>4, <1>6, <2>1 DEF Searching, Creating, Placing, Storing
<1>10. CASE FaultStep(o)
  <2>1. UNCHANGED <<pc[o], child[o]>> \/ pc'[o] \in {"error", "hung", "lost"}
    BY <1>10 DEF FaultStep, RequestRefused, NetworkFailure, TailRefused,
       TailNetworkFailure, Crash, EndTail, Goto
  <2> QED
    BY <1>6, <2>1 DEF Searching, Creating, Placing, Storing
<1>11. CASE AddStep(o)
  <2> USE DEF Goto
  <2>1. CASE FindFragment(o)
    BY <1>1, <1>2, <1>4, <2>1, LatestCandidate
    DEF FindFragment, Candidates, Searching, Creating, Placing, Storing
  <2>2. CASE FindNoFragment(o)
    BY <1>1, <1>2, <1>4, <2>2
    DEF FindNoFragment, RootFound, Searching, Creating, Placing, Storing
  <2>3. CASE FindNoRoot(o)
    BY <1>1, <1>4, <2>3 DEF FindNoRoot, Searching, Creating, Placing, Storing
  <2>4. CASE FetchNode(o) \/ FetchNothing(o)
    BY <1>1, <1>2, <1>4, <2>4
    DEF FetchNode, FetchNothing, Searching, Creating, Placing, Storing
  <2>5. CASE FetchFullNode(o)
    BY <1>1, <1>2, <1>4, <2>5
    DEF FetchFullNode, PodOrder, Searching, Creating, Placing, Storing
  <2>6. CASE CheckChild(o) \/ PutChildConflict(o)
    BY <1>1, <1>2, <1>4, <2>6
    DEF CheckChild, PutChildConflict, Searching, Creating, Placing, Storing
  <2>10. CASE PutChild(o)
    BY <1>1, <1>2, <1>4, <2>10 DEF PutChild, Searching, Creating, Placing, Storing
  <2>7. CASE SaveRoot(o)
    <3>1. pc'[o] = "saveChild" /\ child'[o] \in relations' /\ child'[o] = resultTime'[o]
      BY <1>1, <1>2, <2>7 DEF SaveRoot
    <3>2. child'[o] <= resultTime'[o]
      <4>1. resultTime'[o] \in Nat
        BY <1>2, TimesAssumption
      <4> QED
        BY <3>1, <4>1
    <3> QED
      BY <1>4, <2>7, <3>1, <3>2 DEF SaveRoot, Searching, Creating, Placing, Storing
  <2>8. CASE SaveChild(o)
    BY <1>1, <1>2, <1>4, <2>8 DEF SaveChild, Searching, Creating, Placing, Storing
  <2>9. CASE SaveObs(o) \/ Reply(o)
    BY <1>1, <1>2, <2>9 DEF SaveObs, Reply, Searching, Creating, Placing, Storing
  <2> QED
    BY <1>11, <2>1, <2>2, <2>3, <2>4, <2>5, <2>6, <2>7, <2>8, <2>9, <2>10 DEF AddStep
<1> QED
  BY <1>6, <1>7, <1>8, <1>9, <1>10, <1>11, OneCallMoves

LEMMA CreateStageStep ==
    ASSUME TypeOK, CreateStages, [Next]_vars, NEW c \in Calls
    PROVE  CreateStage(c)'
<1> USE DEF TypeOK, CreateStage
<1>1. CreateStage(c)
  BY DEF CreateStages
<1>2. (linked => linked') /\ (container => container') /\ (ttl => ttl')
  BY PodGrows
<1>3. CASE UNCHANGED <<pc[c], tail[c]>>
  BY <1>1, <1>2, <1>3
<1>4. CASE Start(c)
  BY <1>1, <1>2, <1>4, CallsAssumption
  DEF Start, Goto, Calls, Searching, Placing, Storing
<1>5. CASE CreateStep(c)
  <2>1. CASE LinkProfile(c)
    BY <1>1, <1>2, <2>1 DEF LinkProfile, Goto, Searching, Placing, Storing
  <2>2. CASE CheckContainer(c)
    BY <1>1, <1>2, <2>2, CallsAssumption
    DEF CheckContainer, Goto, Searching, Placing, Storing
  <2>3. CASE RecheckContainer(c)
    BY <1>1, <1>2, <2>3 DEF RecheckContainer, Goto, Searching, Placing, Storing
  <2>4. CASE PutContainer(c)
    BY <1>1, <1>2, <2>4 DEF PutContainer, Goto, Searching, Placing, Storing
  <2>5. CASE PutContainerConflict(c)
    BY <1>1, <1>2, <2>5 DEF PutContainerConflict, Goto, Searching, Placing, Storing
  <2> QED
    BY <1>5, <2>1, <2>2, <2>3, <2>4, <2>5 DEF CreateStep
<1>6. CASE TailStep(c)
  <2>1. CASE ReadTtl(c)
    BY <1>1, <1>2, <2>1 DEF ReadTtl
  <2>2. CASE CreateTtl(c) \/ PatchTtl(c)
    BY <1>1, <1>2, <2>2 DEF CreateTtl, PatchTtl
  <2>3. CASE CreateTtlConflict(c)
    BY <1>1, <1>2, <2>3 DEF CreateTtlConflict, EndTail, Searching, Placing, Storing
  <2>4. CASE SaveMeta(c)
    BY <1>1, <1>2, <2>4, CallsAssumption
    DEF SaveMeta, EndTail, Searching, Placing, Storing
  <2> QED
    BY <1>6, <2>1, <2>2, <2>3, <2>4 DEF TailStep
<1>7. CASE FaultStep(c)
  <2>1. CASE RequestRefused(c) \/ NetworkFailure(c)
    BY <1>1, <1>2, <2>1
    DEF RequestRefused, NetworkFailure, Goto, Searching, Placing, Storing
  <2>2. CASE TailRefused(c) \/ TailNetworkFailure(c)
    BY <1>1, <1>2, <2>2
    DEF TailRefused, TailNetworkFailure, EndTail, Searching, Placing, Storing
  <2>3. CASE Crash(c)
    BY <1>1, <1>2, <2>3
    DEF Crash, InFlight, Searching, Creating, Placing, Storing
  <2> QED
    BY <1>7, <2>1, <2>2, <2>3 DEF FaultStep
<1>8. CASE c \in Obs /\ AddStep(c)
  <2>1. c \notin Creations /\ tail' = tail
    BY <1>8, CallsAssumption DEF AddStep, FindFragment, FindNoFragment, FindNoRoot,
       FetchNode, FetchFullNode, FetchNothing, CheckChild, PutChild,
       PutChildConflict, SaveRoot, SaveChild, SaveObs, Reply
  <2>2. pc'[c] \notin {"check", "recheck", "putContainer", "tail"}
    BY <1>8 DEF AddStep, FindFragment, FindNoFragment, FindNoRoot,
       FetchNode, FetchFullNode, FetchNothing, CheckChild, PutChild,
       PutChildConflict, SaveRoot, SaveChild, SaveObs, Reply, Goto
  <2> QED
    BY <1>1, <1>2, <2>1, <2>2
<1> QED
  BY <1>3, <1>4, <1>5, <1>6, <1>7, <1>8, OneCallMoves

----------------------------------------------------------------------------
(* The counts.                                                             *)

(* Only Start brings a call in flight. *)
LEMMA ActiveShrinks ==
    ASSUME TypeOK, [Next]_vars, ~\E c \in Calls : Start(c)
    PROVE  Active' \subseteq Active
<1> SUFFICES ASSUME NEW c \in Calls, pc'[c] \in InFlight PROVE pc[c] \in InFlight
  BY DEF Active
<1> USE DEF InFlight
<1>1. CASE CreateStep(c)
  BY <1>1 DEF CreateStep, LinkProfile, CheckContainer, RecheckContainer,
     PutContainer, PutContainerConflict, Creating
<1>2. CASE TailStep(c)
  BY <1>2 DEF TailStep, ReadTtl, CreateTtl, CreateTtlConflict, PatchTtl, SaveMeta,
     EndTail, Creating, TypeOK
<1>3. CASE FaultStep(c)
  <2>1. UNCHANGED pc[c] \/ pc'[c] \in {"error", "hung", "lost"}
    BY <1>3 DEF FaultStep, RequestRefused, NetworkFailure, TailRefused,
       TailNetworkFailure, Crash, EndTail, Goto, TypeOK
  <2> QED
    BY <2>1 DEF Searching, Creating, Placing, Storing
<1>4. CASE c \in Obs /\ AddStep(c)
  BY <1>4 DEF AddStep, FindFragment, FindNoFragment, FindNoRoot, FetchNode,
     FetchFullNode, FetchNothing, CheckChild, PutChild, PutChildConflict, SaveRoot,
     SaveChild, SaveObs, Reply, Searching, Placing, Storing
<1> QED
  BY <1>1, <1>2, <1>3, <1>4, OneCallMoves

LEMMA ActiveBoundStep ==
    ASSUME TypeOK, ActiveBound, [Next]_vars
    PROVE  ActiveBound'
<1>1. IsFiniteSet(Active) /\ Cardinality(Active) \in Nat
  BY CallsAssumption, FS_Subset, FS_CardinalityType DEF Active
<1>2. ASSUME NEW c \in Calls, Start(c) PROVE ActiveBound'
  <2>1. Active' \subseteq Active \union {c}
    BY <1>2 DEF Start, Goto, Active, TypeOK
  <2>2. /\ IsFiniteSet(Active \union {c})
        /\ Cardinality(Active \union {c}) <= Cardinality(Active) + 1
        /\ Cardinality(Active \union {c}) \in Nat
    BY <1>1, FS_AddElement, FS_CardinalityType
  <2>3. Cardinality(Active') <= Cardinality(Active \union {c})
        /\ Cardinality(Active') \in Nat
    BY <2>1, <2>2, FS_Subset, FS_CardinalityType
  <2>4. Cardinality(Active) < Concurrency
    BY <1>2 DEF Start
  <2> QED
    BY <1>1, <2>2, <2>3, <2>4, ConcurrencyAssumption DEF ActiveBound
<1>3. CASE ~\E c \in Calls : Start(c)
  <2>1. Cardinality(Active') <= Cardinality(Active) /\ Cardinality(Active') \in Nat
    BY <1>1, <1>3, ActiveShrinks, FS_Subset, FS_CardinalityType
  <2> QED
    BY <1>1, <2>1, ConcurrencyAssumption DEF ActiveBound
<1> QED
  BY <1>2, <1>3

(* Only SaveChild adds a member, the observation of its call. *)
LEMMA NewMember ==
    ASSUME TypeOK, [Next]_vars, NEW t \in Times, NEW o \in members'[t],
           o \notin members[t]
    PROVE  o \in Obs /\ SaveChild(o) /\ child[o] = t
<1>1. PICK x \in Obs : SaveChild(x)
  <2>1. members' # members
    OBVIOUS
  <2> QED
    BY <2>1, PodUnchanged DEF pod, Next, CreateStep, TailStep, FaultStep, AddStep,
       Finished, LinkProfile, PutContainer, CreateTtl, PatchTtl, SaveMeta,
       TailNetworkFailure, PutChild, SaveRoot, SaveObs
<1> QED
  BY <1>1 DEF SaveChild, TypeOK

(* Only the filter lets a call join a fragment that is not its own. *)
LEMMA NewlyAdmitted ==
    ASSUME TypeOK, AddStages, [Next]_vars, NEW t \in Times,
           NEW o \in Admitted(t)', o \notin Admitted(t)
    PROVE  o \in Obs /\ FetchNode(o) /\ child[o] = t
<1>1. /\ o \in Obs /\ pc'[o] = "saveChild" /\ child'[o] = t /\ resultTime[o] # t
      /\ ~UNCHANGED <<pc[o], child[o]>>
  BY PodGrows DEF Admitted
<1>2. o \in Calls
  BY <1>1 DEF Calls
<1>3. ~Start(o) /\ ~CreateStep(o)
  BY <1>1, <1>2 DEF Start, CreateStep, LinkProfile, CheckContainer, RecheckContainer,
     PutContainer, PutContainerConflict, Goto, TypeOK
<1>4. ~TailStep(o) /\ ~FaultStep(o)
  BY <1>1, <1>2 DEF TailStep, ReadTtl, CreateTtl, CreateTtlConflict, PatchTtl,
     SaveMeta, FaultStep, RequestRefused, NetworkFailure, TailRefused,
     TailNetworkFailure, Crash, EndTail, Goto, TypeOK
<1>5. AddStep(o)
  BY <1>1, <1>2, <1>3, <1>4, OneCallMoves
<1>6. ~SaveRoot(o)
  BY <1>1 DEF SaveRoot, AddStages, AddStage
<1> QED
  BY <1>1, <1>2, <1>5, <1>6 DEF AddStep, FindFragment, FindNoFragment, FindNoRoot,
     FetchNode, FetchFullNode, FetchNothing, CheckChild, PutChild, PutChildConflict,
     SaveChild, SaveObs, Reply, Goto, TypeOK

(* The first member of a fragment is one it is named after: others only    *)
(* come to a fragment that has a member.                                   *)
LEMMA FoundedStep ==
    ASSUME TypeOK, AddStages, Founded, [Next]_vars
    PROVE  Founded'
<1> SUFFICES ASSUME NEW t \in Times, members'[t] # {}
             PROVE  \E o \in members'[t] : resultTime'[o] = t
  BY DEF Founded, Described
<1>1. resultTime' = resultTime /\ members[t] \subseteq members'[t]
  BY PodGrows
<1>2. CASE members[t] # {}
  BY <1>1, <1>2 DEF Founded, Described
<1>3. CASE members[t] = {}
  <2>1. PICK o \in members'[t] : o \in Obs /\ SaveChild(o) /\ child[o] = t
    BY <1>3, NewMember
  <2>2. child[o] \notin Described
    BY <1>3, <2>1 DEF Described
  <2>3. resultTime[o] = t
    BY <2>1, <2>2 DEF SaveChild, AddStages, AddStage
  <2> QED
    BY <1>1, <2>1, <2>3
<1> QED
  BY <1>2, <1>3

(* The filter let a call through: fewer than Limit members, one of them    *)
(* the fragment's own, and at most Concurrency calls on their way.         *)
LEMMA AdmissionBoundStep ==
    ASSUME TypeOK, AddStages, Founded, ActiveBound, AdmissionBound, [Next]_vars
    PROVE  AdmissionBound'
<1> SUFFICES ASSUME NEW t \in Times
             PROVE  Cardinality(Joined(t)' \union Admitted(t)') <= Limit + Concurrency - 2
  BY DEF AdmissionBound
<1> DEFINE Before == Joined(t) \union Admitted(t)
           After  == Joined(t)' \union Admitted(t)'
<1>1. IsFiniteSet(Obs)
  BY CallsAssumption, FS_Subset DEF Calls
<1>2. Before \subseteq Obs /\ After \subseteq Obs
  BY TypeStep DEF Joined, Admitted, TypeOK
<1>3. /\ IsFiniteSet(Before) /\ Cardinality(Before) \in Nat
      /\ IsFiniteSet(After) /\ Cardinality(After) \in Nat
  BY <1>1, <1>2, FS_Subset, FS_CardinalityType
<1>4. \A o \in Joined(t)' : o \in Before
  BY NewMember, PodGrows DEF Joined, Admitted, SaveChild
<1>5. CASE \A o \in Admitted(t)' : o \in Admitted(t)
  <2>1. After \subseteq Before
    BY <1>4, <1>5
  <2>2. Cardinality(After) <= Cardinality(Before)
    BY <1>3, <2>1, FS_Subset
  <2> QED
    BY <1>3, <2>2, LimitAssumption, ConcurrencyAssumption DEF AdmissionBound
<1>6. ASSUME NEW o \in Admitted(t)', o \notin Admitted(t)
      PROVE  Cardinality(After) <= Limit + Concurrency - 2
  <2>1. o \in Obs /\ FetchNode(o) /\ child[o] = t
    BY <1>6, NewlyAdmitted
  <2>2. PICK first \in members[t] : resultTime[first] = t
    BY <2>1 DEF FetchNode, Founded, Described
  <2> DEFINE Others == members[t] \ {first}
  <2>3. Joined(t)' \subseteq Others /\ Admitted(t)' \subseteq Active'
    <3>1. UNCHANGED <<members, resultTime>>
      BY <2>1 DEF FetchNode, pod
    <3> QED
      BY <2>2, <3>1 DEF Joined, Admitted, Active, Calls, InFlight, Placing
  <2>4. Cardinality(Active') <= Concurrency
    BY ActiveBoundStep DEF ActiveBound
  <2>5. IsFiniteSet(members[t]) /\ IsFiniteSet(Active')
    <3>1. members[t] \subseteq Obs /\ Active' \subseteq Calls
      BY DEF TypeOK, Active
    <3> QED
      BY <1>1, <3>1, CallsAssumption, FS_Subset
  <2>6. /\ IsFiniteSet(Others)
        /\ Cardinality(Others) = Cardinality(members[t]) - 1
    BY <2>2, <2>5, FS_RemoveElement
  <2>7. Cardinality(members[t]) < Limit
    BY <2>1 DEF FetchNode
  <2>8. /\ Cardinality(members[t]) \in Nat /\ Cardinality(Others) \in Nat
        /\ Cardinality(Active') \in Nat
    BY <2>5, <2>6, FS_CardinalityType
  <2>9. Cardinality(Others \union Active') <= Cardinality(Others) + Cardinality(Active')
    <3>1. IsFiniteSet(Others \intersect Active')
      BY <2>6, FS_Subset
    <3>2. Cardinality(Others \intersect Active') \in Nat
      BY <3>1, FS_CardinalityType
    <3>3. Cardinality(Others \union Active') =
             Cardinality(Others) + Cardinality(Active') - Cardinality(Others \intersect Active')
      BY <2>5, <2>6, FS_Union
    <3> QED
      BY <2>8, <3>2, <3>3
  <2>10. IsFiniteSet(Others \union Active') /\ Cardinality(Others \union Active') \in Nat
    BY <2>5, <2>6, FS_Union, FS_CardinalityType
  <2>11. Cardinality(After) <= Cardinality(Others \union Active')
    BY <2>3, <2>10, FS_Subset
  <2> QED
    BY <1>3, <2>4, <2>6, <2>7, <2>8, <2>9, <2>10, <2>11, LimitAssumption,
       ConcurrencyAssumption
<1> QED
  BY <1>5, <1>6

----------------------------------------------------------------------------
(* The inductive invariant and what follows from it.                       *)

LEMMA IInvInit == Init => IInv
<1> SUFFICES ASSUME Init PROVE IInv
  OBVIOUS
<1>1. TypeOK
  BY TypeInit
<1>2. PodOrder /\ TreeSound
  BY DEF Init, PodOrder, Described, TreeSound
<1>3. AddStages
  BY DEF Init, AddStages, AddStage, Calls, Storing
<1>4. CreateStages
  BY DEF Init, CreateStages, CreateStage, Searching, Placing, Storing
<1>5. Active = {} /\ \A t \in Times : Joined(t) \union Admitted(t) = {}
  BY DEF Init, Active, Calls, InFlight, Searching, Creating, Placing, Storing,
     Joined, Admitted
<1>6. Founded /\ ActiveBound /\ AdmissionBound
  <2>1. Cardinality({}) = 0
    BY FS_EmptySet
  <2>2. Founded
    BY DEF Init, Founded, Described
  <2> QED
    BY <1>5, <2>1, <2>2, LimitAssumption, ConcurrencyAssumption
    DEF ActiveBound, AdmissionBound
<1> QED
  BY <1>1, <1>2, <1>3, <1>4, <1>6 DEF IInv

LEMMA IInvStep == IInv /\ [Next]_vars => IInv'
<1> SUFFICES ASSUME IInv, [Next]_vars PROVE IInv'
  OBVIOUS
<1>1. TypeOK' /\ PodOrder' /\ TreeSound'
  BY TypeStep, PodOrderStep, TreeSoundStep DEF IInv
<1>2. AddStages' /\ CreateStages'
  <2>1. \A o \in Obs : AddStage(o)'
    BY AddStageStep DEF IInv
  <2>2. \A c \in Calls : CreateStage(c)'
    BY CreateStageStep DEF IInv
  <2> QED
    BY <2>1, <2>2 DEF AddStages, CreateStages
<1>3. Founded' /\ ActiveBound' /\ AdmissionBound'
  BY FoundedStep, ActiveBoundStep, AdmissionBoundStep DEF IInv
<1> QED
  BY <1>1, <1>2, <1>3 DEF IInv

(* Every reachable state satisfies the inductive invariant. *)
THEOREM Invariance == Spec => []IInv
  BY IInvInit, IInvStep, PTL DEF Spec

(* Every variable keeps its type. *)
THEOREM TypeCorrect == Spec => []TypeOK
<1>1. IInv => TypeOK
  BY DEF IInv
<1> QED
  BY <1>1, Invariance, PTL

(* However calls interleave and wherever they stop, the Pod holds no       *)
(* observation, fragment or document that nothing above it leads to.       *)
THEOREM PodOrderCorrect == Spec => []PodOrder
<1>1. IInv => PodOrder
  BY DEF IInv
<1> QED
  BY <1>1, Invariance, PTL

(* The relations of the root node are true of the members behind them. *)
THEOREM TreeSoundCorrect == Spec => []TreeSound
<1>1. IInv => TreeSound
  BY DEF IInv
<1> QED
  BY <1>1, Invariance, PTL

(* A resolved call has left its three traces in the fragment it settled on. *)
LEMMA ResolvedWritten == IInv => AckedWritten
<1> SUFFICES ASSUME IInv, NEW o \in Obs, pc[o] = "resolved"
             PROVE  child[o] \in Times /\ Written(o, child[o])
  BY DEF AckedWritten
<1>1. child[o] \in Times /\ o \in members[child[o]] /\ o \in docs[child[o]]
  BY DEF IInv, TypeOK, AddStages, AddStage
<1>2. child[o] \in relations
  BY <1>1 DEF IInv, PodOrder, Described
<1> QED
  BY <1>1, <1>2 DEF Written

(* addObservation only resolves when a document about the observation, its *)
(* membership and the relation to its fragment are in the Pod, where they  *)
(* stay.  What fetchObservations makes of them is another matter.          *)
THEOREM AckedWrittenCorrect == Spec => []AckedWritten
  BY ResolvedWritten, Invariance, PTL

(* The filter bounds a fragment to within the number of calls in flight. *)
THEOREM FragmentBoundCorrect == Spec => []FragmentBound
<1>1. IInv => FragmentBound
  <2> SUFFICES ASSUME IInv, NEW t \in Times
               PROVE  Cardinality(Joined(t)) <= Limit + Concurrency - 2
    BY DEF FragmentBound
  <2>1. Joined(t) \union Admitted(t) \subseteq Obs /\ IsFiniteSet(Obs)
    BY CallsAssumption, FS_Subset DEF IInv, TypeOK, Joined, Admitted, Calls
  <2>2. IsFiniteSet(Joined(t) \union Admitted(t))
    BY <2>1, FS_Subset
  <2>3. Cardinality(Joined(t)) <= Cardinality(Joined(t) \union Admitted(t))
    BY <2>2, FS_Subset
  <2>4. /\ Cardinality(Joined(t)) \in Nat
        /\ Cardinality(Joined(t) \union Admitted(t)) \in Nat
    <3>1. IsFiniteSet(Joined(t))
      BY <2>2, FS_Subset
    <3> QED
      BY <2>2, <3>1, FS_CardinalityType
  <2> QED
    BY <2>3, <2>4, LimitAssumption, ConcurrencyAssumption DEF IInv, AdmissionBound
<1> QED
  BY <1>1, Invariance, PTL

----------------------------------------------------------------------------
(* One call at a time.                                                     *)

(* What the only call in flight knows at each stage: nobody else is there  *)
(* to create what it is about to create.  The rest of an earlier           *)
(* createProperty chain may still be at work, but not one that waits for   *)
(* property.ttl while this call has a chain of its own to wait for.        *)
LoneStage(c) ==
    /\ pc[c] \in {"recheck", "putContainer"} => ~container
    /\ pc[c] = "tail" => \A d \in Calls \ {c} : tail[d] = "none"
    /\ pc[c] = "tail" /\ tail[c] = "createTtl" => ~ttl
    /\ c \in Obs /\ pc[c] = "putChild" => child[c] \notin children
    /\ pc[c] # "conflict"

(* Without a fault, what one request leaves half done is finished by the   *)
(* call that is in flight, so the next call finds it complete.             *)
Unfailed ==
    /\ \A c \in Calls : pc[c] \notin Rejected
    /\ container => ttl \/ \E c \in Calls : pc[c] = "tail"
    /\ \A o \in Obs : pc[o] = "refind" => ttl
    /\ \A t \in relations :
           t \in Described \/ \E o \in Obs : pc[o] = "saveChild" /\ child[o] = t

LoneInv == (\A c \in Calls : LoneStage(c)) /\ (faults = 0 => Unfailed)

LEMMA OneActive ==
    ASSUME Concurrency = 1, TypeOK, ActiveBound,
           NEW c \in Calls, NEW d \in Calls, pc[c] \in InFlight, pc[d] \in InFlight
    PROVE  c = d
<1> SUFFICES ASSUME c # d PROVE FALSE
  OBVIOUS
<1>1. {c, d} \subseteq Active /\ IsFiniteSet(Active)
  BY CallsAssumption, FS_Subset DEF Active
<1>2. IsFiniteSet({c}) /\ Cardinality({c}) = 1
  BY FS_Singleton
<1>3. Cardinality({c} \union {d}) = 2
  <2>1. Cardinality({c} \union {d}) = Cardinality({c}) + 1
    <3>1. d \notin {c}
      OBVIOUS
    <3> QED
      BY <1>2, <3>1, FS_AddElement
  <2> QED
    BY <1>2, <2>1
<1>4. {c} \union {d} = {c, d}
  OBVIOUS
<1>5. Cardinality({c, d}) <= Cardinality(Active) /\ Cardinality(Active) \in Nat
  BY <1>1, FS_Subset, FS_CardinalityType
<1> QED
  BY <1>3, <1>4, <1>5 DEF ActiveBound

(* Who writes what the stages of a lone call are about. *)
LEMMA LoneWriters ==
    ASSUME TypeOK, [Next]_vars
    PROVE  /\ container' = container \/ \E d \in Calls : PutContainer(d)
           /\ ttl' = ttl \/ \E d \in Calls : CreateTtl(d) \/ PatchTtl(d)
           /\ children' = children \/ \E o \in Obs : PutChild(o)
           /\ relations' = relations \/ \E o \in Obs : SaveRoot(o)
           /\ faults' = faults \/ \E d \in Calls : FaultStep(d)
<1>1. /\ container' = container \/ \E d \in Calls : PutContainer(d)
      /\ ttl' = ttl \/ \E d \in Calls : CreateTtl(d) \/ PatchTtl(d)
      /\ children' = children \/ \E o \in Obs : PutChild(o)
      /\ relations' = relations \/ \E o \in Obs : SaveRoot(o)
  BY PodUnchanged DEF pod, Next, CreateStep, TailStep, FaultStep, AddStep, Finished,
     LinkProfile, PutContainer, CreateTtl, PatchTtl, SaveMeta, TailNetworkFailure,
     PutChild, SaveRoot, SaveChild, SaveObs
<1>2. faults' = faults \/ \E d \in Calls : FaultStep(d)
  BY DEF Next, Finished, vars, Start, CreateStep, LinkProfile, CheckContainer,
     RecheckContainer, PutContainer, PutContainerConflict, TailStep, ReadTtl,
     CreateTtl, CreateTtlConflict, PatchTtl, SaveMeta, AddStep, FindFragment,
     FindNoFragment, FindNoRoot, FetchNode, FetchFullNode, FetchNothing,
     CheckChild, PutChild, PutChildConflict, SaveRoot, SaveChild, SaveObs, Reply
<1> QED
  BY <1>1, <1>2

(* A chain begins when its call sees or makes the container. *)
LEMMA TailBegins ==
    ASSUME TypeOK, [Next]_vars, NEW d \in Calls, tail[d] = "none", tail'[d] # "none"
    PROVE  pc[d] \in {"check", "recheck", "putContainer"}
<1>1. ~FaultStep(d)
  BY DEF FaultStep, RequestRefused, NetworkFailure, TailRefused,
     TailNetworkFailure, Crash, EndTail, TypeOK
<1>2. d \in Obs => ~AddStep(d)
  BY DEF AddStep, FindFragment, FindNoFragment, FindNoRoot, FetchNode, FetchFullNode,
     FetchNothing, CheckChild, PutChild, PutChildConflict, SaveRoot, SaveChild,
     SaveObs, Reply
<1>3. ~TailStep(d) /\ ~Start(d) /\ ~LinkProfile(d)
  BY DEF TailStep, ReadTtl, CreateTtl, CreateTtlConflict, PatchTtl, SaveMeta, Start,
     LinkProfile
<1>4. CreateStep(d) /\ ~LinkProfile(d)
  BY <1>1, <1>2, <1>3, OneCallMoves
<1> QED
  BY <1>4 DEF CreateStep, CheckContainer, RecheckContainer, PutContainer,
     PutContainerConflict

LEMMA LoneStageStep ==
    ASSUME Concurrency = 1, IInv, LoneInv, [Next]_vars, NEW c \in Calls
    PROVE  LoneStage(c)'
<1>0. TypeOK /\ ActiveBound /\ (\A d \in Calls : CreateStage(d)) /\ LoneStage(c)
  BY DEF IInv, CreateStages, LoneInv
<1> DEFINE Alone == {"recheck", "putContainer", "tail", "putChild"}
<1>1. /\ Alone \subseteq InFlight
      /\ {"check", "recheck", "putContainer", "putChild"} \subseteq InFlight
  BY DEF InFlight, Creating, Placing
<1>2. ASSUME NEW d \in Calls, d # c, pc[c] \in Alone
      PROVE  ~PutContainer(d) /\ (d \in Obs => ~PutChild(d))
             /\ pc[d] \notin {"check", "recheck", "putContainer"}
  <2>1. pc[d] \notin InFlight
    BY <1>0, <1>1, <1>2, OneActive
  <2> QED
    BY <1>1, <2>1 DEF PutContainer, PutChild
<1>3. CASE UNCHANGED <<pc[c], tail[c]>> /\ (c \in Obs => UNCHANGED child[c])
  <2>1. pc[c] \in {"recheck", "putContainer"} => container' = container
    BY <1>0, <1>2, <1>3, LoneWriters DEF PutContainer, Goto, TypeOK
  <2>2. c \in Obs /\ pc[c] = "putChild" => children' = children
    BY <1>0, <1>2, <1>3, LoneWriters DEF PutChild, Goto, TypeOK, Calls
  <2>3. pc[c] = "tail" => \A d \in Calls \ {c} : tail'[d] = "none"
    BY <1>0, <1>2, TailBegins DEF LoneStage
  <2>4. pc[c] = "tail" /\ tail[c] = "createTtl" => ttl' = ttl
    <3>1. ASSUME NEW d \in Calls, CreateTtl(d) \/ PatchTtl(d),
                 pc[c] = "tail", tail[c] = "createTtl"
          PROVE  FALSE
      <4>1. d = c
        BY <1>0, <3>1 DEF CreateTtl, PatchTtl, LoneStage
      <4> QED
        BY <1>0, <1>3, <3>1, <4>1 DEF CreateTtl, PatchTtl, TypeOK
    <3> QED
      BY <1>0, <3>1, LoneWriters
  <2> QED
    BY <1>0, <1>3, <2>1, <2>2, <2>3, <2>4 DEF LoneStage
<1>4. CASE Start(c)
  BY <1>0, <1>4 DEF Start, Goto, LoneStage, TypeOK
<1>5. CASE CreateStep(c)
  <2>1. CASE LinkProfile(c) \/ CheckContainer(c)
    BY <1>0, <2>1 DEF LinkProfile, CheckContainer, Goto, LoneStage, TypeOK, pod
  <2>2. CASE RecheckContainer(c)
    BY <1>0, <2>2 DEF RecheckContainer, Goto, LoneStage, TypeOK, pod
  <2>3. CASE PutContainer(c)
    BY <1>0, <2>3 DEF PutContainer, Goto, LoneStage, TypeOK, CreateStage
  <2>4. CASE PutContainerConflict(c)
    BY <1>0, <2>4 DEF PutContainerConflict, LoneStage
  <2> QED
    BY <1>5, <2>1, <2>2, <2>3, <2>4 DEF CreateStep
<1>6. CASE TailStep(c)
  <2>1. CASE ReadTtl(c)
    BY <1>0, <2>1 DEF ReadTtl, LoneStage, TypeOK, pod
  <2>2. CASE CreateTtl(c) \/ PatchTtl(c)
    BY <1>0, <2>2 DEF CreateTtl, PatchTtl, LoneStage, TypeOK
  <2>3. CASE CreateTtlConflict(c)
    BY <1>0, <2>3 DEF CreateTtlConflict, EndTail, LoneStage, TypeOK, pod
  <2>4. CASE SaveMeta(c)
    BY <1>0, <2>4 DEF SaveMeta, EndTail, LoneStage, TypeOK
  <2> QED
    BY <1>6, <2>1, <2>2, <2>3, <2>4 DEF TailStep
<1>7. CASE FaultStep(c)
  <2>1. UNCHANGED <<container, ttl, children>>
    BY <1>7 DEF FaultStep, RequestRefused, NetworkFailure, TailRefused,
       TailNetworkFailure, Crash, pod
  <2>2. \A d \in Calls \ {c} : tail[d] = "none" => tail'[d] = "none"
    BY <1>7, <1>0 DEF FaultStep, RequestRefused, NetworkFailure, TailRefused,
       TailNetworkFailure, Crash, EndTail, TypeOK
  <2>3. \/ pc'[c] \in {"error", "hung", "lost"}
        \/ UNCHANGED pc[c] /\ (pc[c] = "tail" => UNCHANGED tail[c])
    BY <1>0, <1>1, <1>7 DEF FaultStep, RequestRefused, NetworkFailure, TailRefused,
       TailNetworkFailure, Crash, EndTail, Goto, TypeOK
  <2>4. child' = child
    BY <1>7 DEF FaultStep, RequestRefused, NetworkFailure, TailRefused,
       TailNetworkFailure, Crash
  <2> QED
    BY <1>0, <2>1, <2>2, <2>3, <2>4 DEF LoneStage
<1>8. CASE c \in Obs /\ AddStep(c)
  <2>1. CASE CheckChild(c)
    BY <1>0, <2>1 DEF CheckChild, Goto, LoneStage, TypeOK, pod
  <2>2. CASE PutChildConflict(c)
    BY <1>0, <1>8, <2>2 DEF PutChildConflict, LoneStage
  <2>3. CASE ~CheckChild(c) /\ ~PutChildConflict(c)
    <3>1. pc'[c] \notin Alone \union {"conflict"}
      BY <1>0, <1>8, <2>3 DEF AddStep, FindFragment, FindNoFragment, FindNoRoot,
         FetchNode, FetchFullNode, FetchNothing, PutChild, SaveRoot, SaveChild,
         SaveObs, Reply, Goto, TypeOK
    <3> QED
      BY <3>1 DEF LoneStage
  <2> QED
    BY <1>8, <2>1, <2>2, <2>3
<1> QED
  BY <1>0, <1>3, <1>4, <1>5, <1>6, <1>7, <1>8, OneCallMoves

LEMMA UnfailedStep ==
    ASSUME Concurrency = 1, IInv, LoneInv, (\A c \in Calls : LoneStage(c))',
           [Next]_vars, faults' = 0
    PROVE  Unfailed'
<1>0. /\ TypeOK /\ PodOrder /\ ActiveBound
      /\ \A c \in Calls : CreateStage(c) /\ LoneStage(c) /\ LoneStage(c)'
      /\ \A o \in Obs : AddStage(o)
  BY DEF IInv, CreateStages, AddStages, LoneInv
<1>1. \A c \in Calls : ~FaultStep(c)
  <2> SUFFICES ASSUME NEW c \in Calls, FaultStep(c) PROVE FALSE
    OBVIOUS
  <2>1. faults' = faults + 1
    BY DEF FaultStep, Fault, RequestRefused, NetworkFailure, TailRefused,
       TailNetworkFailure, Crash
  <2> QED
    BY <1>0, <2>1, FaultsAssumption DEF TypeOK
<1>2. Unfailed
  BY <1>1, LoneWriters, <1>0 DEF LoneInv
<1>3. /\ container => container'
      /\ ttl => ttl'
      /\ Described \subseteq Described'
  BY <1>0, PodGrows DEF Described
<1>4. ASSUME NEW o \in Obs, pc[o] \in {"check", "fetch"}
      PROVE  /\ pc[o] = "check" /\ container => ttl
             /\ pc[o] = "fetch" => child[o] \in Described
  <2>1. \A d \in Calls : pc[d] \in InFlight => d = o
    BY <1>0, <1>4, OneActive DEF InFlight, Creating, Placing, Calls
  <2>2. \A d \in Calls : pc[d] \notin {"tail", "saveChild"}
    BY <1>4, <2>1 DEF InFlight, Creating, Placing
  <2>3. child[o] \in relations => child[o] \in Described
    BY <1>2, <2>2 DEF Unfailed, Calls
  <2>4. container => ttl
    BY <1>2, <2>2 DEF Unfailed
  <2> QED
    BY <1>0, <1>4, <2>3, <2>4 DEF AddStage
<1>5. ASSUME NEW c \in Calls PROVE pc'[c] \notin Rejected
  <2>0. pc[c] \notin Rejected /\ pc'[c] # "conflict"
    BY <1>0, <1>2 DEF Unfailed, LoneStage
  <2>1. CASE Start(c) \/ CreateStep(c) \/ TailStep(c)
    BY <1>0, <2>0, <2>1 DEF Start, CreateStep, LinkProfile, CheckContainer,
       RecheckContainer, PutContainer, PutContainerConflict, TailStep, ReadTtl,
       CreateTtl, CreateTtlConflict, PatchTtl, SaveMeta, EndTail, Goto, Rejected,
       TypeOK
  <2>2. CASE c \in Obs /\ FindNoRoot(c)
    BY <1>0, <1>2, <2>0, <2>2 DEF FindNoRoot, RootFound, Searching, Goto,
       Unfailed, Rejected, TypeOK
  <2>3. CASE c \in Obs /\ FetchNothing(c)
    BY <1>4, <2>3 DEF FetchNothing
  <2>4. CASE c \in Obs /\ AddStep(c) /\ ~FindNoRoot(c) /\ ~FetchNothing(c)
    BY <1>0, <2>0, <2>4 DEF AddStep, FindFragment, FindNoFragment, FetchNode,
       FetchFullNode, CheckChild, PutChild, PutChildConflict, SaveRoot, SaveChild,
       SaveObs, Reply, Goto, Rejected, TypeOK
  <2> QED
    BY <1>0, <1>1, <2>0, <2>1, <2>2, <2>3, <2>4, OneCallMoves
<1>6. ASSUME container' PROVE ttl' \/ \E c \in Calls : pc'[c] = "tail"
  <2>1. ASSUME NEW d \in Calls, PutContainer(d) PROVE pc'[d] = "tail"
    BY <1>0, <2>1 DEF PutContainer, Goto, TypeOK
  <2>2. ASSUME NEW c \in Calls, pc[c] = "tail" PROVE ttl' \/ pc'[c] = "tail"
    <3>1. CASE TailStep(c)
      BY <1>0, <1>3, <2>2, <3>1 DEF TailStep, ReadTtl, CreateTtl, CreateTtlConflict,
         PatchTtl, SaveMeta, CreateStage
    <3>2. ~Start(c) /\ ~CreateStep(c) /\ (c \in Obs => ~AddStep(c))
      BY <2>2 DEF Start, CreateStep, LinkProfile, CheckContainer, RecheckContainer,
         PutContainer, PutContainerConflict, AddStep, FindFragment, FindNoFragment,
         FindNoRoot, FetchNode, FetchFullNode, FetchNothing, CheckChild, PutChild,
         PutChildConflict, SaveRoot, SaveChild, SaveObs, Reply, Searching
    <3> QED
      BY <1>0, <1>1, <2>2, <3>1, <3>2, OneCallMoves
  <2> QED
    BY <1>0, <1>2, <1>3, <1>6, <2>1, <2>2, LoneWriters DEF Unfailed
<1>7. ASSUME NEW o \in Obs, pc'[o] = "refind" PROVE ttl'
  <2>0. o \in Calls
    BY DEF Calls
  <2>1. CASE pc[o] = "refind"
    BY <1>2, <1>3, <2>1 DEF Unfailed
  <2>2. CASE pc[o] # "refind" /\ CreateStep(o)
    <3>1. pc[o] = "check" /\ container
      BY <1>0, <1>7, <2>0, <2>2 DEF CreateStep, LinkProfile, CheckContainer,
         RecheckContainer, PutContainer, PutContainerConflict, Goto, TypeOK
    <3> QED
      BY <1>3, <1>4, <3>1
  <2>3. CASE pc[o] # "refind" /\ TailStep(o)
    BY <1>0, <1>3, <1>7, <2>0, <2>3 DEF TailStep, ReadTtl, CreateTtl,
       CreateTtlConflict, PatchTtl, SaveMeta, EndTail, TypeOK, CreateStage
  <2>4. ~Start(o) /\ ~AddStep(o)
    BY <1>0, <1>7, <2>0 DEF Start, AddStep, FindFragment, FindNoFragment, FindNoRoot,
       FetchNode, FetchFullNode, FetchNothing, CheckChild, PutChild,
       PutChildConflict, SaveRoot, SaveChild, SaveObs, Reply, Goto, TypeOK
  <2> QED
    BY <1>0, <1>1, <1>7, <2>0, <2>1, <2>2, <2>3, <2>4, OneCallMoves
<1>8. ASSUME NEW t \in relations'
      PROVE  \/ t \in Described'
             \/ \E o \in Obs : pc'[o] = "saveChild" /\ child'[o] = t
  <2>1. ASSUME NEW o \in Obs, SaveRoot(o)
        PROVE  /\ relations' = relations \union {child[o]}
               /\ pc'[o] = "saveChild" /\ child' = child
    BY <1>0, <2>1 DEF SaveRoot, Goto, TypeOK, Calls
  <2>2. ASSUME NEW o \in Obs, pc[o] = "saveChild"
        PROVE  \/ pc'[o] = "saveChild" /\ child'[o] = child[o]
               \/ child[o] \in Described'
    <3>1. CASE SaveChild(o)
      BY <1>0, <3>1 DEF SaveChild, Described, TypeOK
    <3>2. ~Start(o) /\ ~CreateStep(o) /\ (AddStep(o) => SaveChild(o))
      BY <2>2 DEF Start, CreateStep, LinkProfile, CheckContainer, RecheckContainer,
         PutContainer, PutContainerConflict, AddStep, FindFragment, FindNoFragment,
         FindNoRoot, FetchNode, FetchFullNode, FetchNothing, CheckChild, PutChild,
         PutChildConflict, SaveRoot, SaveObs, Reply, Searching
    <3>3. TailStep(o) => UNCHANGED <<pc[o], child[o]>>
      BY <2>2 DEF TailStep, ReadTtl, CreateTtl, CreateTtlConflict, PatchTtl, SaveMeta,
         EndTail
    <3> QED
      BY <1>0, <1>1, <2>2, <3>1, <3>2, <3>3, OneCallMoves DEF Calls
  <2>3. CASE t \in relations
    BY <1>2, <1>3, <2>2, <2>3 DEF Unfailed
  <2> QED
    BY <1>0, <2>1, <2>3, LoneWriters
<1> QED
  BY <1>5, <1>6, <1>7, <1>8 DEF Unfailed

(* A client that waits for each call before the next one: no call ever     *)
(* runs into a 412, whatever earlier calls left behind when they failed,   *)
(* and as long as nothing has failed no call is refused at all.            *)
THEOREM LoneCallsCorrect ==
    ASSUME Concurrency = 1
    PROVE  Spec => []LoneCallsSound
<1>1. Init => LoneInv
  BY DEF Init, LoneInv, LoneStage, Unfailed, Rejected, Calls
<1>2. IInv /\ LoneInv /\ [Next]_vars => LoneInv'
  <2> SUFFICES ASSUME IInv, LoneInv, [Next]_vars PROVE LoneInv'
    OBVIOUS
  <2>1. \A c \in Calls : LoneStage(c)'
    BY LoneStageStep
  <2>2. faults' = 0 => Unfailed'
    BY <2>1, UnfailedStep
  <2> QED
    BY <2>1, <2>2 DEF LoneInv
<1>3. LoneInv => LoneCallsSound
  BY DEF LoneInv, LoneStage, Unfailed, LoneCallsSound, LoneCallsSucceed, NoConflict
<1> QED
  BY <1>1, <1>2, <1>3, Invariance, PTL DEF Spec

----------------------------------------------------------------------------
(* Refinement of ObservationLog.                                           *)

(* A step that changes what is wholly written is the POST of an            *)
(* observation, which completes it in the fragment its call has joined.    *)
LEMMA WrittenStep ==
    ASSUME IInv, [Next]_vars
    PROVE  \/ UNCHANGED WrittenLog
           \/ \E o \in Obs :
                /\ SaveObs(o)
                /\ child[o] \in Times
                /\ child[o] <= resultTime[o]
                /\ \A t \in Times : o \notin WrittenLog[t]
                /\ WrittenLog' =
                       [WrittenLog EXCEPT ![child[o]] = @ \union {o}]
<1> USE DEF IInv
<1>1. ASSUME NEW o \in Obs, SaveObs(o)
      PROVE  /\ child[o] \in Times
             /\ child[o] <= resultTime[o]
             /\ \A t \in Times : o \notin WrittenLog[t]
             /\ WrittenLog' = [WrittenLog EXCEPT ![child[o]] = @ \union {o}]
  <2>1. child[o] \in Times /\ o \in members[child[o]] /\ \A t \in Times : o \notin docs[t]
    BY <1>1 DEF SaveObs, AddStages, AddStage, Storing, TypeOK
  <2>2. child[o] \in relations /\ child[o] <= resultTime[o]
    BY <2>1 DEF PodOrder, Described, TreeSound
  <2>3. ASSUME NEW t \in Times, NEW x \in Obs
        PROVE  Written(x, t)' <=> Written(x, t) \/ (x = o /\ t = child[o])
    BY <1>1, <2>1, <2>2 DEF SaveObs, Written, TypeOK
  <2>4. WrittenLog' = [WrittenLog EXCEPT ![child[o]] = @ \union {o}]
    BY <2>1, <2>3 DEF WrittenLog
  <2> QED
    BY <2>1, <2>2, <2>4 DEF WrittenLog, Written
<1>2. CASE ~\E o \in Obs : SaveObs(o)
  <2>1. docs' = docs
    BY <1>2, PodUnchanged DEF pod, Next, CreateStep, TailStep, FaultStep, AddStep,
       Finished, LinkProfile, PutContainer, CreateTtl, PatchTtl, SaveMeta,
       TailNetworkFailure, PutChild, SaveRoot, SaveChild
  <2>2. ASSUME NEW t \in Times, NEW o \in Obs
        PROVE  Written(o, t)' <=> Written(o, t)
    <3>1. Written(o, t) => Written(o, t)'
      BY <2>1, PodGrows DEF Written
    <3>2. o \in docs[t] => t \in relations /\ o \in members[t]
      BY DEF PodOrder, Described
    <3> QED
      BY <2>1, <3>1, <3>2 DEF Written
  <2> QED
    BY <2>2 DEF WrittenLog
<1> QED
  BY <1>1, <1>2

(* A step moves at most one call, none that has ended, and only the answer *)
(* to the POST resolves an addObservation.                                 *)
LEMMA CallMove ==
    ASSUME TypeOK, [Next]_vars
    PROVE  \/ pc' = pc
           \/ \E c \in Calls, s \in {"new"} \union InFlight \union Ended :
                /\ pc[c] \notin Ended
                /\ pc' = [pc EXCEPT ![c] = s]
                /\ c \in Obs /\ s = "resolved" => Reply(c)
<1> DEFINE Moves(c) == pc' = pc \/ \E s \in {"new"} \union InFlight \union Ended :
                         /\ pc[c] \notin Ended
                         /\ pc' = [pc EXCEPT ![c] = s]
                         /\ c \in Obs /\ s = "resolved" => Reply(c)
<1>0. InFlight \intersect Ended = {} /\ "new" \notin Ended
  BY DEF InFlight, Searching, Creating, Placing, Storing, Ended, Settled, Rejected
<1>1. ASSUME NEW c \in Calls, Start(c) PROVE Moves(c)
  <2>1. \E s \in {"find", "link"} : pc' = [pc EXCEPT ![c] = s]
    BY <1>1 DEF Start, Goto
  <2> QED
    BY <1>0, <1>1, <2>1 DEF Start, InFlight, Searching, Creating
<1>2. ASSUME NEW c \in Calls, CreateStep(c) PROVE Moves(c)
  BY <1>0, <1>2 DEF CreateStep, LinkProfile, CheckContainer, RecheckContainer,
     PutContainer, PutContainerConflict, Goto, InFlight, Searching, Creating, Ended,
     Settled, Rejected
<1>3. ASSUME NEW c \in Calls, TailStep(c) PROVE Moves(c)
  BY <1>0, <1>3 DEF TailStep, ReadTtl, CreateTtl, CreateTtlConflict, PatchTtl,
     SaveMeta, EndTail, InFlight, Searching, Creating, Ended, Settled, Rejected
<1>4. ASSUME NEW c \in Calls, FaultStep(c) PROVE Moves(c)
  <2>1. CASE RequestRefused(c) \/ NetworkFailure(c)
    <3>1. pc[c] \in InFlight
      BY <2>1 DEF RequestRefused, NetworkFailure, Reading, Writing, InFlight,
         Searching, Creating, Placing, Storing
    <3> QED
      BY <1>0, <2>1, <3>1 DEF RequestRefused, NetworkFailure, Goto, Ended, Settled,
         Rejected
  <2>2. CASE TailRefused(c) \/ TailNetworkFailure(c)
    BY <1>0, <2>2 DEF TailRefused, TailNetworkFailure, EndTail, InFlight, Creating,
       Ended, Settled, Rejected
  <2>3. CASE Crash(c)
    BY <1>0, <2>3 DEF Crash, Ended
  <2> QED
    BY <1>4, <2>1, <2>2, <2>3 DEF FaultStep
<1>5. ASSUME NEW o \in Obs, AddStep(o) PROVE Moves(o)
  BY <1>0, <1>5 DEF AddStep, FindFragment, FindNoFragment, FindNoRoot, FetchNode,
     FetchFullNode, FetchNothing, CheckChild, PutChild, PutChildConflict, SaveRoot,
     SaveChild, SaveObs, Reply, Goto, InFlight, Searching, Creating, Placing, Storing,
     Ended, Settled, Rejected
<1> QED
  BY <1>1, <1>2, <1>3, <1>4, <1>5 DEF Next, Finished, vars, Calls

(* A call is answered once, and "resolved" only for what is written. *)
LEMMA AnswersStep ==
    ASSUME IInv, [Next]_vars
    PROVE  \/ UNCHANGED Answers
           \/ \E o \in Obs :
                /\ Answers[o] = "none"
                /\ \/ /\ Answers' = [Answers EXCEPT ![o] = "resolved"]
                      /\ \E t \in Times : o \in WrittenLog[t]
                   \/ Answers' = [Answers EXCEPT ![o] = "rejected"]
<1>1. TypeOK /\ AddStages /\ PodOrder
  BY DEF IInv
<1>2. CASE pc' = pc
  BY <1>2 DEF Answers
<1>3. ASSUME NEW c \in Calls, NEW s \in {"new"} \union InFlight \union Ended,
             pc[c] \notin Ended, pc' = [pc EXCEPT ![c] = s],
             c \in Obs /\ s = "resolved" => Reply(c)
      PROVE  \/ UNCHANGED Answers
             \/ \E o \in Obs :
                  /\ Answers[o] = "none"
                  /\ \/ /\ Answers' = [Answers EXCEPT ![o] = "resolved"]
                        /\ \E t \in Times : o \in WrittenLog[t]
                     \/ Answers' = [Answers EXCEPT ![o] = "rejected"]
  <2>1. \A o \in Obs : pc'[o] = IF o = c THEN s ELSE pc[o]
    BY <1>1, <1>3 DEF TypeOK, Calls
  <2>2. CASE c \notin Obs
    BY <2>1, <2>2 DEF Answers
  <2>3. CASE c \in Obs /\ s = "resolved"
    <3>0. Answers[c] = "none" /\ pc'[c] = "resolved"
      BY <1>3, <2>1, <2>3 DEF Answers, Ended, Settled
    <3>1. Answers' = [Answers EXCEPT ![c] = "resolved"]
      <4>1. \A o \in Obs : Answers'[o] = IF o = c THEN "resolved" ELSE Answers[o]
        BY <2>1, <3>0 DEF Answers, Rejected
      <4> QED
        BY <4>1 DEF Answers
    <3>2. child[c] \in Times /\ c \in docs[child[c]] /\ c \in members[child[c]]
      BY <1>1, <1>3, <2>3 DEF Reply, AddStages, AddStage, Storing, TypeOK
    <3>3. c \in WrittenLog[child[c]]
      BY <1>1, <2>3, <3>2 DEF WrittenLog, Written, PodOrder, Described
    <3> QED
      BY <2>3, <3>0, <3>1, <3>2, <3>3
  <2>4. CASE c \in Obs /\ s \in Rejected
    <3>1. Answers[c] = "none" /\ Answers' = [Answers EXCEPT ![c] = "rejected"]
      BY <1>3, <2>1, <2>4 DEF Answers, Ended, Settled, Rejected
    <3> QED
      BY <2>4, <3>1
  <2>5. CASE c \in Obs /\ s \notin Rejected /\ s # "resolved"
    BY <1>3, <2>1, <2>5 DEF Answers, Ended, Settled
  <2> QED
    BY <2>2, <2>3, <2>4, <2>5
<1> QED
  BY <1>1, <1>2, <1>3, CallMove

LEMMA LogInit == Init => Log!Init
<1> SUFFICES ASSUME Init PROVE Log!Init
  OBVIOUS
<1>1. WrittenLog = [t \in Times |-> {}]
  BY DEF Init, WrittenLog, Written
<1>2. Answers = [o \in Obs |-> "none"]
  BY DEF Init, Answers, Calls, Rejected
<1> QED
  BY <1>1, <1>2 DEF Init, Log!Init

LEMMA LogStep == IInv /\ [Next]_vars => [Log!Next]_(Log!vars)
<1> SUFFICES ASSUME IInv, [Next]_vars PROVE [Log!Next]_(Log!vars)
  OBVIOUS
<1>1. resultTime' = resultTime
  BY PodGrows DEF IInv
<1>2. ASSUME NEW o \in Obs,
             SaveObs(o),
             child[o] \in Times,
             child[o] <= resultTime[o],
             \A t \in Times : o \notin WrittenLog[t],
             WrittenLog' = [WrittenLog EXCEPT ![child[o]] = @ \union {o}]
      PROVE  Log!Enter(o)
  <2>1. \A x \in Obs : pc'[x] = IF x = o THEN "reply" ELSE pc[x]
    BY <1>2 DEF SaveObs, Goto, IInv, TypeOK, Calls
  <2>2. pc[o] = "saveObs"
    BY <1>2 DEF SaveObs
  <2>3. UNCHANGED Answers /\ Answers[o] = "none"
    BY <2>1, <2>2 DEF Answers, Rejected
  <2> QED
    BY <1>1, <1>2, <2>3 DEF Log!Enter
<1>3. CASE UNCHANGED WrittenLog
  BY <1>1, <1>3, AnswersStep DEF Log!Next, Log!Resolve, Log!Reject, Log!vars
<1> QED
  BY <1>2, <1>3, WrittenStep DEF Log!Next

(* The writers and the Pod implement the append-only log: every step is a  *)
(* publication, an answer or a stutter of it.                              *)
THEOREM LogImplemented == Spec => ImplementsLog
  BY LogInit, LogStep, Invariance, PTL DEF Spec, Log!Spec, ImplementsLog
=============================================================================
