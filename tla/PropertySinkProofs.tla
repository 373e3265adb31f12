------------------------- MODULE PropertySinkProofs -------------------------
(***************************************************************************)
(* The sink is a client of ObservationStream: each of its steps is a step  *)
(* of the stream or none, so what is proved of the stream holds beneath    *)
(* the sink.  From that, a push that resolved has stored what it was given.*)
(***************************************************************************)
EXTENDS PropertySink, ObservationStreamProofs

LEMMA SinkStep == [SinkNext]_sinkVars => [Next]_vars
<1>1. ASSUME NEW f \in Frames, PrepareProperty(f) PROVE Next
  BY <1>1 DEF PrepareProperty, Frames, Next, Calls
<1>2. ASSUME NEW o \in Obs, WriteObservation(o) PROVE Next
  BY <1>2 DEF WriteObservation, Next, Calls
<1>3. ASSUME NEW c \in Calls, Work(c) PROVE Next
  BY <1>3 DEF Work, Next
<1>4. ASSUME NEW c \in Calls, Fail(c) PROVE Next
  BY <1>4 DEF Fail, Next
<1>5. ASSUME NEW p \in Pushes, ResolvePush(p) \/ RejectPush(p) PROVE UNCHANGED vars
  BY <1>5 DEF ResolvePush, RejectPush
<1>6. SinkFinished \/ UNCHANGED sinkVars => UNCHANGED vars
  BY DEF SinkFinished, sinkVars
<1> QED
  BY <1>1, <1>2, <1>3, <1>4, <1>5, <1>6 DEF SinkNext

(* The sink makes its calls as any client may: whatever is true of all     *)
(* clients of the property service is true of the sink.                    *)
THEOREM StreamImplemented == SinkSpec => Spec
<1>1. SinkInit => Init
  BY DEF SinkInit
<1> QED
  BY <1>1, SinkStep, PTL DEF SinkSpec, Spec

(* However pushes overlap, fail and are interrupted, the sink with its     *)
(* calls and the Pod implements the append-only log: an observation is     *)
(* wholly written in one step, for good, and answered after that.          *)
THEOREM LogBeneathSink == SinkSpec => ImplementsLog
  BY StreamImplemented, LogImplemented, PTL

(* A call that resolved stays resolved. *)
LEMMA ResolvedStays ==
    ASSUME TypeOK, [Next]_vars, NEW c \in Calls, pc[c] = "resolved"
    PROVE  pc'[c] = "resolved"
<1>1. "resolved" \in Ended
  BY DEF Ended, Settled
<1>2. pc' = pc \/ \E d \in Calls, s \in {"new"} \union InFlight \union Ended :
          pc[d] \notin Ended /\ pc' = [pc EXCEPT ![d] = s]
  BY CallMove
<1> QED
  BY <1>1, <1>2 DEF TypeOK

LEMMA CallsOfPush == \A p \in Pushes : CallsOf(p) \subseteq Calls
  BY DEF CallsOf, Frames, Calls

LEMMA SinkInvInit == SinkInit => SinkInv
  BY IInvInit DEF SinkInit, SinkInv

LEMMA SinkInvStep == SinkInv /\ [SinkNext]_sinkVars => SinkInv'
<1> SUFFICES ASSUME SinkInv, [SinkNext]_sinkVars PROVE SinkInv'
  OBVIOUS
<1>1. TypeOK /\ [Next]_vars
  BY SinkStep DEF SinkInv, IInv
<1>2. IInv'
  BY <1>1, IInvStep DEF SinkInv
<1>3. answer' \in [Pushes -> {"none", "resolved", "rejected"}]
  BY DEF SinkInv, SinkNext, PrepareProperty, WriteObservation, Work, Fail,
     ResolvePush, RejectPush, SinkFinished, sinkVars
<1>4. ASSUME NEW p \in Pushes, answer'[p] = "resolved", NEW c \in CallsOf(p)
      PROVE  pc'[c] = "resolved"
  <2>1. pc[c] = "resolved"
    BY <1>4 DEF SinkInv, SinkNext, PrepareProperty, WriteObservation, Work, Fail,
       ResolvePush, RejectPush, SinkFinished, sinkVars
  <2> QED
    BY <1>1, <1>4, <2>1, CallsOfPush, ResolvedStays
<1> QED
  BY <1>2, <1>3, <1>4 DEF SinkInv

THEOREM SinkInvariance == SinkSpec => []SinkInv
  BY SinkInvInit, SinkInvStep, PTL DEF SinkSpec

(* When onPush resolves, every observation of every frame it was given is  *)
(* written, with its membership and relation, and stays so, however many   *)
(* frames, objects and pushes there are and whatever of the others fails.  *)
THEOREM PushStoredCorrect == SinkSpec => []PushStored
<1>1. SinkInv => PushStored
  <2> SUFFICES ASSUME SinkInv, NEW p \in Pushes, answer[p] = "resolved",
                      NEW o \in CallsOf(p) \intersect Obs
               PROVE  \E t \in Times : Written(o, t)
    BY DEF PushStored
  <2>1. pc[o] = "resolved"
    BY DEF SinkInv
  <2> QED
    BY <2>1, ResolvedWritten DEF SinkInv, AckedWritten
<1> QED
  BY <1>1, SinkInvariance, PTL
----------------------------------------------------------------------------
(* A frame that is alone.                                                  *)

(* No request has failed, and no other frame was begun. *)
LoneFrame(f) ==
    /\ faults = 0
    /\ \A g \in Frames \ {f} : pc[g] = "new"

(* The call of the frame finds nothing, creates it all, and resolves when  *)
(* it has: the chain is not cut short by a container that is there.        *)
FrameStage(f) ==
    /\ pc[f] \in {"new", "link", "check", "recheck", "putContainer", "tail", "resolved"}
    /\ pc[f] \notin {"tail", "resolved"} => ~container
    /\ pc[f] # "tail" => tail[f] = "none"
    /\ tail[f] \in {"readTtl", "createTtl"} => ~ttl
    /\ pc[f] = "resolved" => ttl

(* Its observations find the root, so what stops one is a fragment.        *)
ObservationStage(f, o) ==
    /\ pc[o] # "new" => FrameOf[o] = f /\ pc[f] = "resolved"
    /\ pc[o] \notin {"refind", "error", "noRoot", "hung", "lost"} \union Creating
    /\ pc[o] \in {"conflict", "noNode"} => children # {}

(* Past the creation of a fragment nothing stops a call any more. *)
Further == {"saveRoot", "saveChild", "resolved"} \union Storing

(* Once a fragment was made, one observation is past that. *)
FrameAlone(f) ==
    /\ FrameStage(f)
    /\ \A c \in Calls \ {f} : tail[c] = "none"
    /\ \A o \in Obs : ObservationStage(f, o)
    /\ children # {} => \E o \in Obs : pc[o] \in Further

LoneFrameInv == \A f \in Frames : LoneFrame(f) => FrameAlone(f)

LEMMA LoneFrameInit == SinkInit => LoneFrameInv
<1> SUFFICES ASSUME SinkInit, NEW f \in Frames PROVE FrameAlone(f)
  BY DEF LoneFrameInv
<1>1. /\ \A c \in Calls : pc[c] = "new" /\ tail[c] = "none"
      /\ ~container /\ children = {}
  BY DEF SinkInit, Init
<1>2. f \in Calls /\ Obs \subseteq Calls
  BY DEF Frames, Calls
<1> QED
  BY <1>1, <1>2 DEF FrameAlone, FrameStage, ObservationStage, Creating

(* A frame that is alone was alone before. *)
LEMMA LoneFrameBefore ==
    ASSUME TypeOK, [SinkNext]_sinkVars, NEW f \in Frames, LoneFrame(f)'
    PROVE  LoneFrame(f) /\ \A c \in Calls : ~FaultStep(c)
<1>1. ASSUME NEW c \in Calls, FaultStep(c) PROVE FALSE
  <2>1. faults' = faults + 1
    BY <1>1 DEF FaultStep, Fault, RequestRefused, NetworkFailure, TailRefused,
       TailNetworkFailure, Crash
  <2> QED
    BY <2>1, FaultsAssumption DEF TypeOK, LoneFrame
<1>2. faults = 0
  BY <1>1, SinkStep, LoneWriters DEF LoneFrame
<1>3. ASSUME NEW g \in Frames \ {f} PROVE pc[g] = "new"
  <2>1. g \in Calls /\ g \notin Obs /\ pc'[g] = "new"
    BY <1>3, CallsAssumption DEF Frames, Calls, LoneFrame
  <2>2. CASE CreateStep(g)
    BY <2>1, <2>2 DEF CreateStep, LinkProfile, CheckContainer, RecheckContainer,
       PutContainer, PutContainerConflict, Goto, TypeOK
  <2>3. CASE TailStep(g)
    BY <2>1, <2>3 DEF TailStep, ReadTtl, CreateTtl, CreateTtlConflict, PatchTtl,
       SaveMeta, EndTail, TypeOK
  <2> QED
    BY <1>1, <2>1, <2>2, <2>3, SinkStep, OneCallMoves DEF Start
<1> QED
  BY <1>1, <1>2, <1>3 DEF LoneFrame

(* The frame itself moves only before its observations do. *)
LEMMA FrameMoves ==
    ASSUME IInv, NEW f \in Frames, FrameAlone(f), Start(f) \/ CreateStep(f) \/ TailStep(f)
    PROVE  FrameAlone(f)'
<1>0. f \in Calls /\ f \notin Obs /\ Obs \subseteq Calls
  BY CallsAssumption DEF Frames, Calls
<1>1. /\ TypeOK /\ (ttl => container) /\ CreateStage(f)
      /\ FrameStage(f)
  BY <1>0 DEF IInv, PodOrder, CreateStages, FrameAlone
<1>2. pc[f] # "resolved"
  BY <1>1 DEF FrameStage, Start, CreateStep, LinkProfile, CheckContainer,
     RecheckContainer, PutContainer, PutContainerConflict, TailStep, ReadTtl,
     CreateTtl, CreateTtlConflict, PatchTtl, SaveMeta
<1>3. /\ children' = children
      /\ \A c \in Calls \ {f} : pc'[c] = pc[c] /\ tail'[c] = tail[c]
  BY <1>1 DEF Start, CreateStep, LinkProfile, CheckContainer, RecheckContainer,
     PutContainer, PutContainerConflict, TailStep, ReadTtl, CreateTtl,
     CreateTtlConflict, PatchTtl, SaveMeta, EndTail, Goto, TypeOK, pod
<1>4. FrameStage(f)'
  <2>1. CASE Start(f)
    BY <1>0, <1>1, <2>1 DEF Start, Goto, FrameStage, TypeOK, pod
  <2>2. CASE CreateStep(f)
    BY <1>0, <1>1, <2>2 DEF CreateStep, LinkProfile, CheckContainer, RecheckContainer,
       PutContainer, PutContainerConflict, Goto, FrameStage, TypeOK, pod
  <2>3. CASE TailStep(f)
    BY <1>0, <1>1, <2>3 DEF TailStep, ReadTtl, CreateTtl, CreateTtlConflict, PatchTtl,
       SaveMeta, EndTail, FrameStage, CreateStage, TypeOK, TailStages, pod
  <2> QED
    BY <2>1, <2>2, <2>3
<1>5. \A o \in Obs : pc[o] = "new" /\ pc'[o] = "new"
  BY <1>0, <1>2, <1>3 DEF FrameAlone, ObservationStage
<1>6. \A o \in Obs : ObservationStage(f, o)'
  BY <1>5 DEF ObservationStage, Creating
<1> QED
  BY <1>0, <1>3, <1>4, <1>5, <1>6 DEF FrameAlone

(* An observation moves only once its frame is through. *)
LEMMA ObservationMoves ==
    ASSUME IInv, NEW f \in Frames, FrameAlone(f), NEW o \in Obs,
           \/ FrameOf[o] = f /\ pc[f] = "resolved" /\ Start(o)
           \/ AddStep(o)
    PROVE  FrameAlone(f)'
<1>0. f \in Calls /\ f # o /\ Obs \subseteq Calls
  BY CallsAssumption DEF Frames, Calls
<1>1. /\ TypeOK /\ relations \subseteq children /\ AddStage(o)
      /\ FrameStage(f) /\ ObservationStage(f, o)
  BY DEF IInv, PodOrder, AddStages, FrameAlone
<1>2. ~FindNoRoot(o)
  BY <1>1, SinkAssumption DEF FindNoRoot, RootFound, Searching, FrameStage,
     ObservationStage
<1>3. /\ UNCHANGED <<container, ttl, tail>>
      /\ children \subseteq children'
      /\ \A c \in Calls \ {o} : pc'[c] = pc[c]
  BY <1>1 DEF Start, AddStep, FindFragment, FindNoFragment, FindNoRoot, FetchNode,
     FetchFullNode, FetchNothing, CheckChild, PutChild, PutChildConflict, SaveRoot,
     SaveChild, SaveObs, Reply, Goto, TypeOK, pod
<1>4. FrameStage(f)'
  BY <1>0, <1>1, <1>3 DEF FrameStage
<1>5. ASSUME NEW q \in Obs \ {o} PROVE ObservationStage(f, q)'
  BY <1>0, <1>3 DEF FrameAlone, ObservationStage
<1>6. ObservationStage(f, o)'
  <2>1. CASE FrameOf[o] = f /\ pc[f] = "resolved" /\ Start(o)
    BY <1>0, <1>1, <1>3, <2>1 DEF Start, Goto, ObservationStage, Creating, TypeOK
  <2>2. CASE FetchNothing(o) \/ PutChildConflict(o)
    BY <1>0, <1>1, <1>3, <2>2 DEF FetchNothing, PutChildConflict, Goto, AddStage,
       ObservationStage, Creating, TypeOK
  <2>3. CASE AddStep(o) /\ ~FetchNothing(o) /\ ~PutChildConflict(o)
    BY <1>0, <1>1, <1>2, <1>3, <2>3 DEF AddStep, FindFragment, FindNoFragment,
       FetchNode, FetchFullNode, CheckChild, PutChild, SaveRoot, SaveChild, SaveObs,
       Reply, Goto, ObservationStage, Creating, Searching, TypeOK
  <2> QED
    BY <2>1, <2>2, <2>3
<1>7. children' # {} => \E q \in Obs : pc'[q] \in Further
  <2>1. CASE PutChild(o)
    BY <1>0, <1>1, <2>1 DEF PutChild, Goto, Further, TypeOK
  <2>2. ~PutChild(o) => children' = children
    BY DEF Start, AddStep, FindFragment, FindNoFragment, FindNoRoot, FetchNode,
       FetchFullNode, FetchNothing, CheckChild, PutChildConflict, SaveRoot,
       SaveChild, SaveObs, Reply, pod
  <2>3. pc[o] \in Further => pc'[o] \in Further
    BY <1>0, <1>1 DEF Start, AddStep, FindFragment, FindNoFragment, FindNoRoot,
       FetchNode, FetchFullNode, FetchNothing, CheckChild, PutChild,
       PutChildConflict, SaveRoot, SaveChild, SaveObs, Reply, Goto, Searching,
       Further, Storing, TypeOK
  <2> QED
    BY <1>0, <1>3, <2>1, <2>2, <2>3 DEF FrameAlone
<1> QED
  BY <1>0, <1>3, <1>4, <1>5, <1>6, <1>7 DEF FrameAlone

LEMMA LoneFrameStep ==
    ASSUME IInv, LoneFrameInv, [SinkNext]_sinkVars, NEW f \in Frames, LoneFrame(f)'
    PROVE  FrameAlone(f)'
<1>0. TypeOK
  BY DEF IInv
<1>1. LoneFrame(f) /\ FrameAlone(f) /\ \A c \in Calls : ~FaultStep(c)
  BY <1>0, LoneFrameBefore DEF LoneFrameInv
<1>2. Obs \subseteq Calls /\ Frames \subseteq Calls
  BY DEF Frames, Calls
<1>3. CASE UNCHANGED vars
  BY <1>1, <1>3 DEF vars, pod, FrameAlone, FrameStage, ObservationStage
<1>4. ASSUME NEW g \in Frames, Start(g) PROVE FrameAlone(f)'
  <2>1. g = f
    BY <1>0, <1>2, <1>4, CallsAssumption DEF Start, Goto, LoneFrame, Frames, TypeOK
  <2> QED
    BY <1>1, <1>4, <2>1, FrameMoves
<1>5. ASSUME NEW o \in Obs, WriteObservation(o) PROVE FrameAlone(f)'
  <2>1. FrameOf[o] = f
    BY <1>1, <1>5, FramesAssumption DEF WriteObservation, LoneFrame
  <2> QED
    BY <1>1, <1>5, <2>1, ObservationMoves DEF WriteObservation
<1>6. ASSUME NEW c \in Calls, Work(c) PROVE FrameAlone(f)'
  <2>1. CASE c = f
    BY <1>1, <1>6, <2>1, FrameMoves, CallsAssumption DEF Work, Frames
  <2>2. CASE c \in Obs
    <3>1. ~CreateStep(c) /\ ~TailStep(c)
      BY <1>1, <1>2, <2>2, CallsAssumption DEF FrameAlone, ObservationStage, Frames,
         CreateStep, LinkProfile, CheckContainer, RecheckContainer, PutContainer,
         PutContainerConflict, TailStep, ReadTtl, CreateTtl, CreateTtlConflict,
         PatchTtl, SaveMeta, Creating
    <3> QED
      BY <1>1, <1>6, <2>2, <3>1, ObservationMoves DEF Work
  <2>3. CASE c \in Frames \ {f}
    BY <1>1, <1>2, <1>6, <2>3, CallsAssumption DEF Work, Frames, LoneFrame, FrameAlone,
       CreateStep, LinkProfile, CheckContainer, RecheckContainer, PutContainer,
       PutContainerConflict, TailStep, ReadTtl, CreateTtl, CreateTtlConflict,
       PatchTtl, SaveMeta
  <2> QED
    BY <2>1, <2>2, <2>3 DEF Calls, Frames
<1> QED
  BY <1>1, <1>3, <1>4, <1>5, <1>6 DEF SinkNext, PrepareProperty, Fail, ResolvePush,
     RejectPush, SinkFinished, sinkVars

(* Of a frame that was the only one, something is stored when everything   *)
(* has come to rest without a fault, however many objects it has: they     *)
(* make each other fail, but never all of them.                            *)
THEOREM SomethingStoredCorrect == SinkSpec => []SomethingStored
<1>1. SinkInv /\ LoneFrameInv /\ [SinkNext]_sinkVars => LoneFrameInv'
  BY LoneFrameStep DEF SinkInv, LoneFrameInv
<1>2. SinkInv /\ LoneFrameInv => SomethingStored
  <2> SUFFICES ASSUME SinkInv, NEW f \in Frames, FrameAlone(f), AtRest,
                      pc[f] # "new", ObservationsOf(f) # {}
               PROVE  \E o \in ObservationsOf(f), t \in Times : Written(o, t)
    BY DEF LoneFrameInv, LoneFrame, SomethingStored
  <2>0. TypeOK /\ AckedWritten /\ Obs \subseteq Calls /\ f \in Calls
    BY ResolvedWritten DEF SinkInv, IInv, Calls, Frames
  <2>1. pc[f] = "resolved"
    BY <2>0 DEF AtRest, FrameAlone, FrameStage, InFlight, Creating
  <2>2. ASSUME NEW o \in Obs, pc[o] \in Further
        PROVE  o \in ObservationsOf(f) /\ \E t \in Times : Written(o, t)
    <3>1. pc[o] = "resolved"
      BY <2>0, <2>2 DEF AtRest, Further, InFlight, Placing, Storing
    <3> QED
      BY <2>0, <3>1 DEF AckedWritten, FrameAlone, ObservationStage, ObservationsOf
  <2>3. PICK o \in Obs : FrameOf[o] = f
    BY DEF ObservationsOf
  <2>4. pc[o] \in {"resolved", "conflict", "noNode"}
    BY <2>0, <2>1, <2>3 DEF AtRest, TypeOK, FrameAlone, ObservationStage, Ended,
       Settled, Rejected
  <2>5. \E q \in Obs : pc[q] \in Further
    BY <2>3, <2>4 DEF FrameAlone, ObservationStage, Further
  <2> QED
    BY <2>2, <2>5
<1> QED
  BY <1>1, <1>2, LoneFrameInit, SinkInvariance, PTL DEF SinkSpec
=============================================================================
