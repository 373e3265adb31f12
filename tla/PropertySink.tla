---------------------------- MODULE PropertySink ----------------------------
(***************************************************************************)
(* SolidPropertySink on top of ObservationStream: onPush is given one or   *)
(* several data frames and writes them all at once.  Each frame first      *)
(* creates its property, then adds one observation for each object it      *)
(* holds, all of them at once and all with the time of the frame.          *)
(*                                                                         *)
(* A frame is its call of createProperty, an object of a frame its call of *)
(* addObservation.  The sink awaits them with Promise.all: the first       *)
(* rejection is its answer, whatever the other calls still do.             *)
(***************************************************************************)
EXTENDS ObservationStream

CONSTANTS
    Pushes,   \* calls of onPush
    PushOf,   \* PushOf[f]: the push that frame f is part of
    FrameOf   \* FrameOf[o]: the frame that object o is part of

Frames == Creations

ObservationsOf(f) == {o \in Obs : FrameOf[o] = f}
CallsOf(p) == {f \in Frames : PushOf[f] = p} \union {o \in Obs : PushOf[FrameOf[o]] = p}

ASSUME FramesAssumption ==
    /\ PushOf \in [Frames -> Pushes]
    /\ FrameOf \in [Obs -> Frames]

(* The sink limits nothing, and names its property itself.  A crash would  *)
(* end all calls of an application at once, and is not modelled here.      *)
ASSUME SinkAssumption ==
    /\ Cardinality(Calls) <= Concurrency
    /\ Bare = {}
    /\ "crash" \notin Faults

VARIABLE answer   \* answer[p]: how the promise of onPush was settled

sinkVars == <<vars, answer>>

(* All observations of a frame have the time the frame was created. *)
SinkInit ==
    /\ Init
    /\ \A o, q \in Obs : FrameOf[o] = FrameOf[q] => resultTime[o] = resultTime[q]
    /\ answer = [p \in Pushes |-> "none"]

----------------------------------------------------------------------------
(* prepareProperty.  The frames of a push are started together, but a call *)
(* does nothing before its first request, so they may start one by one.    *)
(* A failure of getDocumentURL is one of the first request of the call.    *)
PrepareProperty(f) ==
    /\ Start(f)
    /\ UNCHANGED answer

(* Mutant of WriteObservation: the properties are not waited for. *)
WriteUnprepared(o) ==
    /\ pc[FrameOf[o]] # "new"
    /\ Start(o)
    /\ UNCHANGED answer

(* writeFrame, once the property of the frame is there. *)
WriteObservation(o) ==
    /\ pc[FrameOf[o]] = "resolved"
    /\ Start(o)
    /\ UNCHANGED answer

(* Mutant of ResolvePush: the second Promise.all is not returned. *)
ResolvePrepared(p) ==
    /\ answer[p] = "none"
    /\ \A f \in CallsOf(p) \intersect Frames : pc[f] = "resolved"
    /\ answer' = [answer EXCEPT ![p] = "resolved"]
    /\ UNCHANGED vars

(* Every frame, and every observation of each, was written. *)
ResolvePush(p) ==
    /\ answer[p] = "none"
    /\ \A c \in CallsOf(p) : pc[c] = "resolved"
    /\ answer' = [answer EXCEPT ![p] = "resolved"]
    /\ UNCHANGED vars

(* Mutant of RejectPush: the rejection of a frame is swallowed. *)
RejectSilently(p) ==
    /\ answer[p] = "none"
    /\ \E c \in CallsOf(p) : pc[c] \in Rejected
    /\ UNCHANGED sinkVars

(* One call was rejected; the others go on. *)
RejectPush(p) ==
    /\ answer[p] = "none"
    /\ \E c \in CallsOf(p) : pc[c] \in Rejected
    /\ answer' = [answer EXCEPT ![p] = "rejected"]
    /\ UNCHANGED vars

----------------------------------------------------------------------------
(* The calls at work, and the requests that fail. *)
Work(c) ==
    /\ CreateStep(c) \/ TailStep(c) \/ (c \in Obs /\ AddStep(c))
    /\ UNCHANGED answer

Fail(c) ==
    /\ FaultStep(c)
    /\ UNCHANGED answer

(* No push has anything left to do, or to wait for. *)
SinkFinished ==
    /\ \A c \in Calls : pc[c] \in Ended \union {"new"} /\ tail[c] = "none"
    /\ UNCHANGED sinkVars

SinkNext ==
    \/ \E f \in Frames : PrepareProperty(f)
    \/ \E o \in Obs : WriteObservation(o)
    \/ \E c \in Calls : Work(c) \/ Fail(c)
    \/ \E p \in Pushes : ResolvePush(p) \/ RejectPush(p)
    \/ SinkFinished

SinkSpec == SinkInit /\ [][SinkNext]_sinkVars

(* A push that was made goes on: all its frames are begun, requests are    *)
(* answered, callbacks run, and what a frame is due to write is written.   *)
Begun(p) == \E f \in Frames : PushOf[f] = p /\ pc[f] # "new"

SinkFairness ==
    /\ \A f \in Frames : WF_sinkVars(Begun(PushOf[f]) /\ PrepareProperty(f))
    /\ \A c \in Calls : WF_sinkVars(Work(c))
    /\ \A o \in Obs : WF_sinkVars(WriteObservation(o))
    /\ \A p \in Pushes : WF_sinkVars(ResolvePush(p) \/ RejectPush(p))

FairSinkSpec == SinkSpec /\ SinkFairness

----------------------------------------------------------------------------
(* A push that resolved has written every observation of every frame, with *)
(* its membership and relation, whatever other pushes did and do.          *)
PushStored ==
    \A p \in Pushes : answer[p] = "resolved" =>
        \A o \in CallsOf(p) \intersect Obs : \E t \in Times : Written(o, t)

(* The calls for a frame make each other fail without any fault, but not   *)
(* all of them: one that fails does so because another one got further.    *)
(* The sink is there to store data (SolidPropertySink.ts:9): when a frame  *)
(* was the only one, and everything has come to rest, something of it was  *)
(* stored.  Of two first frames pushed at once nothing may be, see         *)
(* RootCreatedOrRepaired.                                                  *)
AtRest ==
    /\ \A c \in Calls : pc[c] \notin InFlight /\ tail[c] = "none"
    /\ \A o \in Obs : pc[FrameOf[o]] = "resolved" => pc[o] # "new"

SomethingStored ==
    \A f \in Frames :
        (/\ AtRest /\ faults = 0
         /\ pc[f] # "new" /\ \A g \in Frames \ {f} : pc[g] = "new"
         /\ ObservationsOf(f) # {})
            => \E o \in ObservationsOf(f), t \in Times : Written(o, t)

(* As long as nothing fails, every push that was made is answered. *)
PushesSettle ==
    \A p \in Pushes : Begun(p) ~> (answer[p] # "none" \/ faults > 0)

(* The inductive invariant, on top of that of ObservationStream: a push    *)
(* that resolved has no call left that could still fail or be undone.      *)
SinkInv ==
    /\ IInv
    /\ answer \in [Pushes -> {"none", "resolved", "rejected"}]
    /\ \A p \in Pushes : answer[p] = "resolved" =>
           \A c \in CallsOf(p) : pc[c] = "resolved"
============================================================================
