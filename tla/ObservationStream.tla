------------------------- MODULE ObservationStream -------------------------
(***************************************************************************)
(* SolidPropertyService writing observations to a Solid Pod: what          *)
(* createProperty and addObservation do, request by request, when several  *)
(* calls are in flight and requests fail or an application stops.          *)
(*                                                                         *)
(* A property is a container with a property.ttl document (it holds the    *)
(* root TREE node and its relations) and a .meta document (it holds the    *)
(* LDES event stream).  Observations are spread over child containers, the *)
(* fragments, named after the result time of the observation that made     *)
(* them: a fragment is its time here.  The .meta of a fragment holds its   *)
(* TREE node together with the list of its members.                        *)
(*                                                                         *)
(* The Pod is a plain store: a GET answers with what is stored, a PUT with *)
(* If-None-Match fails on an existing resource, a PATCH inserts triples,   *)
(* a POST adds a document.  One action stands for one request, answer      *)
(* included; a GET whose answer cannot change what the call does next is   *)
(* merged with the PATCH after it.                                         *)
(***************************************************************************)
EXTENDS Naturals, FiniteSets

CONSTANTS
    Obs,          \* calls of addObservation: each call is its observation
    Creations,    \* calls of createProperty that an application makes itself
    Bare,         \* the addObservation calls given the id of the container
    Times,        \* result times
    Limit,        \* the default filter takes nodes with fewer members (50)
    Concurrency,  \* how many calls may be in flight at once
    Faults,       \* the kinds of fault that may happen
    MaxFaults     \* bound: how many faults may happen

Calls == Obs \union Creations

ASSUME CallsAssumption ==
    /\ Obs \intersect Creations = {}
    /\ IsFiniteSet(Calls)
    /\ Bare \subseteq Obs
ASSUME TimesAssumption == Times \subseteq Nat
ASSUME LimitAssumption == Limit \in Nat \ {0}
ASSUME ConcurrencyAssumption == Concurrency \in Nat \ {0}
ASSUME FaultsAssumption ==
    /\ Faults \subseteq {"refused", "network", "crash"}
    /\ MaxFaults \in Nat

VARIABLES
    \* The Pod
    linked,      \* the profile has the ssn:hasProperty link
    container,   \* the property container exists
    ttl,         \* property.ttl exists, with the root node
    stream,      \* the .meta of the property describes the event stream
    relations,   \* fragments the root node has a relation to
    children,    \* fragments whose container exists
    members,     \* members[t]: members the .meta of fragment t lists
    docs,        \* docs[t]: observations that a document in the container
                 \* of t is about, whatever the name of the document
    \* The calls
    resultTime,  \* the result time of each observation
    pc,          \* what each call waits for, or how it ended
    child,       \* the fragment each addObservation call has settled on
    tail,        \* the rest of a createProperty chain, see CheckContainer
    faults       \* number of faults so far

pod == <<linked, container, ttl, stream, relations, children, members, docs>>
vars == <<pod, resultTime, pc, child, tail, faults>>

(* The requests of addObservation and createProperty, in code order. *)
Searching == {"find", "refind"}
Creating  == {"link", "check", "recheck", "putContainer", "tail"}
Placing   == {"fetch", "checkChild", "putChild", "saveRoot", "saveChild"}
Storing   == {"saveObs", "reply"}
InFlight  == Searching \union Creating \union Placing \union Storing

(* How a call ends: its promise is settled, or never will be ("hung"), or  *)
(* the application that made it is gone ("lost").                          *)
Rejected == {"error", "conflict", "noRoot", "noNode"}
Settled  == {"resolved"} \union Rejected
Ended    == Settled \union {"hung", "lost"}

TailStages == {"readTtl", "createTtl", "patchTtl", "saveMeta"}

Active == {c \in Calls : pc[c] \in InFlight}

(* Fragments whose .meta has a TREE node: it is saved with a first member. *)
Described == {t \in Times : members[t] # {}}

TypeOK ==
    /\ linked \in BOOLEAN /\ container \in BOOLEAN
    /\ ttl \in BOOLEAN /\ stream \in BOOLEAN
    /\ relations \in SUBSET Times
    /\ children \in SUBSET Times
    /\ members \in [Times -> SUBSET Obs]
    /\ docs \in [Times -> SUBSET Obs]
    /\ resultTime \in [Obs -> Times]
    /\ pc \in [Calls -> {"new"} \union InFlight \union Ended]
    /\ child \in [Obs -> Times]
    /\ tail \in [Calls -> {"none"} \union TailStages]
    /\ faults \in 0..MaxFaults

(* An empty Pod, and no call made yet. *)
Init ==
    /\ linked = FALSE /\ container = FALSE /\ ttl = FALSE /\ stream = FALSE
    /\ relations = {} /\ children = {}
    /\ members = [t \in Times |-> {}]
    /\ docs = [t \in Times |-> {}]
    /\ resultTime \in [Obs -> Times]
    /\ pc = [c \in Calls |-> "new"]
    /\ child = resultTime
    /\ tail = [c \in Calls |-> "none"]
    /\ faults = 0

Goto(c, stage) == pc' = [pc EXCEPT ![c] = stage]

----------------------------------------------------------------------------
(* Starting a call.  resultTime, like the arguments, is fixed beforehand.  *)

Start(c) ==
    /\ pc[c] = "new"
    /\ Cardinality(Active) < Concurrency
    /\ Goto(c, IF c \in Obs THEN "find" ELSE "link")
    /\ UNCHANGED <<pod, resultTime, child, tail, faults>>

----------------------------------------------------------------------------
(* findRootNode reads the document property.id names.  The container of a  *)
(* property is not a tree:Node, so a call given its URL finds no root the  *)
(* first time; createProperty replaces the id of the property it is given, *)
(* and the second search reads property.ttl.                               *)

RootFound(o) == ttl /\ (pc[o] = "find" => o \notin Bare)

(* Mutant of Candidates: a relation is not tested against the time. *)
UntestedCandidates(o) == relations

(* getChildNode: the relations whose value is not after the result time,   *)
(* and the latest of them.                                                 *)
Candidates(o) == {t \in relations : t <= resultTime[o]}
Latest(S) == CHOOSE t \in S : \A u \in S : u <= t

FindFragment(o) ==
    /\ pc[o] \in Searching
    /\ RootFound(o)
    /\ Candidates(o) # {}
    /\ child' = [child EXCEPT ![o] = Latest(Candidates(o))]
    /\ Goto(o, "fetch")
    /\ UNCHANGED <<pod, resultTime, tail, faults>>

FindNoFragment(o) ==
    /\ pc[o] \in Searching
    /\ RootFound(o)
    /\ Candidates(o) = {}
    /\ child' = [child EXCEPT ![o] = resultTime[o]]
    /\ Goto(o, "checkChild")
    /\ UNCHANGED <<pod, resultTime, tail, faults>>

(* No root: createProperty is called once, and a second miss is an error. *)
FindNoRoot(o) ==
    /\ pc[o] \in Searching
    /\ ~RootFound(o)
    /\ Goto(o, IF pc[o] = "find" THEN "link" ELSE "noRoot")
    /\ UNCHANGED <<pod, resultTime, child, tail, faults>>

----------------------------------------------------------------------------
(* createProperty, up to the container.                                    *)

LinkProfile(c) ==
    /\ pc[c] = "link"
    /\ linked' = TRUE
    /\ Goto(c, "check")
    /\ UNCHANGED <<container, ttl, stream, relations, children, members, docs,
                   resultTime, child, tail, faults>>

(* Mutant of CheckContainer: the `return` ends the whole chain. *)
CheckContainerOnly(c) ==
    /\ pc[c] = "check"
    /\ Goto(c, IF ~container THEN "recheck"
               ELSE IF c \in Obs THEN "refind" ELSE "resolved")
    /\ UNCHANGED <<pod, resultTime, child, tail, faults>>

(* The promise of createProperty is resolved as soon as the container is   *)
(* seen to exist, but the `return` only leaves that one callback: the rest *)
(* of the chain still runs, as tail[c], beside the caller that goes on.    *)
CheckContainer(c) ==
    /\ pc[c] = "check"
    /\ IF container
       THEN /\ tail' = [tail EXCEPT ![c] = "readTtl"]
            /\ Goto(c, IF c \in Obs THEN "refind" ELSE "resolved")
       ELSE /\ Goto(c, "recheck")
            /\ UNCHANGED tail
    /\ UNCHANGED <<pod, resultTime, child, faults>>

(* createContainer looks again before it creates.  In "tail" the caller    *)
(* waits for the rest of the chain.                                        *)
RecheckContainer(c) ==
    /\ pc[c] = "recheck"
    /\ IF container
       THEN /\ tail' = [tail EXCEPT ![c] = "readTtl"]
            /\ Goto(c, "tail")
       ELSE /\ Goto(c, "putContainer")
            /\ UNCHANGED tail
    /\ UNCHANGED <<pod, resultTime, child, faults>>

PutContainer(c) ==
    /\ pc[c] = "putContainer"
    /\ ~container
    /\ container' = TRUE
    /\ tail' = [tail EXCEPT ![c] = "readTtl"]
    /\ Goto(c, "tail")
    /\ UNCHANGED <<linked, ttl, stream, relations, children, members, docs,
                   resultTime, child, faults>>

(* If-None-Match: a container another call made meanwhile is a 412. *)
PutContainerConflict(c) ==
    /\ pc[c] = "putContainer"
    /\ container
    /\ Goto(c, "conflict")
    /\ UNCHANGED <<pod, resultTime, child, tail, faults>>

----------------------------------------------------------------------------
(* createProperty, the rest of the chain.  It settles the call if the call *)
(* still waits for it; settling a promise a second time does nothing.      *)

(* Mutant of EndTail: the call is settled again by the end of the chain. *)
EndTailTwice(c, result) ==
    /\ tail' = [tail EXCEPT ![c] = "none"]
    /\ pc' = [pc EXCEPT ![c] = result]

(* Mutant of EndTail: the end of the chain settles nothing. *)
EndTailSilently(c, result) ==
    /\ tail' = [tail EXCEPT ![c] = "none"]
    /\ UNCHANGED pc

EndTail(c, result) ==
    /\ tail' = [tail EXCEPT ![c] = "none"]
    /\ pc' = IF pc[c] = "tail" THEN [pc EXCEPT ![c] = result] ELSE pc

ReadTtl(c) ==
    /\ tail[c] = "readTtl"
    /\ tail' = [tail EXCEPT ![c] = IF ttl THEN "patchTtl" ELSE "createTtl"]
    /\ UNCHANGED <<pod, resultTime, pc, child, faults>>

(* A document that was absent when read is PUT with If-None-Match. *)
CreateTtl(c) ==
    /\ tail[c] = "createTtl"
    /\ ~ttl
    /\ ttl' = TRUE
    /\ tail' = [tail EXCEPT ![c] = "saveMeta"]
    /\ UNCHANGED <<linked, container, stream, relations, children, members,
                   docs, resultTime, pc, child, faults>>

CreateTtlConflict(c) ==
    /\ tail[c] = "createTtl"
    /\ ttl
    /\ EndTail(c, "conflict")
    /\ UNCHANGED <<pod, resultTime, child, faults>>

(* A document that was present is PATCHed: the root node is there already. *)
PatchTtl(c) ==
    /\ tail[c] = "patchTtl"
    /\ ttl' = TRUE
    /\ tail' = [tail EXCEPT ![c] = "saveMeta"]
    /\ UNCHANGED <<linked, container, stream, relations, children, members,
                   docs, resultTime, pc, child, faults>>

SaveMeta(c) ==
    /\ tail[c] = "saveMeta"
    /\ stream' = TRUE
    /\ EndTail(c, IF c \in Obs THEN "refind" ELSE "resolved")
    /\ UNCHANGED <<linked, container, ttl, relations, children, members, docs,
                   resultTime, child, faults>>

----------------------------------------------------------------------------
(* addObservation, once it has the root node.                              *)

(* Mutant of FetchNode: the filter is off by one. *)
FetchNodeUpToLimit(o) ==
    /\ pc[o] = "fetch"
    /\ child[o] \in Described
    /\ Cardinality(members[child[o]]) <= Limit
    /\ Goto(o, "saveChild")
    /\ UNCHANGED <<pod, resultTime, child, tail, faults>>

(* fetchTreeNode and the default filter. *)
FetchNode(o) ==
    /\ pc[o] = "fetch"
    /\ child[o] \in Described
    /\ Cardinality(members[child[o]]) < Limit
    /\ Goto(o, "saveChild")
    /\ UNCHANGED <<pod, resultTime, child, tail, faults>>

(* A full node: a fragment named after this observation takes its place. *)
FetchFullNode(o) ==
    /\ pc[o] = "fetch"
    /\ child[o] \in Described
    /\ Cardinality(members[child[o]]) >= Limit
    /\ child' = [child EXCEPT ![o] = resultTime[o]]
    /\ Goto(o, "checkChild")
    /\ UNCHANGED <<pod, resultTime, tail, faults>>

FetchNothing(o) ==
    /\ pc[o] = "fetch"
    /\ child[o] \notin Described
    /\ Goto(o, "noNode")
    /\ UNCHANGED <<pod, resultTime, child, tail, faults>>

(* Mutant of CheckChild: the container of the fragment is taken to exist. *)
CheckChildNever(o) ==
    /\ pc[o] = "checkChild"
    /\ Goto(o, "saveRoot")
    /\ UNCHANGED <<pod, resultTime, child, tail, faults>>

(* Mutant of CheckChild: the container is created without looking first. *)
CheckChildAbsent(o) ==
    /\ pc[o] = "checkChild"
    /\ Goto(o, "putChild")
    /\ UNCHANGED <<pod, resultTime, child, tail, faults>>

CheckChild(o) ==
    /\ pc[o] = "checkChild"
    /\ Goto(o, IF child[o] \in children THEN "saveRoot" ELSE "putChild")
    /\ UNCHANGED <<pod, resultTime, child, tail, faults>>

PutChild(o) ==
    /\ pc[o] = "putChild"
    /\ child[o] \notin children
    /\ children' = children \union {child[o]}
    /\ Goto(o, "saveRoot")
    /\ UNCHANGED <<linked, container, ttl, stream, relations, members, docs,
                   resultTime, child, tail, faults>>

PutChildConflict(o) ==
    /\ pc[o] = "putChild"
    /\ child[o] \in children
    /\ Goto(o, "conflict")
    /\ UNCHANGED <<pod, resultTime, child, tail, faults>>

(* Mutant of SaveRoot: the child node is not saved after the root node. *)
SaveRootOnly(o) ==
    /\ pc[o] = "saveRoot"
    /\ relations' = relations \union {child[o]}
    /\ Goto(o, "saveObs")
    /\ UNCHANGED <<linked, container, ttl, stream, children, members, docs,
                   resultTime, child, tail, faults>>

(* createTreeNode(rootNode).  The PATCH inserts the relations the call     *)
(* read before as well; nothing removes a relation, so they are there.     *)
SaveRoot(o) ==
    /\ pc[o] = "saveRoot"
    /\ relations' = relations \union {child[o]}
    /\ Goto(o, "saveChild")
    /\ UNCHANGED <<linked, container, ttl, stream, children, members, docs,
                   resultTime, child, tail, faults>>

(* Mutant of SaveChild: the call does not wait for the observation. *)
SaveChildLast(o) ==
    /\ pc[o] = "saveChild"
    /\ members' = [members EXCEPT ![child[o]] = @ \union {o}]
    /\ Goto(o, "reply")
    /\ UNCHANGED <<linked, container, ttl, stream, relations, children, docs,
                   resultTime, child, tail, faults>>

(* createTreeNode(childNode, collection): the node and its new member. *)
SaveChild(o) ==
    /\ pc[o] = "saveChild"
    /\ members' = [members EXCEPT ![child[o]] = @ \union {o}]
    /\ Goto(o, "saveObs")
    /\ UNCHANGED <<linked, container, ttl, stream, relations, children, docs,
                   resultTime, child, tail, faults>>

(* saveDataset with append: the document is POSTed to the fragment, without *)
(* a slug, so the server names it.  It is not at the URL that the fragment  *)
(* lists as its member; what it holds is about that URL.                    *)
SaveObs(o) ==
    /\ pc[o] = "saveObs"
    /\ docs' = [docs EXCEPT ![child[o]] = @ \union {o}]
    /\ Goto(o, "reply")
    /\ UNCHANGED <<linked, container, ttl, stream, relations, children, members,
                   resultTime, child, tail, faults>>

(* The answer to the POST arrives. *)
Reply(o) ==
    /\ pc[o] = "reply"
    /\ Goto(o, "resolved")
    /\ UNCHANGED <<pod, resultTime, child, tail, faults>>

----------------------------------------------------------------------------
(* Faults.                                                                 *)

Fault(kind) ==
    /\ kind \in Faults
    /\ faults < MaxFaults
    /\ faults' = faults + 1

Reading == {"find", "refind", "link", "check", "recheck", "fetch",
            "checkChild", "saveRoot", "saveChild"}
Writing == {"link", "putContainer", "putChild", "saveRoot", "saveChild",
            "saveObs"}

(* The server answers with an error status and the call is rejected. *)
RequestRefused(c) ==
    /\ Fault("refused")
    /\ pc[c] \in Reading \union Writing
    /\ Goto(c, "error")
    /\ UNCHANGED <<pod, resultTime, child, tail>>

(* No answer at all.  A write rejects.  In getDataset the handler itself   *)
(* throws, for the error has no `response`, and its promise never settles. *)
(* A write that was stored though its answer is lost is the write followed *)
(* by RequestRefused of the next request.                                  *)
NetworkFailure(c) ==
    /\ Fault("network")
    /\ \/ pc[c] \in Reading /\ Goto(c, "hung")
       \/ pc[c] \in Writing \union {"reply"} /\ Goto(c, "error")
    /\ UNCHANGED <<pod, resultTime, child, tail>>

TailRefused(c) ==
    /\ Fault("refused")
    /\ tail[c] # "none"
    /\ EndTail(c, "error")
    /\ UNCHANGED <<pod, resultTime, child>>

(* The .meta is the last write: it may be stored and its answer lost. *)
TailNetworkFailure(c) ==
    /\ Fault("network")
    /\ tail[c] # "none"
    /\ EndTail(c, IF tail[c] = "readTtl" THEN "hung" ELSE "error")
    /\ \/ UNCHANGED stream
       \/ tail[c] = "saveMeta" /\ stream' = TRUE
    /\ UNCHANGED <<linked, container, ttl, relations, children, members, docs,
                   resultTime, child>>

(* The application of a call stops: nothing of the call goes on. *)
Crash(c) ==
    /\ Fault("crash")
    /\ pc[c] \in InFlight \/ tail[c] # "none"
    /\ pc' = IF pc[c] \in InFlight THEN [pc EXCEPT ![c] = "lost"] ELSE pc
    /\ tail' = [tail EXCEPT ![c] = "none"]
    /\ UNCHANGED <<pod, resultTime, child>>

----------------------------------------------------------------------------
AddStep(o) ==
    \/ FindFragment(o) \/ FindNoFragment(o) \/ FindNoRoot(o)
    \/ FetchNode(o) \/ FetchFullNode(o) \/ FetchNothing(o)
    \/ CheckChild(o) \/ PutChild(o) \/ PutChildConflict(o)
    \/ SaveRoot(o) \/ SaveChild(o) \/ SaveObs(o) \/ Reply(o)

CreateStep(c) ==
    \/ LinkProfile(c) \/ CheckContainer(c) \/ RecheckContainer(c)
    \/ PutContainer(c) \/ PutContainerConflict(c)

TailStep(c) ==
    \/ ReadTtl(c) \/ CreateTtl(c) \/ CreateTtlConflict(c) \/ PatchTtl(c)
    \/ SaveMeta(c)

FaultStep(c) ==
    \/ RequestRefused(c) \/ NetworkFailure(c)
    \/ TailRefused(c) \/ TailNetworkFailure(c)
    \/ Crash(c)

(* Nothing is left to do: the applications idle. *)
Finished ==
    /\ \A c \in Calls : pc[c] \in Ended /\ tail[c] = "none"
    /\ UNCHANGED vars

Next ==
    \/ \E c \in Calls : Start(c) \/ CreateStep(c) \/ TailStep(c) \/ FaultStep(c)
    \/ \E o \in Obs : AddStep(o)
    \/ Finished

Spec == Init /\ [][Next]_vars

(* A request that was sent is answered, and the callback of an answer runs *)
(* in the end.  No application is bound to make a call, and nothing has to *)
(* fail.                                                                   *)
Fairness ==
    /\ \A o \in Obs : WF_vars(AddStep(o))
    /\ \A c \in Calls : WF_vars(CreateStep(c)) /\ WF_vars(TailStep(c))

FairSpec == Spec /\ Fairness

----------------------------------------------------------------------------
(* Safety.                                                                 *)

(* All that addObservation writes of an observation is there.  This is what *)
(* the code writes, not what it reads back: see AckedFetched.               *)
Written(o, t) == t \in relations /\ o \in members[t] /\ o \in docs[t]

(* Whatever the interleaving, and wherever calls stop, the Pod is built in *)
(* an order that leaves no dangling reference upwards: a stored            *)
(* observation is listed by its fragment, a fragment with members is       *)
(* related to the root, its container exists, and so up to the profile.    *)
PodOrder ==
    /\ \A t \in Times : docs[t] \subseteq members[t]
    /\ Described \subseteq relations
    /\ relations \subseteq children
    /\ children # {} => ttl
    /\ stream => ttl
    /\ ttl => container
    /\ container => linked

(* A fragment is related to the root by GreaterThanOrEqualTo: no member of *)
(* it is older than the fragment, or a reader that prunes would miss it.   *)
TreeSound == \A t \in Times : \A o \in members[t] : t <= resultTime[o]

(* A resolved addObservation has left all three of its traces, a document   *)
(* about the observation, the membership and the relation, in one fragment, *)
(* and no later call or fault takes one of them away.                       *)
AckedWritten ==
    \A o \in Obs : pc[o] = "resolved" => \E t \in Times : Written(o, t)

(* The filter is a check before the write, so calls in flight can overfill *)
(* a node, by less than one each.  Observations with the very result time  *)
(* of the fragment are not counted: the code does not bound them, but the  *)
(* first member is always one, and leaves the others one place less.       *)
Joined(t) == {o \in members[t] : resultTime[o] # t}

FragmentBound ==
    \A t \in Times : Cardinality(Joined(t)) <= Limit + Concurrency - 2

(* One call at a time and no fault yet: no call is ever refused, not even  *)
(* because the chain of an earlier createProperty is still at work.        *)
LoneCallsSucceed ==
    faults = 0 => \A c \in Calls : pc[c] \notin Rejected

(* One call at a time: whatever earlier calls left behind when they        *)
(* failed, no call runs into a 412.                                        *)
NoConflict == \A c \in Calls : pc[c] # "conflict"

(* Both, of a client that waits for each call before the next one. *)
LoneCallsSound == LoneCallsSucceed /\ NoConflict

----------------------------------------------------------------------------
(* Refinement.                                                             *)

(* The log as it is written in the Pod, and the answers as callers get     *)
(* them: one that hangs or whose application is gone got none.             *)
WrittenLog == [t \in Times |-> {o \in Obs : Written(o, t)}]

Answers ==
    [o \in Obs |->
        CASE pc[o] = "resolved"   -> "resolved"
          [] pc[o] \in Rejected  -> "rejected"
          [] OTHER                -> "none"]

Log == INSTANCE ObservationLog WITH log <- WrittenLog, answer <- Answers

(* The Pod and its writers implement the append-only log of observations:  *)
(* only the POST of an observation enters it, into one fragment that is    *)
(* not younger than it; no write, conflict or fault takes one away.        *)
ImplementsLog == Log!Spec

----------------------------------------------------------------------------
(* What the repository says of the code, and the runs refute.              *)

(* SolidPropertyService.ts:316: a root node that does not exist is created *)
(* or repaired, and the call goes on with it.                              *)
RootCreatedOrRepaired == \A o \in Obs : pc[o] # "noRoot"

(* SolidPropertyService.ts:38: the containers and resources an observation *)
(* needs are created, so no call fails for the lack of one.                *)
ContainersAndResourcesCreated == \A o \in Obs : pc[o] # "noNode"

(* The fragments whose documents fetchObservations queries.  It reads the  *)
(* document that property.id names, which holds the root node and its      *)
(* relations, and follows none of them.                                    *)
Followed == {}

FetchObservations == UNION {docs[t] : t \in Followed}

(* SolidPropertyService.ts:385: all observations of a property are         *)
(* fetched, so in particular those that were acknowledged.                 *)
AckedFetched == \A o \in Obs : pc[o] = "resolved" => o \in FetchObservations

----------------------------------------------------------------------------
(* Liveness, under FairSpec.                                               *)

(* As long as nothing fails, every call is settled. *)
CallsSettle ==
    \A c \in Calls : pc[c] \in InFlight ~> pc[c] \in Settled \/ faults > 0

(* As long as nothing fails, no relation of the root stays without its     *)
(* node.                                                                   *)
RelationsResolve ==
    \A t \in Times : t \in relations ~> t \in Described \/ faults > 0

(* A call that takes the container for a complete property while there is  *)
(* no property.ttl may fail for want of a root node (RootCreatedOrRepaired)*)
(* but the rest of its createProperty chain still makes the property       *)
(* complete, unless there is another fault from then on.                   *)
RootRepaired ==
    \A n \in 0..MaxFaults :
        ((\E c \in Calls : pc[c] = "check") /\ container /\ faults = n)
            ~> (ttl \/ faults > n)

----------------------------------------------------------------------------
(* The inductive invariant: what each stage of a call relies on.           *)

AddStage(o) ==
    /\ pc[o] = "fetch" => child[o] \in relations /\ child[o] <= resultTime[o]
    /\ pc[o] \in {"checkChild", "putChild", "saveRoot"}
           => child[o] = resultTime[o] /\ ttl
    /\ pc[o] = "saveRoot" => child[o] \in children
    /\ pc[o] = "saveChild" =>
           /\ child[o] \in relations /\ child[o] <= resultTime[o]
           /\ child[o] \in Described \/ child[o] = resultTime[o]
    /\ pc[o] \in Storing \union {"resolved"} => o \in members[child[o]]
    /\ pc[o] \in {"reply", "resolved"} => o \in docs[child[o]]
    /\ pc[o] \in {"new", "saveObs"} \union Searching \union Creating \union Placing
           => \A t \in Times : o \notin docs[t]

AddStages == \A o \in Obs : AddStage(o)

CreateStage(c) ==
    /\ pc[c] \in {"check", "recheck", "putContainer", "tail"} => linked
    /\ pc[c] = "tail" => tail[c] # "none"
    /\ tail[c] # "none" => container
    /\ tail[c] \in {"patchTtl", "saveMeta"} => ttl
    /\ c \in Creations => pc[c] \notin Searching \union Placing \union Storing

CreateStages == \A c \in Calls : CreateStage(c)

(* Calls past the filter, about to join a fragment that is not their own. *)
Admitted(t) ==
    {o \in Obs : pc[o] = "saveChild" /\ child[o] = t /\ resultTime[o] # t}

(* A fragment with members has one that it is named after. *)
Founded == \A t \in Described : \E o \in members[t] : resultTime[o] = t

ActiveBound == Cardinality(Active) <= Concurrency

AdmissionBound ==
    \A t \in Times :
        Cardinality(Joined(t) \union Admitted(t)) <= Limit + Concurrency - 2

IInv ==
    /\ TypeOK
    /\ PodOrder
    /\ TreeSound
    /\ AddStages
    /\ CreateStages
    /\ Founded
    /\ ActiveBound
    /\ AdmissionBound
============================================================================
