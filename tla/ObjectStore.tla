---------------------------- MODULE ObjectStore ----------------------------
(***************************************************************************)
(* SolidDataDriver: data objects in documents of a Pod, and the links in   *)
(* the key-value storage of the service that tell where an object is:      *)
(* from the object to the session it was stored with, and from session and *)
(* object to the document.  insert and delete, request by request.         *)
(*                                                                         *)
(* What an insert writes about its object is named after the insert, so    *)
(* the content of the Pod is a set of inserts.  Writing merges: what was   *)
(* stored of an object stays beside what is new (_mergeDeep).              *)
(*                                                                         *)
(* The storage serves one application, in the order it is asked, so what   *)
(* is not awaited (linkSession, unlinkSession) is done in the step that    *)
(* asks for it.  Its requests may fail: get finds nothing then, delete     *)
(* says nothing, and set rejects, which nobody sees where it is not        *)
(* awaited.                                                                *)
(***************************************************************************)
EXTENDS Naturals, FiniteSets

CONSTANTS
    Objects,      \* data objects
    Docs,         \* documents of the Pod
    DocOf,        \* DocOf[o]: the document of o
    Fragmented,   \* objects whose URL is a fragment of their document
    Inserts,      \* calls of insert
    Deletes,      \* calls of delete
    ObjectOf,     \* ObjectOf[c]: the object of a call
    Serial,       \* the calls for one object are made one after the other
    Faults,       \* the kinds of fault that may happen
    MaxFaults     \* bound: how many faults may happen

Calls == Inserts \union Deletes

(* The URL of an object that is not a fragment is that of its document. *)
ASSUME ObjectsAssumption ==
    /\ DocOf \in [Objects -> Docs]
    /\ Fragmented \subseteq Objects
    /\ \A o, q \in Objects \ Fragmented : DocOf[o] = DocOf[q] => o = q
ASSUME CallsAssumption ==
    /\ Inserts \intersect Deletes = {}
    /\ ObjectOf \in [Calls -> Objects]
    /\ Serial \in BOOLEAN
ASSUME FaultsAssumption ==
    /\ Faults \subseteq {"refused", "network", "crash", "storage"}
    /\ MaxFaults \in Nat

VARIABLES
    exists,       \* documents that exist in the Pod
    stored,       \* inserts whose data the Pod holds
    sessionLink,  \* objects with a link to their session
    uriLink,      \* objects with a link to their document
    dropped,      \* objects for which a link was not set, or not taken away,
                  \* unnoticed, since they were last linked to a session
    pc,           \* what each call waits for, or how it ended
    seen,         \* seen[x]: what the document held when delete x read it
    faults        \* number of faults so far

links == <<sessionLink, uriLink, dropped>>
pod   == <<exists, stored>>
vars  == <<pod, links, pc, seen, faults>>

Saving   == {"put", "patch"}
Removing == {"deleteDoc", "removeThing"}
InsertStages == {"podUrl", "read"} \union Saving
DeleteStages == {"findUri", "unlink", "unlinkOnly", "load"} \union Removing
InFlight == InsertStages \union DeleteStages
Failed   == {"noSession", "conflict", "gone", "error"}
Ended    == {"resolved", "hung", "lost"} \union Failed

Doc(c)  == DocOf[ObjectOf[c]]
InDoc(d) == {i \in stored : Doc(i) = d}
DataOf(o) == {i \in stored : ObjectOf[i] = o}

TypeOK ==
    /\ exists \in SUBSET Docs
    /\ stored \in SUBSET Inserts
    /\ sessionLink \in SUBSET Objects
    /\ uriLink \in SUBSET Objects
    /\ dropped \in SUBSET Objects
    /\ pc \in [Calls -> {"new"} \union InFlight \union Ended]
    /\ \A i \in Inserts : pc[i] \notin DeleteStages
    /\ \A x \in Deletes : pc[x] \notin InsertStages
    /\ seen \in [Deletes -> SUBSET Inserts]
    /\ faults \in 0..MaxFaults

(* No document, no link, no call. *)
Init ==
    /\ exists = {} /\ stored = {}
    /\ sessionLink = {} /\ uriLink = {} /\ dropped = {}
    /\ pc = [c \in Calls |-> "new"]
    /\ seen = [x \in Deletes |-> {}]
    /\ faults = 0

Goto(c, stage) == pc' = [pc EXCEPT ![c] = stage]

Begin(c) ==
    /\ pc[c] = "new"
    /\ Serial => \A d \in Calls : ObjectOf[d] = ObjectOf[c] => pc[d] \notin InFlight

----------------------------------------------------------------------------
(* insert.  The session of the WebID is found and logged in; the link to   *)
(* it is set at once, and not waited for.                                  *)
LinkSession(i) ==
    /\ Begin(i)
    /\ sessionLink' = sessionLink \union {ObjectOf[i]}
    /\ dropped' = dropped \ {ObjectOf[i]}
    /\ Goto(i, "podUrl")
    /\ UNCHANGED <<pod, uriLink, seen, faults>>

(* Mutant of LinkDocument: only a new document is linked. *)
LinkNewDocument(i) ==
    /\ pc[i] = "podUrl"
    /\ uriLink' = IF Doc(i) \in exists THEN uriLink
                  ELSE uriLink \union {ObjectOf[i]}
    /\ Goto(i, "read")
    /\ UNCHANGED <<pod, sessionLink, dropped, seen, faults>>

(* Nobody is logged in as the WebID of the object. *)
InsertUnauthorized(i) ==
    /\ Begin(i)
    /\ Goto(i, "noSession")
    /\ UNCHANGED <<pod, links, seen, faults>>

(* The URL of the Pod has arrived, and with it the document is known. *)
LinkDocument(i) ==
    /\ pc[i] = "podUrl"
    /\ uriLink' = uriLink \union {ObjectOf[i]}
    /\ Goto(i, "read")
    /\ UNCHANGED <<pod, sessionLink, dropped, seen, faults>>

(* A dataset that was not there is created with a PUT, another is updated  *)
(* with a PATCH of what createThing adds to it.                            *)
ReadDocument(i) ==
    /\ pc[i] = "read"
    /\ Goto(i, IF Doc(i) \in exists THEN "patch" ELSE "put")
    /\ UNCHANGED <<pod, links, seen, faults>>

Write(i) ==
    /\ exists' = exists \union {Doc(i)}
    /\ stored' = stored \union {i}

(* Mutant of PutDocument: the document is replaced, whatever is there. *)
PutAnyDocument(i) ==
    /\ pc[i] = "put"
    /\ exists' = exists \union {Doc(i)}
    /\ stored' = (stored \ InDoc(Doc(i))) \union {i}
    /\ Goto(i, "resolved")
    /\ UNCHANGED <<links, seen, faults>>

PutDocument(i) ==
    /\ pc[i] = "put"
    /\ Doc(i) \notin exists
    /\ Write(i)
    /\ Goto(i, "resolved")
    /\ UNCHANGED <<links, seen, faults>>

(* Mutant of PutConflict: a document that exists is taken for saved. *)
PutIgnored(i) ==
    /\ pc[i] = "put"
    /\ Doc(i) \in exists
    /\ Goto(i, "resolved")
    /\ UNCHANGED <<pod, links, seen, faults>>

(* Another insert has created the document since it was read. *)
PutConflict(i) ==
    /\ pc[i] = "put"
    /\ Doc(i) \in exists
    /\ Goto(i, "conflict")
    /\ UNCHANGED <<pod, links, seen, faults>>

PatchDocument(i) ==
    /\ pc[i] = "patch"
    /\ Write(i)
    /\ Goto(i, "resolved")
    /\ UNCHANGED <<links, seen, faults>>

----------------------------------------------------------------------------
(* delete: findSessionByObjectUID. *)
FindSession(x) ==
    /\ Begin(x)
    /\ ObjectOf[x] \in sessionLink
    /\ Goto(x, "findUri")
    /\ UNCHANGED <<pod, links, seen, faults>>

(* There is no link to a session, or the session is gone. *)
FindNoSession(x) ==
    /\ Begin(x)
    /\ Goto(x, "noSession")
    /\ UNCHANGED <<pod, links, seen, faults>>

Unlinking == {"unlink", "unlinkOnly"}

(* A delete that found no URL fails when it reads what has no URL. *)
GotoLoad(x) == Goto(x, IF pc[x] = "unlink" THEN "load" ELSE "gone")

(* findObjectURI: the link may be missing. *)
FindURI(x) ==
    /\ pc[x] = "findUri"
    /\ Goto(x, IF ObjectOf[x] \in uriLink THEN "unlink" ELSE "unlinkOnly")
    /\ UNCHANGED <<pod, links, seen, faults>>

(* Mutant of Unlink: the link to the document stays. *)
UnlinkSessionOnly(x) ==
    /\ pc[x] \in Unlinking
    /\ sessionLink' = sessionLink \ {ObjectOf[x]}
    /\ GotoLoad(x)
    /\ UNCHANGED <<pod, uriLink, dropped, seen, faults>>

(* Both links go before the data does. *)
Unlink(x) ==
    /\ pc[x] \in Unlinking
    /\ sessionLink' = sessionLink \ {ObjectOf[x]}
    /\ uriLink' = uriLink \ {ObjectOf[x]}
    /\ GotoLoad(x)
    /\ UNCHANGED <<pod, dropped, seen, faults>>

(* Mutant of LoadNothing: nobody learns that there is nothing to delete. *)
LoadSilently(x) ==
    /\ pc[x] = "load"
    /\ InDoc(Doc(x)) = {}
    /\ UNCHANGED vars

(* Neither a document that is gone nor one without things can be deleted   *)
(* from.                                                                   *)
LoadNothing(x) ==
    /\ pc[x] = "load"
    /\ InDoc(Doc(x)) = {}
    /\ Goto(x, "gone")
    /\ UNCHANGED <<pod, links, seen, faults>>

(* The document is deleted when the first subject in it, and any may be    *)
(* the first, is named like it; else the thing of that name is removed.    *)
LoadDocument(x) ==
    /\ pc[x] = "load"
    /\ \E i \in InDoc(Doc(x)) :
           Goto(x, IF ObjectOf[i] \in Fragmented THEN "removeThing" ELSE "deleteDoc")
    /\ seen' = [seen EXCEPT ![x] = InDoc(Doc(x))]
    /\ UNCHANGED <<pod, links, faults>>

Delete(x) ==
    /\ Doc(x) \in exists
    /\ exists' = exists \ {Doc(x)}
    /\ stored' = stored \ InDoc(Doc(x))

DeleteDocument(x) ==
    /\ pc[x] = "deleteDoc"
    /\ Delete(x)
    /\ Goto(x, "resolved")
    /\ UNCHANGED <<links, seen, faults>>

DeleteNothing(x) ==
    /\ pc[x] = "deleteDoc"
    /\ Doc(x) \notin exists
    /\ Goto(x, "gone")
    /\ UNCHANGED <<pod, links, seen, faults>>

(* Mutant of Removed: what to remove is looked up without its document. *)
RemovedFragments(x) == {i \in seen[x] : ObjectOf[i] \in Fragmented}

(* removeThing of the URL of the document, as it was read: the link holds  *)
(* no fragment, so a fragment is never what is removed.                    *)
Removed(x) == {i \in seen[x] : ObjectOf[i] \notin Fragmented}

Remove(x) ==
    /\ Removed(x) \subseteq stored
    /\ stored' = stored \ Removed(x)
    /\ UNCHANGED exists

RemoveThing(x) ==
    /\ pc[x] = "removeThing"
    /\ Remove(x)
    /\ Goto(x, "resolved")
    /\ UNCHANGED <<links, seen, faults>>

(* A PATCH that removes what is no longer there is refused. *)
RemoveConflict(x) ==
    /\ pc[x] = "removeThing"
    /\ ~(Removed(x) \subseteq stored)
    /\ Goto(x, "conflict")
    /\ UNCHANGED <<pod, links, seen, faults>>

----------------------------------------------------------------------------
(* Faults. *)
Fault(kind) ==
    /\ kind \in Faults
    /\ faults < MaxFaults
    /\ faults' = faults + 1

Requests == {"podUrl", "read", "load"} \union Saving \union Removing

(* A request is refused: nothing has changed, the call is rejected. *)
RequestRefused(c) ==
    /\ Fault("refused")
    /\ pc[c] \in Requests
    /\ Goto(c, "error")
    /\ UNCHANGED <<pod, links, seen>>

(* What was asked of the Pod may have been done, though nobody was told. *)
MayBeDone(c) ==
    \/ UNCHANGED pod
    \/ pc[c] = "put" /\ Doc(c) \notin exists /\ Write(c)
    \/ pc[c] = "patch" /\ Write(c)
    \/ pc[c] = "deleteDoc" /\ Delete(c)
    \/ pc[c] = "removeThing" /\ Remove(c)

(* No answer.  getDataset hangs, the other calls are rejected. *)
NetworkFailure(c) ==
    /\ Fault("network")
    /\ pc[c] \in Requests
    /\ Goto(c, IF pc[c] = "read" THEN "hung" ELSE "error")
    /\ MayBeDone(c)
    /\ UNCHANGED <<links, seen>>

(* The session link is not set.  Nobody awaits it: the insert goes on.     *)
(* Where an unhandled rejection ends the process, this is a Crash instead. *)
LinkSessionUnnoticed(i) ==
    /\ Fault("storage")
    /\ Begin(i)
    /\ dropped' = dropped \union {ObjectOf[i]}
    /\ Goto(i, "podUrl")
    /\ UNCHANGED <<pod, sessionLink, uriLink, seen>>

(* The link to the document is awaited.  It may have been set all the same.*)
LinkDocumentFails(i) ==
    /\ Fault("storage")
    /\ pc[i] = "podUrl"
    /\ uriLink' \in {uriLink, uriLink \union {ObjectOf[i]}}
    /\ Goto(i, "error")
    /\ UNCHANGED <<pod, sessionLink, dropped, seen>>

(* A link that cannot be read is taken for one that is not there. *)
FindURIFails(x) ==
    /\ Fault("storage")
    /\ pc[x] = "findUri"
    /\ Goto(x, "unlinkOnly")
    /\ UNCHANGED <<pod, links, seen>>

(* One of the links stays, or both, and the delete goes on. *)
UnlinkUnnoticed(x) ==
    /\ Fault("storage")
    /\ pc[x] \in Unlinking
    /\ \/ /\ uriLink' = uriLink \ {ObjectOf[x]}
          /\ UNCHANGED <<sessionLink, dropped>>
       \/ /\ sessionLink' \in {sessionLink, sessionLink \ {ObjectOf[x]}}
          /\ dropped' = dropped \union {ObjectOf[x]}
          /\ UNCHANGED uriLink
    /\ GotoLoad(x)
    /\ UNCHANGED <<pod, seen>>

(* The application ends. *)
Crash(c) ==
    /\ Fault("crash")
    /\ pc[c] \in InFlight
    /\ Goto(c, "lost")
    /\ MayBeDone(c)
    /\ UNCHANGED <<links, seen>>

----------------------------------------------------------------------------
InsertStep(i) ==
    \/ LinkDocument(i) \/ ReadDocument(i)
    \/ PutDocument(i) \/ PutConflict(i) \/ PatchDocument(i)

DeleteStep(x) ==
    \/ FindURI(x) \/ Unlink(x) \/ LoadNothing(x) \/ LoadDocument(x)
    \/ DeleteDocument(x) \/ DeleteNothing(x)
    \/ RemoveThing(x) \/ RemoveConflict(x)

Finished ==
    /\ \A c \in Calls : pc[c] \in Ended
    /\ UNCHANGED vars

Next ==
    \/ \E i \in Inserts :
           LinkSession(i) \/ InsertUnauthorized(i) \/ InsertStep(i)
    \/ \E x \in Deletes :
           FindSession(x) \/ FindNoSession(x) \/ DeleteStep(x)
    \/ \E i \in Inserts : LinkSessionUnnoticed(i) \/ LinkDocumentFails(i)
    \/ \E x \in Deletes : FindURIFails(x) \/ UnlinkUnnoticed(x)
    \/ \E c \in Calls : RequestRefused(c) \/ NetworkFailure(c) \/ Crash(c)
    \/ Finished

Spec == Init /\ [][Next]_vars

(* Requests are answered and callbacks run. *)
FairSpec ==
    /\ Spec
    /\ \A i \in Inserts : WF_vars(InsertStep(i))
    /\ \A x \in Deletes : WF_vars(DeleteStep(x))

----------------------------------------------------------------------------
(* No insert, and no failure of one, undoes another: what was acknowledged *)
(* is stored until a delete has loaded a document to take it from.         *)
AckedStored ==
    \A i \in Inserts :
        pc[i] = "resolved" /\ i \notin stored =>
            \E x \in Deletes :
                /\ Doc(x) = Doc(i)
                /\ seen[x] # {}

(* What was inserted can be deleted: when the calls for an object are made *)
(* one after the other and none of them failed half-way, data that is      *)
(* stored has both links, unless the storage dropped one unnoticed since.  *)
Deletable ==
    \A o \in Objects \ dropped :
        (/\ \E i \in DataOf(o) : pc[i] = "resolved"
         /\ \A c \in Inserts \union Deletes :
                ObjectOf[c] = o => pc[c] \in {"new", "noSession", "resolved"})
            => o \in sessionLink /\ o \in uriLink

(* A link to a document without one to a session is never found, nor taken *)
(* away.  Calls made one after the other leave none, wherever they fail or *)
(* stop, except by a failure of the storage that goes unnoticed; and that  *)
(* is made good when the object is next linked to a session.               *)
LinksPaired == uriLink \subseteq sessionLink \union dropped

(* When delete resolves, the Pod holds nothing of the object any more, as  *)
(* SolidDataDriver.ts:245-250 has it: the graph is deleted, or the thing   *)
(* within the dataset.                                                     *)
DeletedIsGone ==
    [][\A x \in Deletes :
           pc[x] # "resolved" /\ pc'[x] = "resolved"
               => DataOf(ObjectOf[x])' = {}]_vars

(* How a call at a stage has ended, for its caller. *)
AnswerAt(stage) ==
    CASE stage = "resolved" -> "resolved"
      [] stage \in Failed -> "rejected"
      [] stage \in {"hung", "lost"} -> "never"
      [] OTHER -> "none"

Answers == [c \in Calls |-> AnswerAt(pc[c])]

Map == INSTANCE ObjectMap WITH
    data   <- stored,
    answer <- Answers,
    Within <- [o \in Objects |-> {q \in Objects : DocOf[q] = DocOf[o]}]

(* Calls for one object that do not overlap implement a map of objects:    *)
(* each insert and delete takes effect at once, when it ends, however the  *)
(* calls for other objects of its document come between its requests; no   *)
(* fault leaves half of it, and nothing that was deleted comes back.       *)
ImplementsMap == Map!Spec

(* As long as nothing fails, every call is settled. *)
CallsSettle ==
    \A c \in Calls :
        pc[c] \in InFlight ~> pc[c] \in Failed \union {"resolved"} \/ faults > 0

----------------------------------------------------------------------------
(* The inductive invariant: deletes act on what they have seen of their    *)
(* own document.                                                           *)
SeenOwn ==
    \A x \in Deletes :
        /\ \A i \in seen[x] : Doc(i) = Doc(x)
        /\ pc[x] \in Removing => seen[x] # {}

IInv == TypeOK /\ SeenOwn /\ AckedStored

(* In addition, when calls for an object do not overlap: a call finds what *)
(* it has set up or seen unchanged.                                        *)
OneAtATime ==
    \A c, d \in Calls :
        ObjectOf[c] = ObjectOf[d] /\ pc[c] \in InFlight /\ pc[d] \in InFlight
            => c = d

StageSound ==
    /\ \A i \in Inserts : pc[i] = "podUrl" => ObjectOf[i] \in sessionLink \union dropped
    /\ \A x \in Deletes :
           pc[x] = "removeThing" => DataOf(ObjectOf[x]) \subseteq seen[x]

SerialInv == TypeOK /\ OneAtATime /\ StageSound /\ LinksPaired
============================================================================
