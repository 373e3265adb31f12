------------------------------- MODULE PodReads -------------------------------
(***************************************************************************)
(* What is read from a Pod: findOne, findAll, count and findByUID of the   *)
(* data driver, fetchObservations, getThing and getDatasetStore, and       *)
(* setThing, which reads before it fails.  Each finds a session (those of  *)
(* SolidService are given one), and getDataset finds the URL of a document *)
(* that is given as a path before it is read.  Storage, sessions, the      *)
(* profile that names the Pod and the query engine are external.           *)
(***************************************************************************)
EXTENDS Naturals, FiniteSets

CONSTANTS
    Queries,         \* calls of findOne, findAll, count and fetchObservations
    Finds,           \* calls of findByUID, which give getThing a path
    Things,          \* other calls of getThing
    Stores,          \* calls of getDatasetStore
    SetThings,       \* calls of setThing, or createThing without a dataset
    Pages,           \* documents of the Pod
    PageOf,          \* the document that each call reads
    Paths,           \* the calls that are given a path, not a URL
    MaxReadFaults    \* bound: requests that are refused or not answered

Reads == Queries \union Finds \union Things \union Stores \union SetThings

ASSUME ReadsAssumption ==
    /\ PageOf \in [Reads -> Pages]
    /\ Finds \subseteq Paths /\ Paths \subseteq Reads \ SetThings
    /\ MaxReadFaults \in Nat

VARIABLES
    pages,        \* the documents that exist
    readPc,
    hasSession,   \* the calls that have a session
    result,       \* what a call was resolved from: the document, or its absence
    seenThere,    \* the calls during which the document existed
    seenGone,     \* the calls during which it did not
    lost,         \* the calls that had no response, or for which no Pod was found
    readFaults

readVars == <<pages, readPc, hasSession, result, seenThere, seenGone, lost, readFaults>>

PodReadsTypeOK ==
    /\ pages \subseteq Pages
    /\ readPc \in [Reads -> {"new", "session", "podUrl", "get", "resolved", "rejected", "hung"}]
    /\ hasSession \subseteq Reads
    /\ result \in [Reads -> {"none", "data", "nothing"}]
    /\ seenThere \subseteq Reads
    /\ seenGone \subseteq Reads
    /\ lost \subseteq Reads
    /\ readFaults \in 0..MaxReadFaults

PodReadsInit ==
    /\ pages \in SUBSET Pages
    /\ readPc = [c \in Reads |-> "new"]
    /\ hasSession = {}
    /\ result = [c \in Reads |-> "none"]
    /\ seenThere = {} /\ seenGone = {} /\ lost = {}
    /\ readFaults = 0

ReadTo(c, step) == readPc' = [readPc EXCEPT ![c] = step]

Locate(c) == ReadTo(c, IF c \in Paths THEN "podUrl" ELSE "get")

ReadFails ==
    /\ readFaults < MaxReadFaults
    /\ readFaults' = readFaults + 1

----------------------------------------------------------------------------
(* The calls of SolidService are given a session. *)
StartRead(c) ==
    /\ readPc[c] = "new"
    /\ IF c \in Things \union Stores \union SetThings
       THEN Locate(c) /\ hasSession' = hasSession \union {c}
       ELSE ReadTo(c, "session") /\ UNCHANGED hasSession
    /\ seenThere' = IF PageOf[c] \in pages THEN seenThere \union {c} ELSE seenThere
    /\ seenGone' = IF PageOf[c] \in pages THEN seenGone ELSE seenGone \union {c}
    /\ UNCHANGED <<pages, result, lost, readFaults>>

(* findSessionByWebId and findSessionByObjectUID yield nothing when no     *)
(* session is stored, and the read goes on.                                *)
FindReader(c) ==
    /\ readPc[c] = "session"
    /\ \/ Locate(c) /\ hasSession' \in {hasSession, hasSession \union {c}}
       \/ ReadTo(c, "rejected") /\ UNCHANGED hasSession
    /\ UNCHANGED <<pages, result, seenThere, seenGone, lost, readFaults>>

(* getDocumentURL is awaited in the executor of getDataset's promise, so   *)
(* when it fails (without a session it always does) nothing is settled.    *)
NeverSettled(c) == ReadTo(c, "hung") /\ lost' = lost \union {c}

GetDocumentURL(c) ==
    /\ readPc[c] = "podUrl"
    /\ \/ c \in hasSession /\ ReadTo(c, "get") /\ UNCHANGED <<lost, readFaults>>
       \/ c \notin hasSession /\ NeverSettled(c) /\ UNCHANGED readFaults
       \/ ReadFails /\ NeverSettled(c)
    /\ UNCHANGED <<pages, hasSession, result, seenThere, seenGone>>

(* getThing throws for a path, which is no URL of a thing, and for no      *)
(* dataset.  (findByUID gives it a path; were it to answer null for that,  *)
(* deserialize would throw.)                                               *)
GetThingFails(c, there) == c \in Finds \union Things /\ (c \in Paths \/ ~there)

(* setThing gives saveDataset the dataset for the URL, which always fails. *)
SetThingFails(c) == c \in SetThings

(* What a call makes of the document, in which it may find nothing, or of  *)
(* none, for which a query finds nothing and a store is empty.             *)
Settle(c, there) ==
    IF SetThingFails(c) \/ GetThingFails(c, there)
    THEN ReadTo(c, "rejected") /\ UNCHANGED result
    ELSE /\ ReadTo(c, "resolved")
         /\ result' = [result EXCEPT ![c] = IF there THEN "data" ELSE "nothing"]

(* Mutant of ReadRefused: whatever is refused counts as not there. *)
ReadRefusedAsGone(c) ==
    /\ readPc[c] = "get"
    /\ ReadFails
    /\ Settle(c, FALSE)
    /\ UNCHANGED <<pages, hasSession, seenThere, seenGone, lost>>

(* Mutant of ReadRefused: only one that is not found is answered. *)
ReadRefusedNoAnswer(c) ==
    /\ readPc[c] = "get"
    /\ ReadFails
    /\ ReadTo(c, "hung")
    /\ UNCHANGED <<pages, hasSession, result, seenThere, seenGone, lost>>

ReadRefused(c) ==
    /\ readPc[c] = "get"
    /\ ReadFails
    /\ ReadTo(c, "rejected")
    /\ UNCHANGED <<pages, hasSession, result, seenThere, seenGone, lost>>

(* An error without a response throws in the handler (SolidService.ts:295).*)
ReadUnanswered(c) ==
    /\ readPc[c] = "get"
    /\ ReadFails
    /\ NeverSettled(c)
    /\ UNCHANGED <<pages, hasSession, result, seenThere, seenGone>>

GetDataset(c) ==
    /\ readPc[c] = "get"
    /\ Settle(c, PageOf[c] \in pages)
    /\ UNCHANGED <<pages, hasSession, seenThere, seenGone, lost, readFaults>>

(* Another client writes or deletes a document, also during a call. *)
Underway(p) == {c \in Reads : PageOf[c] = p /\ readPc[c] \in {"session", "podUrl", "get"}}

WritePage(p) ==
    /\ p \notin pages
    /\ pages' = pages \union {p}
    /\ seenThere' = seenThere \union Underway(p)
    /\ UNCHANGED <<readPc, hasSession, result, seenGone, lost, readFaults>>

DeletePage(p) ==
    /\ p \in pages
    /\ pages' = pages \ {p}
    /\ seenGone' = seenGone \union Underway(p)
    /\ UNCHANGED <<readPc, hasSession, result, seenThere, lost, readFaults>>

----------------------------------------------------------------------------
ReadStep(c) == FindReader(c) \/ GetDocumentURL(c) \/ GetDataset(c) \/ ReadRefused(c) \/ ReadUnanswered(c)

PodReadsNext ==
    \/ \E c \in Reads : StartRead(c) \/ ReadStep(c)
    \/ \E p \in Pages : WritePage(p) \/ DeletePage(p)

PodReadsSpec == PodReadsInit /\ [][PodReadsNext]_readVars

(* Requests are answered or fail, and callbacks run. *)
PodReadsFairness == \A c \in Reads : WF_readVars(ReadStep(c))

----------------------------------------------------------------------------
(* What a read resolves with was so at some time during the call: without  *)
(* a document only when it did not exist, from one only when it did,       *)
(* however others write and whatever is refused.                           *)
AnswersAreTrue ==
    \A c \in Reads :
        /\ result[c] = "nothing" => c \in seenGone
        /\ result[c] = "data" => c \in seenThere

(* A read is resolved or rejected, whatever its document is refused with   *)
(* and whatever becomes of the other calls, unless its own request for the *)
(* document has no response or no Pod is found for its path.  (So a find   *)
(* by the UID of an object that is not linked keeps its caller waiting.)   *)
ReadsSettle ==
    \A c \in Reads : readPc[c] # "new" ~> readPc[c] \in {"resolved", "rejected"} \/ c \in lost
============================================================================
