------------------------- MODULE ObjectStoreProofs -------------------------
(***************************************************************************)
(* Proofs about ObjectStore.  The first part is about all calls however    *)
(* they overlap and fail, the second about calls that do not overlap for   *)
(* one object.                                                             *)
(***************************************************************************)
EXTENDS ObjectStore, TLAPS

LEMMA TypeInit == Init => TypeOK
<1> SUFFICES ASSUME Init PROVE TypeOK
  OBVIOUS
<1>1. \A c \in Calls : pc[c] = "new"
  BY DEF Init
<1>2. \A c \in Calls : pc[c] \notin InFlight
  BY <1>1 DEF InFlight, InsertStages, DeleteStages, Saving, Removing
<1>3. faults \in 0..MaxFaults
  BY FaultsAssumption DEF Init
<1>4. pc \in [Calls -> {"new"} \union InFlight \union Ended]
  BY DEF Init
<1> QED
  BY <1>2, <1>3, <1>4 DEF Init, TypeOK, InFlight, Calls

LEMMA TypeStep == TypeOK /\ [Next]_vars => TypeOK'
<1> SUFFICES ASSUME TypeOK, [Next]_vars PROVE TypeOK'
  OBVIOUS
<1> USE ObjectsAssumption, CallsAssumption DEF TypeOK, Goto, links, pod, Calls
<1> USE DEF InFlight, InsertStages, DeleteStages, Saving, Removing, Ended, Failed
<1>1. ASSUME NEW i \in Inserts, LinkSession(i) \/ InsertUnauthorized(i) \/ InsertStep(i)
      PROVE  TypeOK'
  BY <1>1 DEF LinkSession, InsertUnauthorized, InsertStep, LinkDocument, ReadDocument,
     PutDocument, PutConflict, PatchDocument, Write, Doc
<1>2. ASSUME NEW x \in Deletes, FindSession(x) \/ FindNoSession(x) \/ FindURI(x) \/ Unlink(x)
      PROVE  TypeOK'
  BY <1>2 DEF FindSession, FindNoSession, FindURI, Unlink, Unlinking, GotoLoad
<1>3. ASSUME NEW x \in Deletes, LoadNothing(x) \/ LoadDocument(x) PROVE TypeOK'
  BY <1>3 DEF LoadNothing, LoadDocument, InDoc
<1>4. ASSUME NEW x \in Deletes,
             \/ DeleteDocument(x) \/ DeleteNothing(x)
             \/ RemoveThing(x) \/ RemoveConflict(x)
      PROVE  TypeOK'
  BY <1>4 DEF DeleteDocument, DeleteNothing, RemoveThing, RemoveConflict, Delete, Remove
<1>5. ASSUME NEW c \in Calls, RequestRefused(c) \/ NetworkFailure(c) \/ Crash(c)
      PROVE  TypeOK'
  <2>1. faults' \in 0..MaxFaults
    BY <1>5, FaultsAssumption DEF RequestRefused, NetworkFailure, Crash, Fault
  <2>2. /\ pc' \in [Calls -> {"new"} \union InFlight \union Ended]
        /\ \A i \in Inserts : pc'[i] \notin DeleteStages
        /\ \A x \in Deletes : pc'[x] \notin InsertStages
    BY <1>5 DEF RequestRefused, NetworkFailure, Crash
  <2>3. UNCHANGED <<links, seen>>
    BY <1>5 DEF RequestRefused, NetworkFailure, Crash
  <2>4. exists' \in SUBSET Docs /\ stored' \in SUBSET Inserts
    BY <1>5 DEF RequestRefused, NetworkFailure, MayBeDone, Crash, Write, Delete, Remove, Doc
  <2> QED
    BY <2>1, <2>2, <2>3, <2>4
<1>6. ASSUME NEW i \in Inserts, LinkSessionUnnoticed(i) \/ LinkDocumentFails(i)
      PROVE  TypeOK'
  <2>1. faults' \in 0..MaxFaults
    BY <1>6, FaultsAssumption DEF LinkSessionUnnoticed, LinkDocumentFails, Fault
  <2> QED
    BY <1>6, <2>1 DEF LinkSessionUnnoticed, LinkDocumentFails
<1>7. ASSUME NEW x \in Deletes, FindURIFails(x) \/ UnlinkUnnoticed(x) PROVE TypeOK'
  <2>1. faults' \in 0..MaxFaults
    BY <1>7, FaultsAssumption DEF FindURIFails, UnlinkUnnoticed, Fault
  <2> QED
    BY <1>7, <2>1 DEF FindURIFails, UnlinkUnnoticed, Unlinking, GotoLoad
<1> QED
  BY <1>1, <1>2, <1>3, <1>4, <1>5, <1>6, <1>7 DEF Next, DeleteStep, Finished, vars

(* What a delete has seen stays what it has seen, until it loads anew; and *)
(* only a delete that has seen a document takes data from it.              *)
LEMMA StoredShrinks ==
    ASSUME TypeOK, SeenOwn, [Next]_vars, NEW i \in stored, i \notin stored'
    PROVE  \E x \in Deletes : Doc(x) = Doc(i) /\ seen[x] # {} /\ seen' = seen
<1> USE DEF Goto, pod
<1>1. ASSUME NEW c \in Calls,
             \/ pc[c] = "deleteDoc" /\ Delete(c)
             \/ pc[c] = "removeThing" /\ Remove(c)
      PROVE  c \in Deletes /\ Doc(c) = Doc(i) /\ seen[c] # {}
  <2>1. c \in Deletes
    BY <1>1 DEF TypeOK, Calls, InFlight, DeleteStages, Removing
  <2>2. CASE Delete(c)
    BY <1>1, <2>1, <2>2 DEF Delete, InDoc, SeenOwn, Removing
  <2>3. CASE Remove(c)
    BY <2>1, <2>3 DEF Remove, Removed, SeenOwn
  <2> QED
    BY <1>1, <2>1, <2>2, <2>3
<1>2. ASSUME NEW x \in Deletes, DeleteDocument(x) \/ RemoveThing(x)
      PROVE  Doc(x) = Doc(i) /\ seen[x] # {} /\ seen' = seen
  BY <1>1, <1>2 DEF DeleteDocument, RemoveThing, Calls
<1>3. ASSUME NEW c \in Calls, NetworkFailure(c) \/ Crash(c)
      PROVE  c \in Deletes /\ Doc(c) = Doc(i) /\ seen[c] # {} /\ seen' = seen
  BY <1>1, <1>3 DEF NetworkFailure, Crash, MayBeDone, Write
<1> QED
  BY <1>2, <1>3 DEF Next, InsertStep, DeleteStep, LinkSession, InsertUnauthorized,
     LinkDocument, ReadDocument, PutDocument, PutConflict, PatchDocument, Write,
     FindSession, FindNoSession, FindURI, Unlink, LoadNothing, LoadDocument,
     DeleteNothing, RemoveConflict, RequestRefused, LinkSessionUnnoticed,
     LinkDocumentFails, FindURIFails, UnlinkUnnoticed, Finished, vars

LEMMA SeenOwnStep == TypeOK /\ SeenOwn /\ [Next]_vars => SeenOwn'
<1> SUFFICES ASSUME TypeOK, SeenOwn, [Next]_vars, NEW x \in Deletes
             PROVE  /\ \A i \in seen'[x] : Doc(i) = Doc(x)
                    /\ pc'[x] \in Removing => seen'[x] # {}
  BY DEF SeenOwn, Doc
<1> USE DEF TypeOK, Goto, Removing, Calls
<1>1. ASSUME NEW y \in Deletes, LoadDocument(y)
      PROVE  /\ \A i \in seen'[x] : Doc(i) = Doc(x)
             /\ pc'[x] \in Removing => seen'[x] # {}
  BY <1>1 DEF LoadDocument, InDoc, SeenOwn
<1>2. CASE ~\E y \in Deletes : LoadDocument(y)
  <2>1. seen' = seen
    BY <1>2 DEF Next, InsertStep, DeleteStep, LinkSession, InsertUnauthorized,
       LinkDocument, ReadDocument, PutDocument, PutConflict, PatchDocument, FindSession,
       FindNoSession, FindURI, Unlink, LoadNothing, DeleteDocument, DeleteNothing,
       RemoveThing, RemoveConflict, RequestRefused, NetworkFailure,
       Crash,
       LinkSessionUnnoticed, LinkDocumentFails, FindURIFails,
       UnlinkUnnoticed, Unlinking, GotoLoad, Finished, vars
  <2>2. pc'[x] \in Removing => pc[x] \in Removing
    BY <1>2 DEF Next, InsertStep, DeleteStep, LinkSession, InsertUnauthorized,
       LinkDocument, ReadDocument, PutDocument, PutConflict, PatchDocument, FindSession,
       FindNoSession, FindURI, Unlink, LoadNothing, DeleteDocument, DeleteNothing,
       RemoveThing, RemoveConflict, RequestRefused, NetworkFailure,
       Crash,
       LinkSessionUnnoticed, LinkDocumentFails, FindURIFails,
       UnlinkUnnoticed, Unlinking, GotoLoad, Finished, vars
  <2> QED
    BY <2>1, <2>2 DEF SeenOwn
<1> QED
  BY <1>1, <1>2

(* An insert resolves with its data stored. *)
LEMMA ResolvedByWriting ==
    ASSUME TypeOK, [Next]_vars, NEW i \in Inserts, pc'[i] = "resolved"
    PROVE  pc[i] = "resolved" \/ i \in stored'
<1> USE CallsAssumption DEF TypeOK, Goto, Calls
<1>1. ASSUME NEW j \in Inserts, LinkSession(j) \/ InsertUnauthorized(j) \/ InsertStep(j)
      PROVE  pc[i] = "resolved" \/ i \in stored'
  BY <1>1 DEF InsertStep, LinkSession, InsertUnauthorized, LinkDocument, ReadDocument,
     PutDocument, PutConflict, PatchDocument, Write
<1>2. ASSUME NEW x \in Deletes, FindSession(x) \/ FindNoSession(x) \/ DeleteStep(x)
      PROVE  pc[i] = "resolved"
  BY <1>2 DEF FindSession, FindNoSession, DeleteStep, FindURI, Unlink, Unlinking, GotoLoad,
     LoadNothing, LoadDocument, DeleteDocument, DeleteNothing, RemoveThing, RemoveConflict
<1>3. ASSUME NEW c \in Calls, RequestRefused(c) \/ NetworkFailure(c) \/ Crash(c)
      PROVE  pc[i] = "resolved"
  BY <1>3 DEF RequestRefused, NetworkFailure, Crash
<1>4. ASSUME NEW j \in Inserts, LinkSessionUnnoticed(j) \/ LinkDocumentFails(j)
      PROVE  pc[i] = "resolved"
  BY <1>4 DEF LinkSessionUnnoticed, LinkDocumentFails
<1>5. ASSUME NEW x \in Deletes, FindURIFails(x) \/ UnlinkUnnoticed(x)
      PROVE  pc[i] = "resolved"
  BY <1>5 DEF FindURIFails, UnlinkUnnoticed, Unlinking, GotoLoad
<1> QED
  BY <1>1, <1>2, <1>3, <1>4, <1>5 DEF Next, Finished, vars

LEMMA AckedStoredStep ==
    ASSUME TypeOK, SeenOwn, AckedStored, [Next]_vars
    PROVE  AckedStored'
<1> SUFFICES ASSUME NEW i \in Inserts, pc'[i] = "resolved", i \notin stored'
             PROVE  \E x \in Deletes : Doc(x) = Doc(i) /\ seen'[x] # {}
  BY DEF AckedStored, Doc
<1>1. CASE i \in stored
  BY <1>1, StoredShrinks
<1>2. CASE i \notin stored
  <2>1. pc[i] = "resolved"
    BY <1>2, ResolvedByWriting
  <2>2. PICK x \in Deletes : Doc(x) = Doc(i) /\ seen[x] # {}
    BY <1>2, <2>1 DEF AckedStored
  <2>3. seen'[x] # {}
    BY <2>2 DEF TypeOK, Goto, Next, InsertStep, DeleteStep, LinkSession,
       InsertUnauthorized, LinkDocument, ReadDocument, PutDocument, PutConflict,
       PatchDocument, FindSession, FindNoSession, FindURI, Unlink, LoadNothing,
       LoadDocument, DeleteDocument, DeleteNothing, RemoveThing, RemoveConflict,
       RequestRefused, NetworkFailure, Crash,
       LinkSessionUnnoticed, LinkDocumentFails, FindURIFails,
       UnlinkUnnoticed, Unlinking, GotoLoad, Finished, vars
  <2> QED
    BY <2>2, <2>3
<1> QED
  BY <1>1, <1>2

(* The inductive invariant of all calls. *)
THEOREM Invariance == Spec => []IInv
<1>1. Init => IInv
  <2>1. Init => TypeOK
    BY TypeInit
  <2>2. ASSUME Init PROVE SeenOwn /\ AckedStored
    <3>1. \A c \in Calls : pc[c] = "new"
      BY <2>2 DEF Init
    <3>2. \A x \in Deletes : seen[x] = {} /\ pc[x] \notin Removing
      BY <2>2, <3>1 DEF Init, Removing, Calls
    <3>3. \A i \in Inserts : pc[i] # "resolved"
      BY <3>1 DEF Calls
    <3> QED
      BY <3>2, <3>3 DEF SeenOwn, AckedStored
  <2> QED
    BY <2>1, <2>2 DEF IInv
<1>2. IInv /\ [Next]_vars => IInv'
  BY TypeStep, SeenOwnStep, AckedStoredStep DEF IInv
<1> QED
  BY <1>1, <1>2, PTL DEF Spec

(* However inserts and deletes overlap and fail, what insert acknowledged  *)
(* is stored until a delete has seen its document.                         *)
THEOREM AckedStoredCorrect == Spec => []AckedStored
<1>1. IInv => AckedStored
  BY DEF IInv
<1> QED
  BY <1>1, Invariance, PTL

----------------------------------------------------------------------------
(* Calls that do not overlap for one object.                               *)

(* A call that gets going finds no other call for its object at work. *)
LEMMA OneAtATimeStep ==
    ASSUME Serial, TypeOK, OneAtATime, [Next]_vars
    PROVE  OneAtATime'
<1> SUFFICES ASSUME NEW c \in Calls, NEW d \in Calls, ObjectOf[c] = ObjectOf[d],
                    pc'[c] \in InFlight, pc'[d] \in InFlight
             PROVE  c = d
  BY DEF OneAtATime
<1> USE DEF TypeOK, Goto
<1>1. ASSUME NEW e \in Calls, Begin(e), \E s : Goto(e, s)
      PROVE  c = d
  <2>1. e = c \/ pc'[c] = pc[c]
    BY <1>1
  <2>2. e = d \/ pc'[d] = pc[d]
    BY <1>1
  <2> QED
    BY <1>1, <2>1, <2>2 DEF Begin, OneAtATime
<1>2. CASE \A e \in Calls : pc'[e] \in InFlight => pc[e] \in InFlight
  BY <1>2 DEF OneAtATime
<1>3. ASSUME NEW e \in Calls, pc[e] \in InFlight, \E s : Goto(e, s)
      PROVE  c = d
  BY <1>2, <1>3
<1>4. ASSUME NEW i \in Inserts, LinkSession(i) \/ InsertUnauthorized(i) \/ InsertStep(i)
      PROVE  c = d
  <2>1. CASE LinkSession(i) \/ InsertUnauthorized(i)
    BY <1>1, <2>1 DEF LinkSession, InsertUnauthorized, Calls
  <2>2. CASE InsertStep(i)
    BY <1>3, <2>2 DEF InsertStep, LinkDocument, ReadDocument, PutDocument, PutConflict,
       PatchDocument, Calls, InFlight, InsertStages, Saving
  <2> QED
    BY <1>4, <2>1, <2>2
<1>5. ASSUME NEW x \in Deletes, FindSession(x) \/ FindNoSession(x) \/ DeleteStep(x) PROVE c = d
  <2>1. CASE FindSession(x) \/ FindNoSession(x)
    BY <1>1, <2>1 DEF FindSession, FindNoSession, Calls
  <2>2. CASE FindURI(x) \/ Unlink(x) \/ LoadNothing(x) \/ LoadDocument(x)
    BY <1>3, <2>2 DEF FindURI, Unlink, Unlinking, GotoLoad, LoadNothing, LoadDocument, Calls,
       InFlight, DeleteStages
  <2>3. CASE DeleteDocument(x) \/ DeleteNothing(x) \/ RemoveThing(x) \/ RemoveConflict(x)
    BY <1>3, <2>3 DEF DeleteDocument, DeleteNothing, RemoveThing, RemoveConflict, Calls,
       InFlight, DeleteStages, Removing
  <2> QED
    BY <1>5, <2>1, <2>2, <2>3 DEF DeleteStep
<1>6. ASSUME NEW e \in Calls, RequestRefused(e) \/ NetworkFailure(e) \/ Crash(e)
      PROVE  c = d
  <2>1. \A f \in Calls : pc'[f] = pc[f] \/ pc'[f] \notin InFlight
    BY <1>6 DEF RequestRefused, NetworkFailure, Crash, InFlight, InsertStages,
       DeleteStages, Saving, Removing
  <2> QED
    BY <1>2, <2>1
<1>7. CASE Finished \/ UNCHANGED vars
  BY <1>2, <1>7 DEF Finished, vars
<1>8. ASSUME NEW i \in Inserts, LinkSessionUnnoticed(i) \/ LinkDocumentFails(i) PROVE c = d
  <2>1. CASE LinkSessionUnnoticed(i)
    BY <1>1, <2>1 DEF LinkSessionUnnoticed, Calls
  <2>2. CASE LinkDocumentFails(i)
    BY <1>3, <2>2 DEF LinkDocumentFails, Calls, InFlight, InsertStages
  <2> QED
    BY <1>8, <2>1, <2>2
<1>9. ASSUME NEW x \in Deletes, FindURIFails(x) \/ UnlinkUnnoticed(x) PROVE c = d
  BY <1>3, <1>9 DEF FindURIFails, UnlinkUnnoticed, Unlinking, GotoLoad, Calls, InFlight,
     DeleteStages
<1> QED
  BY <1>4, <1>5, <1>6, <1>7, <1>8, <1>9 DEF Next

(* Links come and go only with the calls for their object. *)
LEMMA LinksStep ==
    ASSUME Serial, TypeOK, OneAtATime, StageSound, LinksPaired, [Next]_vars
    PROVE  /\ LinksPaired'
           /\ \A i \in Inserts :
                  pc'[i] = "podUrl" => ObjectOf[i] \in sessionLink' \union dropped'
<1> DEFINE Paired(i) == pc'[i] = "podUrl" => ObjectOf[i] \in sessionLink' \union dropped'
<1> USE CallsAssumption DEF TypeOK, Goto, Calls, links
<1>1. ASSUME NEW j \in Inserts, LinkSession(j) \/ LinkSessionUnnoticed(j)
      PROVE  LinksPaired' /\ \A i \in Inserts : Paired(i)
  BY <1>1 DEF LinkSession, LinkSessionUnnoticed, LinksPaired, StageSound
<1>2. ASSUME NEW j \in Inserts, LinkDocument(j) \/ LinkDocumentFails(j)
      PROVE  LinksPaired' /\ \A i \in Inserts : Paired(i)
  BY <1>2 DEF LinkDocument, LinkDocumentFails, LinksPaired, StageSound
<1>3. ASSUME NEW x \in Deletes, Unlink(x) \/ UnlinkUnnoticed(x)
      PROVE  LinksPaired' /\ \A i \in Inserts : Paired(i)
  <2>1. /\ pc[x] \in Unlinking
        /\ sessionLink \ {ObjectOf[x]} \subseteq sessionLink'
        /\ dropped \subseteq dropped'
        /\ pc' = [pc EXCEPT ![x] = IF pc[x] = "unlink" THEN "load" ELSE "gone"]
    BY <1>3 DEF Unlink, UnlinkUnnoticed, GotoLoad
  <2>2. LinksPaired'
    BY <1>3 DEF Unlink, UnlinkUnnoticed, LinksPaired
  <2>3. ASSUME NEW i \in Inserts, pc'[i] = "podUrl"
        PROVE  ObjectOf[i] \in sessionLink' \union dropped'
    <3>1. pc[i] = "podUrl" /\ i # x
      BY <2>1, <2>3
    <3>2. pc[i] \in InFlight /\ pc[x] \in InFlight
      BY <2>1, <3>1 DEF Unlinking, InFlight, InsertStages, DeleteStages
    <3>3. ObjectOf[i] # ObjectOf[x]
      BY <3>1, <3>2 DEF OneAtATime
    <3> QED
      BY <2>1, <3>1, <3>3 DEF StageSound
  <2> QED
    BY <2>2, <2>3
<1>4. CASE ~(\/ \E i \in Inserts : \/ LinkSession(i) \/ LinkSessionUnnoticed(i)
                                    \/ LinkDocument(i) \/ LinkDocumentFails(i)
             \/ \E x \in Deletes : Unlink(x) \/ UnlinkUnnoticed(x))
  <2>1. /\ UNCHANGED links
        /\ \A i \in Inserts : pc'[i] = "podUrl" => pc[i] = "podUrl"
    BY <1>4 DEF Next, InsertStep, DeleteStep, InsertUnauthorized, ReadDocument,
       PutDocument, PutConflict, PatchDocument, FindSession, FindNoSession, FindURI,
       LoadNothing, LoadDocument, DeleteDocument, DeleteNothing, RemoveThing,
       RemoveConflict, RequestRefused, NetworkFailure, Crash, FindURIFails,
       Finished, vars
  <2> QED
    BY <2>1 DEF LinksPaired, StageSound
<1> QED
  BY <1>1, <1>2, <1>3, <1>4

(* While a delete is about to remove a thing nobody adds to it. *)
LEMMA SeenAllStep ==
    ASSUME Serial, TypeOK, OneAtATime, StageSound, [Next]_vars,
           NEW x \in Deletes, pc'[x] = "removeThing"
    PROVE  DataOf(ObjectOf[x])' \subseteq seen'[x]
<1> USE CallsAssumption DEF TypeOK, Goto, Calls, pod
<1>1. CASE LoadDocument(x)
  BY <1>1 DEF LoadDocument, DataOf, InDoc, Doc
<1>2. CASE ~LoadDocument(x)
  <2>1. pc[x] = "removeThing" /\ seen'[x] = seen[x]
    BY <1>2 DEF Next, InsertStep, DeleteStep, LinkSession, InsertUnauthorized,
       LinkDocument, ReadDocument, PutDocument, PutConflict, PatchDocument, FindSession,
       FindNoSession, FindURI, Unlink, LoadNothing, LoadDocument, DeleteDocument,
       DeleteNothing, RemoveThing, RemoveConflict, RequestRefused,
       NetworkFailure, Crash,
       LinkSessionUnnoticed, LinkDocumentFails, FindURIFails,
       UnlinkUnnoticed, Unlinking, GotoLoad, Finished, vars
  <2>2. DataOf(ObjectOf[x]) \subseteq seen[x]
    BY <2>1 DEF StageSound
  <2>3. ASSUME NEW i \in stored', i \notin stored
        PROVE  ObjectOf[i] # ObjectOf[x]
    <3>1. i \in Inserts /\ pc[i] \in Saving
      BY <2>3 DEF Next, InsertStep, DeleteStep, LinkSession, InsertUnauthorized,
         LinkDocument, ReadDocument, PutDocument, PutConflict, PatchDocument, Write,
         FindSession, FindNoSession, FindURI, Unlink, LoadNothing, LoadDocument,
         DeleteDocument, Delete, DeleteNothing, RemoveThing, Remove, RemoveConflict,
         RequestRefused, NetworkFailure, MayBeDone, Crash,
         LinkSessionUnnoticed, LinkDocumentFails, FindURIFails,
         UnlinkUnnoticed, Unlinking, GotoLoad, Finished, vars, Saving,
         InFlight, DeleteStages, InsertStages
    <3>2. i # x /\ pc[i] \in InFlight /\ pc[x] \in InFlight
      BY <2>1, <3>1 DEF InFlight, InsertStages, DeleteStages, Removing, Saving
    <3> QED
      BY <3>1, <3>2 DEF OneAtATime
  <2> QED
    BY <2>1, <2>2, <2>3 DEF DataOf
<1> QED
  BY <1>1, <1>2

(* Calls for one object never overlap, so they find what they rely on. *)
THEOREM SerialInvariance ==
    ASSUME Serial
    PROVE  Spec => []SerialInv
<1>1. Init => SerialInv
  <2>1. Init => TypeOK
    BY TypeInit
  <2>2. ASSUME Init PROVE OneAtATime /\ StageSound /\ LinksPaired
    <3>1. \A c \in Calls : pc[c] = "new"
      BY <2>2 DEF Init
    <3>2. OneAtATime
      BY <3>1 DEF OneAtATime, InFlight, InsertStages, DeleteStages, Saving, Removing
    <3>3. StageSound
      BY <3>1 DEF StageSound, Calls
    <3>4. LinksPaired
      BY <2>2 DEF Init, LinksPaired
    <3> QED
      BY <3>2, <3>3, <3>4
  <2> QED
    BY <2>1, <2>2 DEF SerialInv
<1>2. SerialInv /\ [Next]_vars => SerialInv'
  <2> SUFFICES ASSUME SerialInv, [Next]_vars PROVE SerialInv'
    OBVIOUS
  <2>1. TypeOK' /\ OneAtATime'
    BY TypeStep, OneAtATimeStep DEF SerialInv
  <2>2. /\ LinksPaired'
        /\ \A i \in Inserts :
               pc'[i] = "podUrl" => ObjectOf[i] \in sessionLink' \union dropped'
    BY LinksStep DEF SerialInv
  <2>3. \A x \in Deletes :
            pc'[x] = "removeThing" => DataOf(ObjectOf[x])' \subseteq seen'[x]
    BY SeenAllStep DEF SerialInv
  <2> QED
    BY <2>1, <2>2, <2>3 DEF SerialInv, StageSound, DataOf
<1> QED
  BY <1>1, <1>2, PTL DEF Spec

(* Calls that do not overlap for one object leave no link to a document    *)
(* that nothing leads to, wherever they fail or stop: only a failure of    *)
(* the storage that nobody is told of does, until the object is next       *)
(* linked.                                                                 *)
THEOREM LinksPairedCorrect ==
    ASSUME Serial
    PROVE  Spec => []LinksPaired
<1>1. SerialInv => LinksPaired
  BY DEF SerialInv
<1> QED
  BY <1>1, SerialInvariance, PTL

(* The step in which a delete resolves leaves nothing of its object. *)
LEMMA ResolvingDeletes ==
    ASSUME SerialInv, [Next]_vars, NEW x \in Deletes, ObjectOf[x] \notin Fragmented,
           pc[x] # "resolved", pc'[x] = "resolved"
    PROVE  DataOf(ObjectOf[x])' = {}
<1> USE CallsAssumption DEF SerialInv, TypeOK, Goto, Calls
<1>1. DeleteDocument(x) \/ RemoveThing(x)
  BY DEF Next, InsertStep, DeleteStep, LinkSession, InsertUnauthorized, LinkDocument,
     ReadDocument, PutDocument, PutConflict, PatchDocument, FindSession,
     FindNoSession, FindURI, Unlink, LoadNothing, LoadDocument, DeleteDocument,
     DeleteNothing, RemoveThing, RemoveConflict, RequestRefused,
     NetworkFailure, Crash,
     LinkSessionUnnoticed, LinkDocumentFails, FindURIFails,
     UnlinkUnnoticed, Unlinking, GotoLoad, Finished, vars
<1>2. CASE DeleteDocument(x)
  BY <1>2 DEF DeleteDocument, Delete, DataOf, InDoc, Doc
<1>3. CASE RemoveThing(x)
  <2>1. DataOf(ObjectOf[x]) \subseteq Removed(x)
    BY <1>3 DEF RemoveThing, StageSound, Removed, DataOf
  <2> QED
    BY <1>3, <2>1 DEF RemoveThing, Remove, DataOf
<1> QED
  BY <1>1, <1>2, <1>3

(* When they do not overlap and no object to be deleted is a fragment, a   *)
(* delete that resolves has removed all there was of its object.           *)
THEOREM DeletedIsGoneCorrect ==
    ASSUME Serial, \A x \in Deletes : ObjectOf[x] \notin Fragmented
    PROVE  Spec => DeletedIsGone
<1> DEFINE Gone == \A x \in Deletes :
                      pc[x] # "resolved" /\ pc'[x] = "resolved"
                          => DataOf(ObjectOf[x])' = {}
<1>1. SerialInv /\ [Next]_vars => [Gone]_vars
  BY ResolvingDeletes
<1>2. Spec => [][Gone]_vars
  BY <1>1, SerialInvariance, PTL DEF Spec
<1> QED
  BY <1>2 DEF DeletedIsGone

----------------------------------------------------------------------------
(* What was inserted can be deleted.                                       *)

(* Objects with both links, but for one that was dropped unnoticed. *)
Linked == (sessionLink \union dropped) \intersect uriLink

(* No call for o has failed, and none has taken its links away without     *)
(* having taken its data away as well.                                     *)
Intact(o) ==
    \A c \in Calls : ObjectOf[c] = o =>
        pc[c] \in {"new", "noSession", "resolved", "findUri", "unlink", "unlinkOnly"}
                     \union InsertStages

(* An insert writes with both links set, and they stay with the data.      *)
LinkedSound ==
    /\ \A i \in Inserts : pc[i] \in {"read"} \union Saving => ObjectOf[i] \in Linked
    /\ \A o \in Objects : DataOf(o) # {} /\ Intact(o) => o \in Linked

Unlinks(x) == Unlink(x) \/ UnlinkUnnoticed(x)

(* Links are only ever taken away by a delete of their object. *)
LEMMA LinkedStays ==
    ASSUME TypeOK, [Next]_vars, NEW o \in Linked, o \notin Linked'
    PROVE  \E x \in Deletes : Unlinks(x) /\ ObjectOf[x] = o
<1> SUFFICES ASSUME \A x \in Deletes : Unlinks(x) => ObjectOf[x] # o
             PROVE  o \in Linked'
  OBVIOUS
<1>1. CASE \E x \in Deletes : Unlinks(x)
  BY <1>1 DEF Unlinks, Unlink, UnlinkUnnoticed, Linked
<1>2. CASE ~\E x \in Deletes : Unlinks(x)
  BY <1>2 DEF Unlinks, Linked, links, Next, InsertStep, DeleteStep, LinkSession,
     InsertUnauthorized, LinkDocument, ReadDocument, PutDocument, PutConflict,
     PatchDocument, FindSession, FindNoSession, FindURI, LoadNothing, LoadDocument,
     DeleteDocument, DeleteNothing, RemoveThing, RemoveConflict, RequestRefused,
     NetworkFailure, Crash,
     LinkSessionUnnoticed, LinkDocumentFails, FindURIFails,
     UnlinkUnnoticed, Unlinking, GotoLoad, Finished, vars
<1> QED
  BY <1>1, <1>2

(* Only an insert at work adds data, and it links nothing as it does. *)
LEMMA StoredByInsert ==
    ASSUME TypeOK, [Next]_vars, NEW i \in stored', i \notin stored
    PROVE  i \in Inserts /\ pc[i] \in Saving /\ UNCHANGED links
<1> USE DEF TypeOK, Calls, Saving, InFlight, DeleteStages, Goto, pod
<1> QED
  BY DEF Next, InsertStep, DeleteStep, LinkSession, InsertUnauthorized,
     LinkDocument, ReadDocument, PutDocument, PutConflict, PatchDocument, Write,
     FindSession, FindNoSession, FindURI, Unlink, LoadNothing, LoadDocument,
     DeleteDocument, Delete, DeleteNothing, RemoveThing, Remove, RemoveConflict,
     RequestRefused, NetworkFailure, MayBeDone, Crash,
     LinkSessionUnnoticed, LinkDocumentFails, FindURIFails,
     UnlinkUnnoticed, Unlinking, GotoLoad, Finished, vars, InsertStages

LEMMA WriterLinkedStep ==
    ASSUME SerialInv, LinkedSound, [Next]_vars,
           NEW i \in Inserts, pc'[i] \in {"read"} \union Saving
    PROVE  ObjectOf[i] \in Linked'
<1> USE CallsAssumption DEF SerialInv, TypeOK, Goto, Calls, Saving
<1>1. CASE LinkDocument(i)
  BY <1>1 DEF LinkDocument, StageSound, Linked
<1>2. CASE ~LinkDocument(i)
  <2>1. pc[i] \in {"read"} \union Saving
    BY <1>2 DEF Next, InsertStep, DeleteStep, LinkSession, InsertUnauthorized,
       LinkDocument, ReadDocument, PutDocument, PutConflict, PatchDocument, FindSession,
       FindNoSession, FindURI, Unlink, LoadNothing, LoadDocument, DeleteDocument,
       DeleteNothing, RemoveThing, RemoveConflict, RequestRefused, NetworkFailure,
       Crash,
       LinkSessionUnnoticed, LinkDocumentFails, FindURIFails,
       UnlinkUnnoticed, Unlinking, GotoLoad, Finished, vars, Removing
  <2>2. ObjectOf[i] \in Linked
    BY <2>1 DEF LinkedSound
  <2>3. ASSUME NEW x \in Deletes, Unlinks(x) PROVE ObjectOf[x] # ObjectOf[i]
    <3>1. pc[i] \in InFlight /\ pc[x] \in InFlight /\ i # x
      BY <2>1, <2>3 DEF Unlinks, Unlink, UnlinkUnnoticed, Unlinking, InFlight, InsertStages, DeleteStages
    <3> QED
      BY <3>1 DEF OneAtATime
  <2> QED
    BY <2>2, <2>3, LinkedStays
<1> QED
  BY <1>1, <1>2

(* When a call makes o intact again, it has deleted it. *)
LEMMA IntactStep ==
    ASSUME SerialInv, [Next]_vars, NEW o \in Objects, ~Intact(o), Intact(o)'
    PROVE  \E x \in Deletes : /\ ObjectOf[x] = o
                              /\ pc[x] # "resolved" /\ pc'[x] = "resolved"
<1> USE CallsAssumption DEF SerialInv, TypeOK, Goto, Calls
<1>1. PICK c \in Calls :
        /\ ObjectOf[c] = o
        /\ pc[c] \notin {"new", "noSession", "resolved", "findUri", "unlink", "unlinkOnly"}
                           \union InsertStages
  BY DEF Intact
<1>2. pc'[c] \in {"new", "noSession", "resolved", "findUri", "unlink", "unlinkOnly"}
                    \union InsertStages
  BY <1>1 DEF Intact
<1>3. c \in Deletes /\ pc'[c] = "resolved"
  BY <1>1, <1>2 DEF InsertStages, Saving, Next, InsertStep, DeleteStep, Begin, LinkSession,
     InsertUnauthorized, LinkDocument, ReadDocument, PutDocument, PutConflict,
     PatchDocument, FindSession, FindNoSession, FindURI, Unlink, LoadNothing,
     LoadDocument, DeleteDocument, DeleteNothing, RemoveThing, RemoveConflict,
     RequestRefused, NetworkFailure, Crash,
     LinkSessionUnnoticed, LinkDocumentFails, FindURIFails,
     UnlinkUnnoticed, Unlinking, GotoLoad, Finished, vars
<1> QED
  BY <1>1, <1>3

LEMMA DataLinkedStep ==
    ASSUME SerialInv, LinkedSound, [Next]_vars,
           \A x \in Deletes : ObjectOf[x] \notin Fragmented,
           NEW o \in Objects, DataOf(o)' # {}, Intact(o)'
    PROVE  o \in Linked'
<1> USE CallsAssumption DEF SerialInv
<1>1. Intact(o)
  BY IntactStep, ResolvingDeletes
<1>2. CASE DataOf(o) = {}
  <2>1. PICK i \in stored' : ObjectOf[i] = o /\ i \notin stored
    BY <1>2 DEF DataOf
  <2>2. i \in Inserts /\ pc[i] \in Saving /\ UNCHANGED links
    BY <2>1, StoredByInsert
  <2> QED
    BY <2>1, <2>2 DEF LinkedSound, Linked, links
<1>3. CASE DataOf(o) # {}
  <2>1. o \in Linked
    BY <1>1, <1>3 DEF LinkedSound
  <2>2. ASSUME NEW x \in Deletes, Unlinks(x) PROVE ObjectOf[x] # o
    <3>1. pc'[x] \in {"load", "gone"}
      BY <2>2 DEF Unlinks, Unlink, UnlinkUnnoticed, GotoLoad, Goto, TypeOK, Calls
    <3> QED
      BY <3>1 DEF Intact, Calls, InsertStages, Saving
  <2> QED
    BY <2>1, <2>2, LinkedStays
<1> QED
  BY <1>2, <1>3

(* As long as the calls for an object are made one after the other, none   *)
(* fails half-way, the storage drops no link of it unnoticed and no        *)
(* fragment is deleted, what insert has stored is found again by delete:   *)
(* both its links are there.                                               *)
THEOREM DeletableCorrect ==
    ASSUME Serial, \A x \in Deletes : ObjectOf[x] \notin Fragmented
    PROVE  Spec => []Deletable
<1>1. Init => LinkedSound
  <2> SUFFICES ASSUME Init PROVE LinkedSound
    OBVIOUS
  <2>1. \A i \in Inserts : pc[i] = "new"
    BY DEF Init, Calls
  <2>2. \A o \in Objects : DataOf(o) = {}
    BY DEF Init, DataOf
  <2> QED
    BY <2>1, <2>2 DEF LinkedSound, Saving
<1>2. SerialInv /\ LinkedSound /\ [Next]_vars => LinkedSound'
  <2> SUFFICES ASSUME SerialInv, LinkedSound, [Next]_vars PROVE LinkedSound'
    OBVIOUS
  <2>1. \A i \in Inserts : pc'[i] \in {"read"} \union Saving => ObjectOf[i] \in Linked'
    BY WriterLinkedStep
  <2>2. \A o \in Objects : DataOf(o)' # {} /\ Intact(o)' => o \in Linked'
    BY DataLinkedStep
  <2> QED
    BY <2>1, <2>2 DEF LinkedSound
<1>3. LinkedSound => Deletable
  <2> SUFFICES ASSUME LinkedSound, NEW o \in Objects \ dropped, DataOf(o) # {},
                      \A c \in Inserts \union Deletes :
                          ObjectOf[c] = o => pc[c] \in {"new", "noSession", "resolved"}
               PROVE  o \in Linked
    BY DEF Deletable, Linked
  <2> QED
    BY DEF LinkedSound, Intact, Calls
<1> QED
  BY <1>1, <1>2, <1>3, SerialInvariance, PTL DEF Spec
----------------------------------------------------------------------------
(* Refinement of ObjectMap.                                                *)

(* A step moves at most one call, none that has ended, and the data in the *)
(* Pod only changes with the step in which a call ends.                    *)
Move(c, s) ==
    /\ pc[c] \notin Ended
    /\ pc' = [pc EXCEPT ![c] = s]
    /\ \/ s \in InFlight \union Failed \union {"hung", "lost"} /\ stored' = stored
       \/ s \in Ended /\ pc[c] \in Saving /\ stored' = stored \union {c}
       \/ s \in Ended /\ pc[c] = "deleteDoc" /\ Delete(c)
       \/ s \in Ended /\ pc[c] = "removeThing" /\ Remove(c)

LEMMA CallMove ==
    ASSUME TypeOK, [Next]_vars
    PROVE  \/ pc' = pc /\ stored' = stored
           \/ \E c \in Calls, s \in InFlight \union Ended : Move(c, s)
<1> DEFINE Moves(c) == \E s \in InFlight \union Ended : Move(c, s)
<1> USE DEF InFlight, InsertStages, DeleteStages, Saving, Removing, Ended, Failed
<1> USE DEF Goto, pod, Move
<1>1. ASSUME NEW i \in Inserts, LinkSession(i) \/ InsertUnauthorized(i) PROVE Moves(i)
  BY <1>1 DEF LinkSession, InsertUnauthorized, Begin
<1>2. ASSUME NEW i \in Inserts, LinkDocument(i) \/ ReadDocument(i) PROVE Moves(i)
  BY <1>2 DEF LinkDocument, ReadDocument
<1>3. ASSUME NEW i \in Inserts, PutDocument(i) \/ PutConflict(i) \/ PatchDocument(i)
      PROVE  Moves(i)
  BY <1>3 DEF PutDocument, PutConflict, PatchDocument, Write
<1>4. ASSUME NEW x \in Deletes, FindSession(x) \/ FindNoSession(x) PROVE Moves(x)
  BY <1>4 DEF FindSession, FindNoSession, Begin
<1>5. ASSUME NEW x \in Deletes, FindURI(x) \/ Unlink(x) \/ LoadNothing(x) PROVE Moves(x)
  BY <1>5 DEF FindURI, Unlink, Unlinking, GotoLoad, LoadNothing
<1>6. ASSUME NEW x \in Deletes, LoadDocument(x) PROVE Moves(x)
  <2>1. pc[x] = "load" /\ stored' = stored /\ \E s \in Removing : Goto(x, s)
    BY <1>6 DEF LoadDocument
  <2> QED
    BY <2>1
<1>7. ASSUME NEW x \in Deletes,
             \/ DeleteDocument(x) \/ DeleteNothing(x)
             \/ RemoveThing(x) \/ RemoveConflict(x)
      PROVE  Moves(x)
  BY <1>7 DEF DeleteDocument, DeleteNothing, RemoveThing, RemoveConflict
<1>8. ASSUME NEW c \in Calls, RequestRefused(c) PROVE Moves(c)
  BY <1>8 DEF RequestRefused, Requests
<1>9. ASSUME NEW c \in Calls, NetworkFailure(c) \/ Crash(c) PROVE Moves(c)
  <2>1. \E s \in {"hung", "error", "lost"} : Goto(c, s)
    BY <1>9 DEF NetworkFailure, Crash
  <2>2. pc[c] \in InFlight /\ MayBeDone(c)
    BY <1>9 DEF NetworkFailure, Crash, Requests
  <2> QED
    BY <2>1, <2>2 DEF MayBeDone, Write
<1>10. ASSUME NEW i \in Inserts, LinkSessionUnnoticed(i) \/ LinkDocumentFails(i) PROVE Moves(i)
  BY <1>10 DEF LinkSessionUnnoticed, LinkDocumentFails, Begin
<1>11. ASSUME NEW x \in Deletes, FindURIFails(x) \/ UnlinkUnnoticed(x) PROVE Moves(x)
  BY <1>11 DEF FindURIFails, UnlinkUnnoticed, Unlinking, GotoLoad
<1> QED
  BY <1>1, <1>2, <1>3, <1>4, <1>5, <1>6, <1>7, <1>8, <1>9, <1>10, <1>11
     DEF Next, InsertStep, DeleteStep, Finished, vars, Calls

(* What a delete takes away is everything of its object, and nothing from  *)
(* another document.                                                       *)
LEMMA Gone ==
    ASSUME SerialInv, SeenOwn, NEW x \in Deletes, ObjectOf[x] \notin Fragmented,
           \/ pc[x] = "deleteDoc" /\ Delete(x)
           \/ pc[x] = "removeThing" /\ Remove(x)
    PROVE  \E gone \in SUBSET stored :
               /\ stored' = stored \ gone
               /\ DataOf(ObjectOf[x]) \subseteq gone
               /\ \A i \in gone : Doc(i) = Doc(x)
<1>1. CASE Delete(x)
  <2>1. /\ InDoc(Doc(x)) \subseteq stored
        /\ DataOf(ObjectOf[x]) \subseteq InDoc(Doc(x))
        /\ \A i \in InDoc(Doc(x)) : Doc(i) = Doc(x)
    BY DEF InDoc, DataOf, Doc
  <2> QED
    BY <1>1, <2>1 DEF Delete
<1>2. CASE pc[x] = "removeThing" /\ Remove(x)
  <2>1. DataOf(ObjectOf[x]) \subseteq Removed(x)
    BY <1>2 DEF SerialInv, StageSound, Removed, DataOf
  <2>2. \A i \in Removed(x) : Doc(i) = Doc(x)
    BY DEF SeenOwn, Removed
  <2> QED
    BY <1>2, <2>1, <2>2 DEF Remove
<1> QED
  BY <1>1, <1>2

LEMMA MapInit == Init => Map!Init
<1> SUFFICES ASSUME Init PROVE Map!Init
  OBVIOUS
<1>1. Answers = [c \in Calls |-> "none"]
  BY DEF Init, Answers, AnswerAt, Failed
<1> QED
  BY <1>1 DEF Init, Map!Init, Calls

(* A call that moves is given the answer of its new stage. *)
LEMMA AnswerMove ==
    ASSUME TypeOK, NEW c \in Calls, NEW s, pc[c] \notin Ended, pc' = [pc EXCEPT ![c] = s]
    PROVE  /\ Answers[c] = "none"
           /\ Answers' = [Answers EXCEPT ![c] = AnswerAt(s)]
<1>1. \A d \in Calls : pc'[d] = IF d = c THEN s ELSE pc[d]
  BY DEF TypeOK
<1>2. Answers' = [Answers EXCEPT ![c] = AnswerAt(s)]
  <2>1. Answers' = [d \in Calls |-> AnswerAt(IF d = c THEN s ELSE pc[d])]
    BY <1>1 DEF Answers, AnswerAt
  <2> QED
    BY <2>1 DEF Answers
<1> QED
  BY <1>2 DEF Answers, AnswerAt, Ended

LEMMA MapStep ==
    ASSUME SerialInv, SeenOwn, [Next]_vars, \A x \in Deletes : ObjectOf[x] \notin Fragmented
    PROVE  [Map!Next]_(Map!vars)
<1>0. TypeOK
  BY DEF SerialInv
<1>1. CASE pc' = pc /\ stored' = stored
  BY <1>1 DEF Answers, Map!vars
<1>2. ASSUME NEW c \in Calls, NEW s \in InFlight \union Ended, Move(c, s)
      PROVE  [Map!Next]_(Map!vars)
  <2>1. Answers[c] = "none" /\ Answers' = [Answers EXCEPT ![c] = AnswerAt(s)]
    BY <1>0, <1>2, AnswerMove DEF Move
  <2>2. s \in InFlight => AnswerAt(s) = "none"
    BY DEF AnswerAt, Failed, InFlight, InsertStages, DeleteStages, Saving, Removing
  <2>3. s \in Failed \union {"hung", "lost"} => AnswerAt(s) \in {"rejected", "never"}
    BY DEF AnswerAt, Failed
  <2>4. s \in Ended => AnswerAt(s) \in {"resolved", "rejected", "never"}
    BY DEF AnswerAt, Failed, Ended
  <2>5. CASE s \in InFlight /\ stored' = stored
    <3>1. Answers' = Answers
      BY <2>1, <2>2, <2>5 DEF Answers
    <3> QED
      BY <2>5, <3>1 DEF Map!vars
  <2>6. CASE s \in Failed \union {"hung", "lost"} /\ stored' = stored
    BY <2>1, <2>3, <2>6 DEF Map!Next, Map!Fail, Map!End, Calls
  <2>7. CASE s \in Ended /\ pc[c] \in Saving /\ stored' = stored \union {c}
    <3>1. c \in Inserts
      BY <1>0, <2>7 DEF TypeOK, Calls, InsertStages
    <3> QED
      BY <2>1, <2>4, <2>7, <3>1 DEF Map!Next, Map!Insert, Map!End
  <2>8. CASE /\ s \in Ended
             /\ \/ pc[c] = "deleteDoc" /\ Delete(c)
                \/ pc[c] = "removeThing" /\ Remove(c)
    <3>1. c \in Deletes
      BY <1>0, <2>8 DEF TypeOK, Calls, DeleteStages, Removing
    <3>2. PICK gone \in SUBSET stored :
            /\ stored' = stored \ gone
            /\ DataOf(ObjectOf[c]) \subseteq gone
            /\ \A i \in gone : Doc(i) = Doc(c)
      BY <2>8, <3>1, Gone
    <3>3. ObjectOf[c] \in Objects /\ \A i \in gone : ObjectOf[i] \in Objects
      BY <1>0, <3>1, <3>2, CallsAssumption DEF TypeOK, Calls
    <3>4. Map!Delete(c)
      BY <2>1, <2>4, <2>8, <3>2, <3>3 DEF Map!Delete, Map!End, DataOf, Doc
    <3> QED
      BY <3>1, <3>4 DEF Map!Next
  <2> QED
    BY <1>2, <2>5, <2>6, <2>7, <2>8 DEF Move
<1> QED
  BY <1>0, <1>1, <1>2, CallMove

(* Calls that do not overlap for one object, of which none deletes a       *)
(* fragment, are those of a map: each takes effect at once and wholly, or  *)
(* not at all.                                                             *)
THEOREM MapImplemented ==
    ASSUME Serial, \A x \in Deletes : ObjectOf[x] \notin Fragmented
    PROVE  Spec => ImplementsMap
<1>1. IInv => SeenOwn
  BY DEF IInv
<1>2. SerialInv /\ SeenOwn /\ [Next]_vars => [Map!Next]_(Map!vars)
  BY MapStep
<1> QED
  BY <1>1, <1>2, MapInit, Invariance, SerialInvariance, PTL DEF Spec, Map!Spec, ImplementsMap
=============================================================================
