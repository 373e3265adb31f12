---------------------------- MODULE ServiceProofs ----------------------------
(***************************************************************************)
(* What is proved of the small parts of SolidService that share no state:  *)
(* PodReads, for any reads, documents and faults, DatasetSubscription, for *)
(* any messages, and all of them beside each other, as they are checked.   *)
(***************************************************************************)
EXTENDS MCService, RecursiveDeleteProofs, AccessControlProofs, SequenceTheorems,
        FiniteSetTheorems, WellFoundedInduction, TLAPS

----------------------------------------------------------------------------
(* PodReads.                                                               *)

(* What the history says of a call that has not ended: it has seen its     *)
(* document as it is now.                                                  *)
NowSeen ==
    \A c \in Reads : readPc[c] \in {"session", "podUrl", "get"} =>
        IF PageOf[c] \in pages THEN c \in seenThere ELSE c \in seenGone

ReadsInv == PodReadsTypeOK /\ NowSeen /\ AnswersAreTrue

----------------------------------------------------------------------------
LEMMA ReadsInitial == PodReadsInit => ReadsInv
BY ReadsAssumption DEF PodReadsInit, ReadsInv, PodReadsTypeOK, NowSeen, AnswersAreTrue

LEMMA StartReadKeeps ==
    ASSUME ReadsInv, NEW c \in Reads, StartRead(c)
    PROVE  ReadsInv'
<1> USE ReadsAssumption DEF ReadsInv, PodReadsTypeOK
<1>1. \E p \in {"session", "podUrl", "get"} : ReadTo(c, p)
    BY DEF StartRead, Locate
<1>2. PodReadsTypeOK'
    BY <1>1 DEF StartRead, ReadTo
<1>3. NowSeen'
    BY <1>1 DEF StartRead, ReadTo, NowSeen
<1>4. AnswersAreTrue'
    BY DEF StartRead, AnswersAreTrue
<1> QED BY <1>2, <1>3, <1>4

(* A request that does not read the document leaves the history alone. *)
LEMMA RequestKeeps ==
    ASSUME ReadsInv, NEW c \in Reads,
           FindReader(c) \/ GetDocumentURL(c) \/ ReadRefused(c) \/ ReadUnanswered(c)
    PROVE  ReadsInv'
<1> USE ReadsAssumption DEF ReadsInv, PodReadsTypeOK
<1>1. /\ readPc[c] \in {"session", "podUrl", "get"}
      /\ \E p \in {"podUrl", "get", "rejected", "hung"} : ReadTo(c, p)
    BY DEF FindReader, GetDocumentURL, ReadRefused, ReadUnanswered, Locate, NeverSettled
<1>2. UNCHANGED <<pages, result, seenThere, seenGone>>
    BY DEF FindReader, GetDocumentURL, ReadRefused, ReadUnanswered
<1>3. /\ readFaults' \in 0..MaxReadFaults
      /\ hasSession' \subseteq Reads /\ lost' \subseteq Reads
    BY DEF FindReader, GetDocumentURL, ReadRefused, ReadUnanswered, ReadFails, NeverSettled
<1>4. PodReadsTypeOK'
    BY <1>1, <1>2, <1>3 DEF ReadTo
<1>5. NowSeen'
    BY <1>1, <1>2 DEF ReadTo, NowSeen
<1>6. AnswersAreTrue'
    BY <1>2 DEF AnswersAreTrue
<1> QED BY <1>4, <1>5, <1>6

(* The answer is that of the document as it is now, which was seen. *)
LEMMA GetDatasetKeeps ==
    ASSUME ReadsInv, NEW c \in Reads, GetDataset(c)
    PROVE  ReadsInv'
<1> USE ReadsAssumption DEF ReadsInv, PodReadsTypeOK
<1> DEFINE found == IF PageOf[c] \in pages THEN "data" ELSE "nothing"
<1>1. /\ readPc[c] = "get"
      /\ \E p \in {"resolved", "rejected"} : ReadTo(c, p)
      /\ result' = result \/ result' = [result EXCEPT ![c] = found]
      /\ UNCHANGED <<pages, hasSession, seenThere, seenGone, lost, readFaults>>
    BY DEF GetDataset, Settle
<1>2. PodReadsTypeOK'
    BY <1>1 DEF ReadTo
<1>3. NowSeen'
    BY <1>1 DEF ReadTo, NowSeen
<1>4. IF PageOf[c] \in pages THEN c \in seenThere ELSE c \in seenGone
    BY <1>1 DEF NowSeen
<1>5. AnswersAreTrue'
    BY <1>1, <1>4 DEF AnswersAreTrue
<1> QED BY <1>2, <1>3, <1>5

LEMMA OthersKeep ==
    ASSUME ReadsInv, NEW p \in Pages, WritePage(p) \/ DeletePage(p)
    PROVE  ReadsInv'
<1> USE ReadsAssumption DEF ReadsInv, PodReadsTypeOK
<1>1. PodReadsTypeOK'
    BY DEF WritePage, DeletePage, Underway
<1>2. NowSeen'
    BY DEF WritePage, DeletePage, Underway, NowSeen
<1>3. AnswersAreTrue'
    BY DEF WritePage, DeletePage, AnswersAreTrue
<1> QED BY <1>1, <1>2, <1>3

----------------------------------------------------------------------------
(* Every step of a read, of another client and of a failing request keeps  *)
(* the invariant.                                                          *)
THEOREM ReadsInvariance == PodReadsSpec => []ReadsInv
<1>1. ReadsInv /\ [PodReadsNext]_readVars => ReadsInv'
    <2> SUFFICES ASSUME ReadsInv, [PodReadsNext]_readVars PROVE ReadsInv'
        OBVIOUS
    <2>1. CASE UNCHANGED readVars
        BY <2>1 DEF readVars, ReadsInv, PodReadsTypeOK, NowSeen, AnswersAreTrue
    <2>2. ASSUME NEW c \in Reads, StartRead(c) PROVE ReadsInv'
        BY <2>2, StartReadKeeps
    <2>3. ASSUME NEW c \in Reads, ReadStep(c) PROVE ReadsInv'
        BY <2>3, RequestKeeps, GetDatasetKeeps DEF ReadStep
    <2>4. ASSUME NEW p \in Pages, WritePage(p) \/ DeletePage(p) PROVE ReadsInv'
        BY <2>4, OthersKeep
    <2> QED BY <2>1, <2>2, <2>3, <2>4 DEF PodReadsNext
<1> QED BY <1>1, ReadsInitial, PTL DEF PodReadsSpec

(* What a read resolves with was so at some time during the call, however  *)
(* many reads and other clients overlap and whatever fails.                *)
THEOREM AnswersAreTrueCorrect == PodReadsSpec => []AnswersAreTrue
<1>1. ReadsInv => AnswersAreTrue
    BY DEF ReadsInv
<1> QED BY <1>1, ReadsInvariance, PTL

----------------------------------------------------------------------------
(* DatasetSubscription.                                                    *)

(* Where each message is: one of an old channel is emitted or ignored at   *)
(* once; one of a new channel is being deserialized, or was emitted.       *)
MessagesPlaced ==
    /\ arrived \in Seq(Notifications) /\ activities \in Seq(Notifications)
    /\ decoding \subseteq ToSet(arrived) \ Malformed
    /\ ToSet(activities) \subseteq ToSet(arrived) \ Malformed
    /\ errors \subseteq ToSet(arrived)
    /\ decoding \intersect (ToSet(activities) \union errors) = {}
    /\ legacy => decoding = {} /\ errors = {}

(* A channel has its type before its socket, and its socket before a       *)
(* message.                                                                *)
ChannelOrder ==
    /\ subscribing \in {"new", "head", "discover", "subscribe"} => socket = "none"
    /\ socket \in {"none", "opening"} => arrived = <<>>

SubscriptionInv == SubscriptionTypeOK /\ MessagesPlaced /\ ChannelOrder /\ EachEmittedOnce

(* What a message adds to those that are there. *)
LEMMA Appended ==
    ASSUME NEW s \in Seq(Notifications), NEW n \in Notifications
    PROVE  /\ Append(s, n) \in Seq(Notifications)
           /\ DOMAIN Append(s, n) = 1..(Len(s) + 1) /\ DOMAIN s = 1..Len(s)
           /\ \A i \in 1..Len(s) : Append(s, n)[i] = s[i]
           /\ Append(s, n)[Len(s) + 1] = n
           /\ ToSet(Append(s, n)) = ToSet(s) \union {n}
           /\ IsInjective(s) /\ n \notin ToSet(s) => IsInjective(Append(s, n))
<1>1. /\ Append(s, n) \in Seq(Notifications)
      /\ DOMAIN Append(s, n) = 1..(Len(s) + 1) /\ DOMAIN s = 1..Len(s)
      /\ \A i \in 1..Len(s) : Append(s, n)[i] = s[i]
      /\ Append(s, n)[Len(s) + 1] = n
    BY AppendProperties
<1>2. ToSet(Append(s, n)) = ToSet(s) \union {n}
    <2>1. Len(s) \in Nat /\ 1..(Len(s) + 1) = 1..Len(s) \union {Len(s) + 1}
        OBVIOUS
    <2> QED BY <1>1, <2>1 DEF ToSet
<1>3. IsInjective(s) /\ n \notin ToSet(s) => IsInjective(Append(s, n))
    <2> SUFFICES ASSUME IsInjective(s), n \notin ToSet(s),
                        NEW i \in 1..(Len(s) + 1), NEW j \in 1..(Len(s) + 1),
                        Append(s, n)[i] = Append(s, n)[j]
                 PROVE  i = j
        BY <1>1 DEF IsInjective
    <2>1. \A k \in 1..(Len(s) + 1) : k \in 1..Len(s) \/ k = Len(s) + 1
        OBVIOUS
    <2>2. \A k \in 1..Len(s) : s[k] # n
        BY <1>1 DEF ToSet
    <2> QED BY <1>1, <2>1, <2>2 DEF IsInjective
<1> QED BY <1>1, <1>2, <1>3

LEMMA SubscriptionInitial == SubscriptionInit => SubscriptionInv
<1> SUFFICES ASSUME SubscriptionInit PROVE SubscriptionInv
    OBVIOUS
<1>0. arrived = <<>> /\ activities = <<>> /\ ~legacy /\ decoding = {} /\ errors = {}
    BY DEF SubscriptionInit
<1>1. ToSet(<<>>) = {} /\ IsInjective(<<>>) /\ <<>> \in Seq(Notifications)
    BY DEF ToSet, IsInjective
<1>2. SubscriptionTypeOK
    BY <1>0, <1>1 DEF SubscriptionInit, SubscriptionTypeOK
<1>3. MessagesPlaced
    BY <1>0, <1>1 DEF MessagesPlaced
<1>4. ChannelOrder
    BY <1>0 DEF SubscriptionInit, ChannelOrder
<1>5. EachEmittedOnce
    BY <1>0, <1>1 DEF EachEmittedOnce, LegacyInOrder
<1> QED BY <1>2, <1>3, <1>4, <1>5 DEF SubscriptionInv

(* Finding, opening, breaking and closing a channel emits nothing. *)
LEMMA ChannelKeeps ==
    ASSUME SubscriptionInv,
           GetSubscription \/ SubscriptionWork \/ RequestFails \/ Close
    PROVE  SubscriptionInv'
<1> USE DEF SubscriptionInv
<1>0. ToSet(<<>>) = {} /\ DOMAIN <<>> = {}
    BY DEF ToSet
<1>1. UNCHANGED channelVars
    BY DEF GetSubscription, SubscriptionWork, FindUpdatesVia, Discover, Subscribe, Open, Break,
           RequestFails, Close
<1>2. SubscriptionTypeOK' /\ ChannelOrder'
    BY <1>1 DEF GetSubscription, SubscriptionWork, FindUpdatesVia, Discover, Subscribe, Open,
           Break, RequestFails, Close, SubscriptionTypeOK, ChannelOrder, channelVars
<1>3. \/ legacy' = legacy
      \/ /\ socket = "none" /\ legacy' = TRUE
    BY DEF GetSubscription, SubscriptionWork, FindUpdatesVia, Discover, Subscribe, Open, Break,
           RequestFails, Close, ChannelOrder
<1>4. CASE legacy' = legacy
    BY <1>1, <1>2, <1>4 DEF channelVars, MessagesPlaced, EachEmittedOnce, LegacyInOrder
<1>5. CASE socket = "none"
    <2>1. arrived = <<>> /\ ToSet(activities) = {} /\ decoding = {} /\ errors = {}
        BY <1>0, <1>5 DEF ChannelOrder, MessagesPlaced
    <2>2. DOMAIN activities = {}
        BY <2>1 DEF ToSet
    <2> QED BY <1>0, <1>1, <1>2, <2>1, <2>2
            DEF channelVars, MessagesPlaced, EachEmittedOnce, LegacyInOrder
<1> QED BY <1>3, <1>4, <1>5

LEMMA LegacyMessageKeeps ==
    ASSUME SubscriptionInv, NEW n \in Notifications, LegacyMessage(n)
    PROVE  SubscriptionInv'
<1> USE NotificationsAssumption DEF SubscriptionInv
<1>0. /\ legacy /\ socket = "open" /\ n \notin ToSet(arrived)
      /\ arrived' = Append(arrived, n)
      /\ activities' = IF n \in Malformed THEN activities ELSE Append(activities, n)
      /\ UNCHANGED <<subscribing, legacy, socket, subscribedTo, unhandled, decoding, errors>>
    BY DEF LegacyMessage, Arrive
<1>1. /\ arrived \in Seq(Notifications) /\ activities \in Seq(Notifications)
      /\ decoding = {} /\ errors = {}
    BY <1>0 DEF MessagesPlaced
<1>2. /\ ToSet(activities) = ToSet(arrived) \ Malformed
      /\ IsInjective(activities)
    BY <1>0 DEF EachEmittedOnce, LegacyInOrder
<1>3. /\ ToSet(arrived') = ToSet(arrived) \union {n}
      /\ ToSet(activities') = ToSet(arrived') \ Malformed
      /\ IsInjective(activities')
      /\ arrived' \in Seq(Notifications) /\ activities' \in Seq(Notifications)
    BY <1>0, <1>1, <1>2, Appended
<1>4. SubscriptionTypeOK' /\ ChannelOrder' /\ MessagesPlaced'
    BY <1>0, <1>1, <1>3 DEF SubscriptionTypeOK, ChannelOrder, MessagesPlaced
<1>5. ASSUME NEW i \in DOMAIN activities', NEW j \in DOMAIN activities', i < j
      PROVE  \E k, l \in DOMAIN arrived' :
                 k < l /\ arrived'[k] = activities'[i] /\ arrived'[l] = activities'[j]
    <2>1. /\ DOMAIN arrived = 1..Len(arrived) /\ DOMAIN activities = 1..Len(activities)
          /\ Len(arrived) \in Nat /\ Len(activities) \in Nat
          /\ DOMAIN arrived' = 1..(Len(arrived) + 1)
          /\ \A k \in DOMAIN arrived : arrived'[k] = arrived[k]
          /\ arrived'[Len(arrived) + 1] = n
        BY <1>0, <1>1, Appended
    <2>2. CASE i \in DOMAIN activities /\ j \in DOMAIN activities
        <3>1. activities'[i] = activities[i] /\ activities'[j] = activities[j]
            BY <1>0, <1>1, <2>1, <2>2, Appended
        <3>2. PICK k \in DOMAIN arrived, l \in DOMAIN arrived :
                  k < l /\ arrived[k] = activities[i] /\ arrived[l] = activities[j]
            BY <1>0, <1>5, <2>2 DEF EachEmittedOnce, LegacyInOrder
        <3> QED BY <2>1, <3>1, <3>2
    <2>3. CASE ~(i \in DOMAIN activities /\ j \in DOMAIN activities)
        <3>1. activities' = Append(activities, n)
            BY <1>0, <1>5, <2>3
        <3>2. DOMAIN activities' = 1..(Len(activities) + 1)
            BY <1>1, <3>1, Appended
        <3>3. i \in DOMAIN activities /\ j = Len(activities) + 1
            BY <1>5, <2>1, <2>3, <3>2
        <3>4. activities'[i] = activities[i] /\ activities'[j] = n
            BY <1>1, <2>1, <3>1, <3>3, Appended
        <3>5. PICK k \in DOMAIN arrived : arrived[k] = activities[i]
            BY <1>2, <3>3 DEF ToSet
        <3> QED BY <2>1, <3>4, <3>5
    <2> QED BY <2>2, <2>3
<1>6. EachEmittedOnce'
    BY <1>0, <1>1, <1>3, <1>5 DEF EachEmittedOnce, LegacyInOrder
<1> QED BY <1>4, <1>6

LEMMA MessageKeeps ==
    ASSUME SubscriptionInv, NEW n \in Notifications, Message(n)
    PROVE  SubscriptionInv'
<1> USE NotificationsAssumption DEF SubscriptionInv
<1>0. /\ ~legacy /\ socket = "open" /\ n \notin ToSet(arrived)
      /\ arrived' = Append(arrived, n)
      /\ UNCHANGED <<subscribing, legacy, socket, subscribedTo, unhandled, activities>>
    BY DEF Message, Arrive
<1>1. \/ n \in Malformed /\ errors' = errors \union {n} /\ UNCHANGED decoding
      \/ n \notin Malformed /\ decoding' = decoding \union {n} /\ UNCHANGED errors
    BY DEF Message
<1>2. ToSet(arrived') = ToSet(arrived) \union {n} /\ arrived' \in Seq(Notifications)
    BY <1>0, Appended DEF MessagesPlaced
<1>3. SubscriptionTypeOK' /\ ChannelOrder'
    BY <1>0, <1>1, <1>2 DEF SubscriptionTypeOK, ChannelOrder
<1>4. MessagesPlaced'
    BY <1>0, <1>1, <1>2 DEF MessagesPlaced
<1>5. EachEmittedOnce'
    BY <1>0, <1>1, <1>2 DEF EachEmittedOnce, LegacyInOrder, MessagesPlaced
<1> QED BY <1>3, <1>4, <1>5

LEMMA DeserializedKeeps ==
    ASSUME SubscriptionInv, NEW n \in Notifications, Deserialized(n)
    PROVE  SubscriptionInv'
<1> USE NotificationsAssumption DEF SubscriptionInv
<1>0. /\ n \in decoding /\ ~legacy
      /\ decoding' = decoding \ {n}
      /\ activities' = IF n \in NoActivity THEN activities ELSE Append(activities, n)
      /\ errors' = IF n \in NoActivity \union Objected THEN errors \union {n} ELSE errors
      /\ UNCHANGED <<subscribing, legacy, socket, subscribedTo, arrived, unhandled>>
    BY DEF Deserialized, MessagesPlaced
<1>1. n \in ToSet(arrived) /\ n \notin Malformed /\ n \notin ToSet(activities) /\ n \notin errors
    BY <1>0 DEF MessagesPlaced
<1>2. /\ activities' \in Seq(Notifications) /\ IsInjective(activities')
      /\ ToSet(activities') = ToSet(activities) \union (IF n \in NoActivity THEN {} ELSE {n})
    <2>1. IsInjective(activities) /\ activities \in Seq(Notifications)
        BY DEF EachEmittedOnce, MessagesPlaced
    <2> QED BY <1>0, <1>1, <2>1, Appended
<1>3. SubscriptionTypeOK' /\ ChannelOrder'
    BY <1>0, <1>2 DEF SubscriptionTypeOK, ChannelOrder
<1>4. MessagesPlaced'
    BY <1>0, <1>1, <1>2 DEF MessagesPlaced
<1>5. EachEmittedOnce'
    BY <1>0, <1>1, <1>2 DEF EachEmittedOnce, LegacyInOrder
<1> QED BY <1>3, <1>4, <1>5

(* Every request, message and deserialization keeps the invariant. *)
THEOREM SubscriptionInvariance == SubscriptionSpec => []SubscriptionInv
<1>1. SubscriptionInv /\ [SubscriptionNext]_subscriptionVars => SubscriptionInv'
    <2> SUFFICES ASSUME SubscriptionInv, [SubscriptionNext]_subscriptionVars
                 PROVE  SubscriptionInv'
        OBVIOUS
    <2>1. CASE UNCHANGED subscriptionVars
        BY <2>1 DEF subscriptionVars, SubscriptionInv, SubscriptionTypeOK, MessagesPlaced,
                    ChannelOrder, EachEmittedOnce, LegacyInOrder
    <2> QED BY <2>1, ChannelKeeps, LegacyMessageKeeps, MessageKeeps, DeserializedKeeps
            DEF SubscriptionNext
<1> QED BY <1>1, SubscriptionInitial, PTL DEF SubscriptionSpec

(* No message of a subscription is lost or emitted twice, whatever the     *)
(* order in which they are deserialized and wherever it breaks or closes.  *)
THEOREM EachEmittedOnceCorrect == SubscriptionSpec => []EachEmittedOnce
<1>1. SubscriptionInv => EachEmittedOnce
    BY DEF SubscriptionInv
<1> QED BY <1>1, SubscriptionInvariance, PTL
----------------------------------------------------------------------------
(* TreeNode.  What sort promises can be kept, in any order the relations   *)
(* come: what was sorted stays sorted with a new relation put in its place.*)

NumbersKept == \A i \in DOMAIN treeRelations : treeRelations[i].node = i
CanBeSorted == \A v \in Value : Sorted(Passing(v)) # {}

TreeInv == TreeNodeTypeOK /\ NumbersKept /\ CanBeSorted

(* The comparison of sort is one of ranks, in which values may be equal. *)
LEMMA BeforeRanks ==
    ASSUME NEW u \in Value, NEW v \in Value, NEW w \in Value
    PROVE  /\ ~Before(u, u)
           /\ Before(u, v) => ~Before(v, u)
           /\ Before(u, v) /\ ~Before(w, v) => Before(u, w)
           /\ ~Before(v, u) /\ Before(v, w) => Before(u, w)
<1>1. /\ u.type \in {"number", "Date"} /\ v.type \in {"number", "Date"}
      /\ w.type \in {"number", "Date"}
      /\ u.n \in Nat /\ v.n \in Nat /\ w.n \in Nat
    BY NumbersAssumption DEF Value
<1> QED BY <1>1 DEF Before

LEMMA RelationTyped ==
    ASSUME TreeNodeTypeOK, NEW i \in DOMAIN treeRelations
    PROVE  /\ i \in Nat /\ treeRelations[i] \in Relation
           /\ treeRelations[i].value \in Value
           /\ treeRelations[i].value.type \in {"number", "Date"}
           /\ treeRelations[i].value.n \in Nat
<1>1. i \in Nat /\ treeRelations[i] \in Relation
    BY DEF TreeNodeTypeOK
<1>2. treeRelations[i].value \in Value
    BY <1>1 DEF Relation
<1> QED BY <1>1, <1>2, NumbersAssumption DEF Value

(* Two relations are never at one place of the order. *)
LEMMA PrecedesOneWay ==
    ASSUME TreeNodeTypeOK, NEW i \in DOMAIN treeRelations, NEW j \in DOMAIN treeRelations
    PROVE  /\ ~Precedes(i, i)
           /\ ~(Precedes(i, j) /\ Precedes(j, i))
<1>1. /\ treeRelations[i].value \in Value /\ treeRelations[j].value \in Value
      /\ i \in Nat /\ j \in Nat
    BY RelationTyped
<1> QED BY <1>1, BeforeRanks DEF Precedes

LEMMA PassingFinite ==
    ASSUME TreeNodeTypeOK, NEW v
    PROVE  /\ Passing(v) \subseteq 1..Len(treeRelations)
           /\ IsFiniteSet(Passing(v)) /\ Cardinality(Passing(v)) \in Nat
           /\ Passing(v) # {} => Cardinality(Passing(v)) # 0
<1>1. Len(treeRelations) \in Nat /\ Passing(v) \subseteq 1..Len(treeRelations)
    BY DEF TreeNodeTypeOK, Passing
<1>2. IsFiniteSet(Passing(v))
    <2>1. IsFiniteSet(1..Len(treeRelations))
        BY <1>1, FS_Interval
    <2> QED BY <1>1, <2>1, FS_Subset
<1> QED BY <1>1, <1>2, FS_CardinalityType, FS_EmptySet

(* The position that all others precede. *)
LastOf(i, v) == i \in Passing(v) /\ \A j \in Passing(v) \ {i} : Precedes(j, i)

(* The child is that of the one position that all others precede. *)
LastChosen ==
    \A v \in Value :
        /\ Passing(v) = {} => GetChildNode(v) = <<>>
        /\ Passing(v) # {} =>
             \E i \in Passing(v) : LastOf(i, v) /\ GetChildNode(v) = <<treeRelations[i]>>

LEMMA ChildIsLast == TreeInv => LastChosen
<1> SUFFICES ASSUME TreeInv, NEW v \in Value
             PROVE  /\ Passing(v) = {} => GetChildNode(v) = <<>>
                    /\ Passing(v) # {} => \E i \in Passing(v) :
                          LastOf(i, v) /\ GetChildNode(v) = <<treeRelations[i]>>
    BY DEF LastChosen
<1>1. Passing(v) = {} => GetChildNode(v) = <<>>
    BY DEF GetChildNode
<1>2. ASSUME Passing(v) # {}
      PROVE  \E i \in Passing(v) : LastOf(i, v) /\ GetChildNode(v) = <<treeRelations[i]>>
    <2> DEFINE order == CHOOSE o \in Sorted(Passing(v)) : TRUE
               n == Cardinality(Passing(v))
    <2>1. order \in Sorted(Passing(v))
        BY DEF TreeInv, CanBeSorted
    <2>2. n \in Nat /\ n # 0
        BY <1>2, PassingFinite DEF TreeInv
    <2> HIDE DEF order, n
    <2>3. order \in [1..n -> Passing(v)]
        BY <2>1 DEF Sorted, n
    <2>4. n \in DOMAIN order /\ order[n] \in Passing(v)
        BY <2>2, <2>3
    <2>5. ASSUME NEW j \in Passing(v) \ {order[n]} PROVE Precedes(j, order[n])
        <3>1. PICK k \in DOMAIN order : order[k] = j
            BY <2>1 DEF Sorted
        <3>2. k < n
            BY <2>2, <2>3, <3>1
        <3> QED BY <2>1, <2>4, <3>1, <3>2 DEF Sorted
    <2>6. GetChildNode(v) = <<treeRelations[order[n]]>>
        BY <1>2 DEF GetChildNode, order, n
    <2> QED BY <2>4, <2>5, <2>6 DEF LastOf
<1> QED BY <1>1, <1>2

LEMMA LastIsOne ==
    ASSUME TreeInv, NEW v \in Value, NEW i, NEW j, LastOf(i, v), LastOf(j, v)
    PROVE  i = j
<1>1. i \in DOMAIN treeRelations /\ j \in DOMAIN treeRelations
    BY DEF LastOf, Passing
<1>2. i # j => Precedes(i, j) /\ Precedes(j, i)
    BY DEF LastOf
<1> QED BY <1>1, <1>2, PrecedesOneWay DEF TreeInv

----------------------------------------------------------------------------
(* What a new relation leaves as it was. *)
LEMMA RelationAdded ==
    ASSUME TreeInv, AddRelation, NEW x, x = Len(treeRelations) + 1
    PROVE  /\ treeRelations' \in Seq(Relation) /\ Len(treeRelations') = x
           /\ x \in Nat \ {0} /\ x <= MaxRelations
           /\ DOMAIN treeRelations = 1..(x - 1) /\ DOMAIN treeRelations' = 1..x
           /\ \A i \in 1..(x - 1) : treeRelations'[i] = treeRelations[i]
           /\ treeRelations'[x].node = x
<1>1. PICK r \in Relation : treeRelations' = Append(treeRelations, r) /\ r.node = x
    BY NumbersAssumption DEF AddRelation, Relation, TreeInv, TreeNodeTypeOK
<1> QED BY <1>1, NumbersAssumption DEF AddRelation, TreeInv, TreeNodeTypeOK

LEMMA PositionsStay ==
    ASSUME TreeInv, AddRelation, NEW v, NEW x, x = Len(treeRelations) + 1
    PROVE  /\ Passing(v)' = Passing(v) \union (IF x \in Passing(v)' THEN {x} ELSE {})
           /\ x \notin Passing(v)
           /\ x \in Passing(v)' => Truthy(treeRelations'[x].value) /\ Test(treeRelations'[x], v)
           /\ \A i, j \in 1..(x - 1) : Precedes(i, j)' = Precedes(i, j)
<1>1. /\ x \in Nat /\ DOMAIN treeRelations = 1..(x - 1) /\ DOMAIN treeRelations' = 1..x
      /\ \A i \in 1..(x - 1) : treeRelations'[i] = treeRelations[i]
    BY RelationAdded
<1>2. 1..x = 1..(x - 1) \union {x} /\ x \notin 1..(x - 1)
    <2>1. x >= 1
        BY DEF TreeInv, TreeNodeTypeOK
    <2> QED BY <1>1, <2>1
<1>3. \A i, j \in 1..(x - 1) : Precedes(i, j)' = Precedes(i, j)
    BY <1>1 DEF Precedes
<1>4. \A i \in 1..(x - 1) :
          (Truthy(treeRelations[i].value) /\ Test(treeRelations[i], v))'
              = (Truthy(treeRelations[i].value) /\ Test(treeRelations[i], v))
    BY <1>1
<1>5. /\ Passing(v)' = {i \in DOMAIN treeRelations' :
                           Truthy(treeRelations'[i].value) /\ Test(treeRelations'[i], v)}
      /\ Passing(v) = {i \in DOMAIN treeRelations :
                           Truthy(treeRelations[i].value) /\ Test(treeRelations[i], v)}
    BY DEF Passing
<1> QED BY <1>1, <1>2, <1>3, <1>4, <1>5

(* There is a place where the new relation leaves what is sorted sorted. *)
LEMMA PlaceInOrder ==
    ASSUME TreeNodeTypeOK, NEW v, NEW order \in Sorted(Passing(v)), NEW w \in Value
    PROVE  \E k \in 1..(Cardinality(Passing(v)) + 1) : \A j \in DOMAIN order :
               k <= j <=> Before(w, treeRelations[order[j]].value)
<1> DEFINE m == Cardinality(Passing(v))
           Val(j) == treeRelations[order[j]].value
           after == {j \in 1..m : Before(w, Val(j))}
<1>1. m \in Nat
    BY PassingFinite
<1>2. DOMAIN order = 1..m /\ \A j \in 1..m : order[j] \in Passing(v)
    BY DEF Sorted
<1>3. \A j \in 1..m : Val(j) \in Value
    BY <1>2, RelationTyped DEF Passing
<1>4. ASSUME NEW i \in 1..m, NEW j \in 1..m, i < j, Before(w, Val(i)) PROVE Before(w, Val(j))
    <2>1. Precedes(order[i], order[j])
        BY <1>2, <1>4 DEF Sorted
    <2>2. ~Before(Val(j), Val(i))
        BY <1>3, <2>1, BeforeRanks DEF Precedes
    <2> QED BY <1>3, <1>4, <2>2, BeforeRanks
<1> HIDE DEF Val
<1>5. CASE after = {}
    <2>1. \A j \in 1..m : ~(m + 1 <= j) /\ ~Before(w, Val(j))
        BY <1>1, <1>5
    <2> QED BY <1>1, <1>2, <2>1 DEF Val
<1>6. CASE after # {}
    <2>1. PICK k \in after : \A j \in after : ~(j < k)
        <3>1. after \subseteq Nat
            BY <1>1
        <3>2. PICK k \in after : \A j \in after : <<j, k>> \notin OpToRel(<, Nat)
            BY <1>6, <3>1, WFMin, NatLessThanWellFounded
        <3> QED BY <3>1, <3>2 DEF OpToRel
    <2>2. \A j \in 1..m : k <= j <=> Before(w, Val(j))
        BY <1>1, <1>4, <2>1
    <2> QED BY <1>1, <1>2, <2>1, <2>2 DEF Val
<1> QED BY <1>5, <1>6

LEMMA RelationKeepsSort ==
    ASSUME TreeInv, AddRelation, NEW v \in Value
    PROVE  (Sorted(Passing(v)) # {})'
<1>0. PICK x, S, m : x = Len(treeRelations) + 1 /\ S = Passing(v) /\ m = Cardinality(S)
    OBVIOUS
<1>1. /\ x \in Nat \ {0} /\ DOMAIN treeRelations' = 1..x /\ DOMAIN treeRelations = 1..(x - 1)
      /\ \A i \in 1..(x - 1) : treeRelations'[i] = treeRelations[i]
      /\ treeRelations' \in Seq(Relation)
    BY <1>0, RelationAdded
<1>2. /\ Passing(v)' = S \union (IF x \in Passing(v)' THEN {x} ELSE {})
      /\ x \notin S
      /\ \A i, j \in 1..(x - 1) : Precedes(i, j)' = Precedes(i, j)
    BY <1>0, PositionsStay
<1>3. IsFiniteSet(S) /\ m \in Nat /\ S \subseteq 1..(x - 1)
    BY <1>0, <1>1, PassingFinite DEF TreeInv
<1>4. PICK order : order \in Sorted(S)
    BY <1>0 DEF TreeInv, CanBeSorted
<1>5. /\ order \in [1..m -> S]
      /\ \A j, k \in 1..m : j < k => Precedes(order[j], order[k])
      /\ \A i \in S : \E j \in 1..m : order[j] = i
    BY <1>0, <1>4 DEF Sorted
<1>6. \A j, k \in 1..m : j < k => Precedes(order[j], order[k])'
    <2> SUFFICES ASSUME NEW j \in 1..m, NEW k \in 1..m, j < k
                 PROVE  Precedes(order[j], order[k])'
        OBVIOUS
    <2>1. order[j] \in 1..(x - 1) /\ order[k] \in 1..(x - 1)
        BY <1>3, <1>5
    <2> QED BY <1>2, <1>5, <2>1
<1>7. CASE x \notin Passing(v)'
    <2>1. Passing(v)' = S
        BY <1>2, <1>7
    <2>2. order \in Sorted(Passing(v))'
        BY <1>0, <1>5, <1>6, <2>1 DEF Sorted
    <2> QED BY <2>2
<1>8. CASE x \in Passing(v)'
    <2> DEFINE w == treeRelations'[x].value
               Longer(k) == [j \in 1..(m + 1) |->
                               IF j < k THEN order[j] ELSE IF j = k THEN x ELSE order[j - 1]]
    <2>1. Passing(v)' = S \union {x} /\ Cardinality(S \union {x}) = m + 1
        BY <1>0, <1>2, <1>3, <1>8, FS_AddElement
    <2>2. w \in Value
        <3>1. x \in DOMAIN treeRelations'
            BY <1>1
        <3>2. treeRelations'[x] \in Relation
            BY <1>1, <3>1
        <3> QED BY <3>2 DEF Relation
    <2> HIDE DEF w
    <2>3. PICK k \in 1..(m + 1) : \A j \in 1..m :
              k <= j <=> Before(w, treeRelations[order[j]].value)
        BY <1>0, <1>4, <1>5, <2>2, PlaceInOrder DEF TreeInv
    <2>4. \A j \in 1..m : /\ j < k => Precedes(order[j], x)'
                          /\ k <= j => Precedes(x, order[j])'
        <3>1. \A j \in 1..m : order[j] \in 1..(x - 1) /\ order[j] < x
            BY <1>1, <1>3, <1>5
        <3>2. \A j \in 1..m : treeRelations'[order[j]].value = treeRelations[order[j]].value
            BY <1>1, <3>1
        <3> QED BY <1>3, <2>3, <3>1, <3>2 DEF Precedes, w
    <2> DEFINE longer == Longer(k)
    <2>5. longer \in [1..(m + 1) -> S \union {x}]
        BY <1>3, <1>5
    <2>6. \A i, j \in 1..(m + 1) : i < j => Precedes(longer[i], longer[j])'
        <3> SUFFICES ASSUME NEW i \in 1..(m + 1), NEW j \in 1..(m + 1), i < j
                     PROVE  Precedes(longer[i], longer[j])'
            OBVIOUS
        <3>0. m \in Nat
            BY <1>3
        <3>1. CASE j < k
            <4>1. longer[i] = order[i] /\ longer[j] = order[j] /\ i \in 1..m /\ j \in 1..m
                BY <3>0, <3>1
            <4> QED BY <1>6, <4>1
        <3>2. CASE j = k
            <4>1. longer[i] = order[i] /\ longer[j] = x /\ i \in 1..m /\ i < k
                BY <3>0, <3>2
            <4> QED BY <2>4, <4>1
        <3>3. CASE j > k /\ i < k
            <4>1. /\ longer[i] = order[i] /\ longer[j] = order[j - 1]
                  /\ i \in 1..m /\ j - 1 \in 1..m /\ i < j - 1
                BY <3>0, <3>3
            <4> QED BY <1>6, <4>1
        <3>4. CASE j > k /\ i = k
            <4>1. longer[i] = x /\ longer[j] = order[j - 1] /\ j - 1 \in 1..m /\ k <= j - 1
                BY <3>0, <3>4
            <4> QED BY <2>4, <4>1
        <3>5. CASE j > k /\ i > k
            <4>1. /\ longer[i] = order[i - 1] /\ longer[j] = order[j - 1]
                  /\ i - 1 \in 1..m /\ j - 1 \in 1..m /\ i - 1 < j - 1
                BY <3>0, <3>5
            <4> QED BY <1>6, <4>1
        <3> QED BY <3>0, <3>1, <3>2, <3>3, <3>4, <3>5
    <2>7. \A i \in S \union {x} : \E j \in 1..(m + 1) : longer[j] = i
        <3> SUFFICES ASSUME NEW i \in S \union {x} PROVE \E j \in 1..(m + 1) : longer[j] = i
            OBVIOUS
        <3>1. CASE i = x
            BY <3>1
        <3>2. CASE i \in S
            <4>1. PICK j \in 1..m : order[j] = i
                BY <1>5, <3>2
            <4>2. j < k => j \in 1..(m + 1) /\ longer[j] = i
                BY <1>3, <4>1
            <4>3. ~(j < k) => j + 1 \in 1..(m + 1) /\ longer[j + 1] = i
                BY <1>3, <4>1
            <4> QED BY <4>2, <4>3
        <3> QED BY <3>1, <3>2
    <2>8. Cardinality(Passing(v)') = m + 1
        BY <2>1
    <2> HIDE DEF longer
    <2>9. longer \in Sorted(Passing(v))'
        BY <2>1, <2>5, <2>6, <2>7, <2>8 DEF Sorted
    <2> QED BY <2>9
<1> QED BY <1>7, <1>8

(* The relations of a node are numbered as they are added, and can be      *)
(* sorted for every lookup.                                                *)
THEOREM TreeInvariance == TreeNodeSpec => []TreeInv
<1>1. TreeNodeInit => TreeInv
    <2> SUFFICES ASSUME TreeNodeInit PROVE TreeInv
        OBVIOUS
    <2>1. treeRelations = <<>> /\ DOMAIN treeRelations = {}
        BY DEF TreeNodeInit
    <2>2. TreeNodeTypeOK /\ NumbersKept
        BY <2>1, NumbersAssumption DEF TreeNodeTypeOK, NumbersKept
    <2>3. \A v \in Value : <<>> \in Sorted(Passing(v))
        <3>1. \A v \in Value : Passing(v) = {} /\ Cardinality({}) = 0
            BY <2>1, FS_EmptySet DEF Passing
        <3>2. <<>> \in Sorted({})
            BY <3>1, FS_EmptySet DEF Sorted
        <3> QED BY <3>1, <3>2
    <2> QED BY <2>2, <2>3 DEF TreeInv, CanBeSorted
<1>2. TreeInv /\ [TreeNodeNext]_treeRelations => TreeInv'
    <2>1. ASSUME TreeInv, UNCHANGED treeRelations PROVE TreeInv'
        BY <2>1 DEF TreeInv, TreeNodeTypeOK, NumbersKept, CanBeSorted, Sorted, Passing, Precedes
    <2>2. ASSUME TreeInv, AddRelation PROVE TreeInv'
        <3> DEFINE x == Len(treeRelations) + 1
        <3>1. /\ treeRelations' \in Seq(Relation) /\ Len(treeRelations') = x
              /\ x \in Nat /\ x <= MaxRelations
              /\ DOMAIN treeRelations = 1..(x - 1) /\ DOMAIN treeRelations' = 1..x
              /\ \A i \in 1..(x - 1) : treeRelations'[i] = treeRelations[i]
              /\ treeRelations'[x].node = x
            BY <2>2, RelationAdded
        <3> HIDE DEF x
        <3>2. NumbersKept'
            BY <2>2, <3>1 DEF TreeInv, NumbersKept
        <3>3. CanBeSorted'
            BY <2>2, RelationKeepsSort DEF CanBeSorted
        <3> QED BY <3>1, <3>2, <3>3 DEF TreeInv, TreeNodeTypeOK
    <2> QED BY <2>1, <2>2 DEF TreeNodeNext
<1> QED BY <1>1, <1>2, PTL DEF TreeNodeSpec

(* While all relations have values of one type, the child is the one with  *)
(* the greatest value that the lookup passes, the later of two with one    *)
(* value, for any relations in any order.                                  *)
THEOREM GreatestChosenCorrect == TreeNodeSpec => []GreatestChosen
<1>1. ASSUME TreeInv, NEW type \in {"number", "Date"}, OfOneType(type), NEW v \in Value
      PROVE  LET passing == {r \in ToSet(treeRelations) : Truthy(r.value) /\ Test(r, v)}
                 greatest == {r \in passing : \A q \in passing : q.value.n <= r.value.n}
             IN  GetChildNode(v) = IF passing = {} THEN <<>>
                                   ELSE <<CHOOSE r \in greatest :
                                             \A q \in greatest : q.node <= r.node>>
    <2> DEFINE passing == {r \in ToSet(treeRelations) : Truthy(r.value) /\ Test(r, v)}
               greatest == {r \in passing : \A q \in passing : q.value.n <= r.value.n}
               Latest(r) == \A q \in greatest : q.node <= r.node
    <2>1. passing = {treeRelations[i] : i \in Passing(v)}
        BY DEF ToSet, Passing
    <2>2. \A i \in DOMAIN treeRelations :
              /\ i \in Nat /\ treeRelations[i].node = i
              /\ treeRelations[i].value.type = type /\ treeRelations[i].value.n \in Nat
        BY <1>1, RelationTyped DEF TreeInv, NumbersKept, OfOneType, ToSet
    <2>3. CASE Passing(v) = {}
        BY <1>1, <2>1, <2>3, ChildIsLast DEF LastChosen
    <2>4. CASE Passing(v) # {}
        <3>1. PICK i \in Passing(v) : LastOf(i, v) /\ GetChildNode(v) = <<treeRelations[i]>>
            BY <1>1, <2>4, ChildIsLast DEF LastChosen
        <3>2. Passing(v) \subseteq DOMAIN treeRelations
            BY DEF Passing
        <3>3. \A j \in Passing(v) :
                  /\ treeRelations[j].value.n <= treeRelations[i].value.n
                  /\ treeRelations[j].value.n = treeRelations[i].value.n => j <= i
            <4> TAKE j \in Passing(v)
            <4>1. j # i => Precedes(j, i)
                BY <3>1 DEF LastOf
            <4> QED BY <2>2, <3>2, <4>1 DEF Precedes, Before
        <3> DEFINE last == treeRelations[i]
        <3>4. last \in greatest
            BY <2>1, <3>3
        <3>5. \A q \in greatest : \E j \in Passing(v) : q = treeRelations[j] /\ j <= i
            <4> TAKE q \in greatest
            <4>1. PICK j \in Passing(v) : q = treeRelations[j]
                BY <2>1
            <4>2. last.value.n <= q.value.n
                BY <3>4
            <4> QED BY <2>2, <3>2, <3>3, <4>1, <4>2
        <3>6. Latest(last)
            BY <2>2, <3>2, <3>5
        <3>7. \A r \in greatest : Latest(r) => r = last
            <4> SUFFICES ASSUME NEW r \in greatest, Latest(r) PROVE r = last
                OBVIOUS
            <4>1. PICK j \in Passing(v) : r = treeRelations[j] /\ j <= i
                BY <3>5
            <4>2. last.node <= r.node
                BY <3>4
            <4> QED BY <2>2, <3>2, <4>1, <4>2
        <3> HIDE DEF greatest, passing, last
        <3>8. (CHOOSE r \in greatest : \A q \in greatest : q.node <= r.node) = last
            BY <3>4, <3>6, <3>7
        <3>9. passing # {}
            BY <2>1, <2>4
        <3> QED BY <3>1, <3>8, <3>9 DEF greatest, passing, last
    <2> QED BY <2>3, <2>4
<1>2. TreeInv => GreatestChosen
    BY <1>1 DEF GreatestChosen
<1> QED BY <1>2, TreeInvariance, PTL

(* A relation that is added takes lookups to its own node and moves no     *)
(* other, with values of any types.                                        *)
THEOREM LookupsStayCorrect == TreeNodeSpec => LookupsStay
<1> DEFINE Moves(v) ==
        GetChildNode(v)' # GetChildNode(v) =>
            /\ GetChildNode(v)' = <<Last(treeRelations')>>
            /\ Test(Last(treeRelations'), v)
<1>1. ASSUME TreeInv, LastChosen, LastChosen', AddRelation, NEW v \in Value PROVE Moves(v)
    <2> DEFINE x == Len(treeRelations) + 1
    <2>1. /\ x \in Nat /\ Len(treeRelations') = x
          /\ DOMAIN treeRelations = 1..(x - 1)
          /\ \A i \in 1..(x - 1) : treeRelations'[i] = treeRelations[i]
        BY <1>1, RelationAdded
    <2>2. Last(treeRelations') = treeRelations'[x]
        BY <2>1 DEF Last
    <2>3. /\ Passing(v)' = Passing(v) \union (IF x \in Passing(v)' THEN {x} ELSE {})
          /\ x \notin Passing(v)
          /\ x \in Passing(v)' => Truthy(treeRelations'[x].value) /\ Test(treeRelations'[x], v)
          /\ \A i, j \in 1..(x - 1) : Precedes(i, j)' = Precedes(i, j)
        BY <1>1, PositionsStay
    <2> HIDE DEF x
    <2>4. Passing(v) \subseteq 1..(x - 1)
        BY <2>1 DEF Passing
    <2>5. CASE Passing(v)' = {}
        <3>1. GetChildNode(v)' = <<>>
            BY <1>1, <2>5 DEF LastChosen
        <3>2. GetChildNode(v) = <<>>
            BY <1>1, <2>3, <2>5 DEF LastChosen
        <3> QED BY <3>1, <3>2
    <2>6. CASE Passing(v)' # {}
        <3>1. PICK i \in Passing(v)' :
                  LastOf(i, v)' /\ GetChildNode(v)' = <<treeRelations'[i]>>
            BY <1>1, <2>6 DEF LastChosen
        <3>2. CASE i = x
            BY <2>2, <2>3, <3>1, <3>2
        <3>3. CASE i # x
            <4>1. i \in Passing(v)
                BY <2>3, <3>1, <3>3
            <4>2. LastOf(i, v)
                BY <2>3, <2>4, <3>1, <4>1 DEF LastOf
            <4>3. PICK j \in Passing(v) :
                      LastOf(j, v) /\ GetChildNode(v) = <<treeRelations[j]>>
                BY <1>1, <4>1 DEF LastChosen
            <4>4. j = i
                BY <1>1, <4>2, <4>3, LastIsOne
            <4> QED BY <2>1, <2>4, <3>1, <4>1, <4>3, <4>4
        <3> QED BY <3>2, <3>3
    <2> QED BY <2>5, <2>6
<1>2. TreeInv /\ LastChosen /\ LastChosen' /\ [TreeNodeNext]_treeRelations =>
          [\A v \in Value :
             LET new == Last(treeRelations')
             IN  GetChildNode(v)' # GetChildNode(v) =>
                     GetChildNode(v)' = <<new>> /\ Test(new, v)]_treeRelations
    BY <1>1 DEF TreeNodeNext
<1> QED BY <1>2, ChildIsLast, TreeInvariance, PTL DEF TreeNodeSpec, LookupsStay
----------------------------------------------------------------------------
(* All parts, beside each other.                                           *)

(* A behaviour of the composition is one of every part: whatever is proved *)
(* of a part holds of the composition that the run checks.                 *)
THEOREM PartsImplemented ==
    MCServiceSpec => SubscriptionSpec /\ DeleteSpec /\ AccessSpec /\ TreeNodeSpec /\ PodReadsSpec
<1>1. MCServiceInit =>
          SubscriptionInit /\ DeleteInit /\ AccessInit /\ TreeNodeInit /\ PodReadsInit
    BY DEF MCServiceInit
<1>2. [MCServiceNext]_serviceVars =>
          /\ [SubscriptionNext]_subscriptionVars /\ [DeleteNext]_deleteVars
          /\ [AccessNext]_accessVars /\ [TreeNodeNext]_treeRelations
          /\ [PodReadsNext]_readVars
    BY DEF MCServiceNext, serviceVars
<1> QED BY <1>1, <1>2, PTL
        DEF MCServiceSpec, SubscriptionSpec, DeleteSpec, AccessSpec, TreeNodeSpec, PodReadsSpec

(* Every variable of every part keeps its type. *)
THEOREM ServiceTypeCorrect == MCServiceSpec => []ServiceTypeOK
<1>1. SubscriptionInv => SubscriptionTypeOK
    BY DEF SubscriptionInv
<1>2. DeleteInv => DeleteTypeOK
    BY DEF DeleteInv
<1>3. ReadsInv => PodReadsTypeOK
    BY DEF ReadsInv
<1>4. TreeInv => TreeNodeTypeOK
    BY DEF TreeInv
<1> QED BY <1>1, <1>2, <1>3, <1>4, PartsImplemented, SubscriptionInvariance, DeleteInvariance,
           AccessTypeCorrect, TreeInvariance, ReadsInvariance, PTL DEF ServiceTypeOK
============================================================================
