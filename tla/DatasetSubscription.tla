------------------------- MODULE DatasetSubscription -------------------------
(***************************************************************************)
(* getDatasetSubscription and DatasetSubscription: a WebSocket is found    *)
(* for a dataset, the old way (the "updates-via" header) or the new one    *)
(* (discovery and a WebSocketChannel2023), and its messages are emitted as *)
(* events: every message of a new channel as it is, and once it is         *)
(* deserialized as an activity; "pub" messages of an old channel as an     *)
(* addition.  Server, discovery and subscription clients are external.     *)
(***************************************************************************)
EXTENDS Naturals, Sequences, SequencesExt, FiniteSets

CONSTANTS
    Notifications,   \* what the server sends, each once
    Malformed,       \* those that are not JSON, or not a "pub" message
    NoActivity,      \* those that do not deserialize to an activity
    Objected         \* those on which a listener for activities throws

ASSUME NotificationsAssumption ==
    /\ Malformed \subseteq Notifications
    /\ NoActivity \subseteq Notifications \ Malformed
    /\ Objected \subseteq Notifications \ (Malformed \union NoActivity)

VARIABLES
    subscribing,   \* what the call waits for, or how it ended
    legacy,        \* whether the channel has no type
    socket,        \* "none", "opening", "open", "closed" or "broken"
    subscribedTo,  \* what the "sub" message named
    arrived,       \* the messages in the order they arrived
    decoding,      \* those that are being deserialized
    activities,    \* those emitted as an activity, in order
    errors,        \* those an error was emitted for
    unhandled      \* an error was emitted with nobody to listen

subscriptionVars == <<subscribing, legacy, socket, subscribedTo, arrived, decoding,
                      activities, errors, unhandled>>
channelVars == <<arrived, decoding, activities, errors>>

SubscriptionTypeOK ==
    /\ subscribing \in {"new", "head", "discover", "subscribe", "open", "resolved", "rejected"}
    /\ legacy \in BOOLEAN
    /\ socket \in {"none", "opening", "open", "closed", "broken"}
    /\ subscribedTo \in {"nothing", "dataset", "socket"}
    /\ ToSet(arrived) \subseteq Notifications
    /\ decoding \subseteq Notifications
    /\ ToSet(activities) \subseteq Notifications
    /\ errors \subseteq Notifications
    /\ unhandled \in BOOLEAN

SubscriptionInit ==
    /\ subscribing = "new"
    /\ legacy = FALSE
    /\ socket = "none"
    /\ subscribedTo = "nothing"
    /\ arrived = <<>> /\ activities = <<>>
    /\ decoding = {} /\ errors = {}
    /\ unhandled = FALSE

----------------------------------------------------------------------------
GetSubscription ==
    /\ subscribing = "new"
    /\ subscribing' = "head"
    /\ UNCHANGED <<legacy, socket, subscribedTo, channelVars, unhandled>>

(* legacySubscription: with the header the socket is opened, without it    *)
(* the new way is taken.                                                   *)
FindUpdatesVia ==
    /\ subscribing = "head"
    /\ \/ /\ subscribing' = "open"
          /\ legacy' = TRUE
          /\ socket' = "opening"
       \/ subscribing' = "discover" /\ UNCHANGED <<legacy, socket>>
    /\ UNCHANGED <<subscribedTo, channelVars, unhandled>>

(* newSubscription: a service is found, or none. *)
Discover ==
    /\ subscribing = "discover"
    /\ subscribing' \in {"subscribe", "rejected"}
    /\ UNCHANGED <<legacy, socket, subscribedTo, channelVars, unhandled>>

Subscribe ==
    /\ subscribing = "subscribe"
    /\ subscribing' = "open"
    /\ socket' = "opening"
    /\ UNCHANGED <<legacy, subscribedTo, channelVars, unhandled>>

RequestFails ==
    /\ subscribing \in {"head", "discover", "subscribe"}
    /\ subscribing' = "rejected"
    /\ UNCHANGED <<legacy, socket, subscribedTo, channelVars, unhandled>>

(* Mutant of Open: subscribing comes first and is waited for. *)
OpenUnresolved ==
    /\ socket = "opening"
    /\ socket' = "open"
    /\ subscribedTo' = "socket"
    /\ UNCHANGED <<subscribing, legacy, channelVars, unhandled>>

(* onopen resolves create.  createSubscription then subscribes to its own  *)
(* parameter, which is the URI of the socket and hides that of the dataset.*)
Open ==
    /\ socket = "opening"
    /\ socket' = "open"
    /\ subscribing' = "resolved"
    /\ subscribedTo' = "socket"
    /\ UNCHANGED <<legacy, channelVars, unhandled>>

(* onerror emits an error; before onopen nobody has the subscription to    *)
(* listen to, and nothing settles create.                                  *)
Break ==
    /\ socket \in {"opening", "open"}
    /\ unhandled' = (unhandled \/ socket = "opening")
    /\ socket' = "broken"
    /\ UNCHANGED <<subscribing, legacy, subscribedTo, channelVars>>

----------------------------------------------------------------------------
Arrive(n) ==
    /\ socket = "open"
    /\ n \notin ToSet(arrived)
    /\ arrived' = Append(arrived, n)
    /\ UNCHANGED <<subscribing, legacy, socket, subscribedTo, unhandled>>

(* Mutant of LegacyMessage: the activity is deserialized first. *)
LegacyMessageDecoded(n) ==
    /\ legacy
    /\ Arrive(n)
    /\ decoding' = IF n \in Malformed THEN decoding ELSE decoding \union {n}
    /\ UNCHANGED <<activities, errors>>

(* An old channel: "pub" is emitted at once, what else arrives ignored. *)
LegacyMessage(n) ==
    /\ legacy
    /\ Arrive(n)
    /\ activities' = IF n \in Malformed THEN activities ELSE Append(activities, n)
    /\ UNCHANGED <<decoding, errors>>

(* A new channel: JSON.parse fails at once, deserializing takes a while. *)
Message(n) ==
    /\ ~legacy
    /\ Arrive(n)
    /\ IF n \in Malformed
       THEN errors' = errors \union {n} /\ UNCHANGED decoding
       ELSE decoding' = decoding \union {n} /\ UNCHANGED errors
    /\ UNCHANGED activities

(* Deserializing ends in any order, and after close as well.  The catch    *)
(* also gets what a listener throws, and emits it as an error.             *)
Deserialized(n) ==
    /\ n \in decoding
    /\ decoding' = decoding \ {n}
    /\ activities' = IF n \in NoActivity THEN activities ELSE Append(activities, n)
    /\ errors' = IF n \in NoActivity \union Objected THEN errors \union {n} ELSE errors
    /\ UNCHANGED <<subscribing, legacy, socket, subscribedTo, arrived, unhandled>>

Close ==
    /\ subscribing = "resolved"
    /\ socket = "open"
    /\ socket' = "closed"
    /\ UNCHANGED <<subscribing, legacy, subscribedTo, channelVars, unhandled>>

----------------------------------------------------------------------------
SubscriptionWork == FindUpdatesVia \/ Discover \/ Subscribe \/ Open \/ Break

SubscriptionNext ==
    \/ GetSubscription \/ SubscriptionWork \/ RequestFails \/ Close
    \/ \E n \in Notifications : LegacyMessage(n) \/ Message(n) \/ Deserialized(n)

SubscriptionSpec == SubscriptionInit /\ [][SubscriptionNext]_subscriptionVars

(* Requests are answered, a socket opens or breaks, callbacks run. *)
SubscriptionFairness ==
    /\ WF_subscriptionVars(socket # "open" /\ SubscriptionWork)
    /\ \A n \in Notifications : WF_subscriptionVars(Deserialized(n))

----------------------------------------------------------------------------
(* The messages of an old channel are emitted, and in the order in which   *)
(* they arrived; those of a new channel need not be, as each waits for its *)
(* own deserialization.                                                    *)
LegacyInOrder ==
    legacy =>
        /\ ToSet(activities) = ToSet(arrived) \ Malformed
        /\ \A i, j \in DOMAIN activities : i < j =>
              \E k, l \in DOMAIN arrived :
                  k < l /\ arrived[k] = activities[i] /\ arrived[l] = activities[j]

(* No message is lost or emitted twice.  Each one of a new channel is      *)
(* emitted as an activity or as an error, even when the subscription is    *)
(* closed first; as both only when a listener throws on the activity.      *)
EachEmittedOnce ==
    /\ LegacyInOrder
    /\ IsInjective(activities)
    /\ ToSet(activities) \intersect errors \subseteq Objected
    /\ ~legacy => ToSet(arrived) = ToSet(activities) \union errors \union decoding

(* What has arrived is emitted in the end. *)
MessagesEmitted ==
    \A n \in Notifications : (n \in ToSet(arrived) /\ ~legacy) ~>
        (n \in ToSet(activities) \union errors)

(* A call is answered, unless the socket does not open: then its promise   *)
(* is never settled, and the error goes to nobody.                         *)
SubscribingSettles ==
    subscribing = "head" ~> (subscribing \in {"resolved", "rejected"} \/ unhandled)

(* Nobody waits for good for a subscription that works, nor a message for  *)
(* its event.                                                              *)
SubscriptionLive == SubscribingSettles /\ MessagesEmitted
============================================================================
