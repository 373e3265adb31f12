--------------------------- MODULE ObservationLog ---------------------------
(***************************************************************************)
(* What SolidPropertyService promises to whoever adds observations to a    *)
(* property, with no Pod, request or container in sight: an append-only    *)
(* log in fragments, each of which starts at a time and holds observations *)
(* made at that time or later.  An observation enters one fragment, once,  *)
(* while its call is unanswered, and stays.  "resolved" is only answered   *)
(* for an observation of the log; a call may be rejected, and then its     *)
(* observation does not enter the log any more.  ObservationStream         *)
(* implements it.                                                          *)
(***************************************************************************)
EXTENDS Naturals

CONSTANTS Obs, Times

VARIABLES
    resultTime,  \* the result time of each observation
    log,         \* log[t]: the observations of the fragment that starts at t
    answer       \* what the caller was answered

vars == <<resultTime, log, answer>>

Init ==
    /\ resultTime \in [Obs -> Times]
    /\ log = [t \in Times |-> {}]
    /\ answer = [o \in Obs |-> "none"]

(* addObservation has written everything it writes of o. *)
Enter(o) ==
    /\ answer[o] = "none"
    /\ \A t \in Times : o \notin log[t]
    /\ \E t \in Times :
        /\ t <= resultTime[o]
        /\ log' = [log EXCEPT ![t] = @ \union {o}]
    /\ UNCHANGED <<resultTime, answer>>

Resolve(o) ==
    /\ answer[o] = "none"
    /\ \E t \in Times : o \in log[t]
    /\ answer' = [answer EXCEPT ![o] = "resolved"]
    /\ UNCHANGED <<resultTime, log>>

(* Also when the observation is in the log: its answer may be lost. *)
Reject(o) ==
    /\ answer[o] = "none"
    /\ answer' = [answer EXCEPT ![o] = "rejected"]
    /\ UNCHANGED <<resultTime, log>>

Next == \E o \in Obs : Enter(o) \/ Resolve(o) \/ Reject(o)

Spec == Init /\ [][Next]_vars
=============================================================================
