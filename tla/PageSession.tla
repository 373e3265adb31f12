----------------------------- MODULE PageSession -----------------------------
(***************************************************************************)
(* What the session of a web application promises whoever looks at the     *)
(* page, with no storage, code, request or callback in sight.  A session   *)
(* is confirmed at most once, by the page that redeemed it, and a page     *)
(* shows at most one, which was confirmed, on that page or on an earlier   *)
(* one, and is not over.  A page may be unloaded at any moment and give up *)
(* until it shows a session; once it has shown one it shows no other until *)
(* it is loaded again.  A logout hides the session; it is over with that,  *)
(* or later, or, if nothing known of it could be deleted, not at all.      *)
(* BrowserClient implements it.                                            *)
(***************************************************************************)
CONSTANTS
    Sessions,
    Nobody

VARIABLES
    stage,    \* how far each session has come
    fresh,    \* whether the page can still show a session
    choice,   \* the session it is going to show
    shown     \* the session it shows

vars == <<stage, fresh, choice, shown>>

Init ==
    /\ stage = [s \in Sessions |-> "new"]
    /\ fresh = TRUE
    /\ choice = Nobody /\ shown = Nobody

Move(s, from, to) == stage[s] = from /\ stage' = [stage EXCEPT ![s] = to]

(* The user is sent to the issuer. *)
Leave(s) ==
    /\ Move(s, "new", "away")
    /\ UNCHANGED <<fresh, choice, shown>>

(* The page uses up what the issuer sent the user back with. *)
Redeem(s) ==
    /\ fresh /\ choice = Nobody
    /\ Move(s, "away", "redeemed")
    /\ choice' = s
    /\ UNCHANGED <<fresh, shown>>

Confirm(s) ==
    /\ choice = s
    /\ Move(s, "redeemed", "confirmed")
    /\ UNCHANGED <<fresh, choice, shown>>

Restore(s) ==
    /\ fresh /\ choice = Nobody
    /\ stage[s] = "confirmed"
    /\ choice' = s
    /\ UNCHANGED <<stage, fresh, shown>>

Show(s) ==
    /\ fresh /\ choice = s /\ shown = Nobody
    /\ stage[s] = "confirmed"
    /\ shown' = s
    /\ choice' = Nobody /\ fresh' = FALSE
    /\ UNCHANGED stage

(* What was to be redeemed may be used up all the same. *)
GiveUp ==
    /\ fresh
    /\ fresh' = FALSE /\ choice' = Nobody
    /\ UNCHANGED shown
    /\ UNCHANGED stage \/ \E s \in Sessions : Move(s, "away", "redeemed")

Unload ==
    /\ fresh' = TRUE
    /\ choice' = Nobody /\ shown' = Nobody
    /\ UNCHANGED stage

Logout(s) ==
    /\ shown = s
    /\ Move(s, "confirmed", "over") \/ UNCHANGED stage
    /\ shown' = Nobody
    /\ UNCHANGED <<fresh, choice>>

Forget(s) ==
    /\ ~fresh /\ shown = Nobody
    /\ Move(s, "confirmed", "over")
    /\ UNCHANGED <<fresh, choice, shown>>

Next ==
    \/ \E s \in Sessions :
         \/ Leave(s) \/ Redeem(s) \/ Confirm(s) \/ Restore(s) \/ Show(s)
         \/ Logout(s) \/ Forget(s)
    \/ GiveUp \/ Unload

Spec == Init /\ [][Next]_vars
==============================================================================
