------------------------------ MODULE NodeClient ------------------------------
(***************************************************************************)
(* The sessions of a Node.js application: login with client credentials    *)
(* and logout (SolidClientService), the login and redirect pages of a      *)
(* visitor, and the part of SolidService that links a WebID to a session   *)
(* and finds it again (storeProfile, findSessionByWebId, findSessionById). *)
(*                                                                         *)
(* Every call creates one session, and is named like it.  A step is a      *)
(* request (to the storage, the issuer or the Pod) that is answered, with  *)
(* the code that runs until the next request.  The authentication library  *)
(* and the issuer are external: they may refuse whatever they are asked,   *)
(* and may have stored any part of what is known of a session.             *)
(***************************************************************************)
EXTENDS Naturals, FiniteSets

CONSTANTS
    Logins,       \* calls of login
    Visits,       \* visitors of the login page and of the redirect page
    WebIds,
    AccountOf,    \* the WebID that a session is logged in as
    MaxStorageFaults,
    NoSession,
    NoWebId       \* the "undefined" of a session that is not logged in

Sessions == Logins \union Visits

ASSUME NodeAssumption ==
    /\ Logins \intersect Visits = {}
    /\ AccountOf \in [Sessions -> WebIds]
    /\ NoSession \notin Sessions
    /\ NoWebId \notin WebIds
    /\ MaxStorageFaults \in Nat

VARIABLES
    callPc,
    current,        \* this.session
    storedCurrent,  \* the stored currentSession
    user,           \* what is stored of each session
    links,          \* the stored session of each WebID
    authenticated,  \* sessions that the issuer has confirmed
    subject,        \* the session that a call takes for its own
    found,          \* the session that a call has found for a WebID
    overlapped,     \* calls that ran beside a login or a logout
    storageFaults

nodeVars == <<callPc, current, storedCurrent, user, links, authenticated,
              subject, found, overlapped, storageFaults>>

Resting == {"new", "waiting", "resolved", "rejected", "success", "error",
            "loggedOut", "notLoggedOut"}
Running == {"credentials", "setCurrent", "getUser", "setUser", "link",
            "findLink", "findInfo", "relogin", "profile", "visiting",
            "incoming", "logout", "deleteCurrent"}

(* Nothing is stored of a session, not even its issuer, the issuer, or     *)
(* that it is logged in.                                                   *)
Knowledge == {"absent", "bare", "known", "loggedIn"}

(* What a read may make of it: each field is got from the storage by       *)
(* itself, and is missing where that fails.                                *)
Readable ==
    [absent   |-> {"absent"},
     bare     |-> {"absent", "bare"},
     known    |-> {"absent", "bare", "known"},
     loggedIn |-> Knowledge]

NodeTypeOK ==
    /\ callPc \in [Sessions -> Resting \union Running]
    /\ current \in Sessions \union {NoSession}
    /\ storedCurrent \in Sessions \union {NoSession}
    /\ user \in [Sessions -> Knowledge]
    /\ links \in [WebIds \union {NoWebId} -> Sessions \union {NoSession}]
    /\ authenticated \subseteq Sessions
    /\ subject \in [Sessions -> Sessions \union {NoSession}]
    /\ found \in [Sessions -> Sessions \union {NoSession}]
    /\ overlapped \subseteq Sessions
    /\ storageFaults \in 0..MaxStorageFaults

NodeInit ==
    /\ callPc = [s \in Sessions |-> "new"]
    /\ current = NoSession
    /\ storedCurrent = NoSession
    /\ user = [s \in Sessions |-> "absent"]
    /\ links = [w \in WebIds \union {NoWebId} |-> NoSession]
    /\ authenticated = {}
    /\ subject = [s \in Sessions |-> NoSession]
    /\ found = [s \in Sessions |-> NoSession]
    /\ overlapped = {}
    /\ storageFaults = 0

WebIdOf(s) == IF s \in authenticated THEN AccountOf[s] ELSE NoWebId

Go(s, step) == callPc' = [callPc EXCEPT ![s] = step]

(* How a call ends that something it needs has failed. *)
Failed(s) == IF s \in Logins THEN "rejected" ELSE "error"

InProgress == {s \in Sessions : callPc[s] \in Running}
(* The variables of a call end with it. *)
Return(s, step) ==
    /\ Go(s, step)
    /\ subject' = [subject EXCEPT ![s] = NoSession]
    /\ found' = [found EXCEPT ![s] = NoSession]

Overlap(s) ==
    overlapped' = IF InProgress = {} THEN overlapped \ {s}
                  ELSE overlapped \union InProgress \union {s}

(* SolidStorage: a failing driver makes get find nothing and delete do     *)
(* nothing, but set fail.                                                  *)
StorageFails ==
    /\ storageFaults < MaxStorageFaults
    /\ storageFaults' = storageFaults + 1

SetFails(s) ==
    /\ StorageFails
    /\ Go(s, Failed(s))

----------------------------------------------------------------------------
(* login *)
StartLogin(l) ==
    /\ callPc[l] = "new"
    /\ Go(l, "credentials")
    /\ Overlap(l)
    /\ UNCHANGED <<current, storedCurrent, user, links, authenticated, subject, found, storageFaults>>

(* session.login was answered; this.session is set, currentSession not yet. *)
LoggedIn(l) ==
    /\ callPc[l] = "credentials"
    /\ Go(l, "setCurrent")
    /\ current' = l
    /\ authenticated' = authenticated \union {l}
    /\ \E k \in Knowledge : user' = [user EXCEPT ![l] = k]
    /\ UNCHANGED <<storedCurrent, links, subject, found, overlapped, storageFaults>>

(* Mutant of SetCurrent: the storage is not awaited. *)
SetCurrentUnawaited(l) ==
    /\ callPc[l] = "setCurrent"
    /\ Go(l, "getUser")
    /\ \/ storedCurrent' = l /\ UNCHANGED storageFaults
       \/ StorageFails /\ UNCHANGED storedCurrent
    /\ UNCHANGED <<current, user, links, authenticated, subject, found, overlapped>>

SetCurrent(l) ==
    /\ callPc[l] = "setCurrent"
    /\ \/ /\ storedCurrent' = l
          /\ Go(l, "getUser")
          /\ UNCHANGED storageFaults
       \/ SetFails(l) /\ UNCHANGED storedCurrent
    /\ UNCHANGED <<current, user, links, authenticated, subject, found, overlapped>>

(* JSON.parse of nothing throws. *)
GetUser(l) ==
    /\ callPc[l] = "getUser"
    /\ \/ Go(l, IF user[l] = "absent" THEN "rejected" ELSE "setUser") /\ UNCHANGED storageFaults
       \/ Go(l, "rejected") /\ StorageFails
    /\ UNCHANGED <<current, storedCurrent, user, links, authenticated, subject, found, overlapped>>

(* The data is stored with its issuer; this.session is read again. *)
SetUser(l) ==
    /\ callPc[l] = "setUser"
    /\ \/ /\ user' = [user EXCEPT ![l] = IF @ = "loggedIn" THEN @ ELSE "known"]
          /\ subject' = [subject EXCEPT ![l] = current]
          /\ Go(l, IF current = NoSession THEN "rejected" ELSE "link")
          /\ UNCHANGED storageFaults
       \/ SetFails(l) /\ UNCHANGED <<user, subject>>
    /\ UNCHANGED <<current, storedCurrent, links, authenticated, found, overlapped>>

----------------------------------------------------------------------------
(* onLogin and onRedirect *)
VisitLogin(v) ==
    /\ callPc[v] = "new"
    /\ \/ /\ Go(v, "waiting")
          /\ \E k \in {"absent", "bare", "known"} : user' = [user EXCEPT ![v] = k]
       \/ Go(v, "error") /\ UNCHANGED user
    /\ UNCHANGED <<current, storedCurrent, links, authenticated, subject, found, overlapped, storageFaults>>

VisitRedirect(v) ==
    /\ callPc[v] = "waiting"
    /\ found' = [found EXCEPT ![v] = v]
    /\ Go(v, "visiting")
    /\ Overlap(v)
    /\ UNCHANGED <<current, storedCurrent, user, links, authenticated, subject, storageFaults>>

(* Nobody, or whoever the issuer says the visitor is. *)
HandleIncomingRedirect(v) ==
    /\ callPc[v] = "incoming"
    /\ \/ /\ authenticated' = authenticated \union {v}
          /\ user' = [user EXCEPT ![v] = "loggedIn"]
       \/ UNCHANGED <<authenticated, user>>
    /\ subject' = [subject EXCEPT ![v] = v]
    /\ Go(v, "link")
    /\ UNCHANGED <<current, storedCurrent, links, found, overlapped, storageFaults>>

----------------------------------------------------------------------------
(* Mutant of LinkSession: the session is that of the call. *)
LinkOwnSession(s) ==
    /\ callPc[s] = "link"
    /\ \/ /\ links' = [links EXCEPT ![WebIdOf(subject[s])] = s]
          /\ Go(s, "findLink")
          /\ UNCHANGED storageFaults
       \/ SetFails(s) /\ UNCHANGED links
    /\ UNCHANGED <<current, storedCurrent, user, authenticated, subject, found, overlapped>>

(* Mutant of LinkSession: a failing storage goes unnoticed. *)
LinkSessionUnawaited(s) ==
    /\ callPc[s] = "link"
    /\ Go(s, "findLink")
    /\ \/ /\ links' = [links EXCEPT ![WebIdOf(subject[s])] = subject[s]]
          /\ UNCHANGED storageFaults
       \/ StorageFails /\ UNCHANGED links
    /\ UNCHANGED <<current, storedCurrent, user, authenticated, subject, found, overlapped>>

(* storeProfile: the WebID is linked to the session. *)
LinkSession(s) ==
    /\ callPc[s] = "link"
    /\ \/ /\ links' = [links EXCEPT ![WebIdOf(subject[s])] = subject[s]]
          /\ Go(s, "findLink")
          /\ UNCHANGED storageFaults
       \/ SetFails(s) /\ UNCHANGED links
    /\ UNCHANGED <<current, storedCurrent, user, authenticated, subject, found, overlapped>>

(* findSessionByWebId, which need not find what was just stored. *)
FindLink(s) ==
    /\ callPc[s] = "findLink"
    /\ \/ /\ found' = [found EXCEPT ![s] = links[WebIdOf(subject[s])]]
          /\ UNCHANGED storageFaults
       \/ /\ found' = [found EXCEPT ![s] = NoSession]
          /\ StorageFails
    /\ Go(s, IF found'[s] = NoSession THEN "profile" ELSE "findInfo")
    /\ UNCHANGED <<current, storedCurrent, user, links, authenticated, subject, overlapped>>

(* findSessionById: a session that is known but not logged in logs in.  A  *)
(* visitor whose session is not known cannot be let in.                    *)
FindInfo(s) ==
    /\ callPc[s] \in {"findInfo", "visiting"}
    /\ \E k \in Readable[user[found[s]]] :
        /\ \/ k = user[found[s]] /\ UNCHANGED storageFaults
           \/ StorageFails
        /\ Go(s, CASE k = "known" -> "relogin"
                   [] k = "absent" /\ callPc[s] = "visiting" -> "error"
                   [] k # "known" /\ callPc[s] = "findInfo" -> "profile"
                   [] OTHER -> "incoming")
    /\ UNCHANGED <<current, storedCurrent, user, links, authenticated, subject, found,
                   overlapped>>

Relogin(s) ==
    /\ callPc[s] = "relogin"
    /\ \E k \in {"known", "loggedIn"} : user' = [user EXCEPT ![found[s]] = k]
    /\ Go(s, IF subject[s] = NoSession THEN "incoming" ELSE "profile")
    /\ UNCHANGED <<current, storedCurrent, links, authenticated, subject, found, overlapped, storageFaults>>

(* The GET of the profile, which there is none of for an undefined WebID;  *)
(* then login resolves, and the visitor gets an answer.                    *)
Profile(s) ==
    /\ callPc[s] = "profile"
    /\ Return(s, CASE s \in Logins -> "resolved"
                   [] s \in authenticated -> "success"
                   [] OTHER -> "error")
    /\ UNCHANGED <<current, storedCurrent, user, links, authenticated, overlapped, storageFaults>>

(* The issuer or the Pod refuses. *)
Refused(s) ==
    /\ \/ callPc[s] \in {"credentials", "incoming", "relogin"}
       \/ callPc[s] = "profile" /\ WebIdOf(subject[s]) # NoWebId
    /\ Return(s, Failed(s))
    /\ UNCHANGED <<current, storedCurrent, user, links, authenticated, overlapped, storageFaults>>

----------------------------------------------------------------------------
(* logout, of any session whose login was answered *)
StartLogout(s) ==
    /\ callPc[s] \in {"resolved", "success"}
    /\ Go(s, "logout")
    /\ Overlap(s)
    /\ UNCHANGED <<current, storedCurrent, user, links, authenticated, subject, found, storageFaults>>

(* session.logout deletes what is stored of the session, if the storage    *)
(* does.                                                                   *)
LoggedOut(s) ==
    /\ callPc[s] = "logout"
    /\ \/ /\ Go(s, "deleteCurrent")
          /\ current' = NoSession
          /\ \/ user' = [user EXCEPT ![s] = "absent"] /\ UNCHANGED storageFaults
             \/ StorageFails /\ UNCHANGED user
       \/ Go(s, "notLoggedOut") /\ UNCHANGED <<current, user, storageFaults>>
    /\ UNCHANGED <<storedCurrent, links, authenticated, subject, found, overlapped>>

DeleteCurrent(s) ==
    /\ callPc[s] = "deleteCurrent"
    /\ \/ storedCurrent' = NoSession /\ UNCHANGED storageFaults
       \/ StorageFails /\ UNCHANGED storedCurrent
    /\ Go(s, "loggedOut")
    /\ UNCHANGED <<current, user, links, authenticated, subject, found, overlapped>>

----------------------------------------------------------------------------
LoginStep(l) == LoggedIn(l) \/ SetCurrent(l) \/ GetUser(l) \/ SetUser(l)
ProfileStep(s) == LinkSession(s) \/ FindLink(s) \/ FindInfo(s) \/ Relogin(s) \/ Profile(s)
LogoutStep(s) == LoggedOut(s) \/ DeleteCurrent(s)

(* What a call does once it was made. *)
CallStep(s) ==
    \/ s \in Logins /\ LoginStep(s)
    \/ s \in Visits /\ HandleIncomingRedirect(s)
    \/ ProfileStep(s) \/ LogoutStep(s) \/ Refused(s)

NodeNext ==
    \/ \E l \in Logins : StartLogin(l)
    \/ \E v \in Visits : VisitLogin(v) \/ VisitRedirect(v)
    \/ \E s \in Sessions : StartLogout(s) \/ CallStep(s)

NodeSpec == NodeInit /\ [][NodeNext]_nodeVars

----------------------------------------------------------------------------
(* However logins, visits and logouts overlap, findSessionByWebId never    *)
(* yields the session of another WebID, or one the issuer did not confirm: *)
(* the data of one user is never asked for with the session of another.    *)
LinksOwnWebId ==
    \A w \in WebIds : links[w] # NoSession =>
        links[w] \in authenticated /\ AccountOf[links[w]] = w

(* A login that no other call overlapped leaves its session behind as the  *)
(* current one, in memory and stored, and linked to its WebID.  (With      *)
(* overlapping calls this does not hold: the login reads this.session      *)
(* after it has awaited the storage three times.)                          *)
LoneLoginLinked ==
    [][\A l \in Logins :
        (callPc[l] # "resolved" /\ callPc'[l] = "resolved" /\ l \notin overlapped) =>
            current = l /\ storedCurrent = l /\ links[AccountOf[l]] = l]_nodeVars

(* A visitor that is let in can be found by its WebID, as the success      *)
(* callback of the example server does (examples/server/src/index.ts:20):  *)
(* what is linked is the session of a visitor and is known, unless that    *)
(* visitor has logged out.  (A login with the same WebID can have linked   *)
(* it to a session of which nothing is stored.)                            *)
SuccessFindable ==
    [][\A v \in Visits :
        (/\ callPc[v] # "success" /\ callPc'[v] = "success"
         /\ \A l \in Logins : AccountOf[l] # AccountOf[v]) =>
            LET s == links[AccountOf[v]] IN
                /\ s \in Visits
                /\ user[s] = "absent" => callPc[s] \in {"deleteCurrent", "loggedOut"}]_nodeVars
============================================================================
