--------------------------- MODULE NodeClientProofs ---------------------------
(* What is proved of NodeClient, for any sessions, visits and WebIDs. *)
EXTENDS NodeClient, TLAPS

(* The inductive invariant: LinksOwnWebId needs nothing but the types, as  *)
(* what the issuer has confirmed of a session stays so.                    *)
NodeInv == NodeTypeOK /\ LinksOwnWebId

----------------------------------------------------------------------------
LEMMA NodeInitial == NodeInit => NodeInv
<1> USE NodeAssumption DEF NodeInit
<1>1. NodeInit => NodeTypeOK
    BY DEF NodeTypeOK, Resting, Running, Knowledge
<1>2. NodeInit => LinksOwnWebId
    BY DEF LinksOwnWebId
<1> QED BY <1>1, <1>2 DEF NodeInv

(* A step that links nothing keeps LinksOwnWebId: sessions stay confirmed. *)
LEMMA LinksKept ==
    LinksOwnWebId /\ links' = links /\ authenticated \subseteq authenticated'
        => LinksOwnWebId'
BY DEF LinksOwnWebId

(* Calls that are noted as overlapping are calls. *)
LEMMA OverlapTyped ==
    ASSUME NodeTypeOK, NEW s \in Sessions, Overlap(s)
    PROVE  overlapped' \subseteq Sessions
BY DEF NodeTypeOK, Overlap, InProgress

LEMMA LoginStepKeeps ==
    ASSUME NodeInv, NEW l \in Logins, StartLogin(l) \/ LoginStep(l)
    PROVE  NodeInv'
<1> USE NodeAssumption DEF NodeInv, NodeTypeOK
<1>0. l \in Sessions
    BY DEF Sessions
<1>1. CASE StartLogin(l)
    <2>1. overlapped' \subseteq Sessions
        BY <1>0, <1>1, OverlapTyped DEF StartLogin
    <2>2. NodeTypeOK'
        BY <1>0, <1>1, <2>1 DEF StartLogin, Go, Resting, Running
    <2> QED BY <1>1, <2>2, LinksKept DEF StartLogin
<1>2. CASE LoggedIn(l)
    <2>1. NodeTypeOK'
        BY <1>0, <1>2 DEF LoggedIn, Go, Resting, Running
    <2> QED BY <1>2, <2>1, LinksKept DEF LoggedIn
<1>3. CASE SetCurrent(l)
    <2>1. NodeTypeOK'
        BY <1>0, <1>3 DEF SetCurrent, SetFails, StorageFails, Go, Failed, Resting, Running
    <2> QED BY <1>3, <2>1, LinksKept DEF SetCurrent
<1>4. CASE GetUser(l)
    <2>1. NodeTypeOK'
        BY <1>0, <1>4 DEF GetUser, StorageFails, Go, Resting, Running
    <2> QED BY <1>4, <2>1, LinksKept DEF GetUser
<1>5. CASE SetUser(l)
    <2>1. NodeTypeOK'
        BY <1>0, <1>5 DEF SetUser, SetFails, StorageFails, Go, Failed, Resting, Running, Knowledge
    <2> QED BY <1>5, <2>1, LinksKept DEF SetUser
<1> QED BY <1>1, <1>2, <1>3, <1>4, <1>5 DEF LoginStep

LEMMA VisitStepKeeps ==
    ASSUME NodeInv, NEW v \in Visits,
           VisitLogin(v) \/ VisitRedirect(v) \/ HandleIncomingRedirect(v)
    PROVE  NodeInv'
<1> USE NodeAssumption DEF NodeInv, NodeTypeOK
<1>0. v \in Sessions
    BY DEF Sessions
<1>1. CASE VisitLogin(v)
    <2>1. NodeTypeOK'
        BY <1>0, <1>1 DEF VisitLogin, Go, Resting, Running, Knowledge
    <2> QED BY <1>1, <2>1, LinksKept DEF VisitLogin
<1>2. CASE VisitRedirect(v)
    <2>1. overlapped' \subseteq Sessions
        BY <1>0, <1>2, OverlapTyped DEF VisitRedirect
    <2>2. NodeTypeOK'
        BY <1>0, <1>2, <2>1 DEF VisitRedirect, Go, Resting, Running
    <2> QED BY <1>2, <2>2, LinksKept DEF VisitRedirect
<1>3. CASE HandleIncomingRedirect(v)
    <2>1. NodeTypeOK'
        BY <1>0, <1>3 DEF HandleIncomingRedirect, Go, Resting, Running, Knowledge
    <2> QED BY <1>3, <2>1, LinksKept DEF HandleIncomingRedirect
<1> QED BY <1>1, <1>2, <1>3

(* The one step that links: under the WebID that the session itself has. *)
LEMMA LinkStepKeeps ==
    ASSUME NodeInv, NEW s \in Sessions, LinkSession(s)
    PROVE  NodeInv'
<1> USE NodeAssumption DEF NodeInv, NodeTypeOK
<1>1. WebIdOf(subject[s]) \in WebIds \union {NoWebId}
    BY DEF WebIdOf
<1>2. NodeTypeOK'
    BY <1>1 DEF LinkSession, SetFails, StorageFails, Go, Failed, Resting, Running
<1>3. CASE links' = links
    BY <1>2, <1>3, LinksKept DEF LinkSession
<1>4. CASE links' = [links EXCEPT ![WebIdOf(subject[s])] = subject[s]]
    <2>1. \A w \in WebIds : links'[w] # links[w] =>
              w = WebIdOf(subject[s]) /\ links'[w] = subject[s]
        BY <1>1, <1>4
    <2>2. \A w \in WebIds : w = WebIdOf(subject[s]) =>
              subject[s] \in authenticated /\ AccountOf[subject[s]] = w
        BY DEF WebIdOf
    <2>3. authenticated' = authenticated
        BY DEF LinkSession
    <2>4. LinksOwnWebId'
        BY <2>1, <2>2, <2>3 DEF LinksOwnWebId
    <2> QED BY <1>2, <2>4
<1> QED BY <1>3, <1>4 DEF LinkSession, SetFails

LEMMA ProfileStepKeeps ==
    ASSUME NodeInv, NEW s \in Sessions, ProfileStep(s) \/ Refused(s)
    PROVE  NodeInv'
<1> USE NodeAssumption DEF NodeInv, NodeTypeOK
<1>1. CASE LinkSession(s)
    BY <1>1, LinkStepKeeps
<1>2. CASE FindLink(s)
    <2>1. WebIdOf(subject[s]) \in WebIds \union {NoWebId}
        BY DEF WebIdOf
    <2>2. NodeTypeOK'
        BY <1>2, <2>1 DEF FindLink, StorageFails, Go, Resting, Running
    <2> QED BY <1>2, <2>2, LinksKept DEF FindLink
<1>3. CASE FindInfo(s)
    <2>1. \E p \in {"relogin", "error", "profile", "incoming"} : Go(s, p)
        BY <1>3 DEF FindInfo, Go
    <2>2. storageFaults' \in 0..MaxStorageFaults
        BY <1>3 DEF FindInfo, StorageFails
    <2>3. NodeTypeOK'
        BY <1>3, <2>1, <2>2 DEF FindInfo, Go, Resting, Running
    <2> QED BY <1>3, <2>3, LinksKept DEF FindInfo
<1>4. CASE Relogin(s)
    <2>1. PICK k \in {"known", "loggedIn"} : user' = [user EXCEPT ![found[s]] = k]
        BY <1>4 DEF Relogin
    <2>2. user' \in [Sessions -> Knowledge]
        BY <2>1 DEF Knowledge
    <2>3. callPc' \in [Sessions -> Resting \union Running]
        BY <1>4 DEF Relogin, Go, Resting, Running
    <2>4. NodeTypeOK'
        BY <1>4, <2>2, <2>3 DEF Relogin
    <2> QED BY <1>4, <2>4, LinksKept DEF Relogin
<1>5. CASE Profile(s)
    <2>1. \E p \in {"resolved", "success", "error"} : Return(s, p)
        BY <1>5 DEF Profile
    <2>2. NodeTypeOK'
        BY <1>5, <2>1 DEF Profile, Return, Go, Resting, Running
    <2> QED BY <1>5, <2>2, LinksKept DEF Profile
<1>6. CASE Refused(s)
    <2>1. NodeTypeOK'
        BY <1>6 DEF Refused, Return, Go, Failed, Resting, Running
    <2> QED BY <1>6, <2>1, LinksKept DEF Refused
<1> QED BY <1>1, <1>2, <1>3, <1>4, <1>5, <1>6 DEF ProfileStep

LEMMA LogoutStepKeeps ==
    ASSUME NodeInv, NEW s \in Sessions, StartLogout(s) \/ LogoutStep(s)
    PROVE  NodeInv'
<1> USE NodeAssumption DEF NodeInv, NodeTypeOK
<1>1. CASE StartLogout(s)
    <2>1. overlapped' \subseteq Sessions
        BY <1>1, OverlapTyped DEF StartLogout
    <2>2. NodeTypeOK'
        BY <1>1, <2>1 DEF StartLogout, Go, Resting, Running
    <2> QED BY <1>1, <2>2, LinksKept DEF StartLogout
<1>2. CASE LoggedOut(s)
    <2>1. user' \in [Sessions -> Knowledge]
        BY <1>2 DEF LoggedOut, Knowledge
    <2>2. storageFaults' \in 0..MaxStorageFaults
        BY <1>2 DEF LoggedOut, StorageFails
    <2>3. callPc' \in [Sessions -> Resting \union Running]
        BY <1>2 DEF LoggedOut, Go, Resting, Running
    <2>4. current' \in Sessions \union {NoSession}
        BY <1>2 DEF LoggedOut
    <2>5. NodeTypeOK'
        BY <1>2, <2>1, <2>2, <2>3, <2>4 DEF LoggedOut
    <2> QED BY <1>2, <2>5, LinksKept DEF LoggedOut
<1>3. CASE DeleteCurrent(s)
    <2>1. NodeTypeOK'
        BY <1>3 DEF DeleteCurrent, StorageFails, Go, Resting, Running
    <2> QED BY <1>3, <2>1, LinksKept DEF DeleteCurrent
<1> QED BY <1>1, <1>2, <1>3 DEF LogoutStep

----------------------------------------------------------------------------
(* The invariant is kept by every step of every call, and by every         *)
(* refusal and storage failure.                                            *)
THEOREM NodeInvariance == NodeSpec => []NodeInv
<1>1. NodeInv /\ [NodeNext]_nodeVars => NodeInv'
    <2> SUFFICES ASSUME NodeInv, [NodeNext]_nodeVars PROVE NodeInv'
        OBVIOUS
    <2>1. CASE UNCHANGED nodeVars
        BY <2>1 DEF nodeVars, NodeInv, NodeTypeOK, LinksOwnWebId
    <2>2. ASSUME NEW l \in Logins, StartLogin(l) \/ LoginStep(l) PROVE NodeInv'
        BY <2>2, LoginStepKeeps
    <2>3. ASSUME NEW v \in Visits,
                 VisitLogin(v) \/ VisitRedirect(v) \/ HandleIncomingRedirect(v)
          PROVE  NodeInv'
        BY <2>3, VisitStepKeeps
    <2>4. ASSUME NEW s \in Sessions, ProfileStep(s) \/ Refused(s) PROVE NodeInv'
        BY <2>4, ProfileStepKeeps
    <2>5. ASSUME NEW s \in Sessions, StartLogout(s) \/ LogoutStep(s) PROVE NodeInv'
        BY <2>5, LogoutStepKeeps
    <2> QED BY <2>1, <2>2, <2>3, <2>4, <2>5 DEF NodeNext, CallStep
<1> QED BY <1>1, NodeInitial, PTL DEF NodeSpec

(* findSessionByWebId never yields the session of another WebID, however   *)
(* many logins, visits and logouts overlap and whatever fails.             *)
THEOREM LinksOwnWebIdCorrect == NodeSpec => []LinksOwnWebId
<1>1. NodeInv => LinksOwnWebId
    BY DEF NodeInv
<1> QED BY <1>1, NodeInvariance, PTL
----------------------------------------------------------------------------
(* From its LoggedIn, SetCurrent, SetUser and LinkSession on.              *)
Linked == {"findLink", "findInfo", "relogin", "profile"}
Taken  == {"link"} \union Linked
Stored == {"getUser", "setUser"} \union Taken
Opened == {"setCurrent"} \union Stored

(* A login that nothing has overlapped is the only call at work, and what  *)
(* it has written so far is still there.                                   *)
LoneLogin(l) ==
    callPc[l] \in {"credentials"} \union Opened /\ l \notin overlapped =>
        /\ \A s \in Sessions : callPc[s] \in Running => s = l
        /\ callPc[l] \in Opened => current = l /\ l \in authenticated
        /\ callPc[l] \in Stored => storedCurrent = l
        /\ callPc[l] \in Taken => subject[l] = l
        /\ callPc[l] \in Linked => links[AccountOf[l]] = l

LoneLogins == \A l \in Logins : LoneLogin(l) /\ callPc[l] # "visiting"

(* The session of a visitor is confirmed before it is linked, and known    *)
(* until its logout.  A visit that logs its own session in first has none  *)
(* confirmed, so the redirect comes before the link all the same.          *)
Visit(v) ==
    /\ callPc[v] \in {"new", "waiting", "visiting", "incoming"} => v \notin authenticated
    /\ callPc[v] \in {"link", "findLink", "findInfo"} => subject[v] = v
    /\ callPc[v] = "relogin" => subject[v] = v \/ v \notin authenticated
    /\ callPc[v] \in Linked /\ v \in authenticated => links[AccountOf[v]] # NoSession
    /\ user[v] = "absent" /\ v \in authenticated => callPc[v] \in {"deleteCurrent", "loggedOut"}

VisitsSound == \A v \in Visits : Visit(v)

(* A call that has not been made yet or waits for the issuer is at rest, a *)
(* call at one of its requests is running.                                 *)
LEMMA RunningCalls ==
    ASSUME NodeTypeOK, NEW s \in Sessions, CallStep(s)
    PROVE  callPc[s] \in Running /\ overlapped' = overlapped
BY DEF CallStep, LoginStep, LoggedIn, SetCurrent, GetUser, SetUser, HandleIncomingRedirect,
       ProfileStep, LinkSession, FindLink, FindInfo, Relogin, Profile, LogoutStep, LoggedOut,
       DeleteCurrent, Refused, Running

(* A step of one call leaves the others where they are, with their own     *)
(* variables; what the issuer confirms of a session it confirms in the     *)
(* session's own call.                                                     *)
LEMMA OtherCalls ==
    ASSUME NodeTypeOK, NEW s \in Sessions, NEW t \in Sessions, t # s,
           \/ s \in Logins /\ StartLogin(s)
           \/ s \in Visits /\ (VisitLogin(s) \/ VisitRedirect(s))
           \/ StartLogout(s) \/ CallStep(s)
    PROVE  /\ UNCHANGED <<callPc[t], subject[t]>>
           /\ t \in authenticated' <=> t \in authenticated
<1> USE DEF NodeTypeOK, Go, Return
<1>1. CASE s \in Logins /\ (StartLogin(s) \/ LoginStep(s))
    BY <1>1 DEF StartLogin, LoginStep, LoggedIn, SetCurrent, GetUser, SetUser, SetFails, Failed
<1>2. CASE s \in Visits /\ (VisitLogin(s) \/ VisitRedirect(s) \/ HandleIncomingRedirect(s))
    BY <1>2 DEF VisitLogin, VisitRedirect, HandleIncomingRedirect
<1>3. CASE ProfileStep(s) \/ Refused(s)
    BY <1>3 DEF ProfileStep, LinkSession, FindLink, FindInfo, Relogin, Profile, Refused,
                SetFails, Failed
<1>4. CASE StartLogout(s) \/ LogoutStep(s)
    BY <1>4 DEF StartLogout, LogoutStep, LoggedOut, DeleteCurrent
<1> QED BY <1>1, <1>2, <1>3, <1>4 DEF CallStep

LEMMA LoneLoginStep ==
    ASSUME NodeInv, [NodeNext]_nodeVars, NEW l \in Logins, LoneLogin(l),
           callPc[l] # "visiting"
    PROVE  LoneLogin(l)'
<1> DEFINE AtWork == {"credentials"} \union Opened
<1> SUFFICES ASSUME callPc'[l] \in AtWork, l \notin overlapped' PROVE LoneLogin(l)'
    BY DEF LoneLogin
<1> USE NodeAssumption
<1>0. NodeTypeOK /\ l \in Sessions /\ AtWork \subseteq Running
    BY DEF NodeInv, Sessions, Opened, Stored, Taken, Linked, Running
<1>1. CASE UNCHANGED nodeVars
    BY <1>1 DEF nodeVars, LoneLogin
<1>2. ASSUME NEW s \in Sessions, s # l, CallStep(s) PROVE FALSE
    BY <1>0, <1>2, RunningCalls, OtherCalls DEF LoneLogin
<1>3. ASSUME NEW s \in Sessions, s # l, Overlap(s), callPc'[l] = callPc[l] PROVE FALSE
    <2>1. l \in InProgress
        BY <1>0, <1>3 DEF InProgress
    <2> QED BY <1>3, <2>1 DEF Overlap
<1>4. ASSUME NEW v \in Visits, VisitLogin(v) PROVE LoneLogin(l)'
    <2>1. v # l /\ v \in Sessions
        BY DEF Sessions
    <2>2. callPc'[v] \notin Running /\ \A s \in Sessions : s # v => callPc'[s] = callPc[s]
        BY <1>0, <1>4, <2>1 DEF VisitLogin, Go, NodeTypeOK, Running
    <2> QED BY <1>0, <1>4, <2>1, <2>2 DEF VisitLogin, LoneLogin
<1>5. CASE StartLogin(l)
    <2>1. InProgress = {} /\ callPc'[l] = "credentials"
        BY <1>0, <1>5 DEF StartLogin, Overlap, Go, NodeTypeOK
    <2>2. \A s \in Sessions : callPc'[s] \in Running => s = l
        BY <1>0, <1>5, <2>1 DEF StartLogin, InProgress, Go, NodeTypeOK
    <2>3. "credentials" \notin Opened
        BY DEF Opened, Stored, Taken, Linked
    <2> QED BY <2>1, <2>2, <2>3 DEF LoneLogin, Opened, Stored, Taken
<1>6. ~StartLogout(l)
    BY <1>0 DEF StartLogout, Go, NodeTypeOK, Opened, Stored, Taken, Linked
<1>7. CASE CallStep(l)
    <2>0. /\ l \notin overlapped /\ l \notin Visits
          /\ \A s \in Sessions : s # l => callPc'[s] = callPc[s]
        BY <1>0, <1>7, RunningCalls, OtherCalls
    <2>1. CASE LoginStep(l)
        <3>1. CASE LoggedIn(l)
            BY <1>0, <2>0, <3>1
            DEF LoggedIn, LoneLogin, Go, NodeTypeOK, Opened, Stored, Taken, Linked
        <3>2. CASE SetCurrent(l)
            BY <1>0, <2>0, <3>2 DEF SetCurrent, SetFails, Failed, LoneLogin, Go, NodeTypeOK,
                Opened, Stored, Taken, Linked
        <3>3. CASE GetUser(l)
            BY <1>0, <2>0, <3>3
            DEF GetUser, LoneLogin, Go, NodeTypeOK, Opened, Stored, Taken, Linked
        <3>4. CASE SetUser(l)
            BY <1>0, <2>0, <3>4 DEF SetUser, SetFails, Failed, LoneLogin, Go, NodeTypeOK,
                Opened, Stored, Taken, Linked
        <3> QED BY <2>1, <3>1, <3>2, <3>3, <3>4 DEF LoginStep
    <2>2. CASE LinkSession(l)
        <3>1. callPc[l] = "link" /\ WebIdOf(subject[l]) = AccountOf[l] /\ subject[l] = l
            BY <1>0, <2>0, <2>2
            DEF LinkSession, LoneLogin, WebIdOf, Opened, Stored, Taken
        <3>2. callPc'[l] \in Linked => links' = [links EXCEPT ![AccountOf[l]] = l]
            BY <1>0, <2>2, <3>1 DEF LinkSession, SetFails, Failed, Go, NodeTypeOK, Linked
        <3>3. AccountOf[l] \in WebIds
            BY <1>0
        <3>4. callPc'[l] \in Linked => links'[AccountOf[l]] = l
            BY <1>0, <3>2, <3>3 DEF NodeTypeOK
        <3>5. /\ current = l /\ l \in authenticated /\ storedCurrent = l
              /\ \A s \in Sessions : callPc[s] \in Running => s = l
            BY <1>0, <2>0, <3>1 DEF LoneLogin, Opened, Stored, Taken
        <3>6. UNCHANGED <<current, storedCurrent, authenticated, subject>>
            BY <2>2 DEF LinkSession
        <3> QED BY <1>0, <2>0, <3>1, <3>4, <3>5, <3>6 DEF LoneLogin
    <2>3. CASE FindLink(l) \/ FindInfo(l) \/ Relogin(l)
        <3>1. callPc[l] \in Linked /\ callPc'[l] \in Linked
            <4>1. CASE FindLink(l)
                BY <1>0, <4>1 DEF FindLink, Go, NodeTypeOK, Linked
            <4>2. CASE FindInfo(l)
                BY <1>0, <4>2 DEF FindInfo, Go, NodeTypeOK, Opened, Stored, Taken, Linked
            <4>3. CASE Relogin(l)
                BY <1>0, <4>3 DEF Relogin, Go, NodeTypeOK, Opened, Stored, Taken, Linked
            <4> QED BY <2>3, <4>1, <4>2, <4>3
        <3>2. UNCHANGED <<current, storedCurrent, links, authenticated, subject, overlapped>>
            BY <2>3 DEF FindLink, FindInfo, Relogin
        <3> QED BY <1>0, <2>0, <3>1, <3>2 DEF LoneLogin, Opened, Stored, Taken
    <2>4. ~Profile(l) /\ ~Refused(l) /\ ~LogoutStep(l)
        BY <1>0 DEF Profile, Refused, LogoutStep, LoggedOut, DeleteCurrent, Return, Failed,
            Go, NodeTypeOK, Opened, Stored, Taken, Linked
    <2> QED BY <1>7, <2>0, <2>1, <2>2, <2>3, <2>4 DEF CallStep, ProfileStep
<1> QED
    <2>1. ASSUME NEW s \in Sessions, s # l,
                 \/ s \in Logins /\ StartLogin(s)
                 \/ s \in Visits /\ VisitRedirect(s)
                 \/ StartLogout(s)
          PROVE  FALSE
        BY <1>0, <1>3, <2>1, OtherCalls DEF StartLogin, VisitRedirect, StartLogout
    <2>2. Sessions = Logins \union Visits /\ l \notin Visits
        BY DEF Sessions
    <2> QED BY <1>0, <1>1, <1>2, <1>4, <1>5, <1>6, <1>7, <2>1, <2>2 DEF NodeNext

(* Only a visitor comes to the redirect page. *)
LEMMA LoginVisitsNot ==
    ASSUME NodeInv, [NodeNext]_nodeVars, NEW l \in Logins, callPc[l] # "visiting"
    PROVE  callPc'[l] # "visiting"
<1>0. NodeTypeOK /\ l \in Sessions /\ l \notin Visits
    BY NodeAssumption DEF NodeInv, Sessions
<1>1. (StartLogin(l) \/ StartLogout(l) \/ LoginStep(l)) => callPc'[l] # "visiting"
    BY <1>0 DEF StartLogin, StartLogout, LoginStep, LoggedIn, SetCurrent, GetUser, SetUser,
        SetFails, Failed, Go, NodeTypeOK
<1>2. ProfileStep(l) => callPc'[l] # "visiting"
    BY <1>0 DEF ProfileStep, LinkSession, FindLink, FindInfo, Relogin, Profile, Return,
        SetFails, Failed, Go, NodeTypeOK
<1>3. (LogoutStep(l) \/ Refused(l)) => callPc'[l] # "visiting"
    BY <1>0 DEF LogoutStep, LoggedOut, DeleteCurrent, Refused, Return, Failed, Go, NodeTypeOK
<1>4. CASE UNCHANGED nodeVars
    BY <1>4 DEF nodeVars
<1> QED BY <1>0, <1>1, <1>2, <1>3, <1>4, OtherCalls DEF NodeNext, CallStep, Sessions

(* A login that no other call overlapped leaves its session behind as the  *)
(* current one, in memory and stored, and linked to its WebID.             *)
THEOREM LoneLoginLinkedCorrect == NodeSpec => LoneLoginLinked
<1> DEFINE Resolves == \A l \in Logins :
        (callPc[l] # "resolved" /\ callPc'[l] = "resolved" /\ l \notin overlapped) =>
            current = l /\ storedCurrent = l /\ links[AccountOf[l]] = l
<1>1. NodeInit => LoneLogins
    BY DEF NodeInit, LoneLogins, LoneLogin, Sessions, Opened, Stored, Taken, Linked
<1>2. NodeInv /\ LoneLogins /\ [NodeNext]_nodeVars => LoneLogins'
    BY LoneLoginStep, LoginVisitsNot DEF LoneLogins
<1>3. NodeInv /\ LoneLogins /\ [NodeNext]_nodeVars => [Resolves]_nodeVars
    <2> SUFFICES ASSUME NodeInv, LoneLogins, NodeNext, NEW l \in Logins,
                        callPc[l] # "resolved", callPc'[l] = "resolved", l \notin overlapped
                 PROVE  current = l /\ storedCurrent = l /\ links[AccountOf[l]] = l
        BY DEF nodeVars
    <2>0. NodeTypeOK /\ l \in Sessions /\ l \notin Visits
        BY NodeAssumption DEF NodeInv, Sessions
    <2>1. StartLogin(l) \/ StartLogout(l) \/ CallStep(l)
        BY <2>0, OtherCalls DEF NodeNext, Sessions
    <2>2. ~StartLogin(l) /\ ~StartLogout(l) /\ ~LoginStep(l) /\ ~LogoutStep(l) /\ ~Refused(l)
        BY <2>0 DEF StartLogin, StartLogout, LoginStep, LoggedIn, SetCurrent, GetUser, SetUser,
            LogoutStep, LoggedOut, DeleteCurrent, Refused, Return, SetFails, Failed, Go, NodeTypeOK
    <2>3. ~LinkSession(l) /\ ~FindLink(l) /\ ~FindInfo(l) /\ ~Relogin(l)
        BY <2>0 DEF LinkSession, FindLink, FindInfo, Relogin, SetFails, Failed, Go, NodeTypeOK
    <2>4. callPc[l] = "profile"
        BY <2>0, <2>1, <2>2, <2>3 DEF CallStep, ProfileStep, Profile
    <2> QED BY <2>4 DEF LoneLogins, LoneLogin, Opened, Stored, Taken, Linked
<1> QED BY <1>1, <1>2, <1>3, NodeInvariance, PTL DEF NodeSpec, LoneLoginLinked

(* A WebID that is linked stays linked: a call links the session that it   *)
(* has, not that it has none.                                              *)
LEMMA LinksStay ==
    ASSUME NodeTypeOK, [NodeNext]_nodeVars, NEW w \in WebIds, links[w] # NoSession
    PROVE  links'[w] # NoSession
<1>1. CASE links' = links
    BY <1>1
<1>2. ASSUME NEW s \in Sessions, LinkSession(s), links' # links PROVE links'[w] # NoSession
    <2>1. links' = [links EXCEPT ![WebIdOf(subject[s])] = subject[s]]
        BY <1>2 DEF LinkSession
    <2>2. WebIdOf(subject[s]) = w => subject[s] # NoSession
        BY NodeAssumption DEF WebIdOf, NodeTypeOK
    <2> QED BY <2>1, <2>2 DEF NodeTypeOK
<1>3. links' = links \/ \E s \in Sessions : LinkSession(s)
    BY DEF nodeVars, NodeNext, StartLogin, VisitLogin, VisitRedirect, StartLogout, CallStep,
        LoginStep, LoggedIn, SetCurrent, GetUser, SetUser, HandleIncomingRedirect, ProfileStep,
        FindLink, FindInfo, Relogin, Profile, LogoutStep, LoggedOut, DeleteCurrent, Refused
<1> QED BY <1>1, <1>2, <1>3

(* Once something is stored of a visitor's session, only its logout or the *)
(* login page takes it away.                                               *)
LEMMA UserKept ==
    ASSUME NodeTypeOK, [NodeNext]_nodeVars, NEW v \in Visits,
           user[v] # "absent", user'[v] = "absent"
    PROVE  VisitLogin(v) \/ LoggedOut(v)
<1> USE DEF NodeTypeOK
<1>0. v \in Sessions /\ v \notin Logins
    BY NodeAssumption DEF Sessions
<1>1. user' # user
    OBVIOUS
<1>2. \/ \E l \in Logins : LoggedIn(l) \/ SetUser(l)
      \/ \E x \in Visits : VisitLogin(x) \/ HandleIncomingRedirect(x)
      \/ \E s \in Sessions : Relogin(s) \/ LoggedOut(s)
    BY <1>1 DEF nodeVars, NodeNext, StartLogin, VisitRedirect, StartLogout, CallStep, LoginStep,
        SetCurrent, GetUser, ProfileStep, LinkSession, FindLink, FindInfo, Profile, LogoutStep,
        DeleteCurrent, Refused
<1>3. ASSUME NEW l \in Logins, LoggedIn(l) \/ SetUser(l) PROVE FALSE
    BY <1>0, <1>3 DEF LoggedIn, SetUser, Sessions
<1>4. ASSUME NEW s \in Sessions, Relogin(s) PROVE FALSE
    <2>1. PICK k \in {"known", "loggedIn"} : user' = [user EXCEPT ![found[s]] = k]
        BY <1>4 DEF Relogin
    <2> QED BY <1>0, <2>1
<1>5. ASSUME NEW x \in Visits, VisitLogin(x) \/ HandleIncomingRedirect(x) PROVE VisitLogin(v)
    BY <1>0, <1>5 DEF VisitLogin, HandleIncomingRedirect, Sessions
<1>6. ASSUME NEW s \in Sessions, LoggedOut(s) PROVE LoggedOut(v)
    BY <1>0, <1>6 DEF LoggedOut
<1> QED BY <1>2, <1>3, <1>4, <1>5, <1>6

LEMMA VisitStep ==
    ASSUME NodeInv, [NodeNext]_nodeVars, NEW v \in Visits, Visit(v)
    PROVE  Visit(v)'
<1> USE NodeAssumption
<1>0. NodeTypeOK /\ v \in Sessions /\ v \notin Logins /\ AccountOf[v] \in WebIds
    BY DEF NodeInv, Sessions
<1> DEFINE Known == user[v] = "absent" /\ v \in authenticated =>
                        callPc[v] \in {"deleteCurrent", "loggedOut"}
<1>1. links[AccountOf[v]] # NoSession => links'[AccountOf[v]] # NoSession
    BY <1>0, LinksStay
<1>2. CASE UNCHANGED <<callPc[v], subject[v]>> /\ (v \in authenticated' <=> v \in authenticated)
    <2>1. ASSUME VisitLogin(v) \/ LoggedOut(v) PROVE Known'
        BY <1>0, <2>1 DEF VisitLogin, LoggedOut, Go, NodeTypeOK, Visit
    <2>2. Known'
        BY <1>0, <1>2, <2>1, UserKept DEF Visit
    <2> QED BY <1>1, <1>2, <2>2 DEF Visit, Linked
<1>3. CASE VisitLogin(v) \/ VisitRedirect(v)
    BY <1>0, <1>3 DEF VisitLogin, VisitRedirect, Go, NodeTypeOK, Visit, Linked
<1>4. CASE HandleIncomingRedirect(v)
    BY <1>0, <1>4 DEF HandleIncomingRedirect, Go, NodeTypeOK, Visit, Linked
<1>5. CASE ProfileStep(v)
    <2>0. Known'
        <3>1. ~VisitLogin(v) /\ ~LoggedOut(v)
            BY <1>5 DEF ProfileStep, LinkSession, FindLink, FindInfo, Relogin, Profile,
                VisitLogin, LoggedOut
        <3>2. authenticated' = authenticated /\ callPc[v] \notin {"deleteCurrent", "loggedOut"}
            BY <1>5 DEF ProfileStep, LinkSession, FindLink, FindInfo, Relogin, Profile
        <3> QED BY <1>0, <3>1, <3>2, UserKept DEF Visit
    <2>1. CASE LinkSession(v)
        <3>1. subject[v] = v
            BY <2>1 DEF LinkSession, Visit
        <3>2. callPc'[v] \in {"findLink", "error"} /\ UNCHANGED <<subject, authenticated>>
            BY <1>0, <2>1 DEF LinkSession, SetFails, Failed, Go, NodeTypeOK
        <3>3. callPc'[v] = "findLink" => links' = [links EXCEPT ![WebIdOf(v)] = v]
            BY <1>0, <2>1, <3>1 DEF LinkSession, SetFails, Failed, Go, NodeTypeOK
        <3>4. callPc'[v] = "findLink" /\ v \in authenticated => links'[AccountOf[v]] = v
            BY <1>0, <3>3 DEF WebIdOf, NodeTypeOK
        <3> QED BY <1>0, <2>0, <3>1, <3>2, <3>4 DEF Visit, Linked
    <2>2. CASE FindLink(v)
        BY <1>0, <1>1, <2>0, <2>2 DEF FindLink, Go, NodeTypeOK, Visit, Linked
    <2>3. CASE FindInfo(v)
        <3>1. \/ callPc[v] = "findInfo" /\ callPc'[v] \in {"relogin", "profile"}
              \/ callPc[v] = "visiting" /\ callPc'[v] \in {"relogin", "error", "incoming"}
            BY <1>0, <2>3 DEF FindInfo, Go, NodeTypeOK
        <3>2. UNCHANGED <<subject, authenticated, links>>
            BY <2>3 DEF FindInfo
        <3> QED BY <2>0, <3>1, <3>2 DEF Visit, Linked
    <2>4. CASE Relogin(v)
        BY <1>0, <1>1, <2>0, <2>4 DEF Relogin, Go, NodeTypeOK, Visit, Linked
    <2>5. CASE Profile(v)
        BY <1>0, <2>0, <2>5 DEF Profile, Return, Go, NodeTypeOK, Visit, Linked
    <2> QED BY <1>5, <2>1, <2>2, <2>3, <2>4, <2>5 DEF ProfileStep
<1>6. CASE Refused(v)
    BY <1>0, <1>6 DEF Refused, Return, Failed, Go, NodeTypeOK, Visit, Linked
<1>7. CASE StartLogout(v) \/ LogoutStep(v)
    BY <1>0, <1>7 DEF StartLogout, LogoutStep, LoggedOut, DeleteCurrent, Go, NodeTypeOK, Visit,
        Linked
<1>8. CASE UNCHANGED nodeVars
    BY <1>8, <1>2 DEF nodeVars
<1> QED BY <1>0, <1>2, <1>3, <1>4, <1>5, <1>6, <1>7, <1>8, OtherCalls
        DEF NodeNext, CallStep, Sessions

(* A visitor that is let in can be found by its WebID: what is linked is   *)
(* the session of a visitor, and known unless that visitor has logged out. *)
THEOREM SuccessFindableCorrect == NodeSpec => SuccessFindable
<1> DEFINE Findable == \A v \in Visits :
        (/\ callPc[v] # "success" /\ callPc'[v] = "success"
         /\ \A l \in Logins : AccountOf[l] # AccountOf[v]) =>
            LET s == links[AccountOf[v]] IN
                /\ s \in Visits
                /\ user[s] = "absent" => callPc[s] \in {"deleteCurrent", "loggedOut"}
<1>1. NodeInit => VisitsSound
    BY DEF NodeInit, VisitsSound, Visit, Sessions, Linked
<1>2. NodeInv /\ VisitsSound /\ [NodeNext]_nodeVars => VisitsSound'
    BY VisitStep DEF VisitsSound
<1>3. NodeInv /\ VisitsSound /\ [NodeNext]_nodeVars => [Findable]_nodeVars
    <2> SUFFICES ASSUME NodeInv, VisitsSound, NodeNext, NEW v \in Visits,
                        callPc[v] # "success", callPc'[v] = "success",
                        \A l \in Logins : AccountOf[l] # AccountOf[v]
                 PROVE  /\ links[AccountOf[v]] \in Visits
                        /\ user[links[AccountOf[v]]] = "absent" =>
                             callPc[links[AccountOf[v]]] \in {"deleteCurrent", "loggedOut"}
        BY DEF nodeVars
    <2>0. NodeTypeOK /\ v \in Sessions /\ v \notin Logins /\ AccountOf[v] \in WebIds
        BY NodeAssumption DEF NodeInv, Sessions
    <2>1. \/ VisitLogin(v) \/ VisitRedirect(v) \/ StartLogout(v) \/ CallStep(v)
        BY <2>0, OtherCalls DEF NodeNext, Sessions
    <2>2. ~VisitLogin(v) /\ ~VisitRedirect(v) /\ ~HandleIncomingRedirect(v)
          /\ ~StartLogout(v) /\ ~LogoutStep(v) /\ ~Refused(v)
        BY <2>0 DEF VisitLogin, VisitRedirect, HandleIncomingRedirect, StartLogout, LogoutStep,
            LoggedOut, DeleteCurrent, Refused, Return, Failed, Go, NodeTypeOK
    <2>3. ~LinkSession(v) /\ ~FindLink(v) /\ ~FindInfo(v) /\ ~Relogin(v)
        BY <2>0 DEF LinkSession, FindLink, FindInfo, Relogin, SetFails, Failed, Go, NodeTypeOK
    <2>4. callPc[v] = "profile" /\ v \in authenticated
        BY <2>0, <2>1, <2>2, <2>3 DEF CallStep, ProfileStep, Profile, Return, Go, NodeTypeOK
    <2>5. links[AccountOf[v]] # NoSession
        BY <2>4 DEF VisitsSound, Visit, Linked
    <2>6. links[AccountOf[v]] \in authenticated /\ AccountOf[links[AccountOf[v]]] = AccountOf[v]
        BY <2>0, <2>5 DEF NodeInv, LinksOwnWebId
    <2>7. links[AccountOf[v]] \in Visits
        BY <2>0, <2>6 DEF NodeTypeOK, Sessions
    <2> QED BY <2>6, <2>7 DEF VisitsSound, Visit
<1> QED BY <1>1, <1>2, <1>3, NodeInvariance, PTL DEF NodeSpec, SuccessFindable
============================================================================
