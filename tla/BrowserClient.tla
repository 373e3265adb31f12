---------------------------- MODULE BrowserClient ----------------------------
(***************************************************************************)
(* The session of a web application (browser/SolidClientService): login    *)
(* sends the user to the issuer, and handleLogin, which every page load    *)
(* runs, takes the answer of the issuer from the URL or restores the       *)
(* session that is stored.  With it come ClientRegistrar.getClient and     *)
(* IssuerConfigFetcher.fetchConfig, which only this code calls.            *)
(*                                                                         *)
(* A page load forgets everything but the storage and the URL, at any      *)
(* moment.  A step is a request (to storage, issuer or Pod) with the code  *)
(* that runs until the next one.  The library's own session.login, logout  *)
(* and handleIncomingRedirect, and the issuer, are external.               *)
(***************************************************************************)
EXTENDS Naturals, FiniteSets

CONSTANTS
    BrowserSessions,   \* one for each call of login
    Nobody,
    PlainUrl,          \* the URL without code and state
    MaxLoads,
    MaxBrowserFaults

ASSUME BrowserAssumption ==
    /\ Nobody \notin BrowserSessions
    /\ PlainUrl \notin BrowserSessions
    /\ MaxLoads \in Nat
    /\ MaxBrowserFaults \in Nat

VARIABLES
    \* the storage and the issuer
    currentKey,      \* the stored currentSession
    userData,        \* what is stored of each session
    tokens,          \* the sessions with stored tokens
    clients,         \* the sessions with a stored client
    codes,           \* the code that the issuer gave for each session
    \* the page
    url,             \* PlainUrl, or the session in the URL's state
    chain,           \* what handleLogin does next
    chainId,         \* the session it has found stored
    shown,           \* this.session
    answer,          \* how its promise was settled
    loginEvent,      \* with whom the login event was emitted, if it was
    loginPc,         \* what each login does next
    logoutPc,
    \* history
    loads,
    browserFaults,
    ended,           \* the sessions whose logout has taken effect
    expected         \* the session that this page load should show

storageVars == <<currentKey, userData, tokens, clients, codes>>
chainVars == <<chain, chainId, shown, answer, loginEvent>>
appVars == <<loginPc, logoutPc, ended, expected>>
pageVars == <<url, loads>>
browserVars == <<storageVars, chainVars, appVars, pageVars, browserFaults>>

OrNobody == BrowserSessions \union {Nobody}

BrowserTypeOK ==
    /\ currentKey \in OrNobody
    /\ userData \in [BrowserSessions -> {"absent", "begun", "loggedIn"}]
    /\ tokens \subseteq BrowserSessions
    /\ clients \subseteq BrowserSessions
    /\ codes \in [BrowserSessions -> {"none", "issued", "used"}]
    /\ url \in BrowserSessions \union {PlainUrl}
    /\ chain \in {"getCurrent", "findInfo", "redirect", "restore", "incoming", "context",
                  "config", "client", "tokens", "storeTokens", "storeUser", "readUser",
                  "loggedIn", "setCurrent", "profile", "forget", "emit", "done"}
    /\ chainId \in OrNobody
    /\ shown \in OrNobody
    /\ answer \in {"pending", "nobody", "session", "failed"}
    /\ loginEvent \in OrNobody \union {"none"}
    /\ loginPc \in [BrowserSessions -> {"new", "setCurrent", "login", "away", "ended"}]
    /\ logoutPc \in {"none", "logout", "forget"}
    /\ loads \in 0..MaxLoads
    /\ browserFaults \in 0..MaxBrowserFaults
    /\ ended \subseteq BrowserSessions
    /\ expected \in OrNobody

BrowserInit ==
    /\ currentKey = Nobody
    /\ userData = [s \in BrowserSessions |-> "absent"]
    /\ tokens = {} /\ clients = {}
    /\ codes = [s \in BrowserSessions |-> "none"]
    /\ url = PlainUrl
    /\ chain = "getCurrent" /\ chainId = Nobody /\ shown = Nobody
    /\ answer = "pending" /\ loginEvent = "none"
    /\ loginPc = [s \in BrowserSessions |-> "new"]
    /\ logoutPc = "none"
    /\ loads = 0 /\ browserFaults = 0
    /\ ended = {}
    /\ expected = Nobody

(* handleLogin comes to its next request, with nothing else changed. *)
GoOn(step) ==
    /\ chain' = step
    /\ UNCHANGED <<storageVars, appVars, pageVars, chainId, shown, answer, loginEvent, browserFaults>>

(* The first answer is the one that counts. *)
Answer(a) == answer' = IF answer = "pending" THEN a ELSE answer

(* handleRedirect catches an error and emits it; then nobody is logged in. *)
(* If nobody listens for "error", emit throws, and handleLogin is rejected *)
(* at once.                                                                *)
Caught ==
    \/ chain' = "forget" /\ UNCHANGED answer
    \/ chain' = "done" /\ Answer("failed")

Throw ==
    /\ Caught
    /\ UNCHANGED <<storageVars, appVars, pageVars, chainId, shown, loginEvent, browserFaults>>

(* SolidStorage: a get that fails finds nothing, a delete that fails       *)
(* deletes nothing.                                                        *)
BrowserStorageFails ==
    /\ browserFaults < MaxBrowserFaults
    /\ browserFaults' = browserFaults + 1

Restorable(s) == s \in tokens /\ userData[s] = "loggedIn"

----------------------------------------------------------------------------
(* A page load: the user reloads the page, or comes from the issuer, with  *)
(* a code if it has agreed.  Calls of the page before are gone.            *)
LoadPage ==
    /\ loads < MaxLoads
    /\ loads' = loads + 1
    /\ \/ url' \in {url, PlainUrl} /\ UNCHANGED codes
       \/ \E s \in BrowserSessions :
            /\ loginPc[s] = "away" /\ codes[s] = "none"
            /\ codes' = [codes EXCEPT ![s] = "issued"]
            /\ url' = s
    /\ chain' = "getCurrent" /\ chainId' = Nobody /\ shown' = Nobody
    /\ answer' = "pending" /\ loginEvent' = "none"
    /\ loginPc' = [s \in BrowserSessions |->
                     IF loginPc[s] \in {"setCurrent", "login"} THEN "ended" ELSE loginPc[s]]
    /\ logoutPc' = "none"
    /\ expected' = CASE url' # PlainUrl /\ codes'[url'] = "issued" -> url'
                      [] url' = PlainUrl /\ currentKey # Nobody /\ Restorable(currentKey) -> currentKey
                      [] OTHER -> Nobody
    /\ UNCHANGED <<currentKey, userData, tokens, clients, browserFaults, ended>>

----------------------------------------------------------------------------
(* handleLogin.  Without a current session it is answered, and goes on. *)
GetCurrent ==
    /\ chain = "getCurrent"
    /\ chainId' = currentKey
    /\ IF currentKey = Nobody
       THEN Answer("nobody") /\ chain' = "redirect"
       ELSE UNCHANGED answer /\ chain' = "findInfo"
    /\ UNCHANGED <<storageVars, appVars, pageVars, shown, loginEvent, browserFaults>>

(* The session is created with what is known of it, if anything is. *)
FindSessionInfo ==
    /\ chain = "findInfo"
    /\ GoOn("redirect")

(* Mutant of HandleRedirect: the stored tokens are not looked for. *)
HandleRedirectInUrl ==
    /\ chain = "redirect"
    /\ GoOn(IF url # PlainUrl THEN "context" ELSE "incoming")

(* handleRedirect: which way it goes. *)
HandleRedirect ==
    /\ chain = "redirect"
    /\ GoOn(CASE url # PlainUrl -> "context"
                  [] url = PlainUrl /\ chainId \in tokens -> "restore"
                  [] OTHER -> "incoming")

(* Mutant of RestoreSession: the session information is not asked for. *)
RestoreUnknownSession ==
    /\ chain = "restore"
    /\ GoOn("config")

(* With tokens: the session information is asked for, and that there is    *)
(* none is an error.                                                       *)
RestoreSession ==
    /\ chain = "restore"
    /\ \/ userData[chainId] = "loggedIn" /\ GoOn("config")
       \/ userData[chainId] = "begun" /\ GoOn("forget")
       \/ userData[chainId] = "absent" /\ Throw

(* Without: session.handleIncomingRedirect, which finds nothing in the URL. *)
HandleIncoming ==
    /\ chain = "incoming"
    /\ GoOn("forget")

(* The stored context of the session in the URL, not of the current one. *)
OidcContext ==
    /\ chain = "context"
    /\ IF userData[url] = "absent" THEN Throw ELSE GoOn("config")

(* fetchConfig: the issuer is asked for its configuration on every load;   *)
(* what is stored of it is for the library.                                *)
FetchConfig ==
    /\ chain = "config"
    /\ GoOn(IF url = PlainUrl THEN "loggedIn" ELSE "client")

(* getClient: the stored client, or a new one. *)
GetClient ==
    /\ chain = "client"
    /\ chain' = "tokens"
    /\ clients' = clients \union {url}
    /\ UNCHANGED <<currentKey, userData, tokens, codes, appVars, pageVars, chainId, shown, answer,
                   loginEvent, browserFaults>>

(* A code is good for one use. *)
GetTokens ==
    /\ chain = "tokens"
    /\ codes' = [codes EXCEPT ![url] = "used"]
    /\ IF codes[url] = "issued" THEN chain' = "storeTokens" /\ UNCHANGED answer ELSE Caught
    /\ UNCHANGED <<currentKey, userData, tokens, clients, appVars, pageVars, chainId, shown,
                   loginEvent, browserFaults>>

StoreTokens ==
    /\ chain = "storeTokens"
    /\ tokens' = tokens \union {url}
    /\ chain' = "storeUser"
    /\ UNCHANGED <<currentKey, userData, clients, codes, appVars, pageVars, chainId, shown, answer,
                   loginEvent, browserFaults>>

StoreLoggedIn ==
    /\ chain = "storeUser"
    /\ userData' = [userData EXCEPT ![url] = "loggedIn"]
    /\ chain' = "readUser"
    /\ UNCHANGED <<currentKey, tokens, clients, codes, appVars, pageVars, chainId, shown, answer,
                   loginEvent, browserFaults>>

(* Mutant of TakeSession: the session keeps the identifier it had. *)
TakeDataOnly ==
    /\ chain = "readUser"
    /\ url' = PlainUrl
    /\ chain' = "loggedIn"
    /\ UNCHANGED <<storageVars, appVars, loads, chainId, shown, answer, loginEvent, browserFaults>>

(* What is stored of the session in the URL is read again.  The URL loses  *)
(* its code, and the session of the page becomes that one; it is not       *)
(* logged in if that was not read.                                         *)
TakeSession ==
    /\ chain = "readUser"
    /\ chainId' = url
    /\ url' = PlainUrl
    /\ \/ chain' = "loggedIn" /\ UNCHANGED browserFaults
       \/ chain' = "forget" /\ BrowserStorageFails
    /\ UNCHANGED <<storageVars, appVars, loads, shown, answer, loginEvent>>

ShowSession ==
    /\ chain = "loggedIn"
    /\ shown' = chainId
    /\ chain' = "setCurrent"
    /\ UNCHANGED <<storageVars, appVars, pageVars, chainId, answer, loginEvent, browserFaults>>

KeepSession ==
    /\ chain = "setCurrent"
    /\ currentKey' = chainId
    /\ chain' = "profile"
    /\ UNCHANGED <<userData, tokens, clients, codes, appVars, pageVars, chainId, shown, answer,
                   loginEvent, browserFaults>>

StoreProfile ==
    /\ chain = "profile"
    /\ GoOn("emit")

(* Mutant of ForgetSession: nothing is rejected. *)
ForgetSilently ==
    /\ chain = "forget"
    /\ currentKey' = Nobody
    /\ chain' = "done"
    /\ UNCHANGED <<userData, tokens, clients, codes, appVars, pageVars, chainId, shown, answer,
                   loginEvent, browserFaults>>

(* Nobody is logged in: handleLogin is rejected, and goes on. *)
ForgetSession ==
    /\ chain = "forget"
    /\ currentKey' = Nobody
    /\ Answer("failed")
    /\ chain' = "emit"
    /\ UNCHANGED <<userData, tokens, clients, codes, appVars, pageVars, chainId, shown,
                   loginEvent, browserFaults>>

EmitLogin ==
    /\ chain = "emit"
    /\ loginEvent' = shown
    /\ Answer("session")
    /\ chain' = "done"
    /\ UNCHANGED <<storageVars, appVars, pageVars, chainId, shown, browserFaults>>

(* Storage, issuer or Pod fail: within handleRedirect an error is caught,  *)
(* elsewhere it rejects handleLogin.                                       *)
ChainFails ==
    /\ BrowserStorageFails
    /\ \/ chain = "getCurrent" /\ chain' = "redirect" /\ Answer("nobody") /\ UNCHANGED codes
       \/ /\ chain = "redirect" /\ url = PlainUrl
          /\ chain' = "incoming"
          /\ UNCHANGED <<answer, codes>>
       \/ /\ chain \in {"restore", "context", "config", "client", "tokens", "storeTokens",
                        "storeUser", "readUser"}
          /\ Caught
          /\ codes' \in {codes, IF chain = "tokens" THEN [codes EXCEPT ![url] = "used"] ELSE codes}
       \/ /\ chain \in {"findInfo", "incoming", "setCurrent", "profile"}
          /\ chain' = "done" /\ Answer("failed")
          /\ UNCHANGED codes
       \/ chain = "forget" /\ chain' = "emit" /\ Answer("failed") /\ UNCHANGED codes
    /\ UNCHANGED <<currentKey, userData, tokens, clients, appVars, pageVars, chainId, shown, loginEvent>>

HandleLogin ==
    \/ GetCurrent \/ FindSessionInfo \/ HandleRedirect
    \/ RestoreSession \/ HandleIncoming
    \/ OidcContext \/ FetchConfig \/ GetClient \/ GetTokens
    \/ StoreTokens \/ StoreLoggedIn \/ TakeSession
    \/ ShowSession \/ KeepSession \/ StoreProfile
    \/ ForgetSession \/ EmitLogin

----------------------------------------------------------------------------
(* login: the new session is the current one before the issuer is asked.   *)
BrowserLogin(s) ==
    /\ loginPc[s] = "new"
    /\ answer # "pending"
    /\ loginPc' = [loginPc EXCEPT ![s] = "setCurrent"]
    /\ expected' = Nobody
    /\ UNCHANGED <<storageVars, chainVars, pageVars, logoutPc, ended, browserFaults>>

SetCurrentSession(s) ==
    /\ loginPc[s] = "setCurrent"
    /\ \/ /\ currentKey' = s
          /\ loginPc' = [loginPc EXCEPT ![s] = "login"]
          /\ UNCHANGED browserFaults
       \/ /\ BrowserStorageFails
          /\ loginPc' = [loginPc EXCEPT ![s] = "ended"]
          /\ UNCHANGED currentKey
    /\ UNCHANGED <<userData, tokens, clients, codes, chainVars, pageVars, logoutPc, ended,
                   expected>>

(* session.login stores what the redirect will need and leaves the page,   *)
(* or fails.                                                               *)
GoToIssuer(s) ==
    /\ loginPc[s] = "login"
    /\ \/ /\ loginPc' = [loginPc EXCEPT ![s] = "away"]
          /\ userData' = [userData EXCEPT ![s] = "begun"]
          /\ clients' \in {clients, clients \union {s}}
       \/ /\ loginPc' = [loginPc EXCEPT ![s] = "ended"]
          /\ UNCHANGED <<userData, clients>>
    /\ UNCHANGED <<currentKey, tokens, codes, chainVars, pageVars, logoutPc, ended, expected,
                   browserFaults>>

----------------------------------------------------------------------------
(* Mutant of StartLoggingOut: nobody has to be logged in. *)
StartLoggingNobodyOut ==
    /\ logoutPc = "none"
    /\ logoutPc' = "logout"
    /\ expected' = Nobody
    /\ UNCHANGED <<storageVars, chainVars, pageVars, loginPc, ended, browserFaults>>

(* logout of the session of the page *)
StartLoggingOut ==
    /\ logoutPc = "none"
    /\ shown # Nobody
    /\ logoutPc' = "logout"
    /\ expected' = Nobody
    /\ UNCHANGED <<storageVars, chainVars, pageVars, loginPc, ended, browserFaults>>

(* session.logout deletes what is stored of the session, except its        *)
(* tokens, if the storage does.                                            *)
SessionLoggedOut ==
    /\ logoutPc = "logout"
    /\ \/ /\ userData' = [userData EXCEPT ![shown] = "absent"]
          /\ ended' = ended \union {shown}
          /\ UNCHANGED browserFaults
       \/ BrowserStorageFails /\ UNCHANGED <<userData, ended>>
    /\ shown' = Nobody
    /\ logoutPc' = "forget"
    /\ UNCHANGED <<currentKey, tokens, clients, codes, chain, chainId, answer, loginEvent, pageVars,
                   loginPc, expected>>

(* Without currentSession no page finds the session, unless a handleLogin  *)
(* that has shown it has yet to store that it is the current one.          *)
ForgetCurrent ==
    /\ logoutPc = "forget"
    /\ \/ /\ currentKey' = Nobody
          /\ ended' = IF chain = "setCurrent" THEN ended ELSE ended \union {chainId}
          /\ UNCHANGED browserFaults
       \/ BrowserStorageFails /\ UNCHANGED <<currentKey, ended>>
    /\ logoutPc' = "none"
    /\ UNCHANGED <<userData, tokens, clients, codes, chainVars, pageVars, loginPc, expected>>

Application ==
    \/ \E s \in BrowserSessions : BrowserLogin(s) \/ SetCurrentSession(s) \/ GoToIssuer(s)
    \/ StartLoggingOut \/ SessionLoggedOut \/ ForgetCurrent

BrowserNext == LoadPage \/ HandleLogin \/ ChainFails \/ Application

BrowserSpec == BrowserInit /\ [][BrowserNext]_browserVars

(* The event loop runs the callbacks of a page that stays open. *)
BrowserFairness == WF_browserVars(HandleLogin)

----------------------------------------------------------------------------
(* The stages of handleLogin in which it takes an answer from the URL, and *)
(* those in which it has not shown a session yet.                          *)
FromUrl == {"context", "client", "tokens", "storeTokens", "storeUser", "readUser"}
Unshown ==
    {"getCurrent", "findInfo", "redirect", "restore", "incoming", "config", "loggedIn"} \union FromUrl

StageOf(s) ==
    CASE s \in ended -> "over"
      [] s \notin ended /\ userData[s] = "loggedIn" -> "confirmed"
      [] s \notin ended /\ userData[s] # "loggedIn" /\ codes[s] = "used" -> "redeemed"
      [] s \notin ended /\ userData[s] = "begun" /\ codes[s] # "used" -> "away"
      [] s \notin ended /\ userData[s] = "absent" /\ codes[s] # "used" -> "new"

Stages == [s \in BrowserSessions |-> StageOf(s)]

Restored == chain = "loggedIn" \/ (chain = "config" /\ url = PlainUrl)

ChosenSession ==
    IF chain \in {"storeTokens", "storeUser", "readUser"} THEN url
    ELSE IF Restored THEN chainId ELSE Nobody

Page == INSTANCE PageSession WITH
    Sessions <- BrowserSessions,
    stage <- Stages,
    fresh <- chain \in Unshown,
    choice <- ChosenSession

(* Wherever page loads and failures interrupt handleLogin, a session is    *)
(* confirmed by the page that used its code and no other, and what a page  *)
(* shows was confirmed and not logged out: storage, code and callbacks     *)
(* keep what PageSession promises.                                         *)
ImplementsPage == Page!Spec

(* A logout that has taken effect lasts: once what is stored of the        *)
(* session is deleted, or that it is the current one, no reload between    *)
(* the two and no rest of a handleLogin brings it back.  (One whose delete *)
(* the storage has swallowed may come back: it is reloaded before the      *)
(* other delete, or that one is swallowed as well.)                        *)
LogoutLasts == shown \notin ended

(* The session of the page has tokens and is stored as logged in: a        *)
(* redirect is never credited to a session that did not get the code.      *)
ShownIsLoggedIn == shown # Nobody => Restorable(shown)

(* A page load ends with the session it should show: the one whose unused  *)
(* code is in its URL, or else the stored one that was logged in, unless a *)
(* request fails or the application starts a login or a logout.  What an   *)
(* earlier page left behind, where it was interrupted, makes no difference.*)
LoadShowsSession ==
    (chain = "done" /\ expected # Nobody /\ browserFaults = 0) =>
        answer # "failed" /\ shown = expected /\ currentKey = expected

(* However often storage, issuer and Pod fail, handleLogin is answered: a  *)
(* page that stays open is told that a login has failed.  (With a listener *)
(* for "error", that is: "A login error should not break the build         *)
(* process" (:43) asks for the same of the build, which is not answered    *)
(* when the emit of :42 throws.)                                           *)
LoginAnswered == answer = "pending" ~> answer # "pending"
============================================================================
