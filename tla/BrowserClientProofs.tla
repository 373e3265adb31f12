------------------------- MODULE BrowserClientProofs -------------------------
(***************************************************************************)
(* What is proved of BrowserClient, for any number of logins, page loads   *)
(* and failures; and, at the end, of either client, as they are checked.   *)
(***************************************************************************)
EXTENDS MCClients, NodeClientProofs, TLAPS

(* A code is in the URL only once it was issued, to a login that left the  *)
(* page, and whoever has tokens has used theirs.                           *)
CodesUsed ==
    /\ url # PlainUrl => codes[url] # "none"
    /\ \A s \in BrowserSessions : codes[s] # "none" => loginPc[s] = "away"
    /\ \A s \in tokens : codes[s] = "used"

(* What each stage of handleLogin relies on. *)
ChainSound ==
    /\ chain \in Unshown => shown = Nobody
    /\ chain \in FromUrl => url # PlainUrl
    /\ chain = "restore" => chainId \in tokens
    /\ chain \in {"storeTokens", "storeUser", "readUser"} =>
           url \notin ended /\ codes[url] = "used"
    /\ chain \in {"storeUser", "readUser"} => url \in tokens
    /\ chain = "readUser" => userData[url] = "loggedIn"
    /\ (chain = "loggedIn" \/ (chain = "config" /\ url = PlainUrl)) =>
           chainId \in BrowserSessions /\ Restorable(chainId)

(* No page finds a session that is not the current one, and handleLogin    *)
(* does not have it either or has stored what the current one is.          *)
Forgotten(s) ==
    /\ currentKey # s
    /\ chainId = s => shown = Nobody /\ chain \notin Unshown \union {"setCurrent"}

(* A session that was logged out had tokens, which are still stored, but   *)
(* nothing else is stored of it, or that it is the current one.            *)
EndedSound ==
    /\ ended \subseteq tokens
    /\ \A s \in ended : userData[s] = "absent" \/ Forgotten(s)

(* A logout is one of the session that handleLogin has shown. *)
LogoutSound ==
    /\ shown # Nobody => shown = chainId
    /\ logoutPc = "logout" => shown # Nobody
    /\ logoutPc = "forget" =>
         /\ shown = Nobody /\ chain \notin Unshown
         /\ chainId \in tokens
         /\ chainId \in ended \/ userData[chainId] = "loggedIn"

SoundParts == CodesUsed /\ ChainSound /\ EndedSound /\ LogoutSound /\ ShownIsLoggedIn

BrowserInv == BrowserTypeOK /\ SoundParts

LEMMA BrowserInitial == BrowserInit => BrowserInv
BY BrowserAssumption
   DEF BrowserInit, BrowserInv, BrowserTypeOK, OrNobody, SoundParts, CodesUsed, ChainSound,
       EndedSound, LogoutSound, ShownIsLoggedIn, FromUrl, Unshown

----------------------------------------------------------------------------
LEMMA LoadPageKeeps == ASSUME BrowserInv, LoadPage PROVE BrowserInv'
<1> USE BrowserAssumption DEF BrowserInv, SoundParts
<1>1. BrowserTypeOK'
    BY DEF LoadPage, BrowserTypeOK, OrNobody, Restorable
<1>2. /\ chain' = "getCurrent" /\ chainId' = Nobody /\ shown' = Nobody /\ logoutPc' = "none"
      /\ UNCHANGED <<userData, tokens, ended, currentKey>>
    BY DEF LoadPage
<1>3. ChainSound' /\ LogoutSound' /\ ShownIsLoggedIn'
    BY <1>2 DEF ChainSound, LogoutSound, ShownIsLoggedIn, FromUrl, Unshown
<1>4. EndedSound'
    BY <1>2 DEF EndedSound, Forgotten, BrowserTypeOK
<1>5. CodesUsed'
    BY DEF LoadPage, CodesUsed, BrowserTypeOK
<1> QED BY <1>1, <1>3, <1>4, <1>5

(* The stages before a session is shown: one that was logged out is not    *)
(* taken up.                                                               *)
LEMMA FindKeeps ==
    ASSUME BrowserInv,
           GetCurrent \/ FindSessionInfo \/ HandleRedirect \/ RestoreSession
             \/ HandleIncoming \/ OidcContext \/ FetchConfig
    PROVE  BrowserInv'
<1> USE BrowserAssumption DEF BrowserInv, SoundParts
<1> USE DEF storageVars, appVars, pageVars, GoOn, Answer, OrNobody, Throw, Caught
<1>1. BrowserTypeOK'
    BY DEF GetCurrent, FindSessionInfo, HandleRedirect, RestoreSession,
           HandleIncoming, OidcContext, FetchConfig, BrowserTypeOK
<1>2. /\ UNCHANGED <<storageVars, appVars, pageVars, shown>>
      /\ chain \in Unshown
      /\ chainId' = chainId \/ chainId' = currentKey
    BY DEF GetCurrent, FindSessionInfo, HandleRedirect, RestoreSession,
           HandleIncoming, OidcContext, FetchConfig, Unshown, FromUrl
<1>3. CodesUsed' /\ ShownIsLoggedIn' /\ LogoutSound'
    BY <1>2 DEF CodesUsed, ShownIsLoggedIn, Restorable, ChainSound, LogoutSound
<1>4. EndedSound'
    BY <1>2 DEF EndedSound, Forgotten, BrowserTypeOK
<1>5. ChainSound'
    BY <1>2 DEF GetCurrent, FindSessionInfo, HandleRedirect, RestoreSession, HandleIncoming,
           OidcContext, FetchConfig, ChainSound, Restorable, FromUrl, Unshown, BrowserTypeOK
<1> QED BY <1>1, <1>3, <1>4, <1>5

LEMMA RedeemKeeps ==
    ASSUME BrowserInv, GetClient \/ GetTokens \/ StoreTokens \/ StoreLoggedIn \/ TakeSession
    PROVE  BrowserInv'
<1> USE BrowserAssumption DEF BrowserInv, SoundParts
<1> USE DEF storageVars, appVars, pageVars, Answer, OrNobody, Caught, BrowserStorageFails
<1>1. /\ chain \in FromUrl /\ url \in BrowserSessions /\ shown = Nobody
      /\ UNCHANGED <<currentKey, appVars, shown, loads>>
    BY DEF GetClient, GetTokens, StoreTokens, StoreLoggedIn, TakeSession, BrowserTypeOK,
           ChainSound, FromUrl, Unshown
<1>2. BrowserTypeOK'
    BY <1>1 DEF GetClient, GetTokens, StoreTokens, StoreLoggedIn, TakeSession, BrowserTypeOK
<1>3. CodesUsed'
    BY <1>1 DEF GetClient, GetTokens, StoreTokens, StoreLoggedIn, TakeSession, BrowserTypeOK,
           CodesUsed, ChainSound
<1>4. ShownIsLoggedIn' /\ LogoutSound'
    BY <1>1 DEF ShownIsLoggedIn, LogoutSound, Unshown
<1>5. EndedSound'
    <2>1. CASE GetClient \/ GetTokens \/ StoreTokens
        BY <1>1, <2>1 DEF GetClient, GetTokens, StoreTokens, EndedSound, Forgotten, Unshown,
               BrowserTypeOK
    <2>2. CASE StoreLoggedIn
        BY <1>1, <2>2 DEF StoreLoggedIn, EndedSound, Forgotten, Unshown, ChainSound,
               BrowserTypeOK
    <2>3. CASE TakeSession
        BY <1>1, <2>3 DEF TakeSession, EndedSound, Forgotten, Unshown, ChainSound, BrowserTypeOK
    <2> QED BY <2>1, <2>2, <2>3
<1>6. ChainSound'
    BY <1>1 DEF GetClient, GetTokens, StoreTokens, StoreLoggedIn, TakeSession, BrowserTypeOK,
           ChainSound, Restorable, FromUrl, Unshown, CodesUsed, EndedSound
<1> QED BY <1>2, <1>3, <1>4, <1>5, <1>6

LEMMA ShowKeeps ==
    ASSUME BrowserInv, ShowSession \/ KeepSession \/ StoreProfile \/ ForgetSession \/ EmitLogin
    PROVE  BrowserInv'
<1> USE BrowserAssumption DEF BrowserInv, SoundParts
<1> USE DEF storageVars, appVars, pageVars, GoOn, Answer, OrNobody
<1>1. BrowserTypeOK'
    BY DEF ShowSession, KeepSession, StoreProfile, ForgetSession, EmitLogin, BrowserTypeOK
<1>2. UNCHANGED <<userData, tokens, codes, url, chainId, loginPc, logoutPc, ended>>
    BY DEF ShowSession, KeepSession, StoreProfile, ForgetSession, EmitLogin
<1>3. CodesUsed'
    BY <1>2 DEF CodesUsed
<1>4. ShownIsLoggedIn' /\ LogoutSound' /\ ChainSound'
    BY <1>2 DEF ShowSession, KeepSession, StoreProfile, ForgetSession, EmitLogin,
           ShownIsLoggedIn, LogoutSound, ChainSound, Restorable, FromUrl, Unshown
<1>5. EndedSound'
    BY <1>2 DEF ShowSession, KeepSession, StoreProfile, ForgetSession, EmitLogin, EndedSound,
           Forgotten, ChainSound, Restorable, Unshown, FromUrl, BrowserTypeOK
<1> QED BY <1>1, <1>3, <1>4, <1>5

LEMMA HandleLoginKeeps == ASSUME BrowserInv, HandleLogin PROVE BrowserInv'
BY FindKeeps, RedeemKeeps, ShowKeeps DEF HandleLogin

LEMMA ChainFailsKeeps == ASSUME BrowserInv, ChainFails PROVE BrowserInv'
<1> USE BrowserAssumption DEF BrowserInv, SoundParts
<1> USE DEF Answer, appVars, pageVars, OrNobody, Caught, BrowserStorageFails
<1>1. BrowserTypeOK'
    BY DEF ChainFails, BrowserTypeOK
<1>2. UNCHANGED <<currentKey, userData, tokens, url, chainId, shown, loginPc, logoutPc, ended>>
    BY DEF ChainFails
<1>3. ShownIsLoggedIn' /\ LogoutSound' /\ EndedSound'
    BY <1>2 DEF ChainFails, ShownIsLoggedIn, LogoutSound, EndedSound, Forgotten, Restorable,
           FromUrl, Unshown, BrowserTypeOK
<1>4. CodesUsed'
    BY <1>2 DEF ChainFails, CodesUsed, BrowserTypeOK, ChainSound, FromUrl
<1>5. ChainSound'
    BY <1>2 DEF ChainFails, ChainSound, FromUrl, Unshown, Restorable, BrowserTypeOK
<1> QED BY <1>1, <1>3, <1>4, <1>5

(* A login changes what is stored of its own session, which has no tokens. *)
LEMMA LoginKeeps ==
    ASSUME BrowserInv, NEW s \in BrowserSessions,
           BrowserLogin(s) \/ SetCurrentSession(s) \/ GoToIssuer(s)
    PROVE  BrowserInv'
<1> USE BrowserAssumption DEF BrowserInv, SoundParts
<1> USE DEF storageVars, chainVars, pageVars, OrNobody, BrowserStorageFails
<1>1. BrowserTypeOK'
    BY DEF BrowserLogin, SetCurrentSession, GoToIssuer, BrowserTypeOK
<1>2. s \notin tokens \/ UNCHANGED <<userData, currentKey>>
    BY DEF BrowserLogin, SetCurrentSession, GoToIssuer, CodesUsed
<1>3. EndedSound' /\ LogoutSound'
    BY <1>2 DEF BrowserLogin, SetCurrentSession, GoToIssuer, EndedSound, LogoutSound, Forgotten,
           BrowserTypeOK
<1>4. CodesUsed' /\ ShownIsLoggedIn'
    BY <1>2 DEF BrowserLogin, SetCurrentSession, GoToIssuer, BrowserTypeOK, CodesUsed,
           ShownIsLoggedIn, Restorable
<1>5. ChainSound'
    BY <1>2 DEF BrowserLogin, SetCurrentSession, GoToIssuer, BrowserTypeOK, CodesUsed,
           ChainSound, FromUrl, Unshown, Restorable
<1> QED BY <1>1, <1>3, <1>4, <1>5

LEMMA LogoutKeeps ==
    ASSUME BrowserInv, StartLoggingOut \/ SessionLoggedOut \/ ForgetCurrent
    PROVE  BrowserInv'
<1> USE BrowserAssumption DEF BrowserInv, SoundParts
<1> USE DEF storageVars, chainVars, pageVars, OrNobody, BrowserStorageFails
<1>1. CASE StartLoggingOut
    BY <1>1 DEF StartLoggingOut, BrowserTypeOK, CodesUsed, ChainSound, EndedSound, Forgotten,
           LogoutSound, ShownIsLoggedIn, Restorable
<1>2. CASE SessionLoggedOut
    <2>1. shown \in BrowserSessions /\ shown \in tokens /\ shown = chainId /\ chain \notin Unshown
        BY <1>2 DEF SessionLoggedOut, LogoutSound, ShownIsLoggedIn, Restorable, ChainSound,
               BrowserTypeOK
    <2>2. BrowserTypeOK' /\ CodesUsed' /\ LogoutSound' /\ ShownIsLoggedIn'
        BY <1>2, <2>1 DEF SessionLoggedOut, BrowserTypeOK, CodesUsed, LogoutSound,
               ShownIsLoggedIn, Restorable
    <2>3. EndedSound'
        BY <1>2, <2>1 DEF SessionLoggedOut, EndedSound, Forgotten, BrowserTypeOK
    <2>4. ChainSound'
        BY <1>2, <2>1 DEF SessionLoggedOut, ChainSound, FromUrl, Unshown
    <2> QED BY <2>2, <2>3, <2>4
<1>3. CASE ForgetCurrent
    <2>1. chainId \in BrowserSessions /\ chainId \in tokens /\ chain \notin Unshown /\ shown = Nobody
        BY <1>3 DEF ForgetCurrent, LogoutSound, BrowserTypeOK
    <2>2. BrowserTypeOK' /\ CodesUsed' /\ LogoutSound' /\ ShownIsLoggedIn'
        BY <1>3, <2>1 DEF ForgetCurrent, BrowserTypeOK, CodesUsed, LogoutSound, ShownIsLoggedIn
    <2>3. EndedSound'
        BY <1>3, <2>1 DEF ForgetCurrent, EndedSound, Forgotten, BrowserTypeOK
    <2>4. ChainSound'
        BY <1>3, <2>1 DEF ForgetCurrent, ChainSound, FromUrl, Unshown
    <2> QED BY <2>2, <2>3, <2>4
<1> QED BY <1>1, <1>2, <1>3

----------------------------------------------------------------------------
(* Every callback of handleLogin, every failure, every page load that      *)
(* interrupts them, and every login and logout keeps the invariant.        *)
THEOREM BrowserInvariance == BrowserSpec => []BrowserInv
<1>1. BrowserInv /\ [BrowserNext]_browserVars => BrowserInv'
    <2> SUFFICES ASSUME BrowserInv, [BrowserNext]_browserVars PROVE BrowserInv'
        OBVIOUS
    <2>1. CASE UNCHANGED browserVars
        BY <2>1 DEF browserVars, storageVars, chainVars, appVars, pageVars, BrowserInv,
                    BrowserTypeOK, SoundParts, CodesUsed, ChainSound, EndedSound, Forgotten,
                    LogoutSound, ShownIsLoggedIn, Restorable
    <2>2. CASE LoadPage
        BY <2>2, LoadPageKeeps
    <2>3. CASE HandleLogin
        BY <2>3, HandleLoginKeeps
    <2>4. CASE ChainFails
        BY <2>4, ChainFailsKeeps
    <2>5. CASE Application
        BY <2>5, LoginKeeps, LogoutKeeps DEF Application
    <2> QED BY <2>1, <2>2, <2>3, <2>4, <2>5 DEF BrowserNext
<1> QED BY <1>1, BrowserInitial, PTL DEF BrowserSpec

(* The session of the page has tokens and is stored as logged in. *)
THEOREM ShownIsLoggedInCorrect == BrowserSpec => []ShownIsLoggedIn
<1>1. BrowserInv => ShownIsLoggedIn
    BY DEF BrowserInv, SoundParts
<1> QED BY <1>1, BrowserInvariance, PTL

(* Once a logout has deleted what is stored of the session, or that it is  *)
(* the current one, no page load and no rest of a chain brings it back.    *)
THEOREM LogoutLastsCorrect == BrowserSpec => []LogoutLasts
<1>1. BrowserInv => LogoutLasts
    BY BrowserAssumption
       DEF BrowserInv, BrowserTypeOK, SoundParts, EndedSound, Forgotten, LogoutSound,
           ShownIsLoggedIn, Restorable, LogoutLasts
<1> QED BY <1>1, BrowserInvariance, PTL
----------------------------------------------------------------------------
(* A code that is not used yet belongs to a login whose context is still   *)
(* stored: only a session that was shown, whose code is used, is ended.    *)
ContextKept ==
    \A s \in BrowserSessions :
        loginPc[s] = "away" /\ codes[s] # "used" => userData[s] # "absent"

(* The application has started nothing on a page that is to show a session. *)
Undisturbed ==
    /\ logoutPc = "none"
    /\ \A s \in BrowserSessions : loginPc[s] \notin {"setCurrent", "login"}

Redeemable(s) == url = s /\ codes[s] = "issued" /\ userData[s] # "absent"

(* How far handleLogin has come with the session it is to show, when no    *)
(* request has failed.                                                     *)
OnPath(s) ==
    /\ answer # "failed"
    /\ chain \notin {"forget", "incoming"}
    /\ chain \in {"getCurrent", "findInfo", "redirect"} =>
         \/ Redeemable(s)
         \/ /\ url = PlainUrl /\ currentKey = s /\ Restorable(s)
            /\ chain # "getCurrent" => chainId = s
    /\ chain = "restore" => url = PlainUrl /\ chainId = s /\ Restorable(s)
    /\ chain \in {"context", "client", "tokens"} \/ (chain = "config" /\ url # PlainUrl) =>
         Redeemable(s)
    /\ chain \in {"storeTokens", "storeUser", "readUser"} => url = s
    /\ chain = "loggedIn" \/ (chain = "config" /\ url = PlainUrl) => chainId = s
    /\ chain = "loggedIn" => url = PlainUrl
    /\ chain = "setCurrent" => shown = s /\ chainId = s
    /\ chain \in {"profile", "emit", "done"} => shown = s /\ currentKey = s

PathSound ==
    /\ ContextKept
    /\ expected # Nobody => Undisturbed
    /\ expected # Nobody /\ browserFaults = 0 => OnPath(expected)

LEMMA ContextKeptStep ==
    ASSUME BrowserInv, ContextKept, [BrowserNext]_browserVars
    PROVE  ContextKept'
<1> USE BrowserAssumption DEF BrowserInv, SoundParts, BrowserTypeOK, ContextKept
<1>1. CASE UNCHANGED browserVars
    BY <1>1 DEF browserVars, storageVars, appVars
<1>2. CASE LoadPage
    BY <1>2 DEF LoadPage
<1>3. CASE HandleLogin \/ ChainFails
    <2>1. /\ loginPc' = loginPc
          /\ \A s \in BrowserSessions :
               /\ codes[s] = "used" => codes'[s] = "used"
               /\ userData[s] # "absent" => userData'[s] # "absent"
        BY <1>3 DEF HandleLogin, ChainFails, GetCurrent, FindSessionInfo, HandleRedirect,
                    RestoreSession, HandleIncoming, OidcContext, FetchConfig, GetClient,
                    GetTokens, StoreTokens, StoreLoggedIn, TakeSession, ShowSession,
                    KeepSession, StoreProfile, ForgetSession, EmitLogin, GoOn, Throw,
                    storageVars, appVars
    <2> QED BY <2>1
<1>4. ASSUME NEW s \in BrowserSessions, BrowserLogin(s) \/ SetCurrentSession(s) \/ GoToIssuer(s)
      PROVE  ContextKept'
    BY <1>4 DEF BrowserLogin, SetCurrentSession, GoToIssuer, storageVars
<1>5. CASE StartLoggingOut \/ ForgetCurrent
    BY <1>5 DEF StartLoggingOut, ForgetCurrent, storageVars
<1>6. CASE SessionLoggedOut
    <2>1. shown \in BrowserSessions /\ codes[shown] = "used"
        BY <1>6 DEF SessionLoggedOut, LogoutSound, ShownIsLoggedIn, Restorable, CodesUsed,
                    OrNobody
    <2> QED BY <1>6, <2>1 DEF SessionLoggedOut
<1> QED BY <1>1, <1>2, <1>3, <1>4, <1>5, <1>6 DEF BrowserNext, Application

(* A page load begins on the path: the code in its URL is that of a login  *)
(* whose context is kept.                                                  *)
LEMMA LoadPageOnPath ==
    ASSUME BrowserInv, ContextKept, LoadPage, expected' # Nobody
    PROVE  OnPath(expected)'
<1> USE BrowserAssumption DEF BrowserInv, SoundParts, BrowserTypeOK
<1>1. /\ answer' = "pending" /\ chain' = "getCurrent"
      /\ UNCHANGED <<userData, currentKey, tokens>>
    BY DEF LoadPage
<1>2. CASE url' # PlainUrl /\ codes'[url'] = "issued"
    <2>1. expected' = url'
        BY <1>2 DEF LoadPage
    <2>2. url' \in BrowserSessions /\ loginPc[url'] = "away" /\ codes[url'] # "used"
        BY <1>2 DEF LoadPage, CodesUsed
    <2>3. Redeemable(expected)'
        BY <1>1, <1>2, <2>1, <2>2 DEF Redeemable, ContextKept
    <2> QED BY <1>1, <2>3 DEF OnPath
<1>3. CASE ~(url' # PlainUrl /\ codes'[url'] = "issued")
    <2>1. url' = PlainUrl /\ expected' = currentKey /\ Restorable(currentKey)
        BY <1>3 DEF LoadPage
    <2>2. Restorable(expected)'
        BY <1>1, <2>1 DEF Restorable
    <2> QED BY <1>1, <2>1, <2>2 DEF OnPath
<1> QED BY <1>2, <1>3

(* Each step of handleLogin leads on to the next one of the path. *)
LEMMA HandleLoginOnPath ==
    ASSUME BrowserInv, expected # Nobody, OnPath(expected), HandleLogin, browserFaults' = 0
    PROVE  OnPath(expected)'
<1> USE BrowserAssumption DEF OnPath, OrNobody
<1>0. /\ BrowserTypeOK /\ expected \in BrowserSessions /\ expected' = expected
      /\ (chain \in FromUrl => url # PlainUrl)
    BY DEF BrowserInv, SoundParts, ChainSound, BrowserTypeOK, HandleLogin, GetCurrent, FindSessionInfo,
           HandleRedirect, RestoreSession, HandleIncoming, OidcContext, FetchConfig,
           GetClient, GetTokens, StoreTokens, StoreLoggedIn, TakeSession, ShowSession,
           KeepSession, StoreProfile, ForgetSession, EmitLogin, GoOn, Throw, appVars
<1>1. CASE GetCurrent
    BY <1>0, <1>1 DEF GetCurrent, Answer, storageVars, pageVars, Redeemable, Restorable
<1>2. CASE FindSessionInfo \/ HandleRedirect
    BY <1>0, <1>2 DEF FindSessionInfo, HandleRedirect, GoOn, storageVars, pageVars,
                      Redeemable, Restorable
<1>3. CASE RestoreSession \/ OidcContext \/ FetchConfig
    BY <1>0, <1>3 DEF RestoreSession, OidcContext, FetchConfig, GoOn, storageVars, pageVars,
                      Redeemable, Restorable, FromUrl
<1>4. CASE GetClient \/ GetTokens
    BY <1>0, <1>4 DEF GetClient, GetTokens, storageVars, pageVars, Redeemable
<1>5. CASE StoreTokens \/ StoreLoggedIn \/ TakeSession
    BY <1>0, <1>5 DEF StoreTokens, StoreLoggedIn, TakeSession, BrowserStorageFails, pageVars,
                      BrowserTypeOK, storageVars
<1>6. CASE ShowSession \/ KeepSession \/ StoreProfile \/ EmitLogin
    BY <1>0, <1>6 DEF ShowSession, KeepSession, StoreProfile, EmitLogin, GoOn, Answer,
                      storageVars, pageVars
<1>7. ~HandleIncoming /\ ~ForgetSession
    BY DEF HandleIncoming, ForgetSession
<1> QED BY <1>1, <1>2, <1>3, <1>4, <1>5, <1>6, <1>7 DEF HandleLogin

LEMMA PathStep ==
    ASSUME BrowserInv, PathSound, [BrowserNext]_browserVars
    PROVE  PathSound'
<1> USE BrowserAssumption DEF PathSound
<1>1. ContextKept'
    BY ContextKeptStep
<1>2. CASE UNCHANGED browserVars
    BY <1>1, <1>2 DEF browserVars, storageVars, chainVars, appVars, pageVars, Undisturbed,
                      OnPath, Redeemable, Restorable
<1>3. CASE LoadPage
    <2>1. Undisturbed'
        BY <1>3 DEF LoadPage, Undisturbed
    <2> QED BY <1>1, <1>3, <2>1, LoadPageOnPath
<1>4. CASE HandleLogin
    <2>1. UNCHANGED appVars /\ (browserFaults' = 0 => browserFaults = 0)
        BY <1>4 DEF HandleLogin, GetCurrent, FindSessionInfo, HandleRedirect, RestoreSession,
                    HandleIncoming, OidcContext, FetchConfig, GetClient, GetTokens,
                    StoreTokens, StoreLoggedIn, TakeSession, ShowSession, KeepSession,
                    StoreProfile, ForgetSession, EmitLogin, GoOn, Throw, BrowserStorageFails,
                    BrowserInv, BrowserTypeOK
    <2>2. expected # Nobody /\ browserFaults' = 0 => OnPath(expected)'
        BY <1>4, <2>1, HandleLoginOnPath
    <2> QED BY <1>1, <2>1, <2>2 DEF appVars, Undisturbed
<1>5. CASE ChainFails
    <2>1. browserFaults' # 0 /\ UNCHANGED appVars
        BY <1>5 DEF ChainFails, BrowserStorageFails, BrowserInv, BrowserTypeOK
    <2> QED BY <1>1, <2>1 DEF appVars, Undisturbed
<1>6. ASSUME NEW s \in BrowserSessions, BrowserLogin(s) \/ SetCurrentSession(s) \/ GoToIssuer(s)
      PROVE  PathSound'
    <2>1. expected' = Nobody
        BY <1>6 DEF BrowserLogin, SetCurrentSession, GoToIssuer, Undisturbed
    <2> QED BY <1>1, <2>1
<1>7. CASE StartLoggingOut \/ SessionLoggedOut \/ ForgetCurrent
    <2>1. expected' = Nobody
        BY <1>7 DEF StartLoggingOut, SessionLoggedOut, ForgetCurrent, Undisturbed
    <2> QED BY <1>1, <2>1
<1> QED BY <1>2, <1>3, <1>4, <1>5, <1>6, <1>7 DEF BrowserNext, Application

(* A page load ends with the session whose unused code is in its URL, or   *)
(* else with the stored one that was logged in, whatever earlier pages     *)
(* left behind, unless a request fails or a login or a logout starts.      *)
THEOREM LoadShowsSessionCorrect == BrowserSpec => []LoadShowsSession
<1>1. BrowserInit => PathSound
    BY DEF BrowserInit, PathSound, ContextKept
<1>2. BrowserInv /\ PathSound /\ [BrowserNext]_browserVars => PathSound'
    BY PathStep
<1>3. PathSound => LoadShowsSession
    BY DEF PathSound, OnPath, LoadShowsSession
<1> QED BY <1>1, <1>2, <1>3, BrowserInvariance, PTL DEF BrowserSpec
----------------------------------------------------------------------------
(* The page session.                                                       *)

(* What is stored of a session is what its login and its code allow.  The  *)
(* page that uses a code does so for a session that has begun.             *)
PageSound ==
    /\ ContextKept
    /\ \A s \in BrowserSessions :
          /\ userData[s] # "absent" => loginPc[s] = "away"
          /\ userData[s] = "loggedIn" => codes[s] = "used"
    /\ chain \in {"storeTokens", "storeUser"} => userData[url] = "begun"
    /\ chain = "restore" => url = PlainUrl

LEMMA PageSoundStep ==
    ASSUME BrowserInv, PageSound, [BrowserNext]_browserVars
    PROVE  PageSound'
<1> USE BrowserAssumption DEF BrowserInv, SoundParts, BrowserTypeOK, PageSound
<1>1. ContextKept'
    BY ContextKeptStep
<1>2. CASE UNCHANGED browserVars
    BY <1>1, <1>2 DEF browserVars, storageVars, chainVars, appVars, pageVars
<1>3. CASE LoadPage
    BY <1>1, <1>3 DEF LoadPage
<1>4. CASE GetCurrent \/ FindSessionInfo \/ HandleRedirect \/ RestoreSession
             \/ HandleIncoming \/ OidcContext \/ FetchConfig \/ GetClient \/ ShowSession
             \/ KeepSession \/ StoreProfile \/ ForgetSession \/ EmitLogin
    BY <1>1, <1>4 DEF GetCurrent, FindSessionInfo, HandleRedirect, RestoreSession,
        HandleIncoming, OidcContext, FetchConfig, GetClient, ShowSession, KeepSession,
        StoreProfile, ForgetSession, EmitLogin, GoOn, Throw, Caught, storageVars, appVars,
        pageVars
<1>5. CASE GetTokens
    BY <1>1, <1>5 DEF GetTokens, Caught, appVars, pageVars, ChainSound, FromUrl, CodesUsed, ContextKept
<1>6. CASE StoreTokens \/ StoreLoggedIn \/ TakeSession
    BY <1>1, <1>6 DEF StoreTokens, StoreLoggedIn, TakeSession, storageVars, appVars, pageVars,
        ChainSound, FromUrl, CodesUsed
<1>7. CASE ChainFails
    BY <1>1, <1>7 DEF ChainFails, Caught, appVars, pageVars
<1>8. ASSUME NEW s \in BrowserSessions, BrowserLogin(s) \/ SetCurrentSession(s) \/ GoToIssuer(s)
      PROVE  PageSound'
    BY <1>1, <1>8 DEF BrowserLogin, SetCurrentSession, GoToIssuer, storageVars, chainVars,
        pageVars, ChainSound, FromUrl
<1>9. CASE StartLoggingOut \/ SessionLoggedOut \/ ForgetCurrent
    BY <1>1, <1>9 DEF StartLoggingOut, SessionLoggedOut, ForgetCurrent, storageVars, chainVars,
        pageVars, ChainSound, LogoutSound, FromUrl, Unshown
<1> QED BY <1>2, <1>3, <1>4, <1>5, <1>6, <1>7, <1>8, <1>9 DEF BrowserNext, HandleLogin, Application

----------------------------------------------------------------------------
(* The stages as PageSession sees them. *)
LEMMA StagesStay ==
    ASSUME UNCHANGED <<userData, codes, ended>>
    PROVE  Stages' = Stages
BY DEF Stages, StageOf

LEMMA StagesMove ==
    ASSUME NEW s \in BrowserSessions, NEW from, NEW to,
           StageOf(s) = from, StageOf(s)' = to,
           \A q \in BrowserSessions \ {s} : StageOf(q)' = StageOf(q)
    PROVE  Page!Move(s, from, to)
BY DEF Stages, Page!Move

(* A step of handleLogin that chooses, confirms and shows no session is    *)
(* none of PageSession, or gives up.                                       *)
LEMMA ChainStepImplements ==
    ASSUME BrowserInv, PageSound,
           GetCurrent \/ FindSessionInfo \/ HandleRedirect \/ HandleIncoming \/ OidcContext
             \/ FetchConfig \/ GetClient \/ StoreTokens \/ KeepSession \/ StoreProfile
             \/ ForgetSession \/ EmitLogin
    PROVE  [Page!Next]_Page!vars
<1> USE DEF BrowserInv, SoundParts, storageVars, appVars, pageVars, GoOn, Throw, Caught
<1>1. UNCHANGED <<userData, codes, ended, shown, url, chainId>> \/ GetCurrent
    BY DEF FindSessionInfo, HandleRedirect, HandleIncoming, OidcContext, FetchConfig, GetClient,
           StoreTokens, KeepSession, StoreProfile, ForgetSession, EmitLogin
<1>2. UNCHANGED <<Stages, shown, url>>
    BY <1>1, StagesStay DEF GetCurrent
<1>3. chain' \in Unshown => chain \in Unshown
    BY DEF GetCurrent, FindSessionInfo, HandleRedirect, HandleIncoming, OidcContext, FetchConfig,
           GetClient, StoreTokens, KeepSession, StoreProfile, ForgetSession, EmitLogin,
           Unshown, FromUrl
<1>4. chain \notin Unshown => ChosenSession = Nobody
    BY DEF ChosenSession, Restored, Unshown, FromUrl
<1>5. chain' \notin Unshown => ChosenSession' = Nobody
    BY DEF ChosenSession, Restored, Unshown, FromUrl
<1>6. CASE chain \in Unshown /\ chain' \notin Unshown
    <2>1. Page!GiveUp
        BY <1>2, <1>5, <1>6 DEF Page!GiveUp
    <2> QED BY <2>1 DEF Page!Next
<1>7. CASE chain \notin Unshown
    BY <1>2, <1>3, <1>4, <1>5, <1>7 DEF Page!vars
<1>8. CASE chain' \in Unshown
    <2>1. ChosenSession' = ChosenSession
        BY <1>1, <1>8 DEF GetCurrent, FindSessionInfo, HandleRedirect, HandleIncoming,
           OidcContext, FetchConfig, GetClient, StoreTokens, KeepSession, StoreProfile,
           ForgetSession, EmitLogin, ChosenSession, Restored, ChainSound, Unshown, FromUrl
    <2> QED BY <1>2, <1>3, <1>8, <2>1 DEF Page!vars
<1> QED BY <1>6, <1>7, <1>8

LEMMA RestoreImplements ==
    ASSUME BrowserInv, PageSound, RestoreSession
    PROVE  [Page!Next]_Page!vars
<1> USE DEF BrowserInv, SoundParts, storageVars, appVars, pageVars, GoOn, Throw, Caught
<1>1. /\ chain = "restore" /\ url = PlainUrl /\ chainId \in BrowserSessions
      /\ UNCHANGED <<userData, codes, ended, shown, url, chainId, tokens>>
      /\ ChosenSession = Nobody
      /\ userData[chainId] = "loggedIn" => chain' = "config"
      /\ userData[chainId] # "loggedIn" => chain' \in {"forget", "done"}
    BY DEF RestoreSession, PageSound, ChainSound, BrowserTypeOK, ChosenSession, Restored
<1>2. Stages' = Stages
    BY <1>1, StagesStay
<1>3. chain \in Unshown /\ (chain' \in Unshown <=> userData[chainId] = "loggedIn")
    BY <1>1 DEF Unshown, FromUrl
<1>4. CASE userData[chainId] = "loggedIn"
    <2>1. StageOf(chainId) = "confirmed"
        BY <1>1, <1>3, <1>4 DEF StageOf, EndedSound, Forgotten
    <2>2. ChosenSession' = chainId
        BY <1>1, <1>4 DEF ChosenSession, Restored
    <2>3. Page!Restore(chainId)
        BY <1>1, <1>2, <1>3, <1>4, <2>1, <2>2 DEF Page!Restore, Stages
    <2> QED BY <1>1, <2>3 DEF Page!Next
<1>5. CASE userData[chainId] # "loggedIn"
    <2>1. ChosenSession' = Nobody
        BY <1>1, <1>5 DEF ChosenSession, Restored
    <2>2. Page!GiveUp
        BY <1>1, <1>2, <1>3, <1>5, <2>1 DEF Page!GiveUp
    <2> QED BY <2>2 DEF Page!Next
<1> QED BY <1>4, <1>5

(* A code that is used moves its session on, if it was not used before. *)
LEMMA CodeUsed ==
    ASSUME BrowserInv, PageSound, chain = "tokens",
           codes' = [codes EXCEPT ![url] = "used"], UNCHANGED <<userData, ended>>
    PROVE  /\ codes[url] = "issued" => Page!Move(url, "away", "redeemed")
           /\ codes[url] # "issued" => Stages' = Stages
<1> USE BrowserAssumption DEF BrowserInv, SoundParts, BrowserTypeOK
<1>1. PICK u \in BrowserSessions : u = url /\ codes[u] # "none"
    BY DEF ChainSound, CodesUsed, FromUrl
<1>2. \A q \in BrowserSessions \ {u} : StageOf(q)' = StageOf(q)
    BY <1>1 DEF StageOf
<1>3. ASSUME codes[url] = "issued" PROVE Page!Move(url, "away", "redeemed")
    <2>1. userData[u] = "begun" /\ u \notin ended
        BY <1>1, <1>3 DEF PageSound, ContextKept, CodesUsed, EndedSound
    <2>2. StageOf(u) = "away" /\ StageOf(u)' = "redeemed"
        BY <1>1, <1>3, <2>1 DEF StageOf
    <2> QED BY <1>1, <1>2, <2>2, StagesMove
<1>4. ASSUME codes[url] # "issued" PROVE Stages' = Stages
    <2>1. codes' = codes
        BY <1>1, <1>4
    <2> QED BY <2>1, StagesStay
<1> QED BY <1>3, <1>4

LEMMA GetTokensImplements ==
    ASSUME BrowserInv, PageSound, GetTokens
    PROVE  [Page!Next]_Page!vars
<1> USE DEF BrowserInv, SoundParts, appVars, pageVars
<1>1. /\ chain = "tokens" /\ url \in BrowserSessions
      /\ codes' = [codes EXCEPT ![url] = "used"] /\ UNCHANGED <<userData, ended, shown, url>>
      /\ codes[url] = "issued" => chain' = "storeTokens"
      /\ codes[url] # "issued" => chain' \in {"forget", "done"}
    BY DEF GetTokens, Caught, ChainSound, BrowserTypeOK, FromUrl
<1>2. chain \in Unshown /\ ChosenSession = Nobody
    BY <1>1 DEF Unshown, FromUrl, ChosenSession, Restored
<1>3. CASE codes[url] = "issued"
    <2>1. chain' \in Unshown /\ ChosenSession' = url
        BY <1>1, <1>3 DEF Unshown, FromUrl, ChosenSession
    <2>2. Page!Redeem(url)
        BY <1>1, <1>2, <1>3, <2>1, CodeUsed DEF Page!Redeem
    <2> QED BY <1>1, <2>2 DEF Page!Next
<1>4. CASE codes[url] # "issued"
    <2>1. chain' \notin Unshown /\ ChosenSession' = Nobody
        BY <1>1, <1>4 DEF Unshown, FromUrl, ChosenSession, Restored
    <2>2. Page!GiveUp
        BY <1>1, <1>2, <1>4, <2>1, CodeUsed DEF Page!GiveUp
    <2> QED BY <2>2 DEF Page!Next
<1> QED BY <1>3, <1>4

LEMMA StoreLoggedInImplements ==
    ASSUME BrowserInv, PageSound, StoreLoggedIn
    PROVE  [Page!Next]_Page!vars
<1> USE BrowserAssumption DEF BrowserInv, SoundParts, BrowserTypeOK
<1>1. PICK u \in BrowserSessions : u = url
    BY DEF StoreLoggedIn, ChainSound, FromUrl
<1>2. /\ chain = "storeUser"
      /\ userData[u] = "begun" /\ codes[u] = "used" /\ u \notin ended
      /\ userData' = [userData EXCEPT ![u] = "loggedIn"]
      /\ chain' = "readUser" /\ url' = u
      /\ UNCHANGED <<codes, ended, shown>>
    BY <1>1 DEF StoreLoggedIn, PageSound, ChainSound, FromUrl, appVars, pageVars
<1>3. StageOf(u) = "redeemed" /\ StageOf(u)' = "confirmed"
    BY <1>2 DEF StageOf
<1>4. \A q \in BrowserSessions \ {u} : StageOf(q)' = StageOf(q)
    BY <1>2 DEF StageOf
<1>5. Page!Move(u, "redeemed", "confirmed")
    BY <1>3, <1>4, StagesMove
<1>6. ChosenSession = u /\ ChosenSession' = u
    BY <1>1, <1>2 DEF ChosenSession, Restored
<1>7. chain \in Unshown /\ chain' \in Unshown
    BY <1>2 DEF Unshown, FromUrl
<1>8. Page!Confirm(u)
    BY <1>2, <1>5, <1>6, <1>7 DEF Page!Confirm
<1> QED BY <1>8 DEF Page!Next

(* The session of the URL is still the chosen one, or is given up. *)
LEMMA TakeImplements ==
    ASSUME BrowserInv, PageSound, TakeSession
    PROVE  [Page!Next]_Page!vars
<1> USE DEF BrowserInv, SoundParts
<1>1. /\ chain = "readUser" /\ chain' \in {"loggedIn", "forget"} /\ chainId' = url
      /\ UNCHANGED <<userData, codes, ended, shown>>
    BY DEF TakeSession, storageVars, appVars
<1>2. Stages' = Stages
    BY <1>1, StagesStay
<1>3. chain \in Unshown /\ (chain' \in Unshown <=> chain' = "loggedIn")
    BY <1>1 DEF Unshown, FromUrl
<1>4. CASE chain' = "loggedIn"
    <2>1. ChosenSession' = ChosenSession
        BY <1>1, <1>4 DEF ChosenSession, Restored
    <2> QED BY <1>1, <1>2, <1>3, <1>4, <2>1 DEF Page!vars
<1>5. CASE chain' = "forget"
    <2>1. ChosenSession' = Nobody
        BY <1>5 DEF ChosenSession, Restored
    <2>2. Page!GiveUp
        BY <1>1, <1>2, <1>3, <1>5, <2>1 DEF Page!GiveUp
    <2> QED BY <2>2 DEF Page!Next
<1> QED BY <1>1, <1>4, <1>5

LEMMA ShowImplements ==
    ASSUME BrowserInv, PageSound, ShowSession
    PROVE  [Page!Next]_Page!vars
<1> USE DEF BrowserInv, SoundParts
<1>1. /\ chain = "loggedIn" /\ chain' = "setCurrent" /\ shown' = chainId /\ shown = Nobody
      /\ chainId \in BrowserSessions /\ Restorable(chainId)
      /\ UNCHANGED <<userData, codes, ended>>
    BY DEF ShowSession, ChainSound, Unshown, storageVars, appVars
<1>2. StageOf(chainId) = "confirmed" /\ Stages' = Stages
    BY <1>1, StagesStay DEF StageOf, EndedSound, Forgotten, Restorable, Unshown
<1>3. chain \in Unshown /\ chain' \notin Unshown
    BY <1>1 DEF Unshown, FromUrl
<1>4. ChosenSession = chainId /\ ChosenSession' = Nobody
    BY <1>1 DEF ChosenSession, Restored
<1>5. Page!Show(chainId)
    BY <1>1, <1>2, <1>3, <1>4 DEF Page!Show, Stages
<1> QED BY <1>1, <1>5 DEF Page!Next

LEMMA LoadPageImplements ==
    ASSUME BrowserInv, PageSound, LoadPage
    PROVE  [Page!Next]_Page!vars
<1>1. /\ chain' = "getCurrent" /\ shown' = Nobody /\ UNCHANGED <<userData, ended>>
      /\ \A q \in BrowserSessions : codes'[q] = "used" <=> codes[q] = "used"
    BY DEF LoadPage, BrowserInv, BrowserTypeOK
<1>2. Stages' = Stages
    BY <1>1 DEF Stages, StageOf
<1>3. chain' \in Unshown /\ ChosenSession' = Nobody
    BY <1>1 DEF Unshown, ChosenSession, Restored
<1>4. Page!Unload
    BY <1>1, <1>2, <1>3 DEF Page!Unload
<1> QED BY <1>4 DEF Page!Next

(* A request that fails makes the page give up, if it has shown nothing.   *)
LEMMA ChainFailsImplements ==
    ASSUME BrowserInv, PageSound, ChainFails
    PROVE  [Page!Next]_Page!vars
<1> USE DEF BrowserInv, SoundParts, Caught
<1>1. UNCHANGED <<userData, ended, shown, url, chainId>>
    BY DEF ChainFails, appVars, pageVars
<1>2. CASE chain \in {"getCurrent", "redirect", "setCurrent", "profile", "forget"}
    <2>1. UNCHANGED codes /\ (chain \in Unshown <=> chain' \in Unshown)
        BY <1>2 DEF ChainFails, Unshown, FromUrl
    <2>2. ChosenSession' = ChosenSession
        BY <1>2 DEF ChainFails, ChosenSession, Restored
    <2> QED BY <1>1, <2>1, <2>2, StagesStay DEF Page!vars
<1>3. CASE chain \notin {"getCurrent", "redirect", "setCurrent", "profile", "forget"}
    <2>1. chain \in Unshown /\ chain' \in {"forget", "done"}
        BY <1>3 DEF ChainFails, Unshown, FromUrl
    <2>2. chain' \notin Unshown /\ ChosenSession' = Nobody
        BY <2>1 DEF ChosenSession, Restored, Unshown, FromUrl
    <2>3. Stages' = Stages \/ \E s \in BrowserSessions : Page!Move(s, "away", "redeemed")
        <3>1. CASE codes' = codes
            BY <1>1, <3>1, StagesStay
        <3>2. CASE codes' # codes
            <4>1. chain = "tokens" /\ codes' = [codes EXCEPT ![url] = "used"]
                BY <3>2 DEF ChainFails
            <4>2. url \in BrowserSessions
                BY <4>1 DEF ChainSound, BrowserTypeOK, FromUrl
            <4> QED BY <1>1, <4>1, <4>2, CodeUsed
        <3> QED BY <3>1, <3>2
    <2>4. Page!GiveUp
        BY <1>1, <2>1, <2>2, <2>3 DEF Page!GiveUp
    <2> QED BY <2>4 DEF Page!Next
<1> QED BY <1>2, <1>3

LEMMA LoginImplements ==
    ASSUME BrowserInv, PageSound, NEW s \in BrowserSessions,
           BrowserLogin(s) \/ SetCurrentSession(s) \/ GoToIssuer(s)
    PROVE  [Page!Next]_Page!vars
<1> USE DEF BrowserInv, SoundParts, BrowserTypeOK
<1>1. UNCHANGED <<chain, chainId, url, shown, codes, ended>>
    BY DEF BrowserLogin, SetCurrentSession, GoToIssuer, storageVars, chainVars, pageVars
<1>2. UNCHANGED <<ChosenSession, shown, chain>>
    BY <1>1 DEF ChosenSession, Restored
<1>3. CASE userData' = userData
    BY <1>1, <1>2, <1>3, StagesStay DEF Page!vars
<1>4. CASE userData' # userData
    <2>1. loginPc[s] = "login" /\ userData' = [userData EXCEPT ![s] = "begun"]
        BY <1>4 DEF BrowserLogin, SetCurrentSession, GoToIssuer, storageVars
    <2>2. userData[s] = "absent" /\ codes[s] = "none" /\ s \notin ended
        BY <2>1 DEF PageSound, CodesUsed, EndedSound
    <2>3. StageOf(s) = "new" /\ StageOf(s)' = "away"
        BY <1>1, <2>1, <2>2 DEF StageOf
    <2>4. \A q \in BrowserSessions \ {s} : StageOf(q)' = StageOf(q)
        BY <1>1, <2>1 DEF StageOf
    <2>5. Page!Move(s, "new", "away")
        BY <2>3, <2>4, StagesMove
    <2>6. Page!Leave(s)
        BY <1>2, <2>5 DEF Page!Leave
    <2> QED BY <2>6 DEF Page!Next
<1> QED BY <1>3, <1>4

LEMMA LogoutImplements ==
    ASSUME BrowserInv, PageSound, StartLoggingOut \/ SessionLoggedOut \/ ForgetCurrent
    PROVE  [Page!Next]_Page!vars
<1> USE DEF BrowserInv, SoundParts, BrowserTypeOK
<1>1. UNCHANGED <<chain, chainId, url, codes>>
    BY DEF StartLoggingOut, SessionLoggedOut, ForgetCurrent, storageVars, chainVars, pageVars
<1>2. UNCHANGED <<ChosenSession, chain>>
    BY <1>1 DEF ChosenSession, Restored
<1>3. CASE StartLoggingOut \/ UNCHANGED <<userData, ended, shown>>
    <2>1. UNCHANGED <<userData, ended, shown>>
        BY <1>3 DEF StartLoggingOut, storageVars, chainVars
    <2> QED BY <1>1, <1>2, <2>1, StagesStay DEF Page!vars
<1>4. CASE SessionLoggedOut
    <2>1. /\ shown \in BrowserSessions /\ userData[shown] = "loggedIn" /\ shown \notin ended
          /\ shown' = Nobody
        BY <1>4 DEF SessionLoggedOut, LogoutSound, EndedSound, Forgotten, ShownIsLoggedIn,
               Restorable, OrNobody
    <2>2. PICK u \in BrowserSessions : u = shown
        BY <2>1
    <2>3. StageOf(u) = "confirmed"
        BY <2>1, <2>2 DEF StageOf
    <2>4. CASE UNCHANGED <<userData, ended>>
        <3>1. Page!Logout(u)
            BY <1>1, <1>2, <2>1, <2>2, <2>4, StagesStay DEF Page!Logout
        <3> QED BY <3>1 DEF Page!Next
    <2>5. CASE ended' = ended \union {shown} /\ userData' = [userData EXCEPT ![shown] = "absent"]
        <3>1. StageOf(u)' = "over" /\ \A q \in BrowserSessions \ {u} : StageOf(q)' = StageOf(q)
            BY <1>1, <2>1, <2>2, <2>5 DEF StageOf
        <3>2. Page!Move(u, "confirmed", "over")
            BY <2>3, <3>1, StagesMove
        <3>3. Page!Logout(u)
            BY <1>2, <2>1, <2>2, <3>2 DEF Page!Logout
        <3> QED BY <3>3 DEF Page!Next
    <2> QED BY <1>4, <2>4, <2>5 DEF SessionLoggedOut
<1>5. CASE ForgetCurrent /\ ~ UNCHANGED <<userData, ended, shown>>
    <2>1. /\ shown = Nobody /\ chain \notin Unshown /\ chainId \in BrowserSessions
          /\ chainId \notin ended /\ userData[chainId] = "loggedIn"
          /\ ended' = ended \union {chainId} /\ UNCHANGED <<userData, shown>>
        BY <1>5 DEF ForgetCurrent, LogoutSound, chainVars
    <2>2. PICK u \in BrowserSessions : u = chainId
        BY <2>1
    <2>3. StageOf(u) = "confirmed"
        BY <2>1, <2>2 DEF StageOf
    <2>4. StageOf(u)' = "over" /\ \A q \in BrowserSessions \ {u} : StageOf(q)' = StageOf(q)
        BY <1>1, <2>1, <2>2 DEF StageOf
    <2>5. Page!Forget(u)
        BY <1>2, <2>1, <2>3, <2>4, StagesMove DEF Page!Forget
    <2> QED BY <2>5 DEF Page!Next
<1> QED BY <1>3, <1>4, <1>5

(* Every page load, callback, failure, login and logout is a step of       *)
(* PageSession, or none: a session is confirmed by the page that used its  *)
(* code, and what a page shows was confirmed and is not over, for any      *)
(* number of sessions, loads and failures.                                 *)
THEOREM PageImplemented == BrowserSpec => ImplementsPage
<1>1. BrowserInit => PageSound /\ Page!Init
    <2> SUFFICES ASSUME BrowserInit PROVE PageSound /\ Page!Init
        OBVIOUS
    <2>1. PageSound
        BY DEF BrowserInit, PageSound, ContextKept
    <2>2. chain \in Unshown /\ ChosenSession = Nobody /\ shown = Nobody
        BY DEF BrowserInit, Unshown, ChosenSession, Restored
    <2>3. Stages = [s \in BrowserSessions |-> "new"]
        BY DEF BrowserInit, Stages, StageOf
    <2> QED BY <2>1, <2>2, <2>3 DEF Page!Init
<1>2. BrowserInv /\ PageSound /\ [BrowserNext]_browserVars => PageSound'
    BY PageSoundStep
<1>3. BrowserInv /\ PageSound /\ [BrowserNext]_browserVars => [Page!Next]_Page!vars
    <2> SUFFICES ASSUME BrowserInv, PageSound, [BrowserNext]_browserVars
                 PROVE  [Page!Next]_Page!vars
        OBVIOUS
    <2>1. CASE UNCHANGED browserVars
        BY <2>1, StagesStay
           DEF browserVars, storageVars, chainVars, appVars, pageVars, ChosenSession, Restored,
               Page!vars
    <2>2. CASE LoadPage
        BY <2>2, LoadPageImplements
    <2>3. CASE HandleLogin
        BY <2>3, ChainStepImplements, RestoreImplements, GetTokensImplements,
           StoreLoggedInImplements, TakeImplements, ShowImplements DEF HandleLogin
    <2>4. CASE ChainFails
        BY <2>4, ChainFailsImplements
    <2>5. CASE Application
        BY <2>5, LoginImplements, LogoutImplements DEF Application
    <2> QED BY <2>1, <2>2, <2>3, <2>4, <2>5 DEF BrowserNext
<1> QED BY <1>1, <1>2, <1>3, BrowserInvariance, PTL
        DEF BrowserSpec, ImplementsPage, Page!Spec

----------------------------------------------------------------------------
(* Either client.                                                          *)

(* A behaviour of the composition is one of both clients: whatever is      *)
(* proved of a client holds of the composition that the run checks.        *)
THEOREM ClientsImplemented == MCClientsSpec => NodeSpec /\ BrowserSpec
<1>1. MCClientsInit => NodeInit /\ BrowserInit
    BY DEF MCClientsInit
<1>2. [MCClientsNext]_clientsVars => [NodeNext]_nodeVars /\ [BrowserNext]_browserVars
    BY DEF MCClientsNext, clientsVars
<1> QED BY <1>1, <1>2, PTL DEF MCClientsSpec, NodeSpec, BrowserSpec

(* Every variable of either client keeps its type. *)
THEOREM ClientsTypeCorrect == MCClientsSpec => []ClientsTypeOK
<1>1. NodeInv => NodeTypeOK
    BY DEF NodeInv
<1>2. BrowserInv => BrowserTypeOK
    BY DEF BrowserInv
<1> QED BY <1>1, <1>2, ClientsImplemented, NodeInvariance, BrowserInvariance, PTL
        DEF ClientsTypeOK
============================================================================
