------------------------------ MODULE MCClients ------------------------------
(***************************************************************************)
(* Small instances of NodeClient and BrowserClient for TLC.  An application*)
(* has one of the two clients, so a behaviour is one of either module: of  *)
(* BrowserClient, or of NodeClient with the calls of `Made`: two logins, or*)
(* a login and two visitors with the same WebID.                           *)
(***************************************************************************)
EXTENDS NodeClient, BrowserClient

CONSTANTS l1, l2, v1, v2, w1, w2, w3, s1, s2

VARIABLE client

clientsVars == <<client, nodeVars, browserVars>>

MCAccountOf == [s \in Sessions |-> CASE s = l1 -> w1 [] s = l2 -> w2 [] OTHER -> w3]

Made == IF client = "logins" THEN Logins ELSE {l1} \union Visits

MCClientsInit == client \in {"logins", "visits", "browser"} /\ NodeInit /\ BrowserInit

MCClientsNext ==
    /\ UNCHANGED client
    /\ \/ /\ client \in {"logins", "visits"}
          /\ NodeNext /\ UNCHANGED browserVars
          /\ \A s \in Sessions \ Made : callPc'[s] = "new"
       \/ client = "browser" /\ BrowserNext /\ UNCHANGED nodeVars

(* The fairness of BrowserClient: it makes nothing of the Node client fair. *)
MCClientsSpec ==
    MCClientsInit /\ [][MCClientsNext]_clientsVars /\ BrowserFairness

(* The type invariants of both. *)
ClientsTypeOK == NodeTypeOK /\ BrowserTypeOK
============================================================================
