---------------------------- MODULE AccessControl ----------------------------
(***************************************************************************)
(* SolidService.setAccess: who may access a resource.  Each call fetches   *)
(* the resource with its access control list and then saves a list of its  *)
(* own.  A list is a set of rules; the modes of a rule are those that its  *)
(* call was given, or all of them for an owner.                            *)
(*                                                                         *)
(* The library is external.  A list from createAcl already has the URL of  *)
(* the resource's list and a log of changes, so saveAclFor sends what was  *)
(* added to it as insertions (PATCH): rules add up, and no call takes back *)
(* what an earlier one has granted.                                        *)
(***************************************************************************)
EXTENDS Naturals, FiniteSets

CONSTANTS
    AccessCalls,
    GranteeOf,    \* the WebID each call is given
    OwnerOf,      \* the WebID of the session of each call
    AccessOf,     \* the access object each call is given; calls may share one
    AccessObjects,
    NoSession,    \* in OwnerOf: nobody is logged in
    Everyone,     \* foaf:Agent, and "public"
    ForDefault,   \* access objects that ask for the default of a container
    ForPublic,    \* access objects that ask for public access
    ForGroup,     \* access objects that ask for a group
    FullModes

Agents == {Everyone} \union {GranteeOf[c] : c \in AccessCalls} \union {OwnerOf[c] : c \in AccessCalls}

ASSUME AccessAssumption ==
    /\ AccessOf \in [AccessCalls -> AccessObjects]
    /\ ForDefault \subseteq AccessObjects
    /\ ForPublic \subseteq AccessObjects
    /\ ForGroup \subseteq AccessObjects
    /\ FullModes \notin AccessObjects

VARIABLES
    rules,       \* the access control list of the resource
    accessPc,
    group,       \* the access objects whose group field is set
    built        \* the list each call has built

accessVars == <<rules, accessPc, group, built>>

Rule == [kind : {"agent", "group", "public"}, who : Agents,
         scope : {"resource", "default"}, modes : AccessObjects \union {FullModes}]

AccessTypeOK ==
    /\ rules \subseteq Rule
    /\ accessPc \in [AccessCalls -> {"new", "fetch", "save", "resolved", "rejected"}]
    /\ group \subseteq AccessObjects
    /\ built \in [AccessCalls -> SUBSET Rule]

AccessInit ==
    /\ rules = {}
    /\ accessPc = [c \in AccessCalls |-> "new"]
    /\ group = ForGroup
    /\ built = [c \in AccessCalls |-> {}]

Access(c, step) == accessPc' = [accessPc EXCEPT ![c] = step]

----------------------------------------------------------------------------
(* A rule replaces the one for the same agent and scope (set...Access). *)
Grant(acl, kind, who, scope, modes) ==
    {r \in acl : ~(r.kind = kind /\ r.who = who /\ r.scope = scope)}
        \union {[kind |-> kind, who |-> who, scope |-> scope, modes |-> modes]}

(* hasAcl holds of whatever was fetched with its list, so createAcl starts *)
(* an empty list, and the owner is put in it first.                        *)
OwnerRules(c) ==
    Grant(Grant({}, "agent", OwnerOf[c], "default", FullModes),
          "agent", OwnerOf[c], "resource", FullModes)

(* Mutant of ListBefore: the owner gets the default of a container only. *)
DefaultOnly(c) == Grant({}, "agent", OwnerOf[c], "default", FullModes)

ListBefore(c) == OwnerRules(c)

(* Mutant of KindFor: access.group = access.group || webId. *)
KindOfWebId(c) == IF GranteeOf[c] \in Agents THEN "group" ELSE "agent"

(* access.group || webId === foaf.Agent || webId === 'public' *)
KindFor(c) ==
    IF AccessOf[c] \in group \/ GranteeOf[c] = Everyone THEN "group" ELSE "agent"

(* Mutant of ListFor: public access is always the default of a container.  *)
ListForPublicDefault(c) ==
    LET a == AccessOf[c]
        Granted(acl, kind, who, inherit) ==
            LET here == Grant(acl, kind, who, "resource", a)
            IN  IF inherit THEN Grant(here, kind, who, "default", a) ELSE here
        granted == Granted(ListBefore(c), KindFor(c), GranteeOf[c], a \in ForDefault)
    IN  IF a \in ForPublic THEN Granted(granted, "public", Everyone, TRUE) ELSE granted

ListFor(c) ==
    LET a == AccessOf[c]
        Granted(acl, kind, who) ==
            LET here == Grant(acl, kind, who, "resource", a)
            IN  IF a \in ForDefault THEN Grant(here, kind, who, "default", a) ELSE here
        granted == Granted(ListBefore(c), KindFor(c), GranteeOf[c])
    IN  IF a \in ForPublic THEN Granted(granted, "public", Everyone) ELSE granted

----------------------------------------------------------------------------
SetAccess(c) ==
    /\ accessPc[c] = "new"
    /\ Access(c, "fetch")
    /\ UNCHANGED <<rules, group, built>>

(* The list is built in one piece; access.group is written into the object *)
(* of the caller, so an object once used for everyone stays a group's.     *)
Fetched(c) ==
    /\ accessPc[c] = "fetch"
    /\ OwnerOf[c] # NoSession
    /\ group' = IF KindFor(c) = "group" THEN group \union {AccessOf[c]} ELSE group
    /\ built' = [built EXCEPT ![c] = ListFor(c)]
    /\ Access(c, "save")
    /\ UNCHANGED rules

(* What the call grants is inserted into the list of the resource. *)
Save(c) ==
    /\ accessPc[c] = "save"
    /\ rules' = rules \union built[c]
    /\ Access(c, "resolved")
    /\ UNCHANGED <<group, built>>

(* The server refuses the fetch or the save, or the answer to the save is  *)
(* lost; without a session session.info throws once the resource was       *)
(* fetched.                                                                *)
RefuseAccess(c) ==
    /\ accessPc[c] \in {"fetch", "save"}
    /\ \/ UNCHANGED rules
       \/ accessPc[c] = "save" /\ rules' = rules \union built[c]
    /\ Access(c, "rejected")
    /\ UNCHANGED <<group, built>>

AccessNext ==
    \/ \E c \in AccessCalls : SetAccess(c)
    \/ \E c \in AccessCalls : Fetched(c)
    \/ \E c \in AccessCalls : Save(c)
    \/ \E c \in AccessCalls : RefuseAccess(c)

AccessSpec == AccessInit /\ [][AccessNext]_accessVars

----------------------------------------------------------------------------
OwnerRule(c, scope) ==
    [kind |-> "agent", who |-> OwnerOf[c], scope |-> scope, modes |-> FullModes]

(* The owner of every session that has saved a list has full control of    *)
(* the resource and its contents for good, unless the call grants that     *)
(* owner: the owner's own rules come first and the grant replaces them.    *)
OwnerControls ==
    \A c \in AccessCalls : accessPc[c] = "resolved" /\ OwnerOf[c] # GranteeOf[c] =>
        \A scope \in {"resource", "default"} : OwnerRule(c, scope) \in rules

(* A call turns the agent it is given into a group for a reason: its own   *)
(* object asks for a group, or a call for everyone has left that in it.    *)
GroupFor(c) ==
    \/ AccessOf[c] \in ForGroup
    \/ \E d \in AccessCalls : /\ AccessOf[d] = AccessOf[c] /\ GranteeOf[d] = Everyone
                             /\ accessPc[d] \in {"save", "resolved", "rejected"}

(* What a call asks for, or has to grant its owner. *)
AskedBy(c, r) ==
    \/ r = OwnerRule(c, "resource") \/ r = OwnerRule(c, "default")
    \/ /\ r.modes = AccessOf[c]
       /\ r.scope = "default" => AccessOf[c] \in ForDefault
       /\ \/ r.kind = "agent" /\ r.who = GranteeOf[c]
          \/ r.kind = "group" /\ r.who = GranteeOf[c] /\ GroupFor(c)
          \/ r.kind = "public" /\ AccessOf[c] \in ForPublic

(* However calls overlap, share access objects and fail half way, nobody   *)
(* has access that no call which got as far as saving has asked for: not   *)
(* with other modes, for other agents, or to the contents of a container   *)
(* as well.                                                                *)
NothingUnasked ==
    \A r \in rules : \E c \in AccessCalls :
        accessPc[c] \in {"resolved", "rejected"} /\ AskedBy(c, r)

(* A call that is given an agent, with an access object that asks for no   *)
(* group and that no call for everyone uses, grants that agent and not a   *)
(* group of its name, and no later call takes it back.  (With an object    *)
(* such a call did use, it may not: the flag stays in the object.)         *)
AgentGranted ==
    \A c \in AccessCalls :
        LET a == AccessOf[c]
            private == a \notin ForGroup
                         /\ \A d \in AccessCalls : AccessOf[d] = a => GranteeOf[d] # Everyone
        IN  accessPc[c] = "resolved" /\ private =>
                \E r \in rules : r.kind = "agent" /\ r.who = GranteeOf[c] /\ r.modes = a
============================================================================
