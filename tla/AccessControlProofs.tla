------------------------- MODULE AccessControlProofs -------------------------
(* What is proved of AccessControl, for any calls, agents and objects. *)
EXTENDS AccessControl, TLAPS

(* AskedBy, with what turns the agent of the call into a group as given. *)
Allowed(c, r, grouped) ==
    \/ r = OwnerRule(c, "resource") \/ r = OwnerRule(c, "default")
    \/ /\ r.modes = AccessOf[c]
       /\ r.scope = "default" => AccessOf[c] \in ForDefault
       /\ \/ r.kind = "agent" /\ r.who = GranteeOf[c]
          \/ r.kind = "group" /\ r.who = GranteeOf[c] /\ grouped
          \/ r.kind = "public" /\ AccessOf[c] \in ForPublic

(* The owner keeps control in a list, unless it is the grantee. *)
Controlled(acl, c) ==
    OwnerOf[c] # GranteeOf[c] =>
        \A scope \in {"resource", "default"} : OwnerRule(c, scope) \in acl

Own(acl, c, grouped) == (\A r \in acl : Allowed(c, r, grouped)) /\ Controlled(acl, c)

(* The flag that stays in an access object got there for a reason. *)
GroupReason == \A c \in AccessCalls : AccessOf[c] \in group => GroupFor(c)

(* What a call has built is its own list. *)
BuiltOwn ==
    \A c \in AccessCalls : accessPc[c] = "save" => Own(built[c], c, GroupFor(c))

AccessFrame ==
    /\ accessPc \in [AccessCalls -> {"new", "fetch", "save", "resolved", "rejected"}]
    /\ built = [c \in AccessCalls |-> built[c]]

AccessInv == AccessFrame /\ GroupReason /\ BuiltOwn /\ OwnerControls /\ NothingUnasked

LEMMA AllowedIsAsked ==
    ASSUME NEW c \in AccessCalls, NEW r
    PROVE  AskedBy(c, r) <=> Allowed(c, r, GroupFor(c))
BY DEF AskedBy, Allowed

----------------------------------------------------------------------------
(* A grant of what the call asks for leaves the list its own, and leaves   *)
(* the rules of other agents and kinds alone.                              *)
LEMMA GrantKeeps ==
    ASSUME NEW c \in AccessCalls, NEW grouped, NEW acl, NEW kind, NEW who, NEW scope,
           Own(acl, c, grouped),
           Allowed(c, [kind |-> kind, who |-> who, scope |-> scope, modes |-> AccessOf[c]],
                   grouped),
           OwnerOf[c] # GranteeOf[c] => kind # "agent" \/ who # OwnerOf[c]
    PROVE  Own(Grant(acl, kind, who, scope, AccessOf[c]), c, grouped)
<1> DEFINE granted == Grant(acl, kind, who, scope, AccessOf[c])
           rule == [kind |-> kind, who |-> who, scope |-> scope, modes |-> AccessOf[c]]
<1>1. \A r \in granted : r \in acl \/ r = rule
    BY DEF Grant
<1>2. \A r \in granted : Allowed(c, r, grouped)
    BY <1>1 DEF Own
<1>3. ASSUME NEW s \in {"resource", "default"}, OwnerOf[c] # GranteeOf[c]
      PROVE  OwnerRule(c, s) \in granted
    BY <1>3 DEF Own, Controlled, Grant, OwnerRule
<1> QED BY <1>2, <1>3 DEF Own, Controlled

(* The list a call starts from holds its owner's rules and nothing else. *)
LEMMA OwnerListed ==
    ASSUME NEW c \in AccessCalls, NEW grouped
    PROVE  Own(OwnerRules(c), c, grouped)
<1>1. OwnerRules(c) = {OwnerRule(c, "default"), OwnerRule(c, "resource")}
    BY DEF OwnerRules, Grant, OwnerRule
<1> QED BY <1>1 DEF Own, Controlled, Allowed

(* So the list a call builds is its own, whatever was shared before. *)
LEMMA ListOwn ==
    ASSUME NEW c \in AccessCalls, NEW grouped, KindFor(c) = "group" => grouped
    PROVE  Own(ListFor(c), c, grouped)
<1> DEFINE a == AccessOf[c]
           Granted(acl, kind, who) ==
               LET here == Grant(acl, kind, who, "resource", a)
               IN  IF a \in ForDefault THEN Grant(here, kind, who, "default", a) ELSE here
           granted == Granted(ListBefore(c), KindFor(c), GranteeOf[c])
<1>1. ASSUME NEW acl, Own(acl, c, grouped), NEW kind, NEW who,
             OwnerOf[c] # GranteeOf[c] => kind # "agent" \/ who # OwnerOf[c],
             \/ kind = "agent" /\ who = GranteeOf[c]
             \/ kind = "group" /\ who = GranteeOf[c] /\ grouped
             \/ kind = "public" /\ AccessOf[c] \in ForPublic
      PROVE  Own(Granted(acl, kind, who), c, grouped)
    <2> DEFINE here == Grant(acl, kind, who, "resource", a)
    <2>1. Allowed(c, [kind |-> kind, who |-> who, scope |-> "resource", modes |-> a], grouped)
        BY <1>1 DEF Allowed
    <2>2. Own(here, c, grouped)
        BY <1>1, <2>1, GrantKeeps
    <2>3. CASE a \in ForDefault
        <3>1. Allowed(c, [kind |-> kind, who |-> who, scope |-> "default", modes |-> a], grouped)
            BY <1>1, <2>3 DEF Allowed
        <3>2. Own(Grant(here, kind, who, "default", a), c, grouped)
            BY <1>1, <2>2, <3>1, GrantKeeps
        <3> QED BY <2>3, <3>2
    <2>4. CASE a \notin ForDefault
        BY <2>2, <2>4
    <2> QED BY <2>3, <2>4
<1>2. Own(granted, c, grouped)
    BY <1>1, OwnerListed DEF ListBefore, KindFor
<1>3. a \in ForPublic => Own(Granted(granted, "public", Everyone), c, grouped)
    BY <1>1, <1>2
<1>4. ListFor(c) = IF a \in ForPublic THEN Granted(granted, "public", Everyone) ELSE granted
    BY DEF ListFor
<1> QED BY <1>2, <1>3, <1>4

----------------------------------------------------------------------------
(* What calls have asked for, they have asked for once they went on. *)
LEMMA ReasonsStay ==
    ASSUME \A d \in AccessCalls : accessPc[d] \in {"save", "resolved", "rejected"} =>
               accessPc'[d] \in {"save", "resolved", "rejected"},
           NEW c \in AccessCalls
    PROVE  /\ GroupFor(c) => GroupFor(c)'
           /\ \A acl : Own(acl, c, GroupFor(c)) => Own(acl, c, GroupFor(c)')
           /\ \A r : AskedBy(c, r) => AskedBy(c, r)'
<1>1. GroupFor(c) => GroupFor(c)'
    BY DEF GroupFor
<1>2. \A r : Allowed(c, r, GroupFor(c)) => Allowed(c, r, GroupFor(c)')
    BY <1>1 DEF Allowed
<1>3. \A r : AskedBy(c, r) => AskedBy(c, r)'
    BY <1>1 DEF AskedBy, OwnerRule
<1> QED BY <1>1, <1>2, <1>3 DEF Own

(* A save inserts the rules of one call, and takes back none. *)
LEMMA SaveKeeps ==
    ASSUME AccessInv, NEW c \in AccessCalls, Save(c) \/ RefuseAccess(c)
    PROVE  AccessInv'
<1> USE DEF AccessInv, AccessFrame
<1>1. PICK s \in {"resolved", "rejected"} : accessPc' = [accessPc EXCEPT ![c] = s]
    BY DEF Save, RefuseAccess, Access
<1>2. /\ UNCHANGED <<group, built>>
      /\ rules' = rules \/ (accessPc[c] = "save" /\ rules' = rules \union built[c])
      /\ s = "resolved" => accessPc[c] = "save" /\ rules' = rules \union built[c]
    BY <1>1 DEF Save, RefuseAccess, Access
<1>3. \A d \in AccessCalls : accessPc[d] \in {"save", "resolved", "rejected"} =>
          accessPc'[d] \in {"save", "resolved", "rejected"}
    BY <1>1
<1>4. AccessFrame'
    BY <1>1, <1>2
<1>5. GroupReason'
    BY <1>2, <1>3, ReasonsStay DEF GroupReason
<1>6. BuiltOwn'
    <2> SUFFICES ASSUME NEW d \in AccessCalls, accessPc'[d] = "save"
                 PROVE  Own(built[d], d, GroupFor(d)')
        BY <1>2 DEF BuiltOwn, Own, Allowed, Controlled, OwnerRule
    <2>1. accessPc[d] = "save"
        BY <1>1
    <2> QED BY <1>3, <2>1, ReasonsStay DEF BuiltOwn
<1>7. OwnerControls'
    BY <1>1, <1>2 DEF OwnerControls, BuiltOwn, Own, Controlled, OwnerRule
<1>8. NothingUnasked'
    <2> SUFFICES ASSUME NEW r \in rules'
                 PROVE  \E d \in AccessCalls :
                            accessPc'[d] \in {"resolved", "rejected"} /\ AskedBy(d, r)'
        BY DEF NothingUnasked, AskedBy, GroupFor, OwnerRule
    <2>1. CASE r \in rules
        <3>1. PICK d \in AccessCalls :
                  accessPc[d] \in {"resolved", "rejected"} /\ AskedBy(d, r)
            BY <2>1 DEF NothingUnasked
        <3> QED BY <1>1, <1>3, <3>1, ReasonsStay
    <2>2. CASE r \notin rules
        <3>1. accessPc[c] = "save" /\ r \in built[c]
            BY <1>2, <2>2
        <3>2. AskedBy(c, r)
            BY <3>1, AllowedIsAsked DEF BuiltOwn, Own
        <3> QED BY <1>1, <1>3, <3>2, ReasonsStay
    <2> QED BY <2>1, <2>2
<1> QED BY <1>4, <1>5, <1>6, <1>7, <1>8

LEMMA BuildKeeps ==
    ASSUME AccessInv, NEW c \in AccessCalls, SetAccess(c) \/ Fetched(c)
    PROVE  AccessInv'
<1> USE DEF AccessInv, AccessFrame
<1>1. PICK s \in {"fetch", "save"} : accessPc' = [accessPc EXCEPT ![c] = s]
    BY DEF SetAccess, Fetched, Access
<1>2. accessPc[c] \in {"new", "fetch"} /\ rules' = rules
    BY DEF SetAccess, Fetched
<1>3. \A d \in AccessCalls : accessPc[d] \in {"save", "resolved", "rejected"} =>
          accessPc'[d] \in {"save", "resolved", "rejected"}
    BY <1>1, <1>2
<1>4. \/ s = "fetch" /\ UNCHANGED <<group, built>>
      \/ /\ s = "save" /\ built' = [built EXCEPT ![c] = ListFor(c)]
         /\ group' = group \/ (KindFor(c) = "group" /\ group' = group \union {AccessOf[c]})
    <2>1. CASE SetAccess(c)
        <3>1. accessPc'[c] = "fetch" /\ UNCHANGED <<group, built>>
            BY <2>1 DEF SetAccess, Access
        <3> QED BY <1>1, <3>1
    <2>2. CASE Fetched(c)
        <3>1. accessPc'[c] = "save" /\ built' = [built EXCEPT ![c] = ListFor(c)]
            BY <2>2 DEF Fetched, Access
        <3>2. group' = group \/ (KindFor(c) = "group" /\ group' = group \union {AccessOf[c]})
            BY <2>2 DEF Fetched
        <3> QED BY <1>1, <3>1, <3>2
    <2> QED BY <2>1, <2>2
<1>5. AccessFrame'
    BY <1>1, <1>4
<1>6. s = "save" /\ KindFor(c) = "group" =>
          \A d \in AccessCalls : AccessOf[d] = AccessOf[c] => GroupFor(d)'
    <2> SUFFICES ASSUME s = "save", KindFor(c) = "group", NEW d \in AccessCalls,
                        AccessOf[d] = AccessOf[c]
                 PROVE  GroupFor(d)'
        OBVIOUS
    <2>1. CASE AccessOf[c] \in group
        BY <1>3, <2>1, ReasonsStay DEF GroupReason
    <2>2. CASE AccessOf[c] \notin group
        <3>1. GranteeOf[c] = Everyone
            BY <2>2 DEF KindFor
        <3>2. accessPc'[c] = "save"
            BY <1>1
        <3> QED BY <3>1, <3>2 DEF GroupFor
    <2> QED BY <2>1, <2>2
<1>7. GroupReason'
    <2> SUFFICES ASSUME NEW d \in AccessCalls, AccessOf[d] \in group' PROVE GroupFor(d)'
        BY DEF GroupReason, GroupFor
    <2> QED BY <1>3, <1>4, <1>6, ReasonsStay DEF GroupReason
<1>8. BuiltOwn'
    <2> SUFFICES ASSUME NEW d \in AccessCalls, accessPc'[d] = "save"
                 PROVE  Own(built'[d], d, GroupFor(d)')
        BY DEF BuiltOwn, Own, Allowed, Controlled, OwnerRule
    <2>1. CASE d = c
        <3>1. s = "save" /\ built'[d] = ListFor(c)
            BY <1>1, <1>4, <2>1
        <3>2. KindFor(c) = "group" => GroupFor(c)'
            BY <1>6, <3>1
        <3> QED BY <2>1, <3>1, <3>2, ListOwn
    <2>2. CASE d # c
        <3>1. accessPc[d] = "save" /\ built'[d] = built[d]
            BY <1>1, <1>4, <2>2
        <3> QED BY <1>3, <3>1, ReasonsStay DEF BuiltOwn
    <2> QED BY <2>1, <2>2
<1>9. OwnerControls' /\ NothingUnasked'
    <2>1. \A d \in AccessCalls :
              accessPc'[d] \in {"resolved", "rejected"} <=> accessPc[d] \in {"resolved", "rejected"}
        BY <1>1, <1>2
    <2>2. OwnerControls'
        BY <1>1, <1>2, <2>1 DEF OwnerControls, OwnerRule
    <2>3. NothingUnasked'
        <3> SUFFICES ASSUME NEW r \in rules
                     PROVE  \E d \in AccessCalls :
                                accessPc'[d] \in {"resolved", "rejected"} /\ AskedBy(d, r)'
            BY <1>2 DEF NothingUnasked, AskedBy, GroupFor, OwnerRule
        <3>1. PICK d \in AccessCalls :
                  accessPc[d] \in {"resolved", "rejected"} /\ AskedBy(d, r)
            BY DEF NothingUnasked
        <3> QED BY <1>3, <2>1, <3>1, ReasonsStay
    <2> QED BY <2>2, <2>3
<1> QED BY <1>5, <1>7, <1>8, <1>9

----------------------------------------------------------------------------
(* A call builds a list of its own, and a save inserts one, whatever other *)
(* calls have built, saved and left in an access object.                   *)
THEOREM AccessInvariance == AccessSpec => []AccessInv
<1>1. AccessInit => AccessInv
    BY DEF AccessInit, AccessInv, AccessFrame, GroupReason, GroupFor, BuiltOwn, OwnerControls,
           NothingUnasked
<1>2. AccessInv /\ [AccessNext]_accessVars => AccessInv'
    <2> SUFFICES ASSUME AccessInv, [AccessNext]_accessVars PROVE AccessInv'
        OBVIOUS
    <2>1. CASE UNCHANGED accessVars
        BY <2>1 DEF accessVars, AccessInv, AccessFrame, GroupReason, GroupFor, BuiltOwn, Own,
               Allowed, Controlled, OwnerRule, OwnerControls, NothingUnasked, AskedBy
    <2> QED BY <2>1, BuildKeeps, SaveKeeps DEF AccessNext
<1> QED BY <1>1, <1>2, PTL DEF AccessSpec

(* However calls overlap, the owners who saved keep full control.          *)
THEOREM OwnerControlsCorrect == AccessSpec => []OwnerControls
<1>1. AccessInv => OwnerControls
    BY DEF AccessInv
<1> QED BY <1>1, AccessInvariance, PTL

(* However calls overlap, share access objects and fail, nobody has access *)
(* that no call asked for.                                                 *)
THEOREM NothingUnaskedCorrect == AccessSpec => []NothingUnasked
<1>1. AccessInv => NothingUnasked
    BY DEF AccessInv
<1> QED BY <1>1, AccessInvariance, PTL

----------------------------------------------------------------------------
(* No call asks for a group, or for everyone, with the object of the call. *)
Private(c) ==
    /\ AccessOf[c] \notin ForGroup
    /\ \A d \in AccessCalls : AccessOf[d] = AccessOf[c] => GranteeOf[d] # Everyone

AgentIn(acl, c) ==
    \E r \in acl : r.kind = "agent" /\ r.who = GranteeOf[c] /\ r.modes = AccessOf[c]

GroupOwn == \A c \in AccessCalls : Private(c) => AccessOf[c] \notin group

BuiltGrants ==
    \A c \in AccessCalls : accessPc[c] = "save" /\ Private(c) => AgentIn(built[c], c)

SavedGrants ==
    \A c \in AccessCalls : accessPc[c] = "resolved" /\ Private(c) => AgentIn(rules, c)

GrantInv == GroupOwn /\ BuiltGrants /\ SavedGrants

(* Nothing that a call adds after its agent's rule takes that rule away. *)
LEMMA ListGrants ==
    ASSUME NEW c \in AccessCalls, AccessOf[c] \notin group, GranteeOf[c] # Everyone
    PROVE  AgentIn(ListFor(c), c)
<1> DEFINE a == AccessOf[c]
           rule == [kind |-> "agent", who |-> GranteeOf[c], scope |-> "resource", modes |-> a]
           Granted(acl, kind, who) ==
               LET here == Grant(acl, kind, who, "resource", a)
               IN  IF a \in ForDefault THEN Grant(here, kind, who, "default", a) ELSE here
           granted == Granted(ListBefore(c), "agent", GranteeOf[c])
<1>1. KindFor(c) = "agent"
    BY DEF KindFor
<1>2. rule \in granted
    BY DEF Grant
<1>3. rule \in Granted(granted, "public", Everyone)
    <2> HIDE DEF granted
    <2> QED BY <1>2 DEF Grant
<1>4. ListFor(c) = IF a \in ForPublic THEN Granted(granted, "public", Everyone) ELSE granted
    BY <1>1 DEF ListFor
<1>5. rule \in ListFor(c)
    BY <1>2, <1>3, <1>4
<1> QED BY <1>5 DEF AgentIn

(* A call that asks for an agent grants that agent, as long as no call     *)
(* asks for a group, or for everyone, with the same access object.         *)
THEOREM AgentGrantedCorrect == AccessSpec => []AgentGranted
<1> USE AccessAssumption DEF GrantInv
<1>1. AccessInit => GrantInv
    BY DEF AccessInit, GroupOwn, BuiltGrants, SavedGrants, Private
<1>2. AccessInv /\ GrantInv /\ [AccessNext]_accessVars => GrantInv'
    <2> SUFFICES ASSUME AccessInv, GrantInv, [AccessNext]_accessVars PROVE GrantInv'
        OBVIOUS
    <2> USE DEF AccessInv, AccessFrame
    <2>1. CASE UNCHANGED accessVars
        BY <2>1 DEF accessVars, GroupOwn, BuiltGrants, SavedGrants, AgentIn
    <2>2. ASSUME NEW c \in AccessCalls, SetAccess(c) PROVE GrantInv'
        <3>1. accessPc' = [accessPc EXCEPT ![c] = "fetch"] /\ UNCHANGED <<rules, group, built>>
            BY <2>2 DEF SetAccess, Access
        <3> QED BY <3>1 DEF GroupOwn, SavedGrants, BuiltGrants, AgentIn
    <2>3. ASSUME NEW c \in AccessCalls, Fetched(c) PROVE GrantInv'
        <3>1. /\ accessPc' = [accessPc EXCEPT ![c] = "save"]
              /\ built' = [built EXCEPT ![c] = ListFor(c)]
              /\ UNCHANGED rules
            BY <2>3 DEF Fetched, Access
        <3>2. group' = group \/ (KindFor(c) = "group" /\ group' = group \union {AccessOf[c]})
            BY <2>3 DEF Fetched
        <3>3. GroupOwn'
            BY <3>2 DEF GroupOwn, KindFor, Private
        <3>4. ASSUME NEW d \in AccessCalls, accessPc'[d] = "save", Private(d)
              PROVE  AgentIn(built'[d], d)
            <4>1. CASE d = c
                BY <3>1, <3>4, <4>1, ListGrants DEF GroupOwn, Private
            <4>2. CASE d # c
                BY <3>1, <3>4, <4>2 DEF BuiltGrants
            <4> QED BY <4>1, <4>2
        <3>5. BuiltGrants'
            BY <3>4 DEF BuiltGrants, AgentIn
        <3>6. SavedGrants'
            BY <3>1 DEF SavedGrants, AgentIn
        <3> QED BY <3>3, <3>5, <3>6
    <2>4. ASSUME NEW c \in AccessCalls, Save(c) \/ RefuseAccess(c) PROVE GrantInv'
        <3>1. PICK s \in {"resolved", "rejected"} : accessPc' = [accessPc EXCEPT ![c] = s]
            BY <2>4 DEF Save, RefuseAccess, Access
        <3>2. /\ UNCHANGED <<group, built>> /\ rules \subseteq rules'
              /\ s = "resolved" => accessPc[c] = "save" /\ built[c] \subseteq rules'
            BY <2>4, <3>1 DEF Save, RefuseAccess, Access
        <3>3. GroupOwn' /\ BuiltGrants'
            BY <3>1, <3>2 DEF GroupOwn, BuiltGrants, AgentIn
        <3>4. SavedGrants'
            BY <3>1, <3>2 DEF BuiltGrants, SavedGrants, AgentIn
        <3> QED BY <3>3, <3>4
    <2> QED BY <2>1, <2>2, <2>3, <2>4 DEF AccessNext
<1>3. AccessFrame /\ GrantInv => AgentGranted
    BY DEF SavedGrants, AgentGranted, Private, AgentIn
<1>4. AccessInv => AccessFrame
    BY DEF AccessInv
<1> QED BY <1>1, <1>2, <1>3, <1>4, AccessInvariance, PTL DEF AccessSpec
----------------------------------------------------------------------------
(* Types.                                                                  *)

LEMMA GrantTyped ==
    ASSUME NEW acl \in SUBSET Rule, NEW kind \in {"agent", "group", "public"}, NEW who \in Agents,
           NEW scope \in {"resource", "default"}, NEW modes \in AccessObjects \union {FullModes}
    PROVE  Grant(acl, kind, who, scope, modes) \in SUBSET Rule
BY DEF Grant, Rule

LEMMA ListTyped ==
    ASSUME NEW c \in AccessCalls
    PROVE  ListFor(c) \in SUBSET Rule
<1> DEFINE a == AccessOf[c]
           Granted(acl, kind, who) ==
               LET here == Grant(acl, kind, who, "resource", a)
               IN  IF a \in ForDefault THEN Grant(here, kind, who, "default", a) ELSE here
           granted == Granted(ListBefore(c), KindFor(c), GranteeOf[c])
<1>1. /\ a \in AccessObjects \union {FullModes} /\ FullModes \in AccessObjects \union {FullModes}
      /\ GranteeOf[c] \in Agents /\ OwnerOf[c] \in Agents /\ Everyone \in Agents
      /\ KindFor(c) \in {"agent", "group", "public"}
    BY AccessAssumption DEF Agents, KindFor
<1>2. ASSUME NEW acl \in SUBSET Rule, NEW kind \in {"agent", "group", "public"}, NEW who \in Agents
      PROVE  Granted(acl, kind, who) \in SUBSET Rule
    <2> DEFINE here == Grant(acl, kind, who, "resource", a)
    <2>1. here \in SUBSET Rule
        BY <1>1, GrantTyped
    <2>2. Grant(here, kind, who, "default", a) \in SUBSET Rule
        BY <1>1, <2>1, GrantTyped
    <2> QED BY <2>1, <2>2
<1>3. ListBefore(c) \in SUBSET Rule
    <2>1. Grant({}, "agent", OwnerOf[c], "default", FullModes) \in SUBSET Rule
        BY <1>1, GrantTyped
    <2>2. OwnerRules(c) \in SUBSET Rule
        BY <1>1, <2>1, GrantTyped DEF OwnerRules
    <2> QED BY <2>2 DEF ListBefore
<1>4. granted \in SUBSET Rule
    BY <1>1, <1>2, <1>3
<1>5. Granted(granted, "public", Everyone) \in SUBSET Rule
    BY <1>1, <1>2, <1>4
<1>6. ListFor(c) = IF a \in ForPublic THEN Granted(granted, "public", Everyone) ELSE granted
    BY DEF ListFor
<1> QED BY <1>4, <1>5, <1>6

(* Every list that is built or saved is one of rules for the agents that   *)
(* the calls name.                                                         *)
THEOREM AccessTypeCorrect == AccessSpec => []AccessTypeOK
<1> USE AccessAssumption
<1>1. AccessInit => AccessTypeOK
    BY DEF AccessInit, AccessTypeOK
<1>2. AccessTypeOK /\ [AccessNext]_accessVars => AccessTypeOK'
    <2> SUFFICES ASSUME AccessTypeOK, [AccessNext]_accessVars PROVE AccessTypeOK'
        OBVIOUS
    <2>1. CASE UNCHANGED accessVars
        BY <2>1 DEF accessVars, AccessTypeOK
    <2>2. ASSUME NEW c \in AccessCalls, SetAccess(c) \/ RefuseAccess(c) \/ Save(c)
          PROVE  AccessTypeOK'
        BY <2>2 DEF SetAccess, RefuseAccess, Save, Access, AccessTypeOK
    <2>3. ASSUME NEW c \in AccessCalls, Fetched(c) PROVE AccessTypeOK'
        BY <2>3, ListTyped DEF Fetched, Access, AccessTypeOK
    <2> QED BY <2>1, <2>2, <2>3 DEF AccessNext
<1> QED BY <1>1, <1>2, PTL DEF AccessSpec
============================================================================
