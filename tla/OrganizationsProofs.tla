-------------------------- MODULE OrganizationsProofs --------------------------
(***************************************************************************)
(* For every number of tabs and organisations: what the interleavings of   *)
(* the tabs' requests can do to the session, to the user's memberships and *)
(* to the record of joining them.                                          *)
(***************************************************************************)
EXTENDS Organizations, FiniteSetTheorems, TLAPS

\* What a request has read in the session was joined.
ReadIsJoined(t) == req[t].read # None => Joined(req[t].read)

\* What the session, a request or a page ever named was joined, and a workspace the user
\* created is never left.
NamedIsJoined ==
    /\ \A o \in Orgs : members[o] # None => Joined(o)
    /\ \A o \in Orgs \ {Invited} : Joined(o) => members[o] # None
    /\ active # None => Joined(active)
    /\ \A t \in Tabs : ReadIsJoined(t)
    /\ \A t \in Tabs : \A o \in before[t] : Joined(o)

\* What a request that resolves its context knows of the session, unless another tab has
\* changed it since.
ContextIsExplained(t) ==
    /\ At(t, "list") /\ ~switched[t] => active = req[t].read
    /\ At(t, "clear") => req[t].read = Invited /\ req[t].org = None
    /\ At(t, "clear") /\ ~switched[t] => members[Invited] = None
    /\ At(t, "clear") /\ ~switched[t] => active = Invited
    /\ At(t, "pick") /\ ~switched[t] => active = None
    /\ At(t, "role") /\ req[t].org # None /\ ~switched[t] => active = req[t].org

\* better-auth was asked when the user was a member of nothing, and only a second
\* acceptance of the invitation can have changed that for an organisation joined before.
CreatorWasFree(t) ==
    At(t, "create") => \A o \in before[t] : members[o] = None \/ (o = Invited /\ joins[o] > 1)

\* A request that joined an organisation names it.
TargetIsNamed(t) == InJoining(t) => req[t].target \in Orgs /\ Joined(req[t].target)

TabsAreExplained ==
    \A t \in Tabs : ContextIsExplained(t) /\ CreatorWasFree(t) /\ TargetIsNamed(t)

\* The steps of a request that has joined an organisation and not recorded it.
JoinSteps == {"enter", "activate", "audit"}

\* The inductive invariant.
OInv ==
    /\ TypeOK
    /\ NamedIsJoined
    /\ TabsAreExplained
    /\ JoinsAreAuditedOnce

\* The request of an idle tab.
LEMMA NoRequestIsIdle ==
    /\ NoRequest \in Requests
    /\ NoRequest.step = "idle" /\ NoRequest.read = None /\ NoRequest.org = None
    /\ NoRequest.target = None /\ NoRequest.orgs = {}
<1> QED BY DEF NoRequest, Requests, Kinds, Steps

\* What setActiveOrganization does to the session, and who is told.
LEMMA ActivatesDoes ==
    ASSUME TypeOK, NEW t \in Tabs, NEW o, Activates(t, o)
    PROVE  /\ active' = o /\ o \in Orgs \cup {None} /\ (o # None => members[o] # None)
           /\ switched' \in [Tabs -> BOOLEAN]
           /\ \A u \in Tabs : (switched'[u] = TRUE) <=> (switched[u] = TRUE \/ (u # t /\ o # active))
<1>1. \A u \in Tabs : (switched[u] \/ (u # t /\ o # active)) \in BOOLEAN
  OBVIOUS
<1>2. switched' \in [Tabs -> BOOLEAN]
  BY <1>1 DEF Activates
<1>3. \A u \in Tabs : (switched'[u] = TRUE) <=> (switched[u] = TRUE \/ (u # t /\ o # active))
  BY DEF Activates, TypeOK
<1>4. active' = o /\ o \in Orgs \cup {None} /\ (o # None => members[o] # None)
  BY OrganizationAssumption DEF Activates, Memberships
<1> QED BY <1>2, <1>3, <1>4

\* A request is on its way to record what it joined at these steps.
LEMMA JoiningIs == \A o : Joining(o) = {t \in Tabs : req[t].target = o /\ req[t].step \in JoinSteps}
<1> QED BY DEF Joining, InJoining, At, JoinSteps

\* There are finitely many tabs.
LEMMA JoiningIsFinite == \A o : IsFiniteSet(Joining(o)) /\ Cardinality(Joining(o)) \in Nat
<1>1. \A o : Joining(o) \in SUBSET Tabs
  BY DEF Joining
<1> QED BY <1>1, OrganizationAssumption, FS_Subset, FS_CardinalityType

\* A step of a tab that neither begins nor ends a joining.
LEMMA JoiningStays ==
    ASSUME NEW t \in Tabs, \A u \in Tabs : u # t => req'[u] = req[u],
           req'[t].step \in JoinSteps <=> req[t].step \in JoinSteps,
           req[t].step \in JoinSteps => req'[t].target = req[t].target
    PROVE  \A o : Joining(o)' = Joining(o)
<1>1. \A o : Joining(o)' = {u \in Tabs : req'[u].target = o /\ req'[u].step \in JoinSteps}
  BY DEF Joining, InJoining, At, JoinSteps
<1> QED BY <1>1, JoiningIs

\* Then the account of the joinings is as it was.
LEMMA JoinsStay ==
    ASSUME JoinsAreAuditedOnce, \A o : Joining(o)' = Joining(o),
           audit' = audit, lost' = lost, joins' = joins
    PROVE  JoinsAreAuditedOnce'
<1>1. SUFFICES ASSUME NEW o \in Orgs
               PROVE  Cardinality(Joining(o))' + audit'[o] + lost'[o] = joins'[o]
  BY DEF JoinsAreAuditedOnce
<1>2. Cardinality(Joining(o))' = Cardinality(Joining(o))
  <2>1. Joining(o)' = Joining(o)
    OBVIOUS
  <2> QED BY <2>1
<1> QED BY <1>2 DEF JoinsAreAuditedOnce

-----------------------------------------------------------------------------
(* What every step of a tab keeps, once its own request and the joinings are accounted *)
(* for.                                                                     *)

\* A step of tab t: nothing that was joined is forgotten or, but for the invitation, joined
\* again, and another tab that is not told of a change of the session sees none.
TabMoves(t) ==
    /\ TypeOK'
    /\ \A u \in Tabs : u # t => req'[u] = req[u] /\ before'[u] = before[u]
    /\ \A u \in Tabs : u # t /\ ~switched'[u] => ~switched[u] /\ active' = active
    /\ \A u \in Tabs : u # t /\ ~switched'[u] /\ members[Invited] = None
            => members'[Invited] = None
    /\ \A o \in Orgs : Joined(o) => Joined(o)' /\ joins[o] <= joins'[o]
    /\ \A o \in Orgs : Joined(o) /\ members'[o] # None
            => members[o] # None \/ (o = Invited /\ joins'[o] > 1)
    /\ \A o \in Orgs : members'[o] # None => Joined(o)'
    /\ \A o \in Orgs \ {Invited} : Joined(o)' => members'[o] # None

\* What tab t itself names and knows after the step.
TabKnows(t) ==
    /\ (active # None => Joined(active))'
    /\ ReadIsJoined(t)'
    /\ \A o \in before'[t] : Joined(o)'
    /\ ContextIsExplained(t)' /\ CreatorWasFree(t)' /\ TargetIsNamed(t)'

\* A step of one tab: the others know what they knew, so it is enough to look at that tab.
LEMMA TabStep ==
    ASSUME OInv, NEW t \in Tabs, TabMoves(t), TabKnows(t), JoinsAreAuditedOnce'
    PROVE  OInv'
<1> USE OrganizationAssumption
<1>1. NamedIsJoined'
  <2>1. ASSUME NEW u \in Tabs, u # t
        PROVE  ReadIsJoined(u)'
    <3>1. req[u] \in Requests
      BY DEF OInv, TypeOK
    <3>2. req[u].read # None => Joined(req[u].read) /\ req[u].read \in Orgs
      BY <3>1 DEF OInv, NamedIsJoined, ReadIsJoined, Requests
    <3> QED BY <2>1, <3>2 DEF TabMoves, ReadIsJoined, Joined
  <2>2. \A u \in Tabs : \A o \in before'[u] : Joined(o)'
    <3> SUFFICES ASSUME NEW u \in Tabs, u # t, NEW o \in before[u]
                 PROVE  Joined(o)'
      BY DEF TabMoves, TabKnows
    <3>1. Joined(o) /\ o \in Orgs
      BY DEF OInv, NamedIsJoined, TypeOK
    <3> QED BY <3>1 DEF TabMoves
  <2>3. ASSUME NEW u \in Tabs
        PROVE  ReadIsJoined(u)'
    <3>1. CASE u = t
      BY <3>1 DEF TabKnows, ReadIsJoined, Joined
    <3>2. CASE u # t
      BY <2>1, <3>2
    <3> QED BY <3>1, <3>2
  <2> QED BY <2>2, <2>3 DEF NamedIsJoined, TabMoves, TabKnows
<1>2. TabsAreExplained'
  <2> SUFFICES ASSUME NEW u \in Tabs, u # t
               PROVE  ContextIsExplained(u)' /\ CreatorWasFree(u)' /\ TargetIsNamed(u)'
    BY DEF TabsAreExplained, TabKnows
  <2>1. req'[u] = req[u] /\ before'[u] = before[u]
    BY DEF TabMoves
  <2>2. ContextIsExplained(u)'
    <3> QED BY <2>1 DEF OInv, TabsAreExplained, ContextIsExplained, TabMoves, At
  <2>3. CreatorWasFree(u)'
    <3>1. \A o \in before[u] : o \in Orgs /\ Joined(o)
      BY DEF OInv, NamedIsJoined, TypeOK
    <3>2. \A o \in Orgs : joins[o] \in Nat /\ joins'[o] \in Nat
      BY DEF OInv, TypeOK, TabMoves
    <3> QED BY <2>1, <3>1, <3>2 DEF OInv, TabsAreExplained, CreatorWasFree, TabMoves, At
  <2>4. TargetIsNamed(u)'
    <3>1. InJoining(u)' <=> InJoining(u)
      BY <2>1 DEF InJoining, At
    <3> QED BY <2>1, <3>1 DEF OInv, TabsAreExplained, TargetIsNamed, TabMoves, Joined
  <2> QED BY <2>2, <2>3, <2>4
<1> QED BY <1>1, <1>2 DEF OInv, TabMoves

\* A step that joins or leaves nothing and sends nothing.
Settled ==
    /\ members' = members /\ joins' = joins /\ before' = before
    /\ invitation' \in {"pending", "accepted"}

\* Who has joined what is as before.
LEMMA SettledStays ==
    ASSUME OInv, Settled
    PROVE  /\ \A o : Joined(o)' <=> Joined(o)
           /\ \A o \in Orgs : members'[o] # None => Joined(o)'
           /\ \A o \in Orgs \ {Invited} : Joined(o)' => members'[o] # None
<1> QED BY DEF OInv, NamedIsJoined, Settled, Joined

\* Every step that joins and leaves nothing: only the session and the tab's own request.
LEMMA SettledStep ==
    ASSUME OInv, NEW t \in Tabs, Settled,
           req' \in [Tabs -> Requests], \A u \in Tabs : u # t => req'[u] = req[u],
           active' = active \/ active' = None \/ (active' \in Orgs /\ Joined(active')),
           switched' \in [Tabs -> BOOLEAN],
           \A u \in Tabs : u # t /\ ~switched'[u] => ~switched[u] /\ active' = active,
           req'[t].read \in {req[t].read, active, None},
           ContextIsExplained(t)', CreatorWasFree(t)', TargetIsNamed(t)',
           audit' \in [Orgs -> Nat], lost' \in [Orgs -> Nat], JoinsAreAuditedOnce'
    PROVE  OInv'
<1> USE OrganizationAssumption
<1>1. TypeOK'
  BY DEF OInv, TypeOK, Settled
<1>2. /\ \A o : Joined(o)' <=> Joined(o)
      /\ \A o \in Orgs : members'[o] # None => Joined(o)'
      /\ \A o \in Orgs \ {Invited} : Joined(o)' => members'[o] # None
  BY SettledStays
<1>3. TabMoves(t)
  <2>1. \A o \in Orgs : joins[o] <= joins'[o]
    BY DEF OInv, TypeOK, Settled
  <2> QED BY <1>1, <1>2, <2>1 DEF TabMoves, Settled
<1>4. TabKnows(t)
  <2>1. \A o \in Orgs \cup {None} : (o = active \/ o = None \/ Joined(o)) /\ o # None
            => Joined(o)
    BY DEF OInv, NamedIsJoined
  <2>2. (active # None => Joined(active))'
    BY <2>1, <1>2 DEF OInv, TypeOK, Settled, Joined
  <2>3. ReadIsJoined(t)'
    BY <2>1, <1>2 DEF OInv, NamedIsJoined, ReadIsJoined, Settled, Joined
  <2>4. \A o \in before'[t] : Joined(o)'
    BY <1>2 DEF OInv, NamedIsJoined, Settled
  <2> QED BY <2>2, <2>3, <2>4 DEF TabKnows
<1> QED BY <1>3, <1>4, TabStep

\* The joinings of a step that neither begins nor ends one.
LEMMA SettledJoins ==
    ASSUME OInv, NEW t \in Tabs, Settled, \A u \in Tabs : u # t => req'[u] = req[u],
           req'[t].step \in JoinSteps <=> req[t].step \in JoinSteps,
           req[t].step \in JoinSteps => req'[t].target = req[t].target,
           audit' = audit, lost' = lost
    PROVE  /\ JoinsAreAuditedOnce'
           /\ audit' \in [Orgs -> Nat] /\ lost' \in [Orgs -> Nat]
<1>1. \A o : Joining(o)' = Joining(o)
  BY JoiningStays
<1>2. JoinsAreAuditedOnce'
  BY <1>1, JoinsStay DEF OInv, Settled
<1> QED BY <1>2 DEF OInv, TypeOK

\* A request begins with what the session names.
LEMMA ReadSessionKeeps ==
    ASSUME OInv, NEW t \in Tabs, ReadSession(t)
    PROVE  OInv'
<1> USE OrganizationAssumption, NoRequestIsIdle
<1>1. TypeOK /\ req[t] \in Requests
  BY DEF OInv, TypeOK
<1>2. req' \in [Tabs -> Requests] /\ \A u \in Tabs : u # t => req'[u] = req[u]
  BY <1>1 DEF ReadSession, At, TypeOK, Requests, Kinds, Steps, Roles, Memberships
<1>3. /\ req[t].step = "session" /\ req'[t].step = "list"
      /\ req'[t].read = active
  BY <1>1 DEF ReadSession, At, TypeOK, Requests, Memberships
<1>5. /\ active' = active /\ switched' \in [Tabs -> BOOLEAN]
      /\ \A u \in Tabs : u # t => switched'[u] = switched[u]
  BY <1>1 DEF ReadSession, TypeOK
<1>6. ContextIsExplained(t)'
  BY <1>1, <1>3, <1>5 DEF ReadSession, At, OInv, NamedIsJoined, ReadIsJoined, TabsAreExplained, ContextIsExplained, TypeOK, Requests, Memberships, Joined
<1>7. CreatorWasFree(t)' /\ TargetIsNamed(t)'
  BY <1>1, <1>3 DEF ReadSession, At, OInv, CreatorWasFree, TargetIsNamed, InJoining, TypeOK, Memberships
<1>8. Settled /\ audit' = audit /\ lost' = lost
  BY <1>1 DEF Settled, ReadSession, TypeOK
<1>9. JoinsAreAuditedOnce' /\ audit' \in [Orgs -> Nat] /\ lost' \in [Orgs -> Nat]
  BY <1>2, <1>3, <1>8, SettledJoins DEF JoinSteps
<1>10. \A u \in Tabs : u # t /\ ~switched'[u] => ~switched[u] /\ active' = active
  BY <1>1, <1>5 DEF TypeOK
<1> QED BY <1>2, <1>3, <1>5, <1>6, <1>7, <1>8, <1>9, <1>10, SettledStep

\* Only the organisation of the invitation can be named and not be joined any more.
LEMMA ListOrganizationsKeeps ==
    ASSUME OInv, NEW t \in Tabs, ListOrganizations(t)
    PROVE  OInv'
<1> USE OrganizationAssumption, NoRequestIsIdle
<1>1. TypeOK /\ req[t] \in Requests /\ req[t].step = "list" /\ Memberships \in SUBSET Orgs
  BY DEF OInv, TypeOK, ListOrganizations, At, Memberships
<1> DEFINE org == IF req[t].read \in Memberships THEN req[t].read ELSE None
<1>4. PICK step \in {"clear", "pick", "role"} :
         /\ req' = [req EXCEPT ![t] = [req[t] EXCEPT !.orgs = Memberships, !.org = org, !.step = step]]
         /\ step = "clear" <=> req[t].read # org
         /\ step = "pick" => org = None
  BY DEF ListOrganizations, AfterFixUp
<1>2. req' \in [Tabs -> Requests] /\ \A u \in Tabs : u # t => req'[u] = req[u]
  <2>1. org \in Orgs \cup {None} /\ {"clear", "pick", "role"} \subseteq Steps
    BY <1>1 DEF Steps
  <2>2. [req[t] EXCEPT !.orgs = Memberships, !.org = org, !.step = step] \in Requests
    BY <1>1, <2>1 DEF Requests
  <2> QED BY <1>1, <1>4, <2>2 DEF TypeOK
<1>3. /\ req[t].step = "list" /\ req'[t].step \in {"clear", "pick", "role"}
      /\ req'[t].step = step /\ req'[t].org = org
      /\ req'[t].read = req[t].read
  BY <1>1, <1>4 DEF TypeOK, Requests
<1>5. /\ active' = active /\ switched' \in [Tabs -> BOOLEAN]
      /\ \A u \in Tabs : u # t => switched'[u] = switched[u]
  BY <1>1 DEF ListOrganizations, TypeOK
<1>6. ContextIsExplained(t)'
  <2>1. ~switched'[t] => active = req[t].read
    BY <1>1, <1>3 DEF ListOrganizations, OInv, TabsAreExplained, ContextIsExplained, At
  <2>2. members' = members /\ switched' = switched
    BY DEF ListOrganizations
  <2>3. CASE step = "clear"
    <3>1. req[t].read \notin Memberships /\ req[t].read # None /\ org = None /\ req[t].read \in Orgs
      BY <1>1, <1>4, <2>3 DEF Requests
    <3>2. req[t].read = Invited /\ members[Invited] = None
      BY <3>1 DEF OInv, NamedIsJoined, ReadIsJoined, Memberships
    <3> QED BY <1>3, <1>5, <2>1, <2>2, <2>3, <3>1, <3>2 DEF ContextIsExplained, At
  <2>4. CASE step # "clear"
    <3>1. req[t].read = org /\ (step = "pick" => org = None)
      BY <1>4, <2>4
    <3> QED BY <1>3, <1>5, <2>1, <2>2, <2>4, <3>1 DEF ContextIsExplained, At
  <2> QED BY <2>3, <2>4
<1>7. CreatorWasFree(t)' /\ TargetIsNamed(t)'
  BY <1>1, <1>3 DEF ListOrganizations, At, AfterFixUp, OInv, CreatorWasFree, TargetIsNamed, InJoining, TypeOK, Memberships
<1>8. Settled /\ audit' = audit /\ lost' = lost
  BY <1>1 DEF Settled, ListOrganizations, TypeOK
<1>9. JoinsAreAuditedOnce' /\ audit' \in [Orgs -> Nat] /\ lost' \in [Orgs -> Nat]
  BY <1>2, <1>3, <1>8, SettledJoins DEF JoinSteps
<1>10. \A u \in Tabs : u # t /\ ~switched'[u] => ~switched[u] /\ active' = active
  BY <1>1, <1>5 DEF TypeOK
<1> QED BY <1>2, <1>3, <1>5, <1>6, <1>7, <1>8, <1>9, <1>10, SettledStep

\* The session names nothing after it.
LEMMA ClearActiveKeeps ==
    ASSUME OInv, NEW t \in Tabs, ClearActive(t)
    PROVE  OInv'
<1> USE OrganizationAssumption, NoRequestIsIdle
<1>1. TypeOK /\ req[t] \in Requests
  BY DEF OInv, TypeOK
<1>2. req' \in [Tabs -> Requests] /\ \A u \in Tabs : u # t => req'[u] = req[u]
  BY <1>1 DEF ClearActive, At, Goto, AfterFixUp, TypeOK, Requests, Kinds, Steps, Roles, Memberships
<1>3. /\ req[t].step = "clear" /\ req'[t].step \in {"pick", "role"}
      /\ req'[t].read = req[t].read /\ req'[t].org = req[t].org
  BY <1>1 DEF ClearActive, At, Goto, AfterFixUp, TypeOK, Requests, Memberships
<1>4. Activates(t, None)
  BY DEF ClearActive
<1>5. /\ active' = None
      /\ switched' \in [Tabs -> BOOLEAN]
      /\ \A u \in Tabs : (switched'[u] = TRUE) <=> (switched[u] = TRUE \/ (u # t /\ None # active))
  BY <1>1, <1>4, ActivatesDoes
<1>6. ContextIsExplained(t)'
  BY <1>1, <1>3, <1>5 DEF ClearActive, At, Goto, AfterFixUp, OInv, NamedIsJoined, ReadIsJoined, TabsAreExplained, ContextIsExplained, TypeOK, Requests, Memberships, Joined
<1>7. CreatorWasFree(t)' /\ TargetIsNamed(t)'
  BY <1>1, <1>3 DEF ClearActive, At, Goto, AfterFixUp, OInv, CreatorWasFree, TargetIsNamed, InJoining, TypeOK, Memberships
<1>8. Settled /\ audit' = audit /\ lost' = lost
  BY <1>1 DEF Settled, ClearActive, TypeOK
<1>9. JoinsAreAuditedOnce' /\ audit' \in [Orgs -> Nat] /\ lost' \in [Orgs -> Nat]
  BY <1>2, <1>3, <1>8, SettledJoins DEF JoinSteps
<1>10. \A u \in Tabs : u # t /\ ~switched'[u] => ~switched[u] /\ active' = active
  BY <1>1, <1>5 DEF TypeOK
<1> QED BY <1>2, <1>3, <1>5, <1>6, <1>7, <1>8, <1>9, <1>10, SettledStep

\* The organisation of the context is the one the session names.
LEMMA PickOnlyKeeps ==
    ASSUME OInv, NEW t \in Tabs, PickOnly(t)
    PROVE  OInv'
<1> USE OrganizationAssumption, NoRequestIsIdle
<1>1. TypeOK /\ req[t] \in Requests
  BY DEF OInv, TypeOK
<1>2. req' \in [Tabs -> Requests] /\ \A u \in Tabs : u # t => req'[u] = req[u]
  BY <1>1, SMTT(60) DEF PickOnly, At, TypeOK, Requests, Kinds, Steps, Roles, Memberships
<1>3. /\ req[t].step = "pick" /\ req'[t].step = "role"
      /\ req'[t].read = req[t].read /\ req'[t].org \in Orgs
  BY <1>1 DEF PickOnly, At, TypeOK, Requests, Memberships
<1>4. PICK o \in Orgs : Activates(t, o) /\ req'[t].org = o
  BY <1>1 DEF PickOnly, At, TypeOK, Requests
<1>5. /\ active' = o /\ members[o] # None
      /\ switched' \in [Tabs -> BOOLEAN]
      /\ \A u \in Tabs : (switched'[u] = TRUE) <=> (switched[u] = TRUE \/ (u # t /\ o # active))
  <2>1. Activates(t, o) /\ o # None
    BY <1>4
  <2> QED BY <1>1, <2>1, ActivatesDoes
<1>6. ContextIsExplained(t)'
  BY <1>1, <1>3, <1>5 DEF PickOnly, At, OInv, NamedIsJoined, ReadIsJoined, TabsAreExplained, ContextIsExplained, TypeOK, Requests, Memberships, Joined
<1>7. CreatorWasFree(t)' /\ TargetIsNamed(t)'
  BY <1>1, <1>3 DEF PickOnly, At, OInv, CreatorWasFree, TargetIsNamed, InJoining, TypeOK, Memberships
<1>8. Settled /\ audit' = audit /\ lost' = lost
  BY <1>1 DEF Settled, PickOnly, TypeOK
<1>9. JoinsAreAuditedOnce' /\ audit' \in [Orgs -> Nat] /\ lost' \in [Orgs -> Nat]
  BY <1>2, <1>3, <1>8, SettledJoins DEF JoinSteps
<1>10. \A u \in Tabs : u # t /\ ~switched'[u] => ~switched[u] /\ active' = active
  BY <1>1, <1>5 DEF TypeOK
<1>11. active' \in Orgs /\ Joined(active')
  BY <1>5 DEF OInv, NamedIsJoined
<1> QED BY <1>2, <1>3, <1>5, <1>6, <1>7, <1>8, <1>9, <1>10, <1>11, SettledStep

\* The context is complete.
LEMMA ReadRoleKeeps ==
    ASSUME OInv, NEW t \in Tabs, ReadRole(t)
    PROVE  OInv'
<1> USE OrganizationAssumption, NoRequestIsIdle
<1>1. TypeOK /\ req[t] \in Requests
  BY DEF OInv, TypeOK
<1>2. req' \in [Tabs -> Requests] /\ \A u \in Tabs : u # t => req'[u] = req[u]
  BY <1>1, ZenonT(60) DEF ReadRole, At, AfterContext, TypeOK, Requests, Kinds, Steps, Roles, Memberships
<1>3. /\ req[t].step = "role" /\ req'[t].step \in {"answer", "check", "find"}
      /\ req'[t].read = req[t].read
  <2>1. req'[t].step = AfterContext(t) /\ req'[t].read = req[t].read /\ At(t, "role")
    BY <1>1 DEF ReadRole, TypeOK, Requests
  <2>2. req[t].kind \in Kinds
    BY <1>1 DEF Requests
  <2> QED BY <2>1, <2>2 DEF AfterContext, Kinds, At
<1>5. /\ active' = active /\ switched' \in [Tabs -> BOOLEAN]
      /\ \A u \in Tabs : u # t => switched'[u] = switched[u]
  BY <1>1 DEF ReadRole, TypeOK
<1>6. ContextIsExplained(t)'
  BY <1>1, <1>3, <1>5 DEF ReadRole, At, AfterContext, OInv, NamedIsJoined, ReadIsJoined, TabsAreExplained, ContextIsExplained, TypeOK, Requests, Memberships, Joined
<1>7. CreatorWasFree(t)' /\ TargetIsNamed(t)'
  BY <1>1, <1>3 DEF ReadRole, At, AfterContext, OInv, CreatorWasFree, TargetIsNamed, InJoining, TypeOK, Memberships
<1>8. Settled /\ audit' = audit /\ lost' = lost
  BY <1>1 DEF Settled, ReadRole, TypeOK
<1>9. JoinsAreAuditedOnce' /\ audit' \in [Orgs -> Nat] /\ lost' \in [Orgs -> Nat]
  BY <1>2, <1>3, <1>8, SettledJoins DEF JoinSteps
<1>10. \A u \in Tabs : u # t /\ ~switched'[u] => ~switched[u] /\ active' = active
  BY <1>1, <1>5 DEF TypeOK
<1> QED BY <1>2, <1>3, <1>5, <1>6, <1>7, <1>8, <1>9, <1>10, SettledStep

\* The tab is idle again.
LEMMA AnswerKeeps ==
    ASSUME OInv, NEW t \in Tabs, Answer(t)
    PROVE  OInv'
<1> USE OrganizationAssumption, NoRequestIsIdle
<1>1. TypeOK /\ req[t] \in Requests
  BY DEF OInv, TypeOK
<1>2. req' \in [Tabs -> Requests] /\ \A u \in Tabs : u # t => req'[u] = req[u]
  BY <1>1 DEF Answer, At, Done, TypeOK, Requests, Kinds, Steps, Roles, Memberships
<1>3. /\ req[t].step = "answer" /\ req'[t].step = "idle"
      /\ req'[t].read = None
  BY <1>1 DEF Answer, At, Done, TypeOK, Requests, Memberships
<1>5. /\ active' = active /\ switched' \in [Tabs -> BOOLEAN]
      /\ \A u \in Tabs : u # t => switched'[u] = switched[u]
  BY <1>1 DEF Answer, TypeOK
<1>6. ContextIsExplained(t)'
  BY <1>1, <1>3, <1>5 DEF Answer, At, Done, OInv, NamedIsJoined, ReadIsJoined, TabsAreExplained, ContextIsExplained, TypeOK, Requests, Memberships, Joined
<1>7. CreatorWasFree(t)' /\ TargetIsNamed(t)'
  BY <1>1, <1>3 DEF Answer, At, Done, OInv, CreatorWasFree, TargetIsNamed, InJoining, TypeOK, Memberships
<1>8. Settled /\ audit' = audit /\ lost' = lost
  BY <1>1 DEF Settled, Answer, TypeOK
<1>9. JoinsAreAuditedOnce' /\ audit' \in [Orgs -> Nat] /\ lost' \in [Orgs -> Nat]
  BY <1>2, <1>3, <1>8, SettledJoins DEF JoinSteps
<1>10. \A u \in Tabs : u # t /\ ~switched'[u] => ~switched[u] /\ active' = active
  BY <1>1, <1>5 DEF TypeOK
<1> QED BY <1>2, <1>3, <1>5, <1>6, <1>7, <1>8, <1>9, <1>10, SettledStep

\* The first check.
LEMMA CheckWorkspaceKeeps ==
    ASSUME OInv, NEW t \in Tabs, CheckWorkspace(t)
    PROVE  OInv'
<1> USE OrganizationAssumption, NoRequestIsIdle
<1>1. TypeOK /\ req[t] \in Requests
  BY DEF OInv, TypeOK
<1>2. req' \in [Tabs -> Requests] /\ \A u \in Tabs : u # t => req'[u] = req[u]
  <2>1. \/ req' = [req EXCEPT ![t] = NoRequest]
        \/ req' = [req EXCEPT ![t] = [req[t] EXCEPT !.step = "allow"]]
    BY DEF CheckWorkspace, Done, Goto
  <2>2. [req[t] EXCEPT !.step = "allow"] \in Requests
    BY <1>1 DEF Requests, Steps
  <2> QED BY <1>1, <2>1, <2>2 DEF TypeOK
<1>3. /\ req[t].step = "check" /\ req'[t].step \in {"idle", "allow"}
      /\ req'[t].read \in {req[t].read, None}
  BY <1>1 DEF CheckWorkspace, At, Done, Goto, TypeOK, Requests, Memberships
<1>5. /\ active' = active /\ switched' \in [Tabs -> BOOLEAN]
      /\ \A u \in Tabs : u # t => switched'[u] = switched[u]
  BY <1>1 DEF CheckWorkspace, TypeOK
<1>6. ContextIsExplained(t)'
  BY <1>1, <1>3, <1>5 DEF CheckWorkspace, At, Done, Goto, OInv, NamedIsJoined, ReadIsJoined, TabsAreExplained, ContextIsExplained, TypeOK, Requests, Memberships, Joined
<1>7. CreatorWasFree(t)' /\ TargetIsNamed(t)'
  BY <1>1, <1>3 DEF CheckWorkspace, At, Done, Goto, OInv, CreatorWasFree, TargetIsNamed, InJoining, TypeOK, Memberships
<1>8. Settled /\ audit' = audit /\ lost' = lost
  BY <1>1 DEF Settled, CheckWorkspace, TypeOK
<1>9. JoinsAreAuditedOnce' /\ audit' \in [Orgs -> Nat] /\ lost' \in [Orgs -> Nat]
  BY <1>2, <1>3, <1>8, SettledJoins DEF JoinSteps
<1>10. \A u \in Tabs : u # t /\ ~switched'[u] => ~switched[u] /\ active' = active
  BY <1>1, <1>5 DEF TypeOK
<1> QED BY <1>2, <1>3, <1>5, <1>6, <1>7, <1>8, <1>9, <1>10, SettledStep

\* The second one: the user is a member of nothing when the request goes on.
LEMMA AllowCreateKeeps ==
    ASSUME OInv, NEW t \in Tabs, AllowCreate(t)
    PROVE  OInv'
<1> USE OrganizationAssumption, NoRequestIsIdle
<1>1. TypeOK /\ req[t] \in Requests
  BY DEF OInv, TypeOK
<1>2. req' \in [Tabs -> Requests] /\ \A u \in Tabs : u # t => req'[u] = req[u]
  <2>1. \/ req' = [req EXCEPT ![t] = NoRequest]
        \/ req' = [req EXCEPT ![t] = [req[t] EXCEPT !.step = "create"]]
    BY DEF AllowCreate, Done, Goto
  <2>2. [req[t] EXCEPT !.step = "create"] \in Requests
    BY <1>1 DEF Requests, Steps
  <2> QED BY <1>1, <2>1, <2>2 DEF TypeOK
<1>3. /\ req[t].step = "allow" /\ req'[t].step \in {"idle", "create"}
      /\ req'[t].read \in {req[t].read, None}
  BY <1>1 DEF AllowCreate, At, Done, Goto, TypeOK, Requests, Memberships
<1>5. /\ active' = active /\ switched' \in [Tabs -> BOOLEAN]
      /\ \A u \in Tabs : u # t => switched'[u] = switched[u]
  BY <1>1 DEF AllowCreate, TypeOK
<1>6. ContextIsExplained(t)'
  BY <1>1, <1>3, <1>5 DEF AllowCreate, At, Done, Goto, OInv, NamedIsJoined, ReadIsJoined, TabsAreExplained, ContextIsExplained, TypeOK, Requests, Memberships, Joined
<1>7. CreatorWasFree(t)' /\ TargetIsNamed(t)'
  BY <1>1, <1>3 DEF AllowCreate, At, Done, Goto, OInv, CreatorWasFree, TargetIsNamed, InJoining, TypeOK, Memberships
<1>8. Settled /\ audit' = audit /\ lost' = lost
  BY <1>1 DEF Settled, AllowCreate, TypeOK
<1>9. JoinsAreAuditedOnce' /\ audit' \in [Orgs -> Nat] /\ lost' \in [Orgs -> Nat]
  BY <1>2, <1>3, <1>8, SettledJoins DEF JoinSteps
<1>10. \A u \in Tabs : u # t /\ ~switched'[u] => ~switched[u] /\ active' = active
  BY <1>1, <1>5 DEF TypeOK
<1> QED BY <1>2, <1>3, <1>5, <1>6, <1>7, <1>8, <1>9, <1>10, SettledStep

\* A member gets the organisation activated, and joins nothing.
LEMMA FindInvitationKeeps ==
    ASSUME OInv, NEW t \in Tabs, FindInvitation(t)
    PROVE  OInv'
<1> USE OrganizationAssumption, NoRequestIsIdle
<1>1. TypeOK /\ req[t] \in Requests
  BY DEF OInv, TypeOK
<1>2. req' \in [Tabs -> Requests] /\ \A u \in Tabs : u # t => req'[u] = req[u]
  <2>1. \/ req' = [req EXCEPT ![t] = NoRequest]
        \/ req' = [req EXCEPT ![t] = [req[t] EXCEPT !.step = "accept"]]
        \/ req' = [req EXCEPT ![t] = [req[t] EXCEPT !.target = Invited, !.step = "return"]]
    BY DEF FindInvitation, Done, Goto
  <2>2. [req[t] EXCEPT !.step = "accept"] \in Requests /\ [req[t] EXCEPT !.target = Invited, !.step = "return"] \in Requests
    BY <1>1 DEF Requests, Steps
  <2> QED BY <1>1, <2>1, <2>2 DEF TypeOK
<1>3. /\ req[t].step = "find" /\ req'[t].step \in {"idle", "return", "accept"}
      /\ req'[t].read \in {req[t].read, None}
  BY <1>1 DEF FindInvitation, At, Done, Goto, TypeOK, Requests, Memberships
<1>5. /\ active' = active /\ switched' \in [Tabs -> BOOLEAN]
      /\ \A u \in Tabs : u # t => switched'[u] = switched[u]
  BY <1>1 DEF FindInvitation, TypeOK
<1>6. ContextIsExplained(t)'
  BY <1>1, <1>3, <1>5 DEF FindInvitation, At, Done, Goto, OInv, NamedIsJoined, ReadIsJoined, TabsAreExplained, ContextIsExplained, TypeOK, Requests, Memberships, Joined
<1>7. CreatorWasFree(t)' /\ TargetIsNamed(t)'
  BY <1>1, <1>3 DEF FindInvitation, At, Done, Goto, OInv, CreatorWasFree, TargetIsNamed, InJoining, TypeOK, Memberships
<1>8. Settled /\ audit' = audit /\ lost' = lost
  BY <1>1 DEF Settled, FindInvitation, TypeOK
<1>9. JoinsAreAuditedOnce' /\ audit' \in [Orgs -> Nat] /\ lost' \in [Orgs -> Nat]
  BY <1>2, <1>3, <1>8, SettledJoins DEF JoinSteps
<1>10. \A u \in Tabs : u # t /\ ~switched'[u] => ~switched[u] /\ active' = active
  BY <1>1, <1>5 DEF TypeOK
<1> QED BY <1>2, <1>3, <1>5, <1>6, <1>7, <1>8, <1>9, <1>10, SettledStep

\* The switcher: the tab's own request is idle, the others are told.
LEMMA SwitchKeeps ==
    ASSUME OInv, NEW t \in Tabs, NEW o \in Orgs, Switch(t, o)
    PROVE  OInv'
<1> USE OrganizationAssumption
<1>1. TypeOK /\ req' = req /\ req[t].step = "idle" /\ Activates(t, o) /\ o # None
  BY DEF OInv, Switch, At
<1>2. /\ active' = o /\ members[o] # None
      /\ switched' \in [Tabs -> BOOLEAN]
      /\ \A u \in Tabs : (switched'[u] = TRUE) <=> (switched[u] = TRUE \/ (u # t /\ o # active))
  BY <1>1, ActivatesDoes
<1>3. ContextIsExplained(t)' /\ CreatorWasFree(t)' /\ TargetIsNamed(t)'
  BY <1>1 DEF ContextIsExplained, CreatorWasFree, TargetIsNamed, InJoining, At
<1>4. Settled /\ audit' = audit /\ lost' = lost
  BY <1>1 DEF Settled, Switch, TypeOK
<1>5. JoinsAreAuditedOnce' /\ audit' \in [Orgs -> Nat] /\ lost' \in [Orgs -> Nat]
  BY <1>1, <1>4, SettledJoins
<1>6. \A u \in Tabs : u # t /\ ~switched'[u] => ~switched[u] /\ active' = active
  BY <1>1, <1>2 DEF TypeOK
<1>7. req' \in [Tabs -> Requests] /\ \A u \in Tabs : u # t => req'[u] = req[u]
  BY <1>1 DEF TypeOK
<1>8. active' \in Orgs /\ Joined(active')
  BY <1>2 DEF OInv, NamedIsJoined
<1> QED BY <1>1, <1>2, <1>3, <1>4, <1>5, <1>6, <1>7, <1>8, SettledStep

\* The organisation is activated after the joining, or for a member who came back.
LEMMA ActivateTargetKeeps ==
    ASSUME OInv, NEW t \in Tabs, ActivateTarget(t)
    PROVE  OInv'
<1> USE OrganizationAssumption, NoRequestIsIdle
<1>1. TypeOK /\ req[t] \in Requests /\ Activates(t, req[t].target)
  BY DEF OInv, TypeOK, ActivateTarget
<1>2. req' \in [Tabs -> Requests] /\ \A u \in Tabs : u # t => req'[u] = req[u]
  <2>1. \/ req' = [req EXCEPT ![t] = NoRequest]
        \/ req' = [req EXCEPT ![t] = [req[t] EXCEPT !.step = "audit"]]
    BY DEF ActivateTarget, Done, Goto
  <2>2. [req[t] EXCEPT !.step = "audit"] \in Requests
    BY <1>1 DEF Requests, Steps
  <2> QED BY <1>1, <2>1, <2>2 DEF TypeOK
<1>3. /\ req'[t].read \in {req[t].read, None} /\ req'[t].step \in {"audit", "idle"}
      /\ req'[t].step = "audit" <=> req[t].step = "activate"
      /\ req'[t].step = "audit" => req'[t].target = req[t].target
      /\ req[t].step \in {"activate", "return"}
  BY <1>1 DEF ActivateTarget, Done, Goto, At, TypeOK, Requests
<1>4. /\ active' \in Orgs \cup {None} /\ (active' # None => members[active'] # None)
      /\ switched' \in [Tabs -> BOOLEAN]
      /\ \A u \in Tabs : (switched'[u] = TRUE) <=> (switched[u] = TRUE \/ (u # t /\ active' # active))
  <2>1. PICK o : Activates(t, o)
    BY <1>1
  <2>2. /\ active' = o /\ o \in Orgs \cup {None} /\ (o # None => members[o] # None)
        /\ switched' \in [Tabs -> BOOLEAN]
        /\ \A u \in Tabs : (switched'[u] = TRUE) <=> (switched[u] = TRUE \/ (u # t /\ o # active))
    BY <1>1, <2>1, ActivatesDoes
  <2> QED BY <2>2
<1>5. active' = active \/ active' = None \/ (active' \in Orgs /\ Joined(active'))
  BY <1>4 DEF OInv, NamedIsJoined
<1>6. ContextIsExplained(t)' /\ CreatorWasFree(t)'
  BY <1>3 DEF ContextIsExplained, CreatorWasFree, At
<1>7. TargetIsNamed(t)'
  <2>1. req'[t].step = "audit" => InJoining(t)
    BY <1>3 DEF InJoining, At
  <2>2. \A o : Joined(o)' <=> Joined(o)
    BY <1>1 DEF ActivateTarget, Joined
  <2> QED BY <1>3, <2>1, <2>2 DEF OInv, TabsAreExplained, TargetIsNamed, InJoining, At, Joined
<1>8. Settled /\ audit' = audit /\ lost' = lost
  BY <1>1 DEF Settled, ActivateTarget, TypeOK
<1>9. JoinsAreAuditedOnce' /\ audit' \in [Orgs -> Nat] /\ lost' \in [Orgs -> Nat]
  BY <1>2, <1>3, <1>8, SettledJoins DEF JoinSteps
<1>10. \A u \in Tabs : u # t /\ ~switched'[u] => ~switched[u] /\ active' = active
  BY <1>1, <1>4 DEF TypeOK
<1> QED BY <1>2, <1>3, <1>4, <1>5, <1>6, <1>7, <1>8, <1>9, <1>10, SettledStep

\* The end of a joining: it is recorded, or the request fails and it is lost.
LEMMA JoiningEnds ==
    ASSUME OInv, NEW t \in Tabs, Settled, req[t].step \in JoinSteps,
           req' = [req EXCEPT ![t] = NoRequest],
           \/ audit' = [audit EXCEPT ![req[t].target] = @ + 1] /\ lost' = lost
           \/ audit' = audit /\ lost' = [lost EXCEPT ![req[t].target] = @ + 1]
    PROVE  JoinsAreAuditedOnce' /\ audit' \in [Orgs -> Nat] /\ lost' \in [Orgs -> Nat]
<1> USE NoRequestIsIdle
<1>1. PICK joined \in Orgs : joined = req[t].target
  BY DEF OInv, TabsAreExplained, TargetIsNamed, InJoining, JoinSteps, At
<1>2. req'[t].step \notin JoinSteps /\ \A u \in Tabs : u # t => req'[u] = req[u]
  BY DEF OInv, TypeOK, JoinSteps
<1>3. audit \in [Orgs -> Nat] /\ lost \in [Orgs -> Nat] /\ joins \in [Orgs -> Nat]
  BY DEF OInv, TypeOK
<1>4. audit' \in [Orgs -> Nat] /\ lost' \in [Orgs -> Nat]
  BY <1>1, <1>3
<1>5. /\ audit'[joined] + lost'[joined] = audit[joined] + lost[joined] + 1
      /\ \A o \in Orgs : o # joined => audit'[o] = audit[o] /\ lost'[o] = lost[o]
  BY <1>1, <1>3
<1>6. \A o : Joining(o)' = {u \in Tabs : req'[u].target = o /\ req'[u].step \in JoinSteps}
  BY DEF Joining, InJoining, At, JoinSteps
<1>7. ASSUME NEW o \in Orgs
      PROVE  Cardinality(Joining(o))' + audit'[o] + lost'[o] = joins[o]
  <2>1. Cardinality(Joining(o)) + audit[o] + lost[o] = joins[o]
    BY DEF OInv, JoinsAreAuditedOnce
  <2>2. CASE o = joined
    <3>1. Joining(o)' = Joining(o) \ {t} /\ t \in Joining(o)
      BY <1>1, <1>2, <1>6, <2>2, JoiningIs
    <3>2. Cardinality(Joining(o) \ {t}) = Cardinality(Joining(o)) - 1
      BY <3>1, JoiningIsFinite, FS_RemoveElement
    <3>3. Cardinality(Joining(o))' = Cardinality(Joining(o)) - 1
      BY <3>1, <3>2
    <3>4. audit'[o] + lost'[o] = audit[o] + lost[o] + 1
      BY <1>5, <2>2
    <3>5. Cardinality(Joining(o)) \in Nat /\ audit[o] \in Nat /\ lost[o] \in Nat /\ audit'[o] \in Nat /\ lost'[o] \in Nat
      BY <1>3, <1>4, JoiningIsFinite
    <3> QED BY <2>1, <3>3, <3>4, <3>5
  <2>3. CASE o # joined
    <3>1. Joining(o)' = Joining(o)
      BY <1>1, <1>2, <1>6, <2>3, JoiningIs
    <3>2. Cardinality(Joining(o))' = Cardinality(Joining(o))
      BY <3>1
    <3>3. audit'[o] = audit[o] /\ lost'[o] = lost[o]
      BY <1>5, <2>3
    <3> QED BY <2>1, <3>2, <3>3
  <2> QED BY <2>2, <2>3
<1>8. JoinsAreAuditedOnce'
  BY <1>7 DEF JoinsAreAuditedOnce, Settled
<1> QED BY <1>4, <1>8

\* A tab whose request is answered or fails knows nothing any more.
LEMMA AnsweredStep ==
    ASSUME OInv, NEW t \in Tabs, Settled, active' = active, switched' = switched,
           req' = [req EXCEPT ![t] = NoRequest],
           audit' \in [Orgs -> Nat], lost' \in [Orgs -> Nat], JoinsAreAuditedOnce'
    PROVE  OInv'
<1> USE NoRequestIsIdle
<1>1. TypeOK /\ req'[t] = NoRequest /\ req' \in [Tabs -> Requests]
  BY DEF OInv, TypeOK
<1>2. \A u \in Tabs : u # t => req'[u] = req[u]
  BY <1>1 DEF TypeOK
<1>3. ContextIsExplained(t)' /\ CreatorWasFree(t)' /\ TargetIsNamed(t)'
  BY <1>1 DEF ContextIsExplained, CreatorWasFree, TargetIsNamed, InJoining, At
<1>4. \A u \in Tabs : u # t /\ ~switched'[u] => ~switched[u] /\ active' = active
  OBVIOUS
<1>5. switched' \in [Tabs -> BOOLEAN] /\ req'[t].read \in {req[t].read, active, None}
  BY <1>1 DEF TypeOK
<1> QED BY <1>1, <1>2, <1>3, <1>4, <1>5, SettledStep

\* recordOrganizationAccessEvent ends the request that joined.
LEMMA RecordEventKeeps ==
    ASSUME OInv, NEW t \in Tabs, RecordEvent(t)
    PROVE  OInv'
<1>1. Settled /\ req' = [req EXCEPT ![t] = NoRequest] /\ req[t].step \in JoinSteps
  BY DEF Settled, RecordEvent, Done, OInv, TypeOK, At, JoinSteps
<1>2. JoinsAreAuditedOnce' /\ audit' \in [Orgs -> Nat] /\ lost' \in [Orgs -> Nat]
  BY <1>1, JoiningEnds DEF RecordEvent
<1> QED BY <1>1, <1>2, AnsweredStep DEF RecordEvent

\* So does a failure, at any step.
LEMMA FailKeeps ==
    ASSUME OInv, NEW t \in Tabs, Fail(t)
    PROVE  OInv'
<1>1. Settled /\ req' = [req EXCEPT ![t] = NoRequest]
  BY DEF Settled, Fail, Done, OInv, TypeOK
<1>2. JoinsAreAuditedOnce' /\ audit' \in [Orgs -> Nat] /\ lost' \in [Orgs -> Nat]
  <2>1. CASE InJoining(t)
    <3>1. req[t].step \in JoinSteps
      BY <2>1 DEF InJoining, At, JoinSteps
    <3> QED BY <1>1, <2>1, <3>1, JoiningEnds DEF Fail
  <2>2. CASE ~InJoining(t)
    <3>1. audit' = audit /\ lost' = lost
      BY <2>2 DEF Fail
    <3>2. req'[t] = NoRequest /\ \A u \in Tabs : u # t => req'[u] = req[u]
      BY <1>1 DEF OInv, TypeOK
    <3>3. req'[t].step \notin JoinSteps /\ req[t].step \notin JoinSteps
      BY <2>2, <3>2, NoRequestIsIdle DEF InJoining, At, JoinSteps
    <3> QED BY <1>1, <3>1, <3>2, <3>3, SettledJoins
  <2> QED BY <2>1, <2>2
<1> QED BY <1>1, <1>2, AnsweredStep DEF Fail

\* The page notes what the user is a member of.
LEMMA SendKeeps ==
    ASSUME OInv, NEW t \in Tabs, NEW kind \in Kinds, Send(t, kind)
    PROVE  OInv'
<1> USE OrganizationAssumption, NoRequestIsIdle
<1>1. TypeOK /\ req[t].step = "idle"
  BY DEF OInv, Send, At
<1>2. /\ members' = members /\ invitation' = invitation /\ active' = active
      /\ audit' = audit /\ lost' = lost /\ joins' = joins /\ switched' = switched
      /\ before' = [before EXCEPT ![t] = {o \in Orgs : members[o] # None}]
  BY DEF Send
<1>3. /\ req' \in [Tabs -> Requests] /\ \A u \in Tabs : u # t => req'[u] = req[u]
      /\ req'[t].step = "session" /\ req'[t].read = None
  <2>1. /\ [NoRequest EXCEPT !.kind = kind, !.step = "session"] \in Requests
        /\ [NoRequest EXCEPT !.kind = kind, !.step = "session"].read = None
        /\ [NoRequest EXCEPT !.kind = kind, !.step = "session"].step = "session"
    BY DEF NoRequest, Requests, Kinds, Steps
  <2> QED BY <1>1, <2>1 DEF Send, TypeOK
<1>4. /\ before' \in [Tabs -> SUBSET Orgs] /\ \A u \in Tabs : u # t => before'[u] = before[u]
      /\ \A o \in before'[t] : members[o] # None
  BY <1>1, <1>2 DEF TypeOK
<1>5. \A o : Joined(o)' <=> Joined(o)
  BY <1>2 DEF Joined
<1>6. \A o \in Orgs : members[o] # None => Joined(o)
  BY DEF OInv, NamedIsJoined
<1>7. TabMoves(t)
  <2>1. TypeOK'
    BY <1>1, <1>2, <1>3, <1>4 DEF TypeOK
  <2>2. \A u \in Tabs : u # t => req'[u] = req[u] /\ before'[u] = before[u]
    BY <1>3, <1>4
  <2>3. \A o \in Orgs : joins[o] <= joins'[o]
    BY <1>1, <1>2 DEF TypeOK
  <2>4. \A o \in Orgs \ {Invited} : Joined(o)' => members'[o] # None
    BY <1>2, <1>5 DEF OInv, NamedIsJoined
  <2> QED BY <1>2, <1>5, <1>6, <2>1, <2>2, <2>3, <2>4 DEF TabMoves
<1>8. TabKnows(t)
  <2>1. (active # None => Joined(active))'
    BY <1>2, <1>5 DEF OInv, NamedIsJoined, Joined
  <2>2. ReadIsJoined(t)'
    BY <1>3 DEF ReadIsJoined
  <2>3. \A o \in before'[t] : Joined(o)'
    <3>1. before'[t] \in SUBSET Orgs
      BY <1>4
    <3> QED BY <1>4, <1>5, <1>6, <3>1
  <2>4. ContextIsExplained(t)' /\ CreatorWasFree(t)' /\ TargetIsNamed(t)'
    BY <1>3 DEF ContextIsExplained, CreatorWasFree, TargetIsNamed, InJoining, At
  <2> QED BY <2>1, <2>2, <2>3, <2>4 DEF TabKnows
<1>9. JoinsAreAuditedOnce'
  <2>1. \A o : Joining(o)' = Joining(o)
    BY <1>1, <1>3, JoiningStays DEF JoinSteps
  <2> QED BY <1>2, <2>1, JoinsStay DEF OInv
<1> QED BY <1>7, <1>8, <1>9, TabStep

\* Without a request, nothing but the session is known.
LEMMA SignInKeeps ==
    ASSUME OInv, SignIn
    PROVE  OInv'
<1>1. TypeOK'
  BY DEF OInv, TypeOK, SignIn
<1>2. NamedIsJoined'
  BY DEF OInv, NamedIsJoined, ReadIsJoined, SignIn, Joined
<1>3. TabsAreExplained'
  BY DEF SignIn, TabsAreExplained, ContextIsExplained, CreatorWasFree, TargetIsNamed, InJoining, At
<1>4. JoinsAreAuditedOnce'
  <2>1. \A o : Joining(o)' = Joining(o)
    BY DEF SignIn, Joining, InJoining, At
  <2> QED BY <2>1, JoinsStay DEF OInv, SignIn
<1> QED BY <1>1, <1>2, <1>3, <1>4 DEF OInv

\* Only the organisation of the invitation is left.
LEMMA RemoveKeeps ==
    ASSUME OInv, Remove
    PROVE  OInv'
<1> USE OrganizationAssumption
<1>1. TypeOK'
  BY DEF OInv, TypeOK, Remove
<1>2. \A o : Joined(o)' <=> Joined(o)
  BY DEF OInv, TypeOK, Remove, Joined
<1>3. /\ members' \in [Orgs -> Roles \cup {None}] /\ joins' = joins
      /\ \A o \in Orgs \ {Invited} : members'[o] = members[o]
      /\ \A o \in Orgs : members'[o] # None => members[o] # None
      /\ members'[Invited] = None
  BY DEF OInv, TypeOK, Remove
<1>4. NamedIsJoined'
  <2>1. \A o \in Orgs : members'[o] # None => Joined(o)'
    BY <1>2, <1>3 DEF OInv, NamedIsJoined
  <2>2. (active # None => Joined(active))'
    BY <1>2 DEF OInv, NamedIsJoined, Remove, Joined, TypeOK
  <2>3. \A t \in Tabs : ReadIsJoined(t)'
    <3> SUFFICES ASSUME NEW t \in Tabs PROVE ReadIsJoined(t)'
      OBVIOUS
    <3>1. req[t] \in Requests /\ req'[t] = req[t]
      BY DEF OInv, TypeOK, Remove
    <3> QED BY <1>2, <3>1 DEF OInv, NamedIsJoined, ReadIsJoined, Joined, Requests
  <2>4. \A t \in Tabs : \A o \in before'[t] : Joined(o)'
    BY <1>2 DEF OInv, NamedIsJoined, Remove
  <2>5. \A o \in Orgs \ {Invited} : Joined(o)' => members'[o] # None
    BY <1>2, <1>3 DEF OInv, NamedIsJoined
  <2> QED BY <2>1, <2>2, <2>3, <2>4, <2>5 DEF NamedIsJoined
<1>5. TabsAreExplained'
  <2> SUFFICES ASSUME NEW t \in Tabs
               PROVE  ContextIsExplained(t)' /\ CreatorWasFree(t)' /\ TargetIsNamed(t)'
    BY DEF TabsAreExplained
  <2>1. ContextIsExplained(t) /\ CreatorWasFree(t) /\ TargetIsNamed(t)
    BY DEF OInv, TabsAreExplained
  <2>2. before[t] \in SUBSET Orgs
    BY DEF OInv, TypeOK
  <2> QED BY <1>2, <1>3, <2>1, <2>2 DEF Remove, ContextIsExplained, CreatorWasFree, TargetIsNamed, InJoining, At, Joined
<1>6. JoinsAreAuditedOnce'
  <2>1. \A o : Joining(o)' = Joining(o)
    BY DEF Remove, Joining, InJoining, At
  <2> QED BY <2>1, JoinsStay DEF OInv, Remove
<1> QED BY <1>1, <1>4, <1>5, <1>6 DEF OInv

\* A joining begins: one more row, and one more request that is to record it.
LEMMA JoiningBegins ==
    ASSUME OInv, NEW t \in Tabs, NEW joined \in Orgs,
           joins' = [joins EXCEPT ![joined] = @ + 1],
           \A u \in Tabs : u # t => req'[u] = req[u],
           req[t].step \notin JoinSteps,
           req'[t].step \in JoinSteps, req'[t].target = joined,
           audit' = audit, lost' = lost
    PROVE  JoinsAreAuditedOnce'
<1>1. \A o : Joining(o)' = {u \in Tabs : req'[u].target = o /\ req'[u].step \in JoinSteps}
  BY DEF Joining, InJoining, At, JoinSteps
<1>2. audit \in [Orgs -> Nat] /\ lost \in [Orgs -> Nat] /\ joins \in [Orgs -> Nat]
  BY DEF OInv, TypeOK
<1>3. ASSUME NEW o \in Orgs
      PROVE  Cardinality(Joining(o))' + audit[o] + lost[o] = joins'[o]
  <2>1. Cardinality(Joining(o)) + audit[o] + lost[o] = joins[o]
    BY DEF OInv, JoinsAreAuditedOnce
  <2>2. CASE o = joined
    <3>1. Joining(o)' = Joining(o) \cup {t} /\ t \notin Joining(o)
      BY <1>1, <2>2, JoiningIs
    <3>2. Cardinality(Joining(o) \cup {t}) = Cardinality(Joining(o)) + 1
      BY <3>1, JoiningIsFinite, FS_AddElement
    <3>3. Cardinality(Joining(o))' = Cardinality(Joining(o)) + 1
      BY <3>1, <3>2
    <3>4. joins'[o] = joins[o] + 1
      BY <1>2, <2>2
    <3>5. Cardinality(Joining(o)) \in Nat /\ audit[o] \in Nat /\ lost[o] \in Nat
      BY <1>2, JoiningIsFinite
    <3> QED BY <2>1, <3>3, <3>4, <3>5
  <2>3. CASE o # joined
    <3>1. Joining(o)' = Joining(o)
      BY <1>1, <2>3, JoiningIs
    <3>2. Cardinality(Joining(o))' = Cardinality(Joining(o))
      BY <3>1
    <3>3. joins'[o] = joins[o]
      BY <1>2, <2>3
    <3> QED BY <2>1, <3>2, <3>3
  <2> QED BY <2>2, <2>3
<1> QED BY <1>3 DEF JoinsAreAuditedOnce

\* A step that joins an organisation, which the others did not know yet or which is the
\* invitation's.
LEMMA JoiningStep ==
    ASSUME OInv, NEW t \in Tabs, NEW joined \in Orgs, NEW role \in Roles,
           joined = Invited \/ ~Joined(joined),
           members' = [members EXCEPT ![joined] = role],
           joins' = [joins EXCEPT ![joined] = @ + 1],
           invitation' = invitation,
           req' \in [Tabs -> Requests], \A u \in Tabs : u # t => req'[u] = req[u],
           active' \in {active, joined}, switched' \in [Tabs -> BOOLEAN],
           \A u \in Tabs : u # t => switched'[u],
           req[t].step \notin JoinSteps, req'[t].read = req[t].read,
           req'[t].step \in JoinSteps, req'[t].target = joined,
           audit' = audit, lost' = lost, before' = before
    PROVE  OInv'
<1> USE OrganizationAssumption
<1>1. /\ members' \in [Orgs -> Roles \cup {None}] /\ members'[joined] # None
      /\ \A o \in Orgs : o # joined => members'[o] = members[o]
  BY DEF OInv, TypeOK, Roles
<1>2. /\ joins' \in [Orgs -> Nat] /\ joins'[joined] = joins[joined] + 1 /\ joins \in [Orgs -> Nat]
      /\ \A o \in Orgs : o # joined => joins'[o] = joins[o]
  BY DEF OInv, TypeOK
<1>3. \A o \in Orgs : (Joined(o) => Joined(o)') /\ joins[o] <= joins'[o]
  BY <1>2 DEF Joined
<1>4. Joined(joined)' /\ \A o \in Orgs : o # joined => (Joined(o)' <=> Joined(o))
  BY <1>2 DEF Joined
<1>5. TabMoves(t)
  <2>1. TypeOK'
    BY <1>1, <1>2 DEF OInv, TypeOK
  <2>2. ASSUME NEW o \in Orgs, Joined(o), members'[o] # None
        PROVE  members[o] # None \/ (o = Invited /\ joins'[o] > 1)
    BY <1>1, <1>2, <2>2 DEF Joined
  <2>3. \A o \in Orgs : members'[o] # None => Joined(o)'
    BY <1>1, <1>4 DEF OInv, NamedIsJoined
  <2>4. \A o \in Orgs \ {Invited} : Joined(o)' => members'[o] # None
    BY <1>1, <1>4 DEF OInv, NamedIsJoined
  <2> QED BY <1>3, <2>1, <2>2, <2>3, <2>4 DEF TabMoves
<1>6. TabKnows(t)
  <2>1. (active # None => Joined(active))'
    <3>1. active # None => active \in Orgs /\ Joined(active)
      BY DEF OInv, TypeOK, NamedIsJoined
    <3> QED BY <1>3, <1>4, <3>1 DEF Joined
  <2>2. ReadIsJoined(t)'
    <3>1. req[t] \in Requests
      BY DEF OInv, TypeOK
    <3>2. req[t].read # None => req[t].read \in Orgs /\ Joined(req[t].read)
      BY <3>1 DEF OInv, NamedIsJoined, ReadIsJoined, Requests
    <3> QED BY <1>3, <3>2 DEF ReadIsJoined, Joined
  <2>3. \A o \in before'[t] : Joined(o)'
    <3>1. before[t] \in SUBSET Orgs
      BY DEF OInv, TypeOK
    <3> QED BY <1>3, <3>1 DEF OInv, NamedIsJoined
  <2>4. ContextIsExplained(t)' /\ CreatorWasFree(t)'
    BY DEF ContextIsExplained, CreatorWasFree, At, JoinSteps
  <2>5. TargetIsNamed(t)'
    BY <1>4 DEF TargetIsNamed, Joined
  <2> QED BY <2>1, <2>2, <2>3, <2>4, <2>5 DEF TabKnows
<1>7. JoinsAreAuditedOnce'
  BY JoiningBegins
<1> QED BY <1>5, <1>6, <1>7, TabStep

\* The new workspace is one the user was never in.
LEMMA CreateOrganizationKeeps ==
    ASSUME OInv, NEW t \in Tabs, CreateOrganization(t)
    PROVE  OInv'
<1> USE OrganizationAssumption
<1>1. PICK o \in Orgs \ {Invited} :
         /\ members[o] = None
         /\ joins' = [joins EXCEPT ![o] = @ + 1]
         /\ members' = [members EXCEPT ![o] = "owner"]
         /\ active' = o
         /\ req' = [req EXCEPT ![t].target = o, ![t].step = "activate"]
  BY DEF CreateOrganization
<1>2. TypeOK /\ req[t] \in Requests /\ req[t].step = "create"
  BY DEF OInv, TypeOK, CreateOrganization, At
<1>3. /\ req' \in [Tabs -> Requests] /\ \A u \in Tabs : u # t => req'[u] = req[u]
      /\ req'[t].read = req[t].read /\ req'[t].step = "activate" /\ req'[t].target = o
  BY <1>1, <1>2 DEF TypeOK, Requests, Steps
<1>4. ~Joined(o) /\ o \in Orgs /\ "owner" \in Roles
  BY <1>1 DEF OInv, NamedIsJoined, Roles
<1>5. /\ switched' \in [Tabs -> BOOLEAN]
      /\ \A u \in Tabs : u # t => switched'[u] = TRUE
  <2>1. \A u \in Tabs : (switched[u] \/ u # t) \in BOOLEAN
    OBVIOUS
  <2> QED BY <2>1 DEF CreateOrganization
<1>6. audit' = audit /\ lost' = lost /\ before' = before /\ invitation' = invitation
  BY DEF CreateOrganization
<1>7. req[t].step \notin JoinSteps /\ req'[t].step \in JoinSteps
  BY <1>2, <1>3 DEF JoinSteps
<1> QED BY <1>1, <1>3, <1>4, <1>5, <1>6, <1>7, JoiningStep

\* The invitation was pending when better-auth read it, or the request is refused.
LEMMA AcceptInvitationKeeps ==
    ASSUME OInv, NEW t \in Tabs, AcceptInvitation(t) \/ MarkAccepted(t)
    PROVE  OInv'
<1> USE OrganizationAssumption, NoRequestIsIdle
<1>1. TypeOK /\ req[t] \in Requests /\ req[t].step \in {"accept", "mark"}
  BY DEF OInv, TypeOK, AcceptInvitation, MarkAccepted, At
<1>2. /\ active' = active /\ audit' = audit /\ lost' = lost /\ switched' = switched
      /\ Settled
  BY <1>1 DEF AcceptInvitation, MarkAccepted, Settled, TypeOK
<1>3. CASE Done(t)
  <2>1. req' = [req EXCEPT ![t] = NoRequest]
    BY <1>3 DEF Done
  <2>2. req'[t] = NoRequest /\ \A u \in Tabs : u # t => req'[u] = req[u]
    BY <1>1, <2>1 DEF TypeOK
  <2>3. req'[t].step \notin JoinSteps /\ req[t].step \notin JoinSteps
    BY <1>1, <2>2 DEF JoinSteps
  <2>4. JoinsAreAuditedOnce' /\ audit' \in [Orgs -> Nat] /\ lost' \in [Orgs -> Nat]
    BY <1>2, <2>2, <2>3, SettledJoins
  <2> QED BY <1>2, <2>1, <2>4, AnsweredStep
<1>4. ASSUME NEW step \in {"mark", "member"}, Goto(t, step)
      PROVE  OInv'
  <2>1. req' = [req EXCEPT ![t] = [req[t] EXCEPT !.step = step]]
    BY <1>4 DEF Goto
  <2>2. [req[t] EXCEPT !.step = step] \in Requests
    BY <1>1 DEF Requests, Steps
  <2>3. /\ req' \in [Tabs -> Requests] /\ \A u \in Tabs : u # t => req'[u] = req[u]
        /\ req'[t].step = step /\ req'[t].read = req[t].read
    BY <1>1, <2>1, <2>2 DEF TypeOK, Requests
  <2>4. ContextIsExplained(t)' /\ CreatorWasFree(t)' /\ TargetIsNamed(t)'
    BY <2>3 DEF ContextIsExplained, CreatorWasFree, TargetIsNamed, InJoining, At
  <2>5. req'[t].step \notin JoinSteps /\ req[t].step \notin JoinSteps
    BY <1>1, <2>3 DEF JoinSteps
  <2>6. JoinsAreAuditedOnce' /\ audit' \in [Orgs -> Nat] /\ lost' \in [Orgs -> Nat]
    BY <1>2, <2>3, <2>5, SettledJoins
  <2>7. \A u \in Tabs : u # t /\ ~switched'[u] => ~switched[u] /\ active' = active
    BY <1>2
  <2>8. switched' \in [Tabs -> BOOLEAN]
    BY <1>1, <1>2 DEF TypeOK
  <2> QED BY <1>2, <2>3, <2>4, <2>6, <2>7, <2>8, SettledStep
<1> QED BY <1>3, <1>4 DEF AcceptInvitation, MarkAccepted

\* Two acceptances that read a pending invitation both get here.
LEMMA InsertMemberKeeps ==
    ASSUME OInv, NEW t \in Tabs, InsertMember(t)
    PROVE  OInv'
<1> USE OrganizationAssumption
<1>1. TypeOK /\ req[t] \in Requests /\ req[t].step = "member"
  BY DEF OInv, TypeOK, InsertMember, At
<1>2. /\ req' \in [Tabs -> Requests] /\ \A u \in Tabs : u # t => req'[u] = req[u]
      /\ req'[t].read = req[t].read /\ req'[t].step = "enter" /\ req'[t].target = Invited
  BY <1>1 DEF InsertMember, TypeOK, Requests, Steps
<1>3. /\ switched' \in [Tabs -> BOOLEAN]
      /\ \A u \in Tabs : u # t => switched'[u] = TRUE
  <2>1. \A u \in Tabs : (switched[u] \/ u # t) \in BOOLEAN
    OBVIOUS
  <2> QED BY <2>1 DEF InsertMember
<1>4. req[t].step \notin JoinSteps /\ req'[t].step \in JoinSteps /\ "member" \in Roles
  BY <1>1, <1>2 DEF JoinSteps, Roles
<1>5. /\ active' = active /\ audit' = audit /\ lost' = lost /\ before' = before
      /\ invitation' = invitation /\ members' = [members EXCEPT ![Invited] = "member"]
      /\ joins' = [joins EXCEPT ![Invited] = @ + 1]
  BY DEF InsertMember
<1> QED BY <1>2, <1>3, <1>4, <1>5, JoiningStep

\* better-auth makes it the session's, and asks no more whether the user is a member.
LEMMA EnterOrganizationKeeps ==
    ASSUME OInv, NEW t \in Tabs, EnterOrganization(t)
    PROVE  OInv'
<1> USE OrganizationAssumption
<1>1. TypeOK /\ req[t] \in Requests /\ req[t].step = "enter"
  BY DEF OInv, TypeOK, EnterOrganization, At
<1>2. req[t].target \in Orgs /\ Joined(req[t].target)
  BY <1>1 DEF OInv, TabsAreExplained, TargetIsNamed, InJoining, At
<1>3. /\ req' \in [Tabs -> Requests] /\ \A u \in Tabs : u # t => req'[u] = req[u]
      /\ req'[t].read = req[t].read /\ req'[t].step = "activate"
      /\ req'[t].target = req[t].target
  <2>1. req' = [req EXCEPT ![t] = [req[t] EXCEPT !.step = "activate"]]
    BY DEF EnterOrganization, Goto
  <2>2. [req[t] EXCEPT !.step = "activate"] \in Requests
    BY <1>1 DEF Requests, Steps
  <2> QED BY <1>1, <2>1, <2>2 DEF TypeOK, Requests
<1>4. /\ switched' \in [Tabs -> BOOLEAN]
      /\ \A u \in Tabs : u # t => switched'[u] = TRUE
  <2>1. \A u \in Tabs : (switched[u] \/ u # t) \in BOOLEAN
    OBVIOUS
  <2> QED BY <2>1 DEF EnterOrganization
<1>5. Settled /\ active' = req[t].target /\ audit' = audit /\ lost' = lost
  BY <1>1 DEF EnterOrganization, Settled, TypeOK
<1>6. ContextIsExplained(t)' /\ CreatorWasFree(t)'
  BY <1>3 DEF ContextIsExplained, CreatorWasFree, At
<1>7. TargetIsNamed(t)'
  BY <1>2, <1>3, <1>5, SettledStays DEF TargetIsNamed, Settled, Joined
<1>8. JoinsAreAuditedOnce' /\ audit' \in [Orgs -> Nat] /\ lost' \in [Orgs -> Nat]
  BY <1>1, <1>3, <1>5, SettledJoins DEF JoinSteps
<1>9. \A u \in Tabs : u # t /\ ~switched'[u] => ~switched[u] /\ active' = active
  BY <1>4
<1> QED BY <1>2, <1>3, <1>4, <1>5, <1>6, <1>7, <1>8, <1>9, SettledStep

\* Nobody has joined anything at first, and no request is on its way.
LEMMA OInit == Init => OInv
<1> SUFFICES ASSUME Init PROVE OInv
  OBVIOUS
<1>1. TypeOK
  BY NoRequestIsIdle DEF Init, TypeOK
<1>2. NamedIsJoined
  <2>1. \A o \in Orgs : ~Joined(o) /\ members[o] = None
    BY DEF Init, Joined
  <2> QED BY <2>1, NoRequestIsIdle DEF Init, NamedIsJoined, ReadIsJoined
<1>4. TabsAreExplained
  BY NoRequestIsIdle DEF Init, TabsAreExplained, ContextIsExplained, CreatorWasFree,
     TargetIsNamed, InJoining, At
<1>3. JoinsAreAuditedOnce
  <2>1. \A o : Joining(o) = {}
    BY NoRequestIsIdle DEF Init, Joining, InJoining, At
  <2>2. \A o : Cardinality(Joining(o)) = 0
    BY <2>1, FS_EmptySet
  <2> QED BY <2>2 DEF Init, JoinsAreAuditedOnce
<1> QED BY <1>1, <1>2, <1>3, <1>4 DEF OInv

\* The invariant is inductive.
LEMMA OStep == OInv /\ [Next]_vars => OInv'
<1> SUFFICES ASSUME OInv, [Next]_vars PROVE OInv'
  OBVIOUS
<1>1. ASSUME NEW t \in Tabs, NEW kind \in Kinds, Send(t, kind)
      PROVE  OInv'
  BY <1>1, SendKeeps
<1>2. ASSUME NEW t \in Tabs, NEW o \in Orgs, Switch(t, o)
      PROVE  OInv'
  BY <1>2, SwitchKeeps
<1>3. ASSUME NEW t \in Tabs, Resolve(t)
      PROVE  OInv'
  BY <1>3, ReadSessionKeeps, ListOrganizationsKeeps, ClearActiveKeeps, PickOnlyKeeps,
     ReadRoleKeeps DEF Resolve
<1>4. ASSUME NEW t \in Tabs, Join(t)
      PROVE  OInv'
  BY <1>4, CheckWorkspaceKeeps, AllowCreateKeeps, CreateOrganizationKeeps, FindInvitationKeeps,
     AcceptInvitationKeeps, InsertMemberKeeps, EnterOrganizationKeeps, ActivateTargetKeeps,
     RecordEventKeeps DEF Join
<1>5. ASSUME NEW t \in Tabs, Answer(t) \/ Fail(t)
      PROVE  OInv'
  BY <1>5, AnswerKeeps, FailKeeps
<1>6. CASE SignIn \/ Remove
  BY <1>6, SignInKeeps, RemoveKeeps
<1>7. CASE UNCHANGED vars
  <2>1. \A o : Joining(o)' = Joining(o)
    BY <1>7 DEF vars, Joining, InJoining, At
  <2>2. JoinsAreAuditedOnce'
    BY <1>7, <2>1, JoinsStay DEF vars, OInv
  <2> QED BY <1>7, <2>2 DEF vars, OInv, TypeOK, NamedIsJoined, ReadIsJoined, TabsAreExplained,
        ContextIsExplained, CreatorWasFree, TargetIsNamed, InJoining, Joined, At
<1> QED BY <1>1, <1>2, <1>3, <1>4, <1>5, <1>6, <1>7 DEF Next

-----------------------------------------------------------------------------
\* Every row of the table of members is recorded once or lost with its request, in every
\* interleaving of any number of tabs (createWorkspace and acceptInvitation of
\* user-service.ts).
THEOREM JoinsAreRecorded == Spec => []JoinsAreAuditedOnce
<1>1. OInv => JoinsAreAuditedOnce
  BY DEF OInv
<1> QED BY <1>1, OInit, OStep, PTL DEF Spec

\* The user creates no workspace after having been in another when the request was sent.
THEOREM SecondWorkspacesOnlyOverlap == Spec => SecondWorkspacesOverlap
<1>1. OInv /\ [Next]_vars =>
         [\A t \in Tabs : CreateOrganization(t) =>
             \A o \in before[t] : members[o] = None \/ (o = Invited /\ joins[o] > 1)]_vars
  BY DEF OInv, TabsAreExplained, CreatorWasFree, CreateOrganization
<1> QED BY <1>1, OInit, OStep, PTL DEF Spec, SecondWorkspacesOverlap

\* The role of a context is the role in its organisation, or another tab has switched.
THEOREM RolesAreOfTheirOrganization == Spec => RoleIsOfOrganization
<1>1. ASSUME OInv, NEW t \in Tabs, ReadRole(t), req[t].org # None
      PROVE  switched[t] \/ req'[t].role = members[req[t].org]
  <2>1. TypeOK /\ req[t] \in Requests
    BY <1>1 DEF OInv, TypeOK
  <2>2. req'[t].role = IF active \in Memberships THEN members[active] ELSE None
    BY <1>1, <2>1 DEF ReadRole, TypeOK, Requests
  <2>3. ~switched[t] => active = req[t].org
    BY <1>1 DEF ReadRole, OInv, TabsAreExplained, ContextIsExplained
  <2>4. req[t].org \in Orgs
    BY <1>1, <2>1 DEF Requests
  <2> QED BY <2>2, <2>3, <2>4 DEF Memberships
<1>2. OInv /\ [Next]_vars =>
         [\A t \in Tabs : ReadRole(t) /\ req[t].org # None =>
             switched[t] \/ req'[t].role = members[req[t].org]]_vars
  BY <1>1
<1> QED BY <1>2, OInit, OStep, PTL DEF Spec, RoleIsOfOrganization

\* Only stale choices are taken out of the session, or another tab has switched.
THEOREM ChoicesAreRespected == Spec => FixUpsRespectChoices
<1>1. ASSUME OInv, NEW t \in Tabs, ClearActive(t) \/ PickOnly(t)
      PROVE  switched[t] \/ active \notin Memberships
  BY <1>1, OrganizationAssumption DEF OInv, TabsAreExplained, ContextIsExplained, ClearActive,
     PickOnly, Memberships
<1>2. OInv /\ [Next]_vars =>
         [\A t \in Tabs : (ClearActive(t) \/ PickOnly(t)) /\ active' # active =>
             switched[t] \/ active \notin Memberships]_vars
  BY <1>1
<1> QED BY <1>2, OInit, OStep, PTL DEF Spec, FixUpsRespectChoices

================================================================================
